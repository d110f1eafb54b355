---------------------------- MODULE PinnedCohort ----------------------------
(***************************************************************************)
(* What the forward collector promises whoever reads its store: a recorded *)
(* universe, and a cohort of watched pools that enter it by evidence the   *)
(* store already holds, within limits, and leave it by age or to make room *)
(* for a pin.  It knows nothing of ticks, pages, batches and mints.  A     *)
(* process may be lost at any moment; its successor resumes the cohort     *)
(* that was saved last.                                                    *)
(***************************************************************************)
EXTENDS Integers, FiniteSets

CONSTANTS
  Precedes,    \* pairs <<q, p>>: q shows that p is a graduation
  Size,        \* how many pools are watched at most ...
  Share,       \* ... and how many of them without a pin
  Forgetful    \* may a saved cohort be unreadable?

VARIABLES
  recorded,    \* pools in the store
  collected,   \* swaps in the store, <<pool, n>>
  cohort,      \* what is watched (rest, pins) and what is never again (gone)
  saved,       \* the cohort as it was saved last
  old,         \* pools past the window of a pin
  up           \* is a process running?

vars == <<recorded, collected, cohort, saved, old, up>>

Nobody == [rest |-> {}, pins |-> {}, gone |-> {}]
Members(c) == c.rest \cup c.pins

Init ==
  /\ recorded = {} /\ collected = {} /\ old = {}
  /\ cohort = Nobody /\ saved = Nobody /\ up = FALSE

(* Pools get old for good.                                                 *)
Age == old \subseteq old' /\ UNCHANGED <<recorded, collected, cohort, saved, up>>

(* Members leave for good; pins only when they are old.                    *)
Retire ==
  /\ up
  /\ \E out \in SUBSET Members(cohort) :
       /\ out \cap cohort.pins \subseteq old
       /\ cohort' = [rest |-> cohort.rest \ out, pins |-> cohort.pins \ out,
                     gone |-> cohort.gone \cup out]
  /\ UNCHANGED <<recorded, collected, saved, old, up>>

(* The universe grows, by members or not; some of it joins the cohort,     *)
(* which may cost others their place, but no pin.                          *)
Newcomers == recorded' \ (Members(cohort) \cup cohort.gone)

Admit ==
  /\ up
  /\ recorded \subseteq recorded'
  /\ \E in, new \in SUBSET Newcomers, out \in SUBSET cohort.rest :
       /\ in \cap new = {}
       /\ \A p \in in : \E q \in recorded' : <<q, p>> \in Precedes
       /\ cohort' = [rest |-> (cohort.rest \ out) \cup new, pins |-> cohort.pins \cup in,
                     gone |-> cohort.gone \cup out]
  /\ Cardinality(Members(cohort')) <= Size /\ Cardinality(cohort'.rest) <= Share
  /\ UNCHANGED <<collected, saved, old, up>>

(* Swaps are only ever added, and only of members.                         *)
CollectsOfMembers ==
  collected \subseteq collected' /\ \A s \in collected' \ collected : s[1] \in Members(cohort)

Collect ==
  /\ up /\ CollectsOfMembers
  /\ UNCHANGED <<recorded, cohort, saved, old, up>>

Save == up /\ saved' = cohort /\ UNCHANGED <<recorded, collected, cohort, old, up>>

(* The process is lost, with what it was writing partly written.           *)
Lose ==
  /\ up /\ up' = FALSE
  /\ cohort' = Nobody
  /\ recorded \subseteq recorded' /\ CollectsOfMembers
  /\ UNCHANGED <<saved, old>>

Resume ==
  /\ ~up /\ up' = TRUE
  /\ cohort' = saved \/ (Forgetful /\ cohort' = Nobody)
  /\ UNCHANGED <<recorded, collected, saved, old>>

Next == Age \/ Retire \/ Admit \/ Collect \/ Save \/ Lose \/ Resume

Spec == Init /\ [][Next]_vars
=============================================================================
