-------------------------- MODULE CollectorCohort ---------------------------
(***************************************************************************)
(* Collector implements PinnedCohort: the ticks, pages, batches, partial   *)
(* writes and failures of collect.py amount to its few atomic steps.       *)
(***************************************************************************)
EXTENDS Collector

(* A bonding-curve pool precedes every AMM pool of its mint.               *)
Graduations ==
  {e \in Pools \X Pools :
     PhaseOf[e[1]] = "BC" /\ PhaseOf[e[2]] = "AMM" /\ MintOf[e[1]] = MintOf[e[2]]}

Recorded == {p \in Pools : PoolRow(p) \in rows}
Collected == {s \in SwapIds : SwapRow(s) \in rows}

(* bc_mints is how the collector remembers evidence; its readers need not. *)
CohortOf(m) == [rest |-> m.disc, pins |-> m.grad, gone |-> m.retired]

Old == {p \in Range(chain) : Expired(p, MaxPoolAge)}

Cohort == INSTANCE PinnedCohort WITH
  Precedes <- Graduations,
  Size <- WatchMax, Share <- DiscCap, Forgetful <- MayDiscard,
  recorded <- Recorded, collected <- Collected,
  cohort <- CohortOf(mem), saved <- CohortOf(disk),
  old <- Old, up <- (pc # "down")

(* What happens to pools, pins and swaps between two reads of the store is *)
(* explained by the cohort's atomic steps (collect.py 11-23).               *)
ImplementsCohort == Cohort!Spec
=============================================================================
