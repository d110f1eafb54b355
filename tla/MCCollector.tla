---------------------------- MODULE MCCollector ----------------------------
(***************************************************************************)
(* Instances of Collector for TLC.  Pool b1 is a bonding-curve pool and a1 *)
(* an AMM pool of mint m1, b2 and a2 the same of m2; the scenarios differ  *)
(* in the pools they have and in which of the model's bounds are open.     *)
(***************************************************************************)
EXTENDS CollectorCohort, TLC

CONSTANTS b1, a1, b2, a2, m1, m2

\* two tokens, each with its bonding-curve pool and its AMM pool
TwoTokenMintOf  == (b1 :> m1) @@ (a1 :> m1) @@ (b2 :> m2) @@ (a2 :> m2)
TwoTokenPhaseOf == (b1 :> "BC") @@ (a1 :> "AMM") @@ (b2 :> "BC") @@ (a2 :> "AMM")

\* one token, and a bonding-curve pool of another
ThreePoolMintOf  == (b1 :> m1) @@ (a1 :> m1) @@ (b2 :> m2)
ThreePoolPhaseOf == (b1 :> "BC") @@ (a1 :> "AMM") @@ (b2 :> "BC")

\* nothing trades; the bonding-curve pool trades most, the first swap of
\* either pool of its token cannot be read
NoTrades  == [p \in Pools |-> 0]
FewTrades == (b1 :> 3) @@ (a1 :> 2) @@ (b2 :> 0)
FirstSwaps == {<<b1, 1>>, <<a1, 1>>}

\* exchanging the two tokens changes nothing
SwapTokens == {(b1 :> b2) @@ (b2 :> b1) @@ (a1 :> a2) @@ (a2 :> a1)
                 @@ (m1 :> m2) @@ (m2 :> m1)}
=============================================================================
