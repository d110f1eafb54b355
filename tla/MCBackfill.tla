----------------------------- MODULE MCBackfill -----------------------------
(***************************************************************************)
(* Instances of Backfill for TLC.                                          *)
(***************************************************************************)
EXTENDS Backfill, TLC

CONSTANTS p1, p2, p3

TradesOf == p1 :> 2 @@ p2 :> 1 @@ p3 :> 0
UnreadableTxs == {<<p2, 1>>}
=============================================================================
