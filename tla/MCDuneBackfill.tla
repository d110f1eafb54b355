---------------------------- MODULE MCDuneBackfill --------------------------
(***************************************************************************)
(* An instance of DuneBackfill for TLC.  Token m1 trades on two markets,   *)
(* twice in one transaction; token m2 trades, sleeps for longer than the   *)
(* lookback and trades again; one row has no trader.  The three windows    *)
(* overlap: the cohort of the first is larger than max_rows, that of the   *)
(* second is m1 and that of the third is m2, taken for a new launch.       *)
(***************************************************************************)
EXTENDS DuneBackfill

CONSTANTS ray1, orca1, ray2, m1, m2, x0, x1, x2, x3, x4

MarketMint == [k \in Markets |-> IF k = ray2 THEN m2 ELSE m1]

T(n, tx, market, side, time, signed) ==
  [n |-> n, tx |-> tx, market |-> market, side |-> side, time |-> time, signed |-> signed]

History == {T(1, x0, ray2, "buy", 0, TRUE),
            T(2, x1, ray1, "buy", 1, TRUE),
            T(3, x2, ray1, "sell", 2, TRUE), T(4, x2, orca1, "buy", 2, TRUE),
            T(5, x3, ray1, "buy", 2, FALSE),
            T(6, x4, ray2, "sell", 3, TRUE)}

ThreeWindows == {<<0, 4>>, <<1, 3>>, <<2, 4>>}
=============================================================================
