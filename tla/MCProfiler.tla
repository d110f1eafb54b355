----------------------------- MODULE MCProfiler -----------------------------
(***************************************************************************)
(* A history of four launches for TLC: mintA starts on a bonding curve     *)
(* (curvePool) and graduates to an AMM (ammPool); otherPool is mintB's.  A *)
(* pool listed later (bare) has no date of its own and is never stored.    *)
(***************************************************************************)
EXTENDS Profiler, TLC

CONSTANTS ammPool, barePool, curvePool, otherPool, mintA, mintB, ada, bob

Launched(p, mint, dex, et) == [pool |-> p, mint |-> mint, dex |-> dex, et |-> et, slot |-> 0]

Bare == {Launched(barePool, mintB, "raydium", 3)}

History == {Launched(curvePool, mintA, "pumpfun", 0), Launched(ammPool, mintA, "pumpswap", 2),
            Launched(otherPool, mintB, "raydium", 1)} \cup Bare

Traded(slot, p, et, side, signer, root, usd) ==
  [pool |-> p, et |-> et, slot |-> slot, side |-> side, signer |-> signer, root |-> root,
   usd |-> usd, quote |-> usd \div 2]

Garbled == Bare \cup {Traded(14, curvePool, 2, "sell", bob, 1, 2)}

Feed == {Traded(1, curvePool, 0, "buy", ada, 1, 2), Traded(2, curvePool, 1, "buy", bob, 2, 2),
         Traded(3, curvePool, 2, "sell", ada, 1, 2),
         Traded(4, ammPool, 2, "buy", ada, 1, 2), Traded(5, ammPool, 3, "sell", ada, 2, 2),
         Traded(6, ammPool, 4, "buy", bob, 3, 4), Traded(7, ammPool, 5, "buy", ada, 4, 4),
         Traded(8, ammPool, 5, "sell", bob, 2, 2), Traded(9, ammPool, 6, "buy", bob, 3, 2),
         Traded(10, ammPool, 7, "buy", ada, 4, 4), Traded(11, ammPool, 8, "sell", ada, 1, 2),
         Traded(12, otherPool, 1, "buy", bob, 0, 2), Traded(13, otherPool, 2, "buy", bob, 1, 2)}
         \cup (Garbled \ Bare)
=============================================================================
