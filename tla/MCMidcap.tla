------------------------------ MODULE MCMidcap ------------------------------
(***************************************************************************)
(* Instances of KillGate with six coins and seven pools.  pA rises fastest, *)
(* then pB and pC; pD stands still.  Losing c4's pool, which only a flaky   *)
(* request can, turns the verdict of momentum from fragile to UNPROVEN.  pB *)
(* starts a day late and pC misses a day, so that bar numbers and days      *)
(* disagree.  c5 shares c1's pool, c3 has a thin pool besides its own and   *)
(* its deepest on the second page, one of c1's has no reserve, and c6 has   *)
(* no mint.  pE, whose legs are pegged, is in the band of the top pools,    *)
(* which list it twice.                                                     *)
(***************************************************************************)
EXTENDS KillGate

MCNoReserve == -1
MCCoins == {"c1", "c2", "c3", "c4", "c5", "c6"}
MCPools == {"pA", "pB", "pC", "pD", "pE", "pF", "pG"}
MCPages == << <<"c1", "c4", "c6">>, <<"c4", "c2", "c3", "c5">> >>
MCTokenPools ==
  [c1 |-> << [pool |-> "pF", reserve |-> MCNoReserve], [pool |-> "pA", reserve |-> 800] >>,
   c2 |-> << [pool |-> "pB", reserve |-> 700] >>,
   c3 |-> << [pool |-> "pE", reserve |-> 20], [pool |-> "pC", reserve |-> 600],
             [pool |-> "pG", reserve |-> 900] >>,
   c4 |-> << [pool |-> "pD", reserve |-> 500] >>,
   c5 |-> << [pool |-> "pA", reserve |-> 800] >>,
   c6 |-> <<>>]
MCTopPools == << [pool |-> "pE", reserve |-> 200, fdvOk |-> TRUE],
                 [pool |-> "pD", reserve |-> 500, fdvOk |-> TRUE],
                 [pool |-> "pE", reserve |-> 20, fdvOk |-> TRUE] >>

Daily(first, closes, quiet) ==
  [k \in DOMAIN closes |->
     [day |-> first + k - 1, close |-> closes[k], high |-> IF k = 1 THEN 0 ELSE closes[k],
      volume |-> IF k \in quiet THEN 1 ELSE 4]]

MCMarkets ==
  [pA |-> Daily(1, <<1, 2, 3, 5, 7, 11, 16, 24, 36, 54, 80>>, {}),
   pB |-> Daily(2, <<4, 5, 7, 9, 12, 16, 21, 27, 35, 45>>, {6}),
   pC |-> Daily(1, <<8, 9, 11, 13>>, {}) \o Daily(6, <<15, 18, 21, 25, 29, 34>>, {2}),
   pD |-> Daily(1, <<20, 20, 19, 20, 20, 21, 20, 20, 20, 19, 20>>, {4}),
   pE |-> Daily(5, <<10, 10, 11, 10, 10, 10, 10>>, {}), pF |-> <<>>, pG |-> <<>>]
=============================================================================
