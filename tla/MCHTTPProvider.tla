--------------------------- MODULE MCHTTPProvider ---------------------------
(* An instance of HTTPProvider for TLC: waits of one and two ticks.        *)
EXTENDS HTTPProvider

CONSTANTS c1, c2

ShortBackoff == [n \in 1..StopAfter |-> IF n = 1 THEN 1 ELSE 2]
=============================================================================
