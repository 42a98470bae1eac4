---------------------------- MODULE MCCoinsCache ----------------------------
(* CoinsCache for TLC: two outpoints, two spendable coins (the same output   *)
(* confirmed at two heights) and one unspendable coin.                       *)
EXTENDS CoinsCache

CONSTANTS o1, o2, c1, c2, burn, h1, h2

=============================================================================
