------------------------------ MODULE MCService ------------------------------
(***************************************************************************)
(* An instance of Service for TLC: one robot and one quote.                *)
(***************************************************************************)
EXTENDS Service, TLC

CONSTANTS r1, sber

Both     == [buy |-> 1, sell |-> 3]
PricesMC == {Both}
TickerMC == r1 :> sber

\* One robot buys and sells at that price, another buys and keeps.
TraderMC == r1 :> [buy |-> 5, sell |-> 0]
HolderMC == r1 :> [buy |-> 5, sell |-> 4]
=============================================================================
