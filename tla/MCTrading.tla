----------------------------- MODULE MCTrading -----------------------------
(***************************************************************************)
(* Instances of Trading for TLC.  Low makes every robot that is waiting    *)
(* buy and High makes every holding robot sell; the greedy limits trade on *)
(* both, with a loss, so the yields the limits allow are not all positive. *)
(***************************************************************************)
EXTENDS Trading, TLC

CONSTANTS r1, r2, sber, gazp

Low  == [buy |-> 1, sell |-> 1]
High == [buy |-> 4, sell |-> 3]
QuotesMC == {Low, High}

\* One quote at which every robot below trades, every time.
Both == [buy |-> 1, sell |-> 3]
BothMC == {Both}

Careful == [buy |-> 2, sell |-> 2]
Greedy  == [buy |-> 5, sell |-> 0]

\* One ticker for both robots: the fan-out.
SharedTicker == (r1 :> sber) @@ (r2 :> sber)
SharedLimit  == (r1 :> Careful) @@ (r2 :> Greedy)

\* A ticker each: independent pipelines under one barrier.
OwnTicker == (r1 :> sber) @@ (r2 :> gazp)
OwnLimit  == (r1 :> Careful) @@ (r2 :> Careful)

\* A single robot, for longer histories.
SoloTicker == r1 :> sber
SoloLimit  == r1 :> Greedy
=============================================================================
