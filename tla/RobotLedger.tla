---------------------------- MODULE RobotLedger ----------------------------
(***************************************************************************)
(* What the trading process promises about the robots table, without       *)
(* goroutines, channels or failures.  ops[r] counts the buys and sells     *)
(* recorded for robot r, which alternate starting with a buy, and yield[r] *)
(* is its recorded fact_yield.  The record of a robot only ever moves      *)
(* forward, by one or more operations at once (a failed write is made good *)
(* by the next one), and never by less than the limits of the robot allow. *)
(***************************************************************************)
EXTENDS Integers

CONSTANTS Robots,    \* ids of the rows
          Limit      \* Limit[r] is the buy and the sell limit of robot r

VARIABLES ops, yield

ledger == <<ops, yield>>

Sells(n) == n \div 2
AtLimits(r, n) == Sells(n) * Limit[r].sell - (n - Sells(n)) * Limit[r].buy

Init == /\ ops   = [r \in Robots |-> 0]
        /\ yield = [r \in Robots |-> 0]

Advance(r) ==
    /\ ops'[r] > ops[r]
    /\ yield'[r] - yield[r] >= AtLimits(r, ops'[r]) - AtLimits(r, ops[r])
    /\ ops'   = [ops   EXCEPT ![r] = ops'[r]]
    /\ yield' = [yield EXCEPT ![r] = yield'[r]]

Next == \E r \in Robots : Advance(r)

Spec == Init /\ [][Next]_ledger
=============================================================================
