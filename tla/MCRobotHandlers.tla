-------------------------- MODULE MCRobotHandlers --------------------------
(***************************************************************************)
(* Instances of RobotHandlers for TLC.  The clock starts at 1 and passes   *)
(* before, inside and after the plan of Day; a body may also leave a plan  *)
(* out, or give its start as null.                                         *)
(***************************************************************************)
EXTENDS RobotHandlers, TLC

CONSTANTS ann, bob, sber, gazp, absent, null

Day      == [ticker |-> sber, start |-> 1, end |-> 3]
NullDay  == [ticker |-> sber, start |-> null, end |-> 3]
Unending == [ticker |-> sber, start |-> 1, end |-> absent]
OtherDay == [ticker |-> gazp, start |-> 1, end |-> 3]

PlansMC   == {Day, NullDay, Unending}
SpansMC   == {Day, NullDay}
TickersMC == {Day, OtherDay}

AllRoutes == {"create", "delete", "favourite", "activate", "deactivate", "details",
              "robots", "catalog"}
WriteRoutes == AllRoutes \ {"robots", "catalog", "details"}

Symmetry == Permutations(Requests) \cup Permutations(Users)
=============================================================================
