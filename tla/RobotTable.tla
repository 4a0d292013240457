----------------------------- MODULE RobotTable -----------------------------
(***************************************************************************)
(* What the robots table goes through, whoever changes it: rows are added, *)
(* never leave, and each change of a row touches one thing and only moves  *)
(* it forward, so that no writer takes back what another one wrote.  The   *)
(* record of a robot may gain several buys and sells in one write.         *)
(***************************************************************************)
EXTENDS Naturals, Sequences

CONSTANT Null       \* NULL in a column

VARIABLE rows       \* rows[i] is the robot with robot_id i

Insert == /\ Len(rows') = Len(rows) + 1
          /\ \A i \in DOMAIN rows : rows'[i] = rows[i]

\* One user starts or stops a robot, only one that has a plan.
Switch(i) == /\ rows[i].start # Null /\ rows[i].end # Null
             /\ rows' = [rows EXCEPT ![i].active = ~@]

Delete(i) == rows' = [rows EXCEPT ![i].deleted = TRUE]

Deal(i) == /\ rows'[i].ops > rows[i].ops
           /\ rows' = [rows EXCEPT ![i].ops = rows'[i].ops]

Init == rows = <<>>
Next == Insert \/ \E i \in DOMAIN rows : Switch(i) \/ Delete(i) \/ Deal(i)
Spec == Init /\ [][Next]_rows
=============================================================================
