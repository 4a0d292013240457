--------------------------- MODULE HandlersProofs ---------------------------
(***************************************************************************)
(* Theorems about RobotHandlers, for any requests, users, bodies and       *)
(* bounds.  The table is sound whoever writes it (TableOK), it only grows  *)
(* (Grows), and what a request concluded from the row it read stays true   *)
(* of the row it writes (Sound): ownership, the plan and the parent never  *)
(* change, and a deleted robot stays deleted.  The copies of the Trade     *)
(* goroutines are never behind the rows they will overwrite (CopiesOK).    *)
(***************************************************************************)
EXTENDS RobotHandlers, SequenceTheorems, TLAPS

TableOK == /\ rows \in Seq(Row)
           /\ Lineage
           /\ \A i \in DOMAIN rows : rows[i].active => Planned(rows[i])

\* What no write ever changes in a row, or changes in one direction only.
Kept(r, s) ==
    /\ s.owner = r.owner /\ SamePlan(r, s)
    /\ s.parent = r.parent /\ s.favourite = r.favourite
    /\ r.deleted => s.deleted
    /\ s.active => r.active \/ Planned(r)

Grows == /\ rows' \in Seq(Row)
         /\ DOMAIN rows \subseteq DOMAIN rows'
         /\ \A i \in DOMAIN rows : Kept(rows[i], rows'[i])

RequestTypes ==
    /\ pc \in [Requests -> {"idle", "find", "judge", "write", "cast", "list"}]
    /\ op \in [Requests -> OnRobotRoutes \cup {"create", "robots", "catalog", Nothing}]
    /\ user \in [Requests -> Users \cup {Nothing}]
    /\ id \in [Requests -> Nat]
    /\ row \in [Requests -> Row \cup {Nothing}]
    /\ filter \in [Requests -> [ticker : Tickers \cup {Nothing}, owner : Users \cup {Nothing}]]
    /\ answer \in [Requests -> Outcomes \cup {Nothing}]
    /\ list \in [Requests -> SUBSET Nat]
    /\ gone \in [Requests -> SUBSET Nat]

\* The request is about the row with its id, which is not one of those
\* that were deleted when it began.
OnRow(q) == id[q] \in DOMAIN rows /\ id[q] \notin gone[q]

\* A row that may be inserted.
MayInsert(r) ==
    /\ r \in Row /\ ~r.active /\ ~r.deleted /\ r.ops = 0
    /\ \/ r.parent = 0 /\ ~r.favourite
       \/ r.parent \in DOMAIN rows /\ r.favourite /\ SamePlan(rows[r.parent], r)

MayUpdate(q) ==
    /\ OnRow(q) /\ user[q] = rows[id[q]].owner
    /\ op[q] # "delete" => Planned(rows[id[q]])

Sound(q) ==
    /\ \A i \in gone[q] : i \in DOMAIN rows /\ rows[i].deleted
    /\ pc[q] # "idle" => user[q] \in Users
    /\ pc[q] \in {"idle", "list"} => id[q] = 0
    /\ pc[q] = "find" => op[q] \in OnRobotRoutes
    /\ pc[q] = "judge" =>
         /\ OnRow(q) /\ op[q] \in OnRobotRoutes /\ row[q] \in Row
         /\ row[q].owner = rows[id[q]].owner /\ SamePlan(rows[id[q]], row[q])
    /\ pc[q] = "write" =>
         \/ op[q] = "create" /\ MayInsert(row[q]) /\ id[q] = 0
         \/ op[q] = "favourite" /\ MayInsert(row[q]) /\ OnRow(q)
         \/ op[q] \in {"delete", "activate", "deactivate"} /\ MayUpdate(q)
    /\ pc[q] = "cast" => OnRow(q)

HandlersInv == /\ TableOK /\ now \in Nat /\ RequestTypes
               /\ \A q \in Requests : Sound(q)

\* No request writes ops, so that a row gains deals from its copy only.
CopiesOK == /\ DOMAIN taken \subseteq DOMAIN rows
            /\ taken \in [DOMAIN taken -> Nat]
            /\ \A i \in DOMAIN taken : rows[i].ops <= taken[i]

Inv == HandlersInv /\ CopiesOK

-----------------------------------------------------------------------------
(* The table *)

LEMMA KeptItself == \A r : Kept(r, r)
  BY DEF Kept, SamePlan

LEMMA SeqFacts ==
    ASSUME rows \in Seq(Row)
    PROVE  /\ Len(rows) \in Nat /\ DOMAIN rows = 1..Len(rows)
           /\ \A i \in DOMAIN rows : rows[i] \in Row /\ i \in Nat /\ i > 0
  OBVIOUS

LEMMA UpdateOK ==
    ASSUME TableOK, NEW i \in DOMAIN rows, NEW s \in Row, Kept(rows[i], s),
           rows' = [rows EXCEPT ![i] = s]
    PROVE  TableOK' /\ Grows
  <1>1. rows \in Seq(Row)
    BY DEF TableOK
  <1>2. rows' \in Seq(Row) /\ Len(rows') = Len(rows) /\ DOMAIN rows' = DOMAIN rows
    BY <1>1
  <1>3. rows'[i] = s /\ \A j \in DOMAIN rows : j # i => rows'[j] = rows[j]
    BY <1>1
  <1>4. \A j \in DOMAIN rows : Kept(rows[j], rows'[j])
    BY <1>3, KeptItself
  <1>5. Grows
    BY <1>2, <1>4 DEF Grows
  <1>6. \A j \in DOMAIN rows' : rows'[j].active => Planned(rows'[j])
    BY <1>2, <1>4 DEF TableOK, Kept, SamePlan, Planned
  <1>7. Lineage'
    <2> SUFFICES ASSUME NEW j \in DOMAIN rows
                 PROVE  /\ rows'[j].favourite <=> rows'[j].parent # 0
                        /\ rows'[j].favourite =>
                             /\ rows'[j].parent \in 1..(j - 1)
                             /\ SamePlan(rows'[rows'[j].parent], rows'[j])
      BY <1>2 DEF Lineage, SamePlan
    <2>1. /\ rows[j].favourite <=> rows[j].parent # 0
          /\ rows[j].favourite => /\ rows[j].parent \in 1..(j - 1)
                                  /\ SamePlan(rows[rows[j].parent], rows[j])
      BY DEF TableOK, Lineage
    <2>2. rows'[j].favourite = rows[j].favourite /\ rows'[j].parent = rows[j].parent
          /\ SamePlan(rows[j], rows'[j])
      BY <1>4 DEF Kept
    <2>3. CASE rows[j].favourite
      <3>1. rows[j].parent \in DOMAIN rows
        BY <1>1, <2>1, <2>3
      <3>2. SamePlan(rows[rows[j].parent], rows'[rows[j].parent])
        BY <1>4, <3>1 DEF Kept
      <3> QED
        BY <2>1, <2>2, <2>3, <3>2 DEF SamePlan
    <2>4. CASE ~rows[j].favourite
      BY <2>1, <2>2, <2>4
    <2> QED
      BY <2>3, <2>4
  <1> QED
    BY <1>2, <1>5, <1>6, <1>7 DEF TableOK, Planned

LEMMA AppendOK ==
    ASSUME TableOK, NEW s, MayInsert(s), rows' = Append(rows, s)
    PROVE  /\ TableOK' /\ Grows
           /\ Len(rows') = Len(rows) + 1 /\ rows'[Len(rows')] = s
           /\ \A i \in DOMAIN rows : rows'[i] = rows[i]
  <1>1. rows \in Seq(Row) /\ s \in Row
    BY DEF TableOK, MayInsert
  <1> DEFINE n == Len(rows) + 1
  <1>2. /\ rows' \in Seq(Row) /\ Len(rows') = n /\ DOMAIN rows' = DOMAIN rows \cup {n}
        /\ rows'[n] = s /\ n \in Nat /\ DOMAIN rows = 1..(n - 1)
        /\ \A i \in DOMAIN rows : rows'[i] = rows[i]
    BY <1>1
  <1>3. Grows
    BY <1>2, KeptItself DEF Grows
  <1>4. \A j \in DOMAIN rows' : rows'[j].active => Planned(rows'[j])
    BY <1>2 DEF TableOK, MayInsert, Planned
  <1>5. Lineage'
    <2> SUFFICES ASSUME NEW j \in DOMAIN rows'
                 PROVE  /\ rows'[j].favourite <=> rows'[j].parent # 0
                        /\ rows'[j].favourite =>
                             /\ rows'[j].parent \in 1..(j - 1)
                             /\ SamePlan(rows'[rows'[j].parent], rows'[j])
      BY DEF Lineage, SamePlan
    <2> HIDE DEF n
    <2>1. CASE j = n
      BY <1>2, <2>1 DEF MayInsert
    <2>2. CASE j \in DOMAIN rows
      <3>1. /\ rows[j].favourite <=> rows[j].parent # 0
            /\ rows[j].favourite => /\ rows[j].parent \in 1..(j - 1)
                                    /\ SamePlan(rows[rows[j].parent], rows[j])
        BY <2>2 DEF TableOK, Lineage
      <3>2. \A k \in 1..(j - 1) : k \in DOMAIN rows
        BY <1>2, <2>2
      <3> QED
        BY <1>2, <2>2, <3>1, <3>2
    <2> QED
      BY <1>2, <2>1, <2>2
  <1> QED
    BY <1>2, <1>3, <1>4, <1>5 DEF TableOK, Planned

LEMMA SameTable ==
    ASSUME TableOK, rows' = rows
    PROVE  TableOK' /\ Grows
  BY KeptItself DEF TableOK, Lineage, SamePlan, Planned, Grows

(* What is sound about a request stays so when others work on the table. *)
LEMMA SoundKept ==
    ASSUME TableOK, Grows, NEW q \in Requests, Sound(q),
           pc'[q] = pc[q], op'[q] = op[q], user'[q] = user[q], id'[q] = id[q],
           row'[q] = row[q], gone'[q] = gone[q]
    PROVE  Sound(q)'
  <1>1. \A i \in gone[q] : i \in DOMAIN rows' /\ rows'[i].deleted
    BY DEF Sound, Grows, Kept
  <1>2. OnRow(q) => OnRow(q)'
    BY DEF OnRow, Grows
  <1>3. OnRow(q) => rows'[id[q]].owner = rows[id[q]].owner /\ SamePlan(rows[id[q]], rows'[id[q]])
    BY DEF OnRow, Grows, Kept
  <1>4. MayInsert(row[q]) => MayInsert(row[q])'
    BY DEF MayInsert, Grows, Kept, SamePlan
  <1>5. MayUpdate(q) => MayUpdate(q)'
    BY <1>2, <1>3 DEF MayUpdate, SamePlan, Planned
  <1>6. pc[q] = "judge" =>
          /\ row[q].owner = rows'[id[q]].owner /\ SamePlan(rows'[id[q]], row[q])
    BY <1>3 DEF Sound, SamePlan
  <1> QED
    BY <1>1, <1>2, <1>4, <1>5, <1>6 DEF Sound, SamePlan

-----------------------------------------------------------------------------
(* One request at a time *)

\* Nothing of request p changes.
Untouched(p) ==
    /\ pc'[p] = pc[p] /\ op'[p] = op[p] /\ user'[p] = user[p] /\ id'[p] = id[p]
    /\ row'[p] = row[p] /\ gone'[p] = gone[p]

Others(q) == \A p \in Requests \ {q} : Untouched(p)

LEMMA StepOK ==
    ASSUME HandlersInv, TableOK', Grows, now' \in Nat, RequestTypes',
           NEW q \in Requests, Sound(q)', Others(q)
    PROVE  HandlersInv'
  <1>1. ASSUME NEW p \in Requests \ {q} PROVE Sound(p)'
    <2>1. TableOK /\ p \in Requests /\ Sound(p) /\ Untouched(p)
      BY <1>1 DEF HandlersInv, Others
    <2> QED
      BY <2>1, SoundKept DEF Untouched
  <1>2. \A p \in Requests : Sound(p)'
    BY <1>1
  <1> QED
    BY <1>2 DEF HandlersInv

LEMMA AnswerOK ==
    ASSUME RequestTypes, NEW q \in Requests, NEW outcome \in Outcomes \cup {Nothing},
           NEW robots \in SUBSET Nat, AnswerList(q, outcome, robots)
    PROVE  RequestTypes' /\ Sound(q)' /\ Others(q)
  <1>1. Others(q)
    BY DEF RequestTypes, AnswerList, Goto, Others, Untouched
  <1>2. pc'[q] = "idle" /\ id'[q] = 0 /\ gone'[q] = {}
    BY DEF RequestTypes, AnswerList, Goto
  <1>3. Sound(q)'
    BY <1>2 DEF Sound
  <1>4. /\ pc' \in [Requests -> {"idle", "find", "judge", "write", "cast", "list"}]
        /\ op' \in [Requests -> OnRobotRoutes \cup {"create", "robots", "catalog", Nothing}]
        /\ user' \in [Requests -> Users \cup {Nothing}]
        /\ id' \in [Requests -> Nat]
    BY DEF RequestTypes, AnswerList, Goto
  <1>5. /\ row' \in [Requests -> Row \cup {Nothing}]
        /\ answer' \in [Requests -> Outcomes \cup {Nothing}]
        /\ list' \in [Requests -> SUBSET Nat]
        /\ gone' \in [Requests -> SUBSET Nat]
    BY DEF RequestTypes, AnswerList
  <1>6. filter' \in [Requests -> [ticker : Tickers \cup {Nothing}, owner : Users \cup {Nothing}]]
    BY DEF RequestTypes, AnswerList, Anything
  <1> QED
    BY <1>1, <1>3, <1>4, <1>5, <1>6 DEF RequestTypes

LEMMA ContinueOK ==
    ASSUME RequestTypes, NEW q \in Requests,
           NEW label \in {"judge", "write", "cast"}, Continue(q, label),
           NEW r \in Row \cup {Nothing}, row' = [row EXCEPT ![q] = r]
    PROVE  /\ RequestTypes' /\ Others(q)
           /\ pc'[q] = label /\ row'[q] = r
           /\ op'[q] = op[q] /\ user'[q] = user[q] /\ id'[q] = id[q] /\ gone'[q] = gone[q]
  <1>1. pc' \in [Requests -> {"idle", "find", "judge", "write", "cast", "list"}]
    BY DEF RequestTypes, Continue, Goto
  <1>2. row' \in [Requests -> Row \cup {Nothing}]
    BY DEF RequestTypes
  <1>3. RequestTypes'
    BY <1>1, <1>2 DEF RequestTypes, Continue
  <1>4. Others(q)
    BY DEF RequestTypes, Continue, Goto, Others, Untouched
  <1> QED
    BY <1>3, <1>4 DEF RequestTypes, Continue, Goto

LEMMA ContinueSame ==
    ASSUME RequestTypes, NEW q \in Requests,
           NEW label \in {"judge", "write", "cast"}, Continue(q, label), UNCHANGED row
    PROVE  /\ RequestTypes' /\ Others(q)
           /\ pc'[q] = label /\ row'[q] = row[q]
           /\ op'[q] = op[q] /\ user'[q] = user[q] /\ id'[q] = id[q] /\ gone'[q] = gone[q]
  <1>1. row[q] \in Row \cup {Nothing} /\ row' = [row EXCEPT ![q] = row[q]]
    BY DEF RequestTypes
  <1> QED
    BY <1>1, ContinueOK

LEMMA BeginOK ==
    ASSUME HandlersInv, NEW q \in Requests, NEW o, NEW u \in Users, Begin(q, o, u),
           o \in OnRobotRoutes \cup {"create", "robots", "catalog"}
    PROVE  /\ rows' = rows /\ now' = now
           /\ op' \in [Requests -> OnRobotRoutes \cup {"create", "robots", "catalog", Nothing}]
           /\ user' \in [Requests -> Users \cup {Nothing}]
           /\ answer' \in [Requests -> Outcomes \cup {Nothing}]
           /\ list' \in [Requests -> SUBSET Nat]
           /\ gone' \in [Requests -> SUBSET Nat]
           /\ op'[q] = o /\ user'[q] = u
           /\ gone'[q] = {i \in DOMAIN rows : rows[i].deleted}
           /\ \A p \in Requests \ {q} :
                 op'[p] = op[p] /\ user'[p] = user[p] /\ gone'[p] = gone[p]
           /\ id[q] = 0
  <1>1. RequestTypes /\ rows \in Seq(Row) /\ Sound(q) /\ pc[q] = "idle"
    BY DEF HandlersInv, TableOK, Begin
  <1>2. {i \in DOMAIN rows : rows[i].deleted} \in SUBSET Nat
    BY <1>1, SeqFacts
  <1> QED
    BY <1>1, <1>2 DEF Begin, RequestTypes, Sound

-----------------------------------------------------------------------------
(* A request begins *)

LEMMA BodyRow ==
    ASSUME NEW u \in Users, NEW body \in Bodies
    PROVE  [owner |-> u, parent |-> 0, favourite |-> FALSE, active |-> FALSE,
            ticker |-> body.ticker, start |-> UnmarshalTime(body.start),
            end |-> UnmarshalTime(body.end), deleted |-> FALSE, ops |-> 0] \in Row
  <1>1. body.ticker \in Tickers /\ body.start \in Nat \cup {Absent, JsonNull}
        /\ body.end \in Nat \cup {Absent, JsonNull}
    BY RobotHandlersAssumption
  <1>2. UnmarshalTime(body.start) \in Time
    BY <1>1 DEF UnmarshalTime, Time
  <1>3. UnmarshalTime(body.end) \in Time
    BY <1>1 DEF UnmarshalTime, Time
  <1> QED
    BY <1>1, <1>2, <1>3 DEF Row

LEMMA CreateStep ==
    ASSUME HandlersInv, NEW q \in Requests, NEW u \in Users, NEW owner \in Users,
           NEW body \in Bodies, CreateRobot(q, u, owner, body)
    PROVE  HandlersInv'
  <1> DEFINE r == [owner |-> u, parent |-> 0, favourite |-> FALSE, active |-> FALSE,
                   ticker |-> body.ticker, start |-> UnmarshalTime(body.start),
                   end |-> UnmarshalTime(body.end), deleted |-> FALSE, ops |-> 0]
  <1>1. r \in Row
    BY BodyRow
  <1>2. /\ ~r.active /\ ~r.deleted /\ r.ops = 0 /\ r.parent = 0 /\ ~r.favourite
    OBVIOUS
  <1>3. /\ Begin(q, "create", u) /\ UNCHANGED <<id, filter>>
        /\ row' = [row EXCEPT ![q] = r] /\ pc' = [pc EXCEPT ![q] = "write"]
    BY DEF CreateRobot, Goto
  <1> HIDE DEF r
  <1>4. RequestTypes /\ TableOK /\ now \in Nat
    BY DEF HandlersInv
  <1>5. /\ rows' = rows /\ now' = now
        /\ op' \in [Requests -> OnRobotRoutes \cup {"create", "robots", "catalog", Nothing}]
        /\ user' \in [Requests -> Users \cup {Nothing}]
        /\ answer' \in [Requests -> Outcomes \cup {Nothing}]
        /\ list' \in [Requests -> SUBSET Nat]
        /\ gone' \in [Requests -> SUBSET Nat]
        /\ op'[q] = "create" /\ user'[q] = u
        /\ gone'[q] = {i \in DOMAIN rows : rows[i].deleted}
        /\ \A p \in Requests \ {q} :
              op'[p] = op[p] /\ user'[p] = user[p] /\ gone'[p] = gone[p]
        /\ id[q] = 0
    BY <1>3, BeginOK
  <1>6. TableOK' /\ Grows
    BY <1>4, <1>5, SameTable
  <1>7. pc'[q] = "write" /\ row'[q] = r /\ id'[q] = 0
    BY <1>3, <1>4, <1>5 DEF RequestTypes
  <1>8. pc' \in [Requests -> {"idle", "find", "judge", "write", "cast", "list"}]
    BY <1>3, <1>4 DEF RequestTypes
  <1>9. row' \in [Requests -> Row \cup {Nothing}]
    BY <1>1, <1>3, <1>4 DEF RequestTypes
  <1>10. RequestTypes'
    BY <1>3, <1>4, <1>5, <1>8, <1>9 DEF RequestTypes
  <1>11. Others(q)
    BY <1>3, <1>4, <1>5 DEF RequestTypes, Others, Untouched
  <1>12. MayInsert(row[q])'
    BY <1>1, <1>2, <1>7 DEF MayInsert
  <1>13. Sound(q)'
    BY <1>5, <1>7, <1>12 DEF Sound
  <1> QED
    BY <1>4, <1>5, <1>6, <1>10, <1>11, <1>13, StepOK

LEMMA OnRobotStep ==
    ASSUME HandlersInv, NEW q \in Requests, NEW u \in Users, NEW o \in OnRobotRoutes,
           NEW i \in 1..MaxRobots, OnRobot(q, o, u, i)
    PROVE  HandlersInv'
  <1>1. /\ Begin(q, o, u) /\ id' = [id EXCEPT ![q] = i] /\ UNCHANGED <<row, filter>>
        /\ pc' = [pc EXCEPT ![q] = "find"]
    BY DEF OnRobot, Goto
  <1>2. RequestTypes /\ TableOK /\ now \in Nat /\ i \in Nat
    BY RobotHandlersAssumption DEF HandlersInv
  <1>3. /\ rows' = rows /\ now' = now
        /\ op' \in [Requests -> OnRobotRoutes \cup {"create", "robots", "catalog", Nothing}]
        /\ user' \in [Requests -> Users \cup {Nothing}]
        /\ answer' \in [Requests -> Outcomes \cup {Nothing}]
        /\ list' \in [Requests -> SUBSET Nat]
        /\ gone' \in [Requests -> SUBSET Nat]
        /\ op'[q] = o /\ user'[q] = u
        /\ gone'[q] = {j \in DOMAIN rows : rows[j].deleted}
        /\ \A p \in Requests \ {q} :
              op'[p] = op[p] /\ user'[p] = user[p] /\ gone'[p] = gone[p]
    BY <1>1, BeginOK
  <1>4. TableOK' /\ Grows
    BY <1>2, <1>3, SameTable
  <1>5. pc'[q] = "find"
    BY <1>1, <1>2 DEF RequestTypes
  <1>6. pc' \in [Requests -> {"idle", "find", "judge", "write", "cast", "list"}]
    BY <1>1, <1>2 DEF RequestTypes
  <1>7. id' \in [Requests -> Nat]
    BY <1>1, <1>2 DEF RequestTypes
  <1>8. RequestTypes'
    BY <1>1, <1>2, <1>3, <1>6, <1>7 DEF RequestTypes
  <1>9. Others(q)
    BY <1>1, <1>2, <1>3 DEF RequestTypes, Others, Untouched
  <1>10. Sound(q)'
    BY <1>3, <1>5 DEF Sound
  <1> QED
    BY <1>2, <1>3, <1>4, <1>8, <1>9, <1>10, StepOK

LEMMA ListBegins ==
    ASSUME HandlersInv, NEW q \in Requests, NEW u \in Users, NEW o \in {"robots", "catalog"},
           NEW t \in Tickers \cup {Nothing}, NEW owner \in Users \cup {Nothing},
           Begin(q, o, u), filter' = [filter EXCEPT ![q] = [ticker |-> t, owner |-> owner]],
           UNCHANGED <<id, row>>, Goto(q, "list")
    PROVE  HandlersInv'
  <1>1. RequestTypes /\ TableOK /\ now \in Nat
    BY DEF HandlersInv
  <1>2. /\ rows' = rows /\ now' = now
        /\ op' \in [Requests -> OnRobotRoutes \cup {"create", "robots", "catalog", Nothing}]
        /\ user' \in [Requests -> Users \cup {Nothing}]
        /\ answer' \in [Requests -> Outcomes \cup {Nothing}]
        /\ list' \in [Requests -> SUBSET Nat]
        /\ gone' \in [Requests -> SUBSET Nat]
        /\ op'[q] = o /\ user'[q] = u
        /\ gone'[q] = {j \in DOMAIN rows : rows[j].deleted}
        /\ \A p \in Requests \ {q} :
              op'[p] = op[p] /\ user'[p] = user[p] /\ gone'[p] = gone[p]
        /\ id[q] = 0
    BY BeginOK
  <1>3. TableOK' /\ Grows
    BY <1>1, <1>2, SameTable
  <1>4. pc'[q] = "list" /\ id'[q] = 0
    BY <1>1, <1>2 DEF RequestTypes, Goto
  <1>5. pc' \in [Requests -> {"idle", "find", "judge", "write", "cast", "list"}]
    BY <1>1 DEF RequestTypes, Goto
  <1>6. filter' \in [Requests -> [ticker : Tickers \cup {Nothing},
                                  owner : Users \cup {Nothing}]]
    BY <1>1 DEF RequestTypes
  <1>7. RequestTypes'
    BY <1>1, <1>2, <1>5, <1>6 DEF RequestTypes
  <1>8. Others(q)
    BY <1>1, <1>2 DEF RequestTypes, Others, Untouched, Goto
  <1>9. Sound(q)'
    BY <1>2, <1>4 DEF Sound
  <1> QED
    BY <1>1, <1>2, <1>3, <1>7, <1>8, <1>9, StepOK

LEMMA BeginSteps ==
    ASSUME HandlersInv, NEW q \in Requests, NEW u \in Users,
           \/ \E owner \in Users, body \in Bodies : CreateRobot(q, u, owner, body)
           \/ \E o \in OnRobotRoutes, i \in 1..MaxRobots : OnRobot(q, o, u, i)
           \/ UserRobots(q, u)
           \/ \E t \in Tickers \cup {Nothing}, owner \in Users \cup {Nothing} :
                 CatalogRobots(q, u, t, owner)
    PROVE  HandlersInv' /\ rows' = rows
  <1>1. CASE \E owner \in Users, body \in Bodies : CreateRobot(q, u, owner, body)
    <2>1. PICK owner \in Users, body \in Bodies : CreateRobot(q, u, owner, body)
      BY <1>1
    <2>2. HandlersInv'
      BY <2>1, CreateStep
    <2>3. Begin(q, "create", u)
      BY <2>1 DEF CreateRobot
    <2> QED
      BY <2>2, <2>3 DEF Begin
  <1>2. CASE \E o \in OnRobotRoutes, i \in 1..MaxRobots : OnRobot(q, o, u, i)
    BY <1>2, OnRobotStep DEF OnRobot, Begin
  <1>3. CASE UserRobots(q, u)
    BY <1>3, ListBegins DEF UserRobots, Begin
  <1>4. CASE \E t \in Tickers \cup {Nothing}, owner \in Users \cup {Nothing} :
                CatalogRobots(q, u, t, owner)
    BY <1>4, ListBegins DEF CatalogRobots, Begin
  <1> QED
    BY <1>1, <1>2, <1>3, <1>4

-----------------------------------------------------------------------------
(* A request goes on *)

LEMMA AnswerStep ==
    ASSUME HandlersInv, TableOK', Grows, now' \in Nat, NEW q \in Requests,
           NEW outcome \in Outcomes \cup {Nothing}, NEW robots \in SUBSET Nat,
           AnswerList(q, outcome, robots)
    PROVE  HandlersInv'
  BY AnswerOK, StepOK DEF HandlersInv

LEMMA AnswerSame ==
    ASSUME HandlersInv, rows' = rows, now' = now,
           NEW q \in Requests, NEW outcome \in Outcomes \cup {Nothing}, Answer(q, outcome)
    PROVE  HandlersInv'
  <1>1. TableOK' /\ Grows /\ now' \in Nat
    BY SameTable DEF HandlersInv
  <1>2. {} \in SUBSET Nat /\ AnswerList(q, outcome, {})
    BY DEF Answer
  <1> QED
    BY <1>1, <1>2, AnswerStep

LEMMA FilterOK ==
    ASSUME rows \in Seq(Row), NEW t, NEW u
    PROVE  /\ Filter(t, u) \in SUBSET Nat
           /\ \A i \in Filter(t, u) : i \in DOMAIN rows /\ ~rows[i].deleted
  <1>1. \A i \in DOMAIN rows : i \in Nat
    BY SeqFacts
  <1>2. CASE t = Nothing /\ u = Nothing
    BY <1>1, <1>2 DEF Filter, FindActivated
  <1>3. CASE t # Nothing /\ u = Nothing
    BY <1>1, <1>3 DEF Filter, FindActivatedByTicker
  <1>4. CASE t = Nothing /\ u # Nothing
    BY <1>1, <1>4 DEF Filter, FindActivatedByUserID
  <1>5. CASE t # Nothing /\ u # Nothing
    BY <1>1, <1>5 DEF Filter, FindActivatedByTickerUserID
  <1> QED
    BY <1>2, <1>3, <1>4, <1>5

LEMMA ListStep ==
    ASSUME HandlersInv, NEW q \in Requests, List(q)
    PROVE  HandlersInv' /\ rows' = rows
  <1>1. rows' = rows /\ now' = now
    BY DEF List
  <1>2. TableOK /\ rows \in Seq(Row) /\ now \in Nat
    BY DEF HandlersInv, TableOK
  <1>3. TableOK' /\ Grows
    BY <1>1, <1>2, SameTable
  <1>4. Filter(filter[q].ticker, filter[q].owner) \in SUBSET Nat
    BY <1>2, FilterOK
  <1>5. "ok" \in Outcomes /\ "error" \in Outcomes /\ {} \in SUBSET Nat
    BY DEF Outcomes
  <1>6. \/ AnswerList(q, "ok", Filter(filter[q].ticker, filter[q].owner))
        \/ AnswerList(q, "error", {})
    BY DEF List, Answer
  <1> QED
    BY <1>1, <1>2, <1>3, <1>4, <1>5, <1>6, AnswerStep

LEMMA FindStep ==
    ASSUME HandlersInv, NEW q \in Requests, FindByID(q)
    PROVE  HandlersInv' /\ rows' = rows
  <1>1. rows' = rows /\ now' = now /\ pc[q] = "find"
    BY DEF FindByID
  <1>2. TableOK /\ rows \in Seq(Row) /\ now \in Nat /\ RequestTypes /\ Sound(q)
    BY DEF HandlersInv, TableOK
  <1>3. TableOK' /\ Grows
    BY <1>1, <1>2, SameTable
  <1>4. CASE Answer(q, "not found") \/ Answer(q, FindFailed(q))
    <2>1. "not found" \in Outcomes /\ FindFailed(q) \in Outcomes
      BY DEF FindFailed, Outcomes
    <2>2. CASE Answer(q, "not found")
      BY <1>1, <2>1, <2>2, AnswerSame
    <2>3. CASE Answer(q, FindFailed(q))
      BY <1>1, <2>1, <2>3, AnswerSame
    <2> QED
      BY <1>1, <1>4, <2>2, <2>3
  <1>5. CASE /\ Visible(id[q]) /\ row' = [row EXCEPT ![q] = rows[id[q]]]
             /\ Continue(q, "judge")
    <2>1. id[q] \in DOMAIN rows /\ ~rows[id[q]].deleted /\ rows[id[q]] \in Row
      BY <1>2, <1>5 DEF Visible
    <2>2. /\ RequestTypes' /\ Others(q)
          /\ pc'[q] = "judge" /\ row'[q] = rows[id[q]]
          /\ op'[q] = op[q] /\ user'[q] = user[q] /\ id'[q] = id[q] /\ gone'[q] = gone[q]
      BY <1>2, <1>5, <2>1, ContinueOK
    <2>3. op[q] \in OnRobotRoutes /\ user[q] \in Users
      BY <1>1, <1>2 DEF Sound
    <2>4. id[q] \notin gone[q]
      BY <1>2, <2>1 DEF Sound
    <2>5. OnRow(q)'
      BY <1>1, <2>1, <2>2, <2>4 DEF OnRow
    <2>6. Sound(q)'
      BY <1>1, <1>2, <2>1, <2>2, <2>3, <2>5 DEF Sound, SamePlan
    <2> QED
      BY <1>1, <1>2, <1>3, <2>2, <2>6, StepOK
  <1> QED
    BY <1>1, <1>4, <1>5 DEF FindByID

(* Every handler answers, or goes on to write. *)
LEMMA JudgeStep ==
    ASSUME HandlersInv, NEW q \in Requests, Judge(q)
    PROVE  HandlersInv' /\ rows' = rows
  <1>1. rows' = rows /\ now' = now /\ pc[q] = "judge"
    BY DEF Judge
  <1>2. TableOK /\ rows \in Seq(Row) /\ now \in Nat /\ RequestTypes /\ Sound(q)
    BY DEF HandlersInv, TableOK
  <1>3. TableOK' /\ Grows
    BY <1>1, <1>2, SameTable
  <1>4. /\ OnRow(q) /\ row[q] \in Row /\ user[q] \in Users /\ rows[id[q]] \in Row
        /\ row[q].owner = rows[id[q]].owner /\ SamePlan(rows[id[q]], row[q])
        /\ \A i \in gone[q] : i \in DOMAIN rows /\ rows[i].deleted
    BY <1>1, <1>2 DEF Sound, OnRow
  <1>5. CASE Answer(q, "forbidden") \/ Answer(q, "bad request") \/ Answer(q, "ok")
    <2>1. "forbidden" \in Outcomes /\ "bad request" \in Outcomes /\ "ok" \in Outcomes
      BY DEF Outcomes
    <2>2. CASE Answer(q, "forbidden")
      BY <1>1, <2>1, <2>2, AnswerSame
    <2>3. CASE Answer(q, "bad request")
      BY <1>1, <2>1, <2>3, AnswerSame
    <2>4. CASE Answer(q, "ok")
      BY <1>1, <2>1, <2>4, AnswerSame
    <2> QED
      BY <1>1, <1>5, <2>2, <2>3, <2>4
  <1>6. CASE /\ op[q] \in {"delete", "activate", "deactivate"}
             /\ Owns(q) /\ (op[q] # "delete" => MaySwitch(q)) /\ Proceed(q)
    <2>1. /\ RequestTypes' /\ Others(q)
          /\ pc'[q] = "write" /\ row'[q] = row[q]
          /\ op'[q] = op[q] /\ user'[q] = user[q] /\ id'[q] = id[q] /\ gone'[q] = gone[q]
      BY <1>2, <1>6, ContinueSame DEF Proceed
    <2>2. MayUpdate(q)
      BY <1>4, <1>6 DEF MayUpdate, Owns, MaySwitch, Planned, SamePlan
    <2>3. MayUpdate(q)'
      BY <1>1, <2>1, <2>2 DEF MayUpdate, OnRow, Planned
    <2>4. Sound(q)'
      BY <1>1, <1>4, <1>6, <2>1, <2>3 DEF Sound
    <2> QED
      BY <1>1, <1>2, <1>3, <2>1, <2>4, StepOK
  <1>7. CASE FavouriteRobot(q)
    <2>1. op[q] = "favourite" /\ Continue(q, "write")
      BY <1>7 DEF FavouriteRobot
    <2>2. row' = [row EXCEPT ![q] = Copy(q)]
      BY <1>7 DEF FavouriteRobot
    <2>3. id[q] \in DOMAIN rows /\ id[q] \in Nat
      BY <1>2, <1>4 DEF OnRow, RequestTypes
    <2>4. /\ Copy(q) \in Row /\ ~Copy(q).active /\ ~Copy(q).deleted /\ Copy(q).ops = 0
          /\ Copy(q).parent = id[q] /\ Copy(q).favourite
          /\ Copy(q).ticker = row[q].ticker /\ Copy(q).start = row[q].start
          /\ Copy(q).end = row[q].end
      BY <1>4, <2>3 DEF Copy, Row
    <2>5. MayInsert(Copy(q))
      BY <1>4, <2>3, <2>4 DEF MayInsert, SamePlan
    <2>6. /\ RequestTypes' /\ Others(q)
          /\ pc'[q] = "write" /\ row'[q] = Copy(q)
          /\ op'[q] = op[q] /\ user'[q] = user[q] /\ id'[q] = id[q] /\ gone'[q] = gone[q]
      BY <1>2, <2>1, <2>2, <2>4, ContinueOK
    <2>7. MayInsert(row[q])'
      BY <1>1, <2>5, <2>6 DEF MayInsert, SamePlan
    <2>8. OnRow(q)'
      BY <1>1, <1>4, <2>6 DEF OnRow
    <2>9. Sound(q)'
      BY <1>1, <1>4, <2>1, <2>6, <2>7, <2>8 DEF Sound
    <2> QED
      BY <1>1, <1>2, <1>3, <2>6, <2>9, StepOK
  <1>8. CASE DeleteRobot(q)
    BY <1>5, <1>6, <1>8 DEF DeleteRobot
  <1>9. CASE ActivateRobot(q)
    BY <1>5, <1>6, <1>9 DEF ActivateRobot
  <1>10. CASE DeactivateRobot(q)
    BY <1>5, <1>6, <1>10 DEF DeactivateRobot
  <1>11. CASE RobotDetails(q)
    BY <1>5, <1>11 DEF RobotDetails
  <1> QED
    BY <1>1, <1>7, <1>8, <1>9, <1>10, <1>11 DEF Judge

-----------------------------------------------------------------------------
(* Who writes the table *)

\* The row an UPDATE of request q makes out of the old one.
Updated(q) ==
    CASE op[q] = "delete"     -> [rows[id[q]] EXCEPT !.deleted = TRUE]
      [] op[q] = "activate"   -> [rows[id[q]] EXCEPT !.active = TRUE]
      [] op[q] = "deactivate" -> [rows[id[q]] EXCEPT !.active = FALSE]

LEMMA CommittedOK ==
    ASSUME HandlersInv, NEW q \in Requests, pc[q] = "write"
    PROVE  \/ /\ op[q] = "create" /\ MayInsert(row[q]) /\ id[q] = 0
              /\ Committed(q) = Append(rows, row[q])
           \/ /\ op[q] = "favourite" /\ MayInsert(row[q]) /\ OnRow(q)
              /\ Committed(q) = Append(rows, row[q])
           \/ /\ op[q] \in {"delete", "activate", "deactivate"} /\ MayUpdate(q)
              /\ Committed(q) = [rows EXCEPT ![id[q]] = Updated(q)]
              /\ Updated(q) \in Row /\ Kept(rows[id[q]], Updated(q))
              /\ Updated(q).ops = rows[id[q]].ops
  <1>1. Sound(q) /\ rows \in Seq(Row)
    BY DEF HandlersInv, TableOK
  <1>2. CASE op[q] \in {"create", "favourite"}
    BY <1>1, <1>2 DEF Sound, Committed
  <1>3. CASE op[q] \in {"delete", "activate", "deactivate"}
    <2>1. MayUpdate(q) /\ id[q] \in DOMAIN rows /\ rows[id[q]] \in Row
      BY <1>1, <1>3 DEF Sound, MayUpdate, OnRow
    <2>2. Committed(q) = Written(q)
      BY <1>3 DEF Committed
    <2>3. CASE op[q] = "delete"
      <3>1. Updated(q) = [rows[id[q]] EXCEPT !.deleted = TRUE]
        BY <2>3 DEF Updated
      <3>2. Written(q) = [rows EXCEPT ![id[q]].deleted = TRUE]
        BY <2>3 DEF Written
      <3>3. /\ Updated(q) \in Row /\ Kept(rows[id[q]], Updated(q))
            /\ Updated(q).ops = rows[id[q]].ops
        BY <2>1, <3>1 DEF Row, Kept, SamePlan
      <3> QED
        BY <1>3, <2>1, <2>2, <3>1, <3>2, <3>3
    <2>4. CASE op[q] = "activate"
      <3>1. Updated(q) = [rows[id[q]] EXCEPT !.active = TRUE]
        BY <2>4 DEF Updated
      <3>2. Written(q) = [rows EXCEPT ![id[q]].active = TRUE]
        BY <2>4 DEF Written
      <3>3. /\ Updated(q) \in Row /\ Kept(rows[id[q]], Updated(q))
            /\ Updated(q).ops = rows[id[q]].ops
        BY <2>1, <2>4, <3>1 DEF Row, Kept, SamePlan, MayUpdate
      <3> QED
        BY <1>3, <2>1, <2>2, <3>1, <3>2, <3>3
    <2>5. CASE op[q] = "deactivate"
      <3>1. Updated(q) = [rows[id[q]] EXCEPT !.active = FALSE]
        BY <2>5 DEF Updated
      <3>2. Written(q) = [rows EXCEPT ![id[q]].active = FALSE]
        BY <2>5 DEF Written
      <3>3. /\ Updated(q) \in Row /\ Kept(rows[id[q]], Updated(q))
            /\ Updated(q).ops = rows[id[q]].ops
        BY <2>1, <3>1 DEF Row, Kept, SamePlan
      <3> QED
        BY <1>3, <2>1, <2>2, <3>1, <3>2, <3>3
    <2> QED
      BY <1>3, <2>3, <2>4, <2>5
  <1> QED
    BY <1>1, <1>2, <1>3 DEF Sound

LEMMA WriteTable ==
    ASSUME HandlersInv, NEW q \in Requests, pc[q] = "write", rows' \in {rows, Committed(q)}
    PROVE  TableOK' /\ Grows
  <1>1. TableOK
    BY DEF HandlersInv
  <1>2. CASE rows' = rows
    BY <1>1, <1>2, SameTable
  <1>3. CASE rows' = Committed(q)
    <2>1. CASE MayInsert(row[q]) /\ Committed(q) = Append(rows, row[q])
      BY <1>1, <1>3, <2>1, AppendOK
    <2>2. CASE /\ MayUpdate(q) /\ Committed(q) = [rows EXCEPT ![id[q]] = Updated(q)]
               /\ Updated(q) \in Row /\ Kept(rows[id[q]], Updated(q))
      <3>1. id[q] \in DOMAIN rows
        BY <2>2 DEF MayUpdate, OnRow
      <3> QED
        BY <1>1, <1>3, <2>2, <3>1, UpdateOK
    <2> QED
      BY <2>1, <2>2, CommittedOK
  <1> QED
    BY <1>2, <1>3

LEMMA WriteStep ==
    ASSUME HandlersInv, NEW q \in Requests, Write(q)
    PROVE  HandlersInv'
  <1>1. /\ pc[q] = "write" /\ rows' \in {rows, Committed(q)} /\ now' = now
        /\ \/ Answer(q, "ok") \/ Answer(q, "error")
           \/ op[q] \notin {"create", "delete"} /\ Continue(q, "cast") /\ UNCHANGED row
    BY DEF Write
  <1>2. TableOK' /\ Grows /\ now' \in Nat /\ RequestTypes /\ Sound(q)
    BY <1>1, WriteTable DEF HandlersInv
  <1>3. CASE Answer(q, "ok") \/ Answer(q, "error")
    <2>1. "ok" \in Outcomes /\ "error" \in Outcomes /\ {} \in SUBSET Nat
      BY DEF Outcomes
    <2>2. AnswerList(q, "ok", {}) \/ AnswerList(q, "error", {})
      BY <1>3 DEF Answer
    <2> QED
      BY <1>2, <2>1, <2>2, AnswerStep
  <1>4. CASE op[q] \notin {"create", "delete"} /\ Continue(q, "cast") /\ UNCHANGED row
    <2>1. /\ RequestTypes' /\ Others(q) /\ pc'[q] = "cast" /\ row'[q] = row[q]
          /\ op'[q] = op[q] /\ user'[q] = user[q] /\ id'[q] = id[q] /\ gone'[q] = gone[q]
      BY <1>2, <1>4, ContinueSame
    <2>2. OnRow(q) /\ user[q] \in Users
      BY <1>1, <1>2, <1>4 DEF Sound, MayUpdate
    <2>3. OnRow(q)'
      BY <1>2, <2>1, <2>2 DEF OnRow, Grows
    <2>4. \A i \in gone[q] : i \in DOMAIN rows' /\ rows'[i].deleted
      BY <1>2 DEF Sound, Grows, Kept
    <2>5. Sound(q)'
      BY <2>1, <2>2, <2>3, <2>4 DEF Sound
    <2> QED
      BY <1>2, <2>1, <2>5, StepOK
  <1> QED
    BY <1>1, <1>3, <1>4

LEMMA BroadcastStep ==
    ASSUME HandlersInv, NEW q \in Requests, Broadcast(q)
    PROVE  HandlersInv' /\ rows' = rows
  <1>1. /\ Answer(q, "ok") \/ Answer(q, Nothing)
        /\ rows' = rows /\ now' = now /\ "ok" \in Outcomes
    BY DEF Broadcast, Outcomes
  <1>2. CASE Answer(q, "ok")
    BY <1>1, <1>2, AnswerSame
  <1>3. CASE Answer(q, Nothing)
    BY <1>1, <1>3, AnswerSame
  <1> QED
    BY <1>1, <1>2, <1>3

(* What a write of a request does to the deals in the table: nothing, and  *)
(* a row it adds has none and nobody trades on it.                         *)
LEMMA WriteKeepsDeals ==
    ASSUME Inv, NEW q \in Requests, Write(q)
    PROVE  /\ CopiesOK'
           /\ \A i \in DOMAIN rows' \ DOMAIN rows :
                 /\ ~rows'[i].active /\ ~rows'[i].deleted /\ rows'[i].ops = 0
                 /\ i \notin DOMAIN taken'
  <1>1. /\ HandlersInv /\ TableOK /\ rows \in Seq(Row) /\ CopiesOK /\ taken' = taken
        /\ pc[q] = "write" /\ rows' \in {rows, Committed(q)}
    BY DEF Inv, HandlersInv, TableOK, Write
  <1>2. CASE rows' = rows
    BY <1>1, <1>2 DEF CopiesOK
  <1>3. CASE rows' = Committed(q)
    <2>1. CASE MayInsert(row[q]) /\ Committed(q) = Append(rows, row[q])
      <3>1. /\ Len(rows') = Len(rows) + 1 /\ rows'[Len(rows')] = row[q]
            /\ \A i \in DOMAIN rows : rows'[i] = rows[i]
        BY <1>1, <1>3, <2>1, AppendOK
      <3>2. DOMAIN rows' = DOMAIN rows \cup {Len(rows')}
        BY <1>1, <1>3, <2>1, <3>1 DEF MayInsert
      <3>3. ~row[q].active /\ ~row[q].deleted /\ row[q].ops = 0
        BY <2>1 DEF MayInsert
      <3> QED
        BY <1>1, <3>1, <3>2, <3>3 DEF CopiesOK
    <2>2. CASE /\ MayUpdate(q) /\ Committed(q) = [rows EXCEPT ![id[q]] = Updated(q)]
               /\ Updated(q).ops = rows[id[q]].ops
      <3>1. DOMAIN rows' = DOMAIN rows /\ \A i \in DOMAIN rows : rows'[i].ops = rows[i].ops
        BY <1>1, <1>3, <2>2
      <3> QED
        BY <1>1, <3>1 DEF CopiesOK
    <2> QED
      BY <1>1, <2>1, <2>2, CommittedOK
  <1> QED
    BY <1>1, <1>2, <1>3

-----------------------------------------------------------------------------
(* The rest of the system, and the invariant *)

\* No request moves and the table only grows.
LEMMA RequestsStay ==
    ASSUME HandlersInv, UNCHANGED request, TableOK', Grows, now' \in Nat
    PROVE  HandlersInv'
  <1>1. RequestTypes'
    BY DEF HandlersInv, RequestTypes, request
  <1>2. ASSUME NEW q \in Requests PROVE Sound(q)'
    <2>1. TableOK /\ Sound(q)
      BY DEF HandlersInv
    <2> QED
      BY <2>1, SoundKept DEF request
  <1> QED
    BY <1>1, <1>2 DEF HandlersInv

\* A position written from a copy is ahead of the one in the row.
LEMMA TradeWrites ==
    ASSUME Inv, NEW i \in DOMAIN taken, Trade(i)
    PROVE  /\ i \in DOMAIN rows /\ taken[i] \in Nat /\ rows[i].ops < taken[i] + 1
           /\ rows' = rows \/ rows' = [rows EXCEPT ![i].ops = taken[i] + 1]
           /\ taken' = [taken EXCEPT ![i] = taken[i] + 1]
  <1>1. CopiesOK /\ i \in DOMAIN rows /\ rows[i] \in Row
    BY SeqFacts DEF Inv, CopiesOK, HandlersInv, TableOK
  <1>2. rows[i].ops \in Nat /\ taken[i] \in Nat /\ rows[i].ops <= taken[i]
    BY <1>1 DEF CopiesOK, Row
  <1> QED
    BY <1>1, <1>2 DEF Trade

LEMMA TradeStep ==
    ASSUME Inv, NEW i \in DOMAIN taken, Trade(i)
    PROVE  /\ HandlersInv' /\ DOMAIN rows' = DOMAIN rows
           /\ \A j \in DOMAIN rows : /\ rows'[j].active = rows[j].active
                                     /\ rows'[j].deleted = rows[j].deleted
  <1> DEFINE n == taken[i] + 1
             s == [rows[i] EXCEPT !.ops = n]
  <1>1. /\ HandlersInv /\ TableOK /\ now \in Nat /\ rows \in Seq(Row)
        /\ i \in DOMAIN rows /\ rows[i] \in Row /\ n \in Nat
    BY TradeWrites, SeqFacts DEF Inv, HandlersInv, TableOK
  <1>2. UNCHANGED request /\ now' \in Nat
    BY <1>1 DEF Trade
  <1>3. rows' = rows \/ rows' = [rows EXCEPT ![i] = s]
    BY TradeWrites
  <1> HIDE DEF n
  <1>4. s \in Row
    BY <1>1, SMTT(20) DEF Row
  <1>5. /\ s.owner = rows[i].owner /\ s.ticker = rows[i].ticker
        /\ s.start = rows[i].start /\ s.end = rows[i].end
        /\ s.parent = rows[i].parent /\ s.favourite = rows[i].favourite
        /\ s.active = rows[i].active /\ s.deleted = rows[i].deleted
    BY <1>1, SMTT(20) DEF Row
  <1>6. Kept(rows[i], s)
    BY <1>5, Zenon DEF Kept, SamePlan
  <1> HIDE DEF s
  <1>7. TableOK' /\ Grows
    BY <1>1, <1>3, <1>4, <1>6, UpdateOK, SameTable
  <1> QED
    BY <1>1, <1>2, <1>3, <1>5, <1>7, RequestsStay

LEMMA TradeKeepsCopies ==
    ASSUME Inv, NEW i \in DOMAIN taken, Trade(i)
    PROVE  CopiesOK' /\ DOMAIN taken' = DOMAIN taken
  <1>1. /\ i \in DOMAIN rows /\ taken[i] \in Nat /\ rows[i].ops < taken[i] + 1
        /\ rows' = rows \/ rows' = [rows EXCEPT ![i].ops = taken[i] + 1]
        /\ taken' = [taken EXCEPT ![i] = taken[i] + 1]
    BY TradeWrites
  <1>2. rows \in Seq(Row) /\ rows[i] \in Row /\ CopiesOK
    BY <1>1, SeqFacts DEF Inv, HandlersInv, TableOK
  <1>3. /\ DOMAIN taken' = DOMAIN taken /\ taken'[i] = taken[i] + 1
        /\ \A j \in DOMAIN taken : j # i => taken'[j] = taken[j]
        /\ taken' \in [DOMAIN taken -> Nat]
    BY <1>1, <1>2 DEF CopiesOK
  <1>4. /\ DOMAIN rows' = DOMAIN rows
        /\ rows'[i].ops = rows[i].ops \/ rows'[i].ops = taken[i] + 1
        /\ \A j \in DOMAIN rows : j # i => rows'[j] = rows[j]
    BY <1>1, <1>2 DEF Row
  <1>5. rows[i].ops \in Nat
    BY <1>2 DEF Row
  <1>6. rows'[i].ops <= taken'[i]
    BY <1>1, <1>3, <1>4, <1>5
  <1> QED
    BY <1>2, <1>3, <1>4, <1>6 DEF CopiesOK

LEMMA NextCycleStep ==
    ASSUME Inv, NextCycle
    PROVE  Inv' /\ rows' = rows
  <1>1. /\ rows' = rows /\ now' = now /\ UNCHANGED request
        /\ taken' \in {NoCopies, [i \in FindToTrading |-> rows[i].ops]}
    BY DEF NextCycle
  <1>2. HandlersInv'
    BY <1>1, SameTable, RequestsStay DEF Inv, HandlersInv
  <1>3. \A i \in DOMAIN rows : rows[i].ops \in Nat /\ rows[i].ops <= rows[i].ops
    BY SeqFacts DEF Inv, HandlersInv, TableOK, Row
  <1>4. FindToTrading \subseteq DOMAIN rows
    BY DEF FindToTrading
  <1>5. CASE taken' = NoCopies
    BY <1>1, <1>2, <1>5 DEF Inv, CopiesOK, NoCopies
  <1>6. CASE taken' = [i \in FindToTrading |-> rows[i].ops]
    <2>1. DOMAIN taken' = FindToTrading /\ \A i \in FindToTrading : taken'[i] = rows[i].ops
      BY <1>6
    <2>2. taken' \in [FindToTrading -> Nat]
      BY <1>3, <1>4, <1>6
    <2> QED
      BY <1>1, <1>2, <1>3, <1>4, <2>1, <2>2 DEF Inv, CopiesOK
  <1> QED
    BY <1>1, <1>5, <1>6

LEMMA TickStep ==
    ASSUME Inv, Tick
    PROVE  Inv' /\ rows' = rows
  <1>1. /\ rows' = rows /\ taken' = taken /\ UNCHANGED request /\ now' \in Nat
        /\ TableOK /\ HandlersInv /\ CopiesOK
    BY DEF Tick, Inv, HandlersInv
  <1> QED
    BY <1>1, SameTable, RequestsStay DEF Inv, CopiesOK

LEMMA CrashStep ==
    ASSUME Inv, Crash
    PROVE  Inv' /\ rows' = rows
  <1>1. rows' = rows /\ now' = now /\ TableOK /\ now \in Nat /\ taken' = NoCopies
    BY DEF Crash, Inv, HandlersInv
  <1>2. TableOK'
    BY <1>1, SameTable
  <1>3. RequestTypes'
    BY DEF Crash, RequestTypes, Anything
  <1>4. \A q \in Requests : Sound(q)'
    BY DEF Crash, Sound
  <1>5. CopiesOK'
    BY <1>1 DEF CopiesOK, NoCopies
  <1> QED
    BY <1>1, <1>2, <1>3, <1>4, <1>5 DEF Inv, HandlersInv

LEMMA InitInv == Init => Inv
  <1> SUFFICES ASSUME Init PROVE Inv
    OBVIOUS
  <1>1. TableOK
    BY DEF Init, TableOK, Lineage
  <1>2. RequestTypes
    BY DEF Init, RequestTypes, Anything
  <1>3. \A q \in Requests : Sound(q)
    BY DEF Init, Sound
  <1>4. CopiesOK
    BY DEF Init, CopiesOK, NoCopies
  <1> QED
    BY <1>1, <1>2, <1>3, <1>4 DEF Init, Inv, HandlersInv

\* Who takes a step: only a request that writes and the trading process
\* touch the table.
LEMMA StepCases ==
    ASSUME Inv, [Next]_vars
    PROVE  /\ Inv'
           /\ \/ rows' = rows
              \/ \E q \in Requests : Write(q)
              \/ \E i \in DOMAIN taken : Trade(i)
  <1>1. ASSUME NEW q \in Requests, NEW u \in Users,
               \/ \E owner \in Users, body \in Bodies : CreateRobot(q, u, owner, body)
               \/ \E o \in OnRobotRoutes, i \in 1..MaxRobots : OnRobot(q, o, u, i)
               \/ UserRobots(q, u)
               \/ \E t \in Tickers \cup {Nothing}, owner \in Users \cup {Nothing} :
                     CatalogRobots(q, u, t, owner)
        PROVE  HandlersInv' /\ rows' = rows /\ taken' = taken
    <2>1. taken' = taken
      BY <1>1 DEF CreateRobot, OnRobot, UserRobots, CatalogRobots, Begin
    <2> QED
      BY <1>1, <2>1, BeginSteps DEF Inv
  <1>2. ASSUME NEW q \in Requests, Step(q)
        PROVE  HandlersInv' /\ ((rows' = rows /\ taken' = taken) \/ Write(q))
    <2>1. taken' = taken
      BY <1>2 DEF Step, FindByID, Judge, Write, Broadcast, List
    <2> QED
      BY <1>2, <2>1, FindStep, JudgeStep, WriteStep, BroadcastStep, ListStep DEF Step, Inv
  <1>3. CASE UNCHANGED vars
    <2>1. rows' = rows /\ now' = now /\ taken' = taken /\ UNCHANGED request
      BY <1>3 DEF vars
    <2> QED
      BY <2>1, SameTable, RequestsStay DEF Inv, HandlersInv, CopiesOK
  <1>4. CASE \E i \in DOMAIN taken : Trade(i)
    BY <1>4, TradeStep, TradeKeepsCopies DEF Inv
  <1>5. CASE NextCycle \/ Tick \/ Crash
    BY <1>5, NextCycleStep, TickStep, CrashStep
  <1>6. rows' = rows /\ taken' = taken => CopiesOK'
    BY DEF Inv, CopiesOK
  <1>7. ASSUME NEW q \in Requests, Write(q) PROVE CopiesOK'
    BY <1>7, WriteKeepsDeals
  <1> QED
    BY <1>1, <1>2, <1>3, <1>4, <1>5, <1>6, <1>7 DEF Next, Inv

THEOREM Invariance == Spec => []Inv
  <1>1. Inv /\ [Next]_vars => Inv'
    BY StepCases
  <1> QED
    BY InitInv, <1>1, PTL DEF Spec

-----------------------------------------------------------------------------
(* The theorems *)

(***************************************************************************)
(* Type correctness of handlers and table, with any number of requests.    *)
(***************************************************************************)
THEOREM HandlersTypeCorrect == Spec => []TypeOK
  <1>1. ASSUME Inv PROVE TypeOK
    <2>1. \E I \in SUBSET (DOMAIN rows) : taken \in [I -> Nat]
      BY <1>1 DEF Inv, CopiesOK
    <2> QED
      BY <1>1, <2>1 DEF Inv, HandlersInv, TableOK, RequestTypes, TypeOK
  <1> QED
    BY <1>1, Invariance, PTL

(***************************************************************************)
(* A robot without a plan never trades.                                    *)
(***************************************************************************)
THEOREM OnlyPlannedTrade == Spec => []PlannedOnly
  <1>1. Inv => PlannedOnly
    BY DEF Inv, HandlersInv, TableOK, PlannedOnly, FindToTrading, Inside
  <1> QED
    BY <1>1, Invariance, PTL

(***************************************************************************)
(* A favourite refers to an older robot with the same plan.                *)
(***************************************************************************)
THEOREM CopiesHaveOrigin == Spec => []Lineage
  <1>1. Inv => Lineage
    BY DEF Inv, HandlersInv, TableOK
  <1> QED
    BY <1>1, Invariance, PTL

(***************************************************************************)
(* Only a request of the owner starts, stops or deletes a robot.           *)
(***************************************************************************)
THEOREM OnlyOwnersAct == Spec => OwnerActs
  <1> DEFINE A == \A i \in DOMAIN rows :
                    rows'[i].active # rows[i].active \/ rows'[i].deleted # rows[i].deleted =>
                       \E q \in Requests :
                          pc[q] = "write" /\ id[q] = i /\ user[q] = rows[i].owner
  <1>1. ASSUME Inv, [Next]_vars PROVE A
    <2>1. CASE rows' = rows
      BY <2>1
    <2>2. CASE \E i \in DOMAIN taken : Trade(i)
      BY <1>1, <2>2, TradeStep
    <2>3. ASSUME NEW q \in Requests, Write(q), rows' = Committed(q) PROVE A
      <3>1. pc[q] = "write" /\ TableOK
        BY <1>1, <2>3 DEF Write, Inv, HandlersInv
      <3>2. CASE MayInsert(row[q]) /\ Committed(q) = Append(rows, row[q])
        BY <2>3, <3>1, <3>2, AppendOK
      <3>3. CASE MayUpdate(q) /\ Committed(q) = [rows EXCEPT ![id[q]] = Updated(q)]
        <4>1. user[q] = rows[id[q]].owner
          BY <3>3 DEF MayUpdate
        <4>2. \A i \in DOMAIN rows : i # id[q] => rows'[i] = rows[i]
          BY <2>3, <3>1, <3>3 DEF TableOK
        <4> QED
          BY <3>1, <4>1, <4>2
      <3> QED
        BY <1>1, <3>1, <3>2, <3>3, CommittedOK DEF Inv
    <2>4. \A q \in Requests : Write(q) => rows' = rows \/ rows' = Committed(q)
      BY DEF Write
    <2> QED
      BY <1>1, <2>1, <2>2, <2>3, <2>4, StepCases
  <1>2. Inv /\ [Next]_vars => [A]_vars
    BY <1>1
  <1> QED
    BY <1>2, Invariance, PTL DEF Spec, OwnerActs

(* A committed write is one step of the table, or none. *)
LEMMA CommitsOnce ==
    ASSUME HandlersInv, NEW q \in Requests, pc[q] = "write", rows' = Committed(q)
    PROVE  Table!Next \/ rows' = rows
  <1>1. TableOK /\ rows \in Seq(Row)
    BY DEF HandlersInv, TableOK
  <1>2. CASE MayInsert(row[q]) /\ Committed(q) = Append(rows, row[q])
    <2>1. Len(rows') = Len(rows) + 1 /\ \A i \in DOMAIN rows : rows'[i] = rows[i]
      BY <1>1, <1>2, AppendOK
    <2> QED
      BY <2>1 DEF Table!Next, Table!Insert
  <1>3. CASE op[q] \in {"delete", "activate", "deactivate"} /\ MayUpdate(q)
    <2>1. id[q] \in DOMAIN rows /\ rows[id[q]] \in Row
      BY <1>1, <1>3 DEF MayUpdate, OnRow
    <2>2. rows' = Written(q)
      BY <1>3 DEF Committed
    <2>3. CASE op[q] = "delete"
      <3>1. rows' = [rows EXCEPT ![id[q]].deleted = TRUE]
        BY <2>2, <2>3 DEF Written
      <3> QED
        BY <2>1, <3>1 DEF Table!Next, Table!Delete
    <2>4. CASE op[q] \in {"activate", "deactivate"}
      <3> DEFINE on == op[q] = "activate"
      <3>1. rows' = [rows EXCEPT ![id[q]].active = on] /\ on \in BOOLEAN
        BY <2>2, <2>4 DEF Written
      <3>2. rows[id[q]].active \in BOOLEAN
        BY <2>1 DEF Row
      <3>3. rows[id[q]].start # Null /\ rows[id[q]].end # Null
        BY <1>3, <2>4 DEF MayUpdate, Planned
      <3> HIDE DEF on
      <3>4. CASE rows[id[q]].active = on
        <4>1. [rows[id[q]] EXCEPT !.active = on] = rows[id[q]]
          BY <2>1, <3>4 DEF Row
        <4> QED
          BY <1>1, <2>1, <3>1, <4>1
      <3>5. CASE rows[id[q]].active # on
        <4>1. on = ~rows[id[q]].active
          BY <3>1, <3>2, <3>5
        <4>2. rows' = [rows EXCEPT ![id[q]].active = ~@]
          BY <3>1, <4>1
        <4> QED
          BY <2>1, <3>3, <4>2 DEF Table!Next, Table!Switch
      <3> QED
        BY <3>4, <3>5
    <2> QED
      BY <1>3, <2>3, <2>4
  <1> QED
    BY <1>2, <1>3, CommittedOK

LEMMA TableStep ==
    ASSUME Inv, [Next]_vars
    PROVE  [Table!Next]_rows
  <1>1. ASSUME NEW q \in Requests, Write(q) PROVE Table!Next \/ rows' = rows
    BY <1>1, CommitsOnce DEF Write, Inv
  <1>2. ASSUME NEW i \in DOMAIN taken, Trade(i) PROVE Table!Next \/ rows' = rows
    <2>1. /\ i \in DOMAIN rows /\ taken[i] \in Nat /\ rows[i].ops < taken[i] + 1
          /\ rows' = rows \/ rows' = [rows EXCEPT ![i].ops = taken[i] + 1]
      BY <1>2, TradeWrites
    <2>2. rows \in Seq(Row) /\ rows[i] \in Row
      BY <2>1, SeqFacts DEF Inv, HandlersInv, TableOK
    <2>3. ASSUME rows' = [rows EXCEPT ![i].ops = taken[i] + 1] PROVE Table!Deal(i)
      <3>1. rows'[i].ops = taken[i] + 1
        BY <2>1, <2>2, <2>3 DEF Row
      <3> QED
        BY <2>1, <2>3, <3>1 DEF Table!Deal
    <2> QED
      BY <2>1, <2>3 DEF Table!Next
  <1> QED
    BY <1>1, <1>2, StepCases

(***************************************************************************)
(* Overlapping requests and the trading process take back nothing of each  *)
(* other: the handlers and the positions written from copies, those after  *)
(* writes that failed among them, implement RobotTable.                    *)
(***************************************************************************)
THEOREM HandlersKeepTable == Spec => TableSpec
  <1>1. Init => Table!Init
    BY DEF Init, Table!Init
  <1>2. Inv /\ [Next]_vars => [Table!Next]_rows
    BY TableStep
  <1> QED
    BY <1>1, <1>2, Invariance, PTL DEF Spec, TableSpec, Table!Spec

(***************************************************************************)
(* A row comes into the table as one nobody has traded on or is trading    *)
(* on, whatever its parent was and has become since it was read.           *)
(***************************************************************************)
THEOREM RowsComeFresh == Spec => FreshRows
  <1> DEFINE A == \A i \in DOMAIN rows' \ DOMAIN rows :
                    /\ ~rows'[i].active /\ ~rows'[i].deleted /\ rows'[i].ops = 0
                    /\ i \notin DOMAIN taken'
  <1>1. ASSUME Inv, [Next]_vars PROVE A
    BY <1>1, StepCases, WriteKeepsDeals, TradeStep
  <1>2. Inv /\ [Next]_vars => [A]_vars
    BY <1>1
  <1> QED
    BY <1>2, Invariance, PTL DEF Spec, FreshRows

\* Only a step of request q ends request q successfully.
LEMMA EndsItself ==
    ASSUME HandlersInv, [Next]_vars, NEW q \in Requests,
           pc[q] # "idle", pc'[q] = "idle", answer'[q] = "ok"
    PROVE  Step(q)
  <1>1. RequestTypes
    BY DEF HandlersInv
  <1>2. ASSUME NEW p \in Requests, Step(p), p # q PROVE FALSE
    <2>1. \/ \E outcome, robots : AnswerList(p, outcome, robots)
          \/ \E label : Continue(p, label)
      BY <1>2 DEF Step, FindByID, Judge, DeleteRobot, FavouriteRobot, ActivateRobot,
                  DeactivateRobot, RobotDetails, Proceed, Write, Broadcast, List, Answer
    <2>2. pc'[q] = pc[q]
      BY <1>1, <1>2, <2>1 DEF AnswerList, Continue, Goto, RequestTypes
    <2> QED
      BY <2>2
  <1>3. ASSUME NEW p \in Requests, NEW u \in Users,
               \/ \E owner \in Users, body \in Bodies : CreateRobot(p, u, owner, body)
               \/ \E o \in OnRobotRoutes, i \in 1..MaxRobots : OnRobot(p, o, u, i)
               \/ UserRobots(p, u)
               \/ \E t \in Tickers \cup {Nothing}, owner \in Users \cup {Nothing} :
                     CatalogRobots(p, u, t, owner)
        PROVE  FALSE
    <2>1. \E label \in {"write", "find", "list"} : pc' = [pc EXCEPT ![p] = label]
      BY <1>3 DEF CreateRobot, OnRobot, UserRobots, CatalogRobots, Goto
    <2>2. pc'[q] # "idle"
      BY <1>1, <2>1 DEF RequestTypes
    <2> QED
      BY <2>2
  <1>4. CASE UNCHANGED vars \/ NextCycle \/ Tick \/ \E i \in DOMAIN taken : Trade(i)
    BY <1>4 DEF vars, NextCycle, Tick, Trade, request
  <1>5. CASE Crash
    <2>1. answer'[q] = Nothing
      BY <1>5 DEF Crash
    <2> QED
      BY <2>1, RobotHandlersAssumption DEF Outcomes
  <1> QED
    BY <1>2, <1>3, <1>4, <1>5 DEF Next

(***************************************************************************)
(* A request that comes after a deletion neither succeeds on the robot nor *)
(* lists it.                                                               *)
(***************************************************************************)
THEOREM DeletedNeverComeBack == Spec => DeletedStaysGone
  <1> DEFINE A == \A q \in Requests :
                    pc[q] # "idle" /\ pc'[q] = "idle" /\ answer'[q] = "ok" =>
                       id[q] \notin gone[q] /\ list'[q] \cap gone[q] = {}
  <1>1. ASSUME HandlersInv, [Next]_vars, NEW q \in Requests,
               pc[q] # "idle", pc'[q] = "idle", answer'[q] = "ok"
        PROVE  id[q] \notin gone[q] /\ list'[q] \cap gone[q] = {}
    <2>1. RequestTypes /\ Sound(q) /\ rows \in Seq(Row)
      BY <1>1 DEF HandlersInv, TableOK
    <2>2. \A outcome, robots : AnswerList(q, outcome, robots) =>
             answer'[q] = outcome /\ list'[q] = robots
      BY <2>1 DEF RequestTypes, AnswerList
    <2>3. id[q] = 0 => id[q] \notin gone[q]
      BY <2>1, SeqFacts DEF Sound
    <2>4. CASE FindByID(q)
      <3>1. Answer(q, "not found") \/ Answer(q, FindFailed(q))
        BY <1>1, <2>1, <2>4 DEF FindByID, Continue, Goto, RequestTypes
      <3> QED
        BY <1>1, <2>2, <3>1 DEF Answer, FindFailed
    <2>5. CASE Judge(q)
      <3>1. OnRow(q)
        BY <2>1, <2>5 DEF Judge, Sound
      <3>2. \E outcome : Answer(q, outcome)
        BY <1>1, <2>1, <2>5 DEF Judge, DeleteRobot, FavouriteRobot, ActivateRobot,
                 DeactivateRobot, RobotDetails, Proceed, Continue, Goto, RequestTypes
      <3> QED
        BY <2>2, <3>1, <3>2 DEF OnRow, Answer
    <2>6. CASE Write(q)
      <3>1. id[q] = 0 \/ OnRow(q)
        BY <2>1, <2>6 DEF Write, Sound, MayUpdate
      <3>2. \E outcome : Answer(q, outcome)
        BY <1>1, <2>1, <2>6 DEF Write, Continue, Goto, RequestTypes
      <3> QED
        BY <2>2, <2>3, <3>1, <3>2 DEF OnRow, Answer
    <2>7. CASE Broadcast(q)
      <3>1. OnRow(q) /\ (Answer(q, "ok") \/ Answer(q, Nothing))
        BY <2>1, <2>7 DEF Broadcast, Sound
      <3> QED
        BY <2>2, <3>1 DEF OnRow, Answer
    <2>8. CASE List(q)
      <3>1. id[q] = 0
        BY <2>1, <2>8 DEF List, Sound
      <3>2. list'[q] = Filter(filter[q].ticker, filter[q].owner)
        BY <1>1, <2>2, <2>8 DEF List, Answer
      <3>3. \A i \in list'[q] : ~rows[i].deleted
        BY <2>1, <3>2, FilterOK
      <3>4. \A i \in gone[q] : rows[i].deleted
        BY <2>1 DEF Sound
      <3> QED
        BY <2>3, <3>1, <3>3, <3>4
    <2> QED
      BY <1>1, <2>4, <2>5, <2>6, <2>7, <2>8, EndsItself DEF Step
  <1>2. Inv /\ [Next]_vars => [A]_vars
    BY <1>1 DEF Inv
  <1> QED
    BY <1>2, Invariance, PTL DEF Spec, DeletedStaysGone

-----------------------------------------------------------------------------
(* The table as the trading process sees it: module Trading keeps of a row *)
(* active, deleted and where the clock is relative to the plan, and lets   *)
(* users and clock change them by SetActive, SoftDelete and PlanClock.     *)

PlanOf(r) == IF Inside(r) THEN "inside"
             ELSE IF Planned(r) /\ now <= r.start /\ r.start + 1 < r.end THEN "before"
             ELSE "after"

Seen(i) == [active |-> rows[i].active, deleted |-> rows[i].deleted,
            plan |-> PlanOf(rows[i])]

SeenChange(i) ==
    \/ Seen(i)' = [Seen(i) EXCEPT !.active = ~@]
    \/ Seen(i)' = [Seen(i) EXCEPT !.deleted = TRUE]
    \/ Seen(i).plan = "before" /\ Seen(i)' = [Seen(i) EXCEPT !.plan = "inside"]
    \/ Seen(i).plan = "inside" /\ Seen(i)' = [Seen(i) EXCEPT !.plan = "after"]

\* One step does to a row what one step of Trading's environment does, or it
\* records deals, and then nothing else of the row changes.
AsTradingAssumes(i) ==
    /\ Seen(i)' = Seen(i) \/ SeenChange(i)
    /\ rows'[i].ops # rows[i].ops => rows'[i].ops > rows[i].ops /\ Seen(i)' = Seen(i)

EnvironmentStep ==
    /\ \A i \in DOMAIN rows : i \in DOMAIN rows' /\ AsTradingAssumes(i)
    /\ \A i \in DOMAIN rows' \ DOMAIN rows :
          /\ ~Seen(i)'.active /\ ~Seen(i)'.deleted /\ rows'[i].ops = 0
          /\ i \notin DOMAIN taken'

SeenTradable ==
    \A i \in DOMAIN rows :
        i \in FindToTrading <=>
            ~Seen(i).deleted /\ (Seen(i).plan = "inside" \/ Seen(i).active)

LEMMA SeenRow ==
    ASSUME HandlersInv, NEW i \in DOMAIN rows
    PROVE  /\ rows[i].active \in BOOLEAN /\ rows[i].ops \in Nat
           /\ now \in Nat
           /\ rows[i].start \in Nat \cup {Null} /\ rows[i].end \in Nat \cup {Null}
           /\ Null \notin Nat
  <1>1. rows[i] \in Row
    BY SeqFacts DEF HandlersInv, TableOK
  <1> QED
    BY <1>1, RobotHandlersAssumption DEF HandlersInv, Row, Time

(* A tick moves a plan by one phase at most: a plan without an instant     *)
(* between its ends is over from the start.                                *)
LEMMA PlanTicks ==
    ASSUME HandlersInv, NEW i \in DOMAIN rows, rows' = rows, now' = now + 1
    PROVE  AsTradingAssumes(i)
  <1> DEFINE r == rows[i]
  <1>1. r.start \in Nat \cup {Null} /\ r.end \in Nat \cup {Null} /\ now \in Nat /\ Null \notin Nat
    BY SeenRow
  <1>2. rows'[i] = r
    OBVIOUS
  <1>3. CASE ~Planned(r)
    BY <1>2, <1>3 DEF AsTradingAssumes, Seen, PlanOf, Inside, Planned
  <1>4. CASE Planned(r)
    <2>1. r.start \in Nat /\ r.end \in Nat
      BY <1>1, <1>4 DEF Planned
    <2>2. \/ PlanOf(r)' = PlanOf(r)
          \/ PlanOf(r) = "before" /\ PlanOf(r)' = "inside"
          \/ PlanOf(r) = "inside" /\ PlanOf(r)' = "after"
      BY <1>1, <1>2, <1>4, <2>1 DEF PlanOf, Inside, Planned
    <2>3. /\ Seen(i).plan = PlanOf(r)
          /\ Seen(i)' = [Seen(i) EXCEPT !.plan = PlanOf(r)']
      BY <1>2 DEF Seen
    <2>4. [Seen(i) EXCEPT !.plan = PlanOf(r)] = Seen(i)
      BY DEF Seen
    <2> QED
      BY <1>2, <2>2, <2>3, <2>4 DEF AsTradingAssumes, SeenChange
  <1> QED
    BY <1>3, <1>4

LEMMA DeletedSeen ==
    ASSUME NEW a, NEW d, NEW p, NEW x
    PROVE  [[active |-> a, deleted |-> d, plan |-> p] EXCEPT !.deleted = x]
              = [active |-> a, deleted |-> x, plan |-> p]
  OBVIOUS

(* A write of a handler or of the trading process does one thing to a row. *)
LEMMA TableSeen ==
    ASSUME HandlersInv, HandlersInv', Table!Next, now' = now
    PROVE  \A i \in DOMAIN rows : i \in DOMAIN rows' /\ AsTradingAssumes(i)
  <1>1. /\ rows \in Seq(Row) /\ rows' \in Seq(Row)
        /\ Len(rows) \in Nat /\ DOMAIN rows = 1..Len(rows) /\ DOMAIN rows' = 1..Len(rows')
    BY DEF HandlersInv, TableOK
  <1>2. ASSUME NEW i \in DOMAIN rows, i \in DOMAIN rows', rows'[i] = rows[i]
        PROVE  AsTradingAssumes(i)
    BY <1>2 DEF AsTradingAssumes, Seen, PlanOf, Inside, Planned
  <1>3. CASE Table!Insert
    <2>1. Len(rows') = Len(rows) + 1 /\ \A i \in DOMAIN rows : rows'[i] = rows[i]
      BY <1>3 DEF Table!Insert
    <2>2. \A i \in DOMAIN rows : i \in DOMAIN rows'
      BY <1>1, <2>1
    <2> QED
      BY <1>2, <2>1, <2>2
  <1>4. ASSUME NEW j \in DOMAIN rows, Table!Switch(j) \/ Table!Delete(j) \/ Table!Deal(j)
        PROVE  \A i \in DOMAIN rows : i \in DOMAIN rows' /\ AsTradingAssumes(i)
    <2>1. DOMAIN rows' = DOMAIN rows /\ \A i \in DOMAIN rows : i # j => rows'[i] = rows[i]
      BY <1>1, <1>4, Zenon DEF Table!Switch, Table!Delete, Table!Deal
    <2>2. rows[j] \in Row /\ rows[j].active \in BOOLEAN /\ rows[j].ops \in Nat
      BY <1>1, SeenRow
    <2>3. ASSUME Table!Switch(j) PROVE AsTradingAssumes(j)
      <3>1. rows'[j] = [rows[j] EXCEPT !.active = ~@]
        BY <1>1, <2>3 DEF Table!Switch
      <3>2. Seen(j)' = [Seen(j) EXCEPT !.active = ~@] /\ rows'[j].ops = rows[j].ops
        BY <2>2, <3>1 DEF Seen, PlanOf, Inside, Planned, Row
      <3> QED
        BY <3>2 DEF AsTradingAssumes, SeenChange
    <2>4. ASSUME Table!Delete(j) PROVE AsTradingAssumes(j)
      <3>1. rows'[j] = [rows[j] EXCEPT !.deleted = TRUE]
        BY <1>1, <2>4 DEF Table!Delete
      <3>2. /\ rows'[j].start = rows[j].start /\ rows'[j].end = rows[j].end
            /\ rows'[j].active = rows[j].active /\ rows'[j].deleted = TRUE
            /\ rows'[j].ops = rows[j].ops
        BY <2>2, <3>1 DEF Row
      <3>3. PlanOf(rows[j])' = PlanOf(rows[j])
        BY <3>2 DEF PlanOf, Inside, Planned
      <3>4. Seen(j)' = [active |-> rows[j].active, deleted |-> TRUE, plan |-> PlanOf(rows[j])]
        BY <3>2, <3>3, Zenon DEF Seen
      <3>5. [Seen(j) EXCEPT !.deleted = TRUE]
              = [active |-> rows[j].active, deleted |-> TRUE, plan |-> PlanOf(rows[j])]
        <4> DEFINE a == rows[j].active
                   d == rows[j].deleted
                   p == PlanOf(rows[j])
                   x == TRUE
        <4>1. Seen(j) = [active |-> a, deleted |-> d, plan |-> p]
          BY Zenon DEF Seen
        <4> HIDE DEF a, d, p, x
        <4>2. [[active |-> a, deleted |-> d, plan |-> p] EXCEPT !.deleted = x]
                = [active |-> a, deleted |-> x, plan |-> p]
          BY DeletedSeen
        <4>3. [Seen(j) EXCEPT !.deleted = x] = [active |-> a, deleted |-> x, plan |-> p]
          BY <4>1, <4>2, Zenon
        <4> QED
          BY <4>3, Zenon DEF a, p, x
      <3>6. SeenChange(j)
        BY <3>4, <3>5, Zenon DEF SeenChange
      <3> QED
        BY <3>2, <3>6, Zenon DEF AsTradingAssumes
    <2>5. ASSUME Table!Deal(j) PROVE AsTradingAssumes(j)
      <3>1. /\ rows'[j] = [rows[j] EXCEPT !.ops = rows'[j].ops]
            /\ rows'[j].ops > rows[j].ops
        BY <1>1, <2>5 DEF Table!Deal
      <3>2. Seen(j)' = Seen(j)
        BY <2>2, <3>1 DEF Seen, PlanOf, Inside, Planned, Row
      <3> QED
        BY <3>1, <3>2 DEF AsTradingAssumes
    <2>6. AsTradingAssumes(j)
      BY <1>4, <2>3, <2>4, <2>5
    <2> QED
      BY <1>2, <2>1, <2>6
  <1> QED
    BY <1>3, <1>4 DEF Table!Next

(* Only a tick moves the clock, and it leaves the table alone. *)
LEMMA ClockTicks ==
    ASSUME [Next]_vars
    PROVE  now' = now \/ (now' = now + 1 /\ rows' = rows)
  <1>1. ASSUME NEW q \in Requests, Step(q) PROVE now' = now
    BY <1>1 DEF Step, FindByID, Judge, Write, Broadcast, List
  <1>2. ASSUME NEW q \in Requests, NEW u \in Users,
               \/ \E owner \in Users, body \in Bodies : CreateRobot(q, u, owner, body)
               \/ \E o \in OnRobotRoutes, i \in 1..MaxRobots : OnRobot(q, o, u, i)
               \/ UserRobots(q, u)
               \/ \E t \in Tickers \cup {Nothing}, owner \in Users \cup {Nothing} :
                     CatalogRobots(q, u, t, owner)
        PROVE  now' = now
    BY <1>2 DEF CreateRobot, OnRobot, UserRobots, CatalogRobots, Begin
  <1> QED
    BY <1>1, <1>2 DEF Next, NextCycle, Trade, Tick, Crash, vars

LEMMA EnvironmentStepOK ==
    ASSUME Inv, [Next]_vars
    PROVE  EnvironmentStep
  <1>1. HandlersInv /\ HandlersInv' /\ (Table!Next \/ rows' = rows)
    BY StepCases, TableStep DEF Inv
  <1>2. \A i \in DOMAIN rows : i \in DOMAIN rows' /\ AsTradingAssumes(i)
    <2>1. CASE now' = now /\ Table!Next
      BY <1>1, <2>1, TableSeen
    <2>2. CASE now' = now /\ rows' = rows
      BY <2>2 DEF AsTradingAssumes, Seen, PlanOf, Inside, Planned
    <2>3. CASE now' = now + 1 /\ rows' = rows
      BY <1>1, <2>3, PlanTicks
    <2> QED
      BY <1>1, <2>1, <2>2, <2>3, ClockTicks
  <1>3. \A i \in DOMAIN rows' \ DOMAIN rows :
           /\ ~rows'[i].active /\ ~rows'[i].deleted /\ rows'[i].ops = 0
           /\ i \notin DOMAIN taken'
    BY StepCases, WriteKeepsDeals, TradeStep
  <1> QED
    BY <1>2, <1>3 DEF EnvironmentStep, Seen

LEMMA SeenTradableOK == HandlersInv => SeenTradable
  BY DEF SeenTradable, FindToTrading, Seen, PlanOf

(***************************************************************************)
(* What module Trading assumes of everybody else, the handlers guarantee:  *)
(* FindToTrading selects by what Trading keeps of a row; between two of    *)
(* its steps a row is switched, deleted or reached by the clock as Trading *)
(* lets users do it, a new row starts as one nobody trades on, and a step  *)
(* that records deals, one or several at once, changes nothing else.       *)
(***************************************************************************)
THEOREM HandlersServeTrading == Spec => []SeenTradable /\ [][EnvironmentStep]_vars
  <1>1. Inv /\ [Next]_vars => EnvironmentStep
    BY EnvironmentStepOK
  <1>2. Inv => HandlersInv
    BY DEF Inv
  <1> QED
    BY <1>1, <1>2, SeenTradableOK, Invariance, PTL DEF Spec
=============================================================================
