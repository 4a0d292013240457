--------------------------- MODULE RobotHandlers ---------------------------
(***************************************************************************)
(* The HTTP handlers for robots (cmd/auth-api/handlers/handlers.go) over   *)
(* the robots table (internal/postgres/robot.go).                          *)
(*                                                                         *)
(* A handler reads the row, judges it, and writes in a transaction of its  *)
(* own; between these steps other requests, the trading process and the    *)
(* clock go on.  Requests are those that passed authentication: user[q] is *)
(* the user of the session.  Prices and time stamps are left out.          *)
(***************************************************************************)
EXTENDS Naturals, Sequences

CONSTANTS Requests,   \* requests under way at one time
          Users,
          Tickers,
          Routes,     \* the operations requests ask for
          Bodies,     \* ticker, plan_start, plan_end of the bodies they bring
          Absent,     \* a time a body leaves out
          JsonNull,   \* a time a body gives as null
          Null,       \* NULL in a column of the table
          Nothing,    \* no row, no user, no ticker, no answer
          MaxRobots,  \* bound: rows
          MaxOps,     \* bound: buys and sells of a robot
          MaxTime     \* bound: the clock

Outcomes == {"ok", "not found", "forbidden", "bad request", "error"}

ASSUME RobotHandlersAssumption ==
    /\ Absent # JsonNull /\ {Absent, JsonNull, Null} \cap Nat = {}
    /\ \A body \in Bodies : body.ticker \in Tickers
                             /\ {body.start, body.end} \subseteq Nat \cup {Absent, JsonNull}
    /\ Routes \subseteq {"create", "delete", "favourite", "activate", "deactivate",
                         "details", "robots", "catalog"}
    /\ Nothing \notin Users \cup Tickers \cup Outcomes
    /\ MaxRobots \in Nat /\ MaxOps \in Nat /\ MaxTime \in Nat

VARIABLES
    rows,    \* the robots table: rows[i] has robot_id i
    now,     \* the time of day of the server and the database
    taken,   \* taken[i]: buys and sells in the copy of robot i that a Trade
             \* goroutine works on, for the robots of the running cycle
    pc,      \* pc[q]: what the handler of request q does next
    op,      \* op[q]: which handler it is
    user,    \* user[q]: UserID of the session
    id,      \* id[q]: the id in the URL
    row,     \* row[q]: the row FindByID returned, or the one to insert
    filter,  \* filter[q]: ticker and owner a list is to be restricted to
    answer,  \* answer[q]: the outcome of the last request of that name
    list,    \* list[q]: the robots that answer shows
    gone     \* history: gone[q]: robots that were deleted when request q began

request == <<pc, op, user, id, row, filter, answer, list, gone>>
vars == <<rows, now, taken, request>>

OnRobotRoutes == {"delete", "favourite", "activate", "deactivate", "details"}
Time == Nat \cup {Null}
Row == [owner : Users, parent : Nat, favourite : BOOLEAN, active : BOOLEAN,
        ticker : Tickers, start : Time, end : Time, deleted : BOOLEAN, ops : Nat]
Anything == [ticker |-> Nothing, owner |-> Nothing]
NoCopies == [i \in {} |-> 0]

Init ==
    /\ rows = <<>> /\ now = 1 /\ taken = NoCopies
    /\ pc = [q \in Requests |-> "idle"] /\ op = [q \in Requests |-> Nothing]
    /\ user = [q \in Requests |-> Nothing] /\ id = [q \in Requests |-> 0]
    /\ row = [q \in Requests |-> Nothing]
    /\ filter = [q \in Requests |-> Anything]
    /\ answer = [q \in Requests |-> Nothing] /\ list = [q \in Requests |-> {}]
    /\ gone = [q \in Requests |-> {}]

Goto(q, label) == pc' = [pc EXCEPT ![q] = label]

\* The handler returns; its locals are forgotten.
AnswerList(q, outcome, robots) ==
    /\ Goto(q, "idle")
    /\ answer' = [answer EXCEPT ![q] = outcome]
    /\ list' = [list EXCEPT ![q] = robots]
    /\ op' = [op EXCEPT ![q] = Nothing] /\ user' = [user EXCEPT ![q] = Nothing]
    /\ id' = [id EXCEPT ![q] = 0] /\ row' = [row EXCEPT ![q] = Nothing]
    /\ filter' = [filter EXCEPT ![q] = Anything]
    /\ gone' = [gone EXCEPT ![q] = {}]

Answer(q, outcome) == AnswerList(q, outcome, {})

Continue(q, label) ==
    /\ Goto(q, label)
    /\ UNCHANGED <<op, user, id, filter, answer, list, gone>>

\* plan_start and plan_end of a row are there, and now lies between them.
Planned(r) == r.start # Null /\ r.end # Null
Inside(r)  == Planned(r) /\ r.start < now /\ now < r.end

-----------------------------------------------------------------------------
(* Queries that list robots; those shown to users are ordered by robot_id. *)

\* Sensitivity variant: the query does not ask for deleted_at IS NULL.
FindEvenDeleted(u) == {i \in DOMAIN rows : rows[i].owner = u}

FindActivated == {i \in DOMAIN rows : ~rows[i].deleted}
FindActivatedByUserID(u) == {i \in DOMAIN rows : rows[i].owner = u /\ ~rows[i].deleted}
FindActivatedByTicker(t) == {i \in DOMAIN rows : rows[i].ticker = t /\ ~rows[i].deleted}
FindActivatedByTickerUserID(t, u) ==
    {i \in DOMAIN rows : rows[i].ticker = t /\ rows[i].owner = u /\ ~rows[i].deleted}

\* Which of the four it is; Nothing is an empty query parameter.
Filter(t, u) ==
    CASE t = Nothing /\ u = Nothing -> FindActivated
      [] t # Nothing /\ u = Nothing -> FindActivatedByTicker(t)
      [] t = Nothing /\ u # Nothing -> FindActivatedByUserID(u)
      [] t # Nothing /\ u # Nothing -> FindActivatedByTickerUserID(t, u)

FindToTrading ==
    {i \in DOMAIN rows : ~rows[i].deleted /\ (Inside(rows[i]) \/ rows[i].active)}

-----------------------------------------------------------------------------
(* A request arrives.  CreateRobot compares the owner in the body with the *)
(* session and sets every field a body may not choose.                     *)

Begin(q, o, u) ==
    /\ pc[q] = "idle" /\ o \in Routes
    /\ op' = [op EXCEPT ![q] = o]
    /\ user' = [user EXCEPT ![q] = u]
    /\ answer' = [answer EXCEPT ![q] = Nothing] /\ list' = [list EXCEPT ![q] = {}]
    /\ gone' = [gone EXCEPT ![q] = {i \in DOMAIN rows : rows[i].deleted}]
    /\ UNCHANGED <<rows, now, taken>>

\* NullTime.UnmarshalJSON: it is not called for a missing field, and null
\* makes a valid time of year 1, which lies before every other time.
UnmarshalTime(t) == CASE t = Absent -> Null [] t = JsonNull -> 0 [] OTHER -> t

CreateRobot(q, u, owner, body) ==
    /\ Begin(q, "create", u)
    /\ owner = u     \* otherwise 403, and nothing happens
    /\ UNCHANGED <<id, filter>>
    /\ row' = [row EXCEPT ![q] =
                 [owner |-> owner, parent |-> 0, favourite |-> FALSE, active |-> FALSE,
                  ticker |-> body.ticker, start |-> UnmarshalTime(body.start),
                  end |-> UnmarshalTime(body.end), deleted |-> FALSE, ops |-> 0]]
    /\ Goto(q, "write")

\* One of the routes under /robot/{id}.
OnRobot(q, o, u, i) ==
    /\ Begin(q, o, u)
    /\ id' = [id EXCEPT ![q] = i]
    /\ UNCHANGED <<row, filter>>
    /\ Goto(q, "find")

\* authorization has let a user through to the robots of that user only.
UserRobots(q, u) ==
    /\ Begin(q, "robots", u)
    /\ filter' = [filter EXCEPT ![q] = [ticker |-> Nothing, owner |-> u]]
    /\ UNCHANGED <<id, row>>
    /\ Goto(q, "list")

\* A user parameter that is no number ends in 500, and nothing happens.
CatalogRobots(q, u, t, owner) ==
    /\ Begin(q, "catalog", u)
    /\ filter' = [filter EXCEPT ![q] = [ticker |-> t, owner |-> owner]]
    /\ UNCHANGED <<id, row>>
    /\ Goto(q, "list")

\* The one query of both; its rows are read to the end before the answer.
List(q) ==
    /\ pc[q] = "list"
    /\ \/ AnswerList(q, "ok", Filter(filter[q].ticker, filter[q].owner))
       \/ Answer(q, "error")
    /\ UNCHANGED <<rows, now, taken>>

-----------------------------------------------------------------------------
\* Sensitivity variant: the query of FindByID without deleted_at IS NULL.
VisibleAll(i) == i \in DOMAIN rows

\* The WHERE clause of findByIDQuery.
Visible(i) == i \in DOMAIN rows /\ ~rows[i].deleted

\* An error that is not ErrNotFound: only ActivateRobot and DeactivateRobot
\* answer 500, the others 404 all the same.
FindFailed(q) == IF op[q] \in {"activate", "deactivate"} THEN "error" ELSE "not found"

FindByID(q) ==
    /\ pc[q] = "find"
    /\ \/ /\ Visible(id[q])
          /\ row' = [row EXCEPT ![q] = rows[id[q]]]
          /\ Continue(q, "judge")
       \/ ~Visible(id[q]) /\ Answer(q, "not found")
       \/ Answer(q, FindFailed(q))
    /\ UNCHANGED <<rows, now, taken>>

\* Sensitivity variants: anyone may act on a robot; plan_start and plan_end
\* may be NULL.
OwnsAnyone(q) == TRUE
MaySwitchUnplanned(q) == ~Inside(row[q])

Owns(q)      == row[q].owner = user[q]
MaySwitch(q) == Planned(row[q]) /\ ~Inside(row[q])

\* Sensitivity variants: the two int arguments of FavouriteRobot swapped;
\* the parent not recorded; the deals of the parent kept.
CopySwapped(q)  == [row[q] EXCEPT !.owner = id[q], !.parent = user[q], !.favourite = TRUE,
                                  !.active = FALSE, !.deleted = FALSE, !.ops = 0]
CopyUnlinked(q) == [row[q] EXCEPT !.owner = user[q], !.favourite = TRUE,
                                  !.active = FALSE, !.deleted = FALSE, !.ops = 0]
CopyEarned(q)   == [row[q] EXCEPT !.owner = user[q], !.parent = id[q], !.favourite = TRUE,
                                  !.active = FALSE, !.deleted = FALSE]

\* The row FavouriteRobot of the storage makes out of the parent's.
Copy(q) == [row[q] EXCEPT !.owner = user[q], !.parent = id[q], !.favourite = TRUE,
                          !.active = FALSE, !.deleted = FALSE, !.ops = 0]

(* What each handler concludes from the row it read and the time it is now. *)

Proceed(q) == UNCHANGED row /\ Continue(q, "write")

DeleteRobot(q) ==
    /\ op[q] = "delete"
    /\ IF Owns(q) THEN Proceed(q) ELSE Answer(q, "forbidden")

FavouriteRobot(q) ==
    /\ op[q] = "favourite"
    /\ row' = [row EXCEPT ![q] = Copy(q)]
    /\ Continue(q, "write")

ActivateRobot(q) ==
    /\ op[q] = "activate"
    /\ \/ ~Owns(q) /\ Answer(q, "forbidden")
       \/ Owns(q) /\ (row[q].active \/ ~MaySwitch(q)) /\ Answer(q, "bad request")
       \/ Owns(q) /\ ~row[q].active /\ MaySwitch(q) /\ Proceed(q)

DeactivateRobot(q) ==
    /\ op[q] = "deactivate"
    /\ \/ ~Owns(q) /\ Answer(q, "forbidden")
       \/ Owns(q) /\ (~row[q].active \/ ~MaySwitch(q)) /\ Answer(q, "bad request")
       \/ Owns(q) /\ row[q].active /\ MaySwitch(q) /\ Proceed(q)

RobotDetails(q) == op[q] = "details" /\ Answer(q, "ok")

Judge(q) ==
    /\ pc[q] = "judge"
    /\ \/ DeleteRobot(q) \/ FavouriteRobot(q) \/ ActivateRobot(q)
       \/ DeactivateRobot(q) \/ RobotDetails(q)
    /\ UNCHANGED <<rows, now, taken>>

-----------------------------------------------------------------------------
\* The UPDATEs name the columns they set; none looks at the old row.
Written(q) ==
    CASE op[q] = "delete"     -> [rows EXCEPT ![id[q]].deleted = TRUE]
      [] op[q] = "activate"   -> [rows EXCEPT ![id[q]].active = TRUE]
      [] op[q] = "deactivate" -> [rows EXCEPT ![id[q]].active = FALSE]

\* The table after the transaction of the request.
Committed(q) ==
    IF op[q] \in {"create", "favourite"} THEN Append(rows, row[q]) ELSE Written(q)

\* An error before the commit leaves the table as it was; after an error of
\* the commit itself it is unknown which of the two it is.
Write(q) ==
    /\ pc[q] = "write"
    /\ op[q] \in {"create", "favourite"} => Len(rows) < MaxRobots
    /\ \/ /\ rows' = Committed(q)
          /\ IF op[q] \in {"create", "delete"}
             THEN Answer(q, "ok")
             ELSE Continue(q, "cast") /\ UNCHANGED row
       \/ rows' \in {rows, Committed(q)} /\ Answer(q, "error")
    /\ UNCHANGED <<now, taken>>

\* Broadcast returns and the answer is written; or it panics in removeClients,
\* net/http recovers that, and the client gets no answer to what was committed.
\* It need not do either: a client that takes no data may block it.
Broadcast(q) ==
    /\ pc[q] = "cast"
    /\ Answer(q, "ok") \/ Answer(q, Nothing)
    /\ UNCHANGED <<rows, now, taken>>

-----------------------------------------------------------------------------
(* The rest of the system *)

\* Sensitivity variant: the position of a robot is not read with its row.
NextCycleForgets ==
    /\ taken' \in {NoCopies, [i \in FindToTrading |-> 0]}
    /\ UNCHANGED <<rows, now, request>>

\* The Trade goroutines of the last cycle have ended, and FindToTrading gives
\* those of the next one their copies of the rows, or fails and gives none.
NextCycle ==
    /\ taken' \in {NoCopies, [i \in FindToTrading |-> rows[i].ops]}
    /\ UNCHANGED <<rows, now, request>>

\* A buy or a sell on the copy, even if the row was deleted or stopped since,
\* and RobotStorage.Trade, which writes the position the copy has come to; its
\* failure is only logged, and the copy stays ahead of the row.
Trade(i) ==
    /\ taken[i] < MaxOps
    /\ taken' = [taken EXCEPT ![i] = @ + 1]
    /\ rows' \in {rows, [rows EXCEPT ![i].ops = taken[i] + 1]}
    /\ UNCHANGED <<now, request>>

Tick == now < MaxTime /\ now' = now + 1 /\ UNCHANGED <<rows, taken, request>>

\* The process ends and is started again: requests and copies vanish, the
\* table stays.
Crash ==
    /\ (\E q \in Requests : pc[q] # "idle") \/ taken # NoCopies
    /\ taken' = NoCopies
    /\ pc' = [q \in Requests |-> "idle"] /\ op' = [q \in Requests |-> Nothing]
    /\ user' = [q \in Requests |-> Nothing] /\ id' = [q \in Requests |-> 0]
    /\ row' = [q \in Requests |-> Nothing]
    /\ filter' = [q \in Requests |-> Anything]
    /\ answer' = [q \in Requests |-> Nothing] /\ list' = [q \in Requests |-> {}]
    /\ gone' = [q \in Requests |-> {}]
    /\ UNCHANGED <<rows, now>>

Step(q) == FindByID(q) \/ Judge(q) \/ Write(q) \/ Broadcast(q) \/ List(q)

Next ==
    \/ \E q \in Requests, u \in Users :
         \/ \E owner \in Users, body \in Bodies : CreateRobot(q, u, owner, body)
         \/ \E o \in OnRobotRoutes, i \in 1..MaxRobots : OnRobot(q, o, u, i)
         \/ UserRobots(q, u)
         \/ \E t \in Tickers \cup {Nothing}, owner \in Users \cup {Nothing} :
               CatalogRobots(q, u, t, owner)
    \/ \E q \in Requests : Step(q)
    \/ NextCycle
    \/ \E i \in DOMAIN taken : Trade(i)
    \/ Tick
    \/ Crash

Spec == Init /\ [][Next]_vars

-----------------------------------------------------------------------------
(* Properties *)

\* Every variable stays in the set of values the program can give it.
TypeOK ==
    /\ rows \in Seq(Row)
    /\ now \in Nat
    /\ \E I \in SUBSET (DOMAIN rows) : taken \in [I -> Nat]
    /\ pc \in [Requests -> {"idle", "find", "judge", "write", "cast", "list"}]
    /\ op \in [Requests -> OnRobotRoutes \cup {"create", "robots", "catalog", Nothing}]
    /\ user \in [Requests -> Users \cup {Nothing}]
    /\ id \in [Requests -> Nat]
    /\ row \in [Requests -> Row \cup {Nothing}]
    /\ filter \in [Requests -> [ticker : Tickers \cup {Nothing}, owner : Users \cup {Nothing}]]
    /\ answer \in [Requests -> Outcomes \cup {Nothing}]
    /\ list \in [Requests -> SUBSET Nat]
    /\ gone \in [Requests -> SUBSET Nat]

(***************************************************************************)
(* A request that arrives after a robot was deleted never succeeds on it   *)
(* and is never shown it in a list, whatever other requests on the same    *)
(* robot, activations among them, were still under way then.               *)
(***************************************************************************)
DeletedStaysGone ==
    [][\A q \in Requests :
          pc[q] # "idle" /\ pc'[q] = "idle" /\ answer'[q] = "ok" =>
              id[q] \notin gone[q] /\ list'[q] \cap gone[q] = {}]_vars

(***************************************************************************)
(* A robot with NULL as plan_start or plan_end is never given to trade and *)
(* never active, though the check of the plan and the UPDATE are apart and *)
(* the UPDATE looks at nothing: plans never change, and a copy of an       *)
(* active robot is not active.                                             *)
(***************************************************************************)
PlannedOnly ==
    \A i \in DOMAIN rows : i \in FindToTrading \/ rows[i].active => Planned(rows[i])

SamePlan(a, b) == a.ticker = b.ticker /\ a.start = b.start /\ a.end = b.end

(***************************************************************************)
(* A favourite refers to an older row with the same plan, deleted or not   *)
(* when the copy was written; so parents never form a cycle, and every     *)
(* chain of copies ends at a robot somebody created.                       *)
(***************************************************************************)
Lineage ==
    \A i \in DOMAIN rows :
        /\ rows[i].favourite <=> rows[i].parent # 0
        /\ rows[i].favourite => /\ rows[i].parent \in 1..(i - 1)
                                /\ SamePlan(rows[rows[i].parent], rows[i])

(***************************************************************************)
(* Only a request of the owner starts, stops or deletes a robot, although  *)
(* ownership is read in one transaction and used in a later one.           *)
(***************************************************************************)
OwnerActs ==
    [][\A i \in DOMAIN rows :
          rows'[i].active # rows[i].active \/ rows'[i].deleted # rows[i].deleted =>
              \E q \in Requests :
                  pc[q] = "write" /\ id[q] = i /\ user[q] = rows[i].owner]_vars

(***************************************************************************)
(* A row comes into the table inactive, not deleted and without deals: the *)
(* copy of a favourite takes nothing of what its parent had, has earned or *)
(* became between the read and the write, and until a later cycle takes it *)
(* up no Trade goroutine works on it.                                      *)
(***************************************************************************)
FreshRows ==
    [][\A i \in DOMAIN rows' \ DOMAIN rows :
          /\ ~rows'[i].active /\ ~rows'[i].deleted /\ rows'[i].ops = 0
          /\ i \notin DOMAIN taken']_vars

(***************************************************************************)
(* Requests that overlap with each other and with the trading process take *)
(* back nothing that another one wrote: a stale delete keeps the deals, a  *)
(* stale activation keeps the deletion, and a position that is written     *)
(* from a copy is never behind the one in the row.                         *)
(***************************************************************************)
Table == INSTANCE RobotTable
TableSpec == Table!Spec

(***************************************************************************)
(* internal/postgres/robot.go:162 says that FindActivatedByUserID finds    *)
(* the active robots of a user.                                            *)
(***************************************************************************)
FindsActiveRobots ==
    \A u \in Users : \A i \in FindActivatedByUserID(u) : rows[i].active
=============================================================================
