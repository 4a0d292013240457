------------------------------- MODULE Service -------------------------------
(***************************************************************************)
(* The running process: the trading loop (Trading) and the websocket hub   *)
(* (WSClients) over one robots table, beside the HTTP handlers.            *)
(*                                                                         *)
(* The Trade goroutine of robot r is the caller r of Broadcast: it enters  *)
(* the hub when it has stored a deal and takes the next price only when    *)
(* Broadcast has returned.  A panic anywhere outside an HTTP handler ends  *)
(* both halves, and they are started again together.  What Trading takes   *)
(* for granted of Broadcast, that it returns, is the hub's doing here.     *)
(***************************************************************************)
EXTENDS Naturals, Sequences, FiniteSets

CONSTANTS Robots, Tickers, Ticker, Limit, Prices, NoPrice, InitPlans,
          MaxPrices, MaxDeals,                        \* as in Trading
          Conns, Requests, NoRobot, Free, MaxVersion  \* as in WSClients

VARIABLES
    rows, main, toOpen, expired, outs, rd, held, fw, cur, next, tr, rob,
    passed, overtime, got, lapsed,
    alive, mutex, clients, robotID, sock, pc, arg, snap, todo, bad, ver,
    best, lost

T == INSTANCE Trading
H == INSTANCE WSClients WITH Traders <- Robots

ASSUME ServiceAssumption == T!TradingAssumption /\ H!WSClientsAssumption

trading == <<rows, main, toOpen, expired, outs, rd, held, fw, cur, next, tr,
             rob, passed, overtime, got, lapsed>>
hub     == <<alive, mutex, clients, robotID, sock, pc, arg, snap, todo, bad,
             ver, best, lost>>
vars    == <<trading, hub>>

Init == T!Init /\ H!Init

-----------------------------------------------------------------------------
(* Steps of the trading process *)

\* StartTrading, the readers and the forwarders never enter the hub.
Main       == T!MainStep /\ UNCHANGED hub
Timeout    == T!Timeout /\ UNCHANGED hub
Receive(t) == (T!RecvPrice(t) \/ T!RecvError(t)) /\ UNCHANGED hub
Forward(t) == T!ForwardStep(t) /\ UNCHANGED hub
Finish(r)  == T!Finish(r) /\ UNCHANGED hub

\* Sensitivity variant: go Broadcast(...), the Trade goroutine goes on.
TradeAsync(r) ==
    /\ tr[r] = "store"
    /\ tr' = [tr EXCEPT ![r] = "recv"]
    /\ rows' = [rows EXCEPT ![r].pos = rob[r]]
    /\ UNCHANGED <<main, toOpen, expired, outs, rd, held, fw, cur, next,
                   rob, passed, overtime, got, lapsed>>
    /\ H!Change(r, r)

\* RobotStorage.Trade commits a new version of the row, or fails, and
\* Broadcast(rob.RobotID) is called either way.
Trade(r) == /\ T!Store(r)
            /\ H!Change(r, r)
            /\ (rows' # rows) <=> (ver' # ver)

-----------------------------------------------------------------------------
(* Steps inside the hub *)

\* What a step of p in the hub is to the trading process: a Trade goroutine
\* that comes back from Broadcast ranges over its channel again.
Meanwhile(p) ==
    \/ p \notin Robots /\ UNCHANGED trading
    \/ p \in Robots /\ ~alive' /\ T!Crash
    \/ p \in Robots /\ alive' /\ pc'[p] = "idle" /\ T!Cast(p)
    \/ p \in Robots /\ alive' /\ pc'[p] # "idle" /\ UNCHANGED trading

\* FindByID does not find a deleted robot.
Find(p) == /\ H!Find(p)
           /\ rows[arg[p]].deleted => (pc'[p] # "lock")
           /\ Meanwhile(p)

LockStep(p)  == H!LockStep(p) /\ Meanwhile(p)
Write(p)     == H!WriteJSON(p) /\ Meanwhile(p)

\* Sensitivity variant: with nobody to remove, Broadcast returns at once.
UnlockForgotten(p) ==
    /\ pc[p] = "write" /\ todo[p] = <<>>
    /\ pc' = [pc EXCEPT ![p] = IF bad[p] = <<>> THEN H!Home(p) ELSE "drop"]
    /\ mutex' = IF bad[p] = <<>> THEN mutex ELSE Free
    /\ UNCHANGED <<alive, clients, robotID, sock, arg, snap, todo, bad, ver, best, lost>>
    /\ Meanwhile(p)

Unlock(p) == H!Unlock(p) /\ Meanwhile(p)

ConnStep(c) == H!ConnStep(c) /\ UNCHANGED trading
Network(c)  == H!Network(c) /\ UNCHANGED trading

-----------------------------------------------------------------------------
(* Users and the clock *)

\* A handler has stored its change of is_active and broadcasts the robot, or
\* has copied it (FavouriteRobot) and broadcasts it unchanged.
Request(q, r) ==
    /\ H!Change(q, r)
    /\ (T!SetActive(r) /\ ver' # ver) \/ UNCHANGED trading

\* DeleteRobot calls no Broadcast, nor does a handler that is told its commit
\* failed, though is_active may have changed; the clock calls nobody.
Silently(r) ==
    (T!SetActive(r) \/ T!SoftDelete(r) \/ T!PlanClock(r)) /\ UNCHANGED hub

-----------------------------------------------------------------------------
(* The end of the process *)

NilStreamPanic(t) == T!NilStreamPanic(t) /\ H!Crash
Crash             == T!Crash /\ H!Crash

Restart == T!Restart /\ H!Restart

Next ==
    \/ /\ alive
       /\ \/ Main
          \/ Timeout
          \/ \E t \in Tickers : Receive(t) \/ Forward(t) \/ NilStreamPanic(t)
          \/ \E r \in Robots : Trade(r) \/ Finish(r) \/ Silently(r)
          \/ \E p \in H!Procs : Find(p) \/ LockStep(p) \/ Write(p) \/ Unlock(p)
          \/ \E c \in Conns : ConnStep(c) \/ Network(c)
          \/ \E q \in Requests, r \in Robots : Request(q, r)
          \/ Crash
    \/ Restart

Spec == Init /\ [][Next]_vars

(***************************************************************************)
(* The fairness of SilentSpec and of the hub, step by step; nothing is     *)
(* assumed of Broadcast as a whole, of the trading service or of peers.    *)
(***************************************************************************)
FairSpec ==
    /\ Spec
    /\ WF_vars(Main)
    /\ WF_vars(Timeout)
    /\ \A t \in Tickers : WF_vars(Forward(t)) /\ WF_vars(NilStreamPanic(t))
    /\ \A r \in Robots : WF_vars(Trade(r)) /\ WF_vars(Finish(r))
    /\ \A p \in H!Procs : /\ SF_vars(alive /\ LockStep(p))
                          /\ WF_vars(alive /\ (Find(p) \/ Unlock(p)))
                          /\ SF_vars(alive /\ Write(p))
    /\ \A c \in Conns :
         SF_vars(alive /\ (H!addClient(c) \/ H!setRobot(c)) /\ UNCHANGED trading)

-----------------------------------------------------------------------------
(* Properties *)

(***************************************************************************)
(* Trade waits for Broadcast: while the goroutine of a robot is not in it, *)
(* and so may decide on a next price, every client that shows the robot    *)
(* has seen its last change, or owes it to a change or a subscription of   *)
(* somebody else that is under way, or is one that NoMissedChange exempts. *)
(***************************************************************************)
ShownBeforeNext ==
    alive => \A c \in clients :
        LET r == robotID[c] IN
            r # NoRobot /\ r \notin lost /\ sock[c] # "broken" /\ tr[r] # "cast" =>
                \/ best[c] >= ver[r]
                \/ \E p \in Conns \cup Requests : H!Offers(p, r, ver[r], c)

(***************************************************************************)
(* Seen from the table, the process with its hub, its clients and their    *)
(* networks is the trading process: whatever holds of Trading holds here.  *)
(***************************************************************************)
TradingSpec == T!Spec

(***************************************************************************)
(* No deadlock across the two halves: while a Trade goroutine has not      *)
(* ended, a goroutine of its own ticker can go on, or one of them is in    *)
(* the hub and can go on or waits for a caller that can.  What may hold it *)
(* up is outside the process, or the removed connection that jams the hub; *)
(* never the pipeline of another ticker.                                   *)
(***************************************************************************)
NoDeadlock ==
    \A r \in Robots :
        LET t == Ticker[r] IN
        main = "wait" /\ tr[r] # "idle" =>
            \/ T!Moving(t)
            \/ \E x \in T!Members(t) : tr[x] = "cast" /\ H!NotStuck(x)
            \/ T!SilentOn(t)
            \/ H!Jammed \/ H!Blocked

(***************************************************************************)
(* One cycle that never ends stops all trading.  It can do so for three    *)
(* reasons only: a stream is silent, the hub is jammed by a connection     *)
(* that was removed, or a client that takes no data blocks the writer.     *)
(***************************************************************************)
Silent == \E t \in Tickers : T!SilentOn(t)
HangsOnFeedOrHub ==
    <>[](main = "wait") => <>[](Silent \/ H!Jammed \/ H!Blocked)
=============================================================================
