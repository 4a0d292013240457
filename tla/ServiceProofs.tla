---------------------------- MODULE ServiceProofs ----------------------------
(***************************************************************************)
(* Proofs about the composed process: it implements the trading process    *)
(* and the hub, what was proved of each half holds of the whole, no        *)
(* goroutines deadlock across them, and no robot decides on a price before *)
(* its last change was shown or is somebody else's to show.                *)
(***************************************************************************)
EXTENDS Service, TLAPS

\* Trade goroutines, connections and requests are different goroutines.
LEMMA Separate ==
    /\ Robots \cap (Conns \cup Requests) = {}
    /\ Conns \cap Requests = {}
  BY ServiceAssumption DEF H!WSClientsAssumption

-----------------------------------------------------------------------------
(* Every step is a step of Trading, or leaves its variables alone. *)

\* Hub steps of a goroutine, seen from the table.
LEMMA MeanwhileTrades ==
    ASSUME NEW p \in H!Procs, Meanwhile(p)
    PROVE  [T!Next]_trading
  BY DEF Meanwhile, T!Next, T!TradeStep

LEMMA StepTrades == [Next]_vars => [T!Next]_trading
<1> SUFFICES ASSUME [Next]_vars PROVE [T!Next]_trading
  OBVIOUS
<1>1. CASE Main
  BY <1>1 DEF Main, T!Next
<1>2. CASE Timeout
  BY <1>2 DEF Timeout, T!Next
<1>3. ASSUME NEW t \in Tickers, Receive(t) \/ Forward(t) \/ NilStreamPanic(t)
      PROVE  T!Next
  BY <1>3 DEF Receive, Forward, NilStreamPanic, T!Next
<1>4. ASSUME NEW r \in Robots, Trade(r) \/ Finish(r) \/ Silently(r)
      PROVE  T!Next
  BY <1>4 DEF Trade, Finish, Silently, T!Next, T!TradeStep, T!UserStep
<1>5. ASSUME NEW p \in H!Procs, Find(p) \/ LockStep(p) \/ Write(p) \/ Unlock(p)
      PROVE  [T!Next]_trading
  BY <1>5, MeanwhileTrades DEF Find, LockStep, Write, Unlock
<1>6. ASSUME NEW c \in Conns, ConnStep(c) \/ Network(c)
      PROVE  UNCHANGED trading
  BY <1>6 DEF ConnStep, Network
<1>7. ASSUME NEW q \in Requests, NEW r \in Robots, Request(q, r)
      PROVE  [T!Next]_trading
  BY <1>7 DEF Request, T!Next, T!UserStep
<1>8. CASE Crash \/ Restart
  BY <1>8 DEF Crash, Restart, T!Next
<1>9. CASE UNCHANGED vars
  BY <1>9 DEF vars
<1> QED
  BY <1>1, <1>2, <1>3, <1>4, <1>5, <1>6, <1>7, <1>8, <1>9 DEF Next

\* The process implements the trading process, whatever the hub, its clients
\* and their networks do: a crash there is a crash here, and nothing else is
\* seen of them.  Hence every safety property of Trading holds of Service.
THEOREM ServiceTrades == Spec => TradingSpec
<1>1. Init => T!Init
  BY DEF Init
<1>2. [T!Next]_trading => [T!Next]_(T!vars)
  BY DEF trading, T!vars, T!process, T!reader, T!forwarder, T!trader
<1> QED
  BY <1>1, <1>2, StepTrades, PTL DEF Spec, TradingSpec, T!Spec

-----------------------------------------------------------------------------
(* Every step is a step of the hub, or leaves its variables alone. *)

LEMMA StepCasts == [Next]_vars => [H!Next]_hub
<1> SUFFICES ASSUME [Next]_vars PROVE [H!Next]_hub
  OBVIOUS
<1>1. CASE Main \/ Timeout
  BY <1>1 DEF Main, Timeout
<1>2. ASSUME NEW t \in Tickers, Receive(t) \/ Forward(t)
      PROVE  UNCHANGED hub
  BY <1>2 DEF Receive, Forward
<1>3. ASSUME NEW t \in Tickers, NilStreamPanic(t), alive
      PROVE  H!Next
  BY <1>3 DEF NilStreamPanic, H!Next
<1>4. ASSUME NEW r \in Robots, Trade(r), alive
      PROVE  H!Next
  BY <1>4 DEF Trade, H!Next
<1>5. ASSUME NEW r \in Robots, Finish(r) \/ Silently(r)
      PROVE  UNCHANGED hub
  BY <1>5 DEF Finish, Silently
<1>6. ASSUME NEW p \in H!Procs, alive,
             Find(p) \/ LockStep(p) \/ Write(p) \/ Unlock(p)
      PROVE  H!Next
  BY <1>6 DEF Find, LockStep, Write, Unlock, H!Next, H!FreeStep
<1>7. ASSUME NEW c \in Conns, ConnStep(c) \/ Network(c), alive
      PROVE  H!Next
  BY <1>7 DEF ConnStep, Network, H!Next
<1>8. ASSUME NEW q \in Requests, NEW r \in Robots, Request(q, r), alive
      PROVE  H!Next
  BY <1>8 DEF Request, H!Next
<1>9. CASE alive /\ Crash
  BY <1>9 DEF Crash, H!Next
<1>10. CASE Restart
  BY <1>10 DEF Restart, H!Next
<1>11. CASE UNCHANGED vars
  BY <1>11 DEF vars
<1> QED
  BY <1>1, <1>2, <1>3, <1>4, <1>5, <1>6, <1>7, <1>8, <1>9, <1>10, <1>11 DEF Next

\* The process implements the hub, whatever the trading cycles do.  Hence
\* every safety property of WSClients holds of Service.
THEOREM ServiceCasts == Spec => H!Spec
<1>1. Init => H!Init
  BY DEF Init
<1>2. [H!Next]_hub => [H!Next]_(H!vars)
  BY DEF hub, H!vars, H!hub, H!proc
<1> QED
  BY <1>1, <1>2, StepCasts, PTL DEF Spec, H!Spec

-----------------------------------------------------------------------------
(* The two halves keep step. *)

Labels == {"new", "add", "read", "set", "leave", "gone", "idle",
           "find", "lock", "write", "drop", "dead"}

\* A running process is a running trading loop, and its Trade goroutines are
\* in Broadcast exactly while they are somewhere in the hub.
InStep == /\ alive <=> main # "down"
          /\ alive => \A r \in Robots : (tr[r] = "cast") <=> (pc[r] # "idle")

\* InStep and what makes it inductive: no Trade goroutine runs outside a
\* cycle's wait, so none is in the hub when the next cycle's are started.
Coupled ==
    /\ alive \in BOOLEAN
    /\ main \in {"query", "open", "wait", "down"}
    /\ tr \in [Robots -> {"idle", "recv", "store", "cast"}]
    /\ pc \in [H!Procs -> Labels]
    /\ main # "wait" => \A r \in Robots : tr[r] = "idle"
    /\ InStep

LEMMA InitCoupled == Init => Coupled
  BY Separate
  DEF Init, Labels, Coupled, InStep, T!Init, H!Init, H!Procs

\* StartTrading and the pipeline, which leave the hub alone.
LEMMA MainCoupled == Coupled /\ (Main \/ Timeout) => Coupled'
<1> SUFFICES ASSUME Coupled, Main \/ Timeout PROVE Coupled'
  OBVIOUS
<1> USE DEF Labels, Coupled, InStep, hub
<1>1. CASE T!Query /\ UNCHANGED hub
  BY <1>1 DEF T!Query
<1>2. ASSUME NEW t \in Tickers, T!Open(t), UNCHANGED hub
      PROVE  Coupled'
  BY <1>2 DEF T!Open, T!forwarder, T!trader
<1>3. CASE T!Start /\ UNCHANGED hub
  BY <1>3 DEF T!Start, T!reader
<1>4. CASE T!Wait /\ UNCHANGED hub
  BY <1>4 DEF T!Wait, T!reader, T!forwarder, T!trader
<1>5. CASE T!Timeout /\ UNCHANGED hub
  BY <1>5 DEF T!Timeout, T!reader, T!forwarder, T!trader
<1> QED
  BY <1>1, <1>2, <1>3, <1>4, <1>5 DEF Main, Timeout, T!MainStep

LEMMA PipelineCoupled ==
    ASSUME Coupled, NEW t \in Tickers, Receive(t) \/ Forward(t)
    PROVE  Coupled'
<1> USE DEF Labels, Coupled, InStep, hub
<1>1. CASE Receive(t)
  BY <1>1 DEF Receive, T!RecvPrice, T!RecvError, T!process, T!forwarder, T!trader
<1>2. CASE T!Handoff(t) /\ UNCHANGED hub
  BY <1>2 DEF T!Handoff, T!process, T!trader
<1>3. CASE T!CloseAll(t) /\ UNCHANGED hub
  BY <1>3 DEF T!CloseAll, T!process, T!trader
<1>4. CASE T!Deliver(t) /\ UNCHANGED hub
  <2> DEFINE x == T!Receiver(t)
  <2>1. /\ UNCHANGED <<main, alive, pc>>
        /\ tr[x] = "recv"
        /\ tr' = tr \/ tr' = [tr EXCEPT ![x] = "store"]
    BY <1>4 DEF T!Deliver, T!process
  <2> HIDE DEF x
  <2> QED
    BY <2>1
<1> QED
  BY <1>1, <1>2, <1>3, <1>4 DEF Forward, T!ForwardStep

\* A Trade goroutine enters the hub, or leaves its loop.
LEMMA TradeCoupled ==
    ASSUME Coupled, NEW r \in Robots, Trade(r) \/ Finish(r) \/ Silently(r), alive
    PROVE  Coupled'
<1> USE DEF Labels, Coupled, InStep
<1>1. CASE Trade(r)
  <2>1. /\ tr[r] = "store" /\ tr' = [tr EXCEPT ![r] = "cast"] /\ main' = main
    BY <1>1 DEF Trade, T!Store, T!process
  <2>2. /\ pc' = [pc EXCEPT ![r] = "find"] /\ alive' = alive
    BY <1>1 DEF Trade, H!Change, H!Goto, H!hub
  <2>3. main = "wait" /\ tr' \in [Robots -> {"idle", "recv", "store", "cast"}]
    BY <2>1
  <2>4. pc' \in [H!Procs -> Labels]
    BY <2>2
  <2>5. \A x \in Robots : (tr'[x] = "cast") <=> (pc'[x] # "idle")
    BY <2>1, <2>2 DEF H!Procs
  <2> QED
    BY <2>1, <2>2, <2>3, <2>4, <2>5
<1>2. CASE Finish(r)
  BY <1>2 DEF Finish, T!Finish, T!process, hub
<1>3. CASE Silently(r)
  BY <1>3 DEF Silently, T!SetActive, T!SoftDelete, T!PlanClock, T!Rewrite, T!process, T!trader, hub
<1> QED
  BY <1>1, <1>2, <1>3

\* What a hub step of p does to pc and alive.
HubMove(p) ==
    /\ \E l \in Labels : pc' = [pc EXCEPT ![p] = l]
    /\ pc[p] # "idle"
    /\ alive' \in BOOLEAN
    /\ p \notin Robots => alive'

LEMMA HubMoves ==
    ASSUME Coupled, alive, NEW p \in H!Procs,
           Find(p) \/ LockStep(p) \/ Write(p) \/ Unlock(p)
    PROVE  HubMove(p)
<1> USE DEF Labels, Coupled, HubMove, H!Goto, H!hub
<1>1. CASE Find(p)
  BY <1>1 DEF Find, H!Find, H!Home
<1>2. CASE H!Lock(p)
  BY <1>2 DEF H!Lock
<1>3. CASE H!removeClients(p)
  BY <1>3 DEF H!removeClients, H!RemovePanic, H!Panic, H!Home
<1>4. CASE Write(p)
  <2>1. pc' = [pc EXCEPT ![p] = "write"] /\ alive' = alive
    BY <1>4 DEF Write, H!WriteJSON, H!Delivered, H!Failed
  <2> QED
    BY <1>4, <2>1 DEF Write, H!WriteJSON
<1>5. CASE Unlock(p)
  BY <1>5 DEF Unlock, H!Unlock
<1> QED
  BY <1>1, <1>2, <1>3, <1>4, <1>5 DEF LockStep, H!LockStep

LEMMA HubCoupled ==
    ASSUME Coupled, alive, NEW p \in H!Procs, HubMove(p), Meanwhile(p)
    PROVE  Coupled'
<1> USE DEF Labels, Coupled, InStep
<1> PICK l \in Labels : pc' = [pc EXCEPT ![p] = l]
  BY DEF HubMove
<1>1. CASE p \notin Robots
  BY <1>1 DEF HubMove, Meanwhile, trading
<1>2. CASE p \in Robots /\ T!Crash /\ ~alive'
  BY <1>2 DEF HubMove, T!Crash, T!Die
<1>3. CASE p \in Robots /\ alive' /\ pc'[p] = "idle" /\ T!Cast(p)
  <2>1. /\ tr[p] = "cast" /\ tr' = [tr EXCEPT ![p] = "recv"] /\ main' = main
    BY <1>3 DEF T!Cast, T!process
  <2>2. main = "wait" /\ tr' \in [Robots -> {"idle", "recv", "store", "cast"}]
    BY <1>3, <2>1
  <2>3. pc' \in [H!Procs -> Labels]
    OBVIOUS
  <2>4. \A x \in Robots : (tr'[x] = "cast") <=> (pc'[x] # "idle")
    BY <1>3, <2>1 DEF H!Procs
  <2> QED
    BY <1>3, <2>1, <2>2, <2>3, <2>4
<1>4. CASE p \in Robots /\ alive' /\ pc'[p] # "idle" /\ UNCHANGED trading
  BY <1>4 DEF HubMove, trading
<1> QED
  BY <1>1, <1>2, <1>3, <1>4 DEF Meanwhile

\* Connections and requests are goroutines of their own.
LEMMA OthersCoupled ==
    ASSUME Coupled, alive,
           \/ \E c \in Conns : ConnStep(c) \/ Network(c)
           \/ \E q \in Requests, r \in Robots : Request(q, r)
    PROVE  Coupled'
<1> USE Separate DEF Labels, Coupled, InStep
<1>1. ASSUME NEW c \in Conns, ConnStep(c)
      PROVE  Coupled'
  <2>1. UNCHANGED <<main, tr>> /\ c \notin Robots
    BY <1>1 DEF ConnStep, trading
  <2>2. alive'
    <3>1. H!Accept(c) \/ H!addClient(c) \/ H!ReadRobot(c) \/ H!ReadEOF(c)
            => UNCHANGED alive
      BY DEF H!Accept, H!addClient, H!ReadRobot, H!ReadEOF, H!hub
    <3>2. CASE H!Panic(c)
      BY <3>2, <2>1 DEF H!Panic
    <3>3. CASE UNCHANGED alive
      BY <3>3
    <3> QED
      BY <1>1, <3>1, <3>2, <3>3 DEF ConnStep, H!ConnStep, H!ReadGivesUp, H!setRobot
  <2>3. PICK l \in Labels : pc' = [pc EXCEPT ![c] = l]
    BY <1>1 DEF ConnStep, H!ConnStep, H!Accept, H!addClient, H!ReadRobot,
       H!ReadEOF, H!ReadGivesUp, H!setRobot, H!Panic, H!Goto, H!Subscribe
  <2>4. \A r \in Robots : pc'[r] = pc[r]
    BY <2>1, <2>3 DEF H!Procs
  <2>5. pc' \in [H!Procs -> Labels]
    BY <2>3
  <2> QED
    BY <2>1, <2>2, <2>4, <2>5
<1>2. ASSUME NEW c \in Conns, Network(c)
      PROVE  Coupled'
  BY <1>2 DEF Network, trading, H!Network, H!Stall, H!Unstall, H!Break, H!Become, H!proc
<1>3. ASSUME NEW q \in Requests, NEW r \in Robots, Request(q, r)
      PROVE  Coupled'
  <2>1. UNCHANGED <<main, tr, alive>> /\ q \notin Robots
    BY <1>3 DEF Request, trading, T!SetActive, T!Rewrite, T!process, T!trader,
       H!Change, H!hub
  <2>2. pc' = [pc EXCEPT ![q] = "find"]
    BY <1>3 DEF Request, H!Change, H!Goto
  <2>3. pc' \in [H!Procs -> Labels] /\ \A s \in Robots : pc'[s] = pc[s]
    BY <2>1, <2>2 DEF H!Procs
  <2> QED
    BY <2>1, <2>3
<1> QED
  BY <1>1, <1>2, <1>3

LEMMA EndCoupled ==
    ASSUME Coupled,
           \/ alive /\ ((\E t \in Tickers : NilStreamPanic(t)) \/ Crash)
           \/ Restart
    PROVE  Coupled'
<1> USE DEF Labels, Coupled, InStep
<1>1. CASE T!Die /\ H!Crash
  BY <1>1 DEF T!Die, H!Crash, H!proc
<1>2. CASE Restart
  <2>1. main = "down" /\ main' = "query" /\ UNCHANGED tr
    BY <1>2 DEF Restart, T!Restart, T!trader
  <2>2. /\ alive' = TRUE
        /\ pc' = [p \in H!Procs |-> IF p \in Conns THEN "new" ELSE "idle"]
    BY <1>2 DEF Restart, H!Restart
  <2>3. \A r \in Robots : r \in H!Procs /\ r \notin Conns
    BY Separate DEF H!Procs
  <2>4. pc' \in [H!Procs -> Labels]
    BY <2>2
  <2>5. \A r \in Robots : pc'[r] = "idle"
    BY <2>2, <2>3
  <2> QED
    BY <2>1, <2>2, <2>4, <2>5
<1> QED
  BY <1>1, <1>2 DEF NilStreamPanic, Crash, T!NilStreamPanic, T!Crash

LEMMA NextCoupled == Coupled /\ [Next]_vars => Coupled'
<1> SUFFICES ASSUME Coupled, [Next]_vars PROVE Coupled'
  OBVIOUS
<1>1. CASE UNCHANGED vars
  BY <1>1 DEF vars, trading, hub, Coupled, InStep
<1>2. ASSUME NEW p \in H!Procs, alive,
             Find(p) \/ LockStep(p) \/ Write(p) \/ Unlock(p)
      PROVE  Coupled'
  BY <1>2, HubMoves, HubCoupled DEF Find, LockStep, Write, Unlock
<1> QED
  BY <1>1, <1>2, MainCoupled, PipelineCoupled, TradeCoupled, OthersCoupled, EndCoupled
  DEF Next

LEMMA ServiceInStep == Spec => []InStep
<1>1. Coupled => InStep
  BY DEF Coupled
<1> QED
  BY <1>1, InitCoupled, NextCoupled, PTL DEF Spec

-----------------------------------------------------------------------------
(***************************************************************************)
(* What is proved of Trading and of WSClients, brought here.  CP and HP    *)
(* are the modules with their theorems, and so have their own copies of    *)
(* the two specifications; the lemmas say that the copies are the same.    *)
(***************************************************************************)
CP == INSTANCE CycleProofs
HP == INSTANCE HubProofs WITH Traders <- Robots

\* The assumptions of the parts are those of the process.
LEMMA PartsAssumed == CP!TradingAssumption /\ HP!WSClientsAssumption
<1>1. CP!TradingAssumption
  BY ServiceAssumption
  DEF T!TradingAssumption, CP!TradingAssumption, T!Quote, CP!Quote,
      T!IsFiniteSet, CP!IsFiniteSet
<1>2. HP!WSClientsAssumption
  BY ServiceAssumption
  DEF H!WSClientsAssumption, HP!WSClientsAssumption, H!IsFiniteSet,
      HP!IsFiniteSet
<1> QED
  BY <1>1, <1>2

\* The listings a query may return.
LEMMA SameGroupings == CP!Groupings = T!Groupings
<1>1. \A t : CP!TradableOn(t) = T!TradableOn(t)
  BY DEF T!TradableOn, CP!TradableOn, T!Tradable, CP!Tradable
<1>2. ASSUME NEW S
      PROVE  CP!Listings(S) = T!Listings(S)
  BY DEF T!Listings, CP!Listings, T!Cardinality, CP!Cardinality, T!IsFiniteSet,
      CP!IsFiniteSet
<1> DEFINE C(t) == CP!Listings(CP!TradableOn(t))
           L(t) == T!Listings(T!TradableOn(t))
<1>3. \A t : C(t) = L(t)
  BY <1>1, <1>2
<1>4. {C(t) : t \in Tickers} = {L(t) : t \in Tickers}
  BY <1>3
<1>5. CP!Groupings = {g \in [Tickers -> UNION {C(t) : t \in Tickers}] :
                        \A t \in Tickers : g[t] \in C(t)}
  BY DEF CP!Groupings
<1>6. T!Groupings = {g \in [Tickers -> UNION {L(t) : t \in Tickers}] :
                       \A t \in Tickers : g[t] \in L(t)}
  BY DEF T!Groupings
<1> HIDE DEF C, L
<1> QED
  BY <1>3, <1>4, <1>5, <1>6

LEMMA SameTradingSteps == [T!Next]_(T!vars) => [CP!Next]_(CP!vars)
<1> USE DEF T!process, CP!process, T!reader, CP!reader, T!forwarder, CP!forwarder,
      T!trader, CP!trader
<1>1. T!MainStep => CP!MainStep
  BY SameGroupings
  DEF T!MainStep, CP!MainStep, T!Query, CP!Query, T!Open, CP!Open, T!Start,
      CP!Start, T!Wait, CP!Wait, T!Members, CP!Members, T!NoRobots,
      CP!NoRobots
<1>2. T!Timeout => CP!Timeout
  BY DEF T!Timeout, CP!Timeout
<1>3. ASSUME NEW t
      PROVE  /\ T!RecvPrice(t) => CP!RecvPrice(t)
             /\ T!RecvError(t) => CP!RecvError(t)
             /\ T!NilStreamPanic(t) => CP!NilStreamPanic(t)
  BY SMTT(30) DEF T!RecvPrice, CP!RecvPrice, T!RecvError, CP!RecvError, T!NilStreamPanic,
      CP!NilStreamPanic, T!Die, CP!Die, T!FeedOpen, CP!FeedOpen, T!Members,
      CP!Members, T!NewPosition, CP!NewPosition, T!NoRobots, CP!NoRobots
<1>4. ASSUME NEW t
      PROVE  T!ForwardStep(t) => CP!ForwardStep(t)
  BY DEF T!ForwardStep, CP!ForwardStep, T!Handoff, CP!Handoff, T!Deliver,
      CP!Deliver, T!CloseAll, CP!CloseAll, T!Forwarded, CP!Forwarded,
      T!Receiver, CP!Receiver, T!WantsToBuy, CP!WantsToBuy, T!WantsToSell,
      CP!WantsToSell, T!Buy, CP!Buy, T!Sell, CP!Sell
<1>5. ASSUME NEW r
      PROVE  T!TradeStep(r) => CP!TradeStep(r)
  BY DEF T!TradeStep, CP!TradeStep, T!Store, CP!Store, T!Cast, CP!Cast,
      T!Finish, CP!Finish
<1>6. ASSUME NEW r
      PROVE  T!UserStep(r) => CP!UserStep(r)
  BY DEF T!UserStep, CP!UserStep, T!SetActive, CP!SetActive, T!SoftDelete,
      CP!SoftDelete, T!PlanClock, CP!PlanClock, T!Rewrite, CP!Rewrite,
      T!Tradable, CP!Tradable
<1>7. (T!Crash => CP!Crash) /\ (T!Restart => CP!Restart)
  BY DEF T!Crash, CP!Crash, T!Die, CP!Die, T!Restart, CP!Restart, T!NewPosition,
      CP!NewPosition, T!NoRobots, CP!NoRobots
<1>8. T!Next => CP!Next
  BY <1>1, <1>2, <1>3, <1>4, <1>5, <1>6, <1>7 DEF T!Next, CP!Next
<1> QED
  BY <1>8 DEF T!vars, CP!vars

LEMMA SameTrading == Spec => CP!Spec
<1>1. T!Init => CP!Init
  BY DEF T!Init, CP!Init, T!NewRow, CP!NewRow, T!NewPosition, CP!NewPosition,
      T!NoRobots, CP!NoRobots
<1> QED
  BY <1>1, SameTradingSteps, ServiceTrades, PTL DEF TradingSpec, T!Spec, CP!Spec

LEMMA SameHubSteps == [H!Next]_(H!vars) => [HP!Next]_(HP!vars)
<1> USE DEF H!hub, HP!hub, H!proc, HP!proc, H!Procs, HP!Procs, H!Goto, HP!Goto
<1>1. ASSUME NEW S
      PROVE  H!Orders(S) = HP!Orders(S)
  BY DEF H!Orders, HP!Orders, H!Cardinality, HP!Cardinality, H!IsFiniteSet,
      HP!IsFiniteSet
<1>2. ASSUME NEW c
      PROVE  H!ConnStep(c) => HP!ConnStep(c)
  BY DEF H!ConnStep, HP!ConnStep, H!Accept, HP!Accept, H!addClient,
      HP!addClient, H!ReadRobot, HP!ReadRobot, H!ReadEOF, HP!ReadEOF,
      H!ReadGivesUp, HP!ReadGivesUp, H!setRobot, HP!setRobot, H!Subscribe,
      HP!Subscribe, H!Panic, HP!Panic, H!Lockable, HP!Lockable
<1>3. ASSUME NEW c
      PROVE  H!Network(c) => HP!Network(c)
  BY DEF H!Network, HP!Network, H!Stall, HP!Stall, H!Unstall, HP!Unstall,
      H!Break, HP!Break, H!Become, HP!Become
<1>4. ASSUME NEW p, NEW r
      PROVE  H!Change(p, r) => HP!Change(p, r)
  BY DEF H!Change, HP!Change
<1>5. ASSUME NEW p
      PROVE  H!LockStep(p) => HP!LockStep(p)
  BY <1>1 DEF H!LockStep, HP!LockStep, H!Lock, HP!Lock, H!removeClients,
      HP!removeClients, H!Subscribed, HP!Subscribed, H!Lockable, HP!Lockable,
      H!Remaining, HP!Remaining, H!Removed, HP!Removed, H!Missing,
      HP!Missing, H!RemovePanic, HP!RemovePanic, H!Closing, HP!Closing,
      H!Panic, HP!Panic, H!Home, HP!Home
<1>6. ASSUME NEW p
      PROVE  H!FreeStep(p) => HP!FreeStep(p)
  BY DEF H!FreeStep, HP!FreeStep, H!Find, HP!Find, H!WriteJSON, HP!WriteJSON,
      H!Unlock, HP!Unlock, H!Delivered, HP!Delivered, H!Failed, HP!Failed,
      H!Home, HP!Home
<1>7. (H!Crash => HP!Crash) /\ (H!Restart => HP!Restart)
  BY DEF H!Crash, HP!Crash, H!Restart, HP!Restart
<1>8. H!Next => HP!Next
  BY <1>2, <1>3, <1>4, <1>5, <1>6, <1>7 DEF H!Next, HP!Next
<1> QED
  BY <1>8 DEF H!vars, HP!vars

LEMMA SameHub == Spec => HP!Spec
<1>1. H!Init => HP!Init
  BY DEF H!Init, HP!Init, H!Procs, HP!Procs
<1> QED
  BY <1>1, SameHubSteps, ServiceCasts, PTL DEF H!Spec, HP!Spec

-----------------------------------------------------------------------------
(* The theorems about the parts are theorems about the process. *)

\* The safety of the trading process holds with the hub, its clients and
\* their networks in the place of a Broadcast that just returns: cycles never
\* overlap, each price reaches each robot once, copies are ahead of rows, and
\* of each stream one price at most is taken after the deadline.
TradingSafe == T!Pipeline /\ T!FanOut /\ T!CopyExtendsRow /\ T!DeadlineBinds

LEMMA SameTradingSafe ==
    CP!Pipeline /\ CP!FanOut /\ CP!CopyExtendsRow /\ CP!DeadlineBinds => TradingSafe
<1>1. CP!Pipeline => T!Pipeline
  BY DEF T!Pipeline, CP!Pipeline, T!CycleBarrier, CP!CycleBarrier,
      T!Grouped, CP!Grouped, T!Assembling, CP!Assembling, T!Draining,
      CP!Draining, T!Carrying, CP!Carrying
<1>2. CP!FanOut => T!FanOut
  BY DEF T!FanOut, CP!FanOut
<1>3. CP!CopyExtendsRow => T!CopyExtendsRow
  BY DEF T!CopyExtendsRow, CP!CopyExtendsRow, T!Extends, CP!Extends,
      T!Ops, CP!Ops, T!Buys, CP!Buys, T!Floor, CP!Floor
<1>4. CP!DeadlineBinds => T!DeadlineBinds
  BY DEF T!DeadlineBinds, CP!DeadlineBinds
<1> QED
  BY <1>1, <1>2, <1>3, <1>4 DEF TradingSafe

THEOREM ServiceTradesSafely == Spec => []TradingSafe
<1>1. CP!Spec => []CP!Pipeline
  BY CP!PipelineCorrect, PartsAssumed
<1>2. CP!Spec => []CP!FanOut
  BY CP!FanOutCorrect, PartsAssumed
<1>3. CP!Spec => []CP!CopyExtendsRow
  BY CP!CopyCorrect, PartsAssumed
<1>4. CP!Spec => []CP!DeadlineBinds
  BY CP!DeadlineIsBinding, PartsAssumed
<1> QED
  BY <1>1, <1>2, <1>3, <1>4, SameTrading, SameTradingSafe, PTL

\* The rows the process writes follow the ledger: no crash that a websocket
\* client brings about makes it undo a deal or count one twice, and nothing
\* is written for a robot that the running cycle did not select.
THEOREM ServiceKeepsLedger == Spec => T!LedgerSpec /\ T!TradesOnlySelected
<1>1. CP!LedgerSpec => T!LedgerSpec
  BY DEF T!LedgerSpec, CP!LedgerSpec, T!Ledger!Spec, CP!Ledger!Spec,
      T!Ledger!Init, CP!Ledger!Init, T!Ledger!Next, CP!Ledger!Next,
      T!Ledger!ledger, CP!Ledger!ledger, T!Ledger!Advance, CP!Ledger!Advance,
      T!Ledger!AtLimits, CP!Ledger!AtLimits, T!Ledger!Sells, CP!Ledger!Sells,
      T!Ops, CP!Ops, T!Buys, CP!Buys
<1>2. CP!TradesOnlySelected => T!TradesOnlySelected
  BY DEF T!TradesOnlySelected, CP!TradesOnlySelected, T!Running,
      CP!Running, T!Tradable, CP!Tradable, T!vars, CP!vars, T!process,
      CP!process, T!reader, CP!reader, T!forwarder, CP!forwarder, T!trader,
      CP!trader
<1>3. CP!Spec => CP!LedgerSpec
  BY CP!ImplementsLedger, PartsAssumed
<1>4. CP!Spec => CP!TradesOnlySelected
  BY CP!TradesOnlyForSelected, PartsAssumed
<1> QED
  BY <1>1, <1>2, <1>3, <1>4, SameTrading

\* The safety of the hub holds with the trading cycles in the place of
\* callers that come and go: one writer at a time, one way to jam, a map that
\* agrees with the connections, and no change of a robot that is missed.
HubSafe == H!MutexOwner /\ H!JamCause /\ H!ListedUntilClosed /\ H!NoMissedChange

LEMMA SameHubSafe ==
    HP!MutexOwner /\ HP!JamCause /\ HP!ListedUntilClosed /\ HP!NoMissedChange
        => HubSafe
  BY DEF HubSafe, H!MutexOwner, HP!MutexOwner, H!JamCause, HP!JamCause,
      H!ListedUntilClosed, HP!ListedUntilClosed, H!NoMissedChange,
      HP!NoMissedChange, H!Offers, HP!Offers, H!Procs, HP!Procs

THEOREM ServiceCastsSafely == Spec => []HubSafe
<1>1. HP!Spec => []HP!MutexOwner
  BY HP!OneWriter, PartsAssumed
<1>2. HP!Spec => []HP!JamCause
  BY HP!JamsOnlyOnRemoved, PartsAssumed
<1>3. HP!Spec => []HP!ListedUntilClosed
  BY HP!ListedExactly, PartsAssumed
<1>4. HP!Spec => []HP!NoMissedChange
  BY HP!NothingMissed, PartsAssumed
<1> QED
  BY <1>1, <1>2, <1>3, <1>4, SameHub, SameHubSafe, PTL

-----------------------------------------------------------------------------
(* A Trade goroutine decides on no price before its last change is shown. *)

\* A Trade goroutine broadcasts its own robot and no other.
OwnRobot == /\ arg \in [H!Procs -> Robots \cup {NoRobot}]
            /\ \A r \in Robots : arg[r] \in {NoRobot, r}

LEMMA NextOwnRobot == OwnRobot /\ [Next]_vars => OwnRobot'
<1> SUFFICES ASSUME OwnRobot, [Next]_vars PROVE OwnRobot'
  OBVIOUS
<1> USE DEF hub, H!hub, H!proc
<1>1. CASE UNCHANGED arg
  BY <1>1 DEF OwnRobot
<1>2. ASSUME NEW r \in Robots, Trade(r)
      PROVE  OwnRobot'
  BY <1>2 DEF Trade, H!Change, OwnRobot, H!Procs
<1>3. ASSUME NEW q \in Requests, NEW r \in Robots, Request(q, r)
      PROVE  OwnRobot'
  BY <1>3, Separate DEF Request, H!Change, OwnRobot, H!Procs
<1>4. ASSUME NEW c \in Conns, ConnStep(c)
      PROVE  OwnRobot'
  <2>1. CASE H!ReadRobot(c)
    BY <2>1, Separate DEF H!ReadRobot, OwnRobot, H!Procs
  <2>2. CASE ~H!ReadRobot(c)
    BY <1>1, <1>4, <2>2
    DEF ConnStep, H!ConnStep, H!Accept, H!addClient, H!ReadEOF, H!ReadGivesUp, H!setRobot
  <2> QED
    BY <2>1, <2>2
<1>5. ASSUME NEW p \in H!Procs, Find(p) \/ LockStep(p) \/ Write(p) \/ Unlock(p)
      PROVE  UNCHANGED arg
  BY <1>5 DEF Find, H!Find, LockStep, H!LockStep, H!Lock, H!removeClients, Write,
      H!WriteJSON, Unlock, H!Unlock
<1>6. ASSUME NEW c \in Conns, Network(c)
      PROVE  UNCHANGED arg
  BY <1>6 DEF Network, H!Network, H!Stall, H!Unstall, H!Break, H!Become
<1>7. CASE Restart
  <2>1. arg' = [p \in H!Procs |-> NoRobot]
    BY <1>7 DEF Restart, H!Restart
  <2> QED
    BY <2>1 DEF OwnRobot, H!Procs
<1>8. ASSUME NEW t \in Tickers, Receive(t) \/ Forward(t) \/ NilStreamPanic(t)
      PROVE  UNCHANGED arg
  BY <1>8 DEF Receive, Forward, NilStreamPanic, H!Crash
<1>9. ASSUME NEW r \in Robots, Finish(r) \/ Silently(r)
      PROVE  UNCHANGED arg
  BY <1>9 DEF Finish, Silently
<1>10. CASE Main \/ Timeout \/ Crash \/ UNCHANGED vars
  BY <1>1, <1>10 DEF Main, Timeout, Crash, H!Crash, vars
<1> QED
  BY <1>1, <1>2, <1>3, <1>4, <1>5, <1>6, <1>7, <1>8, <1>9, <1>10 DEF Next

LEMMA SpecOwnRobot == Spec => []OwnRobot
<1>1. Init => OwnRobot
  BY DEF Init, H!Init, OwnRobot, H!Procs
<1> QED
  BY <1>1, NextOwnRobot, PTL DEF Spec

\* What NoMissedChange promises of all callers of Broadcast, less the Trade
\* goroutine of the robot itself, which is not in it.
LEMMA OthersShow == HP!NoMissedChange /\ InStep /\ OwnRobot => ShownBeforeNext
<1> SUFFICES ASSUME HP!NoMissedChange, InStep, OwnRobot, alive, NEW c \in clients,
                    robotID[c] # NoRobot, robotID[c] \notin lost,
                    sock[c] # "broken", tr[robotID[c]] # "cast"
             PROVE  \/ best[c] >= ver[robotID[c]]
                    \/ \E p \in Conns \cup Requests :
                          H!Offers(p, robotID[c], ver[robotID[c]], c)
  BY DEF ShownBeforeNext
<1> DEFINE r == robotID[c]
<1>1. \/ best[c] >= ver[r]
      \/ \E p \in HP!Procs : HP!Offers(p, r, ver[r], c)
  BY DEF HP!NoMissedChange
<1>2. ASSUME NEW p \in HP!Procs, HP!Offers(p, r, ver[r], c)
      PROVE  p \in Conns \cup Requests /\ H!Offers(p, r, ver[r], c)
  <2>1. H!Offers(p, r, ver[r], c) /\ arg[p] = r /\ pc[p] # "idle"
    BY <1>2 DEF H!Offers, HP!Offers
  <2>2. ASSUME p \in Robots PROVE FALSE
    <3>1. p = r
      BY <2>1, <2>2 DEF OwnRobot
    <3> QED
      BY <2>1, <2>2, <3>1 DEF InStep
  <2> QED
    BY <2>1, <2>2 DEF HP!Procs
<1> QED
  BY <1>1, <1>2

\* Trade waits for Broadcast: a goroutine that may decide on a next price has
\* nothing left to show, for any number of robots, clients and requests.
THEOREM ShownFirst == Spec => []ShownBeforeNext
<1>1. HP!Spec => []HP!NoMissedChange
  BY HP!NothingMissed, PartsAssumed
<1> QED
  BY <1>1, SameHub, ServiceInStep, SpecOwnRobot, OthersShow, PTL

-----------------------------------------------------------------------------
(* No deadlock across the two halves. *)

\* What the parts promise and how they are coupled leaves nobody to wait for
\* but the trading service, a jammed hub or a client that takes no data.
LEMMA StallsMeet ==
    CP!TypeOK /\ CP!NoStall /\ HP!TypeOK /\ HP!NoHubDeadlock /\ InStep => NoDeadlock
<1> SUFFICES ASSUME CP!TypeOK, CP!NoStall, HP!TypeOK, HP!NoHubDeadlock, InStep,
                    NEW r \in Robots, main = "wait", tr[r] # "idle"
             PROVE  \/ T!Moving(Ticker[r])
                    \/ \E x \in T!Members(Ticker[r]) : tr[x] = "cast" /\ H!NotStuck(x)
                    \/ T!SilentOn(Ticker[r])
                    \/ H!Jammed \/ H!Blocked
  BY DEF NoDeadlock
<1> DEFINE t == Ticker[r]
<1>1. \/ T!Moving(t)
      \/ \E x \in T!Members(t) : tr[x] = "cast"
      \/ T!SilentOn(t)
  BY DEF CP!NoStall, T!Moving, CP!Moving, T!Members, CP!Members, T!SilentOn,
      CP!SilentOn, T!Receiver, CP!Receiver
<1>2. ASSUME NEW x \in T!Members(t), tr[x] = "cast", x \in Robots
      PROVE  H!NotStuck(x) \/ H!Jammed \/ H!Blocked
  <2>1. alive /\ pc[x] # "idle" /\ x \in HP!Procs
    BY <1>2 DEF InStep, HP!Procs
  <2>2. pc[x] \in {"find", "lock", "write", "drop"}
    BY <1>2, <2>1 DEF HP!TypeOK, HP!CasterLabel
  <2>3. HP!NotStuck(x) \/ HP!Jammed \/ HP!Blocked
    BY <2>1, <2>2 DEF HP!NoHubDeadlock
  <2> QED
    BY <2>3 DEF H!NotStuck, HP!NotStuck, H!CanStep, HP!CanStep, H!Jammed,
      HP!Jammed, H!Blocked, HP!Blocked, H!Procs, HP!Procs
<1>3. T!Members(t) \subseteq Robots
  BY PartsAssumed DEF CP!TradingAssumption, CP!TypeOK, T!Members
<1> QED
  BY <1>1, <1>2, <1>3

\* While a Trade goroutine has not ended, a goroutine of its ticker can go on
\* or is in the hub and waits for nobody but one that can, unless the trading
\* service is silent, the hub is jammed or a client takes no data: for every
\* number of robots, tickers, connections and requests.
THEOREM DeadlockFree == Spec => []NoDeadlock
<1>1. CP!Spec => []CP!TypeOK
  BY CP!TypeCorrect, PartsAssumed
<1>2. CP!Spec => []CP!NoStall
  BY CP!PipelineDeadlockFree, PartsAssumed
<1>3. HP!Spec => []HP!TypeOK
  BY HP!HubTypeCorrect, PartsAssumed
<1>4. HP!Spec => []HP!NoHubDeadlock
  BY HP!HubDeadlockFree, PartsAssumed
<1> QED
  BY <1>1, <1>2, <1>3, <1>4, SameTrading, SameHub, ServiceInStep, StallsMeet, PTL

\* A cycle whose deadline has passed winds down here as well: every step of
\* the process that moves the pipeline takes it nearer to wg.Wait, and while
\* a Trade goroutine is in Broadcast every step of the hub that moves it
\* takes it nearer to the end of Broadcast.  With DeadlockFree this is all
\* of HangsOnFeedOrHub but fairness.
THEOREM ServiceWindsDown ==
    Spec => [][CP!WindingStep]_(CP!vars) /\ [][HP!CastStep]_(HP!vars)
<1>1. CP!Spec => [][CP!WindingStep]_(CP!vars)
  BY CP!LateCyclesWindDown, PartsAssumed, PTL
<1>2. HP!Spec => [][HP!CastStep]_(HP!vars)
  BY HP!BroadcastsGetShorter, PartsAssumed
<1> QED
  BY <1>1, <1>2, SameTrading, SameHub, PTL
=============================================================================
