---------------------------- MODULE CycleProofs ----------------------------
(***************************************************************************)
(* More theorems about Trading: which robots a cycle may trade for, that   *)
(* the fan-out of prices loses and repeats nothing, and that the deadline  *)
(* binds.  Each rests on an invariant of its own beside Inv of             *)
(* TradingProofs.                                                          *)
(***************************************************************************)
EXTENDS LedgerProofs

(* Every robot of the running cycle may trade, or lost this since it began. *)
Eligible ==
    main \in {"open", "wait"} =>
        \A r \in Selected : Tradable(rows[r]) \/ r \in lapsed

(* Trade goroutines run only for robots of the lists of the cycle. *)
RunsSelected ==
    main = "wait" => \A r \in Robots : tr[r] # "idle" => r \in Selected

SelectInv == Inv /\ Eligible /\ RunsSelected

(* No step but Query and a crash touches the lists of the cycle, and no    *)
(* step but those of users touches what makes a robot tradable.            *)
LEMMA SameLists ==
    ASSUME TypeOK, outs' = outs, lapsed' = lapsed,
           \A r \in Robots : Tradable(rows'[r]) <=> Tradable(rows[r]),
           Eligible, main' \in {"open", "wait"} => main \in {"open", "wait"}
    PROVE  Eligible'
  <1>1. Selected' = Selected /\ Selected \subseteq Robots
    BY DEF Selected, Members, TypeOK
  <1>2. ASSUME main' \in {"open", "wait"}, NEW r \in Selected
        PROVE  Tradable(rows'[r]) \/ r \in lapsed'
    BY <1>1, <1>2 DEF Eligible
  <1>3. \A r \in Robots : Tradable(rows[r])' <=> Tradable(rows'[r])
    BY DEF Tradable
  <1> QED
    BY <1>1, <1>2, <1>3 DEF Eligible

LEMMA EligibleQuery ==
    ASSUME TradingAssumption, Inv, Query
    PROVE  Eligible'
  <1>1. outs' \in Groupings \cup {NoRobots} /\ rows' = rows
    BY DEF Query
  <1>2. ASSUME NEW t \in Tickers, NEW i \in DOMAIN outs'[t]
        PROVE  Tradable(rows'[outs'[t][i]])
    BY <1>1, <1>2, GroupingsListTradable DEF Inv
  <1>3. \A r \in Selected' : Tradable(rows'[r])
    BY <1>2 DEF Selected, Members
  <1> QED
    BY <1>3 DEF Eligible, Tradable

LEMMA EligibleUser ==
    ASSUME TradingAssumption, Inv, Eligible, NEW r \in Robots, UserStep(r)
    PROVE  Eligible'
  <1> USE DEF process, reader, forwarder, trader
  <1>1. PICK row : Rewrite(r, row)
    BY DEF UserStep, SetActive, SoftDelete, PlanClock
  <1>2. rows \in [Robots -> Row] /\ rows' = [rows EXCEPT ![r] = row]
    BY <1>1 DEF Rewrite, Inv, TypeOK
  <1>3. /\ rows'[r] = row
        /\ \A s \in Robots \ {r} : rows'[s] = rows[s]
    BY <1>2
  <1>4. /\ lapsed \subseteq lapsed'
        /\ Tradable(rows[r]) /\ ~Tradable(row) => r \in lapsed'
    BY <1>1 DEF Rewrite
  <1>5. Selected' = Selected /\ Selected \subseteq Robots /\ main' = main
    BY <1>1 DEF Rewrite, Selected, Members, Inv, TypeOK
  <1>6. ASSUME main \in {"open", "wait"}, NEW s \in Selected
        PROVE  Tradable(rows'[s]) \/ s \in lapsed'
    <2>1. s \in Robots /\ (Tradable(rows[s]) \/ s \in lapsed)
      BY <1>5, <1>6 DEF Eligible
    <2> QED
      BY <1>3, <1>4, <2>1
  <1> QED
    BY <1>5, <1>6 DEF Eligible, Tradable

LEMMA EligibleStep ==
    ASSUME TradingAssumption, Inv, Eligible, Next
    PROVE  Eligible'
  <1> USE DEF process, reader, forwarder, trader
  <1>1. CASE Query
    BY <1>1, EligibleQuery
  <1>2. ASSUME NEW r \in Robots, UserStep(r) PROVE Eligible'
    BY <1>2, EligibleUser
  <1>3. CASE Die \/ Restart
    BY <1>3 DEF Die, Restart, Eligible
  <1>4. ASSUME NEW r \in Robots, Store(r) PROVE Eligible'
    <2>1. rows \in [Robots -> Row] /\ UNCHANGED <<outs, lapsed, main>>
      BY <1>4 DEF Store, Inv, TypeOK
    <2>2. rows' = rows \/ rows' = [rows EXCEPT ![r].pos = rob[r]]
      BY <1>4 DEF Store
    <2>3. \A s \in Robots : /\ rows'[s].plan = rows[s].plan
                            /\ rows'[s].active = rows[s].active
                            /\ rows'[s].deleted = rows[s].deleted
      BY <2>1, <2>2 DEF Row
    <2>4. \A s \in Robots : Tradable(rows'[s]) <=> Tradable(rows[s])
      BY <2>3 DEF Tradable
    <2> QED
      BY <2>1, <2>4, SameLists DEF Inv
  <1>5. CASE UNCHANGED <<rows, outs, lapsed>> /\ (main' \in {"open", "wait"} => main \in {"open", "wait"})
    BY <1>5, SameLists DEF Inv
  <1> QED
    BY <1>1, <1>2, <1>3, <1>4, <1>5
    DEF Next, MainStep, ForwardStep, TradeStep, Open, Start, Wait, Timeout, RecvPrice,
        RecvError, Handoff, Deliver, CloseAll, Cast, Finish, NilStreamPanic, Crash

LEMMA RunsSelectedStep ==
    ASSUME TradingAssumption, Inv, RunsSelected, Next
    PROVE  RunsSelected'
  <1> USE DEF process, reader, forwarder, trader
  <1>0. tr \in [Robots -> {"idle", "recv", "store", "cast"}]
    BY DEF Inv, TypeOK
  <1>1. CASE Start
    <2>1. /\ \A r \in Robots : tr'[r] # "idle" => \E t \in Tickers : r \in Members(t)
          /\ outs' = outs
      BY <1>1 DEF Start
    <2> QED
      BY <2>1 DEF RunsSelected, Selected, Members
  <1>2. CASE main' # "wait"
    BY <1>2 DEF RunsSelected
  <1>3. CASE outs' = outs /\ main' = main /\ \A r \in Robots : tr'[r] # "idle" => tr[r] # "idle"
    <2>1. Selected' = Selected
      BY <1>3 DEF Selected, Members
    <2> QED
      BY <1>3, <2>1 DEF RunsSelected
  <1>4. ASSUME NEW t \in Tickers, Deliver(t)
        PROVE  outs' = outs /\ main' = main /\ \A r \in Robots : tr'[r] # "idle" => tr[r] # "idle"
    <2>1. tr[Receiver(t)] = "recv" /\ (tr' = tr \/ tr' = [tr EXCEPT ![Receiver(t)] = "store"])
      BY <1>4, DeliverEffect DEF Deliver
    <2>2. outs' = outs /\ main' = main
      BY <1>4 DEF Deliver
    <2> QED
      BY <1>0, <2>1, <2>2
  <1>5. ASSUME NEW r \in Robots, TradeStep(r)
        PROVE  outs' = outs /\ main' = main /\ \A s \in Robots : tr'[s] # "idle" => tr[s] # "idle"
    BY <1>0, <1>5 DEF TradeStep, Store, Cast, Finish
  <1>6. ASSUME NEW r \in Robots, UserStep(r)
        PROVE  outs' = outs /\ main' = main /\ tr' = tr
    BY <1>6 DEF UserStep, SetActive, SoftDelete, PlanClock, Rewrite
  <1>7. CASE UNCHANGED <<outs, main, tr>>
    BY <1>3, <1>7
  <1> QED
    BY <1>1, <1>2, <1>3, <1>4, <1>5, <1>6, <1>7
    DEF Next, MainStep, Query, ForwardStep, Open, Wait, Timeout, RecvPrice, RecvError,
        Handoff, CloseAll, NilStreamPanic, Crash, Die, Restart

LEMMA SpecSelectInv == Spec => []SelectInv
  <1>1. Init => Eligible /\ RunsSelected
    BY DEF Init, Eligible, RunsSelected
  <1>2. Inv /\ Eligible /\ RunsSelected /\ [Next]_vars => Eligible' /\ RunsSelected'
    <2>1. CASE UNCHANGED vars
      BY <2>1 DEF vars, process, trader, Eligible, RunsSelected, Selected, Members, Tradable
    <2> QED
      BY <2>1, EligibleStep, RunsSelectedStep, TradingAssumption
  <1> QED
    BY <1>1, <1>2, SpecInv, PTL DEF Spec, SelectInv

(***************************************************************************)
(* A position is written only for a robot of the running cycle that may    *)
(* trade or lost this right after the cycle took its snapshot.             *)
(***************************************************************************)
THEOREM TradesOnlyForSelected == Spec => TradesOnlySelected
  <1>1. ASSUME SelectInv, [Next]_vars
        PROVE  \A r \in Robots :
                  rows'[r].pos # rows[r].pos =>
                      Running(r) /\ (Tradable(rows[r]) \/ r \in lapsed)
    <2> TAKE r \in Robots
    <2> HAVE rows'[r].pos # rows[r].pos
    <2>1. rows \in [Robots -> Row] /\ tr \in [Robots -> {"idle", "recv", "store", "cast"}]
      BY <1>1 DEF SelectInv, Inv, TypeOK
    <2>2. \E s \in Robots : Store(s) /\ rows' = [rows EXCEPT ![s].pos = rob[s]]
      BY <1>1, OnlyStoreWrites DEF SelectInv, Inv
    <2>3. Store(r)
      BY <2>1, <2>2
    <2>4. tr[r] = "store"
      BY <2>3 DEF Store
    <2>5. main = "wait"
      BY <1>1, <2>4 DEF SelectInv, Inv, TypeOK, Pipeline, CycleBarrier, Assembling
    <2>6. r \in Selected
      BY <1>1, <2>4, <2>5 DEF SelectInv, RunsSelected
    <2> QED
      BY <1>1, <2>4, <2>5, <2>6 DEF SelectInv, Eligible, Running
  <1> QED
    BY <1>1, SpecSelectInv, PTL DEF Spec, TradesOnlySelected

-----------------------------------------------------------------------------
(* While the streams are opened no price has been counted yet. *)
CountsFromZero ==
    main = "open" => /\ \A t \in Tickers : passed[t] = 0
                     /\ \A r \in Robots : got[r] = 0

FanInv == Inv /\ FanOut /\ CountsFromZero

(* The robots of different lists, and of different places, are different. *)
LEMMA OneListEach ==
    ASSUME Inv, NEW t \in Tickers, NEW i \in DOMAIN outs[t],
           NEW u \in Tickers, NEW j \in DOMAIN outs[u], outs[t][i] = outs[u][j]
    PROVE  t = u /\ i = j /\ outs[t][i] \in Robots
  <1>1. t = u
    BY DEF Inv, Pipeline, Grouped
  <1>2. i = j
    BY <1>1 DEF Inv, Pipeline, Grouped
  <1>3. outs[t][i] \in Robots
    BY DEF Inv, TypeOK
  <1> QED
    BY <1>1, <1>2, <1>3

LEMMA FanHandoff ==
    ASSUME Inv, FanOut, NEW t \in Tickers, Handoff(t)
    PROVE  FanOut'
  <1> USE DEF process, reader, forwarder, trader
  <1>1. /\ fw \in [Tickers -> {"idle", "recv", "send", "closed"}]
        /\ next \in [Tickers -> Nat \ {0}] /\ passed \in [Tickers -> Nat]
        /\ outs \in [Tickers -> Seq(Robots)]
    BY DEF Inv, TypeOK
  <1>2. /\ fw[t] = "recv" /\ fw'[t] = "send" /\ next'[t] = 1 /\ passed'[t] = passed[t] + 1
        /\ \A u \in Tickers \ {t} : fw'[u] = fw[u] /\ next'[u] = next[u] /\ passed'[u] = passed[u]
        /\ UNCHANGED <<main, outs, got>>
    BY <1>1 DEF Handoff
  <1> SUFFICES ASSUME main = "wait", NEW u \in Tickers, NEW i \in DOMAIN outs[u]
               PROVE  got[outs[u][i]] = IF fw'[u] = "send" /\ i >= next'[u]
                                        THEN passed'[u] - 1 ELSE passed'[u]
    BY <1>2 DEF FanOut
  <1>3. got[outs[u][i]] = IF fw[u] = "send" /\ i >= next[u] THEN passed[u] - 1 ELSE passed[u]
    BY DEF FanOut
  <1>4. CASE u # t
    BY <1>2, <1>3, <1>4
  <1>5. CASE u = t
    <2>1. i \in Nat /\ i >= 1
      BY <1>1
    <2>2. got[outs[u][i]] = passed[t] /\ passed[t] \in Nat
      BY <1>1, <1>2, <1>3, <1>5
    <2> QED
      BY <1>2, <1>5, <2>1, <2>2
  <1> QED
    BY <1>4, <1>5

LEMMA FanDeliver ==
    ASSUME Inv, FanOut, NEW t \in Tickers, Deliver(t)
    PROVE  FanOut'
  <1> USE DEF process, reader, forwarder, trader
  <1>1. /\ fw \in [Tickers -> {"idle", "recv", "send", "closed"}]
        /\ next \in [Tickers -> Nat \ {0}] /\ passed \in [Tickers -> Nat]
        /\ outs \in [Tickers -> Seq(Robots)] /\ got \in [Robots -> Nat]
    BY DEF Inv, TypeOK
  <1>2. fw[t] = "send" /\ next[t] \in DOMAIN outs[t]
    BY DEF Deliver, Inv, Pipeline, Carrying
  <1>3. /\ main = "wait"
        /\ UNCHANGED <<main, outs, passed>>
        /\ got' = [got EXCEPT ![outs[t][next[t]]] = got[outs[t][next[t]]] + 1]
    BY <1>2, ForwarderRunning DEF Deliver, Receiver
  <1>4. /\ \/ next[t] = Len(outs[t]) /\ fw'[t] = "recv"
           \/ next[t] # Len(outs[t]) /\ fw'[t] = "send" /\ next'[t] = next[t] + 1
        /\ \A u \in Tickers \ {t} : fw'[u] = fw[u] /\ next'[u] = next[u]
    BY <1>1, <1>2 DEF Deliver, Forwarded
  <1> SUFFICES ASSUME NEW u \in Tickers, NEW i \in DOMAIN outs[u]
               PROVE  got'[outs[u][i]] = IF fw'[u] = "send" /\ i >= next'[u]
                                         THEN passed[u] - 1 ELSE passed[u]
    BY <1>3 DEF FanOut
  <1>5. got[outs[u][i]] = IF fw[u] = "send" /\ i >= next[u] THEN passed[u] - 1 ELSE passed[u]
    BY <1>3 DEF FanOut
  <1>6. outs[u][i] \in Robots /\ outs[t][next[t]] \in Robots
    BY <1>2, OneListEach
  <1>7. CASE u = t /\ i = next[t]
    <2>1. got'[outs[u][i]] = got[outs[u][i]] + 1
      BY <1>1, <1>3, <1>6, <1>7
    <2>2. got[outs[u][i]] = passed[t] - 1 /\ passed[t] \in Nat /\ next[t] \in Nat
      BY <1>1, <1>2, <1>5, <1>7
    <2>3. ~(fw'[u] = "send" /\ i >= next'[u])
      BY <1>4, <1>7, <2>2
    <2> QED
      BY <1>7, <2>1, <2>2, <2>3
  <1>8. CASE ~(u = t /\ i = next[t])
    <2>1. outs[u][i] # outs[t][next[t]]
      BY <1>2, <1>8, OneListEach
    <2>2. got'[outs[u][i]] = got[outs[u][i]]
      BY <1>1, <1>3, <1>6, <2>1
    <2>3. CASE u # t
      BY <1>4, <1>5, <2>2, <2>3
    <2>4. CASE u = t /\ next[t] = Len(outs[t])
      <3>1. ~(i >= next[t])
        BY <1>1, <1>8, <2>4
      <3> QED
        BY <1>4, <1>5, <2>2, <2>4, <3>1
    <2>5. CASE u = t /\ next[t] # Len(outs[t])
      <3>1. i >= next[t] <=> i >= next[t] + 1
        BY <1>1, <1>8, <2>5
      <3> QED
        BY <1>2, <1>4, <1>5, <2>2, <2>5, <3>1
    <2> QED
      BY <2>3, <2>4, <2>5
  <1> QED
    BY <1>7, <1>8

LEMMA FanStep ==
    ASSUME TradingAssumption, FanInv, Next
    PROVE  FanOut' /\ CountsFromZero'
  <1> USE DEF process, reader, forwarder, trader
  <1>1. CASE Query
    BY <1>1 DEF Query, FanOut, CountsFromZero
  <1>2. CASE Start
    <2>1. /\ main = "open" /\ UNCHANGED <<outs, passed, got>>
          /\ \A t \in Tickers : fw'[t] # "send"
          /\ main' = "wait"
      BY <1>2 DEF Start
    <2>2. \A t \in Tickers : \A i \in DOMAIN outs[t] : outs[t][i] \in Robots
      BY DEF FanInv, Inv, TypeOK
    <2> QED
      BY <2>1, <2>2 DEF FanInv, CountsFromZero, FanOut
  <1>3. ASSUME NEW t \in Tickers, Handoff(t) PROVE FanOut' /\ CountsFromZero'
    <2>1. main = "wait" /\ main' = main
      <3>1. fw[t] = "recv"
        BY <1>3 DEF Handoff
      <3> QED
        BY <1>3, <3>1, ForwarderRunning DEF FanInv, Handoff
    <2> QED
      BY <1>3, <2>1, FanHandoff DEF FanInv, CountsFromZero
  <1>4. ASSUME NEW t \in Tickers, Deliver(t) PROVE FanOut' /\ CountsFromZero'
    <2>1. main = "wait" /\ main' = main
      <3>1. fw[t] = "send"
        BY <1>4 DEF Deliver
      <3> QED
        BY <1>4, <3>1, ForwarderRunning DEF FanInv, Deliver
    <2> QED
      BY <1>4, <2>1, FanDeliver DEF FanInv, CountsFromZero
  <1>5. ASSUME NEW t \in Tickers, CloseAll(t) PROVE FanOut' /\ CountsFromZero'
    <2>1. /\ fw[t] # "send" /\ fw'[t] # "send"
          /\ \A u \in Tickers \ {t} : fw'[u] = fw[u]
          /\ UNCHANGED <<main, outs, next, passed, got>>
      BY <1>5 DEF CloseAll, FanInv, Inv, TypeOK
    <2>2. \A u \in Tickers : fw'[u] = "send" <=> fw[u] = "send"
      BY <2>1
    <2> QED
      BY <2>1, <2>2 DEF FanInv, FanOut, CountsFromZero
  <1>6. CASE Die \/ Restart
    BY <1>6 DEF Die, Restart, FanOut, CountsFromZero
  <1>7. CASE Wait
    BY <1>7 DEF Wait, FanOut, CountsFromZero
  <1>8. CASE UNCHANGED <<main, outs, fw, next, passed, got>>
    BY <1>8 DEF FanInv, FanOut, CountsFromZero
  <1>9. ASSUME NEW r \in Robots, TradeStep(r) \/ UserStep(r)
        PROVE  UNCHANGED <<main, outs, fw, next, passed, got>>
    BY <1>9 DEF TradeStep, Store, Cast, Finish, UserStep, SetActive, SoftDelete, PlanClock, Rewrite
  <1> QED
    BY <1>1, <1>2, <1>3, <1>4, <1>5, <1>6, <1>7, <1>8, <1>9
    DEF Next, MainStep, ForwardStep, Open, Timeout, RecvPrice, RecvError, NilStreamPanic, Crash

(***************************************************************************)
(* separateChan hands every price it takes to every robot of its ticker,   *)
(* once and in row order, however many robots and prices there are.        *)
(***************************************************************************)
THEOREM FanOutCorrect == Spec => []FanOut
  <1>1. Init => FanOut /\ CountsFromZero
    BY DEF Init, FanOut, CountsFromZero
  <1>2. Inv /\ FanOut /\ CountsFromZero /\ [Next]_vars => FanOut' /\ CountsFromZero'
    <2>1. CASE UNCHANGED vars
      BY <2>1 DEF vars, process, forwarder, trader, FanOut, CountsFromZero
    <2> QED
      BY <2>1, FanStep, TradingAssumption DEF FanInv
  <1> QED
    BY <1>1, <1>2, SpecInv, PTL DEF Spec

-----------------------------------------------------------------------------
(* The deadline: the price a reader holds when it passes is the last one.  *)

(* What a forwarder took after the deadline, and what it may take still. *)
AtMost(t) == overtime[t] + (IF expired /\ rd[t] = "send" THEN 1 ELSE 0)

OvertimeInv ==
    \A t \in Tickers : /\ overtime[t] \in {0, 1} /\ AtMost(t) <= 1
                       /\ ~expired => overtime[t] = 0

LEMMA OvertimeReader ==
    ASSUME TypeOK, OvertimeInv, NEW t \in Tickers,
           Open(t) \/ RecvPrice(t) \/ RecvError(t) \/ Handoff(t)
    PROVE  OvertimeInv'
  <1> USE DEF process, reader, forwarder, trader
  <1>1. /\ rd \in [Tickers -> {"idle", "nil", "recv", "send", "closed"}]
        /\ overtime \in [Tickers -> Nat]
    BY DEF TypeOK
  <1>2. expired' = expired
    BY DEF Open, RecvPrice, RecvError, Handoff
  <1>3. ASSUME NEW u \in Tickers, u # t
        PROVE  rd'[u] = rd[u] /\ overtime'[u] = overtime[u]
    BY <1>1, <1>3 DEF Open, RecvPrice, RecvError, Handoff
  <1>4. CASE Open(t) \/ RecvError(t)
    BY <1>1, <1>2, <1>3, <1>4 DEF Open, RecvError, OvertimeInv, AtMost
  <1>5. CASE RecvPrice(t)
    <2>1. overtime' = overtime /\ (expired => rd'[t] = "closed")
      BY <1>1, <1>5 DEF RecvPrice
    <2> QED
      BY <1>2, <1>3, <2>1 DEF OvertimeInv, AtMost
  <1>6. CASE Handoff(t)
    <2>1. /\ rd[t] = "send" /\ rd'[t] = "recv"
          /\ overtime'[t] = IF expired THEN overtime[t] + 1 ELSE overtime[t]
      BY <1>1, <1>6 DEF Handoff
    <2>2. overtime[t] \in {0, 1} /\ (expired => overtime[t] = 0) /\ (~expired => overtime[t] = 0)
      BY <2>1 DEF OvertimeInv, AtMost
    <2>3. /\ overtime'[t] \in {0, 1} /\ AtMost(t)' <= 1
          /\ ~expired' => overtime'[t] = 0
      BY <1>2, <2>1, <2>2 DEF AtMost
    <2> QED
      BY <1>2, <1>3, <2>3 DEF OvertimeInv, AtMost
  <1> QED
    BY <1>4, <1>5, <1>6

LEMMA OvertimeStep ==
    ASSUME TypeOK, OvertimeInv, Next
    PROVE  OvertimeInv'
  <1> USE DEF process, reader, forwarder, trader
  <1>1. ASSUME NEW t \in Tickers, Open(t) \/ RecvPrice(t) \/ RecvError(t) \/ Handoff(t)
        PROVE  OvertimeInv'
    BY <1>1, OvertimeReader
  <1>2. CASE Query \/ Die
    BY <1>2 DEF Query, Die, OvertimeInv, AtMost
  <1>3. CASE Timeout
    BY <1>3 DEF Timeout, OvertimeInv, AtMost
  <1>4. CASE UNCHANGED <<expired, rd, overtime>>
    BY <1>4 DEF OvertimeInv, AtMost
  <1>5. ASSUME NEW t \in Tickers, Deliver(t) \/ CloseAll(t)
        PROVE  UNCHANGED <<expired, rd, overtime>>
    BY <1>5 DEF Deliver, CloseAll
  <1>6. ASSUME NEW r \in Robots, TradeStep(r) \/ UserStep(r)
        PROVE  UNCHANGED <<expired, rd, overtime>>
    BY <1>6 DEF TradeStep, Store, Cast, Finish, UserStep, SetActive, SoftDelete, PlanClock, Rewrite
  <1>7. CASE Start \/ Wait \/ Restart
    BY <1>4, <1>7 DEF Start, Wait, Restart
  <1> QED
    BY <1>1, <1>2, <1>3, <1>4, <1>5, <1>6, <1>7
    DEF Next, MainStep, ForwardStep, NilStreamPanic, Crash

(***************************************************************************)
(* Past the deadline a forwarder gets the price its reader was holding and *)
(* no other one, for any number of streams, prices and robots.             *)
(***************************************************************************)
THEOREM DeadlineIsBinding == Spec => []DeadlineBinds
  <1>1. Init => OvertimeInv
    BY DEF Init, OvertimeInv, AtMost
  <1>2. TypeOK /\ OvertimeInv /\ [Next]_vars => OvertimeInv'
    <2>1. CASE UNCHANGED vars
      BY <2>1 DEF vars, process, reader, forwarder, OvertimeInv, AtMost
    <2> QED
      BY <2>1, OvertimeStep
  <1>3. Inv => TypeOK
    BY DEF Inv
  <1>4. OvertimeInv => DeadlineBinds
    <2> SUFFICES ASSUME OvertimeInv, NEW t \in Tickers PROVE overtime[t] <= 1
      BY DEF DeadlineBinds
    <2>1. overtime[t] \in {0, 1}
      BY DEF OvertimeInv
    <2> QED
      BY <2>1
  <1> QED
    BY <1>1, <1>2, <1>3, <1>4, SpecInv, PTL DEF Spec

-----------------------------------------------------------------------------
(* Nobody waits within a cycle but for the trading service. *)

(* A robot's goroutine has not ended: then one of its own ticker can go on, *)
(* or is in Broadcast, or the stream of the ticker brings nothing.          *)
NoStall ==
    main = "wait" =>
        \A r \in Robots : tr[r] # "idle" =>
            \/ Moving(Ticker[r])
            \/ \E x \in Members(Ticker[r]) : tr[x] = "cast"
            \/ SilentOn(Ticker[r])

LEMMA WhoHoldsUpWhom == TradingAssumption /\ Inv /\ RunsSelected => NoStall
  <1> SUFFICES ASSUME TradingAssumption, Inv, RunsSelected, main = "wait",
                      NEW r \in Robots, tr[r] # "idle"
               PROVE  \/ Moving(Ticker[r])
                      \/ \E x \in Members(Ticker[r]) : tr[x] = "cast"
                      \/ SilentOn(Ticker[r])
    BY DEF NoStall
  <1> DEFINE t == Ticker[r]
  <1>1. t \in Tickers /\ r \in Members(t) /\ outs[t] # <<>>
    <2>1. PICK u \in Tickers : r \in Members(u)
      BY DEF RunsSelected, Selected
    <2>2. Ticker[r] = u
      BY <2>1 DEF Members, Inv, Pipeline, Grouped
    <2> QED
      BY <2>1, <2>2 DEF Members
  <1>2. \A x \in Members(t) : tr[x] \in {"idle", "recv", "store", "cast"}
    BY <1>1 DEF Members, Inv, TypeOK
  <1>3. CASE rd[t] = "closed" /\ fw[t] = "closed"
    BY <1>1, <1>2, <1>3 DEF Moving
  <1>4. CASE fw[t] = "recv"
    <2>1. rd[t] \in {"nil", "recv", "send", "closed"}
      BY <1>1, <1>4 DEF Inv, TypeOK, Pipeline, Draining
    <2> QED
      BY <1>4, <2>1 DEF Moving, SilentOn
  <1>5. CASE fw[t] = "send"
    <2>1. Receiver(t) \in Members(t) /\ tr[Receiver(t)] # "idle"
      BY <1>1, <1>5 DEF Inv, Pipeline, Draining, Carrying, Members, Receiver
    <2> QED
      BY <1>2, <1>5, <2>1 DEF Moving
  <1> QED
    BY <1>1, <1>3, <1>4, <1>5 DEF Inv, Pipeline, Draining

(***************************************************************************)
(* The pipeline never deadlocks, however many robots share a ticker and    *)
(* whichever streams and writes fail: a Trade goroutine waits for the      *)
(* trading service, for Broadcast, or for one that can go on.              *)
(***************************************************************************)
THEOREM PipelineDeadlockFree == Spec => []NoStall
  <1>1. SelectInv => NoStall
    BY WhoHoldsUpWhom, TradingAssumption DEF SelectInv
  <1> QED
    BY <1>1, SpecSelectInv, PTL

-----------------------------------------------------------------------------
(* After the deadline a cycle only winds down. *)

(***************************************************************************)
(* What the reader and the forwarder of t still have to do once the        *)
(* deadline has passed: at most one price is on its way to the forwarder,  *)
(* and one from there to the robots that are left; then both end.          *)
(***************************************************************************)
ToRead(t) ==
    CASE rd[t] = "send" -> Len(outs[t]) + 2
      [] rd[t] = "recv" -> 1
      [] OTHER          -> 0
ToForward(t) ==
    CASE fw[t] = "send" -> Len(outs[t]) - next[t] + 2
      [] fw[t] = "recv" -> 1
      [] OTHER          -> 0
Ahead(t) == ToRead(t) + ToForward(t)

(* The statements Trade has before it, up to the end of the goroutine. *)
Duty(r) ==
    CASE tr[r] = "store" -> 3
      [] tr[r] = "cast"  -> 2
      [] tr[r] = "recv"  -> 1
      [] OTHER           -> 0

(* The goroutines of one ticker come nearer to their end, those of the     *)
(* others stay where they are; or one Trade goroutine does, and no other.  *)
(* Ordered by tickers first and robots second this is well founded.        *)
PipelineNearer ==
    \E t \in Tickers : /\ Ahead(t)' < Ahead(t)
                       /\ \A u \in Tickers \ {t} : Ahead(u)' = Ahead(u)
TradeNearer ==
    /\ \A t \in Tickers : Ahead(t)' = Ahead(t)
    /\ \E r \in Robots : /\ Duty(r)' < Duty(r)
                         /\ \A s \in Robots \ {r} : Duty(s)' = Duty(s)

(* The cycle runs and its deadline has passed. *)
Late == main = "wait" /\ expired

Measured ==
    Late => /\ \A t \in Tickers : Ahead(t) \in Nat
            /\ \A r \in Robots : Duty(r) \in Nat

LEMMA WorkIsNatural ==
    ASSUME Inv, NEW t \in Tickers
    PROVE  ToRead(t) \in Nat /\ ToForward(t) \in Nat
  <1>1. Len(outs[t]) \in Nat /\ DOMAIN outs[t] = 1..Len(outs[t])
    BY DEF Inv, TypeOK
  <1>2. fw[t] = "send" => next[t] \in Nat /\ next[t] <= Len(outs[t])
    BY <1>1 DEF Inv, Pipeline, Carrying
  <1> QED
    BY <1>1, <1>2 DEF ToRead, ToForward

LEMMA AheadIsNatural == Inv => Measured
  BY WorkIsNatural DEF Measured, Ahead, Duty

(* The reader ends, or hands over its last price; a forwarder hands a price *)
(* on, or ends: each takes its pipeline, and no other, nearer to the end.   *)
LEMMA ReaderNearer ==
    ASSUME Inv, Late, NEW t \in Tickers, RecvPrice(t) \/ RecvError(t)
    PROVE  PipelineNearer
  <1> USE DEF process, forwarder
  <1>1. /\ rd[t] = "recv" /\ rd' = [rd EXCEPT ![t] = "closed"]
        /\ UNCHANGED <<outs, fw, next>>
    BY Zenon DEF RecvPrice, RecvError, Late
  <1>2. rd'[t] = "closed" /\ \A u \in Tickers \ {t} : rd'[u] = rd[u]
    BY <1>1 DEF Inv, TypeOK
  <1>3. ASSUME NEW u \in Tickers \ {t} PROVE Ahead(u)' = Ahead(u)
    BY <1>1, <1>2 DEF Ahead, ToRead, ToForward
  <1>4. ToRead(t) = 1 /\ ToRead(t)' = 0 /\ ToForward(t)' = ToForward(t)
    BY <1>1, <1>2 DEF ToRead, ToForward
  <1>5. Ahead(t)' < Ahead(t)
    BY <1>4, WorkIsNatural DEF Ahead
  <1> QED
    BY <1>3, <1>5 DEF PipelineNearer

LEMMA ForwarderNearer ==
    ASSUME Inv, Late, NEW t \in Tickers, ForwardStep(t)
    PROVE  PipelineNearer
  <1> USE DEF process, reader, trader, forwarder
  <1>1. /\ Len(outs[t]) \in Nat /\ DOMAIN outs[t] = 1..Len(outs[t])
        /\ rd \in [Tickers -> {"idle", "nil", "recv", "send", "closed"}]
        /\ fw \in [Tickers -> {"idle", "recv", "send", "closed"}]
        /\ next \in [Tickers -> Nat \ {0}]
    BY DEF Inv, TypeOK
  <1>2. CASE Handoff(t)
    <2>1. /\ rd[t] = "send" /\ fw[t] = "recv" /\ outs' = outs
          /\ rd'[t] = "recv" /\ fw'[t] = "send" /\ next'[t] = 1
          /\ \A u \in Tickers \ {t} :
                rd'[u] = rd[u] /\ fw'[u] = fw[u] /\ next'[u] = next[u]
      BY <1>1, <1>2 DEF Handoff
    <2>2. \A u \in Tickers \ {t} : Ahead(u)' = Ahead(u)
      BY <2>1 DEF Ahead, ToRead, ToForward
    <2>3. Ahead(t) = Len(outs[t]) + 3 /\ Ahead(t)' = Len(outs[t]) + 2
      BY <1>1, <2>1 DEF Ahead, ToRead, ToForward
    <2> QED
      BY <1>1, <2>2, <2>3 DEF PipelineNearer
  <1>3. CASE Deliver(t)
    <2>1. /\ fw[t] = "send" /\ outs' = outs /\ rd' = rd
          /\ next[t] \in 1..Len(outs[t])
      BY <1>1, <1>3 DEF Deliver, Inv, Pipeline, Carrying
    <2>2. /\ \A u \in Tickers \ {t} : fw'[u] = fw[u] /\ next'[u] = next[u]
          /\ \/ next[t] = Len(outs[t]) /\ fw'[t] = "recv"
             \/ fw'[t] = "send" /\ next'[t] = next[t] + 1
      BY <1>1, <1>3, <2>1 DEF Deliver, Forwarded
    <2>3. \A u \in Tickers \ {t} : Ahead(u)' = Ahead(u)
      BY <2>1, <2>2 DEF Ahead, ToRead, ToForward
    <2>4. ToForward(t)' = ToForward(t) - 1 /\ ToForward(t) \in Nat
      BY <1>1, <2>1, <2>2 DEF ToForward
    <2>5. ToRead(t)' = ToRead(t) /\ ToRead(t) \in Nat
      BY <1>1, <2>1 DEF ToRead
    <2> QED
      BY <2>3, <2>4, <2>5 DEF PipelineNearer, Ahead
  <1>4. CASE CloseAll(t)
    <2>1. /\ rd[t] = "closed" /\ fw[t] = "recv" /\ fw'[t] = "closed"
          /\ rd' = rd /\ outs' = outs /\ next' = next
          /\ \A u \in Tickers \ {t} : fw'[u] = fw[u]
      BY <1>1, <1>4 DEF CloseAll
    <2>2. \A u \in Tickers \ {t} : Ahead(u)' = Ahead(u)
      BY <2>1 DEF Ahead, ToRead, ToForward
    <2>3. Ahead(t) = 1 /\ Ahead(t)' = 0
      BY <2>1 DEF Ahead, ToRead, ToForward
    <2> QED
      BY <2>2, <2>3 DEF PipelineNearer
  <1> QED
    BY <1>2, <1>3, <1>4 DEF ForwardStep

(* A Trade goroutine does one of its statements, and nobody else moves. *)
LEMMA TraderNearer ==
    ASSUME Inv, NEW r \in Robots, TradeStep(r)
    PROVE  TradeNearer
  <1> USE DEF process, reader, forwarder
  <1>1. UNCHANGED <<outs, rd, fw, next>>
    BY Zenon DEF TradeStep, Store, Cast, Finish
  <1>2. \A t \in Tickers : Ahead(t)' = Ahead(t)
    BY <1>1 DEF Ahead, ToRead, ToForward
  <1>3. /\ \/ tr[r] = "store" /\ tr'[r] = "cast"
           \/ tr[r] = "cast" /\ tr'[r] = "recv"
           \/ tr[r] = "recv" /\ tr'[r] = "idle"
        /\ \A s \in Robots \ {r} : tr'[s] = tr[s]
    BY DEF TradeStep, Store, Cast, Finish, Inv, TypeOK
  <1>4. Duty(r)' < Duty(r) /\ \A s \in Robots \ {r} : Duty(s)' = Duty(s)
    BY <1>3 DEF Duty
  <1> QED
    BY <1>2, <1>4 DEF TradeNearer

WindingStep ==
    Late /\ main' = "wait" =>
        /\ expired'
        /\ \/ UNCHANGED <<process, reader, forwarder, trader>>
           \/ PipelineNearer
           \/ TradeNearer

LEMMA LateStep ==
    ASSUME Inv, [Next]_vars
    PROVE  WindingStep
  <1> SUFFICES ASSUME Late, main' = "wait"
               PROVE  /\ expired'
                      /\ \/ UNCHANGED <<process, reader, forwarder, trader>>
                         \/ PipelineNearer
                         \/ TradeNearer
    BY DEF WindingStep
  <1>1. ASSUME NEW t \in Tickers, RecvPrice(t) \/ RecvError(t)
        PROVE  expired' /\ PipelineNearer
    BY <1>1, ReaderNearer DEF RecvPrice, RecvError, process, Late
  <1>2. ASSUME NEW t \in Tickers, ForwardStep(t)
        PROVE  expired' /\ PipelineNearer
    BY <1>2, ForwarderNearer DEF ForwardStep, Handoff, Deliver, CloseAll, process, Late
  <1>3. ASSUME NEW r \in Robots, TradeStep(r)
        PROVE  expired' /\ TradeNearer
    BY <1>3, TraderNearer DEF TradeStep, Store, Cast, Finish, process, Late
  <1>4. ASSUME NEW r \in Robots, UserStep(r)
        PROVE  expired' /\ UNCHANGED <<process, reader, forwarder, trader>>
    <2>1. PICK row : Rewrite(r, row)
      BY <1>4 DEF UserStep, SetActive, SoftDelete, PlanClock
    <2> QED
      BY <2>1 DEF Rewrite, process, Late
  <1>5. ~(MainStep \/ Timeout \/ Die \/ Restart)
    BY DEF MainStep, Query, Open, Start, Wait, Timeout, Die, Restart, Late
  <1>6. CASE UNCHANGED vars
    BY <1>6 DEF vars, process, Late
  <1> QED
    BY <1>1, <1>2, <1>3, <1>4, <1>5, <1>6, StepKinds

(***************************************************************************)
(* Once its deadline has passed a cycle only winds down.  Whatever step    *)
(* the process takes while wg.Wait still waits, the deadline stays passed, *)
(* and a step of the pipeline of a ticker lowers what that ticker still    *)
(* has ahead, a step of a Trade goroutine lowers its own count and nothing *)
(* raises either: a number that no prices, failed writes, failed streams   *)
(* or changes by users can push up again.  With PipelineDeadlockFree this  *)
(* is all of CycleEnds but the fairness of the scheduler.                  *)
(***************************************************************************)
THEOREM LateCyclesWindDown == Spec => []Measured /\ [][WindingStep]_vars
  <1>1. Inv => Measured
    BY AheadIsNatural
  <1>2. Inv /\ [Next]_vars => WindingStep
    BY LateStep
  <1> QED
    BY <1>1, <1>2, SpecInv, PTL DEF Spec
=============================================================================
