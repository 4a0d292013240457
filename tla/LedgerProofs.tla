---------------------------- MODULE LedgerProofs ----------------------------
(***************************************************************************)
(* Trading implements RobotLedger, for every set of robots, tickers and    *)
(* prices.  The inductive fact is CopyExtendsRow: what a Trade goroutine   *)
(* may write is always a continuation of what the row holds.               *)
(***************************************************************************)
EXTENDS TradingProofs

(* Arithmetic of positions. *)

LEMMA OpsType ==
    ASSUME NEW pos \in Position
    PROVE  Buys(pos) \in Nat /\ Ops(pos) \in Nat
  BY DEF Position, Buys, Ops

LEMMA FloorType ==
    ASSUME NEW pos \in Position, NEW limit \in Quote
    PROVE  Floor(pos, limit) \in Int
  <1>1. pos.deals \in Int /\ Buys(pos) \in Int /\ limit.sell \in Int /\ limit.buy \in Int
    BY DEF Position, Quote, Buys
  <1>2. pos.deals * limit.sell \in Int /\ Buys(pos) * limit.buy \in Int
    BY <1>1
  <1> QED
    BY <1>2 DEF Floor

(* Buying below the limit adds one operation, at no worse than the limit. *)
LEMMA BuyGain ==
    ASSUME NEW pos \in Position, NEW limit \in Quote, NEW price \in Quote,
           WantsToBuy(pos, limit, price)
    PROVE  /\ Ops(Buy(pos, price.buy)) = Ops(pos) + 1
           /\ Buy(pos, price.buy).yield - pos.yield
                >= Floor(Buy(pos, price.buy), limit) - Floor(pos, limit)
  <1> DEFINE d == pos.deals
             b == limit.buy
  <1>1. d \in Int /\ b \in Int /\ price.buy \in Int /\ pos.yield \in Int
    BY DEF Position, Quote
  <1>2. Ops(Buy(pos, price.buy)) = Ops(pos) + 1
    BY DEF WantsToBuy, Ops, Buys, Buy, Position
  <1>3. (d + 1) * b = d * b + b
    BY <1>1
  <1>4. /\ Floor(Buy(pos, price.buy), limit) = d * limit.sell - (d + 1) * b
        /\ Floor(pos, limit) = d * limit.sell - d * b
    BY <1>1 DEF WantsToBuy, Floor, Buys, Buy
  <1>5. d * limit.sell \in Int /\ d * b \in Int
    BY <1>1 DEF Quote
  <1>6. Buy(pos, price.buy).yield - pos.yield = -price.buy /\ price.buy < b
    BY <1>1 DEF Buy, WantsToBuy
  <1> HIDE DEF d, b
  <1> QED
    BY <1>1, <1>2, <1>3, <1>4, <1>5, <1>6

(* Selling above the limit adds one operation, at no worse than the limit. *)
LEMMA SellGain ==
    ASSUME NEW pos \in Position, NEW limit \in Quote, NEW price \in Quote,
           WantsToSell(pos, limit, price)
    PROVE  /\ Ops(Sell(pos, price.sell)) = Ops(pos) + 1
           /\ Sell(pos, price.sell).yield - pos.yield
                >= Floor(Sell(pos, price.sell), limit) - Floor(pos, limit)
  <1> DEFINE d == pos.deals
             s == limit.sell
  <1>1. d \in Int /\ s \in Int /\ price.sell \in Int /\ pos.yield \in Int
    BY DEF Position, Quote
  <1>2. Ops(Sell(pos, price.sell)) = Ops(pos) + 1
    BY DEF WantsToSell, Ops, Buys, Sell, Position
  <1>3. (d + 1) * s = d * s + s
    BY <1>1
  <1>4. /\ Floor(Sell(pos, price.sell), limit) = (d + 1) * s - (d + 1) * limit.buy
        /\ Floor(pos, limit) = d * s - (d + 1) * limit.buy
    BY <1>1 DEF WantsToSell, Floor, Buys, Sell
  <1>5. d * s \in Int /\ (d + 1) * limit.buy \in Int
    BY <1>1 DEF Quote
  <1>6. Sell(pos, price.sell).yield - pos.yield = price.sell /\ price.sell > s
    BY <1>1 DEF Sell, WantsToSell
  <1> HIDE DEF d, s
  <1> QED
    BY <1>1, <1>2, <1>3, <1>4, <1>5, <1>6

(* A copy that extends a row still does after one more operation. *)
LEMMA ExtendsStep ==
    ASSUME NEW row \in Position, NEW copy \in Position, NEW later \in Position,
           NEW limit \in Quote,
           Extends(copy, row, limit),
           Ops(later) = Ops(copy) + 1,
           later.yield - copy.yield >= Floor(later, limit) - Floor(copy, limit)
    PROVE  Extends(later, row, limit) /\ Ops(later) > Ops(row)
  <1>1. /\ Ops(row) \in Nat /\ Ops(copy) \in Nat /\ Ops(later) \in Nat
        /\ Floor(row, limit) \in Int /\ Floor(copy, limit) \in Int /\ Floor(later, limit) \in Int
    BY OpsType, FloorType
  <1>2. row.yield \in Int /\ copy.yield \in Int /\ later.yield \in Int
    BY DEF Position
  <1> QED
    BY <1>1, <1>2 DEF Extends

LEMMA ExtendsItself ==
    ASSUME NEW pos \in Position, NEW limit \in Quote
    PROVE  Extends(pos, pos, limit)
  <1>1. Ops(pos) \in Nat /\ Floor(pos, limit) \in Int /\ pos.yield \in Int
    BY OpsType, FloorType DEF Position
  <1> QED
    BY <1>1 DEF Extends

-----------------------------------------------------------------------------
(* CopyExtendsRow is invariant. *)

CopyInv == Inv /\ CopyExtendsRow

LEMMA RowTypes ==
    ASSUME TradingAssumption, TypeOK, NEW r \in Robots
    PROVE  rob[r] \in Position /\ rows[r].pos \in Position /\ Limit[r] \in Quote
  BY DEF TradingAssumption, TypeOK, Row

(* What users and the clock do to a row leaves its position alone. *)
LEMMA UserKeepsPositions ==
    ASSUME TypeOK, NEW r \in Robots, UserStep(r)
    PROVE  \A s \in Robots : rows'[s].pos = rows[s].pos
  <1>1. rows \in [Robots -> Row]
    BY DEF TypeOK
  <1>2. ASSUME NEW row, row.pos = rows[r].pos, Rewrite(r, row)
        PROVE  \A s \in Robots : rows'[s].pos = rows[s].pos
    BY <1>1, <1>2 DEF Rewrite
  <1>3. /\ \A b \in BOOLEAN : [rows[r] EXCEPT !.active = b].pos = rows[r].pos
        /\ [rows[r] EXCEPT !.deleted = TRUE].pos = rows[r].pos
        /\ \A p \in Plan : [rows[r] EXCEPT !.plan = p].pos = rows[r].pos
    BY <1>1 DEF Row
  <1>4. "inside" \in Plan /\ "after" \in Plan
    BY DEF Plan
  <1> QED
    BY <1>2, <1>3, <1>4 DEF UserStep, SetActive, SoftDelete, PlanClock

(* Of the positions of copies and rows, a delivery changes one copy only. *)
LEMMA CopyDeliver ==
    ASSUME TradingAssumption, CopyInv, NEW t \in Tickers, Deliver(t)
    PROVE  CopyExtendsRow'
  <1> DEFINE q == Receiver(t)
  <1>1. /\ fw[t] = "send" /\ cur[t] \in Quote /\ next[t] \in DOMAIN outs[t]
    BY DEF Deliver, CopyInv, Inv, Pipeline, Carrying, TradingAssumption
  <1>2. q \in Robots
    BY <1>1 DEF Receiver, CopyInv, Inv, TypeOK
  <1>3. main = "wait" /\ UNCHANGED <<main, rows>>
    <2>1. main = "wait"
      BY <1>1, ForwarderRunning DEF CopyInv
    <2> QED
      BY <2>1 DEF Deliver, process
  <1>4. /\ rob \in [Robots -> Position]
        /\ tr \in [Robots -> {"idle", "recv", "store", "cast"}]
    BY DEF CopyInv, Inv, TypeOK
  <1>5. tr[q] = "recv"
    BY DEF Deliver
  <1>6. /\ rob[q] \in Position /\ rows[q].pos \in Position /\ Limit[q] \in Quote
        /\ Extends(rob[q], rows[q].pos, Limit[q])
    BY <1>2, <1>3, RowTypes DEF CopyInv, Inv, CopyExtendsRow
  <1>7. \/ rob' = rob /\ tr' = tr
        \/ /\ \A r \in Robots \ {q} : rob'[r] = rob[r] /\ tr'[r] = tr[r]
           /\ Extends(rob'[q], rows[q].pos, Limit[q])
           /\ Ops(rob'[q]) > Ops(rows[q].pos)
    <2>1. CASE /\ rob' = [rob EXCEPT ![q] = Buy(rob[q], cur[t].buy)]
               /\ tr' = [tr EXCEPT ![q] = "store"]
               /\ WantsToBuy(rob[q], Limit[q], cur[t])
      <3>1. Buy(rob[q], cur[t].buy) \in Position
        BY <1>1, <1>6, BuySellType
      <3>2. /\ Extends(Buy(rob[q], cur[t].buy), rows[q].pos, Limit[q])
            /\ Ops(Buy(rob[q], cur[t].buy)) > Ops(rows[q].pos)
        BY <1>1, <1>6, <2>1, <3>1, BuyGain, ExtendsStep
      <3>3. /\ \A r \in Robots \ {q} : rob'[r] = rob[r] /\ tr'[r] = tr[r]
            /\ rob'[q] = Buy(rob[q], cur[t].buy)
        BY <1>2, <1>4, <2>1
      <3> QED
        BY <3>2, <3>3
    <2>2. CASE /\ rob' = [rob EXCEPT ![q] = Sell(rob[q], cur[t].sell)]
               /\ tr' = [tr EXCEPT ![q] = "store"]
               /\ WantsToSell(rob[q], Limit[q], cur[t])
      <3>1. Sell(rob[q], cur[t].sell) \in Position
        BY <1>1, <1>6, BuySellType
      <3>2. /\ Extends(Sell(rob[q], cur[t].sell), rows[q].pos, Limit[q])
            /\ Ops(Sell(rob[q], cur[t].sell)) > Ops(rows[q].pos)
        BY <1>1, <1>6, <2>2, <3>1, SellGain, ExtendsStep
      <3>3. /\ \A r \in Robots \ {q} : rob'[r] = rob[r] /\ tr'[r] = tr[r]
            /\ rob'[q] = Sell(rob[q], cur[t].sell)
        BY <1>2, <1>4, <2>2
      <3> QED
        BY <3>2, <3>3
    <2> QED
      BY <2>1, <2>2, DeliverEffect
  <1> HIDE DEF q
  <1> QED
    BY <1>3, <1>7 DEF CopyInv, CopyExtendsRow

(* The other steps leave the copies alone, or replace them all by rows. *)
LEMMA CopyOther ==
    ASSUME TradingAssumption, CopyInv, Next, \A t \in Tickers : ~Deliver(t)
    PROVE  CopyExtendsRow'
  <1> USE DEF process, reader, forwarder, trader
  <1>0. /\ rows \in [Robots -> Row]
        /\ tr \in [Robots -> {"idle", "recv", "store", "cast"}]
    BY DEF CopyInv, Inv, TypeOK
  <1>1. CASE Query
    <2>1. \A r \in Robots : rob'[r] = rows[r].pos /\ tr[r] = "idle"
      BY <1>1 DEF Query, CopyInv, Inv, Pipeline, CycleBarrier
    <2>2. UNCHANGED <<rows, tr>>
      BY <1>1 DEF Query
    <2> QED
      BY <2>1, <2>2, RowTypes, ExtendsItself DEF CopyInv, Inv, CopyExtendsRow
  <1>2. CASE UNCHANGED <<rows, rob, tr>> /\ (main' \in {"open", "wait"} => main \in {"open", "wait"})
    BY <1>2 DEF CopyInv, CopyExtendsRow
  <1>3. CASE Start
    <2>1. /\ \A r \in Robots : tr'[r] # "store"
          /\ main \in {"open", "wait"} /\ UNCHANGED <<rows, rob>>
      BY <1>3 DEF Start
    <2> QED
      BY <2>1 DEF CopyInv, CopyExtendsRow
  <1>4. ASSUME NEW r \in Robots, Store(r) PROVE CopyExtendsRow'
    <2>1. UNCHANGED <<main, rob>> /\ tr' = [tr EXCEPT ![r] = "cast"]
      BY <1>4 DEF Store
    <2>2. rows' = rows \/ rows' = [rows EXCEPT ![r].pos = rob[r]]
      BY <1>4 DEF Store
    <2>3. \A s \in Robots : rows'[s].pos = rows[s].pos \/ (s = r /\ rows'[s].pos = rob[s])
      BY <1>0, <2>2 DEF Row
    <2>4. \A s \in Robots : tr'[s] = "store" => tr[s] = "store" /\ s # r
      BY <1>0, <2>1
    <2>5. \A s \in Robots : Extends(rob[s], rob[s], Limit[s])
      BY RowTypes, ExtendsItself DEF CopyInv, Inv
    <2> QED
      BY <2>1, <2>3, <2>4, <2>5 DEF CopyInv, CopyExtendsRow
  <1>5. ASSUME NEW r \in Robots, Cast(r) \/ Finish(r) PROVE CopyExtendsRow'
    <2>1. UNCHANGED <<main, rob, rows>> /\ \A s \in Robots : tr'[s] = "store" => tr[s] = "store"
      BY <1>0, <1>5 DEF Cast, Finish
    <2> QED
      BY <2>1 DEF CopyInv, CopyExtendsRow
  <1>6. ASSUME NEW r \in Robots, UserStep(r) PROVE CopyExtendsRow'
    <2>1. UNCHANGED <<main, rob, tr>>
      BY <1>6 DEF UserStep, SetActive, SoftDelete, PlanClock, Rewrite
    <2>2. \A s \in Robots : rows'[s].pos = rows[s].pos
      BY <1>0, <1>6, UserKeepsPositions DEF CopyInv, Inv
    <2> QED
      BY <2>1, <2>2 DEF CopyInv, CopyExtendsRow
  <1>7. CASE Die \/ Restart
    BY <1>7 DEF Die, Restart, CopyExtendsRow
  <1> QED
    BY <1>1, <1>2, <1>3, <1>4, <1>5, <1>6, <1>7
    DEF Next, MainStep, ForwardStep, TradeStep, Open, Wait, Timeout, RecvPrice, RecvError,
        Handoff, CloseAll, NilStreamPanic, Crash

LEMMA CopyInit == Init => CopyExtendsRow
  BY DEF Init, CopyExtendsRow

LEMMA CopyStep ==
    ASSUME TradingAssumption, CopyInv, [Next]_vars
    PROVE  CopyInv'
  <1>1. Inv'
    BY InvStep DEF CopyInv
  <1>2. CASE UNCHANGED vars
    BY <1>1, <1>2 DEF vars, process, trader, CopyInv, CopyExtendsRow
  <1>3. CASE Next
    BY <1>1, <1>3, CopyDeliver, CopyOther DEF CopyInv
  <1> QED
    BY <1>2, <1>3

LEMMA SpecCopyInv == Spec => []CopyInv
  <1>1. Init => CopyInv
    BY TypeInit, PipelineInit, CopyInit, TradingAssumption DEF CopyInv, Inv
  <1>2. CopyInv /\ [Next]_vars => CopyInv'
    BY CopyStep, TradingAssumption
  <1> QED
    BY <1>1, <1>2, PTL DEF Spec

(***************************************************************************)
(* The position a Trade goroutine is about to write always continues the   *)
(* one in the row, so RobotStorage.Trade never undoes a recorded deal.     *)
(***************************************************************************)
THEOREM CopyCorrect == Spec => []CopyExtendsRow
  <1>1. CopyInv => CopyExtendsRow
    BY DEF CopyInv
  <1> QED
    BY <1>1, SpecCopyInv, PTL

-----------------------------------------------------------------------------
(* Refinement: every step of Trading is a step of RobotLedger or stutters. *)

LEMMA AtLimitsIsFloor ==
    ASSUME NEW r \in Robots, NEW pos \in Position
    PROVE  Ledger!AtLimits(r, Ops(pos)) = Floor(pos, Limit[r])
  <1>1. pos.deals \in Nat
    BY DEF Position
  <1>2. Ledger!Sells(Ops(pos)) = pos.deals /\ Ops(pos) - pos.deals = Buys(pos)
    <2>1. CASE pos.buying
      BY <1>1, <2>1 DEF Ledger!Sells, Ops, Buys
    <2>2. CASE ~pos.buying
      BY <1>1, <2>2 DEF Ledger!Sells, Ops, Buys
    <2> QED
      BY <2>1, <2>2
  <1> QED
    BY <1>2 DEF Ledger!AtLimits, Floor

(* Only a Store that commits changes a position. *)
LEMMA OnlyStoreWrites ==
    ASSUME TypeOK, [Next]_vars
    PROVE  \/ \A r \in Robots : rows'[r].pos = rows[r].pos
           \/ \E r \in Robots : Store(r) /\ rows' = [rows EXCEPT ![r].pos = rob[r]]
  <1> USE DEF process, reader, forwarder, trader
  <1>1. ASSUME NEW r \in Robots, UserStep(r) PROVE \A s \in Robots : rows'[s].pos = rows[s].pos
    BY <1>1, UserKeepsPositions
  <1>2. ASSUME NEW r \in Robots, Store(r)
        PROVE  \/ rows' = rows
               \/ Store(r) /\ rows' = [rows EXCEPT ![r].pos = rob[r]]
    BY <1>2 DEF Store
  <1>3. CASE UNCHANGED rows
    BY <1>3
  <1> QED
    BY <1>1, <1>2, <1>3
    DEF Next, MainStep, Query, Open, Start, Wait, Timeout, RecvPrice, RecvError, ForwardStep,
        Handoff, Deliver, CloseAll, TradeStep, Cast, Finish, NilStreamPanic, Crash, Die,
        Restart, vars

LEMMA LedgerInit == Init => Ledger!Init
  <1> SUFFICES ASSUME Init PROVE Ledger!Init
    OBVIOUS
  <1>1. \A r \in Robots : rows[r].pos = NewPosition
    BY DEF Init, NewRow
  <1>2. Ops(NewPosition) = 0 /\ NewPosition.yield = 0
    BY DEF NewPosition, Ops, Buys
  <1> QED
    BY <1>1, <1>2 DEF Ledger!Init

LEMMA LedgerStep ==
    ASSUME TradingAssumption, CopyInv, [Next]_vars
    PROVE  [Ledger!Next]_(Ledger!ledger)
  <1>1. rows \in [Robots -> Row]
    BY DEF CopyInv, Inv, TypeOK
  <1>2. CASE \A r \in Robots : rows'[r].pos = rows[r].pos
    BY <1>2 DEF Ledger!ledger
  <1>3. ASSUME NEW r \in Robots, Store(r), rows' = [rows EXCEPT ![r].pos = rob[r]]
        PROVE  Ledger!Next
    <2>1. /\ rows'[r].pos = rob[r]
          /\ \A s \in Robots \ {r} : rows'[s].pos = rows[s].pos
      BY <1>1, <1>3 DEF Row
    <2>2. tr[r] = "store" /\ main \in {"open", "wait"}
      BY <1>3 DEF Store, CopyInv, Inv, TypeOK, Pipeline, CycleBarrier
    <2>3. Ops(rob[r]) > Ops(rows[r].pos) /\ Extends(rob[r], rows[r].pos, Limit[r])
      BY <2>2 DEF CopyInv, CopyExtendsRow
    <2>4. /\ Ledger!AtLimits(r, Ops(rob[r])) = Floor(rob[r], Limit[r])
          /\ Ledger!AtLimits(r, Ops(rows[r].pos)) = Floor(rows[r].pos, Limit[r])
      BY AtLimitsIsFloor, RowTypes DEF CopyInv, Inv
    <2>5. Ledger!Advance(r)
      BY <2>1, <2>3, <2>4 DEF Ledger!Advance, Extends
    <2> QED
      BY <2>5 DEF Ledger!Next
  <1> QED
    BY <1>2, <1>3, OnlyStoreWrites DEF CopyInv, Inv

(***************************************************************************)
(* Trading implements RobotLedger: through failed and uncertain writes,    *)
(* crashes, restarts and changes by users, the recorded deals of a robot   *)
(* only move forward, and never by less than its limits allow.             *)
(***************************************************************************)
THEOREM ImplementsLedger == Spec => LedgerSpec
  <1>1. Init => Ledger!Init
    BY LedgerInit
  <1>2. CopyInv /\ [Next]_vars => [Ledger!Next]_(Ledger!ledger)
    BY LedgerStep, TradingAssumption
  <1> QED
    BY <1>1, <1>2, SpecCopyInv, PTL DEF Spec, LedgerSpec, Ledger!Spec

(* What the ledger adds up to: the yield of a row, whatever happened to it, *)
(* is at least what its limits give for the deals it records.               *)
WithinLimits ==
    \A r \in Robots : rows[r].pos.yield >= Floor(rows[r].pos, Limit[r])

LEMMA WithinInit == TradingAssumption /\ Init => WithinLimits
  <1> SUFFICES ASSUME TradingAssumption, Init, NEW r \in Robots
               PROVE  rows[r].pos.yield >= Floor(rows[r].pos, Limit[r])
    BY DEF WithinLimits
  <1>1. rows[r].pos = NewPosition
    BY DEF Init, NewRow
  <1>2. Limit[r].sell \in Int /\ Limit[r].buy \in Int
    BY DEF TradingAssumption, Quote
  <1>3. NewPosition.yield = 0 /\ NewPosition.deals = 0 /\ Buys(NewPosition) = 0
    BY DEF NewPosition, Buys
  <1>4. Floor(NewPosition, Limit[r]) = 0
    BY <1>2, <1>3 DEF Floor
  <1> QED
    BY <1>1, <1>3, <1>4

LEMMA WithinStep ==
    ASSUME TradingAssumption, CopyInv, WithinLimits, [Next]_vars
    PROVE  WithinLimits'
  <1>1. rows \in [Robots -> Row] /\ TypeOK
    BY DEF CopyInv, Inv, TypeOK
  <1>2. CASE \A r \in Robots : rows'[r].pos = rows[r].pos
    BY <1>2 DEF WithinLimits
  <1>3. ASSUME NEW r \in Robots, Store(r), rows' = [rows EXCEPT ![r].pos = rob[r]]
        PROVE  WithinLimits'
    <2>1. /\ rows'[r].pos = rob[r]
          /\ \A s \in Robots \ {r} : rows'[s].pos = rows[s].pos
      BY <1>1, <1>3 DEF Row
    <2>2. tr[r] = "store" /\ main \in {"open", "wait"}
      BY <1>3 DEF Store, CopyInv, Inv, TypeOK, Pipeline, CycleBarrier
    <2>3. rob[r].yield - rows[r].pos.yield
             >= Floor(rob[r], Limit[r]) - Floor(rows[r].pos, Limit[r])
      BY <2>2 DEF CopyInv, CopyExtendsRow, Extends
    <2>4. /\ rob[r] \in Position /\ rows[r].pos \in Position /\ Limit[r] \in Quote
          /\ Floor(rob[r], Limit[r]) \in Int /\ Floor(rows[r].pos, Limit[r]) \in Int
          /\ rob[r].yield \in Int /\ rows[r].pos.yield \in Int
      BY <1>1, RowTypes, FloorType DEF Position, TypeOK, TradingAssumption
    <2>5. rob[r].yield >= Floor(rob[r], Limit[r])
      BY <2>3, <2>4 DEF WithinLimits
    <2> QED
      BY <2>1, <2>5 DEF WithinLimits
  <1> QED
    BY <1>1, <1>2, <1>3, OnlyStoreWrites

LEMMA SpecWithin == Spec => []WithinLimits
  <1>1. CopyInv /\ WithinLimits /\ [Next]_vars => WithinLimits'
    BY WithinStep, TradingAssumption
  <1> QED
    BY WithinInit, TradingAssumption, <1>1, SpecCopyInv, PTL DEF Spec

(* A robot that is to sell for no less than it buys shows no loss while it *)
(* holds nothing.                                                          *)
NoLoss ==
    \A r \in Robots :
        Limit[r].sell >= Limit[r].buy /\ rows[r].pos.buying => rows[r].pos.yield >= 0

(***************************************************************************)
(* A robot that is to sell for no less than it buys never shows a loss     *)
(* while it holds nothing, after no number of deals, failed writes, lost   *)
(* cycles and crashes: Buy and Sell keep to the limits, and the row never  *)
(* records one half of a deal without the other being still to come.       *)
(***************************************************************************)
THEOREM NeverALoss == Spec => []WithinLimits /\ []NoLoss
  <1>1. ASSUME CopyInv, WithinLimits PROVE NoLoss
    <2> SUFFICES ASSUME NEW r \in Robots, Limit[r].sell >= Limit[r].buy, rows[r].pos.buying
                 PROVE  rows[r].pos.yield >= 0
      BY DEF NoLoss
    <2> DEFINE d == rows[r].pos.deals
               s == Limit[r].sell
               b == Limit[r].buy
    <2>1. /\ rows[r].pos \in Position /\ Limit[r] \in Quote
          /\ d \in Nat /\ s \in Int /\ b \in Int /\ s >= b
          /\ rows[r].pos.yield \in Int
      BY <1>1, RowTypes, TradingAssumption DEF CopyInv, Inv, TypeOK, Position, Quote
    <2>2. Floor(rows[r].pos, Limit[r]) = d * s - d * b
      BY <2>1 DEF Floor, Buys
    <2>3. rows[r].pos.yield >= Floor(rows[r].pos, Limit[r])
      BY <1>1 DEF WithinLimits
    <2> HIDE DEF d, s, b
    <2>4. d * s >= d * b /\ d * s \in Int /\ d * b \in Int
      <3>1. d * s - d * b = d * (s - b) /\ s - b \in Nat
        BY <2>1
      <3>2. d * (s - b) \in Nat
        BY <2>1, <3>1
      <3> QED
        BY <2>1, <3>1, <3>2
    <2> QED
      BY <2>1, <2>2, <2>3, <2>4
  <1>2. CopyInv /\ WithinLimits => NoLoss
    BY <1>1
  <1> QED
    BY <1>2, SpecWithin, SpecCopyInv, PTL
=============================================================================
