--------------------------- MODULE TradingProofs ---------------------------
(***************************************************************************)
(* Theorems about Trading, for every set of robots, tickers and prices.    *)
(* TypeOK and Pipeline need each other to be inductive; the facts about    *)
(* the robots table are then invariants relative to the two.               *)
(***************************************************************************)
EXTENDS Trading, FiniteSetTheorems, TLAPS

Inv == TypeOK /\ Pipeline

-----------------------------------------------------------------------------
(* The listings of a finite set are sequences over it without repetition. *)
LEMMA ListingIsSequence ==
    ASSUME NEW R, NEW S \in SUBSET R, IsFiniteSet(S), NEW s \in Listings(S)
    PROVE  /\ s \in Seq(R)
           /\ \A i \in DOMAIN s : s[i] \in S
           /\ \A i, j \in DOMAIN s : s[i] = s[j] => i = j
  <1>1. Cardinality(S) \in Nat
    BY FS_CardinalityType
  <1>2. s \in [1..Cardinality(S) -> S]
    BY DEF Listings
  <1>3. s \in Seq(R)
    <2>1. s \in [1..Cardinality(S) -> R]
      BY <1>2
    <2> QED
      BY <1>1, <2>1
  <1>4. \A i, j \in DOMAIN s : s[i] = s[j] => i = j
    BY DEF Listings
  <1> QED
    BY <1>2, <1>3, <1>4

(* What FindToTrading returns: every listed robot is listed once, under   *)
(* its own ticker, and is tradable.                                       *)
LEMMA GroupingsListTradable ==
    ASSUME TradingAssumption, TypeOK, NEW g \in Groupings \cup {NoRobots}
    PROVE  /\ g \in [Tickers -> Seq(Robots)]
           /\ \A t \in Tickers : \A i \in DOMAIN g[t] :
                /\ g[t][i] \in Robots
                /\ Ticker[g[t][i]] = t
                /\ Tradable(rows[g[t][i]])
                /\ \A j \in DOMAIN g[t] : g[t][i] = g[t][j] => i = j
  <1>1. CASE g = NoRobots
    BY <1>1 DEF NoRobots
  <1>2. CASE g \in Groupings
    <2>1. \A t \in Tickers :
             /\ g[t] \in Seq(Robots)
             /\ \A i \in DOMAIN g[t] : g[t][i] \in TradableOn(t)
             /\ \A i, j \in DOMAIN g[t] : g[t][i] = g[t][j] => i = j
      <3> TAKE t \in Tickers
      <3>1. g[t] \in Listings(TradableOn(t))
        BY <1>2 DEF Groupings
      <3>2. TradableOn(t) \in SUBSET Robots
        BY DEF TradableOn
      <3>3. IsFiniteSet(TradableOn(t))
        BY <3>2, FS_Subset DEF TradingAssumption
      <3> QED
        BY <3>1, <3>2, <3>3, ListingIsSequence
    <2>3. g \in [Tickers -> Seq(Robots)]
      BY <1>2, <2>1 DEF Groupings
    <2>4. \A t \in Tickers : \A i \in DOMAIN g[t] :
             g[t][i] \in Robots /\ Ticker[g[t][i]] = t /\ Tradable(rows[g[t][i]])
      BY <2>1 DEF TradableOn
    <2> QED
      BY <2>1, <2>3, <2>4
  <1> QED
    BY <1>1, <1>2

-----------------------------------------------------------------------------
(* Type correctness: one lemma for the steps of the trading process, one  *)
(* for the steps of the rest of the system.                               *)

LEMMA TypeInit == TradingAssumption /\ Init => TypeOK
  <1> SUFFICES ASSUME TradingAssumption, Init PROVE TypeOK
    OBVIOUS
  <1>1. NewPosition \in Position
    BY DEF NewPosition, Position
  <1>2. rows \in [Robots -> Row]
    <2>1. \A plan \in Plan : NewRow(plan) \in Row
      BY <1>1 DEF NewRow, Row
    <2> QED
      BY <2>1 DEF Init, TradingAssumption, Plan
  <1>3. outs \in [Tickers -> Seq(Robots)]
    BY DEF Init, NoRobots
  <1>4. /\ main \in {"query", "open", "wait", "down"}
        /\ toOpen \in SUBSET Tickers /\ lapsed \in SUBSET Robots
        /\ expired \in BOOLEAN
        /\ rob \in [Robots -> Position]
    BY <1>1 DEF Init
  <1>5. /\ rd \in [Tickers -> {"idle", "nil", "recv", "send", "closed"}]
        /\ held \in [Tickers -> Prices \cup {NoPrice}]
        /\ fw \in [Tickers -> {"idle", "recv", "send", "closed"}]
        /\ cur \in [Tickers -> Prices \cup {NoPrice}]
        /\ next \in [Tickers -> Nat \ {0}]
        /\ passed \in [Tickers -> Nat] /\ overtime \in [Tickers -> Nat]
    BY DEF Init
  <1>6. /\ tr \in [Robots -> {"idle", "recv", "store", "cast"}]
        /\ got \in [Robots -> Nat]
    BY DEF Init
  <1> QED
    BY <1>2, <1>3, <1>4, <1>5, <1>6 DEF TypeOK

LEMMA BuySellType ==
    ASSUME NEW pos \in Position, NEW price \in Quote
    PROVE  /\ Buy(pos, price.buy) \in Position
           /\ Sell(pos, price.sell) \in Position
  BY DEF Buy, Sell, Position, Quote

LEMMA TypeMain ==
    TradingAssumption /\ Inv /\ (MainStep \/ Timeout) => TypeOK'
  <1> SUFFICES ASSUME TradingAssumption, Inv, MainStep \/ Timeout
               PROVE  TypeOK'
    OBVIOUS
  <1> USE DEF Inv, vars, process, reader, forwarder, trader
  <1>1. CASE Query
    <2>1. outs' \in [Tickers -> Seq(Robots)]
      BY <1>1, GroupingsListTradable DEF Query
    <2>2. rob' \in [Robots -> Position]
      BY <1>1 DEF Query, TypeOK, Row
    <2> QED
      BY <1>1, <2>1, <2>2 DEF Query, TypeOK
  <1>2. ASSUME NEW t \in Tickers, Open(t) PROVE TypeOK'
    BY <1>2 DEF Open, TypeOK
  <1>3. CASE Start
    BY <1>3 DEF Start, TypeOK
  <1>4. CASE Wait
    BY <1>4 DEF Wait, TypeOK
  <1>5. CASE Timeout
    BY <1>5 DEF Timeout, TypeOK
  <1> QED
    BY <1>1, <1>2, <1>3, <1>4, <1>5 DEF MainStep

(* The effect of a delivery on the Trade goroutine that takes the price. *)
LEMMA DeliverEffect ==
    ASSUME NEW t \in Tickers, Deliver(t)
    PROVE  LET r == Receiver(t) IN
           \/ /\ rob' = [rob EXCEPT ![r] = Buy(rob[r], cur[t].buy)]
              /\ tr' = [tr EXCEPT ![r] = "store"]
              /\ WantsToBuy(rob[r], Limit[r], cur[t])
           \/ /\ rob' = [rob EXCEPT ![r] = Sell(rob[r], cur[t].sell)]
              /\ tr' = [tr EXCEPT ![r] = "store"]
              /\ WantsToSell(rob[r], Limit[r], cur[t])
           \/ rob' = rob /\ tr' = tr
  <1> DEFINE r == Receiver(t)
  <1>1. CASE /\ WantsToBuy(rob[r], Limit[r], cur[t])
             /\ rob' = [rob EXCEPT ![r] = Buy(@, cur[t].buy)]
             /\ tr' = [tr EXCEPT ![r] = "store"]
    BY <1>1
  <1>2. CASE /\ WantsToSell(rob[r], Limit[r], cur[t])
             /\ rob' = [rob EXCEPT ![r] = Sell(@, cur[t].sell)]
             /\ tr' = [tr EXCEPT ![r] = "store"]
    BY <1>2
  <1>3. CASE UNCHANGED <<tr, rob>>
    BY <1>3
  <1> QED
    BY <1>1, <1>2, <1>3, Zenon DEF Deliver

LEMMA TypePipe ==
    ASSUME TradingAssumption, Inv, NEW t \in Tickers,
           RecvPrice(t) \/ RecvError(t) \/ ForwardStep(t)
    PROVE  TypeOK'
  <1> USE DEF Inv, vars, process, reader, forwarder, trader
  <1>1. CASE RecvPrice(t)
    <2>1. /\ rd \in [Tickers -> {"idle", "nil", "recv", "send", "closed"}]
          /\ held \in [Tickers -> Prices \cup {NoPrice}]
      BY DEF TypeOK
    <2>2. \/ rd' = [rd EXCEPT ![t] = "closed"] /\ held' = held
          \/ \E p \in Prices : /\ rd' = [rd EXCEPT ![t] = "send"]
                               /\ held' = [held EXCEPT ![t] = p]
      BY <1>1 DEF RecvPrice
    <2>3. /\ rd' \in [Tickers -> {"idle", "nil", "recv", "send", "closed"}]
          /\ held' \in [Tickers -> Prices \cup {NoPrice}]
      BY <2>1, <2>2
    <2> QED
      BY <1>1, <2>3 DEF RecvPrice, TypeOK
  <1>2. CASE RecvError(t)
    BY <1>2 DEF RecvError, TypeOK
  <1>3. CASE Handoff(t)
    BY <1>3 DEF Handoff, TypeOK
  <1>4. CASE Deliver(t)
    <2>1. /\ cur[t] \in Quote
          /\ next[t] \in DOMAIN outs[t]
      BY <1>4 DEF Deliver, Pipeline, Carrying, TradingAssumption
    <2>2. Receiver(t) \in Robots
      BY <2>1 DEF Receiver, TypeOK
    <2>3. /\ rob' \in [Robots -> Position]
          /\ tr' \in [Robots -> {"idle", "recv", "store", "cast"}]
      <3>1. /\ Buy(rob[Receiver(t)], cur[t].buy) \in Position
            /\ Sell(rob[Receiver(t)], cur[t].sell) \in Position
        BY <2>1, <2>2, BuySellType DEF TypeOK
      <3> DEFINE r == Receiver(t)
      <3>2. \/ rob' = [rob EXCEPT ![r] = Buy(rob[r], cur[t].buy)]
               /\ tr' = [tr EXCEPT ![r] = "store"]
            \/ rob' = [rob EXCEPT ![r] = Sell(rob[r], cur[t].sell)]
               /\ tr' = [tr EXCEPT ![r] = "store"]
            \/ rob' = rob /\ tr' = tr
        BY <1>4, DeliverEffect
      <3> HIDE DEF r
      <3>3. /\ r \in Robots
            /\ Buy(rob[r], cur[t].buy) \in Position
            /\ Sell(rob[r], cur[t].sell) \in Position
        BY <2>2, <3>1 DEF r
      <3>4. /\ rob \in [Robots -> Position]
            /\ tr \in [Robots -> {"idle", "recv", "store", "cast"}]
        BY DEF TypeOK
      <3> QED
        BY <3>2, <3>3, <3>4
    <2>4. got' \in [Robots -> Nat]
      BY <1>4, <2>2 DEF Deliver, TypeOK
    <2>5. /\ fw' \in [Tickers -> {"idle", "recv", "send", "closed"}]
          /\ cur' \in [Tickers -> Prices \cup {NoPrice}]
          /\ next' \in [Tickers -> Nat \ {0}]
      <3>1. \/ /\ fw' = [fw EXCEPT ![t] = "recv"]
               /\ cur' = [cur EXCEPT ![t] = NoPrice]
               /\ next' = [next EXCEPT ![t] = 1]
            \/ fw' = fw /\ cur' = cur /\ next' = [next EXCEPT ![t] = next[t] + 1]
        BY <1>4 DEF Deliver, Forwarded
      <3>2. /\ fw \in [Tickers -> {"idle", "recv", "send", "closed"}]
            /\ cur \in [Tickers -> Prices \cup {NoPrice}]
            /\ next \in [Tickers -> Nat \ {0}]
        BY DEF TypeOK
      <3> QED
        BY <3>1, <3>2
    <2> QED
      BY <1>4, <2>3, <2>4, <2>5 DEF Deliver, TypeOK
  <1>5. CASE CloseAll(t)
    BY <1>5 DEF CloseAll, TypeOK
  <1> QED
    BY <1>1, <1>2, <1>3, <1>4, <1>5 DEF ForwardStep

LEMMA TypeTrader ==
    ASSUME TradingAssumption, Inv, NEW r \in Robots,
           TradeStep(r) \/ UserStep(r)
    PROVE  TypeOK'
  <1> USE DEF Inv, vars, process, reader, forwarder, trader
  <1>1. CASE Store(r)
    <2>1. [rows EXCEPT ![r].pos = rob[r]] \in [Robots -> Row]
      <3>1. ASSUME NEW row \in Row, NEW pos \in Position
            PROVE  [row EXCEPT !.pos = pos] \in Row
        BY DEF Row
      <3> QED
        BY <3>1 DEF TypeOK
    <2>2. rows' \in [Robots -> Row]
      BY <1>1, <2>1 DEF Store, TypeOK
    <2>3. tr' \in [Robots -> {"idle", "recv", "store", "cast"}]
      BY <1>1 DEF Store, TypeOK
    <2> QED
      BY <1>1, <2>2, <2>3 DEF Store, TypeOK
  <1>2. CASE Cast(r)
    BY <1>2 DEF Cast, TypeOK
  <1>3. CASE Finish(r)
    BY <1>3 DEF Finish, TypeOK
  <1>4. CASE UserStep(r)
    <2>1. ASSUME NEW row \in Row, Rewrite(r, row) PROVE TypeOK'
      BY <2>1 DEF Rewrite, TypeOK
    <2>2. PICK row \in Row : Rewrite(r, row)
      <3>1. rows[r] \in Row
        BY DEF TypeOK
      <3>2. /\ \A b \in BOOLEAN : [rows[r] EXCEPT !.active = b] \in Row
            /\ [rows[r] EXCEPT !.deleted = TRUE] \in Row
            /\ \A p \in Plan : [rows[r] EXCEPT !.plan = p] \in Row
        BY <3>1 DEF Row
      <3> QED
        BY <1>4, <3>2 DEF UserStep, SetActive, SoftDelete, PlanClock, Plan
    <2> QED
      BY <2>1, <2>2
  <1> QED
    BY <1>1, <1>2, <1>3, <1>4 DEF TradeStep

LEMMA TypeCrash ==
    ASSUME TradingAssumption, Inv, Die \/ Restart
    PROVE  TypeOK'
  <1> USE DEF Inv, vars, process, reader, forwarder, trader
  <1>1. CASE Die
    <2>1. NewPosition \in Position
      BY DEF NewPosition, Position
    <2>2. outs' \in [Tickers -> Seq(Robots)]
      BY <1>1 DEF Die, NoRobots
    <2>3. /\ rd' \in [Tickers -> {"idle", "nil", "recv", "send", "closed"}]
          /\ held' \in [Tickers -> Prices \cup {NoPrice}]
          /\ fw' \in [Tickers -> {"idle", "recv", "send", "closed"}]
          /\ cur' \in [Tickers -> Prices \cup {NoPrice}]
          /\ next' \in [Tickers -> Nat \ {0}]
          /\ passed' \in [Tickers -> Nat] /\ overtime' \in [Tickers -> Nat]
      BY <1>1 DEF Die
    <2>4. /\ tr' \in [Robots -> {"idle", "recv", "store", "cast"}]
          /\ got' \in [Robots -> Nat]
          /\ rob' \in [Robots -> Position]
      BY <1>1, <2>1 DEF Die
    <2>5. rows' \in [Robots -> Row] /\ main' \in {"query", "open", "wait", "down"}
          /\ toOpen' \in SUBSET Tickers /\ expired' \in BOOLEAN /\ lapsed' \in SUBSET Robots
      BY <1>1 DEF Die, TypeOK
    <2> QED
      BY <2>2, <2>3, <2>4, <2>5 DEF TypeOK
  <1>2. CASE Restart
    BY <1>2 DEF Restart, TypeOK
  <1> QED
    BY <1>1, <1>2

-----------------------------------------------------------------------------
(* The pipeline: the same three groups of steps. *)

LEMMA PipelineInit == TradingAssumption /\ Init => Pipeline
  BY DEF Init, NoRobots, Pipeline, CycleBarrier, Grouped, Assembling, Draining, Carrying

LEMMA PipelineMain ==
    TradingAssumption /\ Inv /\ (MainStep \/ Timeout) => Pipeline'
  <1> SUFFICES ASSUME TradingAssumption, Inv, MainStep \/ Timeout
               PROVE  Pipeline'
    OBVIOUS
  <1> USE DEF Inv, process, reader, forwarder, trader
  <1>1. CASE Query
    <2>1. /\ outs' \in [Tickers -> Seq(Robots)]
          /\ Grouped'
      BY <1>1, GroupingsListTradable DEF Query, Grouped
    <2>2. Assembling'
      <3>1. \A r \in Robots : tr[r] = "idle"
        BY <1>1 DEF Query, Pipeline, CycleBarrier
      <3> QED
        BY <1>1, <3>1 DEF Query, Assembling
    <2>3. CycleBarrier' /\ Draining' /\ Carrying'
      BY <1>1 DEF Query, CycleBarrier, Draining, Carrying
    <2> QED
      BY <2>1, <2>2, <2>3 DEF Pipeline
  <1>2. ASSUME NEW t \in Tickers, Open(t) PROVE Pipeline'
    <2>1. rd \in [Tickers -> {"idle", "nil", "recv", "send", "closed"}]
      BY DEF TypeOK
    <2>2. \E opened \in {"recv", "nil"} : rd' = [rd EXCEPT ![t] = opened]
      BY <1>2 DEF Open
    <2>3. CycleBarrier' /\ Grouped' /\ Draining'
      BY <1>2 DEF Open, Pipeline, CycleBarrier, Grouped, Draining
    <2>4. Assembling' /\ Carrying'
      BY <1>2, <2>1, <2>2 DEF Open, Pipeline, Assembling, Carrying
    <2> QED
      BY <2>3, <2>4 DEF Pipeline
  <1>3. CASE Start
    <2>1. Draining'
      <3> SUFFICES ASSUME NEW t \in Tickers
                   PROVE  \/ outs[t] = <<>> /\ rd[t] = "idle" /\ fw'[t] = "idle"
                          \/ outs[t] # <<>> /\ rd[t] = "closed" /\ fw'[t] = "closed"
                          \/ /\ outs[t] # <<>> /\ rd[t] # "idle" /\ fw'[t] \in {"recv", "send"}
                             /\ \A i \in DOMAIN outs[t] : tr'[outs[t][i]] # "idle"
        <4>1. UNCHANGED <<outs, rd>>
          BY <1>3 DEF Start
        <4> QED
          BY <4>1 DEF Draining
      <3>1. rd[t] = "idle" <=> outs[t] = <<>>
        BY <1>3 DEF Start, Pipeline, Assembling
      <3>2. \A i \in DOMAIN outs[t] : outs[t][i] \in Robots /\ outs[t][i] \in Members(t)
        BY DEF TypeOK, Members
      <3>3. \A i \in DOMAIN outs[t] : tr'[outs[t][i]] = "recv"
        BY <1>3, <3>2 DEF Start
      <3>4. fw'[t] = IF outs[t] = <<>> THEN "idle" ELSE "recv"
        BY <1>3 DEF Start
      <3> QED
        BY <3>1, <3>3, <3>4
    <2>2. CycleBarrier' /\ Grouped' /\ Assembling'
      BY <1>3 DEF Start, Pipeline, CycleBarrier, Grouped, Assembling
    <2>3. Carrying'
      BY <1>3 DEF Start, Pipeline, Carrying
    <2> QED
      BY <2>1, <2>2, <2>3 DEF Pipeline
  <1>4. CASE Wait
    <2>1. ASSUME NEW t \in Tickers
          PROVE  rd[t] \in {"idle", "closed"} /\ fw[t] \in {"idle", "closed"}
      <3>1. ASSUME outs[t] # <<>> PROVE \E i \in DOMAIN outs[t] : tr[outs[t][i]] = "idle"
        <4>1. 1 \in DOMAIN outs[t] /\ outs[t][1] \in Robots
          BY <3>1 DEF TypeOK
        <4> QED
          BY <1>4, <4>1 DEF Wait
      <3> QED
        BY <1>4, <3>1 DEF Wait, Pipeline, Draining
    <2>2. CycleBarrier'
      BY <1>4, <2>1 DEF Wait, CycleBarrier
    <2> QED
      BY <1>4, <2>2 DEF Wait, Pipeline, Grouped, Assembling, Draining, Carrying
  <1>5. CASE Timeout
    BY <1>5 DEF Timeout, Pipeline, CycleBarrier, Grouped, Assembling, Draining, Carrying
  <1> QED
    BY <1>1, <1>2, <1>3, <1>4, <1>5 DEF MainStep

(* A forwarder that is at work, or a reader that is, shows that the cycle  *)
(* has not reached its end; the forwarder even that all robots are up.     *)
LEMMA ForwarderRunning ==
    ASSUME Inv, NEW t \in Tickers, fw[t] \in {"recv", "send"}
    PROVE  /\ main = "wait" /\ outs[t] # <<>> /\ rd[t] # "idle"
           /\ \A i \in DOMAIN outs[t] : tr[outs[t][i]] # "idle"
  <1>1. main = "wait"
    BY DEF Inv, TypeOK, Pipeline, CycleBarrier, Assembling
  <1> QED
    BY <1>1 DEF Inv, Pipeline, Draining

LEMMA PipelineReader ==
    ASSUME TradingAssumption, Inv, NEW t \in Tickers,
           RecvPrice(t) \/ RecvError(t)
    PROVE  Pipeline'
  <1> USE DEF process, reader, forwarder, trader
  <1>1. /\ rd[t] = "recv" /\ rd'[t] \in {"send", "closed"}
        /\ rd'[t] = "send" => held'[t] \in Prices
        /\ \A u \in Tickers \ {t} : rd'[u] = rd[u] /\ held'[u] = held[u]
    <2>1. /\ rd \in [Tickers -> {"idle", "nil", "recv", "send", "closed"}]
          /\ held \in [Tickers -> Prices \cup {NoPrice}]
      BY DEF Inv, TypeOK
    <2>2. CASE RecvPrice(t)
      BY <2>1, <2>2 DEF RecvPrice
    <2>3. CASE RecvError(t)
      BY <2>1, <2>3 DEF RecvError
    <2> QED
      BY <2>2, <2>3
  <1>2. UNCHANGED <<main, toOpen, outs, fw, cur, next, tr>>
    BY DEF RecvPrice, RecvError
  <1>3. main \in {"open", "wait"}
    BY <1>1 DEF Inv, TypeOK, Pipeline, CycleBarrier
  <1>4. CycleBarrier' /\ Grouped'
    BY <1>2, <1>3 DEF Inv, Pipeline, CycleBarrier, Grouped
  <1>5. ASSUME NEW u \in Tickers
        PROVE  /\ rd'[u] = "idle" <=> rd[u] = "idle"
               /\ rd'[u] = "closed" <=> (rd[u] = "closed" \/ (u = t /\ rd'[t] = "closed"))
               /\ rd'[u] = "send" => held'[u] \in Prices
    BY <1>1 DEF Inv, Pipeline, Carrying
  <1>6. Assembling'
    BY <1>2, <1>5 DEF Inv, Pipeline, Assembling
  <1>7. Draining'
    <2> SUFFICES ASSUME main = "wait", NEW u \in Tickers
                 PROVE  \/ outs[u] = <<>> /\ rd'[u] = "idle" /\ fw[u] = "idle"
                        \/ outs[u] # <<>> /\ rd'[u] = "closed" /\ fw[u] = "closed"
                        \/ /\ outs[u] # <<>> /\ rd'[u] # "idle" /\ fw[u] \in {"recv", "send"}
                           /\ \A i \in DOMAIN outs[u] : tr[outs[u][i]] # "idle"
      BY <1>2 DEF Draining
    <2> QED
      BY <1>5, <1>1 DEF Inv, Pipeline, Draining
  <1>8. Carrying'
    BY <1>2, <1>5 DEF Inv, Pipeline, Carrying
  <1> QED
    BY <1>4, <1>6, <1>7, <1>8 DEF Pipeline

LEMMA PipelineForward ==
    ASSUME TradingAssumption, Inv, NEW t \in Tickers, ForwardStep(t)
    PROVE  Pipeline'
  <1> USE DEF process, reader, forwarder, trader
  <1>t. /\ rd \in [Tickers -> {"idle", "nil", "recv", "send", "closed"}]
        /\ held \in [Tickers -> Prices \cup {NoPrice}]
        /\ fw \in [Tickers -> {"idle", "recv", "send", "closed"}]
        /\ cur \in [Tickers -> Prices \cup {NoPrice}]
        /\ next \in [Tickers -> Nat \ {0}]
        /\ tr \in [Robots -> {"idle", "recv", "store", "cast"}]
        /\ outs \in [Tickers -> Seq(Robots)]
    BY DEF Inv, TypeOK
  <1>1. /\ main = "wait" /\ outs[t] # <<>> /\ rd[t] # "idle"
        /\ \A i \in DOMAIN outs[t] : tr[outs[t][i]] # "idle"
    <2>1. fw[t] \in {"recv", "send"}
      BY DEF ForwardStep, Handoff, Deliver, CloseAll
    <2> QED
      BY <2>1, ForwarderRunning
  <1>2. UNCHANGED <<main, toOpen, outs>>
    BY DEF ForwardStep, Handoff, Deliver, CloseAll
  <1>3. /\ \A u \in Tickers \ {t} : /\ rd'[u] = rd[u] /\ held'[u] = held[u]
                                    /\ fw'[u] = fw[u] /\ cur'[u] = cur[u]
                                    /\ next'[u] = next[u]
        /\ \/ rd'[t] # "idle" /\ fw'[t] \in {"recv", "send"}
           \/ rd'[t] = "closed" /\ fw'[t] = "closed"
        /\ rd'[t] = "send" => held'[t] \in Prices
        /\ fw'[t] = "send" => cur'[t] \in Prices /\ next'[t] \in DOMAIN outs[t]
    <2>1. CASE Handoff(t)
      <3>1. held[t] \in Prices
        BY <2>1 DEF Handoff, Inv, Pipeline, Carrying
      <3>2. 1 \in DOMAIN outs[t]
        BY <1>t, <1>1
      <3> QED
        BY <1>t, <2>1, <3>1, <3>2 DEF Handoff
    <2>2. CASE Deliver(t)
      <3>1. /\ rd[t] = "send" => held[t] \in Prices
            /\ cur[t] \in Prices /\ next[t] \in DOMAIN outs[t]
            /\ fw[t] = "send"
        BY <2>2 DEF Deliver, Inv, Pipeline, Carrying
      <3>2. UNCHANGED <<rd, held>>
        BY <2>2 DEF Deliver
      <3>3. CASE next[t] = Len(outs[t])
        <4>1. /\ fw' = [fw EXCEPT ![t] = "recv"]
              /\ cur' = [cur EXCEPT ![t] = NoPrice]
              /\ next' = [next EXCEPT ![t] = 1]
          BY <2>2, <3>3 DEF Deliver, Forwarded
        <4> QED
          BY <1>t, <1>1, <3>1, <3>2, <4>1
      <3>4. CASE next[t] # Len(outs[t])
        <4>1. next' = [next EXCEPT ![t] = next[t] + 1] /\ UNCHANGED <<fw, cur>>
          BY <2>2, <3>4 DEF Deliver, Forwarded
        <4>2. next[t] + 1 \in DOMAIN outs[t]
          BY <1>t, <3>1, <3>4
        <4> QED
          BY <1>t, <1>1, <3>1, <3>2, <4>1, <4>2
      <3> QED
        BY <3>3, <3>4
    <2>3. CASE CloseAll(t)
      BY <1>t, <2>3 DEF CloseAll
    <2> QED
      BY <2>1, <2>2, <2>3 DEF ForwardStep
  <1>4. \A r \in Robots : tr[r] # "idle" => tr'[r] # "idle"
    <2>1. CASE Deliver(t)
      <3>1. tr' = tr \/ tr' = [tr EXCEPT ![Receiver(t)] = "store"]
        BY <2>1, DeliverEffect
      <3> QED
        BY <1>t, <3>1
    <2>2. CASE ~Deliver(t)
      BY <2>2 DEF ForwardStep, Handoff, CloseAll
    <2> QED
      BY <2>1, <2>2
  <1>5. CycleBarrier' /\ Grouped' /\ Assembling'
    BY <1>1, <1>2 DEF Inv, Pipeline, CycleBarrier, Grouped, Assembling
  <1>6. Draining'
    <2> SUFFICES ASSUME NEW u \in Tickers
                 PROVE  \/ outs[u] = <<>> /\ rd'[u] = "idle" /\ fw'[u] = "idle"
                        \/ outs[u] # <<>> /\ rd'[u] = "closed" /\ fw'[u] = "closed"
                        \/ /\ outs[u] # <<>> /\ rd'[u] # "idle" /\ fw'[u] \in {"recv", "send"}
                           /\ \A i \in DOMAIN outs[u] : tr'[outs[u][i]] # "idle"
      BY <1>2 DEF Draining
    <2>1. \A i \in DOMAIN outs[u] : outs[u][i] \in Robots
      BY <1>t
    <2>2. CASE u = t
      BY <1>1, <1>3, <1>4, <2>1, <2>2
    <2>3. CASE u # t
      BY <1>1, <1>3, <1>4, <2>1, <2>3 DEF Inv, Pipeline, Draining
    <2> QED
      BY <2>2, <2>3
  <1>7. Carrying'
    BY <1>2, <1>3 DEF Inv, Pipeline, Carrying
  <1> QED
    BY <1>5, <1>6, <1>7 DEF Pipeline

LEMMA PipelineTrader ==
    ASSUME TradingAssumption, Inv, NEW r \in Robots,
           TradeStep(r) \/ UserStep(r)
    PROVE  Pipeline'
  <1> USE DEF process, reader, forwarder, trader
  <1>1. UNCHANGED <<main, toOpen, outs, rd, held, fw, cur, next>>
    BY DEF TradeStep, Store, Cast, Finish, UserStep, SetActive, SoftDelete, PlanClock, Rewrite
  <1>2. CycleBarrier' /\ Assembling'
    <2>1. tr' = tr \/ tr[r] # "idle"
      BY DEF TradeStep, Store, Cast, Finish, UserStep, SetActive, SoftDelete, PlanClock, Rewrite
    <2> QED
      BY <1>1, <2>1 DEF Inv, Pipeline, CycleBarrier, Assembling
  <1>3. Draining'
    <2>1. ASSUME NEW u \in Tickers, fw[u] \in {"recv", "send"}, NEW i \in DOMAIN outs[u]
          PROVE  tr'[outs[u][i]] # "idle"
      <3>1. outs[u][i] \in Robots /\ tr[outs[u][i]] # "idle" /\ Ticker[outs[u][i]] = u
        <4>1. \A j \in DOMAIN outs[u] : outs[u][j] \in Robots
          BY DEF Inv, TypeOK
        <4>2. \A j \in DOMAIN outs[u] : Ticker[outs[u][j]] = u
          BY DEF Inv, Pipeline, Grouped
        <4> QED
          BY <2>1, <4>1, <4>2, ForwarderRunning
      <3>2. tr \in [Robots -> {"idle", "recv", "store", "cast"}]
        BY DEF Inv, TypeOK
      <3>3. CASE Finish(r)
        BY <2>1, <3>1, <3>2, <3>3 DEF Finish
      <3>4. CASE Store(r) \/ Cast(r)
        BY <3>1, <3>2, <3>4 DEF Store, Cast
      <3>5. CASE UserStep(r)
        BY <3>1, <3>5 DEF UserStep, SetActive, SoftDelete, PlanClock, Rewrite
      <3> QED
        BY <3>3, <3>4, <3>5 DEF TradeStep
    <2> QED
      BY <1>1, <2>1 DEF Inv, Pipeline, Draining
  <1> QED
    BY <1>1, <1>2, <1>3 DEF Inv, Pipeline, Grouped, Carrying

LEMMA PipelineCrash ==
    ASSUME TradingAssumption, Inv, Die \/ Restart
    PROVE  Pipeline'
  <1> USE DEF process, reader, forwarder, trader, Pipeline, Inv,
              CycleBarrier, Grouped, Assembling, Draining, Carrying
  <1>1. CASE Die
    BY <1>1 DEF Die, NoRobots
  <1>2. CASE Restart
    BY <1>2 DEF Restart
  <1> QED
    BY <1>1, <1>2

-----------------------------------------------------------------------------
(* Every step is of one of the five kinds the lemmas are about. *)
LEMMA StepKinds ==
    ASSUME Next
    PROVE  \/ MainStep \/ Timeout
           \/ \E t \in Tickers : RecvPrice(t) \/ RecvError(t)
           \/ \E t \in Tickers : ForwardStep(t)
           \/ \E r \in Robots : TradeStep(r) \/ UserStep(r)
           \/ Die \/ Restart
  BY DEF Next, NilStreamPanic, Crash

LEMMA InvStep ==
    ASSUME TradingAssumption, Inv, [Next]_vars
    PROVE  Inv'
  <1>1. CASE Next
    <2>1. CASE MainStep \/ Timeout
      BY <2>1, TypeMain, PipelineMain DEF Inv
    <2>2. ASSUME NEW t \in Tickers, RecvPrice(t) \/ RecvError(t) PROVE Inv'
      BY <2>2, TypePipe, PipelineReader DEF Inv
    <2>3. ASSUME NEW t \in Tickers, ForwardStep(t) PROVE Inv'
      BY <2>3, TypePipe, PipelineForward DEF Inv
    <2>4. ASSUME NEW r \in Robots, TradeStep(r) \/ UserStep(r) PROVE Inv'
      BY <2>4, TypeTrader, PipelineTrader DEF Inv
    <2>5. CASE Die \/ Restart
      BY <2>5, TypeCrash, PipelineCrash DEF Inv
    <2> QED
      BY <1>1, <2>1, <2>2, <2>3, <2>4, <2>5, StepKinds
  <1>2. CASE UNCHANGED vars
    BY <1>2 DEF vars, process, reader, forwarder, trader, Inv, TypeOK, Pipeline,
                CycleBarrier, Grouped, Assembling, Draining, Carrying, Members
  <1> QED
    BY <1>1, <1>2

LEMMA SpecInv == Spec => []Inv
  <1>1. Init => Inv
    BY TypeInit, PipelineInit, TradingAssumption DEF Inv
  <1>2. Inv /\ [Next]_vars => Inv'
    BY InvStep, TradingAssumption
  <1> QED
    BY <1>1, <1>2, PTL DEF Spec

(* TypeOK holds in every reachable state, for any robots, tickers, prices. *)
THEOREM TypeCorrect == Spec => []TypeOK
  <1>1. Inv => TypeOK
    BY DEF Inv
  <1> QED
    BY <1>1, SpecInv, PTL

(***************************************************************************)
(* The goroutine pipeline stays in one piece; in particular wg.Wait is a   *)
(* barrier (CycleBarrier), however many robots and tickers a cycle has.    *)
(***************************************************************************)
THEOREM PipelineCorrect == Spec => []Pipeline
  <1>1. Inv => Pipeline
    BY DEF Inv
  <1> QED
    BY <1>1, SpecInv, PTL
=============================================================================
