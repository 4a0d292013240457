------------------------------ MODULE Trading ------------------------------
(***************************************************************************)
(* The background trading process (cmd/auth-api/trading/trading.go).       *)
(*                                                                         *)
(* StartTrading loops over cycles.  A cycle arms a timeout, takes the      *)
(* tradable robots from the robots table, opens one price stream per       *)
(* ticker, fans every price of a stream out to the robots of that ticker   *)
(* and waits until all of them are done.  Per ticker a reader goroutine    *)
(* (readService) and a forwarder goroutine (separateChan) run; per robot a *)
(* Trade goroutine works on its own copy of the row taken at the start of  *)
(* the cycle.  All channels are unbuffered: a send and its receive are one *)
(* step.  Users change the same rows through the HTTP handlers meanwhile.  *)
(***************************************************************************)
EXTENDS Robot, Sequences, FiniteSets

CONSTANTS Robots,     \* ids of the rows that the table ever holds
          Tickers,
          Ticker,     \* Ticker[r], Limit[r]: columns no UPDATE ever changes
          Limit,
          Prices,     \* the quotes the trading service may stream
          NoPrice,    \* a goroutine that holds no price
          InitPlans,  \* where the clock may lie for a robot at first
          MaxPrices,  \* bound: prices passed on from one stream
          MaxDeals    \* bound: deals of a robot after which its feed is quiet

ASSUME TradingAssumption ==
    /\ IsFiniteSet(Robots)
    /\ Ticker \in [Robots -> Tickers]
    /\ Limit \in [Robots -> Quote]
    /\ Prices \subseteq Quote
    /\ NoPrice \notin Prices
    /\ InitPlans \subseteq {"before", "inside", "after"}
    /\ MaxPrices \in Nat
    /\ MaxDeals \in Nat

VARIABLES
    rows,     \* the robots table
    main,     \* where StartTrading is; "down" when the process is dead
    toOpen,   \* tickers whose stream is still to be opened
    expired,  \* the timeout of this cycle's context has passed
    outs,     \* outs[t]: robots of ticker t in this cycle, in row order
    rd,       \* rd[t]: the reader goroutine of ticker t
    held,     \* held[t]: the price the reader is sending
    fw,       \* fw[t]: the forwarder goroutine of ticker t
    cur,      \* cur[t]: the price the forwarder is sending
    next,     \* next[t]: index in outs[t] of the robot to send it to
    tr,       \* tr[r]: the Trade goroutine of robot r
    rob,      \* rob[r]: the position in that goroutine's copy of the row
    passed,   \* history: prices the forwarder of t took in this cycle
    overtime, \* history: those of them it took after the deadline
    got,      \* history: prices the Trade goroutine of r took in this cycle
    lapsed    \* history: robots that stopped being tradable in this cycle

reader    == <<rd, held>>
forwarder == <<fw, cur, next, passed, overtime>>
trader    == <<tr, rob, got>>
process   == <<main, toOpen, expired, outs>>
vars == <<rows, process, reader, forwarder, trader, lapsed>>

-----------------------------------------------------------------------------
(***************************************************************************)
(* The robots table.  plan is where now() lies relative to plan_start and  *)
(* plan_end; a row without a plan behaves as one whose plan is "after".    *)
(***************************************************************************)
Plan == {"before", "inside", "after"}
Row  == [active : BOOLEAN, plan : Plan, deleted : BOOLEAN, pos : Position]

NewRow(plan) == [active |-> FALSE, plan |-> plan, deleted |-> FALSE,
                 pos |-> NewPosition]

\* The WHERE clause of findToTradingQuery.
Tradable(row) == ~row.deleted /\ (row.plan = "inside" \/ row.active)

\* All orders in which a query without ORDER BY can list the robots in S.
Listings(S) ==
    {s \in [1..Cardinality(S) -> S] :
        /\ \A x \in S : \E i \in DOMAIN s : s[i] = x
        /\ \A i, j \in DOMAIN s : s[i] = s[j] => i = j}

\* Sensitivity variant: the query of FindToTrading without deleted_at IS NULL.
TradableOnEvenDeleted(t) ==
    {r \in Robots : Ticker[r] = t /\ (rows[r].plan = "inside" \/ rows[r].active)}

TradableOn(t) == {r \in Robots : Ticker[r] = t /\ Tradable(rows[r])}

\* FindToTrading's result, grouped by ticker (tickerRobots).
Groupings ==
    {g \in [Tickers -> UNION {Listings(TradableOn(t)) : t \in Tickers}] :
        \A t \in Tickers : g[t] \in Listings(TradableOn(t))}
NoRobots == [t \in Tickers |-> <<>>]

Members(t) == {outs[t][i] : i \in DOMAIN outs[t]}

-----------------------------------------------------------------------------
Init ==
    /\ \E plan \in [Robots -> InitPlans] : rows = [r \in Robots |-> NewRow(plan[r])]
    /\ main = "query" /\ toOpen = {} /\ expired = FALSE /\ outs = NoRobots
    /\ rd = [t \in Tickers |-> "idle"] /\ held = [t \in Tickers |-> NoPrice]
    /\ fw = [t \in Tickers |-> "idle"] /\ cur = [t \in Tickers |-> NoPrice]
    /\ next = [t \in Tickers |-> 1] /\ passed = [t \in Tickers |-> 0]
    /\ tr = [r \in Robots |-> "idle"] /\ rob = [r \in Robots |-> NewPosition]
    /\ got = [r \in Robots |-> 0] /\ overtime = [t \in Tickers |-> 0]
    /\ lapsed = {}

-----------------------------------------------------------------------------
(* StartTrading *)

(***************************************************************************)
(* A new context is armed and FindToTrading takes its snapshot.  When the  *)
(* query fails the error is logged and the cycle goes on with no robots.   *)
(***************************************************************************)
Query ==
    /\ main = "query"
    /\ outs' \in Groupings \cup {NoRobots}
    /\ rob' = [r \in Robots |-> rows[r].pos]
    /\ toOpen' = {t \in Tickers : outs'[t] # <<>>}
    /\ main' = "open"
    /\ expired' = FALSE
    /\ rd' = [t \in Tickers |-> "idle"]
    /\ fw' = [t \in Tickers |-> "idle"]
    /\ passed' = [t \in Tickers |-> 0]
    /\ got' = [r \in Robots |-> 0] /\ overtime' = [t \in Tickers |-> 0]
    /\ lapsed' = {}
    /\ UNCHANGED <<rows, held, cur, next, tr>>

\* readService for one more ticker: Price opens the stream, or fails and
\* leaves resp nil; the reader goroutine is started either way.
Open(t) ==
    /\ main = "open" /\ t \in toOpen
    /\ toOpen' = toOpen \ {t}
    /\ \E opened \in {"recv", "nil"} : rd' = [rd EXCEPT ![t] = opened]
    /\ UNCHANGED <<rows, main, expired, outs, held, forwarder, trader, lapsed>>

\* separateChan and Trade are started for every ticker and every robot.
Start ==
    /\ main = "open" /\ toOpen = {}
    /\ main' = "wait"
    /\ fw' = [t \in Tickers |-> IF outs[t] = <<>> THEN "idle" ELSE "recv"]
    /\ tr' = [r \in Robots |->
                IF \E t \in Tickers : r \in Members(t) THEN "recv" ELSE "idle"]
    /\ UNCHANGED <<rows, toOpen, expired, outs, reader, cur, next, passed,
                   overtime, rob, got, lapsed>>

\* Sensitivity variant: the WaitGroup counts the streams, not the robots.
WaitForStreams ==
    /\ main = "wait"
    /\ \A t \in Tickers : rd[t] \in {"idle", "closed"}
    /\ main' = "query"
    /\ UNCHANGED <<rows, toOpen, expired, outs, reader, forwarder, trader, lapsed>>

\* wg.Wait returns, cancel is called and the loop goes round.
Wait ==
    /\ main = "wait"
    /\ \A r \in Robots : tr[r] = "idle"
    /\ main' = "query"
    /\ UNCHANGED <<rows, toOpen, expired, outs, reader, forwarder, trader, lapsed>>

\* The deadline of context.WithTimeout passes while the cycle runs.
Timeout ==
    /\ main \in {"open", "wait"} /\ ~expired
    /\ expired' = TRUE
    /\ UNCHANGED <<rows, main, toOpen, outs, reader, forwarder, trader, lapsed>>

-----------------------------------------------------------------------------
(* The reader goroutine of readService *)

\* Bound: when the service stays silent on an unexpired stream.
FeedOpen(t) == /\ passed[t] < MaxPrices
               /\ \A r \in Members(t) : rob[r].deals < MaxDeals

\* Sensitivity variant: a price after the deadline is dropped but read on.
RecvPriceOn(t) ==
    /\ rd[t] = "recv"
    /\ expired \/ FeedOpen(t)
    /\ \E p \in Prices :
         IF expired THEN UNCHANGED reader
         ELSE /\ rd' = [rd EXCEPT ![t] = "send"]
              /\ held' = [held EXCEPT ![t] = p]
    /\ UNCHANGED <<rows, process, forwarder, trader, lapsed>>

\* Sensitivity variant: the deadline is not looked at.
RecvPriceAlways(t) ==
    /\ rd[t] = "recv"
    /\ expired \/ FeedOpen(t)
    /\ \E p \in Prices : /\ rd' = [rd EXCEPT ![t] = "send"]
                          /\ held' = [held EXCEPT ![t] = p]
    /\ UNCHANGED <<rows, process, forwarder, trader, lapsed>>

\* Recv returns a price.  The deadline is looked at only now: past it the
\* price is dropped and the deferred close(out) ends the stream.
RecvPrice(t) ==
    /\ rd[t] = "recv"
    /\ expired \/ FeedOpen(t)
    /\ \E p \in Prices :
         IF expired THEN /\ rd' = [rd EXCEPT ![t] = "closed"]
                         /\ UNCHANGED held
         ELSE /\ rd' = [rd EXCEPT ![t] = "send"]
              /\ held' = [held EXCEPT ![t] = p]
    /\ UNCHANGED <<rows, process, forwarder, trader, lapsed>>

\* Sensitivity variant: the error path returns without close(out).
RecvErrorUnclosed(t) ==
    /\ rd[t] = "recv"
    /\ rd' = [rd EXCEPT ![t] = "idle"]
    /\ UNCHANGED <<rows, process, held, forwarder, trader, lapsed>>

\* Recv returns io.EOF or another error; both break out of the loop.
RecvError(t) ==
    /\ rd[t] = "recv"
    /\ rd' = [rd EXCEPT ![t] = "closed"]
    /\ UNCHANGED <<rows, process, held, forwarder, trader, lapsed>>

\* Sensitivity variant: the forwarder's index is not set back to the first robot.
HandoffFromZero(t) ==
    /\ rd[t] = "send" /\ fw[t] = "recv"
    /\ rd' = [rd EXCEPT ![t] = "recv"]
    /\ held' = [held EXCEPT ![t] = NoPrice]
    /\ fw' = [fw EXCEPT ![t] = "send"]
    /\ cur' = [cur EXCEPT ![t] = held[t]]
    /\ next' = [next EXCEPT ![t] = 0]
    /\ passed' = [passed EXCEPT ![t] = @ + 1]
    /\ overtime' = [overtime EXCEPT ![t] = IF expired THEN @ + 1 ELSE @]
    /\ UNCHANGED <<rows, process, trader, lapsed>>

\* out <- price meets the forwarder's range.
Handoff(t) ==
    /\ rd[t] = "send" /\ fw[t] = "recv"
    /\ rd' = [rd EXCEPT ![t] = "recv"]
    /\ held' = [held EXCEPT ![t] = NoPrice]
    /\ fw' = [fw EXCEPT ![t] = "send"]
    /\ cur' = [cur EXCEPT ![t] = held[t]]
    /\ next' = [next EXCEPT ![t] = 1]
    /\ passed' = [passed EXCEPT ![t] = @ + 1]
    /\ overtime' = [overtime EXCEPT ![t] = IF expired THEN @ + 1 ELSE @]
    /\ UNCHANGED <<rows, process, trader, lapsed>>

-----------------------------------------------------------------------------
(* The forwarder goroutine of separateChan *)

Receiver(t) == outs[t][next[t]]

\* Sensitivity variant: the last robot of the list is left out.
ForwardedButLast(t) ==
    IF next[t] + 1 >= Len(outs[t])
    THEN /\ fw' = [fw EXCEPT ![t] = "recv"]
         /\ cur' = [cur EXCEPT ![t] = NoPrice]
         /\ next' = [next EXCEPT ![t] = 1]
    ELSE next' = [next EXCEPT ![t] = @ + 1] /\ UNCHANGED <<fw, cur>>

\* The inner loop moves to the next robot, or back to the stream.
Forwarded(t) ==
    IF next[t] = Len(outs[t])
    THEN /\ fw' = [fw EXCEPT ![t] = "recv"]
         /\ cur' = [cur EXCEPT ![t] = NoPrice]
         /\ next' = [next EXCEPT ![t] = 1]
    ELSE next' = [next EXCEPT ![t] = @ + 1] /\ UNCHANGED <<fw, cur>>

\* ch <- price meets the range of Trade, which decides at once: buy, sell,
\* or ignore the price and wait for the next one.
Deliver(t) ==
    /\ fw[t] = "send" /\ tr[Receiver(t)] = "recv"
    /\ LET r == Receiver(t) IN
         /\ got' = [got EXCEPT ![r] = @ + 1]
         /\ \/ /\ WantsToBuy(rob[r], Limit[r], cur[t])
               /\ rob' = [rob EXCEPT ![r] = Buy(@, cur[t].buy)]
               /\ tr' = [tr EXCEPT ![r] = "store"]
            \/ /\ WantsToSell(rob[r], Limit[r], cur[t])
               /\ rob' = [rob EXCEPT ![r] = Sell(@, cur[t].sell)]
               /\ tr' = [tr EXCEPT ![r] = "store"]
            \/ /\ ~WantsToBuy(rob[r], Limit[r], cur[t])
               /\ ~WantsToSell(rob[r], Limit[r], cur[t])
               /\ UNCHANGED <<tr, rob>>
    /\ Forwarded(t)
    /\ UNCHANGED <<rows, process, reader, passed, overtime, lapsed>>

\* out is closed and drained: closeChan closes the channel of every robot.
CloseAll(t) ==
    /\ fw[t] = "recv" /\ rd[t] = "closed"
    /\ fw' = [fw EXCEPT ![t] = "closed"]
    /\ UNCHANGED <<rows, process, reader, cur, next, passed, overtime, trader, lapsed>>

-----------------------------------------------------------------------------
(* The Trade goroutine *)

\* RobotStorage.Trade writes the three position columns.  It fails before
\* the commit, or commits; an error of the commit itself may be either.
Store(r) ==
    /\ tr[r] = "store"
    /\ \E committed \in BOOLEAN :
         rows' = IF committed THEN [rows EXCEPT ![r].pos = rob[r]] ELSE rows
    /\ tr' = [tr EXCEPT ![r] = "cast"]
    /\ UNCHANGED <<process, reader, forwarder, rob, got, lapsed>>

\* Broadcast returns; its effect on the websocket clients is in WSClients.
Cast(r) ==
    /\ tr[r] = "cast"
    /\ tr' = [tr EXCEPT ![r] = "recv"]
    /\ UNCHANGED <<rows, process, reader, forwarder, rob, got, lapsed>>

\* The channel is closed: the loop ends and wg.Done is called.
Finish(r) ==
    /\ tr[r] = "recv" /\ fw[Ticker[r]] = "closed"
    /\ tr' = [tr EXCEPT ![r] = "idle"]
    /\ UNCHANGED <<rows, process, reader, forwarder, rob, got, lapsed>>

-----------------------------------------------------------------------------
(* Crash and restart: every goroutine dies, the table stays. *)

Die == /\ main' = "down" /\ toOpen' = {} /\ expired' = FALSE /\ outs' = NoRobots
       /\ rd' = [t \in Tickers |-> "idle"] /\ held' = [t \in Tickers |-> NoPrice]
       /\ fw' = [t \in Tickers |-> "idle"] /\ cur' = [t \in Tickers |-> NoPrice]
       /\ next' = [t \in Tickers |-> 1] /\ passed' = [t \in Tickers |-> 0]
       /\ tr' = [r \in Robots |-> "idle"] /\ got' = [r \in Robots |-> 0]
       /\ rob' = [r \in Robots |-> NewPosition]
       /\ overtime' = [t \in Tickers |-> 0] /\ lapsed' = {}
       /\ UNCHANGED rows

\* resp.Recv() on the nil stream of a failed Price: the goroutine panics and
\* nothing recovers it.
NilStreamPanic(t) == rd[t] = "nil" /\ Die

\* The process is killed, or another goroutine of it panics.
Crash == main # "down" /\ Die

Restart == /\ main = "down" /\ main' = "query"
           /\ UNCHANGED <<rows, toOpen, expired, outs, reader, forwarder,
                          trader, lapsed>>

-----------------------------------------------------------------------------
(* The rest of the system, as far as it touches the columns read here *)

\* A row changes under the running cycle; lapsed remembers who dropped out.
Rewrite(r, row) ==
    /\ row # rows[r]
    /\ rows' = [rows EXCEPT ![r] = row]
    /\ lapsed' = IF Tradable(rows[r]) /\ ~Tradable(row)
                 THEN lapsed \cup {r} ELSE lapsed
    /\ UNCHANGED <<process, reader, forwarder, trader>>

\* ActivateRobot and DeactivateRobot of the storage: an unconditional UPDATE.
SetActive(r) == \E b \in BOOLEAN : Rewrite(r, [rows[r] EXCEPT !.active = b])

SoftDelete(r) == Rewrite(r, [rows[r] EXCEPT !.deleted = TRUE])

\* now() passes plan_start, then plan_end.
PlanClock(r) ==
    \/ rows[r].plan = "before" /\ Rewrite(r, [rows[r] EXCEPT !.plan = "inside"])
    \/ rows[r].plan = "inside" /\ Rewrite(r, [rows[r] EXCEPT !.plan = "after"])

-----------------------------------------------------------------------------
MainStep       == Query \/ (\E t \in Tickers : Open(t)) \/ Start \/ Wait
ForwardStep(t) == Handoff(t) \/ Deliver(t) \/ CloseAll(t)
TradeStep(r)   == Store(r) \/ Cast(r) \/ Finish(r)
UserStep(r)    == SetActive(r) \/ SoftDelete(r) \/ PlanClock(r)

Next ==
    \/ MainStep
    \/ Timeout
    \/ \E t \in Tickers : RecvPrice(t) \/ RecvError(t) \/ NilStreamPanic(t)
    \/ \E t \in Tickers : ForwardStep(t)
    \/ \E r \in Robots : TradeStep(r)
    \/ Crash
    \/ Restart
    \/ \E r \in Robots : UserStep(r)

Spec == Init /\ [][Next]_vars

(***************************************************************************)
(* Goroutines that can run do run, the timer fires, the database and the   *)
(* Broadcast calls return, and the trading service keeps sending prices on *)
(* a stream it has opened.  Nothing is assumed of errors, crashes, users.  *)
(***************************************************************************)
Fairness ==
    /\ WF_vars(MainStep)
    /\ WF_vars(Timeout)
    /\ \A t \in Tickers : /\ WF_vars(RecvPrice(t))
                          /\ WF_vars(ForwardStep(t))
                          /\ WF_vars(NilStreamPanic(t))
    /\ \A r \in Robots : WF_vars(TradeStep(r))

FairSpec == Spec /\ Fairness

\* The same without a word about the trading service, which may fall silent,
\* and about Broadcast, which writes to clients that may take no data.
SilentSpec ==
    /\ Spec
    /\ WF_vars(MainStep)
    /\ WF_vars(Timeout)
    /\ \A t \in Tickers : WF_vars(ForwardStep(t)) /\ WF_vars(NilStreamPanic(t))
    /\ \A r \in Robots : WF_vars(Store(r) \/ Finish(r))

-----------------------------------------------------------------------------
(* Properties *)

Running(r) == main = "wait" /\ tr[r] # "idle"
Selected   == UNION {Members(t) : t \in Tickers}

\* Every variable stays in the set of values the program can give it.
TypeOK ==
    /\ rows \in [Robots -> Row]
    /\ main \in {"query", "open", "wait", "down"}
    /\ toOpen \in SUBSET Tickers
    /\ expired \in BOOLEAN
    /\ outs \in [Tickers -> Seq(Robots)]
    /\ rd \in [Tickers -> {"idle", "nil", "recv", "send", "closed"}]
    /\ held \in [Tickers -> Prices \cup {NoPrice}]
    /\ fw \in [Tickers -> {"idle", "recv", "send", "closed"}]
    /\ cur \in [Tickers -> Prices \cup {NoPrice}]
    /\ next \in [Tickers -> Nat \ {0}]
    /\ passed \in [Tickers -> Nat] /\ overtime \in [Tickers -> Nat]
    /\ tr \in [Robots -> {"idle", "recv", "store", "cast"}]
    /\ rob \in [Robots -> Position]
    /\ got \in [Robots -> Nat]
    /\ lapsed \in SUBSET Robots

(***************************************************************************)
(* wg.Wait is a barrier: when StartTrading takes its next snapshot, no     *)
(* goroutine of the last cycle can still send a price, and none can still  *)
(* write a row.  Otherwise two Trade goroutines could own the same robot.  *)
(***************************************************************************)
CycleBarrier ==
    main \in {"query", "down"} =>
        /\ \A t \in Tickers : rd[t] \in {"idle", "closed"} /\ fw[t] \in {"idle", "closed"}
        /\ \A r \in Robots : tr[r] = "idle"

\* The lists of a cycle name every robot once, under its own ticker.
Grouped ==
    \A t \in Tickers : \A i \in DOMAIN outs[t] :
        /\ Ticker[outs[t][i]] = t
        /\ \A j \in DOMAIN outs[t] : outs[t][i] = outs[t][j] => i = j

\* While the streams are opened, nobody takes a price off one yet.
Assembling ==
    main = "open" =>
        /\ \A r \in Robots : tr[r] = "idle"
        /\ \A t \in Tickers :
             /\ fw[t] = "idle"
             /\ rd[t] = "idle" <=> (t \in toOpen \/ outs[t] = <<>>)
             /\ t \in toOpen => outs[t] # <<>>

\* While the cycle runs, a forwarder ends after its reader, and every robot
\* of its list is alive until then: nobody sends to a channel nobody reads.
Draining ==
    main = "wait" =>
        \A t \in Tickers :
            \/ outs[t] = <<>> /\ rd[t] = "idle" /\ fw[t] = "idle"
            \/ outs[t] # <<>> /\ rd[t] = "closed" /\ fw[t] = "closed"
            \/ /\ outs[t] # <<>> /\ rd[t] # "idle" /\ fw[t] \in {"recv", "send"}
               /\ \A i \in DOMAIN outs[t] : tr[outs[t][i]] # "idle"

\* What is sent is a price, to a robot of the list.
Carrying ==
    \A t \in Tickers :
        /\ rd[t] = "send" => held[t] \in Prices
        /\ fw[t] = "send" => cur[t] \in Prices /\ next[t] \in DOMAIN outs[t]

(***************************************************************************)
(* The pipeline of goroutines stays in one piece: the five parts above,    *)
(* which together make the barrier inductive.                              *)
(***************************************************************************)
Pipeline == CycleBarrier /\ Grouped /\ Assembling /\ Draining /\ Carrying

(***************************************************************************)
(* separateChan loses and repeats nothing: robots of one ticker are never  *)
(* more than one price apart, in row order, and when the forwarder is back *)
(* at the stream, or has ended, all of them took every price it took.      *)
(***************************************************************************)
FanOut ==
    main = "wait" =>
        \A t \in Tickers : \A i \in DOMAIN outs[t] :
            got[outs[t][i]] = IF fw[t] = "send" /\ i >= next[t]
                              THEN passed[t] - 1 ELSE passed[t]

(***************************************************************************)
(* The copy a Trade goroutine works on is never behind the row: it has     *)
(* made at least the operations the row records, the two agree whenever    *)
(* they count the same operations, and the yield the row lacks is at least *)
(* what the robot's limits promise.  Nobody else writes these columns, and *)
(* failed writes only widen the gap until a later write closes it.         *)
(***************************************************************************)
Extends(copy, row, limit) ==
    /\ Ops(copy) >= Ops(row)
    /\ Ops(copy) = Ops(row) => copy = row
    /\ copy.yield - row.yield >= Floor(copy, limit) - Floor(row, limit)

CopyExtendsRow ==
    main \in {"open", "wait"} =>
        \A r \in Robots :
            /\ Extends(rob[r], rows[r].pos, Limit[r])
            /\ tr[r] = "store" => Ops(rob[r]) > Ops(rows[r].pos)

(***************************************************************************)
(* The recorded positions follow RobotLedger: through failed writes, new   *)
(* cycles, crashes and changes by users, deals are never undone or counted *)
(* twice and the recorded yield never falls below what the limits allow.   *)
(***************************************************************************)
Ledger == INSTANCE RobotLedger WITH
              ops   <- [r \in Robots |-> Ops(rows[r].pos)],
              yield <- [r \in Robots |-> rows[r].pos.yield]
LedgerSpec == Ledger!Spec

\* A goroutine of the pipeline of t is not waiting for another one: its nil
\* stream panics, a send has its receiver, a range its price or its end.
Moving(t) ==
    \/ rd[t] = "nil"
    \/ rd[t] \in {"send", "closed"} /\ fw[t] = "recv"
    \/ fw[t] = "send" /\ tr[Receiver(t)] = "recv"
    \/ \E r \in Members(t) : tr[r] = "store" \/ (tr[r] = "recv" /\ fw[t] = "closed")

\* The trading service sends nothing on the open stream of t.
SilentOn(t) == rd[t] = "recv" /\ fw[t] = "recv"

(***************************************************************************)
(* A position changes only for a robot that may trade, or that lost this   *)
(* right after the running cycle took its snapshot: deleting or stopping a *)
(* robot takes effect with the next cycle at the latest.                   *)
(***************************************************************************)
TradesOnlySelected ==
    [][\A r \in Robots :
          rows'[r].pos # rows[r].pos =>
              Running(r) /\ (Tradable(rows[r]) \/ r \in lapsed)]_vars

\* As long as the trading service keeps sending prices, a cycle ends: the
\* deadline stops every reader, and with them the whole pipeline.
CycleEnds == (main = "wait") ~> (main \in {"query", "down"})

(***************************************************************************)
(* The deadline binds: after it a forwarder takes at most one more price,  *)
(* the one its reader was holding, and only one the reader had received    *)
(* before, however many prices the stream goes on to bring.  With FanOut,  *)
(* a robot that was deleted or stopped in the cycle decides on two prices  *)
(* at most from then on, that one and the one being handed out.            *)
(***************************************************************************)
DeadlineBinds == \A t \in Tickers : overtime[t] <= 1

(***************************************************************************)
(* Whatever the service, the clients and the database do, a cycle that     *)
(* never ends has one culprit outside the pipeline: one stream that brings *)
(* nothing, as the deadline is only looked at after Recv, or one Broadcast *)
(* that does not return.  No other wait of the pipeline, failed write or   *)
(* failed stream stalls it, and no two pipelines stall each other in turn. *)
(***************************************************************************)
StallsOnlyOnFeedOrBroadcast ==
    <>[](main = "wait") =>
        \/ \E t \in Tickers : <>[]SilentOn(t)
        \/ \E r \in Robots : <>[](tr[r] = "cast")
=============================================================================
