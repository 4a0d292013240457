--------------------------- MODULE StartupProofs ---------------------------
(***************************************************************************)
(* Theorems about Startup, for any set of processes.  The invariant says   *)
(* how far a process is from where its main stands, one process at a time. *)
(***************************************************************************)
EXTENDS Startup, TLAPS

Types ==
    /\ at \in [Processes -> Labels]
    /\ attempt \in [Processes -> Nat] /\ slept \in [Processes -> Nat]
    /\ prepared \in [Processes -> [Storages -> Nat]]
    /\ trading \in [Processes -> BOOLEAN]
    /\ port \in Processes \cup {Free}
    /\ reachable \in BOOLEAN

\* CheckConnection has slept one second more in every round.
Counted(p) ==
    /\ \/ attempt[p] = 1 /\ slept[p] = 0
       \/ attempt[p] = 2 /\ slept[p] = 1
       \/ attempt[p] = 3 /\ slept[p] = 3
       \/ attempt[p] = 4 /\ slept[p] = 6
    /\ at[p] \in {"new", "ping", "pause"} => attempt[p] <= 3

\* The storages are prepared one after the other.
Ready(p) ==
    /\ \A s \in Storages : prepared[p][s] <= Statements[s]
    /\ at[p] \in {"new", "ping", "pause"} => \A s \in Storages : prepared[p][s] = 0
    /\ at[p] = "users" => /\ prepared[p]["users"] < 4
                          /\ prepared[p]["sessions"] = 0 /\ prepared[p]["robots"] = 0
    /\ at[p] = "sessions" => /\ prepared[p]["users"] = 4
                             /\ prepared[p]["sessions"] < 2 /\ prepared[p]["robots"] = 0
    /\ at[p] = "robots" => /\ prepared[p]["users"] = 4 /\ prepared[p]["sessions"] = 2
                           /\ prepared[p]["robots"] < 11
    /\ at[p] \in {"dial", "go", "listen", "serve", "fatal"} =>
           \A s \in Storages : prepared[p][s] = Statements[s]

Working(p) == /\ trading[p] <=> at[p] \in {"listen", "serve", "fatal"}
              /\ port = p <=> at[p] = "serve"

StartInv == Types /\ \A p \in Processes : Counted(p) /\ Ready(p) /\ Working(p)

(* A step of one process leaves what is said of the others alone.          *)
LEMMA OthersKept ==
    ASSUME StartInv, NEW p \in Processes, NEW q \in Processes, p # q,
           at'[q] = at[q], attempt'[q] = attempt[q], slept'[q] = slept[q],
           prepared'[q] = prepared[q], trading'[q] = trading[q],
           port' = port \/ (port' \in {p, Free} /\ port \in {p, Free})
    PROVE  Counted(q)' /\ Ready(q)' /\ Working(q)'
  <1>1. port' = q <=> port = q
    BY StartupAssumption
  <1> QED
    BY <1>1 DEF StartInv, Counted, Ready, Working

(* Exit, as New, Prepare, Dial, Listen and Die may end. *)
LEMMA ExitStep ==
    ASSUME StartInv, NEW p \in Processes, Exit(p), reachable' \in BOOLEAN
    PROVE  StartInv'
  <1>1. /\ Types'
        /\ at'[p] = "exit" /\ ~trading'[p] /\ port' # p
        /\ UNCHANGED <<attempt, slept, prepared>>
    BY StartupAssumption DEF Exit, StartInv, Types, Labels
  <1>2. Counted(p)' /\ Ready(p)' /\ Working(p)'
    BY <1>1 DEF StartInv, Counted, Ready, Working
  <1>3. ASSUME NEW q \in Processes, p # q PROVE Counted(q)' /\ Ready(q)' /\ Working(q)'
    <2>1. port' = port \/ (port' = Free /\ port = p)
      BY DEF Exit
    <2> QED
      BY <1>3, <2>1, OthersKept DEF Exit, StartInv, Types
  <1> QED
    BY <1>1, <1>2, <1>3 DEF StartInv

(* A step that changes neither the statements nor the counts. *)
LEMMA GotoStep ==
    ASSUME StartInv, NEW p \in Processes, NEW label \in Labels, Goto(p, label),
           UNCHANGED <<attempt, slept, prepared, trading, port, reachable>>,
           \/ at[p] = "new" /\ label = "ping"
           \/ at[p] = "ping" /\ label \in {"users", "pause"}
           \/ at[p] = "dial" /\ label = "go"
    PROVE  StartInv'
  <1>1. Types' /\ at'[p] = label
    BY DEF Goto, StartInv, Types
  <1>2. Counted(p)' /\ Ready(p)' /\ Working(p)'
    BY <1>1 DEF StartInv, Types, Counted, Ready, Working, Storages
  <1>3. ASSUME NEW q \in Processes, p # q PROVE Counted(q)' /\ Ready(q)' /\ Working(q)'
    BY <1>3, OthersKept DEF Goto, StartInv, Types
  <1> QED
    BY <1>1, <1>2, <1>3 DEF StartInv

LEMMA PauseStep ==
    ASSUME StartInv, NEW p \in Processes, Pause(p), UNCHANGED reachable
    PROVE  StartInv'
  <1>1. /\ at[p] = "pause" /\ at'[p] = IF attempt[p] < 3 THEN "ping" ELSE "exit"
        /\ slept'[p] = slept[p] + attempt[p] /\ attempt'[p] = attempt[p] + 1
        /\ Types'
    BY DEF Pause, Goto, StartInv, Types, Labels, maxAttempts
  <1>2. UNCHANGED <<prepared, trading, port>>
    BY DEF Pause
  <1>3. Counted(p)'
    <2>1. /\ at[p] = "pause" => attempt[p] <= 3
          /\ \/ attempt[p] = 1 /\ slept[p] = 0
             \/ attempt[p] = 2 /\ slept[p] = 1
             \/ attempt[p] = 3 /\ slept[p] = 3
             \/ attempt[p] = 4 /\ slept[p] = 6
      BY DEF StartInv, Counted
    <2> QED
      BY <1>1, <2>1 DEF Counted
  <1>4. Ready(p)' /\ Working(p)'
    BY <1>1, <1>2 DEF StartInv, Ready, Working
  <1>5. ASSUME NEW q \in Processes, p # q PROVE Counted(q)' /\ Ready(q)' /\ Working(q)'
    BY <1>2, <1>5, OthersKept DEF Pause, Goto, StartInv, Types
  <1> QED
    BY <1>1, <1>3, <1>4, <1>5 DEF StartInv

LEMMA PreparedStep ==
    ASSUME StartInv, NEW p \in Processes, at[p] \in Storages,
           prepared' = [prepared EXCEPT ![p][at[p]] = @ + 1],
           IF prepared'[p][at[p]] = Statements[at[p]] THEN Goto(p, After[at[p]]) ELSE UNCHANGED at,
           UNCHANGED <<attempt, slept, trading, port, reachable>>
    PROVE  StartInv'
  <1> DEFINE s == at[p]
  <1>1. s \in {"users", "sessions", "robots"}
    BY DEF Storages
  <1>2. /\ prepared'[p] = [prepared[p] EXCEPT ![s] = prepared[p][s] + 1]
        /\ \A q \in Processes : q # p => prepared'[q] = prepared[q]
        /\ prepared' \in [Processes -> [Storages -> Nat]]
    BY DEF StartInv, Types
  <1>3. /\ prepared'[p][s] = prepared[p][s] + 1 /\ prepared[p][s] \in Nat
        /\ \A u \in Storages : u # s => prepared'[p][u] = prepared[p][u]
    BY <1>2 DEF StartInv, Types, Storages
  <1>4. /\ at' \in [Processes -> Labels]
        /\ at'[p] = IF prepared[p][s] + 1 = Statements[s] THEN After[s] ELSE s
        /\ \A q \in Processes : q # p => at'[q] = at[q]
    BY <1>1, <1>3 DEF StartInv, Types, Labels, Goto, After, Storages
  <1>5. Types'
    BY <1>2, <1>4 DEF StartInv, Types
  <1>6. Counted(p)' /\ Working(p)'
    BY <1>1, <1>4 DEF StartInv, Counted, Working, After, Storages
  <1>7. Ready(p)'
    <2>1. CASE s = "users"
      BY <1>3, <1>4, <2>1 DEF StartInv, Types, Ready, After, Statements, Storages
    <2>2. CASE s = "sessions"
      BY <1>3, <1>4, <2>2 DEF StartInv, Types, Ready, After, Statements, Storages
    <2>3. CASE s = "robots"
      BY <1>3, <1>4, <2>3 DEF StartInv, Types, Ready, After, Statements, Storages
    <2> QED
      BY <1>1, <2>1, <2>2, <2>3
  <1>8. ASSUME NEW q \in Processes, p # q PROVE Counted(q)' /\ Ready(q)' /\ Working(q)'
    BY <1>2, <1>4, <1>8, OthersKept
  <1> QED
    BY <1>5, <1>6, <1>7, <1>8 DEF StartInv

LEMMA WorkStep ==
    ASSUME StartInv, NEW p \in Processes, UNCHANGED reachable,
           \/ GoStartTrading(p)
           \/ Closed(p)
           \/ at[p] = "listen" /\ port = Free /\ port' = p /\ Goto(p, "serve")
              /\ UNCHANGED <<attempt, slept, prepared, trading>>
    PROVE  StartInv'
  <1>1. /\ Types' /\ UNCHANGED <<attempt, slept, prepared>>
        /\ \A q \in Processes : q # p => at'[q] = at[q] /\ trading'[q] = trading[q]
        /\ \/ at[p] = "go" /\ at'[p] = "listen" /\ trading'[p] = TRUE /\ port' = port
           \/ at[p] = "listen" /\ at'[p] = "serve" /\ trading'[p] = trading[p]
              /\ port = Free /\ port' = p
           \/ at[p] = "serve" /\ at'[p] = "fatal" /\ trading'[p] = trading[p]
              /\ port = p /\ port' = Free
    BY DEF GoStartTrading, Closed, Goto, StartInv, Types, Labels, Working
  <1>2. Counted(p)' /\ Ready(p)' /\ Working(p)'
    BY <1>1, StartupAssumption DEF StartInv, Types, Counted, Ready, Working
  <1>3. ASSUME NEW q \in Processes, p # q PROVE Counted(q)' /\ Ready(q)' /\ Working(q)'
    BY <1>1, <1>3, OthersKept
  <1> QED
    BY <1>1, <1>2, <1>3 DEF StartInv

LEMMA StartStep ==
    ASSUME StartInv, NEW p \in Processes, Start(p), UNCHANGED reachable
    PROVE  StartInv'
  <1>1. /\ at'[p] = "new" /\ attempt'[p] = 1 /\ slept'[p] = 0 /\ prepared'[p] = Unprepared
        /\ at[p] = "exit" /\ Types'
    BY DEF Start, Goto, StartInv, Types, Labels, Unprepared
  <1>2. UNCHANGED <<trading, port>>
    BY DEF Start
  <1>3. Counted(p)' /\ Ready(p)' /\ Working(p)'
    BY <1>1, <1>2 DEF StartInv, Counted, Ready, Working, Unprepared, Storages, Statements
  <1>4. ASSUME NEW q \in Processes, p # q PROVE Counted(q)' /\ Ready(q)' /\ Working(q)'
    BY <1>2, <1>4, OthersKept DEF Start, Goto, StartInv, Types
  <1> QED
    BY <1>1, <1>3, <1>4 DEF StartInv

LEMMA StartInvStep ==
    ASSUME StartInv, [Next]_vars
    PROVE  StartInv'
  <1>1. ASSUME NEW p \in Processes, Step(p) PROVE StartInv'
    <2>1. UNCHANGED reachable /\ reachable' \in BOOLEAN
      BY <1>1 DEF Step, StartInv, Types
    <2>2. CASE Exit(p) \/ Fatal(p)
      BY <2>1, <2>2, ExitStep DEF Fatal
    <2>3. CASE (New(p) \/ Ping(p) \/ Dial(p)) /\ ~Exit(p)
      <3>1. "ping" \in Labels /\ "users" \in Labels /\ "pause" \in Labels /\ "go" \in Labels
        BY DEF Labels, Storages
      <3> QED
        BY <2>1, <2>3, <3>1, GotoStep DEF New, Ping, Dial
    <2>4. CASE Pause(p)
      BY <2>1, <2>4, PauseStep
    <2>5. CASE Prepare(p) /\ ~Exit(p)
      BY <2>1, <2>5, PreparedStep DEF Prepare
    <2>6. CASE GoStartTrading(p)
      BY <2>1, <2>6, WorkStep
    <2>7. CASE Listen(p) /\ ~Exit(p)
      BY <2>1, <2>7, WorkStep DEF Listen
    <2> QED
      BY <1>1, <2>2, <2>3, <2>4, <2>5, <2>6, <2>7 DEF Step
  <1>2. ASSUME NEW p \in Processes, Start(p) \/ Closed(p) \/ Die(p),
               UNCHANGED reachable
        PROVE  StartInv'
    BY <1>2, StartStep, WorkStep, ExitStep DEF Die, StartInv, Types
  <1>3. CASE Outage \/ UNCHANGED vars
    <2>1. UNCHANGED <<at, attempt, slept, prepared, trading, port>> /\ reachable' \in BOOLEAN
      BY <1>3 DEF Outage, vars, main, StartInv, Types
    <2> QED
      BY <2>1 DEF StartInv, Types, Counted, Ready, Working
  <1> QED
    BY <1>1, <1>2, <1>3 DEF Next

LEMMA StartInit == Init => StartInv
  BY StartupAssumption DEF Init, StartInv, Types, Labels, Counted, Ready, Working, Unprepared,
                           Storages, Statements

LEMMA SpecStartInv == Spec => []StartInv
  <1>1. StartInv /\ [Next]_vars => StartInv'
    BY StartInvStep
  <1> QED
    BY <1>1, StartInit, PTL DEF Spec

(***************************************************************************)
(* Types, and the budget of CheckConnection: three attempts, six seconds.  *)
(***************************************************************************)
THEOREM StartTypeCorrect == Spec => []TypeOK
  <1>1. StartInv => TypeOK
    <2> SUFFICES ASSUME StartInv PROVE TypeOK
      OBVIOUS
    <2>1. attempt \in [Processes -> 1..maxAttempts + 1] /\ slept \in [Processes -> 0..6]
      BY DEF StartInv, Types, Counted, maxAttempts
    <2>2. \A p \in Processes, s \in Storages : prepared[p][s] \in 0..11
      <3> TAKE p \in Processes, s \in Storages
      <3>1. prepared[p][s] \in Nat /\ prepared[p][s] <= Statements[s]
        BY DEF StartInv, Types, Ready
      <3>2. Statements[s] \in {4, 2, 11}
        BY DEF Statements, Storages
      <3> QED
        BY <3>1, <3>2
    <2>3. prepared \in [Processes -> [Storages -> 0..11]]
      BY <2>2 DEF StartInv, Types
    <2> QED
      BY <2>1, <2>3 DEF StartInv, Types, Ready, TypeOK
  <1> QED
    BY <1>1, SpecStartInv, PTL

(***************************************************************************)
(* Neither a cycle nor a request ever meets a statement that is nil.       *)
(***************************************************************************)
THEOREM AllReady == Spec => []ReadyBeforeWork
  <1>1. StartInv => ReadyBeforeWork
    <2> SUFFICES ASSUME StartInv, NEW p \in Processes, trading[p] \/ port = p
                 PROVE  prepared[p] = Statements
      BY DEF ReadyBeforeWork
    <2>1. \A s \in Storages : prepared[p][s] = Statements[s]
      BY DEF StartInv, Working, Ready
    <2> QED
      BY <2>1 DEF StartInv, Types, Statements, Storages
  <1> QED
    BY <1>1, SpecStartInv, PTL

(***************************************************************************)
(* Of any number of processes, two trade at once only while one of them    *)
(* is about to find the port taken, or about to end with its port closed.  *)
(***************************************************************************)
THEOREM OverlapShort == Spec => []OverlapOnlyAtStart
  <1>1. StartInv => OverlapOnlyAtStart
    BY DEF StartInv, Working, OverlapOnlyAtStart
  <1> QED
    BY <1>1, SpecStartInv, PTL

-----------------------------------------------------------------------------
(* A start is over after a bounded number of steps. *)

(***************************************************************************)
(* The most steps main of p may still take before it serves or has exited: *)
(* sql.Open, three rounds of a ping and a pause, seventeen statements,     *)
(* Dial, go StartTrading and ListenAndServe; or Fatalf alone.              *)
(***************************************************************************)
ToGo(p) ==
    CASE at[p] = "new"      -> 27
      [] at[p] = "ping"     -> 20 + 2 * (4 - attempt[p])
      [] at[p] = "pause"    -> 19 + 2 * (4 - attempt[p])
      [] at[p] = "users"    -> 20 - prepared[p]["users"]
      [] at[p] = "sessions" -> 16 - prepared[p]["sessions"]
      [] at[p] = "robots"   -> 14 - prepared[p]["robots"]
      [] at[p] = "dial"     -> 3
      [] at[p] = "go"       -> 2
      [] at[p] = "listen"   -> 1
      [] at[p] = "fatal"    -> 1
      [] OTHER              -> 0

Bounded ==
    \A p \in Processes : /\ ToGo(p) \in 0..27
                         /\ ToGo(p) = 0 <=> at[p] \in {"exit", "serve"}

LEMMA StartBounded == StartInv => Bounded
  <1> SUFFICES ASSUME StartInv, NEW p \in Processes
               PROVE  /\ ToGo(p) \in 0..27
                      /\ ToGo(p) = 0 <=> at[p] \in {"exit", "serve"}
    BY DEF Bounded
  <1>1. at[p] \in {"users", "sessions", "robots", "exit", "new", "ping", "pause", "dial",
                   "go", "listen", "serve", "fatal"}
    BY DEF StartInv, Types, Labels, Storages
  <1>2. /\ attempt[p] \in 1..4
        /\ at[p] \in {"ping", "pause"} => attempt[p] <= 3
        /\ prepared[p]["users"] \in Nat /\ prepared[p]["sessions"] \in Nat
        /\ prepared[p]["robots"] \in Nat
        /\ at[p] = "users" => prepared[p]["users"] < 4
        /\ at[p] = "sessions" => prepared[p]["sessions"] < 2
        /\ at[p] = "robots" => prepared[p]["robots"] < 11
    BY DEF StartInv, Types, Counted, Ready, Storages
  <1>3. CASE at[p] \in {"ping", "pause"}
    BY <1>2, <1>3 DEF ToGo
  <1>4. CASE at[p] \in {"users", "sessions", "robots"}
    BY <1>2, <1>4 DEF ToGo
  <1>5. CASE at[p] \in {"exit", "new", "dial", "go", "listen", "serve", "fatal"}
    BY <1>5 DEF ToGo
  <1> QED
    BY <1>1, <1>3, <1>4, <1>5

(* Each of its own steps takes main nearer. *)
LEMMA StepNearer ==
    ASSUME StartInv, NEW p \in Processes, Step(p)
    PROVE  ToGo(p)' < ToGo(p)
  <1>1. /\ at \in [Processes -> Labels] /\ attempt \in [Processes -> Nat]
        /\ prepared \in [Processes -> [Storages -> Nat]]
    BY DEF StartInv, Types
  <1>2. ToGo(p) \in 0..27 /\ (ToGo(p) = 0 <=> at[p] \in {"exit", "serve"})
    BY StartBounded DEF Bounded
  <1>3. CASE Exit(p) \/ Fatal(p)
    <2>1. at[p] \notin {"exit", "serve"}
      BY DEF Step, New, Ping, Pause, Prepare, Dial, GoStartTrading, Listen, Fatal, Storages
    <2>2. at'[p] = "exit"
      BY <1>1, <1>3 DEF Exit, Fatal
    <2> QED
      BY <1>2, <2>1, <2>2 DEF ToGo
  <1>4. CASE (New(p) \/ Ping(p)) /\ ~Exit(p)
    <2>1. /\ attempt' = attempt /\ prepared' = prepared
          /\ \/ at[p] = "new" /\ at'[p] = "ping"
             \/ at[p] = "ping" /\ at'[p] \in {"users", "pause"}
      BY <1>1, <1>4 DEF New, Ping, Goto
    <2>2. /\ at[p] = "new" => attempt[p] >= 1 /\ attempt[p] \in Nat
          /\ at[p] = "ping" => attempt[p] <= 3 /\ prepared[p]["users"] = 0
      BY DEF StartInv, Counted, Ready, Storages
    <2> QED
      BY <1>1, <2>1, <2>2 DEF ToGo
  <1>5. CASE Pause(p)
    <2>1. /\ at[p] = "pause" /\ attempt'[p] = attempt[p] + 1 /\ attempt[p] \in Nat
          /\ \/ attempt[p] < 3 /\ at'[p] = "ping"
             \/ at'[p] = "exit"
      BY <1>1, <1>5 DEF Pause, Goto, maxAttempts
    <2> QED
      BY <1>2, <2>1 DEF ToGo
  <1>6. CASE Prepare(p) /\ ~Exit(p)
    <2> DEFINE s == at[p]
    <2>1. /\ s \in {"users", "sessions", "robots"}
          /\ prepared[p][s] \in Nat /\ prepared'[p][s] = prepared[p][s] + 1
          /\ \A u \in Storages : u # s => prepared'[p][u] = prepared[p][u]
          /\ at'[p] = IF prepared[p][s] + 1 = Statements[s] THEN After[s] ELSE s
      BY <1>1, <1>6 DEF Prepare, Goto, Storages
    <2>2. /\ s = "users" => prepared[p]["sessions"] = 0
          /\ s \in {"users", "sessions"} => prepared[p]["robots"] = 0
      BY <2>1 DEF StartInv, Ready, Storages
    <2>3. CASE s = "users"
      BY <2>1, <2>2, <2>3 DEF ToGo, Statements, After, Storages
    <2>4. CASE s = "sessions"
      BY <2>1, <2>2, <2>4 DEF ToGo, Statements, After, Storages
    <2>5. CASE s = "robots"
      BY <2>1, <2>2, <2>5 DEF ToGo, Statements, After, Storages
    <2> QED
      BY <2>1, <2>3, <2>4, <2>5
  <1>7. CASE (Dial(p) \/ GoStartTrading(p) \/ Listen(p)) /\ ~Exit(p)
    <2>1. \/ at[p] = "dial" /\ at'[p] = "go"
          \/ at[p] = "go" /\ at'[p] = "listen"
          \/ at[p] = "listen" /\ at'[p] = "serve"
      BY <1>1, <1>7 DEF Dial, GoStartTrading, Listen, Goto
    <2> QED
      BY <2>1 DEF ToGo
  <1> QED
    BY <1>3, <1>4, <1>5, <1>6, <1>7 DEF Step

(* Nobody else sets it back, and only a start of its own or the end of its *)
(* ListenAndServe gives it more to do.                                     *)
LEMMA OthersToGo ==
    ASSUME StartInv, [Next]_vars, NEW q \in Processes, ~Step(q), ~Start(q), ~Closed(q)
    PROVE  ToGo(q)' <= ToGo(q)
  <1>1. /\ at \in [Processes -> Labels] /\ attempt \in [Processes -> Nat]
        /\ prepared \in [Processes -> [Storages -> Nat]]
    BY DEF StartInv, Types
  <1>2. ToGo(q) \in 0..27
    BY StartBounded DEF Bounded
  <1>3. CASE at'[q] = at[q] /\ attempt'[q] = attempt[q] /\ prepared'[q] = prepared[q]
    BY <1>2, <1>3 DEF ToGo
  <1>4. CASE Die(q)
    BY <1>1, <1>2, <1>4 DEF Die, Exit, ToGo
  <1>5. ASSUME NEW p \in Processes, p # q, Step(p) \/ Start(p) \/ Closed(p) \/ Die(p)
        PROVE  at'[q] = at[q] /\ attempt'[q] = attempt[q] /\ prepared'[q] = prepared[q]
    BY <1>1, <1>5 DEF Step, New, Ping, Pause, Prepare, Dial, GoStartTrading, Listen, Fatal,
                      Start, Closed, Die, Exit, Goto
  <1>6. CASE Outage \/ UNCHANGED vars
    BY <1>3, <1>6 DEF Outage, vars, main
  <1> QED
    BY <1>3, <1>4, <1>5, <1>6 DEF Next

NearerStep ==
    \A p \in Processes : /\ Step(p) => ToGo(p)' < ToGo(p)
                         /\ ToGo(p)' > ToGo(p) => Start(p) \/ Closed(p)

(***************************************************************************)
(* A start is over within 27 steps of main, whatever the database does and *)
(* however many other processes start: it serves or has exited when none   *)
(* is left, each of its steps takes one, and neither an outage nor another *)
(* process gives any back.  StartEnds needs no more than that main runs.   *)
(***************************************************************************)
THEOREM StartsAreShort == Spec => []Bounded /\ [][NearerStep]_vars
  <1>1. ASSUME StartInv, Bounded, Bounded', [Next]_vars PROVE NearerStep
    <2>1. \A p \in Processes : ToGo(p) \in 0..27 /\ ToGo(p)' \in 0..27
      BY <1>1 DEF Bounded
    <2>2. \A p \in Processes : Step(p) => ToGo(p)' < ToGo(p)
      BY <1>1, StepNearer
    <2>3. \A p \in Processes : ~Step(p) /\ ~Start(p) /\ ~Closed(p) => ToGo(p)' <= ToGo(p)
      BY <1>1, OthersToGo
    <2> QED
      BY <2>1, <2>2, <2>3 DEF NearerStep
  <1>2. StartInv /\ Bounded /\ Bounded' /\ [Next]_vars => NearerStep
    BY <1>1
  <1> QED
    BY <1>2, StartBounded, SpecStartInv, PTL DEF Spec
=============================================================================
