------------------------------ MODULE Startup ------------------------------
(***************************************************************************)
(* How the program starts (cmd/auth-api/main.go): the database is opened   *)
(* and pinged (internal/postgres/postgres.go), the statements of the three *)
(* storages are prepared (statements.go and the New functions), the client *)
(* of the trading service is dialled, StartTrading is started and only     *)
(* then the port is bound.  Every error is fatal: Fatalf ends the process  *)
(* at once and no deferred closer runs.                                    *)
(*                                                                         *)
(* There may be several processes, as when one is restarted before it has  *)
(* ended; they share the database and compete for the port.                *)
(***************************************************************************)
EXTENDS Naturals

CONSTANTS Processes,
          Free        \* the port while nobody listens on it

ASSUME StartupAssumption == Free \notin Processes

VARIABLES
    at,         \* at[p]: where main of p is, "exit" before and after it runs
    attempt,    \* attempt[p]: the loop variable of CheckConnection
    slept,      \* slept[p]: seconds CheckConnection has slept
    prepared,   \* prepared[p][s]: statements of storage s that are ready
    trading,    \* trading[p]: the goroutine of StartTrading exists
    port,       \* who listens on port 8080
    reachable   \* the database answers

main == <<at, attempt, slept, prepared, trading>>
vars == <<main, port, reachable>>

Storages   == {"users", "sessions", "robots"}
Statements == [users |-> 4, sessions |-> 2, robots |-> 11]
After      == [users |-> "sessions", sessions |-> "robots", robots |-> "dial"]
Labels     == Storages \cup {"exit", "new", "ping", "pause", "dial", "go", "listen", "serve", "fatal"}
Unprepared == [s \in Storages |-> 0]
maxAttempts == 3

Init ==
    /\ at = [p \in Processes |-> "exit"]
    /\ attempt = [p \in Processes |-> 1] /\ slept = [p \in Processes |-> 0]
    /\ prepared = [p \in Processes |-> Unprepared]
    /\ trading = [p \in Processes |-> FALSE]
    /\ port = Free /\ reachable = TRUE

Goto(p, label) == at' = [at EXCEPT ![p] = label]

\* os.Exit in Fatalf, a panic or a kill: the goroutines end with the process.
Exit(p) ==
    /\ at' = [at EXCEPT ![p] = "exit"]
    /\ trading' = [trading EXCEPT ![p] = FALSE]
    /\ port' = IF port = p THEN Free ELSE port
    /\ UNCHANGED <<attempt, slept, prepared>>

Start(p) ==
    /\ at[p] = "exit"
    /\ Goto(p, "new")
    /\ attempt' = [attempt EXCEPT ![p] = 1] /\ slept' = [slept EXCEPT ![p] = 0]
    /\ prepared' = [prepared EXCEPT ![p] = Unprepared]
    /\ UNCHANGED <<trading, port>>

\* sql.Open connects to nothing yet.
New(p) ==
    /\ at[p] = "new"
    /\ \/ Goto(p, "ping") /\ UNCHANGED <<attempt, slept, prepared, trading, port>>
       \/ Exit(p)

\* One round of CheckConnection.
Ping(p) ==
    /\ at[p] = "ping"
    /\ \/ reachable /\ Goto(p, "users")
       \/ Goto(p, "pause")
    /\ UNCHANGED <<attempt, slept, prepared, trading, port>>

\* Sensitivity variant: the attempts are not counted.
PauseForever(p) ==
    /\ at[p] = "pause"
    /\ Goto(p, "ping")
    /\ UNCHANGED <<attempt, slept, prepared, trading, port>>

\* Sensitivity variant: one attempt more.
PauseOnceMore(p) ==
    /\ at[p] = "pause"
    /\ slept' = [slept EXCEPT ![p] = @ + attempt[p]]
    /\ attempt' = [attempt EXCEPT ![p] = @ + 1]
    /\ Goto(p, IF attempt[p] <= maxAttempts THEN "ping" ELSE "exit")
    /\ UNCHANGED <<prepared, trading, port>>

\* The pause comes after the last attempt too, and then the fatal error.
Pause(p) ==
    /\ at[p] = "pause"
    /\ slept' = [slept EXCEPT ![p] = @ + attempt[p]]
    /\ attempt' = [attempt EXCEPT ![p] = @ + 1]
    /\ Goto(p, IF attempt[p] < maxAttempts THEN "ping" ELSE "exit")
    /\ UNCHANGED <<prepared, trading, port>>

\* Sensitivity variant: a statement that cannot be prepared is left out.
PrepareLoosely(p) ==
    /\ at[p] \in Storages
    /\ \/ /\ reachable
          /\ prepared' = [prepared EXCEPT ![p][at[p]] = @ + 1]
          /\ IF prepared'[p][at[p]] = Statements[at[p]] THEN Goto(p, After[at[p]]) ELSE UNCHANGED at
       \/ Goto(p, After[at[p]]) /\ UNCHANGED prepared
    /\ UNCHANGED <<attempt, slept, trading, port>>

\* initStatements prepares the next statement of the storage at hand.
Prepare(p) ==
    /\ at[p] \in Storages
    /\ \/ /\ reachable
          /\ prepared' = [prepared EXCEPT ![p][at[p]] = @ + 1]
          /\ IF prepared'[p][at[p]] = Statements[at[p]] THEN Goto(p, After[at[p]]) ELSE UNCHANGED at
          /\ UNCHANGED <<attempt, slept, trading, port>>
       \/ Exit(p)

\* grpc.Dial returns before it is connected.
Dial(p) ==
    /\ at[p] = "dial"
    /\ \/ Goto(p, "go") /\ UNCHANGED <<attempt, slept, prepared, trading, port>>
       \/ Exit(p)

GoStartTrading(p) ==
    /\ at[p] = "go"
    /\ trading' = [trading EXCEPT ![p] = TRUE]
    /\ Goto(p, "listen")
    /\ UNCHANGED <<attempt, slept, prepared, port>>

\* Sensitivity variant: the error of ListenAndServe is only logged.
ListenLogged(p) ==
    /\ at[p] = "listen"
    /\ Goto(p, "serve")
    /\ port' = IF port = Free THEN p ELSE port
    /\ UNCHANGED <<attempt, slept, prepared, trading>>

\* ListenAndServe binds the port, or fails because it is taken or otherwise.
Listen(p) ==
    /\ at[p] = "listen"
    /\ \/ /\ port = Free /\ port' = p
          /\ Goto(p, "serve")
          /\ UNCHANGED <<attempt, slept, prepared, trading>>
       \/ Exit(p)

\* ListenAndServe returns later, always with an error, and has closed the
\* port; the cycle of the trading process runs on until Fatalf.
Closed(p) ==
    /\ at[p] = "serve"
    /\ port' = Free
    /\ Goto(p, "fatal")
    /\ UNCHANGED <<attempt, slept, prepared, trading>>

Fatal(p) == at[p] = "fatal" /\ Exit(p)

\* The process is killed, or one of its goroutines panics and nothing
\* recovers it.
Die(p) == at[p] # "exit" /\ Exit(p)

\* The database or the way to it fails, and comes back.
Outage == reachable' = ~reachable /\ UNCHANGED <<main, port>>

Step(p) == /\ \/ New(p) \/ Ping(p) \/ Pause(p) \/ Prepare(p) \/ Dial(p)
              \/ GoStartTrading(p) \/ Listen(p) \/ Fatal(p)
           /\ UNCHANGED reachable

Next ==
    \/ \E p \in Processes : Step(p)
    \/ \E p \in Processes : (Start(p) \/ Closed(p) \/ Die(p)) /\ UNCHANGED reachable
    \/ Outage

Spec == Init /\ [][Next]_vars

\* main runs, and no call to the database or the network takes for ever;
\* nobody need start, stop or repair anything.
FairSpec == Spec /\ \A p \in Processes : WF_vars(Step(p))

-----------------------------------------------------------------------------
(* Properties *)

\* Every variable stays in the set of values the program can give it.
TypeOK ==
    /\ at \in [Processes -> Labels]
    /\ attempt \in [Processes -> 1..maxAttempts + 1]
    /\ slept \in [Processes -> 0..6]
    /\ prepared \in [Processes -> [Storages -> 0..11]]
    /\ \A p \in Processes, s \in Storages : prepared[p][s] <= Statements[s]
    /\ trading \in [Processes -> BOOLEAN]
    /\ port \in Processes \cup {Free}
    /\ reachable \in BOOLEAN

(***************************************************************************)
(* No request and no cycle of the trading process ever meets a statement   *)
(* that is nil: all seventeen are ready before either can begin, though    *)
(* the database may come and go at any point of the start.                 *)
(***************************************************************************)
ReadyBeforeWork ==
    \A p \in Processes : trading[p] \/ port = p => prepared[p] = Statements

(***************************************************************************)
(* Trading begins before the port is bound, so a second process trades on  *)
(* the same rows as the first for a while.  Such an overlap is only ever   *)
(* the moment between go StartTrading and ListenAndServe of one of them,   *)
(* or between the error of ListenAndServe and the end of a process.        *)
(***************************************************************************)
OverlapOnlyAtStart ==
    \A p, q \in Processes :
        p # q /\ trading[p] /\ trading[q] =>
            at[p] \in {"listen", "fatal"} \/ at[q] \in {"listen", "fatal"}

(***************************************************************************)
(* A start comes to an end: the process serves, or it has exited, however  *)
(* the database behaves; a process that trades gets the port or exits.     *)
(***************************************************************************)
StartEnds ==
    \A p \in Processes : (at[p] # "exit") ~> (at[p] = "exit" \/ (at[p] = "serve" /\ port = p))
=============================================================================
