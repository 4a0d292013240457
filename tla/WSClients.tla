----------------------------- MODULE WSClients -----------------------------
(***************************************************************************)
(* The websocket hub (cmd/auth-api/handlers/websocket.go).                 *)
(*                                                                         *)
(* A connection handler registers its connection and then turns every      *)
(* number it reads into a subscription.  Whoever changes a robot calls     *)
(* Broadcast, which reads the row and, under the hub's mutex, writes it to *)
(* every client subscribed to the robot; connections whose write failed    *)
(* are removed after the mutex was released and taken again.               *)
(*                                                                         *)
(* Client ids come from a counter that only grows under the mutex, so a    *)
(* client is identified with its connection here.                          *)
(***************************************************************************)
EXTENDS Naturals, Sequences, FiniteSets

CONSTANTS Conns,      \* the websocket connections that ever arrive
          Traders,    \* Trade goroutines: a panic there ends the process
          Requests,   \* HTTP handlers: net/http recovers their panics
          Robots,
          NoRobot,    \* robotID 0: subscribed to nothing yet
          Free,       \* the mutex is not locked
          MaxVersion  \* bound: changes made to a row

ASSUME WSClientsAssumption ==
    /\ Conns \cap (Traders \cup Requests) = {}
    /\ Traders \cap Requests = {}
    /\ Free \notin Conns \cup Traders \cup Requests
    /\ NoRobot \notin Robots
    /\ MaxVersion \in Nat
    /\ IsFiniteSet(Conns)

Procs == Conns \cup Traders \cup Requests

VARIABLES
    alive,    \* the process is up
    mutex,    \* Free, or the goroutine that has locked it
    clients,  \* connections in the clients map
    robotID,  \* robotID[c]: the field of c's WSClient
    sock,     \* sock[c]: the connection; "broken" is one whose peer is gone
    pc,       \* pc[p]: what goroutine p does next
    arg,      \* arg[p]: the robot it is about to set or broadcasts
    snap,     \* snap[p]: version of the row FindByID gave it
    todo,     \* todo[p]: clients still to be written to, in map order
    bad,      \* bad[p]: inactiveClients
    ver,      \* ver[r]: version of the row of r, counting its changes
    best,     \* history: newest version c got since it subscribed
    lost      \* history: robots whose last change a failed FindByID hid

hub  == <<alive, mutex, clients, robotID, sock>>
proc == <<pc, arg, snap, todo, bad>>
vars == <<hub, proc, ver, best, lost>>

\* Sensitivity variant: the caller of Broadcast never gets it back.
HomeAway(p) == "read"

\* Where p goes on after Broadcast.
Home(p) == IF p \in Conns THEN "read" ELSE "idle"

Init ==
    /\ alive = TRUE /\ mutex = Free /\ clients = {}
    /\ robotID = [c \in Conns |-> NoRobot] /\ sock = [c \in Conns |-> "none"]
    /\ pc = [p \in Procs |-> IF p \in Conns THEN "new" ELSE "idle"]
    /\ arg = [p \in Procs |-> NoRobot] /\ snap = [p \in Procs |-> 0]
    /\ todo = [p \in Procs |-> <<>>] /\ bad = [p \in Procs |-> <<>>]
    /\ ver = [r \in Robots |-> 0] /\ best = [c \in Conns |-> 0] /\ lost = {}

Goto(p, label) == pc' = [pc EXCEPT ![p] = label]

\* Sensitivity variant: Lock does not wait.
LockableAlways == TRUE

\* mutex.Lock() goes through.
Lockable == mutex = Free

(***************************************************************************)
(* A nil dereference: fatal in a Trade goroutine, recovered by net/http in *)
(* the others.  A connection handler is gone then, but not its connection; *)
(* a request goroutine ends, and its name serves the next request.         *)
(***************************************************************************)
Panic(p) == /\ alive' = (p \notin Traders)
            /\ Goto(p, IF p \in Requests THEN "idle" ELSE "dead")

-----------------------------------------------------------------------------
(* WSRobotDeltail, the connection handler *)

\* Upgrade succeeds.
Accept(c) ==
    /\ pc[c] = "new"
    /\ Goto(c, "add")
    /\ sock' = [sock EXCEPT ![c] = "open"]
    /\ UNCHANGED <<alive, mutex, clients, robotID, arg, snap, todo, bad, ver, best, lost>>

addClient(c) ==
    /\ pc[c] = "add" /\ Lockable
    /\ clients' = clients \cup {c}
    /\ Goto(c, "read")
    /\ UNCHANGED <<alive, mutex, robotID, sock, arg, snap, todo, bad, ver, best, lost>>

\* ReadMessage returns a number; what is no number is ignored.  Messages
\* received before a connection failed or was closed can still be read.
ReadRobot(c) ==
    /\ pc[c] = "read"
    /\ \E r \in Robots : arg' = [arg EXCEPT ![c] = r]
    /\ Goto(c, "set")
    /\ UNCHANGED <<hub, snap, todo, bad, ver, best, lost>>

\* ReadMessage returns io.EOF: the peer has ended the stream.
ReadEOF(c) ==
    /\ pc[c] = "read" /\ sock[c] \in {"broken", "closed"}
    /\ Goto(c, "leave")
    /\ bad' = [bad EXCEPT ![c] = <<c>>]
    /\ UNCHANGED <<hub, arg, snap, todo, ver, best, lost>>

\* Other errors are not looked at: the loop reads the failed connection
\* again, until the websocket library panics.
ReadGivesUp(c) ==
    /\ pc[c] = "read" /\ sock[c] \in {"broken", "closed"}
    /\ Panic(c)
    /\ UNCHANGED <<mutex, clients, robotID, sock, arg, snap, todo, bad, ver, best, lost>>

\* Sensitivity variant: a new subscriber is not sent the row.
SubscribeSilently(c) ==
    /\ robotID' = [robotID EXCEPT ![c] = arg[c]]
    /\ best' = [best EXCEPT ![c] = 0]
    /\ Goto(c, "read")

Subscribe(c) ==
    /\ robotID' = [robotID EXCEPT ![c] = arg[c]]
    /\ best' = [best EXCEPT ![c] = 0]
    /\ Goto(c, "find")

\* The lookup of a client that was removed is nil: the goroutine panics
\* between Lock and Unlock and leaves the mutex locked.
setRobot(c) ==
    /\ pc[c] = "set" /\ Lockable
    /\ \/ c \in clients /\ Subscribe(c) /\ UNCHANGED <<alive, mutex>>
       \/ c \notin clients /\ Panic(c) /\ mutex' = c /\ UNCHANGED <<robotID, best>>
    /\ UNCHANGED <<clients, sock, arg, snap, todo, bad, ver, lost>>

-----------------------------------------------------------------------------
(* Whoever changes a robot and then broadcasts it *)

\* Trade, ActivateRobot or DeactivateRobot wrote the row of r and broadcasts
\* it; or Trade failed to and broadcasts all the same; or FavouriteRobot made a
\* copy of r and broadcasts r, which it left as it was.  DeleteRobot never
\* broadcasts: ver counts the changes whose writer goes on to broadcast them.
Change(p, r) ==
    /\ pc[p] = "idle"
    /\ \/ /\ ver[r] < MaxVersion
          /\ ver' = [ver EXCEPT ![r] = @ + 1]
          /\ lost' = lost \ {r}
       \/ UNCHANGED <<ver, lost>>
    /\ arg' = [arg EXCEPT ![p] = r]
    /\ Goto(p, "find")
    /\ UNCHANGED <<hub, snap, todo, bad, best>>

-----------------------------------------------------------------------------
(* Broadcast *)

\* FindByID returns the row as it is now, or an error, and Broadcast returns.
Find(p) ==
    /\ pc[p] = "find"
    /\ \/ /\ snap' = [snap EXCEPT ![p] = ver[arg[p]]]
          /\ Goto(p, "lock")
          /\ UNCHANGED lost
       \/ /\ Goto(p, Home(p))
          /\ lost' = lost \cup {arg[p]}
          /\ UNCHANGED snap
    /\ UNCHANGED <<hub, arg, todo, bad, ver, best>>

\* The orders in which range may go through the clients in S.
Orders(S) == {s \in [1..Cardinality(S) -> S] :
                \A i, j \in DOMAIN s : s[i] = s[j] => i = j}

Subscribed(r) == {c \in clients : robotID[c] = r}

Lock(p) ==
    /\ pc[p] = "lock" /\ Lockable
    /\ mutex' = p
    /\ \E s \in Orders(Subscribed(arg[p])) : todo' = [todo EXCEPT ![p] = s]
    /\ Goto(p, "write")
    /\ UNCHANGED <<alive, clients, robotID, sock, arg, snap, bad, ver, best, lost>>

\* Sensitivity variant: a client that took the row is dropped.
DeliveredDropped(p, c) ==
    /\ best' = [best EXCEPT ![c] = IF snap[p] > @ THEN snap[p] ELSE @]
    /\ bad' = [bad EXCEPT ![p] = Append(@, c)]
    /\ UNCHANGED pc

Delivered(p, c) ==
    /\ best' = [best EXCEPT ![c] = IF snap[p] > @ THEN snap[p] ELSE @]
    /\ UNCHANGED <<bad, pc>>

\* Sensitivity variant: Broadcast returns at the first failed write.
FailedReturns(p, c) ==
    /\ Goto(p, Home(p))
    /\ UNCHANGED <<bad, best>>

Failed(p, c) ==
    /\ bad' = [bad EXCEPT ![p] = Append(@, c)]
    /\ UNCHANGED <<best, pc>>

\* conn.WriteJSON to the next client.  No deadline is set: it blocks as
\* long as the peer takes nothing, and the mutex stays locked.  When the peer
\* is gone it fails, or the kernel still takes the data and nobody gets it.
WriteJSON(p) ==
    /\ pc[p] = "write" /\ todo[p] # <<>>
    /\ LET c == Head(todo[p]) IN
         \/ sock[c] = "open" /\ Delivered(p, c)
         \/ sock[c] \in {"broken", "closed"} /\ Failed(p, c)
         \/ sock[c] = "broken" /\ UNCHANGED <<bad, best, pc>>
    /\ todo' = [todo EXCEPT ![p] = Tail(@)]
    /\ UNCHANGED <<hub, arg, snap, ver, lost>>

Unlock(p) ==
    /\ pc[p] = "write" /\ todo[p] = <<>>
    /\ mutex' = Free
    /\ Goto(p, "drop")
    /\ UNCHANGED <<alive, clients, robotID, sock, arg, snap, todo, bad, ver, best, lost>>

-----------------------------------------------------------------------------
(* removeClients, called by Broadcast and at the end of a connection *)

\* The loop goes through the list up to the first client that is no longer
\* in the map, whose lookup is nil.
Removed(p) ==
    {bad[p][i] : i \in {j \in DOMAIN bad[p] :
                          \A k \in 1..j : bad[p][k] \in clients}}
Missing(p) == \E i \in DOMAIN bad[p] : bad[p][i] \notin clients

\* Sensitivity variant: removed clients stay in the map.
RemainingAll(p) == clients

Remaining(p) == clients \ Removed(p)

\* Sensitivity variant: Unlock is not deferred.
RemovePanicUndeferred(p) == Panic(p) /\ mutex' = p

RemovePanic(p) == Panic(p) /\ UNCHANGED mutex

\* Sensitivity variant: the connection is not closed.
ClosingNone(p) == sock

\* sock after conn.Close() on every removed connection.
Closing(p) == [c \in Conns |-> IF c \in Removed(p) THEN "closed" ELSE sock[c]]

removeClients(p) ==
    /\ pc[p] \in {"drop", "leave"} /\ Lockable
    /\ clients' = Remaining(p)
    /\ sock' = Closing(p)
    /\ bad' = [bad EXCEPT ![p] = <<>>]
    /\ \/ Missing(p) /\ RemovePanic(p)
       \/ /\ ~Missing(p)
          /\ Goto(p, IF pc[p] = "leave" THEN "gone" ELSE Home(p))
          /\ UNCHANGED <<alive, mutex>>
    /\ UNCHANGED <<robotID, arg, snap, todo, ver, best, lost>>

-----------------------------------------------------------------------------
(* The network, and the end of the process *)

Become(c, state) ==
    /\ sock' = [sock EXCEPT ![c] = state]
    /\ UNCHANGED <<alive, mutex, clients, robotID, proc, ver, best, lost>>

\* The peer stops taking data, takes it again, or is gone.
Stall(c)   == sock[c] = "open" /\ Become(c, "stalled")
Unstall(c) == sock[c] = "stalled" /\ Become(c, "open")
Break(c)   == sock[c] \in {"open", "stalled"} /\ Become(c, "broken")

-----------------------------------------------------------------------------
ConnStep(c)  == \/ Accept(c) \/ addClient(c) \/ ReadRobot(c) \/ ReadEOF(c)
                \/ ReadGivesUp(c) \/ setRobot(c)
LockStep(p)  == Lock(p) \/ removeClients(p)
FreeStep(p)  == Find(p) \/ WriteJSON(p) \/ Unlock(p)
Network(c)   == Stall(c) \/ Unstall(c) \/ Break(c)

\* The process is killed, or a goroutine outside the hub panics.
Crash == /\ alive /\ alive' = FALSE
         /\ UNCHANGED <<mutex, clients, robotID, sock, proc, ver, best, lost>>

\* Nothing happens in a process that has ended, until it is started again.
Restart ==
    /\ ~alive
    /\ alive' = TRUE /\ mutex' = Free /\ clients' = {}
    /\ robotID' = [c \in Conns |-> NoRobot] /\ sock' = [c \in Conns |-> "none"]
    /\ pc' = [p \in Procs |-> IF p \in Conns THEN "new" ELSE "idle"]
    /\ arg' = [p \in Procs |-> NoRobot] /\ snap' = [p \in Procs |-> 0]
    /\ todo' = [p \in Procs |-> <<>>] /\ bad' = [p \in Procs |-> <<>>]
    /\ best' = [c \in Conns |-> 0]
    /\ UNCHANGED <<ver, lost>>

Next ==
    \/ /\ alive
       /\ \/ \E c \in Conns : ConnStep(c) \/ Network(c)
          \/ \E p \in Traders \cup Requests, r \in Robots : Change(p, r)
          \/ \E p \in Procs : LockStep(p) \/ FreeStep(p)
          \/ Crash
    \/ Restart

Spec == Init /\ [][Next]_vars

(***************************************************************************)
(* Goroutines run and database calls return.  A goroutine that waits for a *)
(* mutex unlocked again and again gets it: Go's mutexes are starvation-    *)
(* free.  A write goes through if the peer takes data again and again.     *)
(* Peers need not do that, and nobody need connect or change a robot.      *)
(***************************************************************************)
FairSpec ==
    /\ Spec
    /\ \A p \in Procs : /\ SF_vars(alive /\ LockStep(p))
                        /\ WF_vars(alive /\ (Find(p) \/ Unlock(p)))
                        /\ SF_vars(alive /\ WriteJSON(p))
    /\ \A c \in Conns : SF_vars(alive /\ (addClient(c) \/ setRobot(c)))

-----------------------------------------------------------------------------
(* Properties *)

ConnLabel   == {"new", "add", "read", "set", "leave", "gone",
                "find", "lock", "write", "drop", "dead"}
CasterLabel == {"idle", "find", "lock", "write", "drop"}

\* Every variable stays in the set of values the program can give it.
TypeOK ==
    /\ alive \in BOOLEAN
    /\ mutex \in Procs \cup {Free}
    /\ clients \in SUBSET Conns
    /\ robotID \in [Conns -> Robots \cup {NoRobot}]
    /\ sock \in [Conns -> {"none", "open", "stalled", "broken", "closed"}]
    /\ pc \in [Procs -> ConnLabel \cup CasterLabel]
    /\ \A p \in Conns : pc[p] \in ConnLabel
    /\ \A p \in Requests : pc[p] \in CasterLabel
    /\ \A p \in Traders : pc[p] \in CasterLabel \cup (IF alive THEN {} ELSE {"dead"})
    /\ arg \in [Procs -> Robots \cup {NoRobot}]
    /\ snap \in [Procs -> Nat]
    /\ todo \in [Procs -> Seq(Conns)]
    /\ bad \in [Procs -> Seq(Conns)]
    /\ ver \in [Robots -> Nat]
    /\ best \in [Conns -> Nat]
    /\ lost \in SUBSET Robots

(***************************************************************************)
(* The mutex of a running process is held by the one goroutine that writes *)
(* to clients, so no two ever write to one connection, or for good by a    *)
(* connection handler that panicked in setRobot (the hub is jammed then).  *)
(***************************************************************************)
MutexOwner ==
    alive =>
        /\ \A p \in Procs : pc[p] = "write" => mutex = p
        /\ mutex # Free => \/ pc[mutex] = "write"
                           \/ mutex \in Conns /\ pc[mutex] = "dead"

\* The hub jams for one reason only: a number arrived on a connection that
\* a Broadcast had already removed.  No other panic leaves the mutex locked.
JamCause ==
    alive /\ mutex # Free /\ pc[mutex] = "dead" =>
        sock[mutex] = "closed" /\ mutex \notin clients

(***************************************************************************)
(* A connection leaves the clients map exactly when it is closed, through  *)
(* every double removal and every panic half-way through a removal.        *)
(***************************************************************************)
ListedUntilClosed ==
    alive => \A c \in Conns : c \in clients <=>
                 sock[c] # "closed" /\ pc[c] \notin {"new", "add"}

\* Only a connection on which a write or a read failed is ever closed.
ClosesOnlyBroken ==
    [][\A c \in Conns : sock'[c] = "closed" => sock[c] \in {"broken", "closed"}]_vars

\* p will still offer version v or a newer one of robot r to client c.
Offers(p, r, v, c) ==
    /\ arg[p] = r
    /\ \/ pc[p] = "find"
       \/ pc[p] = "lock" /\ snap[p] >= v
       \/ /\ pc[p] = "write" /\ snap[p] >= v
          /\ \E i \in DOMAIN todo[p] : todo[p][i] = c

(***************************************************************************)
(* No change is missed: every listed client got the newest version of its  *)
(* robot, or a Broadcast under way is going to offer it (or a newer one),  *)
(* or its connection failed, or the last FindByID for the robot failed.    *)
(* Broadcasts may overlap, clients come, go and change robots meanwhile.   *)
(***************************************************************************)
NoMissedChange ==
    alive => \A c \in clients :
        LET r == robotID[c] IN
            r # NoRobot /\ r \notin lost /\ sock[c] # "broken" =>
                best[c] >= ver[r] \/ \E p \in Procs : Offers(p, r, ver[r], c)

Jammed  == mutex \in Conns /\ pc[mutex] = "dead"
Blocked == /\ mutex \in Procs /\ pc[mutex] = "write"
           /\ todo[mutex] # <<>> /\ sock[Head(todo[mutex])] = "stalled"

\* p has a statement of the hub before it that does not block now.
CanStep(p) ==
    \/ pc[p] = "find"
    \/ pc[p] \in {"add", "set", "lock", "drop", "leave"} /\ mutex = Free
    \/ pc[p] = "write" /\ (todo[p] # <<>> =>
                             sock[Head(todo[p])] \in {"open", "broken", "closed"})

\* Nothing keeps p in the hub but goroutines that can go on themselves.
NotStuck(p) == CanStep(p) \/ (mutex # Free /\ CanStep(mutex))

(***************************************************************************)
(* No deadlock on the mutex: whoever is in the hub can go on, or waits for *)
(* an owner of the mutex that can, unless the hub is jammed or a client    *)
(* that takes no data blocks the owner.  In particular no panic and no way *)
(* out of Broadcast leaves the mutex to a goroutine that is not there.     *)
(***************************************************************************)
NoHubDeadlock ==
    alive =>
        \A p \in Procs :
            pc[p] \in {"add", "set", "leave", "find", "lock", "write", "drop"} =>
                NotStuck(p) \/ Jammed \/ Blocked

(***************************************************************************)
(* A goroutine that changed a robot gets out of Broadcast, unless the hub  *)
(* is jammed for good, or a client that takes no data blocks the writer    *)
(* for good: nothing else can hold a Trade goroutine or a request up.      *)
(***************************************************************************)
BroadcastReturns ==
    \A p \in Traders \cup Requests :
        <>[](alive /\ pc[p] # "idle") => <>[](Jammed \/ Blocked)

\* A listed client on a good connection lacks the newest version of r.
Outdated(c, r) == /\ alive /\ c \in clients /\ robotID[c] = r
                  /\ sock[c] # "broken" /\ r \notin lost /\ best[c] < ver[r]

(***************************************************************************)
(* Once a robot no longer changes, every client that shows it gets to see  *)
(* its last state, whatever Broadcasts, removals and subscriptions crossed *)
(* each other before, unless the hub is jammed or blocked for good.        *)
(***************************************************************************)
AllInformed ==
    \A c \in Conns, r \in Robots :
        <>[]Outdated(c, r) /\ <>[][FALSE]_(ver[r]) => <>[](Jammed \/ Blocked)
=============================================================================
