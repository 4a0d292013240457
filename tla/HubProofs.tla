------------------------------ MODULE HubProofs ------------------------------
(***************************************************************************)
(* Proofs about the websocket hub, for any number of connections, Trade    *)
(* goroutines, requests, robots and changes.                               *)
(***************************************************************************)
EXTENDS WSClients, FiniteSetTheorems, SequenceTheorems, TLAPS

\* A connection that is not listed yet is subscribed to nothing and not
\* closed; whoever subscribes or broadcasts does so with a robot.
Fresh ==
    alive =>
        /\ \A c \in Conns :
             /\ pc[c] \in {"new", "add"} => robotID[c] = NoRobot /\ sock[c] # "closed"
             /\ pc[c] = "new" <=> sock[c] = "none"
        /\ \A p \in Procs : pc[p] \in {"set", "find", "lock", "write"} => arg[p] \in Robots

\* Only failed connections are put on a list of clients to remove.
BadIsBroken ==
    \A p \in Procs : \A i \in DOMAIN bad[p] : sock[bad[p][i]] \in {"broken", "closed"}

\* What every step preserves, of its own.
HubInv == /\ TypeOK
          /\ MutexOwner
          /\ JamCause
          /\ ListedUntilClosed
          /\ Fresh
          /\ BadIsBroken

USE WSClientsAssumption

LEMMA InitHubInv == Init => HubInv
<1> SUFFICES ASSUME Init PROVE HubInv
  OBVIOUS
<1> USE DEF Init, Procs
<1>1. TypeOK
  BY DEF TypeOK, ConnLabel, CasterLabel
<1>2. MutexOwner /\ JamCause
  BY DEF MutexOwner, JamCause
<1>3. ListedUntilClosed /\ Fresh
  BY DEF ListedUntilClosed, Fresh
<1>4. BadIsBroken
  BY DEF BadIsBroken
<1> QED
  BY <1>1, <1>2, <1>3, <1>4 DEF HubInv

\* Goroutine p goes to a label it may have.
LabelOf(p) == IF p \in Conns THEN ConnLabel ELSE CasterLabel

PcOK == /\ pc \in [Procs -> ConnLabel \cup CasterLabel]
        /\ \A q \in Conns : pc[q] \in ConnLabel
        /\ \A q \in Requests : pc[q] \in CasterLabel
        /\ \A q \in Traders : pc[q] \in CasterLabel

LEMMA PcType ==
    ASSUME TypeOK, alive, NEW p \in Procs, NEW l \in LabelOf(p),
           pc' = [pc EXCEPT ![p] = l]
    PROVE  PcOK'
<1>1. l \in ConnLabel \cup CasterLabel
  BY DEF LabelOf
<1>2. \A q \in Procs : pc'[q] = IF q = p THEN l ELSE pc[q]
  BY DEF TypeOK
<1> QED
  BY <1>1, <1>2 DEF TypeOK, PcOK, LabelOf, Procs

\* Failed connections stay failed, on whatever list they are.
LEMMA BadKept ==
    ASSUME HubInv, NEW p \in Procs,
           bad' = bad \/ \E c \in Conns : /\ sock[c] \in {"broken", "closed"}
                                          /\ bad' = [bad EXCEPT ![p] = Append(@, c)],
           \A c \in Conns : sock[c] \in {"broken", "closed"} =>
                                sock'[c] \in {"broken", "closed"}
    PROVE  BadIsBroken'
<1> USE DEF HubInv
<1> SUFFICES ASSUME NEW q \in Procs, NEW i \in DOMAIN bad'[q]
             PROVE  sock'[bad'[q][i]] \in {"broken", "closed"}
  BY DEF BadIsBroken
<1>0. bad \in [Procs -> Seq(Conns)] /\ sock \in [Conns -> {"none", "open", "stalled", "broken", "closed"}]
  BY DEF TypeOK
<1>1. ASSUME i \in DOMAIN bad[q], bad'[q][i] = bad[q][i]
      PROVE  sock'[bad'[q][i]] \in {"broken", "closed"}
  <2>1. bad[q][i] \in Conns
    BY <1>0, <1>1, ElementOfSeq
  <2> QED
    BY <1>1, <2>1 DEF BadIsBroken
<1>2. CASE bad' = bad
  BY <1>1, <1>2
<1>3. CASE bad' # bad
  <2>1. PICK c \in Conns : /\ sock[c] \in {"broken", "closed"}
                           /\ bad' = [bad EXCEPT ![p] = Append(@, c)]
    BY <1>3
  <2>2. CASE q # p
    BY <1>0, <1>1, <2>1, <2>2
  <2>3. CASE q = p
    <3>1. bad'[p] = Append(bad[p], c) /\ bad[p] \in Seq(Conns)
      BY <1>0, <2>1
    <3>2. CASE i = Len(bad[p]) + 1
      BY <2>1, <2>3, <3>1, <3>2, AppendProperties
    <3>3. CASE i # Len(bad[p]) + 1
      <4>1. i \in DOMAIN bad[p] /\ bad'[p][i] = bad[p][i]
        BY <2>3, <3>1, <3>3, AppendProperties, LenProperties
      <4> QED
        BY <1>1, <2>3, <4>1
    <3> QED
      BY <3>2, <3>3
  <2> QED
    BY <2>2, <2>3
<1> QED
  BY <1>2, <1>3

\* The connection handler.
LEMMA ConnHubInv ==
    ASSUME HubInv, alive, NEW c \in Conns,
           Accept(c) \/ addClient(c) \/ ReadRobot(c) \/ ReadEOF(c) \/ ReadGivesUp(c)
           \/ setRobot(c)
    PROVE  HubInv'
<1> USE DEF HubInv, Procs, Goto, Panic
<1>1. CASE Accept(c)
  <2> USE <1>1 DEF Accept
  <2>1. TypeOK'
    BY DEF TypeOK, ConnLabel, CasterLabel
  <2>2. MutexOwner' /\ JamCause'
    BY DEF MutexOwner, JamCause, TypeOK
  <2>3. ListedUntilClosed' /\ Fresh'
    BY DEF ListedUntilClosed, Fresh, TypeOK
  <2>4. BadIsBroken'
    BY BadKept DEF TypeOK, Fresh
  <2> QED
    BY <2>1, <2>2, <2>3, <2>4
<1>2. CASE addClient(c)
  <2> USE <1>2 DEF addClient, Lockable
  <2>1. TypeOK'
    BY DEF TypeOK, ConnLabel, CasterLabel
  <2>2. MutexOwner' /\ JamCause'
    BY DEF MutexOwner, JamCause, TypeOK
  <2>3. ListedUntilClosed' /\ Fresh'
    BY DEF ListedUntilClosed, Fresh, TypeOK
  <2>4. BadIsBroken'
    BY DEF BadIsBroken
  <2> QED
    BY <2>1, <2>2, <2>3, <2>4
<1>3. CASE ReadRobot(c)
  <2> USE <1>3 DEF ReadRobot, hub
  <2>0. PcOK'
    BY PcType DEF LabelOf, ConnLabel, CasterLabel
  <2>1. TypeOK'
    BY <2>0 DEF TypeOK, PcOK
  <2>2. MutexOwner' /\ JamCause'
    BY DEF MutexOwner, JamCause, TypeOK
  <2>3. ListedUntilClosed' /\ Fresh'
    BY DEF ListedUntilClosed, Fresh, TypeOK
  <2>4. BadIsBroken'
    BY DEF BadIsBroken
  <2> QED
    BY <2>1, <2>2, <2>3, <2>4
<1>4. CASE ReadEOF(c)
  <2> USE <1>4 DEF ReadEOF, hub
  <2>1. TypeOK'
    BY SMTT(30) DEF TypeOK, ConnLabel, CasterLabel
  <2>2. MutexOwner' /\ JamCause'
    BY DEF MutexOwner, JamCause, TypeOK
  <2>3. ListedUntilClosed' /\ Fresh'
    BY DEF ListedUntilClosed, Fresh, TypeOK
  <2>4. BadIsBroken'
    BY DEF BadIsBroken, TypeOK
  <2> QED
    BY <2>1, <2>2, <2>3, <2>4
<1>5. CASE ReadGivesUp(c)
  <2> USE <1>5 DEF ReadGivesUp
  <2>1. TypeOK'
    BY DEF TypeOK, ConnLabel, CasterLabel
  <2>2. MutexOwner' /\ JamCause'
    BY DEF MutexOwner, JamCause, TypeOK
  <2>3. ListedUntilClosed' /\ Fresh'
    BY DEF ListedUntilClosed, Fresh, TypeOK
  <2>4. BadIsBroken'
    BY DEF BadIsBroken
  <2> QED
    BY <2>1, <2>2, <2>3, <2>4
<1>6. CASE setRobot(c)
  <2> USE <1>6 DEF setRobot, Subscribe, Lockable
  <2>0. PcOK'
    BY PcType DEF LabelOf, ConnLabel, CasterLabel
  <2>1. TypeOK'
    <3>1. alive' \in BOOLEAN /\ mutex' \in Procs \cup {Free}
      BY DEF TypeOK
    <3>2. robotID' \in [Conns -> Robots \cup {NoRobot}] /\ best' \in [Conns -> Nat]
      <4>1. CASE Subscribe(c)
        BY <4>1 DEF TypeOK
      <4>2. CASE UNCHANGED <<robotID, best>>
        BY <4>2 DEF TypeOK
      <4> QED
        BY <4>1, <4>2
    <3> QED
      BY <2>0, <3>1, <3>2 DEF TypeOK, PcOK
  <2>2. MutexOwner' /\ JamCause'
    BY DEF MutexOwner, JamCause, TypeOK, ListedUntilClosed
  <2>3. ListedUntilClosed' /\ Fresh'
    BY ZenonT(40) DEF ListedUntilClosed, Fresh, TypeOK
  <2>4. BadIsBroken'
    BY DEF BadIsBroken
  <2> QED
    BY <2>1, <2>2, <2>3, <2>4
<1> QED
  BY <1>1, <1>2, <1>3, <1>4, <1>5, <1>6

\* Whoever changes a robot, and Broadcast up to the mutex.
LEMMA ChangeHubInv ==
    ASSUME HubInv, alive, NEW p \in Traders \cup Requests, NEW r \in Robots,
           Change(p, r)
    PROVE  HubInv'
<1> USE DEF HubInv, Procs, Goto, Change, hub
<1>0. PcOK'
  BY PcType DEF LabelOf, ConnLabel, CasterLabel
<1>1. TypeOK'
  <2>1. ver' \in [Robots -> Nat] /\ lost' \in SUBSET Robots
    <3>1. CASE ver' = [ver EXCEPT ![r] = @ + 1] /\ lost' = lost \ {r}
      BY <3>1 DEF TypeOK
    <3>2. CASE UNCHANGED <<ver, lost>>
      BY <3>2 DEF TypeOK
    <3> QED
      BY <3>1, <3>2
  <2>2. arg' \in [Procs -> Robots \cup {NoRobot}]
    BY DEF TypeOK
  <2> QED
    BY <1>0, <2>1, <2>2 DEF TypeOK, PcOK
<1>2. MutexOwner' /\ JamCause'
  BY DEF MutexOwner, JamCause, TypeOK
<1>3. ListedUntilClosed' /\ Fresh'
  BY DEF ListedUntilClosed, Fresh, TypeOK
<1>4. BadIsBroken'
  BY DEF BadIsBroken, TypeOK
<1> QED
  BY <1>1, <1>2, <1>3, <1>4

LEMMA FindHubInv ==
    ASSUME HubInv, alive, NEW p \in Procs, Find(p)
    PROVE  HubInv'
<1> USE DEF HubInv, Procs, Goto, Find, Home, hub
<1>0. PcOK'
  BY PcType DEF LabelOf, ConnLabel, CasterLabel
<1>1. TypeOK'
  <2>1. arg[p] \in Robots
    BY DEF Fresh
  <2>2. snap' \in [Procs -> Nat] /\ lost' \in SUBSET Robots
    BY <2>1 DEF TypeOK
  <2> QED
    BY <1>0, <2>2 DEF TypeOK, PcOK
<1>2. MutexOwner' /\ JamCause'
  BY DEF MutexOwner, JamCause, TypeOK
<1>3. ListedUntilClosed' /\ Fresh'
  BY DEF ListedUntilClosed, Fresh, TypeOK
<1>4. BadIsBroken'
  BY DEF BadIsBroken, TypeOK
<1> QED
  BY <1>1, <1>2, <1>3, <1>4

\* A listing of S is a sequence over S.
LEMMA OrdersType ==
    ASSUME NEW S, IsFiniteSet(S), NEW s \in Orders(S)
    PROVE  s \in Seq(S)
  BY FS_CardinalityType DEF Orders

LEMMA SubscribedFinite ==
    ASSUME TypeOK, NEW r
    PROVE  IsFiniteSet(Subscribed(r)) /\ Subscribed(r) \subseteq clients
  BY FS_Subset DEF TypeOK, Subscribed

LEMMA LockHubInv ==
    ASSUME HubInv, alive, NEW p \in Procs, Lock(p)
    PROVE  HubInv'
<1> USE DEF HubInv, Procs, Goto, Lock, Lockable
<1> PICK s \in Orders(Subscribed(arg[p])) : todo' = [todo EXCEPT ![p] = s]
  OBVIOUS
<1>0. s \in Seq(Conns)
  <2>1. /\ IsFiniteSet(Subscribed(arg[p]))
        /\ Subscribed(arg[p]) \subseteq Conns
    BY SubscribedFinite DEF TypeOK
  <2> QED
    BY <2>1, OrdersType, SeqMonotonic
<1>1. TypeOK'
  BY <1>0 DEF TypeOK, ConnLabel, CasterLabel
<1>2. MutexOwner' /\ JamCause'
  BY DEF MutexOwner, JamCause, TypeOK
<1>3. ListedUntilClosed' /\ Fresh'
  BY DEF ListedUntilClosed, Fresh, TypeOK
<1>4. BadIsBroken'
  BY DEF BadIsBroken, TypeOK
<1> QED
  BY <1>1, <1>2, <1>3, <1>4

LEMMA WriteHubInv ==
    ASSUME HubInv, alive, NEW p \in Procs, WriteJSON(p)
    PROVE  HubInv'
<1> USE DEF HubInv, Procs, WriteJSON, hub
<1> DEFINE c == Head(todo[p])
<1>0. c \in Conns /\ Tail(todo[p]) \in Seq(Conns)
  BY DEF TypeOK
<1>1. CASE Delivered(p, c)
  <2> USE <1>0, <1>1 DEF Delivered
  <2>1. TypeOK'
    BY DEF TypeOK, ConnLabel, CasterLabel
  <2>2. MutexOwner' /\ JamCause'
    BY DEF MutexOwner, JamCause, TypeOK
  <2>3. ListedUntilClosed' /\ Fresh'
    BY DEF ListedUntilClosed, Fresh, TypeOK
  <2>4. BadIsBroken'
    BY DEF BadIsBroken, TypeOK
  <2> QED
    BY <2>1, <2>2, <2>3, <2>4
<1>2. CASE sock[c] \in {"broken", "closed"} /\ Failed(p, c)
  <2> USE <1>0, <1>2 DEF Failed
  <2>1. TypeOK'
    <3>1. bad' \in [Procs -> Seq(Conns)] /\ todo' \in [Procs -> Seq(Conns)]
      BY AppendProperties, ZenonT(40) DEF TypeOK
    <3> QED
      BY <3>1 DEF TypeOK
  <2>2. MutexOwner' /\ JamCause'
    BY DEF MutexOwner, JamCause, TypeOK
  <2>3. ListedUntilClosed' /\ Fresh'
    BY DEF ListedUntilClosed, Fresh, TypeOK
  <2>4. BadIsBroken'
    BY BadKept
  <2> QED
    BY <2>1, <2>2, <2>3, <2>4
<1>3. CASE sock[c] = "broken" /\ UNCHANGED <<bad, best, pc>>
  <2> USE <1>0, <1>3
  <2>1. TypeOK'
    BY DEF TypeOK, ConnLabel, CasterLabel
  <2>2. MutexOwner' /\ JamCause'
    BY DEF MutexOwner, JamCause, TypeOK
  <2>3. ListedUntilClosed' /\ Fresh'
    BY DEF ListedUntilClosed, Fresh, TypeOK
  <2>4. BadIsBroken'
    BY DEF BadIsBroken, TypeOK
  <2> QED
    BY <2>1, <2>2, <2>3, <2>4
<1> QED
  BY <1>1, <1>2, <1>3

LEMMA UnlockHubInv ==
    ASSUME HubInv, alive, NEW p \in Procs, Unlock(p)
    PROVE  HubInv'
<1> USE DEF HubInv, Procs, Goto, Unlock
<1>1. TypeOK'
  BY DEF TypeOK, ConnLabel, CasterLabel
<1>2. MutexOwner' /\ JamCause'
  BY DEF MutexOwner, JamCause, TypeOK
<1>3. ListedUntilClosed' /\ Fresh'
  BY DEF ListedUntilClosed, Fresh, TypeOK
<1>4. BadIsBroken'
  BY DEF BadIsBroken, TypeOK
<1> QED
  BY <1>1, <1>2, <1>3, <1>4

\* The end of a Broadcast or of a connection, with or without a panic.
LEMMA RemoveHubInv ==
    ASSUME HubInv, alive, NEW p \in Procs, removeClients(p)
    PROVE  HubInv'
<1> USE DEF HubInv, Procs, Goto, removeClients, RemovePanic, Panic, Home, Lockable
<1>0. Removed(p) \subseteq clients /\ clients' = clients \ Removed(p)
  BY DEF Removed, Remaining, TypeOK
<1>00. sock' = [x \in Conns |-> IF x \in Removed(p) THEN "closed" ELSE sock[x]]
  BY DEF Closing
<1> USE <1>0, <1>00
<1>1. TypeOK'
  <2>1. /\ clients' \in SUBSET Conns
        /\ sock' \in [Conns -> {"none", "open", "stalled", "broken", "closed"}]
        /\ bad' \in [Procs -> Seq(Conns)]
    BY DEF TypeOK
  <2>2. CASE RemovePanic(p)
    <3>1. alive' \in BOOLEAN /\ mutex' \in Procs \cup {Free}
      BY <2>2 DEF TypeOK
    <3>2. /\ pc' \in [Procs -> ConnLabel \cup CasterLabel]
          /\ \A q \in Conns : pc'[q] \in ConnLabel
      BY <2>2 DEF TypeOK, ConnLabel, CasterLabel
    <3>3. \A q \in Requests : pc'[q] \in CasterLabel
      BY <2>2 DEF TypeOK, ConnLabel, CasterLabel
    <3>4. ASSUME NEW q \in Traders
          PROVE  pc'[q] \in CasterLabel \cup (IF alive' THEN {} ELSE {"dead"})
      <4>1. CASE q = p
        BY <2>2, <4>1 DEF TypeOK
      <4>2. CASE q # p
        BY <2>2, <4>2 DEF TypeOK
      <4> QED
        BY <4>1, <4>2
    <3> QED
      BY <2>1, <3>1, <3>2, <3>3, <3>4 DEF TypeOK
  <2>3. CASE UNCHANGED <<alive, mutex>>
    <3>1. PcOK'
      BY <2>3, PcType DEF TypeOK, LabelOf, ConnLabel, CasterLabel
    <3> QED
      BY <2>1, <2>3, <3>1 DEF TypeOK, PcOK
  <2> QED
    BY <2>2, <2>3
<1>2. MutexOwner' /\ JamCause'
  BY DEF MutexOwner, JamCause, TypeOK
<1>3. ListedUntilClosed' /\ Fresh'
  <2>1. \E l \in {"gone", "idle", "read", "dead"} : pc' = [pc EXCEPT ![p] = l]
    OBVIOUS
  <2>2. \A q \in Procs : \/ pc'[q] = pc[q]
                         \/ /\ pc[q] \notin {"new", "add"}
                            /\ pc'[q] \in {"gone", "idle", "read", "dead"}
    BY <2>1 DEF TypeOK
  <2>3. \A x \in Conns : sock'[x] = IF x \in Removed(p) THEN "closed" ELSE sock[x]
    OBVIOUS
  <2>4. ListedUntilClosed'
    BY <2>2, <2>3 DEF ListedUntilClosed
  <2>5. Fresh'
    BY <2>2, <2>3 DEF ListedUntilClosed, Fresh
  <2> QED
    BY <2>4, <2>5
<1>4. BadIsBroken'
  BY DEF BadIsBroken, TypeOK
<1> QED
  BY <1>1, <1>2, <1>3, <1>4

\* The network, and the end of the process.
LEMMA NetworkHubInv ==
    ASSUME HubInv, alive, NEW c \in Conns, Network(c)
    PROVE  HubInv'
<1> PICK state \in {"open", "stalled", "broken"} :
            Become(c, state) /\ sock[c] \in {"open", "stalled"}
  BY DEF Network, Stall, Unstall, Break
<1> USE DEF HubInv, Procs, Become, proc
<1>1. TypeOK'
  BY DEF TypeOK, ConnLabel, CasterLabel
<1>2. MutexOwner' /\ JamCause'
  BY DEF MutexOwner, JamCause, TypeOK
<1>3. ListedUntilClosed' /\ Fresh'
  BY DEF ListedUntilClosed, Fresh, TypeOK
<1>4. BadIsBroken'
  BY BadKept DEF TypeOK
<1> QED
  BY <1>1, <1>2, <1>3, <1>4

LEMMA EndHubInv == HubInv /\ (Crash \/ Restart) => HubInv'
<1> SUFFICES ASSUME HubInv, Crash \/ Restart PROVE HubInv'
  OBVIOUS
<1> USE DEF HubInv, Procs
<1>1. CASE Crash
  <2> USE <1>1 DEF Crash, proc
  <2>1. TypeOK'
    BY DEF TypeOK, ConnLabel, CasterLabel
  <2>2. MutexOwner' /\ JamCause'
    BY DEF MutexOwner, JamCause, TypeOK
  <2>3. ListedUntilClosed' /\ Fresh'
    BY DEF ListedUntilClosed, Fresh, TypeOK
  <2>4. BadIsBroken'
    BY DEF BadIsBroken, TypeOK
  <2> QED
    BY <2>1, <2>2, <2>3, <2>4
<1>2. CASE Restart
  <2> USE <1>2 DEF Restart
  <2>1. TypeOK'
    BY DEF TypeOK, ConnLabel, CasterLabel
  <2>2. MutexOwner' /\ JamCause'
    BY DEF MutexOwner, JamCause, TypeOK
  <2>3. ListedUntilClosed' /\ Fresh'
    BY DEF ListedUntilClosed, Fresh, TypeOK
  <2>4. BadIsBroken'
    BY DEF BadIsBroken, TypeOK
  <2> QED
    BY <2>1, <2>2, <2>3, <2>4
<1> QED
  BY <1>1, <1>2

LEMMA NextHubInv == HubInv /\ [Next]_vars => HubInv'
<1> SUFFICES ASSUME HubInv, [Next]_vars PROVE HubInv'
  OBVIOUS
<1>1. CASE UNCHANGED vars
  BY <1>1 DEF HubInv, vars, hub, proc, TypeOK, MutexOwner, JamCause,
     ListedUntilClosed, Fresh, BadIsBroken
<1>2. ASSUME alive, NEW p \in Procs, LockStep(p) \/ FreeStep(p)
      PROVE  HubInv'
  BY <1>2, FindHubInv, LockHubInv, WriteHubInv, UnlockHubInv, RemoveHubInv
  DEF LockStep, FreeStep
<1>3. ASSUME alive, NEW c \in Conns, ConnStep(c) \/ Network(c)
      PROVE  HubInv'
  BY <1>3, ConnHubInv, NetworkHubInv DEF ConnStep
<1> QED
  BY <1>1, <1>2, <1>3, ChangeHubInv, EndHubInv DEF Next

LEMMA HubInvariant == Spec => []HubInv
  BY InitHubInv, NextHubInv, PTL DEF Spec

\* The inductive invariant's parts, for every instance.
THEOREM HubTypeCorrect == Spec => []TypeOK
  BY HubInvariant, PTL DEF HubInv

\* No two goroutines ever write to one connection: whoever writes holds the
\* mutex, and it is never left locked but by a panic in setRobot.
THEOREM OneWriter == Spec => []MutexOwner
  BY HubInvariant, PTL DEF HubInv

\* The hub jams for good in one way only: a number read from a connection
\* that a Broadcast has removed.
THEOREM JamsOnlyOnRemoved == Spec => []JamCause
  BY HubInvariant, PTL DEF HubInv

\* The clients map and the open connections agree.
THEOREM ListedExactly == Spec => []ListedUntilClosed
  BY HubInvariant, PTL DEF HubInv

-----------------------------------------------------------------------------
(* No connection is closed that still works. *)

LEMMA StepClosesOnlyBroken ==
    ASSUME HubInv, [Next]_vars, NEW c \in Conns, sock'[c] = "closed"
    PROVE  sock[c] \in {"broken", "closed"}
<1>1. CASE sock' = sock
  BY <1>1
<1>2. ASSUME NEW p \in Procs, removeClients(p)
      PROVE  sock[c] \in {"broken", "closed"}
  <2>1. CASE c \in Removed(p)
    <3>1. PICK i \in DOMAIN bad[p] : bad[p][i] = c
      BY <2>1 DEF Removed
    <3> QED
      BY <3>1 DEF HubInv, BadIsBroken
  <2>2. CASE c \notin Removed(p)
    BY <1>2, <2>2 DEF removeClients, Closing
  <2> QED
    BY <2>1, <2>2
<1>3. ASSUME NEW d \in Conns, Accept(d)
      PROVE  sock[c] \in {"broken", "closed"}
  BY <1>3 DEF Accept, HubInv, TypeOK
<1>4. ASSUME NEW d \in Conns, Network(d)
      PROVE  sock[c] \in {"broken", "closed"}
  BY <1>4 DEF Network, Stall, Unstall, Break, Become, HubInv, TypeOK
<1>5. CASE Restart
  BY <1>5 DEF Restart
<1>6. ASSUME NEW d \in Conns, ConnStep(d), ~Accept(d)
      PROVE  sock' = sock
  BY <1>6 DEF ConnStep, addClient, ReadRobot, ReadEOF, ReadGivesUp, setRobot, hub
<1>7. ASSUME NEW p \in Procs, FreeStep(p) \/ Lock(p)
      PROVE  sock' = sock
  BY <1>7 DEF FreeStep, Find, WriteJSON, Unlock, Lock, hub
<1>8. ASSUME NEW p \in Traders \cup Requests, NEW r \in Robots, Change(p, r)
      PROVE  sock' = sock
  BY <1>8 DEF Change, hub
<1>9. CASE Crash \/ UNCHANGED vars
  BY <1>9 DEF Crash, vars, hub
<1> QED
  BY <1>1, <1>2, <1>3, <1>4, <1>5, <1>6, <1>7, <1>8, <1>9 DEF Next, LockStep

\* The hub never closes a connection on which nothing failed.
THEOREM NoWorkingClientDropped == Spec => ClosesOnlyBroken
<1>1. HubInv /\ [Next]_vars =>
        \A c \in Conns : sock'[c] = "closed" => sock[c] \in {"broken", "closed"}
  BY StepClosesOnlyBroken
<1> QED
  BY <1>1, HubInvariant, PTL DEF Spec, ClosesOnlyBroken

-----------------------------------------------------------------------------
(* No change is missed. *)

\* A listing of S leaves nobody out.
LEMMA OrdersCover ==
    ASSUME NEW S, IsFiniteSet(S), NEW s \in Orders(S), NEW x \in S
    PROVE  \E i \in DOMAIN s : s[i] = x
<1> DEFINE n == Cardinality(S)
<1>1. n \in Nat
  BY FS_CardinalityType
<1>2. s \in [1..n -> S] /\ \A i, j \in 1..n : s[i] = s[j] => i = j
  BY DEF Orders
<1>3. s \in Injection(1..n, S)
  BY <1>2 DEF Injection, IsInjective
<1>4. Cardinality(1..n) = n
  BY <1>1, FS_Interval
<1>5. s \in Surjection(1..n, S)
  BY <1>3, <1>4, FS_Injection
<1> QED
  BY <1>2, <1>5 DEF Surjection

\* What NoMissedChange asks for client c.
Served(c) ==
    robotID[c] # NoRobot /\ robotID[c] \notin lost /\ sock[c] # "broken" =>
        \/ best[c] >= ver[robotID[c]]
        \/ \E p \in Procs : Offers(p, robotID[c], ver[robotID[c]], c)

LEMMA MissedIsServed == NoMissedChange <=> (alive => \A c \in clients : Served(c))
  BY DEF NoMissedChange, Served

\* A step of p leaves c served when it withdraws no offer of p without effect.
LEMMA ServedKept ==
    ASSUME NEW c, NEW p \in Procs, Served(c),
           robotID'[c] = robotID[c], ver' = ver, lost \subseteq lost',
           sock[c] = "broken" => sock'[c] = "broken",
           best[c] >= ver[robotID[c]] => best'[c] >= ver[robotID[c]],
           \A q \in Procs \ {p} : UNCHANGED <<pc[q], arg[q], snap[q], todo[q]>>,
           Offers(p, robotID[c], ver[robotID[c]], c) =>
               \/ Offers(p, robotID[c], ver[robotID[c]], c)'
               \/ best'[c] >= ver[robotID[c]]
               \/ robotID[c] \in lost'
               \/ sock'[c] = "broken"
    PROVE  Served(c)'
<1> DEFINE r == robotID[c]
<1> SUFFICES ASSUME r # NoRobot, r \notin lost', sock'[c] # "broken"
             PROVE  \/ best'[c] >= ver[r]
                    \/ \E q \in Procs : Offers(q, r, ver[r], c)'
  BY DEF Served
<1>1. CASE best[c] >= ver[r]
  BY <1>1
<1>2. ASSUME NEW q \in Procs, Offers(q, r, ver[r], c)
      PROVE  \/ best'[c] >= ver[r]
             \/ \E x \in Procs : Offers(x, r, ver[r], c)'
  <2>1. CASE q = p
    BY <1>2, <2>1
  <2>2. CASE q # p
    <3>1. Offers(q, r, ver[r], c)'
      BY <1>2, <2>2 DEF Offers
    <3> QED
      BY <3>1
  <2> QED
    BY <2>1, <2>2
<1> QED
  BY <1>1, <1>2 DEF Served

\* The connection handler: a new client is subscribed to nothing, and who
\* subscribes is going to be sent the row.
LEMMA ConnServes ==
    ASSUME HubInv, alive, \A c \in clients : Served(c),
           NEW d \in Conns, ConnStep(d), NEW c \in clients'
    PROVE  Served(c)'
<1> USE DEF HubInv, Procs, Goto, Panic
<1>0. d \in Procs /\ clients \subseteq Conns
  BY DEF TypeOK
<1>1. CASE Accept(d)
  <2>1. Served(c) /\ c \in Conns
    BY <1>0, <1>1 DEF Accept
  <2>2. sock'[c] = sock[c] \/ sock[c] = "none"
    BY <1>1, <2>1 DEF Accept, TypeOK, Fresh
  <2> QED
    BY <1>0, <1>1, <2>1, <2>2, ServedKept DEF Accept, Offers, TypeOK
<1>2. CASE addClient(d)
  <2>1. CASE c = d
    BY <1>2, <2>1 DEF addClient, Served, Fresh
  <2>2. CASE c # d
    <3>1. Served(c)
      BY <1>2, <2>2 DEF addClient
    <3> QED
      BY <1>0, <1>2, <3>1, ServedKept DEF addClient, Offers, TypeOK
  <2> QED
    BY <2>1, <2>2
<1>3. CASE ReadRobot(d)
  <2>1. /\ clients' = clients /\ robotID' = robotID /\ ver' = ver /\ lost' = lost
        /\ sock' = sock /\ best' = best
    BY <1>3 DEF ReadRobot, hub
  <2>2. /\ pc[d] = "read" /\ \A q \in Procs \ {d} : UNCHANGED <<pc[q], arg[q], snap[q], todo[q]>>
    BY <1>0, <1>3 DEF ReadRobot, hub, TypeOK
  <2>3. ~Offers(d, robotID[c], ver[robotID[c]], c)
    BY <2>2 DEF Offers
  <2> QED
    BY <1>0, <2>1, <2>2, <2>3, ServedKept
<1>4. CASE ReadEOF(d)
  BY <1>0, <1>4, ServedKept DEF ReadEOF, hub, Offers, TypeOK
<1>5. CASE ReadGivesUp(d)
  BY <1>0, <1>5, ServedKept DEF ReadGivesUp, Offers, TypeOK
<1>6. CASE setRobot(d) /\ Subscribe(d)
  <2>1. CASE c = d
    <3>1. robotID'[c] = arg[d] /\ arg' = arg /\ pc'[d] = "find"
      BY <1>0, <1>6, <2>1 DEF setRobot, Subscribe, TypeOK
    <3>2. Offers(d, robotID[c], ver[robotID[c]], c)'
      BY <3>1 DEF Offers
    <3> QED
      BY <1>0, <3>2 DEF Served
  <2>2. CASE c # d
    <3>1. Served(c) /\ c \in Conns
      BY <1>0, <1>6 DEF setRobot
    <3>2. robotID'[c] = robotID[c] /\ best'[c] = best[c]
      BY <1>6, <2>2, <3>1 DEF Subscribe, TypeOK
    <3> QED
      BY <1>0, <1>6, <3>1, <3>2, ServedKept DEF setRobot, Subscribe, Offers, TypeOK
  <2> QED
    BY <2>1, <2>2
<1>7. CASE setRobot(d) /\ Panic(d) /\ UNCHANGED <<robotID, best>>
  <2>1. Served(c)
    BY <1>7 DEF setRobot
  <2> QED
    BY <1>0, <1>7, <2>1, ServedKept DEF setRobot, Offers, TypeOK
<1> QED
  BY <1>1, <1>2, <1>3, <1>4, <1>5, <1>6, <1>7 DEF ConnStep, setRobot

\* Whoever changes a robot is going to read and offer the new row.
LEMMA ChangeServes ==
    ASSUME HubInv, \A c \in clients : Served(c),
           NEW p \in Traders \cup Requests, NEW r \in Robots, Change(p, r),
           NEW c \in clients'
    PROVE  Served(c)'
<1> USE DEF HubInv, Procs, Goto
<1>0. p \in Procs /\ Served(c) /\ UNCHANGED <<robotID, sock, snap, todo, best>>
  BY DEF Change, hub
<1>00. pc'[p] = "find" /\ arg'[p] = r /\ pc[p] = "idle"
  BY <1>0 DEF Change, TypeOK
<1>1. CASE robotID[c] = r
  <2>1. Offers(p, robotID[c], ver[robotID[c]], c)'
    BY <1>0, <1>00, <1>1 DEF Offers
  <2> QED
    BY <1>0, <2>1 DEF Served
<1>2. CASE robotID[c] # r
  <2>1. SUFFICES ASSUME robotID[c] # NoRobot, robotID[c] \notin lost',
                        sock[c] # "broken"
                 PROVE  \/ best[c] >= ver'[robotID[c]]
                        \/ \E q \in Procs : Offers(q, robotID[c], ver[robotID[c]], c)'
    BY <1>0 DEF Served
  <2>2. ver'[robotID[c]] = ver[robotID[c]] /\ robotID[c] \notin lost
    <3>1. \/ ver' = [ver EXCEPT ![r] = @ + 1] /\ lost' = lost \ {r}
          \/ UNCHANGED <<ver, lost>>
      BY DEF Change
    <3>2. robotID[c] \in Robots
      BY <2>1 DEF TypeOK, Change, hub
    <3> QED
      BY <1>2, <2>1, <3>1, <3>2 DEF TypeOK
  <2>3. CASE best[c] >= ver[robotID[c]]
    BY <2>2, <2>3
  <2>4. ASSUME NEW q \in Procs, Offers(q, robotID[c], ver[robotID[c]], c)
        PROVE  Offers(q, robotID[c], ver[robotID[c]], c)'
    <3>1. q # p
      BY <1>00, <2>4 DEF Offers
    <3>2. pc'[q] = pc[q] /\ arg'[q] = arg[q]
      BY <3>1 DEF Change, TypeOK
    <3> QED
      BY <1>0, <2>2, <2>4, <3>2 DEF Offers
  <2> QED
    BY <1>0, <2>1, <2>2, <2>3, <2>4 DEF Served
<1> QED
  BY <1>1, <1>2

\* Broadcast: the row that was read reaches all its subscribers, or fails.
LEMMA BroadcastServes ==
    ASSUME HubInv, alive, \A c \in clients : Served(c),
           NEW p \in Procs, FreeStep(p) \/ Lock(p), NEW c \in clients'
    PROVE  Served(c)'
<1> USE DEF HubInv, Goto
<1>0. Served(c) /\ c \in clients /\ c \in Conns
      /\ UNCHANGED <<alive, clients, robotID, sock, arg, ver>>
  BY DEF FreeStep, Find, WriteJSON, Unlock, Lock, hub, TypeOK
<1>1. CASE Find(p)
  <2>1. /\ pc[p] = "find" /\ UNCHANGED <<todo, best>>
        /\ \/ snap'[p] = ver[arg[p]] /\ pc'[p] = "lock" /\ lost' = lost
           \/ lost' = lost \cup {arg[p]}
        /\ \A q \in Procs \ {p} : pc'[q] = pc[q] /\ snap'[q] = snap[q]
    BY <1>1 DEF Find, TypeOK
  <2>2. arg[p] \in Robots
    BY <2>1 DEF Fresh
  <2>3. ver[arg[p]] \in Nat
    BY <2>2 DEF TypeOK
  <2> QED
    BY <1>0, <2>1, <2>3, ServedKept DEF Offers
<1>2. CASE Lock(p)
  <2>1. PICK s \in Orders(Subscribed(arg[p])) : todo' = [todo EXCEPT ![p] = s]
    BY <1>2 DEF Lock
  <2>2. /\ pc[p] = "lock" /\ pc'[p] = "write" /\ todo'[p] = s
        /\ UNCHANGED <<snap, best, lost>>
        /\ \A q \in Procs \ {p} : pc'[q] = pc[q] /\ todo'[q] = todo[q]
    BY <1>2, <2>1 DEF Lock, TypeOK
  <2>3. ASSUME arg[p] = robotID[c]
        PROVE  \E i \in DOMAIN s : s[i] = c
    <3>1. c \in Subscribed(arg[p]) /\ IsFiniteSet(Subscribed(arg[p]))
      BY <1>0, <2>3, SubscribedFinite DEF Subscribed
    <3> QED
      BY <3>1, OrdersCover
  <2> QED
    BY <1>0, <2>2, <2>3, ServedKept DEF Offers
<1>3. CASE WriteJSON(p)
  <2> DEFINE h == Head(todo[p])
  <2>1. /\ pc[p] = "write" /\ todo[p] # <<>> /\ pc' = pc /\ UNCHANGED <<snap, lost>>
        /\ todo' = [todo EXCEPT ![p] = Tail(@)]
        /\ \/ Delivered(p, h)
           \/ sock[h] \in {"broken", "closed"} /\ best' = best
    BY <1>3 DEF WriteJSON, Delivered, Failed
  <2>2. /\ h \in Conns /\ todo'[p] = Tail(todo[p]) /\ todo[p] \in Seq(Conns)
        /\ \A q \in Procs \ {p} : todo'[q] = todo[q]
    BY <2>1 DEF TypeOK
  <2>3. best[c] \in Nat /\ snap[p] \in Nat
    BY <1>0 DEF TypeOK
  <2>4. Delivered(p, h) => /\ best'[c] >= best[c]
                           /\ h = c => best'[c] >= snap[p]
    BY <1>0, <2>2, <2>3 DEF Delivered, TypeOK
  <2>5. \A i \in DOMAIN todo[p] : todo[p][i] = c =>
            h = c \/ \E j \in DOMAIN todo'[p] : todo'[p][j] = c
    <3>1. SUFFICES ASSUME NEW i \in DOMAIN todo[p], todo[p][i] = c, h # c
                   PROVE  \E j \in DOMAIN Tail(todo[p]) : Tail(todo[p])[j] = c
      BY <2>2
    <3>2. i \in 1..Len(todo[p]) /\ i # 1
      BY <2>1, <2>2, <3>1
    <3>3. i - 1 \in 1..Len(Tail(todo[p])) /\ Tail(todo[p])[i-1] = todo[p][i]
      BY <2>1, <2>2, <3>2, HeadTailProperties
    <3> QED
      BY <2>1, <2>2, <3>1, <3>3, HeadTailProperties
  <2>6. best'[c] >= best[c]
    BY <2>1, <2>3, <2>4
  <2>7. ~Delivered(p, h) /\ h = c => sock[c] = "broken"
    BY <1>0, <2>1 DEF ListedUntilClosed
  <2>8. best'[c] \in Nat
    BY <1>0, <2>1, <2>2, <2>3 DEF Delivered, TypeOK
  <2>9. ASSUME robotID[c] \in Robots PROVE ver[robotID[c]] \in Nat
    BY <2>9 DEF TypeOK
  <2>10. robotID[c] = NoRobot => Served(c)'
    BY <1>0 DEF Served
  <2>11. robotID[c] # NoRobot => robotID[c] \in Robots
    BY <1>0 DEF TypeOK
  <2>12. CASE robotID[c] \in Robots
    <3> DEFINE v == ver[robotID[c]]
    <3>1. best[c] >= v => best'[c] >= v
      BY <2>3, <2>6, <2>8, <2>9, <2>12
    <3>2. Offers(p, robotID[c], v, c) =>
            \/ Offers(p, robotID[c], v, c)'
            \/ best'[c] >= v
            \/ sock'[c] = "broken"
      <4>1. SUFFICES ASSUME arg[p] = robotID[c], snap[p] >= v,
                            \E i \in DOMAIN todo[p] : todo[p][i] = c, h = c
                     PROVE  best'[c] >= v \/ sock[c] = "broken"
        BY <1>0, <2>1, <2>5 DEF Offers
      <4> QED
        BY <2>3, <2>4, <2>7, <2>8, <2>9, <2>12, <4>1
    <3> QED
      BY <1>0, <2>1, <2>2, <3>1, <3>2, ServedKept
  <2> QED
    BY <2>10, <2>11, <2>12
<1>4. CASE Unlock(p)
  <2>1. /\ pc[p] = "write" /\ todo[p] = <<>>
        /\ UNCHANGED <<snap, todo, best, lost>>
        /\ \A q \in Procs \ {p} : pc'[q] = pc[q]
    BY <1>4 DEF Unlock, TypeOK
  <2> QED
    BY <1>0, <2>1, ServedKept DEF Offers
<1> QED
  BY <1>1, <1>2, <1>3, <1>4 DEF FreeStep

\* Removing clients and the network take no offer back.
LEMMA OthersServe ==
    ASSUME HubInv, alive, \A c \in clients : Served(c), NEW c \in clients',
           \/ \E p \in Procs : removeClients(p)
           \/ \E d \in Conns : Network(d)
    PROVE  Served(c)'
<1> USE DEF HubInv
<1>1. ASSUME NEW p \in Procs, removeClients(p)
      PROVE  Served(c)'
  <2>1. /\ c \in clients /\ c \in Conns /\ c \notin Removed(p)
        /\ UNCHANGED <<robotID, arg, snap, todo, ver, best, lost>>
        /\ pc[p] \in {"drop", "leave"}
    BY <1>1 DEF removeClients, Remaining, TypeOK
  <2>2. sock'[c] = sock[c]
    BY <1>1, <2>1 DEF removeClients, Closing
  <2>3. \A q \in Procs \ {p} : pc'[q] = pc[q]
    BY <1>1 DEF removeClients, RemovePanic, Panic, Goto, TypeOK
  <2> QED
    BY <2>1, <2>2, <2>3, ServedKept DEF Offers
<1>2. ASSUME NEW d \in Conns, Network(d)
      PROVE  Served(c)'
  <2>1. /\ UNCHANGED <<alive, mutex, clients, robotID, proc, ver, best, lost>>
        /\ sock[c] = "broken" => sock'[c] = "broken"
    BY <1>2 DEF Network, Stall, Unstall, Break, Become, TypeOK
  <2>2. d \in Procs
    BY DEF Procs
  <2>3. Offers(d, robotID[c], ver[robotID[c]], c) => Offers(d, robotID[c], ver[robotID[c]], c)'
    BY <2>1 DEF Offers, proc
  <2> QED
    BY <2>1, <2>2, <2>3, ServedKept DEF proc
<1> QED
  BY <1>1, <1>2

LEMMA InitServed == Init => NoMissedChange
  BY DEF Init, NoMissedChange

LEMMA NextServed == HubInv /\ NoMissedChange /\ [Next]_vars => NoMissedChange'
<1> SUFFICES ASSUME HubInv, NoMissedChange, [Next]_vars, alive', NEW c \in clients'
             PROVE  Served(c)'
  BY MissedIsServed DEF NoMissedChange, Served
<1>1. CASE UNCHANGED vars
  BY <1>1, MissedIsServed DEF vars, hub, proc, Served, Offers
<1>2. CASE Crash \/ Restart
  BY <1>2 DEF Crash, Restart
<1>3. CASE alive
  <2>1. \A x \in clients : Served(x)
    BY <1>3, MissedIsServed
  <2> QED
    BY <1>1, <1>2, <1>3, <2>1, ConnServes, ChangeServes, BroadcastServes, OthersServe
    DEF Next, LockStep
<1> QED
  BY <1>1, <1>2, <1>3 DEF Next

\* Whatever Broadcasts overlap and whoever comes and goes: a listed client
\* has the newest row of its robot, or is going to be offered it.
THEOREM NothingMissed == Spec => []NoMissedChange
  BY HubInvariant, InitServed, NextServed, PTL DEF Spec

-----------------------------------------------------------------------------
(* Nobody waits for a mutex that nobody is going to unlock. *)

\* While its owner writes nobody is removed, so who is written to is listed.
WritesToListed ==
    alive => \A p \in Procs : pc[p] = "write" =>
                 \A i \in DOMAIN todo[p] : todo[p][i] \in clients

LEMMA InitWrites == Init => WritesToListed
  BY DEF Init, WritesToListed

\* Steps after which nobody newly writes and nobody is removed.
LEMMA WritesKept ==
    ASSUME WritesToListed, alive, clients \subseteq clients', todo' = todo,
           \A p \in Procs : pc'[p] = "write" => pc[p] = "write"
    PROVE  WritesToListed'
  BY DEF WritesToListed

LEMMA ConnWrites ==
    ASSUME HubInv, WritesToListed, alive, NEW c \in Conns, ConnStep(c)
    PROVE  WritesToListed'
<1>1. c \in Procs /\ pc \in [Procs -> ConnLabel \cup CasterLabel]
  BY DEF Procs, HubInv, TypeOK
<1>2. clients \subseteq clients' /\ todo' = todo
  BY DEF ConnStep, Accept, addClient, ReadRobot, ReadEOF, ReadGivesUp, setRobot, hub
<1>3. pc' = [pc EXCEPT ![c] = pc'[c]] /\ pc'[c] # "write"
  BY <1>1 DEF ConnStep, Accept, addClient, ReadRobot, ReadEOF, ReadGivesUp,
     setRobot, Subscribe, Panic, Goto
<1> QED
  BY <1>1, <1>2, <1>3, WritesKept

LEMMA BroadcastWrites ==
    ASSUME HubInv, WritesToListed, alive, NEW p \in Procs, FreeStep(p) \/ Lock(p)
    PROVE  WritesToListed'
<1>0. pc \in [Procs -> ConnLabel \cup CasterLabel] /\ todo \in [Procs -> Seq(Conns)]
  BY DEF HubInv, TypeOK
<1>1. CASE Find(p) \/ Unlock(p)
  <2>1. clients' = clients /\ todo' = todo
    BY <1>1 DEF Find, Unlock, hub
  <2>2. \A q \in Procs : pc'[q] = "write" => pc[q] = "write"
    BY <1>0, <1>1 DEF Find, Unlock, Goto, Home
  <2> QED
    BY <2>1, <2>2, WritesKept
<1>2. CASE WriteJSON(p)
  <2>1. /\ pc[p] = "write" /\ todo[p] # <<>> /\ UNCHANGED <<alive, clients, pc>>
        /\ todo' = [todo EXCEPT ![p] = Tail(@)]
    BY <1>2 DEF WriteJSON, Delivered, Failed, hub
  <2>2. ASSUME NEW i \in DOMAIN Tail(todo[p])
        PROVE  Tail(todo[p])[i] \in clients
    <3>1. i + 1 \in DOMAIN todo[p] /\ Tail(todo[p])[i] = todo[p][i + 1]
      BY <1>0, <2>1, <2>2, HeadTailProperties
    <3> QED
      BY <2>1, <3>1 DEF WritesToListed
  <2> QED
    BY <1>0, <2>1, <2>2 DEF WritesToListed
<1>3. CASE Lock(p)
  <2>1. PICK s \in Orders(Subscribed(arg[p])) : todo' = [todo EXCEPT ![p] = s]
    BY <1>3 DEF Lock
  <2>2. /\ UNCHANGED <<alive, clients>> /\ todo'[p] = s
        /\ \A q \in Procs \ {p} : pc'[q] = pc[q] /\ todo'[q] = todo[q]
    BY <1>0, <1>3, <2>1 DEF Lock, Goto
  <2>3. \A i \in DOMAIN s : s[i] \in clients
    BY <2>1 DEF Orders, Subscribed
  <2> QED
    BY <2>2, <2>3 DEF WritesToListed
<1> QED
  BY <1>1, <1>2, <1>3 DEF FreeStep

\* The mutex is free when clients are removed, so nobody is writing.
LEMMA RemoveWrites ==
    ASSUME HubInv, WritesToListed, alive, NEW p \in Procs, removeClients(p)
    PROVE  WritesToListed'
<1>1. \A q \in Procs : pc[q] # "write"
  BY DEF HubInv, MutexOwner, removeClients, Lockable, Procs
<1>2. \A q \in Procs : pc'[q] # "write"
  <2>1. pc \in [Procs -> ConnLabel \cup CasterLabel]
    BY DEF HubInv, TypeOK
  <2> QED
    BY <1>1, <2>1 DEF removeClients, RemovePanic, Panic, Goto, Home
<1> QED
  BY <1>2 DEF WritesToListed

LEMMA NextWrites == HubInv /\ WritesToListed /\ [Next]_vars => WritesToListed'
<1> SUFFICES ASSUME HubInv, WritesToListed, [Next]_vars PROVE WritesToListed'
  OBVIOUS
<1>1. CASE UNCHANGED vars
  BY <1>1 DEF vars, hub, proc, WritesToListed
<1>2. ASSUME alive, NEW p \in Traders \cup Requests, NEW r \in Robots, Change(p, r)
      PROVE  WritesToListed'
  <2>1. clients' = clients /\ todo' = todo
    BY <1>2 DEF Change, hub
  <2>2. \A q \in Procs : pc'[q] = "write" => pc[q] = "write"
    BY <1>2 DEF Change, Goto, HubInv, TypeOK
  <2> QED
    BY <1>2, <2>1, <2>2, WritesKept
<1>3. ASSUME alive, NEW c \in Conns, Network(c)
      PROVE  WritesToListed'
  <2>1. UNCHANGED <<alive, clients, pc, todo>>
    BY <1>3 DEF Network, Stall, Unstall, Break, Become, proc
  <2> QED
    BY <2>1 DEF WritesToListed
<1>4. CASE Crash
  BY <1>4 DEF Crash, WritesToListed
<1>5. CASE Restart
  BY <1>5 DEF Restart, WritesToListed
<1> QED
  BY <1>1, <1>2, <1>3, <1>4, <1>5, ConnWrites, BroadcastWrites, RemoveWrites
  DEF Next, LockStep

\* Whoever may hold the mutex is writing, can go on, or is one of the two
\* excuses.
LEMMA OwnerGoesOn ==
    ASSUME HubInv, WritesToListed, alive, mutex # Free
    PROVE  CanStep(mutex) \/ Jammed \/ Blocked
<1>0. mutex \in Procs
  BY DEF HubInv, TypeOK
<1>1. CASE mutex \in Conns /\ pc[mutex] = "dead"
  BY <1>1 DEF Jammed
<1>2. CASE pc[mutex] = "write" /\ todo[mutex] = <<>>
  BY <1>2 DEF CanStep
<1>3. CASE pc[mutex] = "write" /\ todo[mutex] # <<>>
  <2> DEFINE c == Head(todo[mutex])
  <2>1. todo[mutex] \in Seq(Conns) /\ 1 \in DOMAIN todo[mutex] /\ c = todo[mutex][1]
    BY <1>0, <1>3 DEF HubInv, TypeOK
  <2>2. c \in clients /\ c \in Conns
    BY <1>0, <1>3, <2>1 DEF WritesToListed, HubInv, TypeOK
  <2>3. sock[c] \in {"open", "stalled", "broken"}
    BY <2>2 DEF HubInv, TypeOK, ListedUntilClosed, Fresh
  <2> QED
    BY <1>0, <1>3, <2>3 DEF CanStep, Blocked
<1> QED
  BY <1>1, <1>2, <1>3 DEF HubInv, MutexOwner

LEMMA WhoWaitsForWhom == HubInv /\ WritesToListed => NoHubDeadlock
<1> SUFFICES ASSUME HubInv, WritesToListed, alive, NEW p \in Procs,
                    pc[p] \in {"add", "set", "leave", "find", "lock", "write", "drop"}
             PROVE  NotStuck(p) \/ Jammed \/ Blocked
  BY DEF NoHubDeadlock
<1>1. CASE mutex # Free
  BY <1>1, OwnerGoesOn DEF NotStuck
<1>2. CASE mutex = Free
  <2>1. pc[p] # "write"
    BY <1>2 DEF HubInv, MutexOwner, Procs
  <2> QED
    BY <1>2, <2>1 DEF NotStuck, CanStep
<1> QED
  BY <1>1, <1>2

\* The mutex deadlocks nobody: whoever waits for it waits for a goroutine
\* that can go on, unless a connection handler died in setRobot or a client
\* takes no data.
THEOREM HubDeadlockFree == Spec => []NoHubDeadlock
<1>1. Spec => []WritesToListed
  BY InitWrites, NextWrites, HubInvariant, PTL DEF Spec
<1> QED
  BY <1>1, HubInvariant, WhoWaitsForWhom, PTL

-----------------------------------------------------------------------------
(* A Broadcast under way only gets shorter. *)

\* How far p is from the end of Broadcast: the statements before it and, in
\* the loop, the clients it has still to write to.
Stage(p) == CASE pc[p] = "find"  -> 4
              [] pc[p] = "lock"  -> 3
              [] pc[p] = "write" -> 2
              [] pc[p] = "drop"  -> 1
              [] OTHER           -> 0

Shorter(p) == \/ Stage(p)' < Stage(p)
              \/ /\ pc'[p] = "write" /\ pc[p] = "write"
                 /\ Len(todo[p]) \in Nat /\ Len(todo'[p]) < Len(todo[p])

CastStep ==
    alive /\ alive' =>
        \A p \in Procs : Stage(p) > 0 =>
            /\ LockStep(p) \/ FreeStep(p) => Shorter(p)
            /\ Shorter(p) \/ (pc'[p] = pc[p] /\ todo'[p] = todo[p])

LEMMA OwnShorter ==
    ASSUME HubInv, NEW p \in Procs, Stage(p) > 0, LockStep(p) \/ FreeStep(p)
    PROVE  Shorter(p)
<1>0. pc \in [Procs -> ConnLabel \cup CasterLabel] /\ todo \in [Procs -> Seq(Conns)]
  BY DEF HubInv, TypeOK
<1>1. CASE Find(p)
  <2>1. pc[p] = "find" /\ pc'[p] \in {"lock", "read", "idle"}
    BY <1>0, <1>1 DEF Find, Goto, Home
  <2> QED
    BY <2>1 DEF Shorter, Stage
<1>2. CASE Lock(p)
  <2>1. pc[p] = "lock" /\ pc'[p] = "write"
    BY <1>0, <1>2 DEF Lock, Goto
  <2> QED
    BY <2>1 DEF Shorter, Stage
<1>3. CASE WriteJSON(p)
  <2>1. /\ pc[p] = "write" /\ pc'[p] = "write" /\ todo[p] # <<>>
        /\ todo'[p] = Tail(todo[p])
    BY <1>0, <1>3 DEF WriteJSON, Delivered, Failed
  <2>2. todo[p] \in Seq(Conns)
    BY <1>0
  <2>3. Len(todo[p]) \in Nat /\ Len(Tail(todo[p])) = Len(todo[p]) - 1
    BY <2>1, <2>2
  <2> QED
    BY <2>1, <2>3 DEF Shorter
<1>4. CASE Unlock(p)
  <2>1. pc[p] = "write" /\ pc'[p] = "drop"
    BY <1>0, <1>4 DEF Unlock, Goto
  <2> QED
    BY <2>1 DEF Shorter, Stage
<1>5. CASE removeClients(p)
  <2>1. pc[p] = "drop" /\ pc'[p] \in {"dead", "gone", "read", "idle"}
    BY <1>0, <1>5 DEF removeClients, RemovePanic, Panic, Goto, Home, Stage
  <2> QED
    BY <2>1 DEF Shorter, Stage
<1> QED
  BY <1>1, <1>2, <1>3, <1>4, <1>5 DEF LockStep, FreeStep

\* What others do, clients that subscribe among them, does not lengthen it.
LEMMA OthersNotLonger ==
    ASSUME HubInv, [Next]_vars, alive, alive', NEW p \in Procs, Stage(p) > 0,
           ~(LockStep(p) \/ FreeStep(p))
    PROVE  pc'[p] = pc[p] /\ todo'[p] = todo[p]
<1>0. pc \in [Procs -> ConnLabel \cup CasterLabel] /\ todo \in [Procs -> Seq(Conns)]
  BY DEF HubInv, TypeOK
<1>1. ASSUME NEW c \in Conns, ConnStep(c)
      PROVE  pc'[p] = pc[p] /\ todo'[p] = todo[p]
  <2>1. pc[c] \in {"new", "add", "read", "set"}
    BY <1>1 DEF ConnStep, Accept, addClient, ReadRobot, ReadEOF, ReadGivesUp, setRobot
  <2>2. c # p
    BY <2>1 DEF Stage
  <2> QED
    BY <1>0, <1>1, <2>2 DEF ConnStep, Accept, addClient, ReadRobot, ReadEOF, ReadGivesUp,
       setRobot, Subscribe, Panic, Goto
<1>2. ASSUME NEW q \in Traders \cup Requests, NEW r \in Robots, Change(q, r)
      PROVE  pc'[p] = pc[p] /\ todo'[p] = todo[p]
  <2>1. q # p
    BY <1>2 DEF Change, Stage
  <2> QED
    BY <1>0, <1>2, <2>1 DEF Change, Goto
<1>3. ASSUME NEW q \in Procs, q # p, LockStep(q) \/ FreeStep(q)
      PROVE  pc'[p] = pc[p] /\ todo'[p] = todo[p]
  BY <1>0, <1>3 DEF LockStep, FreeStep, Lock, removeClients, RemovePanic, Panic, Find,
     WriteJSON, Delivered, Failed, Unlock, Goto
<1>4. CASE UNCHANGED vars
  BY <1>4 DEF vars, proc
<1>5. ASSUME NEW c \in Conns, Network(c)
      PROVE  pc'[p] = pc[p] /\ todo'[p] = todo[p]
  BY <1>5 DEF Network, Stall, Unstall, Break, Become, proc
<1> QED
  BY <1>1, <1>2, <1>3, <1>4, <1>5 DEF Next, Crash, Restart

(***************************************************************************)
(* A Broadcast under way only gets shorter: each of its own steps takes it *)
(* nearer to its end, and nothing others do takes it back, neither clients *)
(* that subscribe or break meanwhile nor other Broadcasts.  What is left   *)
(* to fairness is that the mutex is handed on, and that a client that      *)
(* takes data takes it in time: with HubDeadlockFree, BroadcastReturns.    *)
(***************************************************************************)
THEOREM BroadcastsGetShorter == Spec => [][CastStep]_vars
<1>1. ASSUME HubInv, [Next]_vars PROVE CastStep
  BY <1>1, OwnShorter, OthersNotLonger DEF CastStep
<1>2. HubInv /\ [Next]_vars => CastStep
  BY <1>1
<1> QED
  BY <1>2, HubInvariant, PTL DEF Spec
=============================================================================
