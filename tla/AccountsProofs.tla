--------------------------- MODULE AccountsProofs ---------------------------
(***************************************************************************)
(* Theorems about Accounts, for any requests, emails, passwords and times. *)
(* Base, the types and what the locals of a request stand for, is          *)
(* inductive; the other invariants are inductive relative to it.           *)
(***************************************************************************)
EXTENDS Accounts, SequenceTheorems, TLAPS

\* Requests whose password was accepted and whose session is not written.
Signing(r) == r.pc \in {"stamp", "insert"}

\* What the locals of a request stand for at each of its steps.
Sound(r) ==
    /\ r.pc \in {"create", "lookup", "check", "write"} \/ r.update =>
           r.email \in Emails /\ r.password \in Passwords
    /\ r.pc \in {"auth", "check", "write"} => r.token \in issued
    /\ r.pc \in {"check", "write"} => r.token.user = r.id
    /\ Signing(r) => r.id \in DOMAIN users
    /\ r.pc = "insert" => r.token \in Token /\ r.token.user = r.id

Base == TypeOK /\ \A q \in Requests : Sound(req[q])

-----------------------------------------------------------------------------
LEMMA IdleSound == Idle \in Request /\ Sound(Idle)
  BY DEF Idle, Request, Label, Sound, Signing

LEMMA BaseInit == AccountsAssumption /\ Init => Base
  <1> SUFFICES ASSUME AccountsAssumption, Init PROVE Base
    OBVIOUS
  <1>1. users \in Seq(User) /\ Len(users) <= MaxUsers
    BY DEF Init, AccountsAssumption
  <1>2. req \in [Requests -> Request] /\ \A q \in Requests : Sound(req[q])
    BY IdleSound DEF Init
  <1>3. /\ sessions = {} /\ issued = {} /\ now \in Nat /\ overlap = {}
        /\ accepted \in [UserIds -> Nat] /\ setBack \in BOOLEAN
        /\ last \in [UserIds -> Token \cup {Nothing}]
    BY DEF Init
  <1> QED
    BY <1>1, <1>2, <1>3 DEF Base, TypeOK

(* A step of one request that may move the clock, but no table. *)
LEMMA BaseKept ==
    ASSUME Base, NEW q \in Requests, NEW r \in Request, Sound(r),
           req' = [req EXCEPT ![q] = r],
           UNCHANGED <<users, sessions, issued, setBack>>,
           now' \in Nat, overlap' \in SUBSET Requests,
           accepted' \in [UserIds -> Nat], last' \in [UserIds -> Token \cup {Nothing}]
    PROVE  Base'
  <1>1. req' \in [Requests -> Request]
    BY DEF Base, TypeOK
  <1>2. \A p \in Requests : Sound(req[p])'
    BY DEF Base, TypeOK, Sound, Signing
  <1> QED
    BY <1>1, <1>2 DEF Base, TypeOK

(* The record of a request after one of its fields changed. *)
LEMMA RequestFields ==
    ASSUME NEW r \in Request
    PROVE  /\ r.update \in BOOLEAN /\ r.id \in Nat
           /\ \A l \in Label : [r EXCEPT !.pc = l] \in Request
           /\ \A l \in Label, i \in Nat : [r EXCEPT !.pc = l, !.id = i] \in Request
           /\ \A l \in Label, t \in Token : [r EXCEPT !.pc = l, !.token = t] \in Request
  BY DEF Request

LEMMA BaseArrive ==
    ASSUME AccountsAssumption, Base, NEW q \in Requests, Arrive(q)
    PROVE  Base'
  <1>1. ASSUME NEW r \in Request, Sound(r), Begin(q, r) PROVE Base'
    BY <1>1, BaseKept DEF Begin, history, Base, TypeOK
  <1>2. ASSUME NEW e \in Emails, NEW p \in Passwords, SignUp(q, e, p) \/ SignIn(q, e, p)
        PROVE  Base'
    <2>1. \A l \in {"create", "lookup"} :
             LET r == [Idle EXCEPT !.pc = l, !.email = e, !.password = p]
             IN  r \in Request /\ Sound(r)
      BY DEF Idle, Request, Label, Sound, Signing
    <2> QED
      BY <1>1, <1>2, <2>1 DEF SignUp, SignIn
  <1>3. ASSUME NEW t \in issued, NEW i \in UserIds, GetUser(q, t, i) PROVE Base'
    <2>1. t \in Token /\ i \in Nat
      BY DEF Base, TypeOK, UserIds
    <2> DEFINE r == [Idle EXCEPT !.pc = "auth", !.id = i, !.token = t]
    <2>2. r \in Request /\ Sound(r)
      BY <2>1 DEF Idle, Request, Label, Sound, Signing
    <2> QED
      BY <1>1, <1>3, <2>2 DEF GetUser
  <1>4. ASSUME NEW t \in issued, NEW i \in UserIds, NEW e \in Emails, NEW p \in Passwords,
               UpdateUser(q, t, i, e, p)
        PROVE  Base'
    <2>1. t \in Token /\ i \in Nat
      BY DEF Base, TypeOK, UserIds
    <2> DEFINE r == [pc |-> "auth", update |-> TRUE, id |-> i, token |-> t,
                     email |-> e, password |-> p]
    <2>2. r \in Request /\ Sound(r)
      BY <2>1 DEF Request, Label, Sound, Signing
    <2> QED
      BY <1>1, <1>4, <2>2 DEF UpdateUser
  <1> QED
    BY <1>2, <1>3, <1>4 DEF Arrive

(* The two steps that write the users table. *)
LEMMA BaseUsers ==
    ASSUME AccountsAssumption, Base, NEW q \in Requests, CreateUser(q) \/ WriteUser(q)
    PROVE  Base' /\ Len(users') >= Len(users)
  <1>1. Row(q) \in User
    BY DEF CreateUser, WriteUser, Base, Sound, Row, User
  <1>2. /\ users' \in Seq(User) /\ Len(users') <= MaxUsers
        /\ DOMAIN users \in SUBSET DOMAIN users' /\ Len(users') >= Len(users)
    <2>0. users \in Seq(User) /\ Len(users) \in Nat /\ Len(users) <= MaxUsers /\ MaxUsers \in Nat
      BY DEF Base, TypeOK, AccountsAssumption
    <2>1. CASE UNCHANGED users
      BY <2>0, <2>1
    <2>2. CASE Len(users) < MaxUsers /\ users' = Append(users, Row(q))
      BY <1>1, <2>0, <2>2
    <2>3. CASE WriteUser(q) /\ users' = [users EXCEPT ![req[q].token.user] = Row(q)]
      <3>1. req[q].token.user \in 1..Len(users)
        BY <2>0, <2>3 DEF WriteUser, Base, TypeOK, Sound
      <3>2. users' \in Seq(User) /\ Len(users') = Len(users)
        BY <1>1, <2>0, <2>3, <3>1, ExceptSeq
      <3> QED
        BY <2>0, <3>2
    <2> QED
      BY <2>1, <2>2, <2>3 DEF CreateUser, WriteUser
  <1>3. /\ req' = [req EXCEPT ![q] = Idle]
        /\ UNCHANGED <<sessions, now, issued, accepted, overlap, last, setBack>>
    BY DEF CreateUser, WriteUser, Return, history
  <1>4. req' \in [Requests -> Request]
    BY <1>3, IdleSound DEF Base, TypeOK
  <1>5. \A p \in Requests : Sound(req[p])'
    BY <1>2, <1>3, IdleSound DEF Base, TypeOK, Sound, Signing
  <1>6. \A t \in sessions : t.user \in DOMAIN users'
    BY <1>2 DEF Base, TypeOK
  <1> QED
    BY <1>2, <1>3, <1>4, <1>5, <1>6 DEF Base, TypeOK

LEMMA BaseInsert ==
    ASSUME AccountsAssumption, Base, NEW q \in Requests, InsertSession(q)
    PROVE  Base'
  <1>1. req[q].token \in Token /\ req[q].token.user \in DOMAIN users
    BY DEF InsertSession, Base, Sound, Signing
  <1>2. /\ sessions' \in {sessions, sessions \cup {req[q].token}}
        /\ issued' \in {issued, issued \cup {req[q].token}} /\ issued' \in SUBSET sessions'
        /\ sessions \in SUBSET sessions' /\ issued \in SUBSET issued'
    BY DEF InsertSession, Base, TypeOK
  <1>3. last' \in [UserIds -> Token \cup {Nothing}]
    BY <1>1 DEF InsertSession, Base, TypeOK
  <1>4. /\ req' = [req EXCEPT ![q] = Idle] /\ overlap' \in SUBSET Requests
        /\ UNCHANGED <<users, now, accepted, setBack>>
    BY DEF InsertSession, Return, Base, TypeOK
  <1>5. req' \in [Requests -> Request]
    BY <1>4, IdleSound DEF Base, TypeOK
  <1>6. \A p \in Requests : Sound(req[p])'
    BY <1>2, <1>4, IdleSound DEF Base, TypeOK, Sound, Signing
  <1>7. sessions' \in SUBSET Token /\ \A t \in sessions' : t.user \in DOMAIN users'
    BY <1>1, <1>2, <1>4 DEF Base, TypeOK
  <1> QED
    BY <1>2, <1>3, <1>4, <1>5, <1>6, <1>7 DEF Base, TypeOK

(* The other steps of a request read the tables and change its locals. *)
LEMMA BaseReads ==
    ASSUME AccountsAssumption, Base, NEW q \in Requests,
           Check(q) \/ NewSession(q) \/ Authentication(q) \/ CheckEmail(q)
    PROVE  Base'
  <1>0. req[q] \in Request /\ Sound(req[q]) /\ now \in Nat
    BY DEF Base, TypeOK
  <1>1. ASSUME Return(q), UNCHANGED <<users, sessions, now, issued, accepted, setBack, last, overlap>>
        PROVE  Base'
    BY <1>1, BaseKept, IdleSound DEF Return, Base, TypeOK
  <1>2. CASE Check(q)
    <2>1. CASE Return(q) /\ UNCHANGED <<now, last, overlap>>
      BY <1>1, <1>2, <2>1 DEF Check
    <2>2. ASSUME NEW i \in DOMAIN users, now' = now + 1,
                 req' = [req EXCEPT ![q].pc = "stamp", ![q].id = i],
                 last' = [last EXCEPT ![i] = Nothing],
                 overlap' = IF SigningIn(q, i) = {} THEN overlap
                            ELSE overlap \cup SigningIn(q, i) \cup {q}
          PROVE  Base'
      <3> DEFINE r == [req[q] EXCEPT !.pc = "stamp", !.id = i]
      <3>1. i \in Nat
        BY SMTT(30) DEF Base, TypeOK
      <3>2. r \in Request
        BY <1>0, <3>1, RequestFields DEF Label
      <3>3. Sound(r)
        BY <1>0, <1>2, <3>2 DEF Sound, Signing, Request, Check
      <3>4. req' = [req EXCEPT ![q] = r]
        BY <2>2 DEF Base, TypeOK
      <3>5. overlap' \in SUBSET Requests
        BY <2>2 DEF SigningIn, Base, TypeOK
      <3>6. last' \in [UserIds -> Token \cup {Nothing}]
        BY <2>2 DEF Base, TypeOK
      <3>7. now' \in Nat
        BY <1>0, <2>2
      <3> HIDE DEF r
      <3> QED
        BY <1>2, <3>2, <3>3, <3>4, <3>5, <3>6, <3>7, BaseKept DEF Check, Base, TypeOK
    <2> QED
      BY <1>2, <2>1, <2>2 DEF Check
  <1>3. CASE NewSession(q)
    <2>1. PICK d \in {0, 1} :
             /\ now' = now + d
             /\ req' = [req EXCEPT ![q].pc = "insert",
                           ![q].token = [user |-> req[q].id, created |-> now,
                                         valid |-> now + d + ValidTime]]
      BY <1>3 DEF NewSession
    <2> DEFINE t == [user |-> req[q].id, created |-> now, valid |-> now + d + ValidTime]
               r == [req[q] EXCEPT !.pc = "insert", !.token = t]
    <2>2. req[q].id \in UserIds
      <3>1. req[q].id \in DOMAIN users
        BY <1>0, <1>3 DEF NewSession, Sound, Signing
      <3> QED
        BY <3>1 DEF Base, TypeOK, UserIds, AccountsAssumption
    <2>3. t \in Token
      BY <1>0, <2>2 DEF Token, AccountsAssumption
    <2>4. r \in Request
      BY <1>0, <2>3, RequestFields DEF Label
    <2>5. Sound(r)
      BY <1>0, <1>3, <2>3, <2>4 DEF Sound, Signing, Request, NewSession
    <2>6. req' = [req EXCEPT ![q] = r]
      BY <2>1 DEF Base, TypeOK
    <2>7. now' \in Nat
      BY <1>0, <2>1
    <2> HIDE DEF r
    <2> QED
      BY <1>3, <2>4, <2>5, <2>6, <2>7, BaseKept DEF NewSession, history, Base, TypeOK
  <1>4. CASE Authentication(q)
    <2>1. CASE Return(q) /\ UNCHANGED accepted
      BY <1>1, <1>4, <2>1 DEF Authentication
    <2>2. CASE /\ accepted' = [accepted EXCEPT ![req[q].token.user] = req[q].token.created]
               /\ IF req[q].update /\ Authorized(q) THEN Goto(q, "check") ELSE Return(q)
      <3>1. req[q].token \in Token
        BY <1>0, <1>4 DEF Authentication, Sound, Base, TypeOK
      <3>2. accepted' \in [UserIds -> Nat]
        BY <2>2, <3>1 DEF Base, TypeOK, Token
      <3>3. CASE Return(q)
        BY <1>4, <3>2, <3>3, BaseKept, IdleSound DEF Authentication, Return, Base, TypeOK
      <3>4. CASE req[q].update /\ Authorized(q) /\ Goto(q, "check")
        <4> DEFINE r == [req[q] EXCEPT !.pc = "check"]
        <4>1. r \in Request
          BY <1>0, RequestFields DEF Label
        <4>2. Sound(r)
          BY <1>0, <1>4, <3>4, <4>1 DEF Sound, Signing, Request, Authentication, Authorized
        <4>3. req' = [req EXCEPT ![q] = r]
          BY <3>4 DEF Goto, Base, TypeOK
        <4> HIDE DEF r
        <4> QED
          BY <1>4, <3>2, <4>1, <4>2, <4>3, BaseKept DEF Authentication, Base, TypeOK
      <3> QED
        BY <2>2, <3>3, <3>4
    <2> QED
      BY <1>4, <2>1, <2>2 DEF Authentication
  <1>5. CASE CheckEmail(q)
    <2>1. CASE Return(q)
      BY <1>1, <1>5, <2>1 DEF CheckEmail, history
    <2>2. CASE Goto(q, "write")
      <3> DEFINE r == [req[q] EXCEPT !.pc = "write"]
      <3>1. r \in Request
        BY <1>0, RequestFields DEF Label
      <3>2. Sound(r)
        BY <1>0, <1>5, <3>1 DEF Sound, Signing, Request, CheckEmail
      <3>3. req' = [req EXCEPT ![q] = r]
        BY <2>2 DEF Goto, Base, TypeOK
      <3> HIDE DEF r
      <3> QED
        BY <1>5, <3>1, <3>2, <3>3, BaseKept DEF CheckEmail, history, Base, TypeOK
    <2> QED
      BY <1>5, <2>1, <2>2 DEF CheckEmail
  <1> QED
    BY <1>2, <1>3, <1>4, <1>5

LEMMA BaseStep ==
    ASSUME AccountsAssumption, Base, [Next]_vars
    PROVE  Base'
  <1>1. ASSUME NEW q \in Requests, Arrive(q) \/ Step(q) PROVE Base'
    BY <1>1, BaseArrive, BaseUsers, BaseInsert, BaseReads DEF Step
  <1>2. CASE Tick \/ SetBack
    <2>1. now' \in Nat /\ setBack' \in BOOLEAN
      <3>1. now \in Nat /\ setBack \in BOOLEAN
        BY DEF Base, TypeOK
      <3>2. CASE Tick
        BY <3>1, <3>2 DEF Tick, history
      <3>3. CASE SetBack
        BY <3>1, <3>3 DEF SetBack
      <3> QED
        BY <1>2, <3>2, <3>3
    <2>2. UNCHANGED <<users, sessions, req, issued, accepted, overlap, last>>
      BY <1>2 DEF Tick, SetBack, history
    <2> QED
      BY <2>1, <2>2 DEF Base, TypeOK, Sound, Signing
  <1>3. CASE Crash
    BY <1>3, IdleSound DEF Crash, Base, TypeOK, Sound, Signing
  <1>4. CASE UNCHANGED vars
    BY <1>4 DEF vars, history, Base, TypeOK, Sound, Signing
  <1> QED
    BY <1>1, <1>2, <1>3, <1>4 DEF Next

LEMMA SpecBase == Spec => []Base
  <1>1. Init => Base
    BY BaseInit, AccountsAssumption
  <1>2. Base /\ [Next]_vars => Base'
    BY BaseStep, AccountsAssumption
  <1> QED
    BY <1>1, <1>2, PTL DEF Spec

-----------------------------------------------------------------------------
(***************************************************************************)
(* The types: every variable keeps to the values the handlers, the tables  *)
(* and the clock can give it.                                              *)
(***************************************************************************)
THEOREM AccountsTypeCorrect == Spec => []TypeOK
  BY SpecBase, PTL DEF Base

(***************************************************************************)
(* A row of users changes only in the last step of an UpdateUser with a    *)
(* token answered to that user and with that user's id in its URL.         *)
(***************************************************************************)
THEOREM OwnRowOnly == Spec => OnlyOwnRow
  <1> DEFINE Own == \A i \in DOMAIN users : users'[i] # users[i] =>
                      \E q \in Requests :
                          /\ req[q].pc = "write" /\ req[q].id = i
                          /\ req[q].token \in issued /\ req[q].token.user = i
  <1>1. ASSUME Base, [Next]_vars PROVE [Own]_vars
    <2> SUFFICES ASSUME NEW i \in DOMAIN users, users'[i] # users[i]
                 PROVE  \E q \in Requests :
                          /\ req[q].pc = "write" /\ req[q].id = i
                          /\ req[q].token \in issued /\ req[q].token.user = i
      OBVIOUS
    <2>1. PICK q \in Requests : CreateUser(q) \/ WriteUser(q)
      BY <1>1 DEF Next, Tick, SetBack, Crash, vars, Step, Check, NewSession, InsertSession,
                  Authentication, CheckEmail, Arrive, SignUp, SignIn, GetUser, UpdateUser, Begin
    <2>2. users \in Seq(User) /\ Row(q) \in User
      BY <1>1, <2>1 DEF Base, TypeOK, CreateUser, WriteUser, Sound, Row, User
    <2>3. ~ CreateUser(q)
      BY <2>2 DEF CreateUser
    <2>4. WriteUser(q) /\ req[q].token.user = i
      BY <2>1, <2>2, <2>3 DEF WriteUser
    <2> QED
      BY <1>1, <2>4 DEF Base, Sound, WriteUser
  <1>2. Base /\ [Next]_vars => [Own]_vars
    BY <1>1
  <1> QED
    BY <1>2, SpecBase, PTL DEF Spec, OnlyOwnRow

-----------------------------------------------------------------------------
\* The session of the token accepted last is still in the table.
Reached ==
    \A i \in UserIds :
        accepted[i] = 0 \/ \E s \in sessions : s.user = i /\ s.created = accepted[i]

(* The only step that accepts a token. *)
LEMMA AcceptNewest ==
    ASSUME Base, NEW q \in Requests, Authentication(q), accepted' # accepted
    PROVE  LET token == req[q].token IN
           /\ token \in sessions /\ token \in Newest(token.user) /\ UNCHANGED sessions
           /\ accepted' = [accepted EXCEPT ![token.user] = token.created]
  BY DEF Authentication, Newest, Equal

LEMMA OtherSteps ==
    ASSUME [Next]_vars, ~ \E q \in Requests : Authentication(q)
    PROVE  UNCHANGED accepted
  BY DEF Next, Tick, SetBack, Crash, vars, history, Step, CreateUser, WriteUser, Check, NewSession,
         InsertSession, CheckEmail, Arrive, SignUp, SignIn, GetUser, UpdateUser, Begin

(* No step of the program deletes a session. *)
LEMMA SessionsStay ==
    ASSUME [Next]_vars
    PROVE  sessions \in SUBSET sessions'
  BY DEF Next, Tick, SetBack, Crash, vars, history, Step, CreateUser, WriteUser, Check, NewSession,
         InsertSession, CheckEmail, Authentication, Arrive, SignUp, SignIn, GetUser, UpdateUser, Begin

(***************************************************************************)
(* Once a token of a user was accepted, an older one never is again: no    *)
(* session is ever deleted, so the newest one is at least as new.          *)
(***************************************************************************)
THEOREM NoOldTokenCorrect == Spec => NoOldToken
  <1>1. Init => Reached
    BY DEF Init, Reached
  <1>2. ASSUME Base, Reached, [Next]_vars PROVE Reached'
    <2>1. ASSUME UNCHANGED accepted PROVE Reached'
      BY <1>2, <2>1, SessionsStay DEF Reached
    <2>2. ASSUME NEW q \in Requests, Authentication(q), accepted' # accepted PROVE Reached'
      <3> DEFINE token == req[q].token
      <3>1. /\ token \in sessions /\ UNCHANGED sessions
            /\ accepted' = [accepted EXCEPT ![token.user] = token.created]
        BY <1>2, <2>2, AcceptNewest
      <3>2. accepted \in [UserIds -> Nat]
        BY <1>2 DEF Base, TypeOK
      <3> HIDE DEF token
      <3>3. ASSUME NEW i \in UserIds, i = token.user
            PROVE  accepted'[i] = token.created
        BY <3>1, <3>2, <3>3
      <3>4. ASSUME NEW i \in UserIds, i # token.user
            PROVE  accepted'[i] = accepted[i]
        BY <3>1, <3>2, <3>4
      <3> QED
        BY <1>2, <3>1, <3>3, <3>4 DEF Reached
    <2> QED
      BY <1>2, <2>1, <2>2, OtherSteps
  <1>3. ASSUME Base, Reached, [Next]_vars, NEW i \in UserIds PROVE accepted'[i] >= accepted[i]
    <2>1. accepted[i] \in Nat
      BY <1>3 DEF Base, TypeOK
    <2>2. CASE UNCHANGED accepted
      BY <2>1, <2>2
    <2>3. ASSUME NEW q \in Requests, Authentication(q), accepted' # accepted
          PROVE  accepted'[i] >= accepted[i]
      <3> DEFINE token == req[q].token
      <3>1. /\ token \in sessions /\ token \in Newest(token.user)
            /\ accepted' = [accepted EXCEPT ![token.user] = token.created]
        BY <1>3, <2>3, AcceptNewest
      <3>2. token.created \in Nat /\ accepted \in [UserIds -> Nat]
        BY <1>3, <3>1 DEF Base, TypeOK, Token
      <3>3. CASE token.user = i
        BY <1>3, <3>1, <3>2, <3>3 DEF Reached, Newest
      <3> QED
        BY <2>1, <3>1, <3>2, <3>3
    <2> QED
      BY <1>3, <2>2, <2>3, OtherSteps
  <1>4. Base /\ Reached /\ [Next]_vars => Reached'
    BY <1>2
  <1>5. Base /\ Reached /\ [Next]_vars => [\A i \in UserIds : accepted'[i] >= accepted[i]]_vars
    BY <1>3
  <1> QED
    BY <1>1, <1>4, <1>5, SpecBase, PTL DEF Spec, NoOldToken

-----------------------------------------------------------------------------
(* SingleSession: what holds while the clock was never set back.           *)

\* Nothing carries a time the clock has not reached.
Past ==
    /\ \A s \in sessions : s.created <= now
    /\ \A q \in Requests : req[q].pc = "insert" => req[q].token.created <= now

\* The time the session of q will carry, if the clock stood still.
Stamp(q) == IF req[q].pc = "stamp" THEN now ELSE req[q].token.created

\* A sign-in that is alone is ahead of every session of its user.
Ahead ==
    \A q \in Requests : Signing(req[q]) /\ q \notin overlap =>
        /\ \A p \in Requests \ {q} : Signing(req[p]) => req[p].id # req[q].id
        /\ \A s \in sessions : s.user = req[q].id => s.created < Stamp(q)

\* The last sign-in, if alone, left the newest session, and none is going on.
Leading ==
    \A i \in UserIds : last[i] # Nothing =>
        /\ last[i] \in sessions /\ last[i].user = i
        /\ \A q \in Requests : Signing(req[q]) => req[q].id # i
        /\ \A s \in sessions \ {last[i]} : s.user = i => s.created < last[i].created

Order == ~setBack => Past /\ Ahead /\ Leading

(* Steps beside the sign-ins: they may end one, never further it. *)
LEMMA OrderKept ==
    ASSUME Base, Base', Order, now' >= now, UNCHANGED <<sessions, last, setBack>>,
           \A p \in Requests : Signing(req'[p]) =>
               req'[p] = req[p] /\ (p \in overlap' <=> p \in overlap)
    PROVE  Order'
  <1> SUFFICES ASSUME ~setBack PROVE Past' /\ Ahead' /\ Leading'
    BY DEF Order
  <1>1. /\ now \in Nat /\ now' \in Nat /\ sessions \in SUBSET Token
        /\ \A p \in Requests : req[p].pc = "insert" => req[p].token.created \in Nat
    BY DEF Base, TypeOK, Sound, Token
  <1>2. \A s \in sessions : s.created \in Nat
    BY <1>1 DEF Token
  <1>3. Past /\ Ahead /\ Leading
    BY DEF Order
  <1>4. Past'
    BY <1>1, <1>2, <1>3 DEF Past, Signing
  <1>5. \A q \in Requests : Signing(req'[q]) => Stamp(q)' >= Stamp(q) /\ Stamp(q) \in Nat /\ Stamp(q)' \in Nat
    BY <1>1 DEF Stamp, Signing
  <1>6. Ahead'
    BY <1>2, <1>3, <1>5 DEF Ahead
  <1>7. Leading'
    BY <1>3 DEF Leading
  <1> QED
    BY <1>4, <1>6, <1>7

(* The password of a sign-in is accepted: the clock moves past every session. *)
LEMMA OrderCheck ==
    ASSUME AccountsAssumption, Base, Base', Order, NEW q \in Requests, Check(q), req'[q].pc = "stamp"
    PROVE  Order'
  <1> SUFFICES ASSUME ~setBack PROVE Past' /\ Ahead' /\ Leading'
    BY DEF Order, Check
  <1>1. PICK i \in DOMAIN users :
          /\ req' = [req EXCEPT ![q].pc = "stamp", ![q].id = i]
          /\ last' = [last EXCEPT ![i] = Nothing]
          /\ overlap' = IF SigningIn(q, i) = {} THEN overlap
                        ELSE overlap \cup SigningIn(q, i) \cup {q}
          /\ now' = now + 1
    <2>1. ~ Return(q)
      BY DEF Return, Idle, Base, TypeOK
    <2> QED
      BY <2>1 DEF Check
  <1>2. /\ now \in Nat /\ sessions' = sessions
        /\ \A s \in sessions : s.created \in Nat /\ s.created <= now
        /\ \A p \in Requests : req[p].pc = "insert" =>
              req[p].token.created \in Nat /\ req[p].token.created <= now
        /\ Ahead /\ Leading
    BY DEF Order, Past, Base, TypeOK, Sound, Token, Check
  <1>3. /\ req'[q].pc = "stamp" /\ req'[q].id = i /\ ~ Signing(req[q])
        /\ \A p \in Requests \ {q} : req'[p] = req[p]
    <2>1. req[q] \in Request /\ req[q].pc = "lookup" /\ req \in [Requests -> Request]
      BY DEF Base, TypeOK, Check
    <2>2. /\ req'[q] = [req[q] EXCEPT !.pc = "stamp", !.id = i]
          /\ \A p \in Requests \ {q} : req'[p] = req[p]
      BY <1>1, <2>1
    <2> QED
      BY <2>1, <2>2 DEF Request, Signing
  <1>4. Past'
    <2>1. now' = now + 1 /\ \A s \in sessions' : s.created <= now'
      BY <1>1, <1>2
    <2>2. ASSUME NEW p \in Requests, req'[p].pc = "insert" PROVE req'[p].token.created <= now'
      <3>1. req'[p] = req[p]
        BY <1>3, <2>2
      <3> QED
        BY <1>2, <2>1, <2>2, <3>1
    <2> QED
      BY <2>1, <2>2 DEF Past
  <1>5. ASSUME NEW p \in Requests, Signing(req'[p]), p \notin overlap'
        PROVE  /\ \A o \in Requests \ {p} : Signing(req'[o]) => req'[o].id # req'[p].id
               /\ \A s \in sessions' : s.user = req'[p].id => s.created < Stamp(p)'
    <2>1. CASE p = q
      <3>1. SigningIn(q, i) = {}
        BY <1>1, <1>5, <2>1
      <3>2. \A o \in Requests \ {q} : Signing(req'[o]) => req'[o].id # i
        BY <1>3, <3>1 DEF SigningIn, Signing
      <3>3. \A s \in sessions' : s.created < Stamp(q)'
        BY <1>1, <1>2, <1>3 DEF Stamp
      <3> QED
        BY <1>3, <2>1, <3>2, <3>3
    <2>2. CASE p # q
      <3>1. Signing(req[p]) /\ p \notin overlap /\ p \notin SigningIn(q, i)
        BY <1>1, <1>3, <1>5, <2>2
      <3>2. req[p].id # i
        BY <2>2, <3>1 DEF SigningIn, Signing
      <3>3. \A o \in Requests \ {p} : Signing(req'[o]) => req'[o].id # req'[p].id
        BY <1>2, <1>3, <2>2, <3>1, <3>2 DEF Ahead
      <3>4. Stamp(p)' >= Stamp(p) /\ Stamp(p) \in Nat /\ Stamp(p)' \in Nat
        <4>1. req'[p] = req[p] /\ now' = now + 1 /\ now \in Nat
          BY <1>1, <1>2, <1>3, <2>2
        <4>2. req[p].pc # "stamp" => req[p].token.created \in Nat
          BY <1>2, <3>1 DEF Signing
        <4> QED
          BY <4>1, <4>2 DEF Stamp
      <3>5. \A s \in sessions' : s.user = req'[p].id => s.created < Stamp(p)'
        BY <1>2, <1>3, <2>2, <3>1, <3>4 DEF Ahead
      <3> QED
        BY <3>3, <3>5
    <2> QED
      BY <2>1, <2>2
  <1>6. Ahead'
    BY <1>5 DEF Ahead
  <1>7. Leading'
    BY <1>1, <1>2, <1>3 DEF Leading, Base, TypeOK
  <1> QED
    BY <1>4, <1>6, <1>7

(* The session gets its time. *)
LEMMA OrderStamp ==
    ASSUME AccountsAssumption, Base, Base', Order, NEW q \in Requests, NewSession(q)
    PROVE  Order'
  <1> SUFFICES ASSUME ~setBack PROVE Past' /\ Ahead' /\ Leading'
    BY DEF Order, NewSession, history
  <1>1. /\ now \in Nat /\ now' \in Nat /\ now' >= now
        /\ UNCHANGED <<sessions, last, overlap>>
    BY DEF NewSession, history, Base, TypeOK
  <1>2. /\ \A s \in sessions : s.created \in Nat /\ s.created <= now
        /\ \A p \in Requests : req[p].pc = "insert" =>
              req[p].token.created \in Nat /\ req[p].token.created <= now
        /\ Ahead /\ Leading
    BY DEF Order, Past, Base, TypeOK, Sound, Token
  <1>3. /\ req[q].pc = "stamp" /\ req'[q].pc = "insert" /\ req'[q].id = req[q].id
        /\ req'[q].token.created = now
        /\ \A p \in Requests \ {q} : req'[p] = req[p]
    BY DEF NewSession, Base, TypeOK, Request
  <1>4. \A p \in Requests : (Signing(req'[p]) <=> Signing(req[p])) /\ req'[p].id = req[p].id
    BY <1>3 DEF Signing
  <1>5. \A p \in Requests : Signing(req[p]) => Stamp(p)' >= Stamp(p) /\ Stamp(p) \in Nat /\ Stamp(p)' \in Nat
    BY <1>1, <1>2, <1>3 DEF Stamp, Signing
  <1>6. Past'
    BY <1>1, <1>2, <1>3 DEF Past
  <1>7. Ahead'
    BY <1>1, <1>2, <1>4, <1>5 DEF Ahead
  <1>8. Leading'
    BY <1>1, <1>2, <1>4 DEF Leading
  <1> QED
    BY <1>6, <1>7, <1>8

(* The session is written, and last if no other sign-in overlapped. *)
LEMMA OrderInsert ==
    ASSUME AccountsAssumption, Base, Base', Order, NEW q \in Requests, InsertSession(q)
    PROVE  Order'
  <1> SUFFICES ASSUME ~setBack PROVE Past' /\ Ahead' /\ Leading'
    BY DEF Order, InsertSession
  <1> DEFINE token == req[q].token
  <1>1. /\ Signing(req[q]) /\ token \in Token /\ token.user = req[q].id
        /\ token.created \in Nat /\ token.user \in UserIds
    BY DEF InsertSession, Base, Sound, Signing, Token
  <1>2. /\ now \in Nat /\ token.created <= now /\ Stamp(q) = token.created
        /\ \A s \in sessions : s.created \in Nat /\ s.created <= now
        /\ Past /\ Ahead /\ Leading
    BY DEF Order, Past, Base, TypeOK, Token, InsertSession, Stamp
  <1>3. /\ sessions' \in {sessions, sessions \cup {token}}
        /\ overlap' = overlap \ {q} /\ now' = now
        /\ ~ Signing(req'[q]) /\ \A p \in Requests \ {q} : req'[p] = req[p]
    BY DEF InsertSession, Return, Idle, Signing, Base, TypeOK
  <1>4. Past'
    BY <1>2, <1>3 DEF Past, Signing
  <1>5. Ahead'
    <2> SUFFICES ASSUME NEW p \in Requests, Signing(req'[p]), p \notin overlap'
                 PROVE  /\ \A o \in Requests \ {p} : Signing(req'[o]) => req'[o].id # req'[p].id
                        /\ \A s \in sessions' : s.user = req'[p].id => s.created < Stamp(p)'
      BY DEF Ahead
    <2>1. p # q /\ Signing(req[p]) /\ p \notin overlap /\ req'[p] = req[p]
      BY <1>3
    <2>2. Stamp(p)' = Stamp(p)
      BY <1>3, <2>1 DEF Stamp
    <2>3. token.user # req[p].id
      BY <1>1, <1>2, <2>1 DEF Ahead
    <2> QED
      BY <1>2, <1>3, <2>1, <2>2, <2>3 DEF Ahead
  <1>6. last[token.user] = Nothing
    BY <1>1, <1>2 DEF Leading
  <1>7. CASE UNCHANGED last
    <2> SUFFICES ASSUME NEW i \in UserIds, last[i] # Nothing
                 PROVE  /\ last[i] \in sessions' /\ last[i].user = i
                        /\ \A p \in Requests : Signing(req'[p]) => req'[p].id # i
                        /\ \A s \in sessions' \ {last[i]} : s.user = i => s.created < last[i].created
      BY <1>4, <1>5, <1>7 DEF Leading
    <2>1. i # token.user
      BY <1>6
    <2> QED
      BY <1>2, <1>3, <2>1 DEF Leading
  <1>8. CASE /\ sessions' = sessions \cup {token}
             /\ last' = [last EXCEPT ![token.user] = IF q \in overlap THEN Nothing ELSE token]
    <2> SUFFICES ASSUME NEW i \in UserIds, last'[i] # Nothing
                 PROVE  /\ last'[i] \in sessions' /\ last'[i].user = i
                        /\ \A p \in Requests : Signing(req'[p]) => req'[p].id # i
                        /\ \A s \in sessions' \ {last'[i]} : s.user = i => s.created < last'[i].created
      BY <1>4, <1>5 DEF Leading
    <2>1. CASE i = token.user
      <3>1. last'[i] = token /\ q \notin overlap
        BY <1>8, <2>1 DEF Base, TypeOK
      <3> QED
        BY <1>1, <1>2, <1>3, <1>8, <2>1, <3>1 DEF Ahead
    <2>2. CASE i # token.user
      <3>1. last'[i] = last[i]
        BY <1>8, <2>2 DEF Base, TypeOK
      <3> QED
        BY <1>1, <1>2, <1>3, <1>8, <2>2, <3>1 DEF Leading
    <2> QED
      BY <2>1, <2>2
  <1>9. UNCHANGED last \/ (/\ sessions' = sessions \cup {token}
                           /\ last' = [last EXCEPT ![token.user] = IF q \in overlap THEN Nothing ELSE token])
    BY DEF InsertSession
  <1> QED
    BY <1>4, <1>5, <1>7, <1>8, <1>9

LEMMA OrderStep ==
    ASSUME AccountsAssumption, Base, Base', Order, [Next]_vars
    PROVE  Order'
  <1>1. now \in Nat /\ now + 1 >= now /\ req \in [Requests -> Request]
    BY DEF Base, TypeOK
  <1>2. ASSUME UNCHANGED <<sessions, last, setBack, overlap>>, now' \in {now, now + 1},
               NEW q \in Requests, ~ Signing(req'[q]),
               \A p \in Requests \ {q} : req'[p] = req[p]
        PROVE  Order'
    <2>1. now' >= now
      BY <1>1, <1>2
    <2>2. \A p \in Requests : Signing(req'[p]) =>
               req'[p] = req[p] /\ (p \in overlap' <=> p \in overlap)
      BY <1>2
    <2> QED
      BY <1>2, <2>1, <2>2, OrderKept
  <1>3. ASSUME NEW q \in Requests, Arrive(q) PROVE Order'
    <2>1. ASSUME NEW r, Begin(q, r), ~ Signing(r) PROVE Order'
      <3>1. ~ Signing(req'[q]) /\ \A p \in Requests \ {q} : req'[p] = req[p]
        BY <1>1, <2>1 DEF Begin
      <3> QED
        BY <1>2, <2>1, <3>1 DEF Begin, history
    <2>2. ASSUME NEW e \in Emails, NEW p \in Passwords, SignUp(q, e, p) \/ SignIn(q, e, p)
          PROVE  Order'
      BY <2>1, <2>2 DEF SignUp, SignIn, Idle, Signing
    <2>3. ASSUME NEW t \in issued, NEW i \in UserIds, GetUser(q, t, i) PROVE Order'
      BY <2>1, <2>3 DEF GetUser, Idle, Signing
    <2>4. ASSUME NEW t \in issued, NEW i \in UserIds, NEW e \in Emails, NEW p \in Passwords,
                 UpdateUser(q, t, i, e, p)
          PROVE  Order'
      BY <2>1, <2>4 DEF UpdateUser, Signing
    <2> QED
      BY <1>3, <2>2, <2>3, <2>4 DEF Arrive
  <1>4. ASSUME NEW q \in Requests, Step(q) PROVE Order'
    <2> DEFINE Left == ~ Signing(req'[q]) /\ \A p \in Requests \ {q} : req'[p] = req[p]
    <2>0. /\ Return(q) => Left
          /\ \A l \in {"check", "write"} : Goto(q, l) => Left
      BY <1>1 DEF Return, Goto, Idle, Signing, Request
    <2>1. CASE CreateUser(q) \/ WriteUser(q)
      <3>1. Left /\ UNCHANGED <<sessions, last, setBack, overlap, now>>
        BY <2>0, <2>1 DEF CreateUser, WriteUser, history
      <3> QED
        BY <1>2, <3>1
    <2>2. CASE CheckEmail(q)
      <3>1. Left /\ UNCHANGED <<sessions, last, setBack, overlap, now>>
        BY <2>0, <2>2 DEF CheckEmail, history
      <3> QED
        BY <1>2, <3>1
    <2>3. CASE Authentication(q)
      <3>1. Left /\ UNCHANGED <<sessions, last, setBack, overlap, now>>
        BY <2>0, <2>3 DEF Authentication
      <3> QED
        BY <1>2, <3>1
    <2>4. CASE Check(q)
      <3>1. CASE req'[q].pc = "stamp"
        BY <2>4, <3>1, OrderCheck
      <3>2. CASE Return(q) /\ UNCHANGED <<now, last, overlap>>
        BY <1>1, <1>2, <2>4, <3>2 DEF Check, Return, Idle, Signing
      <3> QED
        BY <1>1, <2>4, <3>1, <3>2 DEF Check, Request
    <2> QED
      BY <1>4, <2>1, <2>2, <2>3, <2>4, OrderStamp, OrderInsert DEF Step
  <1>5. CASE Tick
    BY <1>1, <1>5, OrderKept DEF Tick, history
  <1>6. CASE SetBack
    BY <1>6 DEF SetBack, Order
  <1>7. CASE Crash
    <2>1. \A p \in Requests : ~ Signing(req'[p])
      BY <1>7 DEF Crash, Idle, Signing
    <2> QED
      BY <1>1, <1>7, <2>1, OrderKept DEF Crash
  <1>8. CASE UNCHANGED vars
    BY <1>1, <1>8, OrderKept DEF vars, history
  <1> QED
    BY <1>3, <1>4, <1>5, <1>6, <1>7, <1>8 DEF Next

(***************************************************************************)
(* While the clock is not set back, a sign-in that no other of its user    *)
(* overlapped or followed left the user's one valid session.               *)
(***************************************************************************)
THEOREM OneSession == Spec => []SingleSession
  <1>1. Init => Order
    BY DEF Init, Order, Past, Ahead, Leading, Signing, Idle
  <1>2. Base /\ Base' /\ Order /\ [Next]_vars => Order'
    BY OrderStep, AccountsAssumption
  <1>3. ASSUME Base, Order PROVE SingleSession
    <2> SUFFICES ASSUME ~setBack, NEW i \in UserIds, last[i] # Nothing
                 PROVE  Newest(i) = {last[i]}
      BY DEF SingleSession
    <2>1. /\ last[i] \in sessions /\ last[i].user = i
          /\ \A s \in sessions \ {last[i]} : s.user = i => s.created < last[i].created
      BY <1>3 DEF Order, Leading
    <2>2. \A s \in sessions : s.created \in Nat
      BY <1>3 DEF Base, TypeOK, Token
    <2> QED
      BY <2>1, <2>2 DEF Newest
  <1>4. Base /\ Order => SingleSession
    BY <1>3
  <1> QED
    BY <1>1, <1>2, <1>4, SpecBase, PTL DEF Spec
=============================================================================
