------------------------------ MODULE Accounts ------------------------------
(***************************************************************************)
(* Users, sessions and authentication: the handlers SignUp, SignIn,        *)
(* UpdateUser and GetUser, the middleware in front of them                 *)
(* (cmd/auth-api/handlers), and the tables users and sessions              *)
(* (internal/postgres).                                                    *)
(*                                                                         *)
(* A session is a row and a token; the token encodes the row, so both are  *)
(* the same record here.  A user has one valid session, the one with the   *)
(* newest created_at, whatever order sessions are written in.  Hashing a   *)
(* password takes longer than the resolution of the clock.  A client       *)
(* presents only tokens that were answered to somebody.                    *)
(***************************************************************************)
EXTENDS Integers, Sequences

CONSTANTS Requests,   \* requests under way at one time
          Emails,
          Passwords,
          ValidTime,  \* tokenValidTime
          Nothing,    \* no token, no value
          MaxUsers,   \* bound: rows of users
          MaxTime     \* bound: the clock

ASSUME AccountsAssumption ==
    /\ Nothing \notin Emails \cup Passwords
    /\ ValidTime \in Nat /\ MaxUsers \in Nat /\ MaxTime \in Nat

VARIABLES
    users,     \* the users table: users[i] has id i
    sessions,  \* the sessions table
    now,       \* the clock of the server
    req,       \* req[q]: what request q does next, and its locals
    issued,    \* tokens answered to clients
    accepted,  \* history: created_at of the last token accepted for user i
    overlap,   \* history: sign-ins that ran beside another one of the user
    last,      \* history: token of the last sign-in of i if it ran alone
    setBack    \* history: the clock was once set back

history == <<accepted, overlap, last, setBack>>
vars == <<users, sessions, now, req, issued, history>>

UserIds == 1..MaxUsers
User  == [email : Emails, password : Passwords]
Token == [user : UserIds, created : Nat, valid : Nat]
Label == {"idle", "create", "lookup", "stamp", "insert", "auth", "check", "write"}
Request == [pc : Label, update : BOOLEAN, id : Nat, token : Token \cup {Nothing},
            email : Emails \cup {Nothing}, password : Passwords \cup {Nothing}]

Idle == [pc |-> "idle", update |-> FALSE, id |-> 0, token |-> Nothing,
         email |-> Nothing, password |-> Nothing]

Init ==
    /\ users = <<>> /\ sessions = {} /\ now = 1 /\ issued = {}
    /\ req = [q \in Requests |-> Idle]
    /\ accepted = [i \in UserIds |-> 0] /\ overlap = {}
    /\ last = [i \in UserIds |-> Nothing] /\ setBack = FALSE

Goto(q, label) == req' = [req EXCEPT ![q].pc = label]

\* The handler answers and its locals are forgotten.
Return(q) == req' = [req EXCEPT ![q] = Idle]

Begin(q, request) ==
    /\ req[q] = Idle
    /\ req' = [req EXCEPT ![q] = request]
    /\ UNCHANGED <<users, sessions, now, issued, history>>

-----------------------------------------------------------------------------
(* The users table *)

\* users_email_key admits e in the row of i (of nobody, if i is 0).
FreeFor(e, i) == \A j \in DOMAIN users : users[j].email = e => j = i

Row(q) == [email |-> req[q].email, password |-> req[q].password]

-----------------------------------------------------------------------------
(* SignUp *)

SignUp(q, e, p) == Begin(q, [Idle EXCEPT !.pc = "create", !.email = e, !.password = p])

\* The row is inserted, or the index or another error prevents it; an error
\* of the commit itself may be either.
CreateUser(q) ==
    /\ req[q].pc = "create"
    /\ \/ /\ FreeFor(req[q].email, 0) /\ Len(users) < MaxUsers
          /\ users' = Append(users, Row(q))
       \/ UNCHANGED users
    /\ Return(q)
    /\ UNCHANGED <<sessions, now, issued, history>>

-----------------------------------------------------------------------------
(* SignIn *)

SignIn(q, e, p) == Begin(q, [Idle EXCEPT !.pc = "lookup", !.email = e, !.password = p])

\* The other sign-ins of user i whose password was already accepted.
SigningIn(q, i) == {p \in Requests \ {q} : req[p].pc \in {"stamp", "insert"} /\ req[p].id = i}

\* FindByEmail and CheckPasswordHash.
Check(q) ==
    /\ req[q].pc = "lookup"
    /\ \/ /\ now < MaxTime /\ now' = now + 1
          /\ \E i \in DOMAIN users :
               /\ users[i] = Row(q)
               /\ req' = [req EXCEPT ![q].pc = "stamp", ![q].id = i]
               /\ last' = [last EXCEPT ![i] = Nothing]
               /\ overlap' = IF SigningIn(q, i) = {} THEN overlap
                             ELSE overlap \cup SigningIn(q, i) \cup {q}
       \/ Return(q) /\ UNCHANGED <<now, last, overlap>>   \* unknown, wrong, or an error
    /\ UNCHANGED <<users, sessions, issued, accepted, setBack>>

\* NewSession reads the clock twice; it may go on in between.
NewSession(q) ==
    /\ req[q].pc = "stamp"
    /\ \E d \in {0, 1} :
         /\ now + d <= MaxTime
         /\ now' = now + d
         /\ req' = [req EXCEPT ![q].pc = "insert",
                       ![q].token = [user |-> req[q].id, created |-> now,
                                     valid |-> now + d + ValidTime]]
    /\ UNCHANGED <<users, sessions, issued, history>>

\* Sensitivity variant: the error of Create does not end the handler.
InsertSessionUnchecked(q) ==
    /\ req[q].pc = "insert"
    /\ sessions' \in {sessions, sessions \cup {req[q].token}}
    /\ issued' = issued \cup {req[q].token}
    /\ overlap' = overlap \ {q}
    /\ Return(q)
    /\ UNCHANGED <<users, now, accepted, last, setBack>>

\* Create of the session storage.  A session_id already there, or another
\* error, is answered 500; after one of the commit the row may be there.
InsertSession(q) ==
    /\ req[q].pc = "insert"
    /\ LET token == req[q].token IN
         \/ /\ token \notin sessions
            /\ sessions' = sessions \cup {token}
            /\ issued' = issued \cup {token}
            /\ last' = [last EXCEPT ![token.user] = IF q \in overlap THEN Nothing ELSE token]
         \/ sessions' \in {sessions, sessions \cup {token}} /\ UNCHANGED <<issued, last>>
    /\ overlap' = overlap \ {q}
    /\ Return(q)
    /\ UNCHANGED <<users, now, accepted, setBack>>

-----------------------------------------------------------------------------
(* The middleware authentication and authorization *)

\* Sensitivity variant: ORDER BY created_at without DESC.
NewestOldest(i) ==
    {s \in sessions : s.user = i /\ \A t \in sessions : t.user = i => s.created <= t.created}

\* The rows the query of SessionStorage.FindByUserID may list first.
Newest(i) ==
    {s \in sessions : s.user = i /\ \A t \in sessions : t.user = i => t.created <= s.created}

\* Sensitivity variant: any session of the user is good.
EqualUser(s, token) == s.user = token.user

Equal(s, token) == s = token

\* Sensitivity variant: the id in the URL is not compared.
AuthorizedAnyone(q) == TRUE

Authorized(q) == req[q].token.user = req[q].id

\* The token of the request is held against the user's newest session, the
\* clock and the id in the URL.  GetUser only reads then; UpdateUser goes on.
\* Any request may be refused, as the query itself may fail.
Authentication(q) ==
    /\ req[q].pc = "auth"
    /\ LET token == req[q].token IN
         \/ /\ \E s \in Newest(token.user) : Equal(s, token)
            /\ token.created < now /\ now < token.valid
            /\ accepted' = [accepted EXCEPT ![token.user] = token.created]
            /\ IF req[q].update /\ Authorized(q) THEN Goto(q, "check") ELSE Return(q)
         \/ Return(q) /\ UNCHANGED accepted
    /\ UNCHANGED <<users, sessions, now, issued, overlap, last, setBack>>

-----------------------------------------------------------------------------
(* UpdateUser and GetUser: PUT and GET /users/i *)

UpdateUser(q, t, i, e, p) ==
    Begin(q, [pc |-> "auth", update |-> TRUE, id |-> i, token |-> t, email |-> e, password |-> p])

GetUser(q, t, i) == Begin(q, [Idle EXCEPT !.pc = "auth", !.id = i, !.token = t])

\* FindByID and FindByEmail.  An error of the first is answered 404, one of
\* the second is taken for an email nobody has.
CheckEmail(q) ==
    /\ req[q].pc = "check"
    /\ \/ Goto(q, "write")     \* free, or FindByEmail fails
       \/ Return(q)            \* in use by another user, or FindByID fails
    /\ UNCHANGED <<users, sessions, now, issued, history>>

\* Update writes email and password of the body into the user's row; the
\* index decides, whatever the check before said.
WriteUser(q) ==
    /\ req[q].pc = "write"
    /\ \/ /\ FreeFor(req[q].email, req[q].token.user)
          /\ users' = [users EXCEPT ![req[q].token.user] = Row(q)]
       \/ UNCHANGED users
    /\ Return(q)
    /\ UNCHANGED <<sessions, now, issued, history>>

-----------------------------------------------------------------------------
(* The clock and the end of the process *)

Tick ==
    /\ now < MaxTime
    /\ now' = now + 1
    /\ UNCHANGED <<users, sessions, req, issued, history>>

SetBack ==
    /\ ~setBack /\ setBack' = TRUE
    /\ now' \in 1..(now - 1)
    /\ UNCHANGED <<users, sessions, req, issued, accepted, overlap, last>>

Crash ==
    /\ \E q \in Requests : req[q] # Idle
    /\ req' = [q \in Requests |-> Idle]
    /\ overlap' = {}
    /\ UNCHANGED <<users, sessions, now, issued, accepted, last, setBack>>

Arrive(q) ==
    \/ \E e \in Emails, p \in Passwords : SignUp(q, e, p) \/ SignIn(q, e, p)
    \/ \E t \in issued, i \in UserIds :
         \/ GetUser(q, t, i)
         \/ \E e \in Emails, p \in Passwords : UpdateUser(q, t, i, e, p)

Step(q) ==
    \/ CreateUser(q)
    \/ Check(q) \/ NewSession(q) \/ InsertSession(q)
    \/ Authentication(q)
    \/ CheckEmail(q) \/ WriteUser(q)

Next ==
    \/ \E q \in Requests : Arrive(q) \/ Step(q)
    \/ Tick \/ SetBack \/ Crash

Spec == Init /\ [][Next]_vars

-----------------------------------------------------------------------------
(* Properties *)

\* Every variable stays in the set of values the program can give it.
TypeOK ==
    /\ users \in Seq(User) /\ Len(users) <= MaxUsers
    /\ sessions \in SUBSET Token
    /\ \A t \in sessions : t.user \in DOMAIN users
    /\ now \in Nat
    /\ req \in [Requests -> Request]
    /\ issued \in SUBSET sessions
    /\ accepted \in [UserIds -> Nat]
    /\ overlap \in SUBSET Requests
    /\ last \in [UserIds -> Token \cup {Nothing}]
    /\ setBack \in BOOLEAN

(***************************************************************************)
(* A row changes only through a request with a token of that user whose    *)
(* URL names that user: the handler takes the id from the token and the    *)
(* middleware compared the other one, some transactions earlier.           *)
(***************************************************************************)
OnlyOwnRow ==
    [][\A i \in DOMAIN users : users'[i] # users[i] =>
          \E q \in Requests :
              /\ req[q].pc = "write" /\ req[q].id = i
              /\ req[q].token \in issued /\ req[q].token.user = i]_vars

(***************************************************************************)
(* Sessions only move forward: once a token was accepted, no token of the  *)
(* user from an earlier sign-in ever is again, even if its session was     *)
(* written later, and even after the clock was set back.                   *)
(***************************************************************************)
NoOldToken == [][\A i \in UserIds : accepted'[i] >= accepted[i]]_vars

(***************************************************************************)
(* After a sign-in of a user that no other sign-in of that user overlapped *)
(* or followed, its token is the user's one session: it works until it     *)
(* expires and no other does.  Two overlapping sign-ins may leave either   *)
(* client with a token that never works, and so may a clock set back.      *)
(***************************************************************************)
SingleSession ==
    ~setBack => \A i \in UserIds : last[i] # Nothing => Newest(i) = {last[i]}
=============================================================================
