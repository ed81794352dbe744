---------------------------- MODULE AuthSessions ----------------------------
(***************************************************************************)
(* The accounts of the admin panel (auth.users): how API processes create   *)
(* the schemas and the first account when they start, beside each other and *)
(* beside scripts/create_user.py, and how a process answers a login or an   *)
(* authenticated request while accounts are changed under it.               *)
(*                                                                         *)
(* A process is shown with one request at a time; two processes show what   *)
(* two requests do to each other.  Whether a password fits is an input, so   *)
(* hashes are left out; a token is what its payload says.                   *)
(***************************************************************************)
EXTENDS Integers, FiniteSets

CONSTANTS
    Servers,    \* API processes
    Names,      \* user names, alike up to case (idx_users_username_lower)
    Admin,      \* ADMIN_USERNAME
    Expiry,     \* TOKEN_EXPIRE_HOURS
    Window,     \* ONLINE_WINDOW_MINUTES
    Throttle,   \* _TOUCH_THROTTLE_SECONDS
    MaxIds,     \* bound: accounts ever created
    MaxTime     \* bound: the clock, which starts at 1

ASSUME AuthAssumption ==
    /\ Admin \in Names
    /\ {Expiry, Window, Throttle, MaxIds, MaxTime} \subseteq Nat \ {0}
    /\ Throttle < Window

VARIABLES
    now,
    made,     \* schemas that exist
    users,    \* auth.users
    lastId,   \* its identity column
    server,   \* each process: where its lifespan is
    call,     \* the request it works on
    cli,      \* create_user
    token,    \* the token the browser keeps
    served,   \* history: when the account of a name was served last
    entitled  \* history: was the token of a call good at a moment since it came

system == <<now, made, users, lastId, server, call, cli, token, served>>
vars == <<system, entitled>>

Schemas == {"auth", "visits"}

-----------------------------------------------------------------------------
(* The rows.                                                               *)

NoUser == [id |-> 0, active |-> FALSE, seen |-> 0]
Exists(n) == users[n].id # 0

\* INSERT of an account; the caller makes sure that the name is free.
Create(n) ==
    /\ ~Exists(n)
    /\ lastId < MaxIds
    /\ lastId' = lastId + 1
    /\ users' = [users EXCEPT ![n] =
                   [id |-> lastId + 1, active |-> TRUE, seen |-> 0]]
    /\ served' = [served EXCEPT ![n] = 0]

\* Slip: the comparison of the throttle turned round.
Touched_Reversed(u) ==
    IF u.seen = 0 \/ u.seen > now - Throttle THEN [u EXCEPT !.seen = now] ELSE u

\* The activity mark is not written more often than once per Throttle.
Touched(u) ==
    IF u.seen = 0 \/ u.seen < now - Throttle THEN [u EXCEPT !.seen = now] ELSE u

\* is_online of the list of accounts and of their count.
Online(n) == users[n].seen # 0 /\ users[n].seen > now - Window

\* The names of the accounts with an id: at most one.
Named(id) == {n \in Names : Exists(n) /\ users[n].id = id}

-----------------------------------------------------------------------------
(* Starting a process: lifespan(), up to its yield.                        *)

NoCall == [pc |-> "none", name |-> Admin, id |-> 0, active |-> FALSE]

To(s, pc) == server' = [server EXCEPT ![s] = [pc |-> pc, saw |-> FALSE]]

\* initialize(), then CREATE SCHEMA / TABLE / INDEX IF NOT EXISTS looks at the
\* catalogue; restart: always starts a process that has ended again.
Boot(s) ==
    /\ server[s].pc = "down"
    /\ server' = [server EXCEPT ![s] = [pc |-> "auth", saw |-> "auth" \in made]]
    /\ UNCHANGED <<now, made, users, lastId, call, cli, token, served>>

\* Two that found nothing create the same: the second one may fail at the
\* unique keys of the catalogue.
Ddl(s, x, after) ==
    /\ server[s].pc = x
    /\ \/ made' = made \cup {x} /\ after
       \/ ~server[s].saw /\ x \in made /\ To(s, "down") /\ UNCHANGED made
    /\ UNCHANGED <<now, users, lastId, call, cli, token, served>>

EnsureAuth(s) == Ddl(s, "auth", To(s, "exists"))
EnsureVisits(s) == Ddl(s, "visits", To(s, "serve"))

\* Where a process goes when the account is there.
Ready(s) == server' = [server EXCEPT ![s] = [pc |-> "visits", saw |-> "visits" \in made]]

\* Slip: the account is inserted without asking.
SeedExists_Blind(s) ==
    /\ server[s].pc = "exists"
    /\ To(s, "insert")
    /\ UNCHANGED <<now, made, users, lastId, call, cli, token, served>>

\* seed_admin(): is there an account of that name?
SeedExists(s) ==
    /\ server[s].pc = "exists"
    /\ IF Exists(Admin) THEN Ready(s) ELSE To(s, "insert")
    /\ UNCHANGED <<now, made, users, lastId, call, cli, token, served>>

\* The password is hashed, and the account inserted.  If another process was
\* faster, the unique index ends this one.
SeedInsert(s) ==
    /\ server[s].pc = "insert"
    /\ \/ Create(Admin) /\ Ready(s)
       \/ Exists(Admin) /\ To(s, "down") /\ UNCHANGED <<users, lastId, served>>
    /\ UNCHANGED <<now, made, call, cli, token>>

\* A process that serves is stopped; what it was working on is gone.
Stop(s) ==
    /\ server[s].pc = "serve"
    /\ To(s, "down")
    /\ call' = [call EXCEPT ![s] = NoCall]
    /\ UNCHANGED <<now, made, users, lastId, cli, token, served>>

-----------------------------------------------------------------------------
(* POST /login.                                                            *)

Free(s) == server[s].pc = "serve" /\ call[s].pc \in {"none", "ok"}

\* 401.
Refuse(s) == call' = [call EXCEPT ![s] = NoCall]

\* The row is read, or there is none.
Login(s, n) ==
    /\ Free(s)
    /\ call' = [call EXCEPT ![s] =
                  [NoCall EXCEPT !.pc = "verify", !.name = n,
                                 !.id = users[n].id, !.active = users[n].active]]
    /\ UNCHANGED <<now, made, users, lastId, server, cli, token, served>>

\* create_token().
Issued(c) == [name |-> c.name, id |-> c.id, exp |-> now + Expiry]

\* The password is hashed and compared in any case; if it fits, the row that
\* was read decides.  The browser keeps the token, or the one it had.
Verify(s) ==
    LET c == call[s] IN
    /\ c.pc = "verify"
    /\ \/ /\ c.active
          /\ token' = Issued(c)
       \/ UNCHANGED token
    /\ call' = [call EXCEPT ![s] = NoCall]
    /\ UNCHANGED <<now, made, users, lastId, server, cli, served>>

-----------------------------------------------------------------------------
(* get_current_user() of every request to the panel.                       *)

\* The signature and the time of the token are checked.
Request(s) ==
    /\ Free(s)
    /\ IF now < token.exp
       THEN call' = [call EXCEPT ![s] =
                       [NoCall EXCEPT !.pc = IF token.id = 0 THEN "byName" ELSE "byId",
                                      !.name = token.name, !.id = token.id]]
       ELSE Refuse(s)
    /\ UNCHANGED <<now, made, users, lastId, server, cli, token, served>>

Grant(s) == call' = [call EXCEPT ![s] = [NoCall EXCEPT !.pc = "ok"]]

\* The request is let in for the account of n.
Serve(s, n) ==
    /\ users' = [users EXCEPT ![n] = Touched(@)]
    /\ served' = [served EXCEPT ![n] = now]
    /\ Grant(s)

\* Slip: only a deleted account is refused.
ById_DeletedOnly(s) ==
    /\ call[s].pc = "byId"
    /\ \/ \E n \in Named(call[s].id) : Serve(s, n)
       \/ /\ Named(call[s].id) = {}
          /\ Refuse(s)
          /\ UNCHANGED <<users, served>>
    /\ UNCHANGED <<now, made, lastId, server, cli, token>>

\* touch_and_get_active(): one statement marks the activity, of an inactive
\* account too, and tells whether the account is there and active.
ById(s) ==
    LET N == Named(call[s].id) IN
    /\ call[s].pc = "byId"
    /\ \/ \E n \in N : users[n].active /\ Serve(s, n)
       \/ /\ \A n \in N : ~users[n].active
          /\ users' = [n \in Names |-> IF n \in N THEN Touched(users[n]) ELSE users[n]]
          /\ Refuse(s)
          /\ UNCHANGED served
    /\ UNCHANGED <<now, made, lastId, server, cli, token>>

\* An old token: the account is looked up by the name first ...
ByName(s) ==
    LET n == call[s].name IN
    /\ call[s].pc = "byName"
    /\ IF users[n].active
       THEN call' = [call EXCEPT ![s].pc = "touch", ![s].id = users[n].id]
       ELSE Refuse(s)
    /\ UNCHANGED <<now, made, users, lastId, server, cli, token, served>>

\* ... and touch_last_seen() marks it afterwards, if it is still there.
Touch(s) ==
    LET N == Named(call[s].id) IN
    /\ call[s].pc = "touch"
    /\ \/ \E n \in N : Serve(s, n)
       \/ N = {} /\ Grant(s) /\ UNCHANGED <<users, served>>
    /\ UNCHANGED <<now, made, lastId, server, cli, token>>

-----------------------------------------------------------------------------
(* create_user, and the operator.                                          *)

NoCli == [pc |-> "none", name |-> Admin]

\* Does the account exist?  If it does the script ends, or with --update goes
\* on to its password, which changes nothing here.
CliStart(n) ==
    /\ cli.pc = "none"
    /\ "auth" \in made
    /\ ~Exists(n)
    /\ cli' = [pc |-> "insert", name |-> n]
    /\ UNCHANGED <<now, made, users, lastId, server, call, token, served>>

\* The INSERT: a name that was taken meanwhile ends the script.
CliInsert ==
    /\ cli.pc = "insert"
    /\ cli' = NoCli
    /\ \/ Create(cli.name)
       \/ Exists(cli.name) /\ UNCHANGED <<users, lastId, served>>
    /\ UNCHANGED <<now, made, server, call, token>>

\* The operator sets is_active in the table.
Activate(n) ==
    /\ Exists(n)
    /\ ~users[n].active
    /\ users' = [users EXCEPT ![n].active = TRUE]
    /\ UNCHANGED <<now, made, lastId, server, call, cli, token, served>>

Deactivate(n) ==
    /\ Exists(n)
    /\ users[n].active
    /\ users' = [users EXCEPT ![n].active = FALSE]
    /\ UNCHANGED <<now, made, lastId, server, call, cli, token, served>>

\* The row is deleted, as long as ids are left for the names without one.
Delete(n) ==
    /\ Exists(n)
    /\ lastId + Cardinality({m \in Names : ~Exists(m)}) < MaxIds
    /\ users' = [users EXCEPT ![n] = NoUser]
    /\ served' = [served EXCEPT ![n] = 0]
    /\ UNCHANGED <<now, made, lastId, server, call, cli, token>>

Tick ==
    /\ now < MaxTime
    /\ now' = now + 1
    /\ UNCHANGED <<made, users, lastId, server, call, cli, token, served>>

-----------------------------------------------------------------------------
\* A new database, or one that was filled before the schemas were introduced;
\* the browser has a token of before the uid claim, or an old one.
Init ==
    /\ now = 1
    /\ made \in {{}, Schemas}
    /\ users = [n \in Names |-> NoUser]
    /\ lastId = 0
    /\ server = [s \in Servers |-> [pc |-> "down", saw |-> FALSE]]
    /\ call = [s \in Servers |-> NoCall]
    /\ cli = NoCli
    /\ token \in [name : {Admin}, id : {0}, exp : {1, 1 + Expiry}]
    /\ served = [n \in Names |-> 0]
    /\ entitled = [s \in Servers |-> FALSE]

\* Is the token of the call good now?  One of before the uid claim has id 0 and
\* is good for the account of its name.
Good(s) ==
    \E n \in Names :
        /\ Exists(n)
        /\ users[n].active
        /\ IF call[s].id = 0 THEN n = call[s].name
                             ELSE users[n].id = call[s].id

Asked(s) == call[s].pc \in {"byId", "byName", "touch"}

Note ==
    entitled' = [s \in Servers |->
        \/ Asked(s)' /\ Good(s)'
        \/ entitled[s] /\ (Asked(s) \/ UNCHANGED call[s])]

Start(s) == Boot(s) \/ EnsureAuth(s) \/ SeedExists(s) \/ SeedInsert(s) \/ EnsureVisits(s)

Answer(s) ==
    \/ Verify(s)
    \/ ById(s)
    \/ ByName(s)
    \/ Touch(s)

Step ==
    \/ \E s \in Servers :
         \/ Start(s)
         \/ Stop(s)
         \/ \E n \in Names : Login(s, n)
         \/ Request(s)
         \/ Answer(s)
    \/ CliInsert
    \/ \E n \in Names : CliStart(n) \/ Activate(n) \/ Deactivate(n) \/ Delete(n)
    \/ Tick

Next == Step /\ Note

Spec == Init /\ [][Next]_vars

\* The container starts a process again that has ended, and a process goes on
\* with its lifespan.
Fairness == \A s \in Servers : WF_vars(Start(s) /\ Note)

FairSpec == Spec /\ Fairness

-----------------------------------------------------------------------------
(* Properties.                                                             *)

Accounts == [id : Nat, active : BOOLEAN, seen : Nat]
Places == {"down", "auth", "exists", "insert", "visits", "serve"}
Calls == [pc : {"none", "verify", "byId", "byName", "touch", "ok"},
          name : Names, id : Nat, active : BOOLEAN]

\* The shape of the state.
TypeOK ==
    /\ now \in 1 .. MaxTime
    /\ made \subseteq Schemas
    /\ users \in [Names -> Accounts]
    /\ lastId \in 0 .. MaxIds
    /\ server \in [Servers -> [pc : Places, saw : BOOLEAN]]
    /\ call \in [Servers -> Calls]
    /\ cli \in [pc : {"none", "insert"}, name : Names]
    /\ token \in [name : Names, id : Nat, exp : Nat]
    /\ served \in [Names -> Nat]
    /\ entitled \in [Servers -> BOOLEAN]

\* Deactivation and deletion end a token at once: a request is served only if
\* at some moment since it came the account of its token was there and active,
\* although logins and old tokens are decided by a row that was read earlier.
\* A token with a uid never becomes one of a later account of the same name.
RevokedAtOnce ==
    \A s \in Servers : call[s].pc = "ok" => entitled[s]

\* The throttle does not make active people disappear: whoever was served less
\* than the window without the throttle ago is shown online.
PresenceIsTight ==
    \A n \in Names :
        Exists(n) /\ served[n] # 0 /\ now - served[n] < Window - Throttle => Online(n)

\* Every process comes to serve, though others create the same schemas and the
\* same account at the same time, and the operator deletes it in between.
ProcessesServe == \A s \in Servers : server[s].pc = "down" ~> server[s].pc = "serve"
=============================================================================
