------------------------ MODULE AuthSessions_proofs ------------------------
(***************************************************************************)
(* Proofs about AuthSessions, for any processes, names, expiry, window and  *)
(* throttle, and any number of accounts.                                    *)
(***************************************************************************)
EXTENDS AuthSessions, TLAPS

\* An active account exists.
ActiveExists == \A n \in Names : users[n].active => Exists(n)

\* A call by name has a token without an id, a call by id one with an id.
IdsAreAsked ==
    \A s \in Servers : /\ call[s].pc = "byName" => call[s].id = 0
                       /\ call[s].pc = "byId" => call[s].id # 0

\* A moment at which the token is good is never forgotten while the call is
\* undecided, and every call that is let in had one.
GoodIsNoted == \A s \in Servers : Asked(s) /\ Good(s) => entitled[s]
LetInIsEntitled == \A s \in Servers : call[s].pc \in {"touch", "ok"} => entitled[s]

\* The mark of an account is at most Throttle behind its last request.
MarkIsClose ==
    \A n \in Names : served[n] # 0 => users[n].seen # 0
                                      /\ users[n].seen >= served[n] - Throttle

IndInv ==
    /\ TypeOK
    /\ ActiveExists
    /\ IdsAreAsked
    /\ GoodIsNoted
    /\ LetInIsEntitled
    /\ MarkIsClose

-----------------------------------------------------------------------------
(* The rows.                                                               *)

\* What the assumption says of the durations and bounds.
LEMMA Numbers ==
    /\ Admin \in Names
    /\ Expiry \in Nat /\ Window \in Nat /\ Throttle \in Nat /\ MaxIds \in Nat
    /\ MaxTime \in Nat /\ MaxTime >= 1
  BY AuthAssumption

\* A touched account is the same account, its mark at most Throttle old.
LEMMA TouchedHolds ==
    ASSUME TypeOK, NEW u \in Accounts
    PROVE  /\ Touched(u) \in Accounts
           /\ Touched(u).id = u.id
           /\ Touched(u).active = u.active
           /\ Touched(u).seen # 0
           /\ Touched(u).seen >= now - Throttle
           /\ u.seen # 0 => Touched(u).seen >= u.seen
  BY Numbers DEF TypeOK, Touched, Accounts

\* What a step may do to the accounts: leave them, create, delete or switch
\* one, or mark some of them and count one as served.
RowsMove ==
    /\ lastId' \in 0 .. MaxIds
    /\ users' \in [Names -> Accounts]
    /\ served' \in [Names -> Nat]
    /\ \A n \in Names :
        /\ users'[n].active => users'[n].id # 0
        /\ served'[n] # 0 => users'[n].seen # 0
                             /\ users'[n].seen >= served'[n] - Throttle

\* A step that leaves auth.users alone.
LEMMA SameRows ==
    ASSUME IndInv, UNCHANGED <<users, lastId, served>>
    PROVE  RowsMove
  BY DEF IndInv, TypeOK, ActiveExists, MarkIsClose, RowsMove, Exists

\* A new account is active, unmarked and not served yet.
LEMMA CreateMoves ==
    ASSUME IndInv, NEW n \in Names, Create(n)
    PROVE  RowsMove
  BY Numbers DEF IndInv, TypeOK, ActiveExists, MarkIsClose, RowsMove, Exists,
                 Create, Accounts

\* The account that is served is marked in the same step.
LEMMA ServeMoves ==
    ASSUME IndInv, NEW s \in Servers, NEW n \in Names, Serve(s, n), UNCHANGED lastId
    PROVE  RowsMove
  <1>1. users[n] \in Accounts
    BY DEF IndInv, TypeOK
  <1>2. users' = [users EXCEPT ![n] = Touched(users[n])]
    BY DEF Serve
  <1> QED
    BY <1>1, <1>2, TouchedHolds, Numbers
    DEF IndInv, TypeOK, ActiveExists, MarkIsClose, RowsMove, Exists, Serve, Accounts

\* The operator switches an account that exists.
LEMMA SwitchMoves ==
    ASSUME IndInv, NEW n \in Names, Activate(n) \/ Deactivate(n)
    PROVE  RowsMove
  <1>1. PICK a \in BOOLEAN : users' = [users EXCEPT ![n].active = a]
    BY DEF Activate, Deactivate
  <1>2. Exists(n) /\ UNCHANGED <<lastId, served>>
    BY DEF Activate, Deactivate
  <1> QED
    BY <1>1, <1>2, Numbers
    DEF IndInv, TypeOK, ActiveExists, MarkIsClose, RowsMove, Exists, Accounts

\* A deleted account is neither active nor served.
LEMMA DeleteMoves ==
    ASSUME IndInv, NEW n \in Names, Delete(n)
    PROVE  RowsMove
  BY Numbers DEF IndInv, TypeOK, ActiveExists, MarkIsClose, RowsMove, Exists,
                 Delete, NoUser, Accounts

\* A refused call of an id marks the account all the same.
LEMMA MarkMoves ==
    ASSUME IndInv, NEW N \in SUBSET Names,
           users' = [n \in Names |-> IF n \in N THEN Touched(users[n]) ELSE users[n]],
           UNCHANGED <<lastId, served>>
    PROVE  RowsMove
  <1>1. \A n \in Names : users[n] \in Accounts
    BY DEF IndInv, TypeOK
  <1>2. \A n \in Names :
           /\ users'[n] \in Accounts
           /\ users'[n].id = users[n].id
           /\ users'[n].active = users[n].active
           /\ users[n].seen # 0 => users'[n].seen # 0 /\ users'[n].seen >= users[n].seen
    BY <1>1, TouchedHolds, Numbers DEF IndInv, Accounts
  <1>3. users' \in [Names -> Accounts]
    BY <1>2
  <1> QED
    BY <1>1, <1>2, <1>3, Numbers
    DEF IndInv, TypeOK, ActiveExists, MarkIsClose, RowsMove, Exists, Accounts

-----------------------------------------------------------------------------
(* The calls.                                                              *)

\* What a step may do to a call: leave it, begin or end it, or decide it at a
\* moment the token is good.
CallMoves(s) ==
    /\ call'[s] \in Calls
    /\ call'[s].pc = "byName" => call'[s].id = 0
    /\ call'[s].pc = "byId" => call'[s].id # 0
    /\ call'[s].pc \in {"touch", "ok"} =>
          \/ call'[s] = call[s]
          \/ call[s].pc = "touch"
          \/ Asked(s) /\ Good(s)

CallsMove ==
    /\ call' = [s \in Servers |-> call'[s]]
    /\ \A s \in Servers : CallMoves(s)

\* A step that leaves the requests alone.
LEMMA SameCalls ==
    ASSUME IndInv, UNCHANGED call
    PROVE  CallsMove
  BY DEF IndInv, TypeOK, IdsAreAsked, CallsMove, CallMoves

\* One call moves: the others stay as they are.
LEMMA OneCallMoves ==
    ASSUME IndInv, NEW s \in Servers, NEW c, call' = [call EXCEPT ![s] = c],
           c \in Calls,
           c.pc = "byName" => c.id = 0,
           c.pc = "byId" => c.id # 0,
           c.pc \in {"touch", "ok"} => call[s].pc = "touch" \/ (Asked(s) /\ Good(s))
    PROVE  CallsMove
  <1>1. CallMoves(s)
    BY DEF IndInv, TypeOK, CallMoves
  <1>2. ASSUME NEW t \in Servers, t # s PROVE CallMoves(t)
    BY <1>2 DEF IndInv, TypeOK, IdsAreAsked, CallMoves
  <1>3. call' = [t \in Servers |-> call'[t]]
    BY DEF IndInv, TypeOK
  <1> QED
    BY <1>1, <1>2, <1>3 DEF CallsMove

\* A refused request claims nothing.
LEMMA RefuseMoves ==
    ASSUME IndInv, NEW s \in Servers, Refuse(s)
    PROVE  CallsMove
  <1> DEFINE c == NoCall
  <1>1. c \in Calls /\ c.pc = "none"
    BY Numbers DEF NoCall, Calls
  <1>2. call' = [call EXCEPT ![s] = c]
    BY DEF Refuse
  <1> HIDE DEF c
  <1> QED
    BY <1>1, <1>2, OneCallMoves

\* A request is let in by a token that is good now, or was when it was checked.
LEMMA GrantMoves ==
    ASSUME IndInv, NEW s \in Servers, Grant(s),
           call[s].pc = "touch" \/ (Asked(s) /\ Good(s))
    PROVE  CallsMove
  <1> DEFINE c == [NoCall EXCEPT !.pc = "ok"]
  <1>1. c \in Calls /\ c.pc = "ok"
    BY Numbers DEF NoCall, Calls
  <1>2. call' = [call EXCEPT ![s] = c]
    BY DEF Grant
  <1> HIDE DEF c
  <1> QED
    BY <1>1, <1>2, OneCallMoves

\* touch_and_get_active() lets in whom the row shows active at that moment.
LEMMA ByIdMoves ==
    ASSUME IndInv, NEW s \in Servers, ById(s)
    PROVE  RowsMove /\ CallsMove
  <1> DEFINE N == Named(call[s].id)
  <1>1. N \subseteq Names
    BY DEF Named
  <1>2. CASE \E n \in N : users[n].active /\ Serve(s, n)
    <2>1. PICK n \in N : users[n].active /\ Serve(s, n)
      BY <1>2
    <2>2. n \in Names /\ Exists(n) /\ users[n].id = call[s].id
      BY DEF Named
    <2>3. Asked(s) /\ Good(s)
      BY <2>1, <2>2 DEF ById, Asked, Good, Exists
    <2>4. UNCHANGED lastId /\ Grant(s)
      BY <2>1 DEF ById, Serve
    <2> QED
      BY <2>1, <2>2, <2>3, <2>4, ServeMoves, GrantMoves
  <1>3. CASE /\ users' = [n \in Names |-> IF n \in N THEN Touched(users[n]) ELSE users[n]]
             /\ Refuse(s)
             /\ UNCHANGED served
    <2>1. RowsMove
      <3> HIDE DEF N
      <3> QED BY <1>1, <1>3, MarkMoves DEF ById
    <2> QED
      BY <1>3, <2>1, RefuseMoves
  <1> QED
    BY <1>2, <1>3 DEF ById

\* The look-up by name decides, and the mark that follows only writes.
LEMMA ByNameMoves ==
    ASSUME IndInv, NEW s \in Servers, ByName(s)
    PROVE  RowsMove /\ CallsMove
  <1>0. RowsMove
    BY SameRows DEF ByName
  <1>1. call[s] \in Calls /\ call[s].name \in Names
    BY DEF IndInv, TypeOK, Calls
  <1>2. CASE users[call[s].name].active
    <2> DEFINE c == [call[s] EXCEPT !.pc = "touch", !.id = users[call[s].name].id]
    <2>1. call' = [call EXCEPT ![s] = c]
      BY <1>2, <1>1 DEF ByName, IndInv, TypeOK
    <2>2. c \in Calls /\ c.pc = "touch"
      BY <1>1 DEF IndInv, TypeOK, Calls, Accounts
    <2>3. Asked(s) /\ Good(s)
      BY <1>1, <1>2 DEF ByName, Asked, Good, IndInv, ActiveExists, IdsAreAsked
    <2> HIDE DEF c
    <2> QED
      BY <1>0, <2>1, <2>2, <2>3, OneCallMoves
  <1>3. CASE ~users[call[s].name].active
    BY <1>0, <1>3, RefuseMoves DEF ByName
  <1> QED
    BY <1>2, <1>3

\* The second half of an old token: it was entitled at the first.
LEMMA TouchMoves ==
    ASSUME IndInv, NEW s \in Servers, Touch(s)
    PROVE  RowsMove /\ CallsMove
  <1>0. call[s].pc = "touch" /\ UNCHANGED lastId
    BY DEF Touch
  <1>1. CASE \E n \in Named(call[s].id) : Serve(s, n)
    <2>1. PICK n \in Named(call[s].id) : Serve(s, n)
      BY <1>1
    <2>2. n \in Names /\ Grant(s) /\ UNCHANGED lastId
      BY <1>0, <2>1 DEF Named, Serve
    <2>3. RowsMove
      BY <1>0, <2>1, <2>2, ServeMoves
    <2>4. CallsMove
      BY <1>0, <2>2, GrantMoves
    <2> QED
      BY <2>3, <2>4
  <1>2. CASE Grant(s) /\ UNCHANGED <<users, served>>
    <2>1. RowsMove
      BY <1>0, <1>2, SameRows
    <2>2. CallsMove
      BY <1>0, <1>2, GrantMoves
    <2> QED
      BY <2>1, <2>2
  <1> QED
    BY <1>1, <1>2 DEF Touch

\* A login asks for no account.
LEMMA LoginMoves ==
    ASSUME IndInv, NEW s \in Servers, NEW n \in Names, Login(s, n)
    PROVE  RowsMove /\ CallsMove
  <1> DEFINE c == [NoCall EXCEPT !.pc = "verify", !.name = n,
                                 !.id = users[n].id, !.active = users[n].active]
  <1>1. call' = [call EXCEPT ![s] = c]
    BY DEF Login
  <1>2. c \in Calls /\ c.pc = "verify"
    BY Numbers DEF IndInv, TypeOK, Calls, Accounts, NoCall
  <1>3. RowsMove
    BY SameRows DEF Login
  <1> HIDE DEF c
  <1> QED
    BY <1>1, <1>2, <1>3, OneCallMoves

\* A request begins with the id or the name of its token.
LEMMA RequestMoves ==
    ASSUME IndInv, NEW s \in Servers, Request(s)
    PROVE  RowsMove /\ CallsMove
  <1>0. RowsMove
    BY SameRows DEF Request
  <1>1. CASE now < token.exp
    <2> DEFINE c == [NoCall EXCEPT !.pc = IF token.id = 0 THEN "byName" ELSE "byId",
                                   !.name = token.name, !.id = token.id]
    <2>1. call' = [call EXCEPT ![s] = c]
      BY <1>1 DEF Request
    <2>2. /\ c \in Calls
          /\ c.pc = IF token.id = 0 THEN "byName" ELSE "byId"
          /\ c.id = token.id
      BY Numbers DEF IndInv, TypeOK, Calls, NoCall
    <2> HIDE DEF c
    <2> QED
      BY <1>0, <2>1, <2>2, OneCallMoves
  <1>2. CASE ~(now < token.exp)
    BY <1>0, <1>2, RefuseMoves DEF Request
  <1> QED
    BY <1>1, <1>2

-----------------------------------------------------------------------------
(* The other variables.                                                    *)

OthersMove ==
    /\ now' \in 1 .. MaxTime
    /\ made' \subseteq Schemas
    /\ server' \in [Servers -> [pc : Places, saw : BOOLEAN]]
    /\ cli' \in [pc : {"none", "insert"}, name : Names]
    /\ token' \in [name : Names, id : Nat, exp : Nat]

\* A step that leaves the clock, the processes, the script and the browser alone.
LEMMA SameOthers ==
    ASSUME IndInv, UNCHANGED <<now, made, server, cli, token>>
    PROVE  OthersMove
  BY DEF IndInv, TypeOK, OthersMove

\* The browser may get a token.
LEMMA VerifyMoves ==
    ASSUME IndInv, NEW s \in Servers, Verify(s)
    PROVE  OthersMove /\ RowsMove /\ CallsMove
  <1>1. token' \in [name : Names, id : Nat, exp : Nat]
    BY Numbers DEF IndInv, TypeOK, Verify, Issued, Calls
  <1> QED
    BY <1>1, SameRows, RefuseMoves DEF Verify, Refuse, OthersMove, IndInv, TypeOK

\* The lifespan of a process.
LEMMA StartMoves ==
    ASSUME IndInv, NEW s \in Servers, Start(s)
    PROVE  OthersMove /\ RowsMove /\ CallsMove
  <1>a. /\ server \in [Servers -> [pc : Places, saw : BOOLEAN]]
        /\ made \subseteq Schemas
    BY DEF IndInv, TypeOK
  <1>b. /\ "auth" \in Schemas
        /\ "visits" \in Schemas
        /\ Places = {"down", "auth", "exists", "insert", "visits", "serve"}
    BY DEF Schemas, Places
  <1>c. ASSUME NEW at \in Places, NEW sees \in BOOLEAN,
               server' = [server EXCEPT ![s] = [pc |-> at, saw |-> sees]]
        PROVE  server' \in [Servers -> [pc : Places, saw : BOOLEAN]]
    BY <1>a, <1>c
  <1>d. ASSUME server' \in [Servers -> [pc : Places, saw : BOOLEAN]],
               made' \subseteq Schemas, UNCHANGED <<now, cli, token>>
        PROVE  OthersMove
    BY <1>d DEF IndInv, TypeOK, OthersMove
  <1>e. ("auth" \in made) \in BOOLEAN /\ ("visits" \in made) \in BOOLEAN
    OBVIOUS
  <1>f. ASSUME Ready(s)
        PROVE  server' \in [Servers -> [pc : Places, saw : BOOLEAN]]
    BY <1>b, <1>c, <1>e, <1>f DEF Ready
  <1>g. ASSUME NEW at \in Places, To(s, at)
        PROVE  server' \in [Servers -> [pc : Places, saw : BOOLEAN]]
    BY <1>c, <1>g DEF To
  <1>1. CASE Boot(s)
    <2>1. OthersMove
      BY <1>1, <1>a, <1>b, <1>c, <1>d, <1>e DEF Boot
    <2> QED BY <1>1, <2>1, SameRows, SameCalls DEF Boot
  <1>2. CASE EnsureAuth(s)
    <2>1. OthersMove
      BY <1>2, <1>a, <1>b, <1>d, <1>g DEF EnsureAuth, Ddl
    <2> QED BY <1>2, <2>1, SameRows, SameCalls DEF EnsureAuth, Ddl
  <1>3. CASE EnsureVisits(s)
    <2>1. OthersMove
      BY <1>3, <1>a, <1>b, <1>d, <1>g DEF EnsureVisits, Ddl
    <2> QED BY <1>3, <2>1, SameRows, SameCalls DEF EnsureVisits, Ddl
  <1>4. CASE SeedExists(s)
    <2>1. OthersMove
      BY <1>4, <1>a, <1>b, <1>d, <1>f, <1>g DEF SeedExists
    <2> QED BY <1>4, <2>1, SameRows, SameCalls DEF SeedExists
  <1>5. CASE SeedInsert(s)
    <2>1. OthersMove
      BY <1>5, <1>a, <1>b, <1>d, <1>f, <1>g DEF SeedInsert
    <2>2. RowsMove
      BY <1>5, SameRows, CreateMoves, Numbers DEF SeedInsert
    <2> QED BY <1>5, <2>1, <2>2, SameCalls DEF SeedInsert
  <1> QED
    BY <1>1, <1>2, <1>3, <1>4, <1>5 DEF Start

\* The request of a stopped process is gone.
LEMMA StopMoves ==
    ASSUME IndInv, NEW s \in Servers, Stop(s)
    PROVE  OthersMove /\ RowsMove /\ CallsMove
  <1>1. OthersMove
    BY DEF OthersMove, IndInv, TypeOK, Places, Stop, To
  <1> QED
    BY <1>1, SameRows, RefuseMoves DEF Stop, Refuse

\* The script creates an account or ends at the unique index.
LEMMA CliInsertMoves ==
    ASSUME IndInv, CliInsert
    PROVE  OthersMove /\ RowsMove /\ CallsMove
  <1>1. OthersMove
    BY Numbers DEF OthersMove, IndInv, TypeOK, CliInsert, NoCli
  <1>2. RowsMove
    <2>1. cli.name \in Names
      BY DEF IndInv, TypeOK
    <2> QED
      BY <2>1, SameRows, CreateMoves DEF CliInsert
  <1> QED
    BY <1>1, <1>2, SameCalls DEF CliInsert

\* The script begins, or the operator changes a row.
LEMMA OperatorMoves ==
    ASSUME IndInv, NEW n \in Names,
           CliStart(n) \/ Activate(n) \/ Deactivate(n) \/ Delete(n)
    PROVE  OthersMove /\ RowsMove /\ CallsMove
  <1>1. CASE CliStart(n)
    <2>1. OthersMove
      BY <1>1 DEF OthersMove, IndInv, TypeOK, CliStart
    <2> QED BY <1>1, <2>1, SameRows, SameCalls DEF CliStart
  <1>2. CASE Activate(n)
    BY <1>2, SameOthers, SwitchMoves, SameCalls DEF Activate
  <1>3. CASE Deactivate(n)
    BY <1>3, SameOthers, SwitchMoves, SameCalls DEF Deactivate
  <1>4. CASE Delete(n)
    BY <1>4, SameOthers, DeleteMoves, SameCalls DEF Delete
  <1> QED
    BY <1>1, <1>2, <1>3, <1>4

\* Time passes: marks stay as close to what was served as they were.
LEMMA TickMoves ==
    ASSUME IndInv, Tick
    PROVE  OthersMove /\ RowsMove /\ CallsMove
  <1>1. OthersMove
    BY Numbers DEF OthersMove, IndInv, TypeOK, Tick
  <1> QED
    BY <1>1, SameRows, SameCalls DEF Tick

\* Every step of the system does one of the things described above.
LEMMA AnyMoves ==
    ASSUME IndInv, Step
    PROVE  OthersMove /\ RowsMove /\ CallsMove
  <1>1. ASSUME NEW s \in Servers, Start(s)
        PROVE  OthersMove /\ RowsMove /\ CallsMove
    BY <1>1, StartMoves
  <1>2. ASSUME NEW s \in Servers, Stop(s)
        PROVE  OthersMove /\ RowsMove /\ CallsMove
    BY <1>2, StopMoves
  <1>3. ASSUME NEW s \in Servers, NEW n \in Names, Login(s, n)
        PROVE  OthersMove /\ RowsMove /\ CallsMove
    BY <1>3, LoginMoves, SameOthers DEF Login
  <1>4. ASSUME NEW s \in Servers, Request(s)
        PROVE  OthersMove /\ RowsMove /\ CallsMove
    BY <1>4, RequestMoves, SameOthers DEF Request
  <1>5. ASSUME NEW s \in Servers, Answer(s)
        PROVE  OthersMove /\ RowsMove /\ CallsMove
    <2>1. CASE Verify(s)
      BY <2>1, VerifyMoves
    <2>2. CASE ById(s)
      BY <2>2, ByIdMoves, SameOthers DEF ById
    <2>3. CASE ByName(s)
      BY <2>3, ByNameMoves, SameOthers DEF ByName
    <2>4. CASE Touch(s)
      BY <2>4, TouchMoves, SameOthers DEF Touch
    <2> QED
      BY <1>5, <2>1, <2>2, <2>3, <2>4 DEF Answer
  <1> QED
    BY <1>1, <1>2, <1>3, <1>4, <1>5, CliInsertMoves, OperatorMoves, TickMoves DEF Step

-----------------------------------------------------------------------------
(* The invariant.                                                          *)

\* Nobody is served or asks at the start.
LEMMA InitHolds == Init => IndInv
  <1> SUFFICES ASSUME Init PROVE IndInv
    OBVIOUS
  <1>1. TypeOK
    BY Numbers DEF Init, TypeOK, NoUser, NoCall, NoCli, Accounts, Calls, Places, Schemas
  <1> QED
    BY <1>1 DEF Init, IndInv, ActiveExists, IdsAreAsked, GoodIsNoted,
                LetInIsEntitled, MarkIsClose, Asked, NoUser, NoCall

\* The history follows from what becomes of the calls.
LEMMA NoteHolds ==
    ASSUME IndInv, Note, CallsMove
    PROVE  /\ entitled' \in [Servers -> BOOLEAN]
           /\ GoodIsNoted'
           /\ LetInIsEntitled'
  <1>1. entitled' \in [Servers -> BOOLEAN]
    BY DEF Note, IndInv, TypeOK, Asked, Good
  <1>2. \A s \in Servers : entitled'[s] <=>
           \/ Asked(s)' /\ Good(s)'
           \/ entitled[s] /\ (Asked(s) \/ call'[s] = call[s])
    BY DEF Note
  <1>3. GoodIsNoted'
    BY <1>2 DEF GoodIsNoted
  <1>4. ASSUME NEW s \in Servers, call'[s].pc \in {"touch", "ok"}
        PROVE  entitled'[s]
    <2>1. \/ call'[s] = call[s]
          \/ call[s].pc = "touch"
          \/ Asked(s) /\ Good(s)
      BY <1>4 DEF CallsMove, CallMoves
    <2>2. CASE call'[s] = call[s]
      BY <1>2, <1>4, <2>2 DEF IndInv, LetInIsEntitled
    <2>3. CASE call[s].pc = "touch"
      BY <1>2, <2>3 DEF IndInv, LetInIsEntitled, Asked
    <2>4. CASE Asked(s) /\ Good(s)
      BY <1>2, <2>4 DEF IndInv, GoodIsNoted
    <2> QED
      BY <2>1, <2>2, <2>3, <2>4
  <1> QED
    BY <1>1, <1>3, <1>4 DEF LetInIsEntitled

\* With what Note remembers, every step keeps the invariant.
LEMMA StepHolds == IndInv /\ [Next]_vars => IndInv'
  <1> SUFFICES ASSUME IndInv, [Next]_vars PROVE IndInv'
    OBVIOUS
  <1>1. CASE Next
    <2>1. OthersMove /\ RowsMove /\ CallsMove
      BY <1>1, AnyMoves DEF Next
    <2>2. entitled' \in [Servers -> BOOLEAN] /\ GoodIsNoted' /\ LetInIsEntitled'
      BY <1>1, <2>1, NoteHolds DEF Next
    <2>3. call' \in [Servers -> Calls]
      BY <2>1 DEF CallsMove, CallMoves
    <2>4. TypeOK'
      BY <2>1, <2>2, <2>3 DEF TypeOK, OthersMove, RowsMove
    <2>5. ActiveExists' /\ MarkIsClose'
      BY <2>1 DEF RowsMove, ActiveExists, MarkIsClose, Exists
    <2>6. IdsAreAsked'
      BY <2>1 DEF CallsMove, CallMoves, IdsAreAsked
    <2> QED
      BY <2>2, <2>4, <2>5, <2>6 DEF IndInv
  <1>2. CASE UNCHANGED vars
    BY <1>2 DEF vars, system, IndInv, TypeOK, ActiveExists, IdsAreAsked, GoodIsNoted,
                LetInIsEntitled, MarkIsClose, Exists, Asked, Good
  <1> QED
    BY <1>1, <1>2

\* The invariant holds throughout.
LEMMA Inductive == Spec => []IndInv
  BY InitHolds, StepHolds, PTL DEF Spec

-----------------------------------------------------------------------------
(* Theorems.                                                               *)

\* The variables keep their types.
THEOREM TypeCorrect == Spec => []TypeOK
  BY Inductive, PTL DEF IndInv

\* get_current_user(): whatever happens to accounts between the look-ups of a
\* request, it is let in only if its token was good since it came.
THEOREM AlwaysRevokedAtOnce == Spec => []RevokedAtOnce
  <1>1. IndInv => RevokedAtOnce
    BY DEF IndInv, LetInIsEntitled, RevokedAtOnce
  <1> QED
    BY <1>1, Inductive, PTL

\* touch_last_seen(), is_online: the throttle costs an active person nothing
\* but the end of the window.
THEOREM PresenceStaysTight == Spec => []PresenceIsTight
  <1>1. IndInv => PresenceIsTight
    BY Numbers DEF IndInv, TypeOK, MarkIsClose, PresenceIsTight, Online, Accounts
  <1> QED
    BY <1>1, Inductive, PTL

=============================================================================
