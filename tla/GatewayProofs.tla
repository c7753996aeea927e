--------------------------- MODULE GatewayProofs ---------------------------
(***************************************************************************)
(* What the gateway keeps whatever requests, tokens, roles, users and      *)
(* items there are: the middleware's view of the roles, the accounts of    *)
(* who was hired, the shop's columns, and the client's promise.            *)
(***************************************************************************)
EXTENDS Gateway, TLAPS, FiniteSetTheorems

----------------------------------------------------------------------------
(* The middleware: its two queries see one role                            *)

PCOK == DOMAIN pc = Req

MiddlewarePC == {"read_account", "read_scopes"}

\* Who is in the middleware asks for a route with a token that names an
\* account and its role; so does whoever's role was read.
VisitorsKnown ==
  \A r \in Req :
    /\ pc[r] \in MiddlewarePC => visit[r].op \in DOMAIN Route
    /\ pc[r] \in MiddlewarePC \/ visit[r].role # NoRole =>
         /\ visit[r].user \in User /\ visit[r].signed # NoRole
         /\ accounts[visit[r].user] = visit[r].signed

AccessInv ==
  /\ PCOK /\ AccessTypeOK
  /\ VisitorsKnown /\ ServedUnderOwnRole /\ HiredHaveAccounts

Visit == [user : User \cup {Nobody}, op : Op \cup {""},
          signed : Role \cup {NoRole}, role : Role \cup {NoRole}]

\* A request that has nothing to do with the middleware any more, or has not
\* yet come, is one that the invariant says nothing about.
Moved(r, l, v) ==
  /\ pc' = [pc EXCEPT ![r] = l]
  /\ l \in MiddlewarePC => v.op \in DOMAIN Route
  /\ visit' = [visit EXCEPT ![r] = v]
  /\ v \in Visit
  /\ l \in MiddlewarePC \/ v.role # NoRole =>
       v.user \in User /\ v.signed # NoRole /\ accounts'[v.user] = v.signed
  /\ v.role # NoRole => v.role \in roles' /\ accounts'[v.user] = v.role

\* What the middleware has read stays true when tables change so: an account
\* keeps its role, and a role that is deleted is nobody's.
TablesKeep ==
  /\ \A u \in User : accounts[u] # NoRole => accounts'[u] = accounts[u]
  /\ \A k \in roles : k \in roles' \/ \A u \in User : accounts[u] # k

TablesTypeOK ==
  /\ roles \subseteq Role
  /\ scopes \in [Role -> SUBSET Scope]
  /\ employees \in [User -> Role \cup {NoRole}]
  /\ accounts \in [User -> Role \cup {NoRole}]
  /\ hired \subseteq User

\* The routes, one by one.
LEMMA RouteOps ==
  DOMAIN Route = {"sync_product", "sync_category", "patch_item", "delete_item",
                  "create_role", "patch_role", "delete_role", "create_employee",
                  "patch_employee", "delete_employee", "send_order"}
  BY DEF Route

\* The names of the operations are no points of the middleware.
LEMMA OpsAreElsewhere ==
  Op \cap MiddlewarePC = {} /\ DOMAIN Route \subseteq Op
  BY RouteOps DEF Op, Out, MiddlewarePC

\* A request nobody sent has the type of a visit.
LEMMA NoVisitType == NoVisit \in Visit /\ NoVisit.role = NoRole
  BY DEF NoVisit, Visit

\* A change of the tables that keeps what others have read, and a move of
\* one request, keep the invariant.
LEMMA MovedKeeps ==
  ASSUME AccessInv, NEW r \in Req, NEW l, NEW v, Moved(r, l, v),
         TablesKeep, TablesTypeOK', HiredHaveAccounts'
  PROVE  AccessInv'
<1>1. /\ pc' = [pc EXCEPT ![r] = l]
      /\ l \in MiddlewarePC => v.op \in DOMAIN Route
  BY DEF Moved
<1>2. visit' = [visit EXCEPT ![r] = v] /\ v \in Visit
  BY DEF Moved
<1>3. visit \in [Req -> Visit] /\ DOMAIN pc = Req
  BY DEF AccessInv, AccessTypeOK, Visit, PCOK
<1>4. PCOK' /\ visit' \in [Req -> Visit]
  BY <1>1, <1>2, <1>3 DEF PCOK
<1>5. visit'[r] = v /\ pc'[r] = l
  BY <1>1, <1>2, <1>3
<1>6. \A s \in Req \ {r} : visit'[s] = visit[s] /\ pc'[s] = pc[s]
  BY <1>1, <1>2, <1>3
<1>7. VisitorsKnown'
  BY <1>1, <1>5, <1>6 DEF VisitorsKnown, AccessInv, Moved, TablesKeep
<1>8. ASSUME NEW s \in Req \ {r}, visit[s].role # NoRole
      PROVE  /\ visit[s].role \in roles' /\ accounts'[visit[s].user] = visit[s].role
             /\ visit[s].signed = visit[s].role
  <2>1. /\ visit[s].role \in roles /\ accounts[visit[s].user] = visit[s].role
        /\ visit[s].user \in User /\ visit[s].signed = visit[s].role
    BY <1>8 DEF AccessInv, ServedUnderOwnRole, VisitorsKnown
  <2> QED
    BY <1>8, <2>1 DEF TablesKeep
<1>9. ServedUnderOwnRole'
  BY <1>5, <1>6, <1>8 DEF ServedUnderOwnRole, PermissionsShown, Moved
<1> QED
  BY <1>4, <1>7, <1>9 DEF AccessInv, AccessTypeOK, TablesTypeOK, Visit

\* Returning, after whatever the tables went through.
LEMMA LeaveMoves ==
  ASSUME NEW r \in Req, Leave(r)
  PROVE  Moved(r, "idle", NoVisit)
  BY NoVisitType DEF Leave, Forget, Goto, Moved, MiddlewarePC

\* Tables that nobody touches.
LEMMA TablesUntouched ==
  ASSUME AccessInv, UNCHANGED tables
  PROVE  TablesKeep /\ TablesTypeOK' /\ HiredHaveAccounts'
  BY DEF AccessInv, AccessTypeOK, TablesKeep, TablesTypeOK, HiredHaveAccounts, CanLogIn, tables

\* A request that is past the middleware goes on, or is over.
LEMMA PastMiddleware ==
  ASSUME AccessInv, NEW r \in Req, NEW l, l \notin MiddlewarePC, Goto(r, l),
         UNCHANGED tables, UNCHANGED visit \/ Forget(r)
  PROVE  AccessInv'
<1>1. CASE UNCHANGED visit
  <2>1. Moved(r, l, visit[r])
    BY <1>1 DEF Goto, Moved, AccessInv, AccessTypeOK, Visit, VisitorsKnown,
                ServedUnderOwnRole, tables
  <2> QED
    BY <2>1, TablesUntouched, MovedKeeps
<1>2. CASE Forget(r)
  <2>1. Moved(r, l, NoVisit)
    BY <1>2, NoVisitType DEF Forget, Goto, Moved
  <2> QED
    BY <2>1, TablesUntouched, MovedKeeps
<1> QED
  BY <1>1, <1>2

\* A step that moves nobody and touches nothing of it.
LEMMA AccessApart ==
  ASSUME AccessInv, UNCHANGED <<pc, accessVars>>
  PROVE  AccessInv'
  BY DEF AccessInv, PCOK, AccessTypeOK, VisitorsKnown, ServedUnderOwnRole,
         PermissionsShown, HiredHaveAccounts, CanLogIn, accessVars

----------------------------------------------------------------------------
(* The steps                                                               *)

\* A request that comes has read nothing yet.
LEMMA ArriveKeeps ==
  ASSUME AccessInv, NEW r \in Req, NEW op \in Op, Arrive(r, op)
  PROVE  AccessInv'
<1>1. CASE op \in Out /\ Goto(r, op) /\ UNCHANGED visit
  <2>1. Moved(r, op, visit[r])
    BY <1>1, OpsAreElsewhere
       DEF Arrive, CanLogIn, Goto, Moved, AccessInv, AccessTypeOK, Visit, VisitorsKnown,
           ServedUnderOwnRole, tables
  <2> QED
    BY <2>1, TablesUntouched, MovedKeeps DEF Arrive
<1>2. ASSUME op \in DOMAIN Route, Goto(r, "read_account"), NEW u \in User,
             CanLogIn(u), visit' = [visit EXCEPT ![r] = Signed(u, op)]
      PROVE  AccessInv'
  <2>1. Moved(r, "read_account", Signed(u, op))
    BY <1>2 DEF Arrive, CanLogIn, Signed, Goto, Moved, Visit, tables, AccessInv, AccessTypeOK
  <2> QED
    BY <2>1, TablesUntouched, MovedKeeps DEF Arrive
<1> QED
  BY <1>1, <1>2 DEF Arrive

\* GetMe's first query reads the role of the account that is there.
LEMMA ReadAccountKeeps ==
  ASSUME AccessInv, NEW r \in Req, ReadAccount(r)
  PROVE  AccessInv'
<1>1. TablesKeep /\ TablesTypeOK' /\ HiredHaveAccounts'
  BY TablesUntouched DEF ReadAccount
<1>2. CASE Leave(r)
  BY <1>1, <1>2, LeaveMoves, MovedKeeps
<1>3. ASSUME NEW k \in roles, k = accounts[visit[r].user],
             visit' = [visit EXCEPT ![r].role = k], Goto(r, "read_scopes")
      PROVE  AccessInv'
  <2>1. /\ visit[r].user \in User /\ visit[r].op \in DOMAIN Route
        /\ visit[r].signed # NoRole /\ accounts[visit[r].user] = visit[r].signed
        /\ visit \in [Req -> Visit]
    BY DEF ReadAccount, At, AccessInv, VisitorsKnown, MiddlewarePC, AccessTypeOK, Visit
  <2>2. Moved(r, "read_scopes", [visit[r] EXCEPT !.role = k])
    BY <1>3, <2>1 DEF Moved, Goto, Visit, ReadAccount, tables, AccessInv, AccessTypeOK
  <2> QED
    BY <1>1, <2>2, MovedKeeps
<1> QED
  BY <1>2, <1>3 DEF ReadAccount

\* GetMe's second query lets the request through, or not.
LEMMA ReadScopesKeeps ==
  ASSUME AccessInv, NEW r \in Req, ReadScopes(r)
  PROVE  AccessInv'
<1>1. TablesKeep /\ TablesTypeOK' /\ HiredHaveAccounts'
  BY TablesUntouched DEF ReadScopes
<1>2. CASE Leave(r)
  BY <1>1, <1>2, LeaveMoves, MovedKeeps
<1>3. CASE Goto(r, visit[r].op) /\ UNCHANGED visit
  <2>1. visit[r].op \in Op
    BY OpsAreElsewhere DEF ReadScopes, At, AccessInv, VisitorsKnown, MiddlewarePC
  <2>2. Moved(r, visit[r].op, visit[r])
    BY <1>3, <2>1, OpsAreElsewhere
       DEF ReadScopes, Goto, Moved, AccessInv, AccessTypeOK, Visit, VisitorsKnown,
           ServedUnderOwnRole, tables
  <2> QED
    BY <1>1, <2>2, MovedKeeps
<1> QED
  BY <1>2, <1>3 DEF ReadScopes

\* What one administrator's transaction does to the tables.
LEMMA TransactionKeeps ==
  ASSUME AccessInv, NEW r \in Req,
         \/ CreateRole(r) \/ PatchRole(r) \/ DeleteRole(r)
         \/ CreateEmployee(r) \/ PatchEmployee(r) \/ DeleteEmployee(r)
  PROVE  AccessInv'
<1> USE DEF TablesKeep, TablesTypeOK, HiredHaveAccounts, CanLogIn
<1>1. AccessTypeOK /\ HiredHaveAccounts
  BY DEF AccessInv
<1>2. SUFFICES TablesKeep /\ TablesTypeOK' /\ HiredHaveAccounts'
  BY LeaveMoves, MovedKeeps
     DEF CreateRole, PatchRole, DeleteRole, CreateEmployee, PatchEmployee, DeleteEmployee
<1>3. CASE UNCHANGED tables
  BY <1>3, TablesUntouched
<1>4. ASSUME NEW k \in Role \ roles, NEW s \in ScopeSets, roles' = roles \cup {k},
             scopes' = [scopes EXCEPT ![k] = s], UNCHANGED <<employees, accounts, hired>>
      PROVE  TablesKeep /\ TablesTypeOK' /\ HiredHaveAccounts'
  BY <1>1, <1>4, ScopeSetsAssumption DEF AccessTypeOK
<1>5. ASSUME NEW k \in roles, NEW s \in ScopeSets, scopes' = [scopes EXCEPT ![k] = s],
             UNCHANGED <<roles, employees, accounts, hired>>
      PROVE  TablesKeep /\ TablesTypeOK' /\ HiredHaveAccounts'
  BY <1>1, <1>5, ScopeSetsAssumption DEF AccessTypeOK
<1>6. ASSUME NEW k \in roles, Unused(k), roles' = roles \ {k},
             scopes' = [scopes EXCEPT ![k] = {}], UNCHANGED <<employees, accounts, hired>>
      PROVE  TablesKeep /\ TablesTypeOK' /\ HiredHaveAccounts'
  BY <1>1, <1>6 DEF AccessTypeOK, Unused
<1>7. ASSUME NEW u \in User, NEW k \in roles, Hire(u, k), hired' = hired \cup {u},
             UNCHANGED <<roles, scopes>>
      PROVE  TablesKeep /\ TablesTypeOK' /\ HiredHaveAccounts'
  BY <1>1, <1>7, NoneAssumption DEF AccessTypeOK, Hire
<1>8. ASSUME NEW u \in User, employees[u] # NoRole, UNCHANGED <<roles, scopes, accounts>>,
             NEW k \in roles, employees' = [employees EXCEPT ![u] = k], UNCHANGED hired
      PROVE  TablesKeep /\ TablesTypeOK' /\ HiredHaveAccounts'
  BY <1>1, <1>8, NoneAssumption DEF AccessTypeOK
<1>10. ASSUME NEW u \in User, employees[u] # NoRole, UNCHANGED <<roles, scopes, accounts>>,
              NEW w \in User, employees[w] = NoRole, hired' = hired \ {u, w},
              employees' = [employees EXCEPT ![w] = employees[u], ![u] = NoRole]
       PROVE  TablesKeep /\ TablesTypeOK' /\ HiredHaveAccounts'
  BY <1>1, <1>10 DEF AccessTypeOK
<1>9. ASSUME NEW u \in User, employees' = [employees EXCEPT ![u] = NoRole],
             hired' = hired \ {u}, UNCHANGED <<roles, scopes, accounts>>
      PROVE  TablesKeep /\ TablesTypeOK' /\ HiredHaveAccounts'
  BY <1>1, <1>9 DEF AccessTypeOK
<1> QED
  BY <1>3, <1>4, <1>5, <1>6, <1>7, <1>8, <1>9, <1>10
     DEF CreateRole, PatchRole, DeleteRole, CreateEmployee, PatchEmployee,
         DeleteEmployee, RollBack

\* Every step of the middleware and of the administrators keeps the
\* invariant.
LEMMA AccessStepKeeps ==
  ASSUME AccessInv, NEW r \in Req, AccessStep(r)
  PROVE  AccessInv'
  BY ReadAccountKeeps, ReadScopesKeeps, TransactionKeeps DEF AccessStep

\* Where a request goes in the middleware, and from an administrator's page.
LEMMA AccessMoves ==
  ASSUME AccessInv, NEW r \in Req, AccessStep(r)
  PROVE  /\ pc[r] \in AccessPC
         /\ \/ Goto(r, "idle") \/ Goto(r, "read_scopes")
            \/ visit[r].op \in Op /\ Goto(r, visit[r].op)
<1>1. CASE ReadAccount(r)
  BY <1>1 DEF ReadAccount, Leave, At, AccessPC
<1>2. CASE ReadScopes(r)
  BY <1>2, OpsAreElsewhere
     DEF ReadScopes, Leave, At, AccessPC, AccessInv, VisitorsKnown, MiddlewarePC
<1> QED
  BY <1>1, <1>2
     DEF AccessStep, AccessPC, AdminPC, At, Leave, CreateRole, PatchRole, DeleteRole,
         CreateEmployee, PatchEmployee, DeleteEmployee

\* At first nobody is in the middleware.
LEMMA AccessInitInv ==
  ASSUME AccessInit, pc = [r \in Req |-> "idle"]
  PROVE  AccessInv
  BY NoVisitType, StaffAssumption, NoneAssumption
     DEF AccessInit, Range, AccessInv, PCOK, AccessTypeOK, VisitorsKnown, ServedUnderOwnRole,
         HiredHaveAccounts, CanLogIn, MiddlewarePC, Visit, NoVisit

----------------------------------------------------------------------------
(* The client: every step of it is a step of IikoCall, or none             *)

\* Where the handlers wait for their call to return.
BackPC == {"import", "sent"}

Answers == {"ok", "error"}

\* Who is in the client has no answer yet, and iiko has not acted on the
\* call; who is back has one; everyone else has no call.
CallsInStep ==
  \A r \in Req :
    /\ pc[r] \in TokenPC =>
         client[r].answer = "none" /\ served[r] = 0 /\ client[r].back \in BackPC
    /\ pc[r] \in BackPC => client[r].answer \in Answers
    /\ pc[r] \notin TokenPC \cup BackPC => client[r] = NoCall /\ served[r] = 0

Client == [token  : {NoToken} \cup Token,
           answer : {"none"} \cup Answers,
           back   : {"idle"} \cup BackPC]

TokensKnown == \A r \in Req : client[r].token <= issued

TokenInv ==
  /\ DOMAIN pc = Req /\ TokenTypeOK
  /\ CallsInStep /\ TokensKnown

\* Request r goes to l with the locals c and the count n.
CallMoves(r, l, c, n) ==
  /\ pc' = [pc EXCEPT ![r] = l]
  /\ client' = [client EXCEPT ![r] = c]
  /\ served' = [served EXCEPT ![r] = n]
  /\ c \in Client /\ n \in {0, 1}
  /\ l \in TokenPC => c.answer = "none" /\ n = 0 /\ c.back \in BackPC
  /\ l \in BackPC => c.answer \in Answers
  /\ l \notin TokenPC \cup BackPC => c = NoCall /\ n = 0
  /\ c.token <= issued'

\* The phase of r after it moved.
PhaseAt(l, c) ==
  CASE c.answer # "none" -> "answered"
    [] c.answer = "none" /\ l \in TokenPC -> "calling"
    [] OTHER             -> "idle"

\* The row, and what iiko has issued, may only change so.
TokensMove ==
  /\ issued' \in 0 .. MaxTokens /\ issued <= issued'
  /\ stored' \in 0 .. issued'
  /\ expired' \subseteq 1 .. issued'

\* A call that nobody made has its type.
LEMMA NoCallType == NoCall \in Client /\ NoCall.token = 0 /\ NoCall.answer = "none"
  BY DEF NoCall, Client, NoToken

\* A move keeps the invariant.
LEMMA CallMovesKeeps ==
  ASSUME TokenInv, TokensMove, NEW r \in Req, NEW l, NEW c, NEW n,
         CallMoves(r, l, c, n)
  PROVE  TokenInv'
<1>1. client \in [Req -> Client] /\ served \in [Req -> {0, 1}]
  BY DEF TokenInv, TokenTypeOK, Client, BackPC, Answers
<1>2. /\ pc'[r] = l /\ client'[r] = c /\ served'[r] = n
      /\ \A s \in Req \ {r} : /\ pc'[s] = pc[s] /\ client'[s] = client[s]
                              /\ served'[s] = served[s]
  BY <1>1 DEF CallMoves, TokenInv
<1>3. DOMAIN pc' = Req /\ client' \in [Req -> Client] /\ served' \in [Req -> {0, 1}]
  BY <1>1 DEF CallMoves, TokenInv
<1>4. TokenTypeOK'
  BY <1>3 DEF TokensMove, TokenTypeOK, Client, BackPC, Answers
<1>5. CallsInStep'
  BY <1>2 DEF CallsInStep, CallMoves, TokenInv
<1>6. TokensKnown'
  <2>1. \A s \in Req : client[s].token \in Nat /\ issued \in Nat /\ issued' \in Nat
    BY <1>1 DEF Client, Token, NoToken, TokenInv, TokenTypeOK, TokensMove
  <2>2. client'[r].token <= issued'
    BY <1>2 DEF CallMoves
  <2>3. \A s \in Req \ {r} : client'[s].token <= issued'
    BY <1>2, <2>1 DEF TokenInv, TokensKnown, TokensMove
  <2> QED
    BY <2>2, <2>3 DEF TokensKnown
<1> QED
  BY <1>3, <1>4, <1>5, <1>6 DEF TokenInv

Phases == [s \in Req |-> Phase(s)]
Verdicts == [s \in Req |-> client[s].answer]

\* And maps to the phase, the verdict and the count of r alone.
LEMMA CallMovesPhase ==
  ASSUME TokenInv, NEW r \in Req, NEW l, NEW c, NEW n, CallMoves(r, l, c, n)
  PROVE  /\ Phases' = [Phases EXCEPT ![r] = PhaseAt(l, c)]
         /\ Verdicts' = [Verdicts EXCEPT ![r] = c.answer]
         /\ served' = [served EXCEPT ![r] = n]
         /\ PhaseAt(l, c) = Phase(r) => UNCHANGED Phases
         /\ c.answer = client[r].answer => UNCHANGED Verdicts
         /\ n = served[r] => UNCHANGED served
<1>1. client \in [Req -> Client] /\ DOMAIN pc = Req /\ served \in [Req -> {0, 1}]
  BY DEF TokenInv, TokenTypeOK, Client, BackPC, Answers
<1>2. /\ pc'[r] = l /\ client'[r] = c
      /\ \A s \in Req \ {r} : pc'[s] = pc[s] /\ client'[s] = client[s]
  BY <1>1 DEF CallMoves
<1>3. Phase(r)' = PhaseAt(l, c) /\ \A s \in Req \ {r} : Phase(s)' = Phase(s)
  BY <1>2 DEF Phase, PhaseAt
<1>4. served' = [served EXCEPT ![r] = n]
  BY DEF CallMoves
<1> QED
  BY <1>1, <1>2, <1>3, <1>4 DEF Phases, Verdicts

----------------------------------------------------------------------------
(* What a move is to the caller                                            *)

PromiseStep == [Promise!Next]_(Promise!iikoCallVars)

\* Nothing that the caller could tell.
LEMMA HiddenMove ==
  ASSUME TokenInv, NEW r \in Req, NEW l, NEW c, NEW n, CallMoves(r, l, c, n),
         PhaseAt(l, c) = Phase(r), c.answer = client[r].answer, n = served[r]
  PROVE  PromiseStep
<1>1. UNCHANGED Phases /\ UNCHANGED Verdicts /\ UNCHANGED served
  BY CallMovesPhase
<1> QED
  BY <1>1 DEF Phases, Verdicts, PromiseStep, Promise!iikoCallVars

\* The call begins.
LEMMA CallMove ==
  ASSUME TokenInv, NEW r \in Req, NEW l, NEW c, NEW n, CallMoves(r, l, c, n),
         Phase(r) = "idle", PhaseAt(l, c) = "calling", c.answer = client[r].answer,
         n = served[r]
  PROVE  PromiseStep
<1>1. /\ Phases' = [Phases EXCEPT ![r] = "calling"] /\ Phases[r] = "idle"
      /\ UNCHANGED Verdicts /\ UNCHANGED served
  BY CallMovesPhase DEF Phases
<1>2. Promise!Call(r)
  BY <1>1 DEF Phases, Verdicts, Promise!Call
<1> QED
  BY <1>2 DEF PromiseStep, Promise!Next

\* The call ends, and "ok" means that iiko acted.
LEMMA SettleMove ==
  ASSUME TokenInv, NEW r \in Req, NEW l, NEW c, NEW n, CallMoves(r, l, c, n),
         Phase(r) = "calling", c.answer \in Answers, c.answer = "ok" => n = 1
  PROVE  PromiseStep
<1>1. PhaseAt(l, c) = "answered" /\ n \in {0, 1}
  BY DEF PhaseAt, Answers, CallMoves
<1>2. /\ Phases' = [Phases EXCEPT ![r] = "answered"] /\ Phases[r] = "calling"
      /\ Verdicts' = [Verdicts EXCEPT ![r] = c.answer]
      /\ served' = [served EXCEPT ![r] = n]
  BY <1>1, CallMovesPhase DEF Phases
<1>3. Promise!Settle(r, n, c.answer)
  BY <1>2 DEF Phases, Verdicts, Promise!Settle
<1> QED
  BY <1>1, <1>3 DEF PromiseStep, Promise!Next, Answers

\* The handler goes on.
LEMMA ReturnMove ==
  ASSUME TokenInv, NEW r \in Req, NEW l, CallMoves(r, l, NoCall, 0),
         Phase(r) = "answered", l \notin TokenPC
  PROVE  PromiseStep
<1>1. PhaseAt(l, NoCall) = "idle" /\ NoCall.answer = "none"
  BY DEF PhaseAt, NoCall
<1>2. /\ Phases' = [Phases EXCEPT ![r] = "idle"] /\ Phases[r] = "answered"
      /\ Verdicts' = [Verdicts EXCEPT ![r] = "none"]
      /\ served' = [served EXCEPT ![r] = 0]
  BY <1>1, CallMovesPhase DEF Phases
<1>3. Promise!Return(r)
  BY <1>2 DEF Phases, Verdicts, Promise!Return
<1> QED
  BY <1>3 DEF PromiseStep, Promise!Next

----------------------------------------------------------------------------
(* The steps of the client                                                 *)

\* Who is in the client is calling.
LEMMA InClient ==
  ASSUME TokenInv, NEW r \in Req, pc[r] \in TokenPC
  PROVE  /\ Phase(r) = "calling" /\ client[r] \in Client /\ client[r].answer = "none"
         /\ served[r] = 0 /\ client[r].back \in BackPC
         /\ client[r].token \in Nat /\ client[r].token <= issued /\ issued \in Nat
         /\ stored \in Nat
<1>1. client[r] \in Client /\ issued \in Nat /\ stored \in Nat
  BY DEF TokenInv, TokenTypeOK, Client, BackPC, Answers
<1>2. client[r].answer = "none" /\ served[r] = 0 /\ client[r].back \in BackPC
  BY DEF TokenInv, CallsInStep
<1> QED
  BY <1>1, <1>2 DEF Phase, TokenInv, TokensKnown, Client, Token, NoToken

\* An error, and what it leaves alone.
LEMMA ErrorSettles ==
  ASSUME TokenInv, NEW r \in Req, pc[r] \in TokenPC, Answer(r, "error"),
         UNCHANGED <<stored, issued, expired, served>>
  PROVE  TokenInv' /\ PromiseStep
<1> DEFINE c == [client[r] EXCEPT !.answer = "error"]
<1>1. TokensMove
  BY DEF TokensMove, TokenInv, TokenTypeOK
<1>2. c \in Client /\ c.answer = "error" /\ c.token = client[r].token
  BY InClient DEF Client, Answers
<1>3. client' = [client EXCEPT ![r] = c] /\ served' = [served EXCEPT ![r] = 0]
  BY InClient DEF Answer, TokenInv, TokenTypeOK
<1>4. CallMoves(r, client[r].back, c, 0)
  BY <1>2, <1>3, InClient
     DEF CallMoves, Answer, Goto, BackPC, TokenPC, Answers
<1> QED
  BY <1>1, <1>2, <1>4, CallMovesKeeps, SettleMove, InClient DEF Answers

\* A step within the client, at which nothing was settled.
LEMMA WithinClient ==
  ASSUME TokenInv, TokensMove, NEW r \in Req, pc[r] \in TokenPC, NEW l \in TokenPC,
         NEW t \in 0 .. issued', Goto(r, l), client' = [client EXCEPT ![r].token = t],
         UNCHANGED served
  PROVE  TokenInv' /\ PromiseStep
<1> DEFINE c == [client[r] EXCEPT !.token = t]
<1>1. /\ c \in Client /\ c.answer = "none" /\ c.token = t /\ c.back = client[r].back
      /\ t <= issued'
  <2>1. t \in {NoToken} \cup Token /\ t <= issued'
    BY MaxTokensAssumption DEF TokensMove, Token, NoToken
  <2>2. client[r] \in Client /\ client[r].answer = "none"
    BY InClient
  <2> QED
    BY <2>1, <2>2 DEF Client
<1>2. client' = [client EXCEPT ![r] = c] /\ served' = [served EXCEPT ![r] = 0]
  BY InClient DEF TokenInv, TokenTypeOK
<1>3. CallMoves(r, l, c, 0)
  BY <1>1, <1>2, InClient DEF CallMoves, Goto, BackPC, TokenPC
<1>4. PhaseAt(l, c) = "calling"
  BY <1>1 DEF PhaseAt
<1> QED
  BY <1>1, <1>3, <1>4, CallMovesKeeps, HiddenMove, InClient

\* The steps of the client keep the invariant and promise what they must.
LEMMA TokenStepKeeps ==
  ASSUME TokenInv, NEW r \in Req, TokenStep(r)
  PROVE  TokenInv' /\ PromiseStep
<1>0. /\ issued \in 0 .. MaxTokens /\ stored \in 0 .. issued
      /\ expired \subseteq 1 .. issued /\ MaxTokens \in Nat
  BY MaxTokensAssumption DEF TokenInv, TokenTypeOK
<1>1. pc[r] \in TokenPC
  BY DEF TokenStep, EnsureToken, AskFailed, AskExpired, Renew, KeepToken, Asking, At,
         TokenPC
<1>2. CASE Answer(r, "error") /\ UNCHANGED <<stored, issued, expired, served>>
  BY <1>1, <1>2, ErrorSettles
<1>3. CASE EnsureToken(r) /\ stored # NoToken /\ Proceed(r, "ask", stored)
  <2>1. TokensMove /\ UNCHANGED <<stored, issued, served>>
    BY <1>0, <1>3 DEF TokensMove, EnsureToken
  <2> QED
    BY <1>0, <1>1, <1>3, <2>1, WithinClient DEF Proceed, TokenPC
<1>4. CASE AskExpired(r) /\ At(r, "ask") /\ Goto(r, "renew") /\ UNCHANGED client
  <2>1. TokensMove /\ UNCHANGED <<stored, issued, served>>
    BY <1>0, <1>4 DEF TokensMove, AskExpired
  <2>2. client' = [client EXCEPT ![r].token = client[r].token]
    BY <1>4 DEF TokenInv, TokenTypeOK
  <2>3. client[r].token \in 0 .. issued'
    BY <1>0, <1>1, <1>4, <2>1, InClient
  <2> QED
    BY <1>1, <1>4, <2>1, <2>2, <2>3, WithinClient DEF TokenPC
<1>5. CASE /\ Renew(r) /\ issued < MaxTokens /\ issued' = issued + 1
           /\ Proceed(r, "keep", issued + 1)
  <2>1. TokensMove /\ UNCHANGED <<stored, served>>
    BY <1>0, <1>5 DEF TokensMove, Renew
  <2>2. issued + 1 \in 0 .. issued'
    BY <1>0, <1>5
  <2> QED
    BY <1>1, <1>5, <2>1, <2>2, WithinClient DEF Proceed, TokenPC
<1>6. CASE /\ KeepToken(r) /\ stored' = client[r].token /\ Goto(r, "ask_again")
           /\ UNCHANGED client
  <2>1. client[r].token \in 0 .. issued
    BY <1>0, <1>1, <1>6, InClient
  <2>2. TokensMove /\ UNCHANGED <<issued, served>>
    BY <1>0, <1>6, <2>1 DEF TokensMove, KeepToken
  <2>3. client' = [client EXCEPT ![r].token = client[r].token]
    BY <1>6 DEF TokenInv, TokenTypeOK
  <2> QED
    BY <1>1, <1>6, <2>1, <2>2, <2>3, WithinClient DEF TokenPC
<1> QED
  BY <1>2, <1>3, <1>4, <1>5, <1>6
     DEF TokenStep, EnsureToken, AskFailed, AskExpired, Renew, KeepToken

\* iiko acts: the first time, and the last.
LEMMA AskServedKeeps ==
  ASSUME TokenInv, NEW r \in Req, AskServed(r)
  PROVE  TokenInv' /\ PromiseStep
<1>1. pc[r] \in TokenPC
  BY DEF AskServed, Accepted, Asking, TokenPC
<1>2. TokensMove
  BY DEF TokensMove, TokenInv, TokenTypeOK, AskServed
<1>3. ASSUME NEW a \in Answers, Answer(r, a)
      PROVE  TokenInv' /\ PromiseStep
  <2> DEFINE c == [client[r] EXCEPT !.answer = a]
  <2>1. c \in Client /\ c.answer = a /\ c.token = client[r].token
    BY <1>1, InClient DEF Client
  <2>2. client' = [client EXCEPT ![r] = c]
    BY <1>3 DEF Answer, TokenInv, TokenTypeOK
  <2>4. served[r] = 0 /\ served' = [served EXCEPT ![r] = served[r] + 1]
    BY <1>1, InClient DEF AskServed
  <2>5. served' = [served EXCEPT ![r] = 1]
    BY <2>4
  <2>3. CallMoves(r, client[r].back, c, 1)
    BY <1>1, <1>3, <2>1, <2>2, <2>5, InClient
       DEF CallMoves, Answer, Goto, BackPC, TokenPC, Answers, AskServed
  <2> QED
    BY <1>1, <1>2, <2>1, <2>3, CallMovesKeeps, SettleMove, InClient
<1> QED
  BY <1>3 DEF AskServed, Answers

----------------------------------------------------------------------------
(* The steps of the handlers, and of iiko                                  *)

\* Who is neither in the client nor back from it has no call.
LEMMA OutsideClient ==
  ASSUME TokenInv, NEW r \in Req, pc[r] \notin TokenPC \cup BackPC
  PROVE  /\ Phase(r) = "idle" /\ client[r] = NoCall /\ served[r] = 0
         /\ client[r].answer = "none"
  BY NoCallType DEF TokenInv, CallsInStep, Phase

\* Nothing of the client changes but where it is stored whose turn it is.
LEMMA SameTokens ==
  ASSUME TokenInv, UNCHANGED <<stored, issued, expired>>
  PROVE  TokensMove
  BY DEF TokenInv, TokenTypeOK, TokensMove

\* A handler calls the client.
LEMMA CallIikoKeeps ==
  ASSUME TokenInv, NEW r \in Req, pc[r] \notin TokenPC \cup BackPC,
         NEW l \in BackPC, CallIiko(r, l)
  PROVE  TokenInv' /\ PromiseStep
<1> DEFINE c == [NoCall EXCEPT !.back = l]
<1>1. c \in Client /\ c.answer = "none" /\ c.token = 0 /\ c.back = l
  BY DEF NoCall, Client, NoToken
<1>2. client' = [client EXCEPT ![r] = c] /\ served' = [served EXCEPT ![r] = 0]
  BY OutsideClient DEF CallIiko, TokenInv, TokenTypeOK
<1>3. 0 <= issued'
  BY MaxTokensAssumption DEF CallIiko, TokenInv, TokenTypeOK
<1>4. CallMoves(r, "ensure", c, 0)
  BY <1>1, <1>2, <1>3 DEF CallMoves, CallIiko, Goto, TokenPC, BackPC
<1>5. PhaseAt("ensure", c) = "calling"
  BY <1>1 DEF PhaseAt, TokenPC
<1> QED
  BY <1>1, <1>4, <1>5, SameTokens, CallMovesKeeps, CallMove, OutsideClient DEF CallIiko

\* A handler that is back forgets the call and ends.
LEMMA ReturnKeeps ==
  ASSUME TokenInv, NEW r \in Req, pc[r] \in BackPC, Return(r), Goto(r, "idle")
  PROVE  TokenInv' /\ PromiseStep
<1>1. client[r].answer \in Answers /\ Phase(r) = "answered"
  BY DEF TokenInv, CallsInStep, Phase, Answers
<1>2. NoCall.token <= issued' /\ NoCall.answer = "none" /\ NoCall \in Client
  BY MaxTokensAssumption, NoCallType DEF Return, TokenInv, TokenTypeOK
<1>3. CallMoves(r, "idle", NoCall, 0)
  BY <1>2 DEF CallMoves, Return, Goto, TokenPC, BackPC
<1> QED
  BY <1>1, <1>3, SameTokens, CallMovesKeeps, ReturnMove DEF Return, TokenPC

\* A request that has nothing to do with the client goes on without it.
LEMMA ElsewhereKeeps ==
  ASSUME TokenInv, NEW r \in Req, pc[r] \notin TokenPC \cup BackPC,
         NEW l, l \notin TokenPC \cup BackPC, Goto(r, l), UNCHANGED tokenVars
  PROVE  TokenInv' /\ PromiseStep
<1>1. UNCHANGED <<stored, issued, expired, client, served>>
  BY DEF tokenVars
<1>2. client' = [client EXCEPT ![r] = NoCall] /\ served' = [served EXCEPT ![r] = 0]
  BY <1>1, OutsideClient DEF TokenInv, TokenTypeOK
<1>3. NoCall.token <= issued'
  BY <1>1, MaxTokensAssumption, NoCallType DEF TokenInv, TokenTypeOK
<1>4. CallMoves(r, l, NoCall, 0)
  BY <1>2, <1>3, NoCallType DEF CallMoves, Goto, TokenPC
<1>5. PhaseAt(l, NoCall) = "idle"
  BY NoCallType DEF PhaseAt
<1> QED
  BY <1>1, <1>4, <1>5, SameTokens, CallMovesKeeps, HiddenMove, OutsideClient

\* A step that moves nobody and touches nothing of the client.
LEMMA ApartKeeps ==
  ASSUME TokenInv, UNCHANGED <<pc, tokenVars>>
  PROVE  TokenInv' /\ PromiseStep
  BY DEF TokenInv, TokenTypeOK, CallsInStep, TokensKnown, tokenVars,
         PromiseStep, Promise!iikoCallVars, Phase

\* A token expires.
LEMMA ExpireKeeps ==
  ASSUME TokenInv, NEW t \in Token, Expire(t)
  PROVE  TokenInv' /\ PromiseStep
  BY DEF TokenInv, TokenTypeOK, CallsInStep, TokensKnown, Expire,
         PromiseStep, Promise!iikoCallVars, Phase

\* The server stops and starts again.
LEMMA RestartKeeps ==
  ASSUME TokenInv, pc' = [r \in Req |-> "idle"], client' = [r \in Req |-> NoCall],
         served' = [r \in Req |-> 0], UNCHANGED <<stored, issued, expired>>
  PROVE  TokenInv' /\ PromiseStep
<1>1. TokenInv'
  BY NoCallType, MaxTokensAssumption
     DEF TokenInv, TokenTypeOK, CallsInStep, TokensKnown, TokenPC, BackPC,
         Client, Answers
<1>2. \A r \in Req : Phase(r)' = "idle" /\ client'[r].answer = "none"
  BY NoCallType DEF Phase, TokenPC
<1>3. Promise!Vanish
  BY <1>2 DEF Promise!Vanish
<1> QED
  BY <1>1, <1>3 DEF PromiseStep, Promise!Next

\* At first nobody has called.
LEMMA TokenInitInv ==
  ASSUME TokenInit, pc = [r \in Req |-> "idle"]
  PROVE  TokenInv /\ Promise!Init
<1>1. stored \in {0, 1} /\ issued = stored /\ MaxTokens \in Nat \ {0}
  BY MaxTokensAssumption DEF TokenInit, NoToken
<1>2. TokenInv
  BY <1>1, NoCallType
     DEF TokenInit, TokenInv, TokenTypeOK, CallsInStep, TokensKnown,
         TokenPC, BackPC, Client, Answers
<1>3. \A r \in Req : Phase(r) = "idle" /\ client[r].answer = "none"
  BY NoCallType DEF Phase, TokenPC, TokenInit
<1> QED
  BY <1>2, <1>3 DEF Promise!Init, TokenInit

\* Where the client's steps lead.
LEMMA TokenMoves ==
  ASSUME TokenInv, NEW r \in Req, TokenStep(r) \/ AskServed(r)
  PROVE  /\ pc[r] \in TokenPC /\ client[r].back \in BackPC
         /\ \/ Goto(r, "ask") \/ Goto(r, "renew") \/ Goto(r, "keep")
            \/ Goto(r, "ask_again") \/ Goto(r, client[r].back)
<1>1. pc[r] \in TokenPC
  BY DEF TokenStep, EnsureToken, AskFailed, AskExpired, Renew, KeepToken, AskServed,
         Accepted, Asking, At, TokenPC
<1> QED
  BY <1>1, InClient
     DEF TokenStep, EnsureToken, AskFailed, AskExpired, Renew, KeepToken, AskServed,
         Answer, Proceed

----------------------------------------------------------------------------
(* The gateway                                                             *)

GatewayInv == AccessInv /\ TokenInv /\ CatalogueTypeOK /\ EditsAreKept

\* What a step of the gateway is to the callers of the client.
Kept == GatewayInv' /\ PromiseStep

----------------------------------------------------------------------------
(* The catalogue                                                           *)

CatalogueInv == CatalogueTypeOK /\ EditsAreKept

ShopColumns == [uz : Names \cup {NoValue}, active : BOOLEAN, box : Product \cup {NoBox}]

\* What is to be written to the tables is of the nomenclature's type.
Listed(f) == DOMAIN f \subseteq Item /\ \A i \in DOMAIN f : f[i] \in Entry

FetchedOK == DOMAIN fetched = Req /\ \A r \in Req : Listed(fetched[r])

\* Nothing to write is of that type.
LEMMA NothingListed == Listed(<<>>)
  BY DEF Listed

\* A row keeps the shop's columns through an upsert, and a row that an
\* import inserts has none.
LEMMA UpsertKeepsColumns ==
  ASSUME NEW row \in Row \cup {Absent}, NEW e \in Entry
  PROVE  /\ Upsert(row, e) \in Row
         /\ Columns(Upsert(row, e)) = IF row = Absent THEN Unedited ELSE Columns(row)
<1>1. CASE row = Absent
  BY <1>1 DEF Upsert, Row, Entry, Columns, Unedited
<1>2. CASE row # Absent
  <2>1. row \in Row
    BY <1>2
  <2> QED
    BY <1>2, <2>1 DEF Upsert, Row, Entry, Columns
<1> QED
  BY <1>1, <1>2

\* What the query finds of an entry is of the entries' type.
LEMMA RecordsetType ==
  ASSUME NEW i, NEW e \in Entry
  PROVE  Recordset(i, e) \in Entry
  BY DEF Recordset, Entry

\* The columns of a row have their type.
LEMMA ColumnsType ==
  ASSUME NEW row \in Row
  PROVE  Columns(row) \in ShopColumns
  BY DEF Columns, Row, ShopColumns

\* A batch of an import.
LEMMA ImportKeeps ==
  ASSUME CatalogueInv, NEW r \in Req, Import(r)
  PROVE  CatalogueInv'
<1>1. /\ rows \in [Item -> Row \cup {Absent}] /\ edited \in [Item -> ShopColumns]
      /\ FetchedOK /\ UNCHANGED nomenclature
  BY DEF CatalogueInv, CatalogueTypeOK, ShopColumns, FetchedOK, Listed, Import
<1>2. CASE fetched' = [fetched EXCEPT ![r] = <<>>] /\ UNCHANGED <<rows, edited>>
  <2>1. FetchedOK'
    BY <1>1, <1>2, NothingListed DEF FetchedOK
  <2> QED
    BY <1>1, <1>2, <2>1
       DEF CatalogueInv, CatalogueTypeOK, EditsAreKept, There, Columns, FetchedOK, Listed
<1>3. ASSUME NEW b \in SUBSET DOMAIN fetched[r],
             rows' = [i \in Item |->
                        IF i \in b
                          THEN Upsert(rows[i], Recordset(i, fetched[r][i]))
                          ELSE rows[i]],
             edited' = [i \in Item |->
                          IF i \in b /\ ~There(i) THEN Unedited ELSE edited[i]],
             fetched' = [fetched EXCEPT ![r] = Restrict(@, DOMAIN @ \ b)]
      PROVE  CatalogueInv'
  <2>1. Listed(Restrict(fetched[r], DOMAIN fetched[r] \ b))
    BY <1>1 DEF FetchedOK, Listed, Restrict
  <2>2. FetchedOK'
    BY <1>1, <1>3, <2>1 DEF FetchedOK
  <2>3. \A i \in b : Recordset(i, fetched[r][i]) \in Entry
    BY <1>1, RecordsetType DEF FetchedOK, Listed
  <2>4. rows' \in [Item -> Row \cup {Absent}]
    BY <1>1, <1>3, <2>3, UpsertKeepsColumns
  <2>5. edited' \in [Item -> ShopColumns]
    BY <1>1, <1>3 DEF Unedited, ShopColumns
  <2>6. ASSUME NEW i \in Item, rows'[i] # Absent
        PROVE  Columns(rows'[i]) = edited'[i]
    <3>1. CASE i \in b
      <4>1. rows'[i] = Upsert(rows[i], Recordset(i, fetched[r][i]))
        BY <1>3, <3>1
      <4>2. Columns(rows'[i]) = IF rows[i] = Absent THEN Unedited ELSE Columns(rows[i])
        BY <1>1, <2>3, <3>1, <4>1, UpsertKeepsColumns
      <4> QED
        BY <1>3, <3>1, <4>2 DEF There, CatalogueInv, EditsAreKept
    <3>2. CASE i \notin b
      BY <1>3, <2>6, <3>2 DEF There, CatalogueInv, EditsAreKept
    <3> QED
      BY <3>1, <3>2
  <2>7. EditsAreKept'
    BY <2>6 DEF EditsAreKept, There, Columns
  <2> QED
    BY <1>1, <2>2, <2>4, <2>5, <2>7
       DEF CatalogueInv, CatalogueTypeOK, ShopColumns, FetchedOK, Listed
<1>4. \A b \in Batches(DOMAIN fetched[r]) : b \in SUBSET DOMAIN fetched[r]
  BY DEF Batches, kSubset
<1> QED
  BY <1>2, <1>3, <1>4 DEF Import

\* An administrator's UPDATE.
LEMMA WriteRowKeeps ==
  ASSUME CatalogueInv, NEW i \in Item, NEW row \in Row, WriteRow(i, row),
         UNCHANGED <<nomenclature, fetched>>
  PROVE  CatalogueInv'
<1>1. rows \in [Item -> Row \cup {Absent}] /\ edited \in [Item -> ShopColumns]
  BY DEF CatalogueInv, CatalogueTypeOK, ShopColumns
<1>2. rows' \in [Item -> Row \cup {Absent}] /\ edited' \in [Item -> ShopColumns]
  BY <1>1, ColumnsType DEF WriteRow
<1>3. EditsAreKept'
  BY <1>1 DEF WriteRow, CatalogueInv, EditsAreKept, There, Columns
<1> QED
  BY <1>2, <1>3 DEF CatalogueInv, CatalogueTypeOK, ShopColumns

\* Patch and Delete.
LEMMA EditKeeps ==
  ASSUME CatalogueInv, NEW r \in Req, PatchItem(r) \/ DeleteItem(r)
  PROVE  CatalogueInv'
<1>1. rows \in [Item -> Row \cup {Absent}] /\ edited \in [Item -> ShopColumns]
  BY DEF CatalogueInv, CatalogueTypeOK, ShopColumns
<1>2. UNCHANGED <<nomenclature, fetched>>
  BY DEF PatchItem, DeleteItem
<1>3. CASE UNCHANGED <<rows, edited>>
  BY <1>2, <1>3 DEF CatalogueInv, CatalogueTypeOK, EditsAreKept, There, Columns
<1>4. ASSUME NEW i \in Item, NEW b \in BOOLEAN, WriteRow(i, [rows[i] EXCEPT !.active = b])
      PROVE  CatalogueInv'
  <2>1. [rows[i] EXCEPT !.active = b] \in Row
    BY <1>1, <1>4 DEF WriteRow, There, Row
  <2> QED
    BY <1>2, <1>4, <2>1, WriteRowKeeps
<1>5. ASSUME NEW i \in Item, NEW n \in Names,
             WriteRow(i, [rows[i] EXCEPT !.ru = n, !.uz = n])
      PROVE  CatalogueInv'
  <2>1. [rows[i] EXCEPT !.ru = n, !.uz = n] \in Row
    BY <1>1, <1>5 DEF WriteRow, There, Row
  <2> QED
    BY <1>2, <1>5, <2>1, WriteRowKeeps
<1>6. ASSUME NEW i \in Item, NEW b \in Product \cup {NoBox},
             WriteRow(i, [rows[i] EXCEPT !.box = b])
      PROVE  CatalogueInv'
  <2>1. [rows[i] EXCEPT !.box = b] \in Row
    BY <1>1, <1>6 DEF WriteRow, There, Row
  <2> QED
    BY <1>2, <1>6, <2>1, WriteRowKeeps
<1>7. ASSUME NEW i \in Item, rows' = [rows EXCEPT ![i] = Absent],
             edited' = [edited EXCEPT ![i] = Unedited]
      PROVE  CatalogueInv'
  <2>1. rows' \in [Item -> Row \cup {Absent}] /\ edited' \in [Item -> ShopColumns]
    BY <1>1, <1>7 DEF Unedited, ShopColumns
  <2>2. EditsAreKept'
    BY <1>1, <1>7 DEF CatalogueInv, EditsAreKept, There, Columns
  <2> QED
    BY <1>2, <2>1, <2>2 DEF CatalogueInv, CatalogueTypeOK, ShopColumns
<1> QED
  BY <1>3, <1>4, <1>5, <1>6, <1>7 DEF PatchItem, DeleteItem

\* A step that leaves the tables alone, and changes what is still to be
\* written for one request at most.
LEMMA FetchKeeps ==
  ASSUME CatalogueInv, UNCHANGED <<nomenclature, rows, edited>>, FetchedOK'
  PROVE  CatalogueInv'
  BY DEF CatalogueInv, CatalogueTypeOK, EditsAreKept, There, Columns, FetchedOK, Listed

\* Somebody edits the nomenclature.
LEMMA IikoEditsKeeps ==
  ASSUME CatalogueInv, NEW i \in Item, IikoEdits(i)
  PROVE  CatalogueInv'
<1>1. Listed(nomenclature)
  BY DEF CatalogueInv, CatalogueTypeOK, Listed
<1>2. Listed(nomenclature')
  <2>1. ASSUME NEW e \in Entry, nomenclature' = Put(nomenclature, i, e)
        PROVE  Listed(nomenclature')
    BY <1>1, <2>1 DEF Put, Listed
  <2>2. CASE nomenclature' = Restrict(nomenclature, DOMAIN nomenclature \ {i})
    BY <1>1, <2>2 DEF Restrict, Listed
  <2> QED
    BY <2>1, <2>2 DEF IikoEdits
<1> QED
  BY <1>2 DEF IikoEdits, CatalogueInv, CatalogueTypeOK, EditsAreKept, There, Columns, Listed

\* What iiko lists is of its type.
LEMMA ListingType ==
  ASSUME CatalogueInv, NEW op
  PROVE  Listed(Listing(op))
  BY DEF CatalogueInv, CatalogueTypeOK, Listed, Listing, Restrict

\* At first nobody has edited anything.
LEMMA CatalogueInitInv ==
  ASSUME CatalogueInit
  PROVE  CatalogueInv
<1>1. Listed(nomenclature) /\ DOMAIN nomenclature = Item /\ FetchedOK
  BY FirstListingAssumption, NothingListed DEF CatalogueInit, Listed, FetchedOK
<1>2. rows \in [Item -> Row \cup {Absent}]
  <2>1. CASE rows = [i \in Item |-> Absent]
    BY <2>1
  <2>2. CASE rows = [i \in Item |->
               OnSale(i, IF i \in Product \ {FirstBox} THEN FirstBox ELSE NoBox)]
    BY <1>1, <2>2, FirstBoxAssumption DEF OnSale, Row, Entry, Listed
  <2> QED
    BY <2>1, <2>2 DEF CatalogueInit
<1>3. edited = [i \in Item |-> IF There(i) THEN Columns(rows[i]) ELSE Unedited]
  BY DEF CatalogueInit
<1>4. edited \in [Item -> ShopColumns]
  BY <1>2, <1>3, ColumnsType DEF There, Unedited, ShopColumns
<1>5. EditsAreKept
  BY <1>3 DEF EditsAreKept
<1> QED
  BY <1>1, <1>2, <1>4, <1>5 DEF CatalogueInv, CatalogueTypeOK, ShopColumns, FetchedOK, Listed

----------------------------------------------------------------------------
(* Where the requests go                                                   *)

\* The points of the handlers outside of the client and of the middleware.
ElsewherePC == {l \in {"idle"} \cup CataloguePC \cup PricingPC : l \notin BackPC}

\* They are neither the client's nor the middleware's.
LEMMA ElsewhereIsElsewhere ==
  /\ "idle" \in ElsewherePC /\ "price" \in ElsewherePC /\ "price_box" \in ElsewherePC
  /\ ElsewherePC \cap (TokenPC \cup BackPC \cup MiddlewarePC) = {}
  BY DEF ElsewherePC, CataloguePC, PricingPC, TokenPC, BackPC, MiddlewarePC

\* The operations, and what comes before them, need no call of the client.
LEMMA OpsAreNoCalls ==
  /\ Op \cap (TokenPC \cup BackPC) = {}
  /\ AccessPC \cap (TokenPC \cup BackPC) = {}
  BY RouteOps DEF Op, Out, AccessPC, AdminPC, TokenPC, BackPC

\* Pricing goes from line to line, and ends.
LEMMA PricingMoves ==
  ASSUME NEW r \in Req, PricingStep(r), ~SubmitOrder(r), ~OrderSent(r)
  PROVE  /\ pc[r] \in ElsewherePC
         /\ Goto(r, "idle") \/ Goto(r, "price") \/ Goto(r, "price_box")
         /\ UNCHANGED tokenVars
<1> DEFINE Goes == /\ pc[r] \in ElsewherePC
                   /\ Goto(r, "idle") \/ Goto(r, "price") \/ Goto(r, "price_box")
<1> USE DEF At, ElsewherePC, PricingPC, BackPC, Drop
<1>1. ASSUME ReadPrice(r) PROVE Goes
  BY <1>1 DEF ReadPrice, Missing
<1>2. ASSUME ReadBoxPrice(r) PROVE Goes
  BY <1>2 DEF ReadBoxPrice, Missing
<1>3. ASSUME CreateOrder(r) PROVE Goes
  BY <1>3 DEF CreateOrder
<1>4. ASSUME PlaceOrder(r) PROVE Goes
  BY <1>4 DEF PlaceOrder, Totalled, Reprice
<1>5. ASSUME LinkOrder(r) PROVE Goes
  BY <1>5 DEF LinkOrder, Totalled
<1>6. ASSUME PayOrder(r) PROVE Goes
  BY <1>6 DEF PayOrder, Reprice
<1>7. ASSUME Charge(r) PROVE Goes
  BY <1>7 DEF Charge, Totalled
<1>8. ASSUME SendOrder(r) PROVE Goes
  BY <1>8 DEF SendOrder, Reprice
<1>9. ASSUME SubmitNothing(r) PROVE Goes
  BY <1>9 DEF SubmitNothing, Totalled
<1> HIDE DEF Goes
<1>10. Goes
  BY <1>1, <1>2, <1>3, <1>4, <1>5, <1>6, <1>7, <1>8, <1>9 DEF PricingStep
<1>11. UNCHANGED tokenVars
  BY DEF PricingStep
<1> QED
  BY <1>10, <1>11 DEF Goes

----------------------------------------------------------------------------
(* The steps of the gateway                                                *)

\* Parts of the invariant that a step has nothing to do with.
LEMMA TablesApart ==
  ASSUME CatalogueInv, UNCHANGED catalogueVars
  PROVE  CatalogueInv'
  BY DEF catalogueVars, CatalogueInv, CatalogueTypeOK, EditsAreKept, There, Columns

\* A request comes.
LEMMA RequestKept ==
  ASSUME GatewayInv, NEW r \in Req, Request(r)
  PROVE  Kept
<1>1. PICK op \in Op : Arrive(r, op)
  BY DEF Request
<1>2. UNCHANGED tokenVars /\ UNCHANGED catalogueVars
  BY DEF Request
<1>3. AccessInv'
  BY <1>1, ArriveKeeps DEF GatewayInv
<1>4. /\ pc[r] = "idle" /\ "read_account" \in AccessPC
      /\ Goto(r, op) \/ Goto(r, "read_account")
  BY <1>1 DEF Arrive, At, AccessPC
<1>5. TokenInv' /\ PromiseStep
  <2>1. pc[r] \notin TokenPC \cup BackPC
    BY <1>4 DEF TokenPC, BackPC
  <2>2. op \notin TokenPC \cup BackPC /\ "read_account" \notin TokenPC \cup BackPC
    BY <1>4, OpsAreNoCalls
  <2> QED
    BY <1>2, <1>4, <2>1, <2>2, ElsewhereKeeps DEF GatewayInv
<1>6. CatalogueInv'
  BY <1>2, TablesApart DEF GatewayInv, CatalogueInv
<1> QED
  BY <1>3, <1>5, <1>6 DEF Kept, GatewayInv, CatalogueInv

\* The middleware and the administrators' pages.
LEMMA AccessTurnKept ==
  ASSUME GatewayInv, NEW r \in Req, AccessTurn(r)
  PROVE  Kept
<1>1. UNCHANGED tokenVars /\ UNCHANGED catalogueVars /\ AccessStep(r)
  BY DEF AccessTurn
<1>2. AccessInv'
  BY <1>1, AccessStepKeeps DEF GatewayInv
<1>3. /\ pc[r] \in AccessPC /\ "read_scopes" \in AccessPC
      /\ \/ Goto(r, "idle") \/ Goto(r, "read_scopes")
         \/ visit[r].op \in Op /\ Goto(r, visit[r].op)
  BY <1>1, AccessMoves DEF GatewayInv, AccessPC
<1>4. TokenInv' /\ PromiseStep
  BY <1>1, <1>3, OpsAreNoCalls, ElsewhereIsElsewhere, ElsewhereKeeps DEF GatewayInv
<1>5. CatalogueInv'
  BY <1>1, TablesApart DEF GatewayInv, CatalogueInv
<1> QED
  BY <1>2, <1>4, <1>5 DEF Kept, GatewayInv, CatalogueInv

\* The client, and iiko, move a request that is past the middleware.
LEMMA ClientPastMiddleware ==
  ASSUME GatewayInv, NEW r \in Req, TokenStep(r) \/ AskServed(r), UNCHANGED accessVars
  PROVE  AccessInv'
<1>1. \/ Goto(r, "ask") \/ Goto(r, "renew") \/ Goto(r, "keep")
      \/ Goto(r, "ask_again") \/ Goto(r, client[r].back)
  BY TokenMoves DEF GatewayInv
<1>2. /\ client[r].back \notin MiddlewarePC
      /\ \A l \in {"ask", "renew", "keep", "ask_again"} : l \notin MiddlewarePC
  BY TokenMoves DEF GatewayInv, BackPC, MiddlewarePC
<1> QED
  BY <1>1, <1>2, PastMiddleware DEF GatewayInv, accessVars, tables

\* The client.
LEMMA TokenTurnKept ==
  ASSUME GatewayInv, NEW r \in Req, TokenTurn(r)
  PROVE  Kept
<1>1. TokenInv' /\ PromiseStep
  BY TokenStepKeeps DEF GatewayInv, TokenTurn
<1>2. AccessInv'
  BY ClientPastMiddleware DEF TokenTurn
<1>3. CatalogueInv'
  BY TablesApart DEF GatewayInv, CatalogueInv, TokenTurn
<1> QED
  BY <1>1, <1>2, <1>3 DEF Kept, GatewayInv, CatalogueInv

\* iiko answers.
LEMMA IikoTurnKept ==
  ASSUME GatewayInv, NEW r \in Req, IikoTurn(r)
  PROVE  Kept
<1>1. TokenInv' /\ PromiseStep
  BY AskServedKeeps DEF GatewayInv, IikoTurn
<1>2. AccessInv'
  BY ClientPastMiddleware DEF IikoTurn
<1>3. CatalogueInv
  BY DEF GatewayInv, CatalogueInv
<1>4. FetchedOK
  BY <1>3 DEF CatalogueInv, CatalogueTypeOK, FetchedOK, Listed
<1>5. \/ UNCHANGED fetched
      \/ fetched' = [fetched EXCEPT ![r] = Listing(visit[r].op)]
  BY DEF IikoTurn
<1>6. Listed(Listing(visit[r].op))
  BY <1>3, ListingType
<1>7. FetchedOK'
  BY <1>4, <1>5, <1>6 DEF FetchedOK
<1>8. CatalogueInv'
  BY <1>3, <1>7, FetchKeeps DEF IikoTurn
<1> QED
  BY <1>1, <1>2, <1>8 DEF Kept, GatewayInv, CatalogueInv

\* Imports and edits of the catalogue.
LEMMA CatalogueTurnKept ==
  ASSUME GatewayInv, NEW r \in Req, CatalogueTurn(r)
  PROVE  Kept
<1>0. /\ CatalogueInv /\ AccessInv /\ TokenInv /\ CatalogueStep(r) /\ UNCHANGED tables
      /\ Forget(r) \/ UNCHANGED visit
  BY DEF GatewayInv, CatalogueInv, CatalogueTurn, Served
<1>1. CASE Sync(r)
  <2>1. /\ CallIiko(r, "import") /\ Goto(r, "ensure") /\ UNCHANGED catalogueVars
        /\ pc[r] \in {"sync_product", "sync_category"}
    BY <1>1 DEF Sync, CallIiko, At
  <2>2. /\ pc[r] \notin TokenPC \cup BackPC /\ "import" \in BackPC
        /\ "ensure" \notin MiddlewarePC
    BY <2>1 DEF TokenPC, BackPC, MiddlewarePC
  <2> QED
    BY <1>0, <2>1, <2>2, CallIikoKeeps, PastMiddleware, TablesApart
       DEF Kept, GatewayInv, CatalogueInv
<1>2. CASE Import(r)
  <2>1. /\ UNCHANGED <<pc, tokenVars>> /\ pc[r] = "import"
    BY <1>2 DEF Import, At
  <2>2. UNCHANGED <<pc, accessVars>>
    BY <1>0, <2>1 DEF CatalogueTurn, Served, accessVars, tables
  <2> QED
    BY <1>0, <1>2, <2>1, <2>2, ApartKeeps, AccessApart, ImportKeeps
       DEF Kept, GatewayInv, CatalogueInv
<1>3. CASE ImportEnds(r)
  <2>1. /\ Return(r) /\ Goto(r, "idle") /\ pc[r] \in BackPC
        /\ fetched' = [fetched EXCEPT ![r] = <<>>]
        /\ UNCHANGED <<nomenclature, rows, edited>>
    BY <1>3 DEF ImportEnds, At, BackPC
  <2>2. FetchedOK'
    BY <1>0, <2>1, NothingListed DEF CatalogueInv, CatalogueTypeOK, FetchedOK, Listed
  <2>3. "idle" \notin MiddlewarePC
    BY DEF MiddlewarePC
  <2> QED
    BY <1>0, <2>1, <2>2, <2>3, ReturnKeeps, PastMiddleware, FetchKeeps
       DEF Kept, GatewayInv, CatalogueInv
<1>4. CASE PatchItem(r) \/ DeleteItem(r)
  <2>1. /\ Goto(r, "idle") /\ UNCHANGED tokenVars
        /\ pc[r] \in {"patch_item", "delete_item"}
    BY <1>4 DEF PatchItem, DeleteItem, At
  <2>2. /\ pc[r] \notin TokenPC \cup BackPC /\ "idle" \notin TokenPC \cup BackPC
        /\ "idle" \notin MiddlewarePC
    BY <2>1 DEF TokenPC, BackPC, MiddlewarePC
  <2> QED
    BY <1>0, <1>4, <2>1, <2>2, ElsewhereKeeps, PastMiddleware, EditKeeps
       DEF Kept, GatewayInv, CatalogueInv
<1> QED
  BY <1>0, <1>1, <1>2, <1>3, <1>4 DEF CatalogueStep

\* Orders: what they cost, and sending them.
LEMMA PricingTurnKept ==
  ASSUME GatewayInv, NEW r \in Req, PricingTurn(r)
  PROVE  Kept
<1>0. /\ CatalogueInv /\ AccessInv /\ TokenInv /\ PricingStep(r) /\ UNCHANGED tables
      /\ Forget(r) \/ UNCHANGED visit
  BY DEF GatewayInv, CatalogueInv, PricingTurn, Served
<1>1. CatalogueInv'
  BY <1>0, TablesApart DEF PricingTurn
<1>2. CASE SubmitOrder(r)
  <2>1. CallIiko(r, "sent") /\ Goto(r, "ensure") /\ pc[r] = "price"
    BY <1>2 DEF SubmitOrder, CallIiko, Totalled, At
  <2>2. /\ pc[r] \notin TokenPC \cup BackPC /\ "sent" \in BackPC
        /\ "ensure" \notin MiddlewarePC
    BY <2>1 DEF TokenPC, BackPC, MiddlewarePC
  <2> QED
    BY <1>0, <1>1, <2>1, <2>2, CallIikoKeeps, PastMiddleware
       DEF Kept, GatewayInv, CatalogueInv
<1>3. CASE OrderSent(r)
  <2>1. Return(r) /\ Goto(r, "idle") /\ pc[r] \in BackPC /\ "idle" \notin MiddlewarePC
    BY <1>3 DEF OrderSent, Drop, At, BackPC, MiddlewarePC
  <2> QED
    BY <1>0, <1>1, <2>1, ReturnKeeps, PastMiddleware DEF Kept, GatewayInv, CatalogueInv
<1>4. CASE ~SubmitOrder(r) /\ ~OrderSent(r)
  <2>1. /\ pc[r] \in ElsewherePC /\ UNCHANGED tokenVars
        /\ Goto(r, "idle") \/ Goto(r, "price") \/ Goto(r, "price_box")
    BY <1>0, <1>4, PricingMoves
  <2>2. TokenInv' /\ PromiseStep
    BY <1>0, <2>1, ElsewhereIsElsewhere, ElsewhereKeeps
  <2>3. AccessInv'
    BY <1>0, <2>1, ElsewhereIsElsewhere, PastMiddleware
  <2> QED
    BY <1>1, <2>2, <2>3 DEF Kept, GatewayInv, CatalogueInv
<1> QED
  BY <1>2, <1>3, <1>4

\* The server restarts.
LEMMA CrashKept ==
  ASSUME GatewayInv, GatewayCrash
  PROVE  Kept
<1>1. TokenInv' /\ PromiseStep
  BY RestartKeeps DEF GatewayInv, GatewayCrash
<1>2. AccessInv'
  BY NoVisitType
     DEF GatewayInv, GatewayCrash, AccessInv, PCOK, AccessTypeOK, VisitorsKnown,
         ServedUnderOwnRole, PermissionsShown, HiredHaveAccounts, CanLogIn,
         MiddlewarePC, Visit, tables
<1>3. FetchedOK'
  BY NothingListed DEF GatewayCrash, FetchedOK
<1>4. CatalogueInv'
  BY <1>3, FetchKeeps DEF GatewayInv, GatewayCrash, CatalogueInv
<1> QED
  BY <1>1, <1>2, <1>4 DEF Kept, GatewayInv, CatalogueInv

\* A token expires, or the nomenclature is edited.
LEMMA EnvironmentKept ==
  ASSUME GatewayInv, TokenExpires \/ NomenclatureEdited
  PROVE  Kept
<1>1. CASE TokenExpires
  <2>1. TokenInv' /\ PromiseStep /\ UNCHANGED pc
    BY <1>1, ExpireKeeps DEF GatewayInv, TokenExpires, Expire
  <2>2. AccessInv' /\ CatalogueInv'
    BY <1>1, <2>1, AccessApart, TablesApart DEF GatewayInv, TokenExpires, CatalogueInv
  <2> QED
    BY <2>1, <2>2 DEF Kept, GatewayInv, CatalogueInv
<1>2. CASE NomenclatureEdited
  <2>1. TokenInv' /\ PromiseStep /\ AccessInv'
    BY <1>2, ApartKeeps, AccessApart DEF GatewayInv, NomenclatureEdited
  <2>2. CatalogueInv'
    BY <1>2, IikoEditsKeeps DEF GatewayInv, NomenclatureEdited, CatalogueInv
  <2> QED
    BY <2>1, <2>2 DEF Kept, GatewayInv, CatalogueInv
<1> QED
  BY <1>1, <1>2

\* Every step of the gateway.
LEMMA NextKept ==
  ASSUME GatewayInv, [GatewayNext]_gatewayVars
  PROVE  Kept
<1>1. CASE UNCHANGED gatewayVars
  <2>1. UNCHANGED <<pc, tokenVars>> /\ UNCHANGED <<pc, accessVars>>
        /\ UNCHANGED catalogueVars
    BY <1>1 DEF gatewayVars
  <2> QED
    BY <2>1, ApartKeeps, AccessApart, TablesApart DEF Kept, GatewayInv, CatalogueInv
<1> QED
  BY <1>1, RequestKept, AccessTurnKept, TokenTurnKept, IikoTurnKept, CatalogueTurnKept,
     PricingTurnKept, CrashKept, EnvironmentKept
     DEF GatewayNext, Handler

----------------------------------------------------------------------------
(* The theorems                                                            *)

\* At first the invariant holds, and nobody has called.
LEMMA InitInv ==
  ASSUME GatewayInit
  PROVE  GatewayInv /\ Promise!Init
  BY AccessInitInv, TokenInitInv, CatalogueInitInv DEF GatewayInit, GatewayInv, CatalogueInv

\* The invariant, on which the theorems rest.
THEOREM GatewayInvariant == GatewaySpec => []GatewayInv
<1>1. GatewayInit => GatewayInv
  BY InitInv
<1>2. GatewayInv /\ [GatewayNext]_gatewayVars => GatewayInv'
  BY NextKept DEF Kept
<1> QED
  BY <1>1, <1>2, PTL DEF GatewaySpec

\* Types, of everything but the orders' prices: a row of the catalogue, an
\* account, a role and a call always are what their readers take them for.
THEOREM GatewayTypes ==
  GatewaySpec => [](TokenTypeOK /\ CatalogueTypeOK /\ AccessTypeOK)
<1>1. GatewayInv => TokenTypeOK /\ CatalogueTypeOK /\ AccessTypeOK
  BY DEF GatewayInv, TokenInv, AccessInv
<1> QED
  BY <1>1, GatewayInvariant, PTL

\* A request is served under the role that its account has, and that role is
\* still there (Perm, GetMe, the foreign keys of admins and employees).
THEOREM RolesReadAreRoles == GatewaySpec => []ServedUnderOwnRole
<1>1. GatewayInv => ServedUnderOwnRole
  BY DEF GatewayInv, AccessInv
<1> QED
  BY <1>1, GatewayInvariant, PTL

\* Who was hired has an account (employee_repo.Create).
THEOREM HiredCanLogIn == GatewaySpec => []HiredHaveAccounts
<1>1. GatewayInv => HiredHaveAccounts
  BY DEF GatewayInv, AccessInv
<1> QED
  BY <1>1, GatewayInvariant, PTL

\* No import undoes what administrators edited, whatever runs beside it and
\* wherever it fails (the upserts of category_repo and product_repo).
THEOREM ImportsKeepEdits == GatewaySpec => []EditsAreKept
<1>1. GatewayInv => EditsAreKept
  BY DEF GatewayInv
<1> QED
  BY <1>1, GatewayInvariant, PTL

\* The client with its tokens, retries and races is a call that iiko acts on
\* at most once, and whose "ok" is true (CreateOrder, GetCategory, GetProduct).
THEOREM ClientKeepsPromise == GatewaySpec => ImplementsIikoCall
<1>1. GatewayInit => Promise!Init
  BY InitInv
<1>2. GatewayInv /\ [GatewayNext]_gatewayVars => [Promise!Next]_(Promise!iikoCallVars)
  BY NextKept DEF Kept, PromiseStep
<1> QED
  BY <1>1, <1>2, GatewayInvariant, PTL DEF GatewaySpec, ImplementsIikoCall, Promise!Spec

----------------------------------------------------------------------------
(* The ray test on the rectangles that most of the zones are              *)

\* A factor that is positive does not change the sign.
LEMMA SignOfProduct ==
  ASSUME NEW m \in Int, NEW n \in Int
  PROVE  /\ n > 0 => (m * n < 0 <=> m < 0)
         /\ n < 0 => (m * n > 0 <=> m < 0)
  BY Z3

\* Only the edges to the west and to the east can meet the ray.
LEMMA EdgesOfRectangle ==
  ASSUME NEW a \in Point,
         NEW w \in Int, NEW s \in Int, NEW e \in Int, NEW n \in Int,
         s < n, NEW i \in 1 .. 5
  PROVE  Intersects(a, Rectangle(w, s, e, n)[i], Before(Rectangle(w, s, e, n), i))
           <=> /\ s <= a[2] /\ a[2] < n
               /\ \/ i = 2 /\ a[1] < w
                  \/ i = 4 /\ a[1] < e
<1>1. a[1] \in Int /\ a[2] \in Int
  BY DEF Point
<1>2. CASE i \notin {2, 4}
  <2>1. Rectangle(w, s, e, n)[i][2] = Before(Rectangle(w, s, e, n), i)[2]
    BY <1>2 DEF Rectangle, Before
  <2> QED
    BY <1>2, <2>1 DEF Intersects, Straddles
<1>3. CASE i = 2
  <2>1. /\ Rectangle(w, s, e, n)[i] = <<w, s>>
        /\ Before(Rectangle(w, s, e, n), i) = <<w, n>>
    BY <1>3 DEF Rectangle, Before
  <2>2. LeftOf(a, <<w, s>>, <<w, n>>) <=> (a[1] - w) * (n - s) < 0
    BY <1>1 DEF LeftOf
  <2>3. (a[1] - w) * (n - s) < 0 <=> a[1] < w
    BY <1>1, SignOfProduct
  <2>4. Straddles(a, <<w, s>>, <<w, n>>) <=> s <= a[2] /\ a[2] < n
    BY <1>1 DEF Straddles
  <2> QED
    BY <1>3, <2>1, <2>2, <2>3, <2>4 DEF Intersects
<1>4. CASE i = 4
  <2>1. /\ Rectangle(w, s, e, n)[i] = <<e, n>>
        /\ Before(Rectangle(w, s, e, n), i) = <<e, s>>
    BY <1>4 DEF Rectangle, Before
  <2>2. LeftOf(a, <<e, n>>, <<e, s>>) <=> (a[1] - e) * (s - n) > 0
    BY <1>1 DEF LeftOf
  <2>3. (a[1] - e) * (s - n) > 0 <=> a[1] < e
    BY <1>1, SignOfProduct
  <2>4. Straddles(a, <<e, n>>, <<e, s>>) <=> s <= a[2] /\ a[2] < n
    BY <1>1 DEF Straddles
  <2> QED
    BY <1>4, <2>1, <2>2, <2>3, <2>4 DEF Intersects
<1> QED
  BY <1>2, <1>3, <1>4

\* A rectangle contains its points, its western and its southern border, and
\* nothing else: the ray test of pointInRing is right at the latitude of the
\* corners too, and of two rectangles that share a border one has it.
THEOREM RectangleContains ==
  ASSUME NEW a \in Point,
         NEW w \in Int, NEW s \in Int, NEW e \in Int, NEW n \in Int,
         w < e, s < n
  PROVE  PointInRing(a, Rectangle(w, s, e, n))
           <=> w <= a[1] /\ a[1] < e /\ s <= a[2] /\ a[2] < n
<1> DEFINE R == Rectangle(w, s, e, n)
           crossed == {i \in DOMAIN R : Intersects(a, R[i], Before(R, i))}
<1>1. DOMAIN R = 1 .. 5 /\ Len(R) = 5
  BY DEF Rectangle
<1>2. a[1] \in Int /\ a[2] \in Int
  BY DEF Point
<1>3. crossed = {i \in {2, 4} : /\ s <= a[2] /\ a[2] < n
                               /\ \/ i = 2 /\ a[1] < w
                                  \/ i = 4 /\ a[1] < e}
  <2>1. \A i \in 1 .. 5 :
          Intersects(a, R[i], Before(R, i))
            <=> /\ s <= a[2] /\ a[2] < n
                /\ \/ i = 2 /\ a[1] < w
                   \/ i = 4 /\ a[1] < e
    BY EdgesOfRectangle
  <2>2. crossed = {i \in 1 .. 5 : Intersects(a, R[i], Before(R, i))}
    BY <1>1
  <2> HIDE DEF R, crossed
  <2> QED
    BY <2>1, <2>2
<1>4. PointInRing(a, R) <=> Cardinality(crossed) % 2 = 1
  BY <1>1 DEF PointInRing
<1>5. CASE s <= a[2] /\ a[2] < n /\ a[1] < w
  <2>1. crossed = {2, 4}
    BY <1>2, <1>3, <1>5
  <2>2. Cardinality({2, 4}) = 2
    <3>1. IsFiniteSet({2}) /\ Cardinality({2}) = 1
      BY FS_Singleton
    <3>2. Cardinality({2} \cup {4}) = 1 + 1
      BY <3>1, FS_AddElement
    <3> QED
      BY <3>2, {2, 4} = {2} \cup {4}
  <2>3. ~PointInRing(a, R)
    BY <1>4, <2>1, <2>2
  <2> QED
    BY <1>2, <1>5, <2>3
<1>6. CASE s <= a[2] /\ a[2] < n /\ w <= a[1] /\ a[1] < e
  <2>1. crossed = {4}
    BY <1>2, <1>3, <1>6
  <2>2. Cardinality({4}) = 1
    BY FS_Singleton
  <2>3. PointInRing(a, R)
    BY <1>4, <2>1, <2>2
  <2> QED
    BY <1>6, <2>3
<1>7. CASE ~(s <= a[2] /\ a[2] < n) \/ e <= a[1]
  <2>1. crossed = {}
    BY <1>2, <1>3, <1>7
  <2>2. ~PointInRing(a, R)
    BY <1>4, <2>1, FS_EmptySet
  <2> QED
    BY <1>2, <1>7, <2>2
<1> QED
  BY <1>2, <1>5, <1>6, <1>7
=============================================================================
