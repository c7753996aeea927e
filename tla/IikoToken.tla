----------------------------- MODULE IikoToken -----------------------------
(***************************************************************************)
(* The iiko client: a call reads the token that the table iiko_tokens      *)
(* keeps, and when iiko answers 401 it fetches a new token, stores it and  *)
(* tries once more with the token it fetched.  Any number of requests do   *)
(* so at the same time, over one row.                                      *)
(***************************************************************************)
EXTENDS Requests

CONSTANT MaxTokens   \* bound: tokens that iiko issues

ASSUME MaxTokensAssumption == MaxTokens \in Nat \ {0}

VARIABLES
  stored,    \* the token in the row of iiko_tokens, or NoToken
  issued,    \* how many tokens iiko has issued: they are 1 .. issued
  expired,   \* those that iiko answers with 401
  client,    \* client[r]: the locals of the call that r is in
  served     \* served[r]: how many times iiko acted on that call

tokenVars == <<stored, issued, expired, client, served>>

\* No row has the id 1 yet.
NoToken == 0
Token == 1 .. MaxTokens

TokenPC == {"ensure", "ask", "renew", "keep", "ask_again"}

NoCall == [token |-> NoToken, answer |-> "none", back |-> "idle"]

\* Somebody put the first token there, or nobody did.
TokenInit ==
  /\ stored = IF "no_token" \in mix THEN NoToken ELSE 1
  /\ issued = stored
  /\ expired = {}
  /\ client = [r \in Req |-> NoCall]
  /\ served = [r \in Req |-> 0]

----------------------------------------------------------------------------
\* A handler calls the client and goes on at l.
CallIiko(r, l) ==
  /\ Goto(r, "ensure")
  /\ client' = [client EXCEPT ![r].back = l]
  /\ UNCHANGED <<stored, issued, expired, served>>

\* The handler goes on and forgets the call.
Return(r) ==
  /\ client' = [client EXCEPT ![r] = NoCall]
  /\ served' = [served EXCEPT ![r] = 0]
  /\ UNCHANGED <<stored, issued, expired>>

Answer(r, a) ==
  /\ Goto(r, client[r].back)
  /\ client' = [client EXCEPT ![r].answer = a]

Proceed(r, l, t) ==
  /\ Goto(r, l)
  /\ client' = [client EXCEPT ![r].token = t]

\* EnsureValidIikoToken.  A table without the row is an error, too: the
\* branch that would fetch the first token compares the error with
\* sql.ErrNoRows by ==, and pgx returns an error of its own that only wraps it.
EnsureToken(r) ==
  /\ At(r, "ensure")
  /\ \/ stored # NoToken /\ Proceed(r, "ask", stored)
     \/ (stored = NoToken \/ MayFail("db")) /\ Answer(r, "error")
  /\ UNCHANGED <<stored, issued, expired, served>>

Asking(r) == pc[r] \in {"ask", "ask_again"}

Accepted(r) == Asking(r) /\ client[r].token \notin expired

AskServedRetried(r) ==
  /\ Accepted(r)
  /\ served' = [served EXCEPT ![r] = @ + 1]
  /\ \/ Answer(r, "ok")
     \/ MayFail("iiko") /\ At(r, "ask") /\ Goto(r, "renew") /\ UNCHANGED client
     \/ MayFail("iiko") /\ At(r, "ask_again") /\ Answer(r, "error")
  /\ UNCHANGED <<stored, issued, expired>>

\* iiko acts on the call; its answer arrives, or does not arrive in time.
AskServed(r) ==
  /\ Accepted(r)
  /\ served' = [served EXCEPT ![r] = @ + 1]
  /\ \/ Answer(r, "ok")
     \/ MayFail("iiko") /\ Answer(r, "error")
  /\ UNCHANGED <<stored, issued, expired>>

\* iiko cannot be reached, or refuses what is asked.
AskFailed(r) ==
  /\ Asking(r)
  /\ MayFail("iiko")
  /\ Answer(r, "error")
  /\ UNCHANGED <<stored, issued, expired, served>>

\* 401: once it is a reason to try again.
AskExpired(r) ==
  /\ Asking(r)
  /\ client[r].token \in expired
  /\ \/ At(r, "ask") /\ Goto(r, "renew") /\ UNCHANGED client
     \/ At(r, "ask_again") /\ Answer(r, "error")
  /\ UNCHANGED <<stored, issued, expired, served>>

\* GetIikoAccessToken, the request (at the bound, iiko refuses).
Renew(r) ==
  /\ At(r, "renew")
  /\ \/ /\ issued < MaxTokens
        /\ issued' = issued + 1
        /\ Proceed(r, "keep", issued + 1)
     \/ /\ MayFail("iiko") \/ issued = MaxTokens
        /\ Answer(r, "error")
        /\ UNCHANGED issued
  /\ UNCHANGED <<stored, expired, served>>

\* GetIikoAccessToken, the upsert: an older token may overwrite a newer one.
KeepToken(r) ==
  /\ At(r, "keep")
  /\ \/ /\ stored' = client[r].token
        /\ Goto(r, "ask_again")
        /\ UNCHANGED client
     \/ MayFail("db") /\ Answer(r, "error") /\ UNCHANGED stored
  /\ UNCHANGED <<issued, expired, served>>

\* A token that iiko has issued expires there.
Expire(t) ==
  /\ "expire" \in mix
  /\ t \in (1 .. issued) \ expired
  /\ expired' = expired \cup {t}
  /\ UNCHANGED <<pc, stored, issued, client, served>>

\* What the client does by itself, apart from iiko's acting on the call.
TokenStep(r) ==
  EnsureToken(r) \/ AskFailed(r) \/ AskExpired(r) \/ Renew(r) \/ KeepToken(r)

----------------------------------------------------------------------------
TokenTypeOK ==
  /\ issued \in 0 .. MaxTokens
  /\ stored \in 0 .. issued
  /\ expired \subseteq 1 .. issued
  /\ client \in [Req -> [token  : {NoToken} \cup Token,
                         answer : {"none", "ok", "error"},
                         back   : {"idle", "import", "sent"}]]
  /\ served \in [Req -> {0, 1}]

\* However tokens expire and whichever requests refresh them at once, a call
\* is acted on at most once and "ok" is true: the retry after a 401 repeats
\* only what iiko refused (CreateOrder, GetCategory, GetProduct).
Phase(r) ==
  CASE client[r].answer # "none" -> "answered"
    [] client[r].answer = "none" /\ pc[r] \in TokenPC -> "calling"
    [] OTHER                     -> "idle"

Promise == INSTANCE IikoCall WITH
  phase <- [r \in Req |-> Phase(r)],
  verdict <- [r \in Req |-> client[r].answer]

ImplementsIikoCall == Promise!Spec

\* A table that has no token gets its first one: as long as nothing fails and
\* no token expires, every import and every submission is answered
\* (EnsureValidIikoToken, "no token stored yet"; at the bound iiko refuses).
FirstTokenIsFetched ==
  \A r \in Req :
    client[r].answer = "error" =>
      MayFail("db") \/ MayFail("iiko") \/ expired # {} \/ issued = MaxTokens
=============================================================================
