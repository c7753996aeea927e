------------------------------ MODULE IikoCall ------------------------------
(***************************************************************************)
(* What a call of the iiko client promises the handler that makes it, with *)
(* neither tokens nor retries: iiko acts on the call at most once, and the *)
(* handler hears "ok" only if it did.  An error tells nothing: the answer  *)
(* may have been lost after iiko had acted.                                *)
(***************************************************************************)
EXTENDS Naturals

CONSTANT Req

VARIABLES
  phase,     \* phase[r]: "idle", "calling" or "answered"
  verdict,   \* verdict[r]: what r was told
  served     \* served[r]: how many times iiko acted on r's call

iikoCallVars == <<phase, verdict, served>>

Init ==
  /\ phase = [r \in Req |-> "idle"]
  /\ verdict = [r \in Req |-> "none"]
  /\ served = [r \in Req |-> 0]

Call(r) ==
  /\ phase[r] = "idle"
  /\ phase' = [phase EXCEPT ![r] = "calling"]
  /\ UNCHANGED <<verdict, served>>

Settle(r, n, v) ==
  /\ phase[r] = "calling"
  /\ v = "ok" => n = 1
  /\ phase' = [phase EXCEPT ![r] = "answered"]
  /\ verdict' = [verdict EXCEPT ![r] = v]
  /\ served' = [served EXCEPT ![r] = n]

Return(r) ==
  /\ phase[r] = "answered"
  /\ phase' = [phase EXCEPT ![r] = "idle"]
  /\ verdict' = [verdict EXCEPT ![r] = "none"]
  /\ served' = [served EXCEPT ![r] = 0]

\* The server stops: whoever was calling never learns what came of it.
Vanish == phase' = [r \in Req |-> "idle"]
            /\ verdict' = [r \in Req |-> "none"]
            /\ served' = [r \in Req |-> 0]

Next ==
  \/ \E r \in Req :
       \/ Call(r) \/ Return(r)
       \/ \E n \in {0, 1}, v \in {"ok", "error"} : Settle(r, n, v)
  \/ Vanish

Spec == Init /\ [][Next]_iikoCallVars
=============================================================================
