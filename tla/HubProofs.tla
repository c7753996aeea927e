----------------------------- MODULE HubProofs -----------------------------
(***************************************************************************)
(* A page whose connection is open misses nothing: proved for any number   *)
(* of users, connections and broadcasting goroutines, any capacity.        *)
(***************************************************************************)
EXTENDS Hub, TLAPS

\* Where the goroutines are decides what their variables hold.
Bookkeeping ==
  /\ \A c \in Clients :
       /\ reader[c] \in {"none", "register", "run"} => writer[c] = "none"
       /\ writer[c] \in {"none", "select"} => msg[c] = NoEvent
       /\ writer[c] = "write" => msg[c] \in Events
       /\ reader[c] = "none" => /\ due[c] = {}
                                /\ \A u \in Users : c \notin clients[u]
  /\ \A s \in Senders :
       /\ pc[s] # "send" => snapshot[s] = {}
       /\ pc[s] # "idle" => event[s] \in Events

HubInv == HubTypeOK /\ Bookkeeping /\ NothingMissedWhileOpen

----------------------------------------------------------------------------
(* The queue                                                               *)

Contents(q) == {q[i] : i \in DOMAIN q}

\* Putting into a queue (the send of SendRaw) adds the message and keeps the
\* others.
LEMMA Put ==
  ASSUME NEW q \in Seq(Events), NEW e \in Events
  PROVE  /\ Append(q, e) \in Seq(Events)
         /\ Len(Append(q, e)) = Len(q) + 1
         /\ Contents(Append(q, e)) = Contents(q) \cup {e}
<1>1. /\ Append(q, e) \in Seq(Events)
      /\ Len(Append(q, e)) = Len(q) + 1
      /\ DOMAIN q = 1 .. Len(q)
      /\ DOMAIN Append(q, e) = 1 .. Len(q) + 1
  OBVIOUS
<1>2. /\ \A i \in 1 .. Len(q) : Append(q, e)[i] = q[i]
      /\ Append(q, e)[Len(q) + 1] = e
  OBVIOUS
<1>3. Contents(Append(q, e)) \subseteq Contents(q) \cup {e}
  <2> SUFFICES ASSUME NEW i \in 1 .. Len(q) + 1
               PROVE  Append(q, e)[i] \in Contents(q) \cup {e}
    BY <1>1 DEF Contents
  <2>1. CASE i \in 1 .. Len(q)
    BY <2>1, <1>1, <1>2 DEF Contents
  <2>2. CASE i = Len(q) + 1
    BY <2>2, <1>2
  <2> QED
    BY <2>1, <2>2
<1>4. Contents(q) \subseteq Contents(Append(q, e))
  BY <1>1, <1>2 DEF Contents
<1>5. e \in Contents(Append(q, e))
  <2>1. Len(q) + 1 \in DOMAIN Append(q, e)
    BY <1>1
  <2> QED
    BY <2>1, <1>2 DEF Contents
<1> QED
  BY <1>1, <1>3, <1>4, <1>5

\* Taking from a queue (the receive of writePump) loses nothing but the head.
LEMMA Taken ==
  ASSUME NEW q \in Seq(Events), q # <<>>
  PROVE  /\ Head(q) \in Events
         /\ Tail(q) \in Seq(Events)
         /\ Len(Tail(q)) = Len(q) - 1
         /\ Contents(q) \subseteq Contents(Tail(q)) \cup {Head(q)}
<1>1. /\ Head(q) \in Events
      /\ Tail(q) \in Seq(Events)
      /\ Len(Tail(q)) = Len(q) - 1
      /\ Len(q) \in Nat \ {0}
      /\ DOMAIN q = 1 .. Len(q)
      /\ DOMAIN Tail(q) = 1 .. Len(q) - 1
      /\ Head(q) = q[1]
      /\ \A i \in 1 .. Len(q) - 1 : Tail(q)[i] = q[i + 1]
  OBVIOUS
<1>2. ASSUME NEW i \in 1 .. Len(q)
      PROVE  q[i] \in Contents(Tail(q)) \cup {Head(q)}
  <2>1. CASE i = 1
    BY <2>1, <1>1
  <2>2. CASE i # 1
    <3>1. i - 1 \in 1 .. Len(q) - 1 /\ Tail(q)[i - 1] = q[i]
      BY <2>2, <1>1
    <3> QED
      BY <3>1, <1>1 DEF Contents
  <2> QED
    BY <2>1, <2>2
<1> QED
  BY <1>1, <1>2 DEF Contents

----------------------------------------------------------------------------
(* What one page is told                                                   *)

\* Of the page c alone: nothing is missed, with the senders' part given as the
\* set of events that are about to be put into its queue.
Coming(c) == {event[s] : s \in {t \in Senders : c \in snapshot[t]}}

Covered(c) ==
  conn[c] = "open" =>
    due[c] \subseteq written[c] \cup Contents(send[c]) \cup {msg[c]} \cup Coming(c)

\* The property, page by page.
LEMMA MissedIsUncovered ==
  NothingMissedWhileOpen <=> \A c \in Clients : Covered(c)
BY DEF NothingMissedWhileOpen, OnItsWay, Queued, Contents, Covered, Coming

\* HubInit establishes the invariant: nothing is due.
LEMMA InitHubInv == HubInit => HubInv
<1> SUFFICES ASSUME HubInit
             PROVE  HubInv
  OBVIOUS
<1>1. /\ <<>> \in Seq(Events)
      /\ Len(<<>>) = 0 /\ 0 <= Capacity
  BY CapacityAssumption
<1>2. /\ send \in [Clients -> Seq(Events)]
      /\ \A c \in Clients : Len(send[c]) <= Capacity
  BY <1>1 DEF HubInit
<1>3. HubTypeOK
  <2>1. published \in 0 .. MaxEvents
    BY MaxEventsAssumption DEF HubInit
  <2>2. /\ event \in [Senders -> Events \cup {NoEvent}]
        /\ msg \in [Clients -> Events \cup {NoEvent}]
    BY DEF HubInit
  <2> QED
    BY <1>2, <2>1, <2>2 DEF HubInit, HubTypeOK
<1>4. Bookkeeping
  BY DEF HubInit, Bookkeeping, NoEvent
<1>5. NothingMissedWhileOpen
  BY DEF HubInit, NothingMissedWhileOpen
<1> QED
  BY <1>3, <1>4, <1>5 DEF HubInv

----------------------------------------------------------------------------
(* Types                                                                   *)

\* Every step keeps the types.
LEMMA TypeStep ==
  ASSUME HubInv, HubNext
  PROVE  HubTypeOK'
<1> USE DEF HubInv, connVars, senderVars
<1>1. ASSUME NEW c \in Clients, Connect(c)
      PROVE  HubTypeOK'
  BY <1>1 DEF HubTypeOK, Connect
<1>2. ASSUME NEW c \in Clients, Register(c)
      PROVE  HubTypeOK'
  BY <1>2 DEF HubTypeOK, Register
<1>3. ASSUME NEW c \in Clients, Run(c)
      PROVE  HubTypeOK'
  BY <1>3 DEF HubTypeOK, Run
<1>4. ASSUME NEW c \in Clients, ReadFails(c)
      PROVE  HubTypeOK'
  BY <1>4 DEF HubTypeOK, ReadFails
<1>5. ASSUME NEW c \in Clients, Unregister(c)
      PROVE  HubTypeOK'
  BY <1>5 DEF HubTypeOK, Unregister
<1>6. ASSUME NEW c \in Clients, ReaderCloses(c)
      PROVE  HubTypeOK'
  BY <1>6 DEF HubTypeOK, ReaderCloses
<1>7. ASSUME NEW c \in Clients, Take(c)
      PROVE  HubTypeOK'
  <2>1. /\ Head(send[c]) \in Events
        /\ Tail(send[c]) \in Seq(Events)
        /\ Len(Tail(send[c])) = Len(send[c]) - 1
    BY <1>7, Taken DEF HubTypeOK, Take
  <2>2. Len(send[c]) \in Nat
    BY DEF HubTypeOK
  <2> QED
    BY <1>7, <2>1, <2>2, CapacityAssumption DEF HubTypeOK, Take
<1>8. ASSUME NEW c \in Clients, Write(c)
      PROVE  HubTypeOK'
  BY <1>8 DEF HubTypeOK, Bookkeeping, Write
<1>9. ASSUME NEW c \in Clients, WriteFails(c)
      PROVE  HubTypeOK'
  BY <1>9 DEF HubTypeOK, WriteFails
<1>10. CASE RegisterAdmin
  BY <1>10 DEF HubTypeOK, RegisterAdmin
<1>11. ASSUME NEW s \in Senders, NEW u \in Users, Broadcast(s, u)
      PROVE  HubTypeOK'
  BY <1>11, MaxEventsAssumption DEF HubTypeOK, Broadcast, Events
<1>12. ASSUME NEW s \in Senders, CopyClients(s)
      PROVE  HubTypeOK'
  BY <1>12 DEF HubTypeOK, Bookkeeping, CopyClients, Serve
<1>13. ASSUME NEW s \in Senders, NEW c \in Clients, SendRaw(s, c)
      PROVE  HubTypeOK'
  <2>1. event[s] \in Events
    BY <1>13 DEF Bookkeeping, SendRaw
  <2>2. /\ Append(send[c], event[s]) \in Seq(Events)
        /\ Len(Append(send[c], event[s])) = Len(send[c]) + 1
        /\ Len(send[c]) \in Nat
    BY <2>1, Put DEF HubTypeOK
  <2>3. /\ send' \in [Clients -> Seq(Events)]
        /\ \A d \in Clients : Len(send'[d]) <= Capacity
    <3>1. CASE /\ Len(send[c]) < Capacity
               /\ send' = [send EXCEPT ![c] = Append(send[c], event[s])]
      BY <3>1, <2>2, CapacityAssumption DEF HubTypeOK
    <3>2. CASE UNCHANGED send
      BY <3>2 DEF HubTypeOK
    <3> QED
      BY <1>13, <3>1, <3>2 DEF SendRaw
  <2>4. /\ conn' \in [Clients -> {"none", "open", "closed"}]
        /\ event' \in [Senders -> Events \cup {NoEvent}]
        /\ snapshot' \in [Senders -> SUBSET Clients]
        /\ pc' \in [Senders -> {"idle", "lock", "send"}]
    BY <1>13 DEF HubTypeOK, SendRaw, Serve
  <2> QED
    BY <1>13, <2>3, <2>4 DEF HubTypeOK, SendRaw
<1> QED
  BY <1>1, <1>2, <1>3, <1>4, <1>5, <1>6, <1>7, <1>8, <1>9, <1>10, <1>11,
     <1>12, <1>13 DEF HubNext

\* Every step keeps what the places of the goroutines say.
LEMMA BookkeepingStep ==
  ASSUME HubInv, HubNext
  PROVE  Bookkeeping'
<1> USE DEF HubInv, connVars, senderVars
<1>1. ASSUME NEW c \in Clients, Connect(c)
      PROVE  Bookkeeping'
  BY <1>1 DEF HubTypeOK, Bookkeeping, Connect
<1>2. ASSUME NEW c \in Clients, Register(c)
      PROVE  Bookkeeping'
  BY <1>2 DEF HubTypeOK, Bookkeeping, Register
<1>3. ASSUME NEW c \in Clients, Run(c)
      PROVE  Bookkeeping'
  BY <1>3 DEF HubTypeOK, Bookkeeping, Run
<1>4. ASSUME NEW c \in Clients, ReadFails(c)
      PROVE  Bookkeeping'
  BY <1>4 DEF HubTypeOK, Bookkeeping, ReadFails
<1>5. ASSUME NEW c \in Clients, Unregister(c)
      PROVE  Bookkeeping'
  BY <1>5 DEF HubTypeOK, Bookkeeping, Unregister
<1>6. ASSUME NEW c \in Clients, ReaderCloses(c)
      PROVE  Bookkeeping'
  BY <1>6 DEF HubTypeOK, Bookkeeping, ReaderCloses
<1>7. ASSUME NEW c \in Clients, Take(c)
      PROVE  Bookkeeping'
  <2>1. Head(send[c]) \in Events
    BY <1>7, Taken DEF HubTypeOK, Take
  <2> QED
    BY <1>7, <2>1 DEF HubTypeOK, Bookkeeping, Take
<1>8. ASSUME NEW c \in Clients, Write(c)
      PROVE  Bookkeeping'
  BY <1>8 DEF HubTypeOK, Bookkeeping, Write
<1>9. ASSUME NEW c \in Clients, WriteFails(c)
      PROVE  Bookkeeping'
  BY <1>9 DEF HubTypeOK, Bookkeeping, WriteFails
<1>10. CASE RegisterAdmin
  BY <1>10 DEF HubTypeOK, Bookkeeping, RegisterAdmin
<1>11. ASSUME NEW s \in Senders, NEW u \in Users, Broadcast(s, u)
      PROVE  Bookkeeping'
  BY <1>11, MaxEventsAssumption DEF HubTypeOK, Bookkeeping, Broadcast, Events
<1>12. ASSUME NEW s \in Senders, CopyClients(s)
      PROVE  Bookkeeping'
  BY <1>12 DEF HubTypeOK, Bookkeeping, CopyClients, Serve
<1>13. ASSUME NEW s \in Senders, NEW c \in Clients, SendRaw(s, c)
      PROVE  Bookkeeping'
  BY <1>13 DEF HubTypeOK, Bookkeeping, SendRaw, Serve
<1> QED
  BY <1>1, <1>2, <1>3, <1>4, <1>5, <1>6, <1>7, <1>8, <1>9, <1>10, <1>11,
     <1>12, <1>13 DEF HubNext

----------------------------------------------------------------------------
(* What is coming                                                          *)

\* The hub's part of Covered changes with the senders' snapshots only.
LEMMA ComingKept ==
  ASSUME UNCHANGED <<event, snapshot>>, NEW d \in Clients
  PROVE  Coming(d)' = Coming(d)
BY DEF Coming

\* A handler that starts a broadcast serves nobody yet.
LEMMA ComingAtBroadcast ==
  ASSUME HubInv, NEW s \in Senders, NEW u \in Users, Broadcast(s, u),
         NEW d \in Clients
  PROVE  Coming(d) \subseteq Coming(d)'
<1>1. /\ snapshot' = snapshot
      /\ snapshot[s] = {}
      /\ \A t \in Senders \ {s} : event'[t] = event[t]
  BY DEF HubInv, HubTypeOK, Bookkeeping, Broadcast
<1> SUFFICES ASSUME NEW t \in Senders, d \in snapshot[t]
             PROVE  event[t] \in Coming(d)'
  BY DEF Coming
<1>2. t # s
  BY <1>1
<1>3. d \in snapshot'[t] /\ event'[t] = event[t]
  BY <1>1, <1>2
<1> QED
  BY <1>3 DEF Coming

\* The copy of the connections makes the event come to each of them.
LEMMA ComingAtCopy ==
  ASSUME HubInv, NEW s \in Senders, CopyClients(s), NEW d \in Clients
  PROVE  due'[d] \ due[d] \subseteq Coming(d)' /\ Coming(d) \subseteq Coming(d)'
<1> DEFINE cs == clients[target[s]]
<1>1. /\ snapshot' = [snapshot EXCEPT ![s] = cs]
      /\ snapshot[s] = {}
      /\ snapshot'[s] = cs
      /\ \A t \in Senders \ {s} : snapshot'[t] = snapshot[t] /\ event'[t] = event[t]
      /\ cs # {} => event'[s] = event[s]
  BY DEF HubInv, HubTypeOK, Bookkeeping, CopyClients, Serve
<1>2. due'[d] = IF d \in cs THEN due[d] \cup {event[s]} ELSE due[d]
  BY DEF CopyClients
<1>3. d \in cs => event[s] \in Coming(d)'
  BY <1>1 DEF Coming
<1>4. ASSUME NEW t \in Senders, d \in snapshot[t]
      PROVE  event[t] \in Coming(d)'
  <2>1. t # s /\ d \in snapshot'[t] /\ event'[t] = event[t]
    BY <1>1, <1>4
  <2> QED
    BY <2>1 DEF Coming
<1> QED
  BY <1>2, <1>3, <1>4 DEF Coming

\* Serving a connection takes the event from what is coming to it, and nothing
\* from any other.
LEMMA ComingAtSend ==
  ASSUME HubInv, NEW s \in Senders, NEW c \in Clients, SendRaw(s, c),
         NEW d \in Clients
  PROVE  Coming(d) \subseteq Coming(d)' \cup (IF d = c THEN {event[s]} ELSE {})
<1>1. /\ snapshot'[s] = snapshot[s] \ {c}
      /\ snapshot'[s] # {} => event'[s] = event[s]
      /\ \A t \in Senders \ {s} : snapshot'[t] = snapshot[t] /\ event'[t] = event[t]
  BY DEF HubInv, HubTypeOK, SendRaw, Serve
<1> SUFFICES ASSUME NEW t \in Senders, d \in snapshot[t], ~(t = s /\ d = c)
             PROVE  event[t] \in Coming(d)'
  BY DEF Coming
<1>2. d \in snapshot'[t] /\ event'[t] = event[t]
  BY <1>1
<1> QED
  BY <1>2 DEF Coming

----------------------------------------------------------------------------
(* No page misses anything                                                 *)

\* Every step leaves every open page covered.
LEMMA CoveredStep ==
  ASSUME HubInv, HubNext, NEW d \in Clients
  PROVE  Covered(d)'
<1> USE DEF connVars, senderVars
<1>0. Covered(d) /\ HubTypeOK /\ Bookkeeping
  BY MissedIsUncovered DEF HubInv
<1>1. ASSUME NEW c \in Clients, Connect(c)
      PROVE  Covered(d)'
  <2>1. Coming(d)' = Coming(d)
    BY <1>1, ComingKept DEF Connect
  <2> QED
    BY <1>1, <1>0, <2>1 DEF Covered, HubTypeOK, Bookkeeping, Connect
<1>2. ASSUME NEW c \in Clients, Register(c)
      PROVE  Covered(d)'
  <2>1. Coming(d)' = Coming(d)
    BY <1>2, ComingKept DEF Register
  <2> QED
    BY <1>2, <1>0, <2>1 DEF Covered, HubTypeOK, Bookkeeping, Register
<1>3. ASSUME NEW c \in Clients, Run(c)
      PROVE  Covered(d)'
  <2>1. Coming(d)' = Coming(d)
    BY <1>3, ComingKept DEF Run
  <2> QED
    BY <1>3, <1>0, <2>1 DEF Covered, HubTypeOK, Bookkeeping, Run
<1>4. ASSUME NEW c \in Clients, ReadFails(c)
      PROVE  Covered(d)'
  <2>1. Coming(d)' = Coming(d)
    BY <1>4, ComingKept DEF ReadFails
  <2> QED
    BY <1>4, <1>0, <2>1 DEF Covered, HubTypeOK, Bookkeeping, ReadFails
<1>5. ASSUME NEW c \in Clients, Unregister(c)
      PROVE  Covered(d)'
  <2>1. Coming(d)' = Coming(d)
    BY <1>5, ComingKept DEF Unregister
  <2> QED
    BY <1>5, <1>0, <2>1 DEF Covered, HubTypeOK, Bookkeeping, Unregister
<1>6. ASSUME NEW c \in Clients, ReaderCloses(c)
      PROVE  Covered(d)'
  <2>1. Coming(d)' = Coming(d)
    BY <1>6, ComingKept DEF ReaderCloses
  <2> QED
    BY <1>6, <1>0, <2>1 DEF Covered, HubTypeOK, Bookkeeping, ReaderCloses
<1>7. ASSUME NEW c \in Clients, Take(c)
      PROVE  Covered(d)'
  <2>1. Coming(d)' = Coming(d)
    BY <1>7, ComingKept DEF Take
  <2>2. CASE d = c
    <3>1. Contents(send[c]) \subseteq Contents(Tail(send[c])) \cup {Head(send[c])}
      BY <1>7, <1>0, Taken DEF HubTypeOK, Take
    <3>2. /\ send'[c] = Tail(send[c]) /\ msg'[c] = Head(send[c])
          /\ msg[c] = NoEvent /\ due[c] \subseteq Events
          /\ conn' = conn /\ due' = due /\ written' = written
      BY <1>7, <1>0 DEF HubTypeOK, Bookkeeping, Take
    <3>3. NoEvent \notin Events
      BY MaxEventsAssumption DEF NoEvent, Events
    <3> QED
      BY <1>0, <2>1, <2>2, <3>1, <3>2, <3>3 DEF Covered
  <2>3. CASE d # c
    <3>1. /\ send'[d] = send[d] /\ msg'[d] = msg[d]
          /\ conn' = conn /\ due' = due /\ written' = written
      BY <1>7, <1>0, <2>3 DEF HubTypeOK, Take
    <3> QED
      BY <1>0, <2>1, <3>1 DEF Covered
  <2> QED
    BY <2>2, <2>3
<1>8. ASSUME NEW c \in Clients, Write(c)
      PROVE  Covered(d)'
  <2>1. Coming(d)' = Coming(d)
    BY <1>8, ComingKept DEF Write
  <2>2. /\ written[d] \cup {msg[d]} \subseteq written'[d] \cup {msg'[d]}
        /\ conn' = conn /\ due' = due /\ send' = send
    BY <1>8, <1>0 DEF HubTypeOK, Write
  <2> QED
    BY <1>0, <2>1, <2>2 DEF Covered
<1>9. ASSUME NEW c \in Clients, WriteFails(c)
      PROVE  Covered(d)'
  <2>1. Coming(d)' = Coming(d)
    BY <1>9, ComingKept DEF WriteFails
  <2> QED
    BY <1>9, <1>0, <2>1 DEF Covered, HubTypeOK, Bookkeeping, WriteFails
<1>10. CASE RegisterAdmin
  <2>1. Coming(d)' = Coming(d)
    BY <1>10, ComingKept DEF RegisterAdmin
  <2> QED
    BY <1>10, <1>0, <2>1 DEF Covered, HubTypeOK, Bookkeeping, RegisterAdmin
<1>11. ASSUME NEW s \in Senders, NEW u \in Users, Broadcast(s, u)
      PROVE  Covered(d)'
  <2>1. Coming(d) \subseteq Coming(d)'
    BY <1>11, ComingAtBroadcast
  <2>2. UNCHANGED <<conn, due, written, send, msg>>
    BY <1>11 DEF Broadcast
  <2> QED
    BY <1>0, <2>1, <2>2 DEF Covered
<1>12. ASSUME NEW s \in Senders, CopyClients(s)
      PROVE  Covered(d)'
  <2>1. due'[d] \ due[d] \subseteq Coming(d)' /\ Coming(d) \subseteq Coming(d)'
    BY <1>12, ComingAtCopy
  <2>2. UNCHANGED <<conn, written, send, msg>>
    BY <1>12 DEF CopyClients
  <2> QED
    BY <1>0, <2>1, <2>2 DEF Covered
<1>13. ASSUME NEW s \in Senders, NEW c \in Clients, SendRaw(s, c)
      PROVE  Covered(d)'
  <2>1. Coming(d) \subseteq Coming(d)' \cup (IF d = c THEN {event[s]} ELSE {})
    BY <1>13, ComingAtSend
  <2>2. UNCHANGED <<due, written, msg>>
    BY <1>13 DEF SendRaw
  <2>3. CASE send' = [send EXCEPT ![c] = Append(send[c], event[s])] /\ UNCHANGED conn
    <3>1. Contents(send'[d]) = Contents(send[d]) \cup (IF d = c THEN {event[s]} ELSE {})
      <4>1. event[s] \in Events
        BY <1>13, <1>0 DEF Bookkeeping, SendRaw
      <4>2. Contents(Append(send[c], event[s])) = Contents(send[c]) \cup {event[s]}
        BY <4>1, <1>0, Put DEF HubTypeOK
      <4>3. send'[d] = IF d = c THEN Append(send[c], event[s]) ELSE send[d]
        BY <2>3, <1>0 DEF HubTypeOK
      <4> QED
        BY <4>2, <4>3
    <3> QED
      BY <1>0, <2>1, <2>2, <2>3, <3>1 DEF Covered
  <2>4. CASE conn' = [conn EXCEPT ![c] = "closed"] /\ UNCHANGED send
    <3>1. conn'[d] = "open" => d # c /\ conn[d] = "open"
      BY <2>4, <1>0 DEF HubTypeOK
    <3> QED
      BY <1>0, <2>1, <2>2, <2>4, <3>1 DEF Covered
  <2> QED
    BY <1>13, <2>3, <2>4 DEF SendRaw
<1> QED
  BY <1>1, <1>2, <1>3, <1>4, <1>5, <1>6, <1>7, <1>8, <1>9, <1>10, <1>11,
     <1>12, <1>13 DEF HubNext

\* The inductive invariant: types, what the goroutines' places say of their
\* variables, and that no page misses anything.
THEOREM HubInvariant == HubSpec => []HubInv
<1>1. HubInit => HubInv
  BY InitHubInv
<1>2. HubInv /\ [HubNext]_hubVars => HubInv'
  <2> SUFFICES ASSUME HubInv, [HubNext]_hubVars
               PROVE  HubInv'
    OBVIOUS
  <2>1. CASE HubNext
    <3>1. HubTypeOK' /\ Bookkeeping'
      BY <2>1, TypeStep, BookkeepingStep
    <3>2. (\A d \in Clients : Covered(d))'
      BY <2>1, CoveredStep
    <3>3. NothingMissedWhileOpen'
      BY <3>2 DEF NothingMissedWhileOpen, OnItsWay, Queued, Contents, Covered, Coming
    <3> QED
      BY <3>1, <3>3 DEF HubInv
  <2>2. CASE UNCHANGED hubVars
    <3>1. HubTypeOK' /\ Bookkeeping'
      BY <2>2 DEF hubVars, HubInv, HubTypeOK, Bookkeeping
    <3>2. NothingMissedWhileOpen'
      BY <2>2 DEF hubVars, HubInv, NothingMissedWhileOpen, OnItsWay, Queued
    <3> QED
      BY <3>1, <3>2 DEF HubInv
  <2> QED
    BY <2>1, <2>2
<1> QED
  BY <1>1, <1>2, PTL DEF HubSpec

\* The hub keeps its types: in particular no queue outgrows its capacity.
THEOREM HubTypeCorrect == HubSpec => []HubTypeOK
<1>1. HubInv => HubTypeOK
  BY DEF HubInv
<1> QED
  BY <1>1, HubInvariant, PTL

\* A page whose connection is open misses nothing (SendRaw closes a connection
\* it cannot serve), whatever the pages and handlers do and an admin's page.
THEOREM OpenPageMissesNothing == HubSpec => []NothingMissedWhileOpen
<1>1. HubInv => NothingMissedWhileOpen
  BY DEF HubInv
<1> QED
  BY <1>1, HubInvariant, PTL

=============================================================================
