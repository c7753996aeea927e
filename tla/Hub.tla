-------------------------------- MODULE Hub --------------------------------
(***************************************************************************)
(* The websocket hub: pages of clients connect, handlers of the server     *)
(* broadcast what happens to an order to the pages of its user.  A         *)
(* connection has a bounded queue and two goroutines, readPump and         *)
(* writePump; handlers only put into queues and never wait for a page.     *)
(*                                                                         *)
(* The hub's mutex guards a section that waits for nothing, so a section   *)
(* is one step; it can begin unless the mutex is held for ever.            *)
(***************************************************************************)
EXTENDS Naturals, Sequences, FiniteSets

CONSTANTS
  Users,
  Clients,     \* connections
  Senders,     \* goroutines that broadcast
  Capacity,    \* of a connection's queue (256 in NewClient)
  MaxEvents,   \* bound: events broadcast
  Admins       \* whether the page of an admin may connect

ASSUME CapacityAssumption == Capacity \in Nat \ {0}
ASSUME MaxEventsAssumption == MaxEvents \in Nat
ASSUME AdminsAssumption == Admins \in BOOLEAN

Events == 1 .. MaxEvents

NoEvent == 0

VARIABLES
  clients,     \* clients[u]: the registered connections of a user
  stuck,       \* a goroutine died while it held the mutex
  conn,        \* conn[c]: "none", "open" or "closed"
  user,        \* user[c]: whose page it is, once connected
  send,        \* send[c]: the queue
  reader,      \* reader[c]: where the handler of the connection is
  writer,      \* writer[c]: where writePump is
  msg,         \* msg[c]: what writePump has taken and not yet written
  event,       \* event[s]: what s broadcasts
  target,      \* target[s]: to which user
  snapshot,    \* snapshot[s]: the connections it has still to serve
  pc,          \* pc[s]: "idle", "lock" or "send"
  published,   \* how many events there have been
  due,         \* history: due[c], events meant for c when they were broadcast
  written      \* history: written[c], events written to c

hubVars == <<clients, stuck, conn, user, send, reader, writer, msg,
             event, target, snapshot, pc, published, due, written>>

HubInit ==
  /\ clients = [u \in Users |-> {}]
  /\ stuck = FALSE
  /\ conn = [c \in Clients |-> "none"]
  /\ user \in [Clients -> Users]
  /\ send = [c \in Clients |-> <<>>]
  /\ reader = [c \in Clients |-> "none"]
  /\ writer = [c \in Clients |-> "none"]
  /\ msg = [c \in Clients |-> NoEvent]
  /\ event = [s \in Senders |-> NoEvent]
  /\ target \in [Senders -> Users]
  /\ snapshot = [s \in Senders |-> {}]
  /\ pc = [s \in Senders |-> "idle"]
  /\ published = 0
  /\ due = [c \in Clients |-> {}]
  /\ written = [c \in Clients |-> {}]

connVars == <<clients, stuck, user, msg>>
senderVars == <<event, target, snapshot, pc, published, due>>

----------------------------------------------------------------------------
(* A connection: OrdersWS and readPump                                     *)

Connect(c) ==
  /\ reader[c] = "none"
  /\ conn' = [conn EXCEPT ![c] = "open"]
  /\ reader' = [reader EXCEPT ![c] = "register"]
  /\ UNCHANGED <<connVars, senderVars, send, writer, written>>

Register(c) ==
  /\ reader[c] = "register"
  /\ ~stuck
  /\ clients' = [clients EXCEPT ![user[c]] = @ \cup {c}]
  /\ reader' = [reader EXCEPT ![c] = "run"]
  /\ UNCHANGED <<senderVars, stuck, user, msg, conn, send, writer, written>>

\* Run starts writePump and becomes readPump.
Run(c) ==
  /\ reader[c] = "run"
  /\ reader' = [reader EXCEPT ![c] = "read"]
  /\ writer' = [writer EXCEPT ![c] = "select"]
  /\ UNCHANGED <<connVars, senderVars, conn, send, written>>

\* The page went away, sent too much or no pong for 60 s, or the server has
\* closed the connection.
ReadFails(c) ==
  /\ reader[c] = "read"
  /\ reader' = [reader EXCEPT ![c] = "unregister"]
  /\ UNCHANGED <<connVars, senderVars, conn, send, writer, written>>

UnregisterForgotten(c) ==
  /\ reader[c] = "unregister"
  /\ ~stuck
  /\ reader' = [reader EXCEPT ![c] = "close"]
  /\ UNCHANGED <<senderVars, clients, stuck, user, msg, conn, send, writer, written>>

Unregister(c) ==
  /\ reader[c] = "unregister"
  /\ ~stuck
  /\ clients' = [clients EXCEPT ![user[c]] = @ \ {c}]
  /\ reader' = [reader EXCEPT ![c] = "close"]
  /\ UNCHANGED <<senderVars, stuck, user, msg, conn, send, writer, written>>

ReaderCloses(c) ==
  /\ reader[c] = "close"
  /\ conn' = [conn EXCEPT ![c] = "closed"]
  /\ reader' = [reader EXCEPT ![c] = "done"]
  /\ UNCHANGED <<connVars, senderVars, send, writer, written>>

\* RegisterAdmin stores into a map that NewHub never makes: it panics, gin
\* recovers, and the mutex stays locked.
RegisterAdmin ==
  /\ Admins
  /\ ~stuck
  /\ stuck' = TRUE
  /\ UNCHANGED <<senderVars, clients, user, msg, conn, send, reader, writer, written>>

----------------------------------------------------------------------------
(* writePump                                                               *)

Take(c) ==
  /\ writer[c] = "select"
  /\ send[c] # <<>>
  /\ msg' = [msg EXCEPT ![c] = Head(send[c])]
  /\ send' = [send EXCEPT ![c] = Tail(@)]
  /\ writer' = [writer EXCEPT ![c] = "write"]
  /\ UNCHANGED <<senderVars, clients, stuck, user, conn, reader, written>>

Write(c) ==
  /\ writer[c] = "write"
  /\ conn[c] = "open"
  /\ written' = [written EXCEPT ![c] = @ \cup {msg[c]}]
  /\ msg' = [msg EXCEPT ![c] = NoEvent]
  /\ writer' = [writer EXCEPT ![c] = "select"]
  /\ UNCHANGED <<senderVars, clients, stuck, user, conn, send, reader>>

WriteFailsLeft(c) ==
  /\ writer[c] \in {"select", "write"}
  /\ writer' = [writer EXCEPT ![c] = "done"]
  /\ UNCHANGED <<connVars, senderVars, conn, send, reader, written>>

\* A message or a ping cannot be written: the page does not take it for 10 s,
\* or the connection is closed.  The deferred call closes it.
WriteFails(c) ==
  /\ writer[c] \in {"select", "write"}
  /\ conn' = [conn EXCEPT ![c] = "closed"]
  /\ writer' = [writer EXCEPT ![c] = "done"]
  /\ UNCHANGED <<connVars, senderVars, send, reader, written>>

----------------------------------------------------------------------------
(* BroadcastToUser                                                         *)

Broadcast(s, u) ==
  /\ pc[s] = "idle"
  /\ published < MaxEvents
  /\ published' = published + 1
  /\ event' = [event EXCEPT ![s] = published + 1]
  /\ target' = [target EXCEPT ![s] = u]
  /\ pc' = [pc EXCEPT ![s] = "lock"]
  /\ UNCHANGED <<connVars, conn, send, reader, writer, written, snapshot, due>>

\* What is left of the broadcast; without connections it is over.
Serve(s, cs) ==
  /\ snapshot' = [snapshot EXCEPT ![s] = cs]
  /\ pc' = [pc EXCEPT ![s] = IF cs = {} THEN "idle" ELSE "send"]
  /\ event' = [event EXCEPT ![s] = IF cs = {} THEN NoEvent ELSE @]

CopyClients(s) ==
  /\ pc[s] = "lock"
  /\ ~stuck
  /\ LET cs == clients[target[s]] IN
       /\ Serve(s, cs)
       /\ due' = [c \in Clients |-> IF c \in cs THEN due[c] \cup {event[s]}
                                                ELSE due[c]]
  /\ UNCHANGED <<connVars, conn, send, reader, writer, written, target, published>>

SendRawLossy(s, c) ==
  /\ pc[s] = "send"
  /\ c \in snapshot[s]
  /\ send' = [send EXCEPT ![c] = IF Len(@) < Capacity THEN Append(@, event[s])
                                                     ELSE @]
  /\ Serve(s, snapshot[s] \ {c})
  /\ UNCHANGED <<connVars, conn, reader, writer, written, target, published, due>>

SendRawWaiting(s, c) ==
  /\ pc[s] = "send"
  /\ c \in snapshot[s]
  /\ Len(send[c]) < Capacity
  /\ send' = [send EXCEPT ![c] = Append(@, event[s])]
  /\ Serve(s, snapshot[s] \ {c})
  /\ UNCHANGED <<connVars, conn, reader, writer, written, target, published, due>>

SendRawUnbounded(s, c) ==
  /\ pc[s] = "send"
  /\ c \in snapshot[s]
  /\ send' = [send EXCEPT ![c] = Append(@, event[s])]
  /\ Serve(s, snapshot[s] \ {c})
  /\ UNCHANGED <<connVars, conn, reader, writer, written, target, published, due>>

\* The order of a map is any.  A connection whose queue is full is closed.
SendRaw(s, c) ==
  /\ pc[s] = "send"
  /\ c \in snapshot[s]
  /\ \/ /\ Len(send[c]) < Capacity
        /\ send' = [send EXCEPT ![c] = Append(@, event[s])]
        /\ UNCHANGED conn
     \/ /\ Len(send[c]) = Capacity
        /\ conn' = [conn EXCEPT ![c] = "closed"]
        /\ UNCHANGED send
  /\ Serve(s, snapshot[s] \ {c})
  /\ UNCHANGED <<connVars, reader, writer, written, target, published, due>>

----------------------------------------------------------------------------
HubNext ==
  \/ \E c \in Clients :
       \/ Connect(c) \/ Register(c) \/ Run(c)
       \/ ReadFails(c) \/ Unregister(c) \/ ReaderCloses(c)
       \/ Take(c) \/ Write(c) \/ WriteFails(c)
  \/ RegisterAdmin
  \/ \E s \in Senders :
       \/ \E u \in Users : Broadcast(s, u)
       \/ CopyClients(s)
       \/ \E c \in Clients : SendRaw(s, c)

\* Goroutines run; a read of a closed connection returns, a write ends within
\* 10 s, a ping is due every 25 s, and the mutex is given to who waits for it.
HubFairness ==
  /\ \A c \in Clients :
       /\ WF_hubVars(Register(c))
       /\ WF_hubVars(Run(c))
       /\ WF_hubVars(conn[c] = "closed" /\ ReadFails(c))
       /\ WF_hubVars(Unregister(c))
       /\ WF_hubVars(ReaderCloses(c))
       /\ WF_hubVars(Take(c) \/ Write(c)
                       \/ (conn[c] = "closed" /\ WriteFails(c)))
  /\ \A s \in Senders :
       WF_hubVars(CopyClients(s) \/ \E c \in Clients : SendRaw(s, c))

HubSpec == HubInit /\ [][HubNext]_hubVars /\ HubFairness

----------------------------------------------------------------------------
(* Properties                                                              *)

HubTypeOK ==
  /\ clients \in [Users -> SUBSET Clients]
  /\ stuck \in BOOLEAN
  /\ conn \in [Clients -> {"none", "open", "closed"}]
  /\ user \in [Clients -> Users]
  /\ send \in [Clients -> Seq(Events)]
  /\ \A c \in Clients : Len(send[c]) <= Capacity
  /\ reader \in [Clients -> {"none", "register", "run", "read", "unregister",
                             "close", "done"}]
  /\ writer \in [Clients -> {"none", "select", "write", "done"}]
  /\ msg \in [Clients -> Events \cup {NoEvent}]
  /\ event \in [Senders -> Events \cup {NoEvent}]
  /\ target \in [Senders -> Users]
  /\ snapshot \in [Senders -> SUBSET Clients]
  /\ pc \in [Senders -> {"idle", "lock", "send"}]
  /\ published \in 0 .. MaxEvents
  /\ due \in [Clients -> SUBSET Events]
  /\ written \in [Clients -> SUBSET Events]

Queued(c) == {send[c][i] : i \in DOMAIN send[c]}

\* Where an event meant for c may be before it is written.
OnItsWay(c) ==
  Queued(c) \cup {msg[c]} \cup {event[s] : s \in {t \in Senders : c \in snapshot[t]}}

\* A page whose connection is open misses nothing: every event broadcast while
\* it was registered has been written to it or is on its way, however full its
\* queue was and whoever else connects or leaves (SendRaw closes a connection
\* it cannot serve).
NothingMissedWhileOpen ==
  \A c \in Clients :
    conn[c] = "open" => due[c] \subseteq written[c] \cup OnItsWay(c)

\* No page keeps a handler of the server waiting, be its queue full or its
\* pumps dead: a broadcast ends, unless an admin's page has locked the hub.
BroadcastEnds ==
  \A s \in Senders : pc[s] # "idle" ~> pc[s] = "idle" \/ stuck

Gone(c) ==
  /\ c \notin clients[user[c]]
  /\ reader[c] = "done" /\ writer[c] = "done"

\* A connection that the server closes, for instance because its queue is
\* full, leaves nothing behind: both pumps end and the hub forgets it ("memory
\* leak bo'lmasin", client.go), unless an admin's page has locked the hub.
ClosedIsForgotten ==
  \A c \in Clients : conn[c] = "closed" ~> Gone(c) \/ stuck

\* Whatever was broadcast to a page that stays is written to it.
EventuallyWritten ==
  \A c \in Clients, e \in Events :
    e \in due[c] ~> e \in written[c] \/ conn[c] = "closed"
=============================================================================
