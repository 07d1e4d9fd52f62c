--------------------------------- MODULE Hub ---------------------------------
(***************************************************************************)
(* The WebSocket hub (internal/websocket/hub.go, client.go) and the HTTP   *)
(* handler that starts a client (internal/api/http.go).                    *)
(*                                                                         *)
(* Processes: the hub's goroutine, two goroutines (pumps) per client, the  *)
(* handler of each connection, and a publisher.  Channels are Go's: an     *)
(* unbuffered one is a joint step of both sides, a buffered one a queue    *)
(* with a capacity, and sending on a closed one panics, which ends the     *)
(* program because no goroutine recovers.                                  *)
(***************************************************************************)
EXTENDS Integers, Sequences, Functions

CONSTANTS
    Clients,      \* connections
    Addresses,    \* addresses to subscribe to
    SendCap,      \* capacity of Client.send
    BroadcastCap, \* capacity of Hub.broadcast
    Registers     \* whether a new client is put on Hub.register

ASSUME ConstantsOK ==
    /\ SendCap \in Nat \ {0}
    /\ BroadcastCap \in Nat \ {0}
    /\ Registers \in BOOLEAN

VARIABLES
    clients,    \* Hub.clients
    hub,        \* what Hub.Run is doing
    broadcast,  \* the queue of Hub.broadcast
    outbox,     \* what the publisher is still to put on Hub.broadcast
    handler,    \* the HTTP handler of each connection
    conn,       \* the connections
    reader,     \* readPump
    writer,     \* writePump
    send,       \* the queue of Client.send
    closed,     \* the clients whose send channel is closed
    subs,       \* Client.subscriptions
    (* An observation, read by no action. *)
    owed        \* addresses with an update for a subscriber that still waits for it

chans == <<send, closed>>
pumps == <<conn, reader, writer>>
vars == <<clients, hub, broadcast, outbox, handler, conn, reader, writer,
          send, closed, subs, owed>>

\* Message.Address, or the kind of a message that has none.
Messages == Addresses \cup {"info"}

Select == [at |-> "select"]
Dead == [at |-> "dead"]

\* todo are the clients the range over Hub.clients has not visited yet.
HubState ==
    {Select, Dead} \cup [at : {"range"}, msg : Messages, todo : SUBSET Clients]
             \cup [at : {"offer"}, msg : Messages, todo : SUBSET Clients, to : Clients]

Queue(S, cap) == UNION {[1..n -> S] : n \in 0..cap}

(* The one type invariant. *)
TypeOK ==
    /\ clients \subseteq Clients
    /\ hub \in HubState
    /\ broadcast \in Queue(Messages, BroadcastCap)
    /\ outbox \in Queue(Addresses, 2)
    /\ handler \in [Clients -> {"none", "register", "greet", "done"}]
    /\ conn \in [Clients -> {"open", "closed"}]
    /\ reader \in [Clients -> {"none", "read", "ack", "leave", "done"}]
    /\ writer \in [Clients -> {"none", "write", "done"}]
    /\ send \in [Clients -> Queue(Messages \cup {"ack"}, SendCap)]
    /\ closed \subseteq Clients
    /\ subs \in [Clients -> SUBSET Addresses]
    /\ owed \in [Clients -> SUBSET Addresses]

Init ==
    /\ clients = {}
    /\ hub = Select
    /\ broadcast = <<>>
    /\ outbox = <<>>
    /\ handler = [c \in Clients |-> "none"]
    /\ conn = [c \in Clients |-> "closed"]
    /\ reader = [c \in Clients |-> "none"]
    /\ writer = [c \in Clients |-> "none"]
    /\ send = [c \in Clients |-> <<>>]
    /\ closed = {}
    /\ subs = [c \in Clients |-> {}]
    /\ owed = [c \in Clients |-> {}]

-----------------------------------------------------------------------------
(* handleWebSocket *)

Upgrade(c) ==
    /\ hub # Dead
    /\ handler[c] = "none"
    /\ handler' = [handler EXCEPT ![c] = IF Registers THEN "register" ELSE "greet"]
    /\ conn' = [conn EXCEPT ![c] = "open"]
    /\ UNCHANGED <<clients, hub, broadcast, outbox, reader, writer, chans, subs, owed>>

\* h.register <- client, taken by the hub's select.
Register(c) ==
    /\ handler[c] = "register"
    /\ hub = Select
    /\ handler' = [handler EXCEPT ![c] = "greet"]
    /\ clients' = clients \cup {c}
    /\ UNCHANGED <<hub, broadcast, outbox, pumps, chans, subs, owed>>

\* Broadcast of the client count, which blocks while the queue is full, and Start.
Greet(c) ==
    /\ handler[c] = "greet"
    /\ Len(broadcast) < BroadcastCap
    /\ broadcast' = Append(broadcast, "info")
    /\ handler' = [handler EXCEPT ![c] = "done"]
    /\ reader' = [reader EXCEPT ![c] = "read"]
    /\ writer' = [writer EXCEPT ![c] = "write"]
    /\ UNCHANGED <<clients, hub, outbox, conn, chans, subs, owed>>

-----------------------------------------------------------------------------
(* The publisher *)

\* BroadcastBalanceUpdate sends one message, BroadcastTransaction one to the
\* sender's and then one to the receiver's address.
Publish ==
    /\ hub # Dead
    /\ outbox = <<>>
    /\ \E a \in Addresses :
          \/ outbox' = <<a>>
          \/ \E b \in Addresses : outbox' = <<a, b>>
    /\ UNCHANGED <<clients, hub, broadcast, handler, pumps, chans, subs, owed>>

Broadcast ==
    /\ outbox # <<>>
    /\ Len(broadcast) < BroadcastCap
    /\ broadcast' = Append(broadcast, Head(outbox))
    /\ outbox' = Tail(outbox)
    /\ owed' = [c \in Clients |->
           IF Head(outbox) \in subs[c] /\ conn[c] = "open"
           THEN owed[c] \cup {Head(outbox)} ELSE owed[c]]
    /\ UNCHANGED <<clients, hub, handler, pumps, chans, subs>>

-----------------------------------------------------------------------------
(* Hub.Run *)

Receive ==
    /\ hub = Select
    /\ broadcast # <<>>
    /\ broadcast' = Tail(broadcast)
    /\ hub' = [at |-> "range", msg |-> Head(broadcast), todo |-> clients]
    /\ UNCHANGED <<clients, outbox, handler, pumps, chans, subs, owed>>

\* IsSubscribed is asked under the client's lock, which is free again when the
\* message is sent.
Visit(c) ==
    /\ hub.at = "range"
    /\ c \in hub.todo
    /\ hub' = IF hub.msg = "info" \/ hub.msg \in subs[c]
              THEN [at |-> "offer", msg |-> hub.msg, todo |-> hub.todo \ {c}, to |-> c]
              ELSE [hub EXCEPT !.todo = @ \ {c}]
    /\ UNCHANGED <<clients, broadcast, outbox, handler, pumps, chans, subs, owed>>

BackToRange == [at |-> "range", msg |-> hub.msg, todo |-> hub.todo]

Offer ==
    /\ hub.at = "offer"
    /\ hub.to \notin closed
    /\ Len(send[hub.to]) < SendCap
    /\ send' = [send EXCEPT ![hub.to] = Append(@, hub.msg)]
    /\ hub' = BackToRange
    /\ UNCHANGED <<clients, broadcast, outbox, handler, pumps, closed, subs, owed>>

\* Bug: the closed channel stays in the map.
Evict_StaysRegistered ==
    /\ hub.at = "offer"
    /\ hub.to \notin closed
    /\ Len(send[hub.to]) = SendCap
    /\ closed' = closed \cup {hub.to}
    /\ hub' = BackToRange
    /\ UNCHANGED <<clients, broadcast, outbox, handler, pumps, send, subs, owed>>

\* Bug: the message is dropped and the client kept.
Evict_DropsMessage ==
    /\ hub.at = "offer"
    /\ Len(send[hub.to]) = SendCap
    /\ hub' = BackToRange
    /\ UNCHANGED <<clients, broadcast, outbox, handler, pumps, chans, subs, owed>>

\* Bug: the select has no default branch, so the hub waits for room.
Evict_Never == FALSE

\* The default branch: the client is slow, its channel is closed.
Evict ==
    /\ hub.at = "offer"
    /\ hub.to \notin closed
    /\ Len(send[hub.to]) = SendCap
    /\ closed' = closed \cup {hub.to}
    /\ clients' = clients \ {hub.to}
    /\ hub' = BackToRange
    /\ UNCHANGED <<broadcast, outbox, handler, pumps, send, subs, owed>>

RangeDone ==
    /\ hub.at = "range"
    /\ hub.todo = {}
    /\ hub' = Select
    /\ UNCHANGED <<clients, broadcast, outbox, handler, pumps, chans, subs, owed>>

\* h.unregister <- c, taken by the hub's select, and readPump's conn.Close.
Unregister(c) ==
    /\ reader[c] = "leave"
    /\ hub = Select
    /\ reader' = [reader EXCEPT ![c] = "done"]
    /\ conn' = [conn EXCEPT ![c] = "closed"]
    /\ closed' = IF c \in clients THEN closed \cup {c} ELSE closed
    /\ clients' = clients \ {c}
    /\ owed' = [owed EXCEPT ![c] = {}]
    /\ UNCHANGED <<hub, broadcast, outbox, handler, writer, send, subs>>

-----------------------------------------------------------------------------
(* readPump *)

\* handleMessage up to the acknowledgement; "ping" changes nothing.
ReadMessage(c) ==
    /\ reader[c] = "read"
    /\ conn[c] = "open"
    /\ reader' = [reader EXCEPT ![c] = "ack"]
    /\ \/ \E a \in Addresses :
             \/ subs' = [subs EXCEPT ![c] = @ \cup {a}] /\ UNCHANGED owed
             \/ /\ subs' = [subs EXCEPT ![c] = @ \ {a}]
                /\ owed' = [owed EXCEPT ![c] = @ \ {a}]
       \/ UNCHANGED <<subs, owed>>
    /\ UNCHANGED <<clients, hub, broadcast, outbox, handler, conn, writer, chans>>

\* Bug: the acknowledgement is queued beyond the capacity.
SendAck_Unbounded(c) ==
    /\ reader[c] = "ack"
    /\ c \notin closed
    /\ send' = [send EXCEPT ![c] = Append(@, "ack")]
    /\ reader' = [reader EXCEPT ![c] = "read"]
    /\ UNCHANGED <<clients, hub, broadcast, outbox, handler, conn, writer, closed, subs, owed>>

\* sendAck: blocks while the queue is full.
SendAck(c) ==
    /\ reader[c] = "ack"
    /\ c \notin closed
    /\ Len(send[c]) < SendCap
    /\ send' = [send EXCEPT ![c] = Append(@, "ack")]
    /\ reader' = [reader EXCEPT ![c] = "read"]
    /\ UNCHANGED <<clients, hub, broadcast, outbox, handler, conn, writer, closed, subs, owed>>

\* The connection is lost or silent for pongWait.
ReadFails(c) ==
    /\ reader[c] = "read"
    /\ reader' = [reader EXCEPT ![c] = "leave"]
    /\ UNCHANGED <<clients, hub, broadcast, outbox, handler, conn, writer, chans, subs, owed>>

-----------------------------------------------------------------------------
(* writePump *)

\* Bug: the connection is left open.
WriterStops_KeepsConnection(c) ==
    /\ writer' = [writer EXCEPT ![c] = "done"]
    /\ UNCHANGED <<conn, owed>>

WriterStops(c) ==
    /\ writer' = [writer EXCEPT ![c] = "done"]
    /\ conn' = [conn EXCEPT ![c] = "closed"]
    /\ owed' = [owed EXCEPT ![c] = {}]

\* The next message is written out, or the write fails.
Write(c) ==
    /\ writer[c] = "write"
    /\ send[c] # <<>>
    /\ send' = [send EXCEPT ![c] = Tail(@)]
    /\ \/ /\ conn[c] = "open"
          /\ owed' = [owed EXCEPT ![c] = @ \ {Head(send[c])}]
          /\ UNCHANGED <<conn, writer>>
       \/ WriterStops(c)
    /\ UNCHANGED <<clients, hub, broadcast, outbox, handler, reader, closed, subs>>

\* The channel is closed and drained, or the periodic ping fails.
WriterEnds(c) ==
    /\ writer[c] = "write"
    /\ send[c] = <<>>
    /\ WriterStops(c)
    /\ UNCHANGED <<clients, hub, broadcast, outbox, handler, reader, chans, subs>>

-----------------------------------------------------------------------------

\* A send on a closed channel ends every goroutine and connection.
Panic ==
    /\ \/ \E c \in closed : reader[c] = "ack"
       \/ hub.at = "offer" /\ hub.to \in closed
    /\ hub' = Dead
    /\ outbox' = <<>>
    /\ handler' = [c \in Clients |-> "done"]
    /\ reader' = [c \in Clients |-> "done"]
    /\ writer' = [c \in Clients |-> "done"]
    /\ conn' = [c \in Clients |-> "closed"]
    /\ owed' = [c \in Clients |-> {}]
    /\ UNCHANGED <<clients, broadcast, chans, subs>>

HubStep ==
    \/ Receive \/ (\E c \in Clients : Visit(c)) \/ Offer \/ Evict \/ RangeDone
    \/ \E c \in Clients : Register(c) \/ Unregister(c)

ReaderStep(c) == ReadMessage(c) \/ SendAck(c) \/ ReadFails(c)

WriterStep(c) == Write(c) \/ WriterEnds(c)

Next ==
    \/ HubStep \/ Publish \/ Broadcast \/ Panic
    \/ \E c \in Clients : Upgrade(c) \/ Greet(c) \/ ReaderStep(c) \/ WriterStep(c)

Spec == Init /\ [][Next]_vars

\* The hub's goroutine and the pumps keep being scheduled; a write ends within
\* writeWait.  Peers owe nothing: they may be silent and stay connected.
FairSpec ==
    /\ Spec
    /\ WF_vars(HubStep)
    /\ WF_vars(Broadcast)
    /\ \A c \in Clients :
          /\ WF_vars(Write(c))
          /\ WF_vars(c \in closed /\ WriterEnds(c))
          /\ WF_vars(conn[c] = "closed" /\ ReadFails(c))

-----------------------------------------------------------------------------
(* Properties *)

(* The hub closes no channel twice and sends on none it has closed: a      *)
(* client is in the map, or being offered a message, only while its        *)
(* channel is open, although two branches of Run close channels.           *)
RegisteredIsOpen ==
    /\ clients \cap closed = {}
    /\ hub.at = "offer" => hub.to \notin closed

(* An acknowledgement does not bring the program down.                     *)
NoPanic == hub # Dead

(* An update broadcast for an address reaches every client that is         *)
(* subscribed to it and stays connected and subscribed ("Subscribe to      *)
(* blockchain events via WebSocket").                                      *)
Served ==
    \A c \in Clients, a \in Addresses : a \in owed[c] ~> a \notin owed[c]

(* A client that does not read never holds up the hub or a publisher: what *)
(* is broadcast leaves the queue again, unless the program has died.       *)
BroadcastDrains ==
    Len(broadcast) = BroadcastCap ~> Len(broadcast) < BroadcastCap \/ hub = Dead

(* A client whose channel the hub has closed, slow or gone, is hung up on: *)
(* the write pump empties the channel, ends and closes the connection.     *)
EvictedHangsUp == \A c \in Clients : c \in closed ~> conn[c] = "closed"
=============================================================================
