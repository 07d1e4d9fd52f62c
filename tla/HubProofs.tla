----------------------------- MODULE HubProofs ------------------------------
(***************************************************************************)
(* Proofs about Hub, for any clients, addresses and channel capacities.    *)
(*                                                                         *)
(* The argument: only the hub's goroutine closes channels, and it takes a  *)
(* client off the map in the same breath.  The clients a range has still   *)
(* to visit are in the map, because nobody leaves it during the range but  *)
(* the client being visited, which is not visited again; and a client that *)
(* registers has never been in the map, so its channel is open.            *)
(***************************************************************************)
EXTENDS Hub, SequenceTheorems, TLAPS

\* Whom a range still visits is registered.
RangeOK ==
    /\ hub.at \in {"range", "offer"} => hub.todo \subseteq clients
    /\ hub.at = "offer" => hub.to \in clients /\ hub.to \notin hub.todo

\* Who has yet to register was never in the map.
FreshOK ==
    \A c \in clients \cup closed : handler[c] \notin {"none", "register"}

Inv == TypeOK /\ RegisteredIsOpen /\ RangeOK /\ FreshOK

-----------------------------------------------------------------------------
(* Queues *)

LEMMA QueueIsSeq ==
    ASSUME NEW S, NEW cap \in Nat
    PROVE  \A q : q \in Queue(S, cap) <=> q \in Seq(S) /\ Len(q) <= cap
<1>1. ASSUME NEW q \in Queue(S, cap) PROVE q \in Seq(S) /\ Len(q) <= cap
  <2>1. PICK n \in 0..cap : q \in [1..n -> S]
    BY DEF Queue
  <2>. QED  BY <2>1
<1>2. ASSUME NEW q \in Seq(S), Len(q) <= cap PROVE q \in Queue(S, cap)
  <2>1. Len(q) \in 0..cap /\ q \in [1..Len(q) -> S]
    BY <1>2
  <2>. QED  BY <2>1 DEF Queue
<1>. QED  BY <1>1, <1>2

LEMMA QueueAppend ==
    ASSUME NEW S, NEW cap \in Nat, NEW q \in Queue(S, cap), NEW m \in S, Len(q) < cap
    PROVE  Append(q, m) \in Queue(S, cap)
<1>1. q \in Seq(S)
  BY QueueIsSeq
<1>2. Append(q, m) \in Seq(S) /\ Len(Append(q, m)) = Len(q) + 1 /\ Len(q) \in Nat
  BY <1>1
<1>3. Len(Append(q, m)) <= cap
  BY <1>2
<1>. QED  BY <1>2, <1>3, QueueIsSeq

LEMMA QueueTail ==
    ASSUME NEW S, NEW cap \in Nat, NEW q \in Queue(S, cap), q # <<>>
    PROVE  Tail(q) \in Queue(S, cap) /\ Head(q) \in S
<1>1. q \in Seq(S) /\ Len(q) <= cap
  BY QueueIsSeq
<1>2. /\ Tail(q) \in Seq(S) /\ Head(q) \in S
      /\ Len(Tail(q)) = Len(q) - 1 /\ Len(q) \in Nat
  BY <1>1
<1>3. Len(Tail(q)) <= cap
  BY <1>1, <1>2
<1>. QED  BY <1>2, <1>3, QueueIsSeq

LEMMA QueueFew ==
    ASSUME NEW S, NEW cap \in Nat
    PROVE  /\ <<>> \in Queue(S, cap)
           /\ cap = 2 => \A a, b \in S : <<a>> \in Queue(S, cap) /\ <<a, b>> \in Queue(S, cap)
<1>1. <<>> \in Seq(S) /\ Len(<<>>) = 0
  OBVIOUS
<1>2. \A a, b \in S : /\ <<a>> \in Seq(S) /\ Len(<<a>>) = 1
                      /\ <<a, b>> \in Seq(S) /\ Len(<<a, b>>) = 2
  OBVIOUS
<1>3. <<>> \in Queue(S, cap)
  <2>. DEFINE e == <<>>
  <2>1. e \in Seq(S) /\ Len(e) <= cap
    BY <1>1
  <2>. HIDE DEF e
  <2>2. e \in Queue(S, cap)
    BY <2>1, QueueIsSeq
  <2>. QED  BY <2>2 DEF e
<1>4. ASSUME NEW a \in S, NEW b \in S, cap = 2
      PROVE  <<a>> \in Queue(S, cap) /\ <<a, b>> \in Queue(S, cap)
  <2>1. Len(<<a>>) <= cap /\ Len(<<a, b>>) <= cap
    BY <1>4
  <2>2. <<a>> \in Seq(S) /\ <<a, b>> \in Seq(S)
    BY <1>2
  <2>. QED  BY <2>1, <2>2, QueueIsSeq
<1>. QED  BY <1>3, <1>4

-----------------------------------------------------------------------------
(* The parts of the state *)

LEMMA HubShapes ==
    ASSUME TypeOK
    PROVE  /\ hub.at \in {"select", "dead", "range", "offer"}
           /\ hub.at = "select" <=> hub = Select
           /\ hub.at = "dead" <=> hub = Dead
           /\ hub.at \in {"range", "offer"} => hub.msg \in Messages /\ hub.todo \subseteq Clients
           /\ hub.at = "offer" => hub.to \in Clients
BY DEF TypeOK, HubState, Select, Dead

LEMMA InvInit == Init => Inv
<1>. SUFFICES ASSUME Init PROVE Inv
  OBVIOUS
<1>1. \A S, cap : cap \in Nat => <<>> \in Queue(S, cap)
  BY QueueFew
<1>2. TypeOK
  BY <1>1, ConstantsOK DEF Init, TypeOK, HubState
<1>. QED  BY <1>2 DEF Init, Inv, RegisteredIsOpen, RangeOK, FreshOK, Select

\* A step of a goroutine that is neither the hub nor a handler.
LEMMA OthersKeep ==
    ASSUME Inv, TypeOK', UNCHANGED <<clients, hub, handler, closed>>
    PROVE  Inv'
<1>1. RegisteredIsOpen'
  BY DEF Inv, RegisteredIsOpen
<1>2. RangeOK'
  BY DEF Inv, RangeOK
<1>3. FreshOK'
  BY DEF Inv, FreshOK
<1>. QED  BY <1>1, <1>2, <1>3 DEF Inv

\* The connection's handler.
LEMMA UpgradeKeeps ==
    ASSUME Inv, NEW c \in Clients, Upgrade(c)
    PROVE  Inv'
<1>1. TypeOK'
  <2>1. handler' \in [Clients -> {"none", "register", "greet", "done"}]
    BY DEF Upgrade, Inv, TypeOK
  <2>2. conn' \in [Clients -> {"open", "closed"}]
    BY DEF Upgrade, Inv, TypeOK
  <2>. QED  BY <2>1, <2>2 DEF Upgrade, chans, Inv, TypeOK
<1>2. RegisteredIsOpen' /\ RangeOK'
  BY DEF Upgrade, chans, Inv, RegisteredIsOpen, RangeOK
<1>3. FreshOK'
  <2>1. c \notin clients \cup closed
    BY DEF Upgrade, Inv, FreshOK
  <2>2. \A d \in Clients \ {c} : handler'[d] = handler[d]
    BY DEF Upgrade, Inv, TypeOK
  <2>3. clients' \cup closed' \subseteq Clients \ {c}
    BY <2>1 DEF Upgrade, chans, Inv, TypeOK
  <2>4. UNCHANGED <<clients, closed>>
    BY DEF Upgrade, chans
  <2>. QED  BY <2>2, <2>3, <2>4 DEF Inv, FreshOK
<1>. QED  BY <1>1, <1>2, <1>3 DEF Inv

LEMMA RegisterKeeps ==
    ASSUME Inv, NEW c \in Clients, Register(c)
    PROVE  Inv'
<1>1. hub.at = "select" /\ UNCHANGED <<hub, closed>> /\ clients' = clients \cup {c}
  BY DEF Register, Select, chans
<1>2. TypeOK'
  <2>1. handler' \in [Clients -> {"none", "register", "greet", "done"}]
    BY DEF Register, Inv, TypeOK
  <2>2. clients' \subseteq Clients
    BY <1>1 DEF Inv, TypeOK
  <2>. QED  BY <2>1, <2>2 DEF Register, chans, pumps, Inv, TypeOK
<1>3. c \notin closed
  BY DEF Register, Inv, FreshOK
<1>4. RegisteredIsOpen' /\ RangeOK'
  BY <1>1, <1>3 DEF Inv, RegisteredIsOpen, RangeOK
<1>5. FreshOK'
  <2>1. handler'[c] = "greet" /\ \A d \in Clients \ {c} : handler'[d] = handler[d]
    BY DEF Register, Inv, TypeOK
  <2>2. clients' \cup closed' \subseteq Clients
    BY <1>1 DEF Inv, TypeOK
  <2>. QED  BY <1>1, <2>1, <2>2 DEF Inv, FreshOK
<1>. QED  BY <1>2, <1>4, <1>5 DEF Inv

LEMMA GreetKeeps ==
    ASSUME Inv, NEW c \in Clients, Greet(c)
    PROVE  Inv'
<1>1. TypeOK'
  <2>1. broadcast' \in Queue(Messages, BroadcastCap)
    BY QueueAppend, ConstantsOK DEF Greet, Inv, TypeOK, Messages
  <2>2. handler' \in [Clients -> {"none", "register", "greet", "done"}]
    BY DEF Greet, Inv, TypeOK
  <2>3. reader' \in [Clients -> {"none", "read", "ack", "leave", "done"}]
    BY DEF Greet, Inv, TypeOK
  <2>4. writer' \in [Clients -> {"none", "write", "done"}]
    BY DEF Greet, Inv, TypeOK
  <2>. QED  BY <2>1, <2>2, <2>3, <2>4 DEF Greet, chans, Inv, TypeOK
<1>2. RegisteredIsOpen' /\ RangeOK'
  BY DEF Greet, chans, Inv, RegisteredIsOpen, RangeOK
<1>3. FreshOK'
  <2>1. handler'[c] = "done" /\ \A d \in Clients \ {c} : handler'[d] = handler[d]
    BY DEF Greet, Inv, TypeOK
  <2>2. UNCHANGED <<clients, closed>> /\ clients \cup closed \subseteq Clients
    BY DEF Greet, chans, Inv, TypeOK
  <2>. QED  BY <2>1, <2>2 DEF Inv, FreshOK
<1>. QED  BY <1>1, <1>2, <1>3 DEF Inv

LEMMA PublishKeeps ==
    ASSUME Inv, Publish
    PROVE  Inv'
<1>1. outbox' \in Queue(Addresses, 2)
  BY QueueFew DEF Publish
<1>2. TypeOK'
  BY <1>1 DEF Publish, chans, pumps, Inv, TypeOK
<1>3. UNCHANGED <<clients, hub, handler, closed>>
  BY DEF Publish, chans
<1>. QED  BY <1>2, <1>3, OthersKeep

LEMMA BroadcastKeeps ==
    ASSUME Inv, Broadcast
    PROVE  Inv'
<1>1. Head(outbox) \in Addresses /\ outbox' \in Queue(Addresses, 2)
  BY QueueTail DEF Broadcast, Inv, TypeOK
<1>2. broadcast' \in Queue(Messages, BroadcastCap)
  BY <1>1, QueueAppend, ConstantsOK DEF Broadcast, Inv, TypeOK, Messages
<1>3. owed' \in [Clients -> SUBSET Addresses]
  BY <1>1 DEF Broadcast, Inv, TypeOK
<1>4. TypeOK'
  BY <1>1, <1>2, <1>3 DEF Broadcast, chans, pumps, Inv, TypeOK
<1>5. UNCHANGED <<clients, hub, handler, closed>>
  BY DEF Broadcast, chans
<1>. QED  BY <1>4, <1>5, OthersKeep

\* The hub takes a message and offers it to one client after the other.
LEMMA ReceiveKeeps ==
    ASSUME Inv, Receive
    PROVE  Inv'
<1>1. Head(broadcast) \in Messages /\ broadcast' \in Queue(Messages, BroadcastCap)
  BY QueueTail, ConstantsOK DEF Receive, Inv, TypeOK
<1>2. hub' = [at |-> "range", msg |-> Head(broadcast), todo |-> clients]
  BY DEF Receive
<1>3. hub' \in HubState
  BY <1>1, <1>2 DEF HubState, Inv, TypeOK
<1>4. TypeOK'
  BY <1>1, <1>3 DEF Receive, chans, pumps, Inv, TypeOK
<1>5. UNCHANGED <<clients, handler, closed>>
  BY DEF Receive, chans
<1>6. RegisteredIsOpen' /\ RangeOK'
  BY <1>2, <1>5 DEF Inv, RegisteredIsOpen, RangeOK
<1>7. FreshOK'
  BY <1>5 DEF Inv, FreshOK
<1>. QED  BY <1>4, <1>6, <1>7 DEF Inv

LEMMA OfferKeeps ==
    ASSUME Inv, Offer
    PROVE  Inv'
<1>1. /\ hub.at = "offer" /\ hub.to \in Clients
      /\ hub.msg \in Messages /\ hub.todo \subseteq Clients
  BY HubShapes DEF Offer, Inv
<1>2. hub' = [at |-> "range", msg |-> hub.msg, todo |-> hub.todo]
  BY DEF Offer, BackToRange
<1>3. TypeOK'
  <2>1. Append(send[hub.to], hub.msg) \in Queue(Messages \cup {"ack"}, SendCap)
    BY <1>1, QueueAppend, ConstantsOK DEF Offer, Inv, TypeOK
  <2>2. send' \in [Clients -> Queue(Messages \cup {"ack"}, SendCap)]
    BY <1>1, <2>1 DEF Offer, Inv, TypeOK
  <2>3. hub' \in HubState
    BY <1>1, <1>2 DEF HubState
  <2>. QED  BY <2>2, <2>3 DEF Offer, pumps, Inv, TypeOK
<1>4. UNCHANGED <<clients, handler, closed>>
  BY DEF Offer
<1>5. RegisteredIsOpen' /\ RangeOK'
  BY <1>1, <1>2, <1>4 DEF Inv, RegisteredIsOpen, RangeOK
<1>6. FreshOK'
  BY <1>4 DEF Inv, FreshOK
<1>. QED  BY <1>3, <1>5, <1>6 DEF Inv

LEMMA RangeDoneKeeps ==
    ASSUME Inv, RangeDone
    PROVE  Inv'
<1>1. hub' = [at |-> "select"]
  BY DEF RangeDone, Select
<1>2. TypeOK'
  <2>1. hub' \in HubState
    BY DEF RangeDone, HubState
  <2>. QED  BY <2>1 DEF RangeDone, chans, pumps, Inv, TypeOK
<1>3. UNCHANGED <<clients, handler, closed>>
  BY DEF RangeDone, chans
<1>4. RegisteredIsOpen' /\ RangeOK'
  BY <1>1, <1>3 DEF Inv, RegisteredIsOpen, RangeOK
<1>5. FreshOK'
  BY <1>3 DEF Inv, FreshOK
<1>. QED  BY <1>2, <1>4, <1>5 DEF Inv

LEMMA VisitKeeps ==
    ASSUME Inv, NEW c \in Clients, Visit(c)
    PROVE  Inv'
<1>1. hub.at = "range" /\ c \in hub.todo /\ hub.msg \in Messages /\ hub.todo \subseteq Clients
  BY HubShapes DEF Visit, Inv
<1>2. hub = [at |-> "range", msg |-> hub.msg, todo |-> hub.todo]
  BY <1>1 DEF Inv, TypeOK, HubState, Select, Dead
<1>3. hub' \in { [at |-> "offer", msg |-> hub.msg, todo |-> hub.todo \ {c}, to |-> c],
                 [at |-> "range", msg |-> hub.msg, todo |-> hub.todo \ {c}] }
  BY <1>2 DEF Visit
<1>4. TypeOK'
  <2>1. hub' \in HubState
    BY <1>1, <1>3 DEF HubState
  <2>. QED  BY <2>1 DEF Visit, chans, pumps, Inv, TypeOK
<1>5. UNCHANGED <<clients, handler, closed>>
  BY DEF Visit, chans
<1>6. c \in clients /\ hub.todo \subseteq clients /\ c \notin closed
  BY <1>1 DEF Inv, RangeOK, RegisteredIsOpen
<1>7. RegisteredIsOpen'
  BY <1>3, <1>5, <1>6 DEF Inv, RegisteredIsOpen
<1>8. RangeOK'
  BY <1>3, <1>5, <1>6 DEF RangeOK
<1>9. FreshOK'
  BY <1>5 DEF Inv, FreshOK
<1>. QED  BY <1>4, <1>7, <1>8, <1>9 DEF Inv

\* The two branches of Run that close a channel.
LEMMA EvictKeeps ==
    ASSUME Inv, Evict
    PROVE  Inv'
<1>1. /\ hub.at = "offer" /\ hub.to \in clients /\ hub.to \notin hub.todo
      /\ hub.msg \in Messages /\ hub.todo \subseteq clients
  BY HubShapes DEF Evict, Inv, RangeOK
<1>2. hub' = [at |-> "range", msg |-> hub.msg, todo |-> hub.todo]
  BY DEF Evict, BackToRange
<1>3. /\ UNCHANGED handler
      /\ clients' = clients \ {hub.to}
      /\ closed' = closed \cup {hub.to}
  BY DEF Evict
<1>4. clients \subseteq Clients /\ closed \subseteq Clients
  BY DEF Inv, TypeOK
<1>5. TypeOK'
  <2>1. hub' \in HubState
    BY <1>1, <1>2, <1>4 DEF HubState
  <2>2. clients' \subseteq Clients /\ closed' \subseteq Clients
    BY <1>1, <1>3, <1>4
  <2>. QED  BY <2>1, <2>2 DEF Evict, pumps, Inv, TypeOK
<1>6. RegisteredIsOpen' /\ RangeOK'
  BY <1>1, <1>2, <1>3 DEF Inv, RegisteredIsOpen, RangeOK
<1>7. FreshOK'
  BY <1>1, <1>3 DEF Inv, FreshOK
<1>. QED  BY <1>5, <1>6, <1>7 DEF Inv

LEMMA UnregisterKeeps ==
    ASSUME Inv, NEW c \in Clients, Unregister(c)
    PROVE  Inv'
<1>1. /\ hub.at = "select" /\ UNCHANGED <<hub, handler>>
      /\ clients' = clients \ {c}
      /\ closed' = IF c \in clients THEN closed \cup {c} ELSE closed
  BY DEF Unregister, Select
<1>2. TypeOK'
  <2>1. clients' \subseteq Clients /\ closed' \subseteq Clients
    BY <1>1 DEF Inv, TypeOK
  <2>2. owed' \in [Clients -> SUBSET Addresses]
    BY DEF Unregister, Inv, TypeOK
  <2>3. reader' \in [Clients -> {"none", "read", "ack", "leave", "done"}]
    BY DEF Unregister, Inv, TypeOK
  <2>4. conn' \in [Clients -> {"open", "closed"}]
    BY DEF Unregister, Inv, TypeOK
  <2>. QED  BY <2>1, <2>2, <2>3, <2>4 DEF Unregister, Inv, TypeOK
<1>3. RegisteredIsOpen' /\ RangeOK'
  BY <1>1 DEF Inv, RegisteredIsOpen, RangeOK
<1>4. FreshOK'
  BY <1>1 DEF Inv, FreshOK
<1>. QED  BY <1>2, <1>3, <1>4 DEF Inv

LEMMA ReaderKeeps ==
    ASSUME Inv, NEW c \in Clients, ReaderStep(c)
    PROVE  Inv'
<1>1. reader' \in [Clients -> {"none", "read", "ack", "leave", "done"}]
  BY DEF ReaderStep, ReadMessage, SendAck, ReadFails, Inv, TypeOK
<1>2. CASE ReadMessage(c)
  <2>1. subs' \in [Clients -> SUBSET Addresses]
    BY <1>2 DEF ReadMessage, Inv, TypeOK
  <2>2. owed' \in [Clients -> SUBSET Addresses]
    BY <1>2 DEF ReadMessage, Inv, TypeOK
  <2>3. UNCHANGED <<clients, hub, broadcast, outbox, handler, conn, writer, send, closed>>
    BY <1>2 DEF ReadMessage, chans
  <2>4. TypeOK'
    BY <1>1, <2>1, <2>2, <2>3 DEF Inv, TypeOK
  <2>. QED  BY <2>3, <2>4, OthersKeep
<1>3. CASE SendAck(c)
  <2>1. Append(send[c], "ack") \in Queue(Messages \cup {"ack"}, SendCap)
    BY <1>3, QueueAppend, ConstantsOK DEF SendAck, Inv, TypeOK
  <2>2. send' \in [Clients -> Queue(Messages \cup {"ack"}, SendCap)]
    BY <1>3, <2>1 DEF SendAck, Inv, TypeOK
  <2>3. UNCHANGED <<clients, hub, broadcast, outbox, handler, conn, writer, closed, subs, owed>>
    BY <1>3 DEF SendAck
  <2>4. TypeOK'
    BY <1>1, <2>2, <2>3 DEF Inv, TypeOK
  <2>. QED  BY <2>3, <2>4, OthersKeep
<1>4. CASE ReadFails(c)
  <2>1. UNCHANGED <<clients, hub, broadcast, outbox, handler, conn, writer, send, closed,
                    subs, owed>>
    BY <1>4 DEF ReadFails, chans
  <2>2. TypeOK'
    BY <1>1, <2>1 DEF Inv, TypeOK
  <2>. QED  BY <2>1, <2>2, OthersKeep
<1>. QED  BY <1>2, <1>3, <1>4 DEF ReaderStep

LEMMA WriterKeeps ==
    ASSUME Inv, NEW c \in Clients, WriterStep(c)
    PROVE  Inv'
<1>1. conn' \in [Clients -> {"open", "closed"}]
  BY DEF WriterStep, Write, WriterEnds, WriterStops, Inv, TypeOK
<1>2. writer' \in [Clients -> {"none", "write", "done"}]
  BY DEF WriterStep, Write, WriterEnds, WriterStops, Inv, TypeOK
<1>3. owed' \in [Clients -> SUBSET Addresses]
  BY DEF WriterStep, Write, WriterEnds, WriterStops, Inv, TypeOK
<1>4. send' \in [Clients -> Queue(Messages \cup {"ack"}, SendCap)]
  <2>1. CASE Write(c)
    <3>1. Tail(send[c]) \in Queue(Messages \cup {"ack"}, SendCap)
      BY <2>1, QueueTail, ConstantsOK DEF Write, Inv, TypeOK
    <3>. QED  BY <2>1, <3>1 DEF Write, Inv, TypeOK
  <2>2. CASE WriterEnds(c)
    BY <2>2 DEF WriterEnds, chans, Inv, TypeOK
  <2>. QED  BY <2>1, <2>2 DEF WriterStep
<1>5. UNCHANGED <<clients, hub, broadcast, outbox, handler, reader, closed, subs>>
  BY DEF WriterStep, Write, WriterEnds, chans
<1>6. TypeOK'
  BY <1>1, <1>2, <1>3, <1>4, <1>5 DEF Inv, TypeOK
<1>. QED  BY <1>5, <1>6, OthersKeep

\* The program's end leaves the map and the channels as they are.
LEMMA PanicKeeps ==
    ASSUME Inv, Panic
    PROVE  Inv'
<1>1. hub' = [at |-> "dead"] /\ UNCHANGED <<clients, broadcast, send, closed, subs>>
  BY DEF Panic, Dead, chans
<1>2. \A c \in Clients : handler'[c] = "done"
  BY DEF Panic
<1>3. TypeOK'
  <2>1. hub' \in HubState
    BY DEF Panic, HubState
  <2>2. outbox' \in Queue(Addresses, 2)
    BY QueueFew DEF Panic
  <2>3. /\ handler' \in [Clients -> {"none", "register", "greet", "done"}]
        /\ reader' \in [Clients -> {"none", "read", "ack", "leave", "done"}]
        /\ writer' \in [Clients -> {"none", "write", "done"}]
    BY DEF Panic
  <2>4. conn' \in [Clients -> {"open", "closed"}] /\ owed' \in [Clients -> SUBSET Addresses]
    BY DEF Panic
  <2>. QED  BY <1>1, <2>1, <2>2, <2>3, <2>4 DEF Inv, TypeOK
<1>4. RegisteredIsOpen' /\ RangeOK'
  BY <1>1 DEF Inv, RegisteredIsOpen, RangeOK
<1>5. FreshOK'
  BY <1>1, <1>2 DEF Inv, TypeOK, FreshOK
<1>. QED  BY <1>3, <1>4, <1>5 DEF Inv

LEMMA HubKeeps ==
    ASSUME Inv, HubStep
    PROVE  Inv'
<1>1. CASE Receive
  BY <1>1, ReceiveKeeps
<1>2. CASE \E c \in Clients : Visit(c)
  BY <1>2, VisitKeeps
<1>3. CASE Offer
  BY <1>3, OfferKeeps
<1>4. CASE Evict
  BY <1>4, EvictKeeps
<1>5. CASE RangeDone
  BY <1>5, RangeDoneKeeps
<1>6. CASE \E c \in Clients : Register(c) \/ Unregister(c)
  BY <1>6, RegisterKeeps, UnregisterKeeps
<1>. QED  BY <1>1, <1>2, <1>3, <1>4, <1>5, <1>6 DEF HubStep

LEMMA InvNext == Inv /\ [Next]_vars => Inv'
<1>. SUFFICES ASSUME Inv, [Next]_vars PROVE Inv'
  OBVIOUS
<1>1. CASE UNCHANGED vars
  <2>1. TypeOK'
    BY <1>1 DEF vars, chans, Inv, TypeOK
  <2>2. UNCHANGED <<clients, hub, handler, closed>>
    BY <1>1 DEF vars, chans
  <2>. QED  BY <2>1, <2>2, OthersKeep
<1>2. CASE HubStep
  BY <1>2, HubKeeps
<1>3. CASE Publish \/ Broadcast
  BY <1>3, PublishKeeps, BroadcastKeeps
<1>4. CASE Panic
  BY <1>4, PanicKeeps
<1>5. CASE \E c \in Clients : Upgrade(c) \/ Greet(c)
  BY <1>5, UpgradeKeeps, GreetKeeps
<1>6. CASE \E c \in Clients : ReaderStep(c) \/ WriterStep(c)
  BY <1>6, ReaderKeeps, WriterKeeps
<1>. QED  BY <1>1, <1>2, <1>3, <1>4, <1>5, <1>6 DEF Next

\* Inv holds in every reachable state.
THEOREM Invariant == Spec => []Inv
<1>. QED  BY InvInit, InvNext, PTL DEF Spec

-----------------------------------------------------------------------------
(* The theorems *)

(* Queues never hold more than the channels' capacities, and every process *)
(* is where its code can be (Run, readPump, writePump).                    *)
THEOREM TypeCorrect == Spec => []TypeOK
<1>1. Inv => TypeOK
  BY DEF Inv
<1>. QED  BY <1>1, Invariant, PTL

(* The hub never closes a channel twice nor sends on one it has closed,    *)
(* for any number of clients, addresses and any capacities: Run itself     *)
(* does not panic.                                                         *)
THEOREM RegisteredStayOpen == Spec => []RegisteredIsOpen
<1>1. Inv => RegisteredIsOpen
  BY DEF Inv
<1>. QED  BY <1>1, Invariant, PTL
=============================================================================
