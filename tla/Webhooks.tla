------------------------------ MODULE Webhooks ------------------------------
(***************************************************************************)
(* Webhooks: internal/webhooks/webhooks.go.  Trigger looks up the hooks an *)
(* event concerns and offers each a place in a channel of QueueMax; the    *)
(* workers take the deliveries from it, read the hook again and post once. *)
(* Nothing of this survives a restart but the two tables.                  *)
(*                                                                         *)
(* An event is named by its number, and has a type and an address or none. *)
(***************************************************************************)
EXTENDS Integers, Sequences, FiniteSets

CONSTANTS
    Hooks,      \* ids of the rows of webhooks
    Clients,    \* user ids
    Types,      \* event types
    Addresses,  \* addresses events and filters name
    NoAddress,  \* the event names none; the hook filters none
    Triggers,   \* goroutines that may be in Trigger at the same time
    Workers,    \* the workers Start starts
    QueueMax,   \* the capacity of the channel
    HMayFail,   \* whether a statement may fail
    MaxEvents,  \* bound on the number of events
    MaxCrashes  \* bound on the number of restarts

ASSUME WebhooksConstantsOK ==
    /\ NoAddress \notin Addresses
    /\ HMayFail \in BOOLEAN
    /\ {QueueMax, MaxEvents, MaxCrashes} \subseteq Nat

Events == 1..MaxEvents
Deliveries == Hooks \X Events

VARIABLES
    hook,      \* rows of webhooks
    trigger,   \* what each Trigger has still to offer
    queue,     \* the channel
    worker,    \* what each worker does
    event,     \* the events so far; its length is the last event's number
    log,       \* log[d]: rows of webhook_deliveries for delivery d
    matched,   \* deliveries a Trigger has found due; read by no action
    posts,     \* posts[d]: attempts to post d; likewise
    lost,      \* deliveries dropped, cut off or without a hook; likewise
    crashes

webhookVars == <<hook, trigger, queue, worker, event, log, matched, posts, lost, crashes>>

NoHook == [owner |-> "none"]
GoneHook == [owner |-> "gone"]

HookRow ==
    [owner : Clients, type : Types, filter : Addresses \cup {NoAddress}]

WIdle == [at |-> "idle"]

(* The one type invariant.                                                 *)
WebhooksTypeOK ==
    /\ hook \in [Hooks -> HookRow \cup {NoHook, GoneHook}]
    /\ trigger \in [Triggers -> SUBSET Deliveries]
    /\ queue \in Seq(Deliveries) /\ Len(queue) <= QueueMax
    /\ worker \in [Workers -> {WIdle} \cup [at : {"read", "post", "log"}, d : Deliveries]]
    /\ event \in Seq([type : Types, address : Addresses \cup {NoAddress}])
    /\ log \in [Deliveries -> Nat]
    /\ matched \subseteq Deliveries
    /\ posts \in [Deliveries -> Nat]
    /\ lost \subseteq Deliveries
    /\ crashes \in Nat

WebhooksInit ==
    /\ hook = [h \in Hooks |-> NoHook]
    /\ trigger = [g \in Triggers |-> {}]
    /\ queue = <<>>
    /\ worker = [w \in Workers |-> WIdle]
    /\ event = <<>>
    /\ log = [d \in Deliveries |-> 0]
    /\ matched = {}
    /\ posts = [d \in Deliveries |-> 0]
    /\ lost = {}
    /\ crashes = 0

-----------------------------------------------------------------------------
Registered(h) == hook[h] \notin {NoHook, GoneHook}

CreateWebhook(h, u, type, filter) ==
    /\ hook[h] = NoHook
    /\ hook' = [hook EXCEPT ![h] = [owner |-> u, type |-> type, filter |-> filter]]
    /\ UNCHANGED <<trigger, queue, worker, event, log, matched, posts, lost, crashes>>

DeleteWebhook(h, u) ==
    /\ Registered(h) /\ hook[h].owner = u
    /\ hook' = [hook EXCEPT ![h] = GoneHook]
    /\ UNCHANGED <<trigger, queue, worker, event, log, matched, posts, lost, crashes>>

\* The query of Trigger: an event that names no address concerns every hook
\* of its type, whatever the hook filters.
Concerns(type, address) ==
    {h \in Hooks : /\ Registered(h)
                   /\ hook[h].type = type
                   /\ address # NoAddress => hook[h].filter \in {address, NoAddress}}

TriggerQuery(g, type, address) ==
    LET due == Concerns(type, address) \X {Len(event) + 1} IN
    /\ trigger[g] = {}
    /\ Len(event) < MaxEvents
    /\ event' = Append(event, [type |-> type, address |-> address])
    /\ trigger' = [trigger EXCEPT ![g] = due]
    /\ matched' = matched \cup due
    /\ UNCHANGED <<hook, queue, worker, log, posts, lost, crashes>>

\* Bug: a full channel ends the loop over the rows.
TriggerOffer_GivesUp(g, d) ==
    /\ d \in trigger[g]
    /\ IF Len(queue) < QueueMax
       THEN /\ queue' = Append(queue, d)
            /\ trigger' = [trigger EXCEPT ![g] = @ \ {d}]
            /\ UNCHANGED lost
       ELSE /\ lost' = lost \cup {d}
            /\ trigger' = [trigger EXCEPT ![g] = {}]
            /\ UNCHANGED queue
    /\ UNCHANGED <<hook, worker, event, log, matched, posts, crashes>>

\* The select: a full channel drops this delivery, and the loop goes on.
TriggerOffer(g, d) ==
    /\ d \in trigger[g]
    /\ trigger' = [trigger EXCEPT ![g] = @ \ {d}]
    /\ IF Len(queue) < QueueMax
       THEN queue' = Append(queue, d) /\ UNCHANGED lost
       ELSE lost' = lost \cup {d} /\ UNCHANGED queue
    /\ UNCHANGED <<hook, worker, event, log, matched, posts, crashes>>

-----------------------------------------------------------------------------
(* The workers *)

Take(w) ==
    /\ worker[w] = WIdle
    /\ queue # <<>>
    /\ worker' = [worker EXCEPT ![w] = [at |-> "read", d |-> Head(queue)]]
    /\ queue' = Tail(queue)
    /\ UNCHANGED <<hook, trigger, event, log, matched, posts, lost, crashes>>

\* GetWebhook: a hook deleted meanwhile, or not read, gets nothing.
Reread(w) ==
    LET d == worker[w].d IN
    /\ worker[w].at = "read"
    /\ \/ /\ Registered(d[1])
          /\ worker' = [worker EXCEPT ![w].at = "post"]
          /\ UNCHANGED lost
       \/ /\ ~Registered(d[1]) \/ HMayFail
          /\ worker' = [worker EXCEPT ![w] = WIdle]
          /\ lost' = lost \cup {d}
    /\ UNCHANGED <<hook, trigger, queue, event, log, matched, posts, crashes>>

\* One attempt; an answer, an error or the timeout ends it.
Post(w) ==
    /\ worker[w].at = "post"
    /\ posts' = [posts EXCEPT ![worker[w].d] = @ + 1]
    /\ worker' = [worker EXCEPT ![w].at = "log"]
    /\ UNCHANGED <<hook, trigger, queue, event, log, matched, lost, crashes>>

\* logDelivery, whose error is ignored.
LogDelivery(w) ==
    /\ worker[w].at = "log"
    /\ \/ log' = [log EXCEPT ![worker[w].d] = @ + 1]
       \/ HMayFail /\ UNCHANGED log
    /\ worker' = [worker EXCEPT ![w] = WIdle]
    /\ UNCHANGED <<hook, trigger, queue, event, matched, posts, lost, crashes>>

\* The process restarts.
CrashWebhooks ==
    /\ crashes < MaxCrashes
    /\ crashes' = crashes + 1
    /\ lost' = lost \cup {d \in matched : posts[d] = 0}
    /\ trigger' = [g \in DOMAIN trigger |-> {}]
    /\ queue' = <<>>
    /\ worker' = [w \in DOMAIN worker |-> WIdle]
    /\ UNCHANGED <<hook, event, log, matched, posts>>

Work(w) == Take(w) \/ Reread(w) \/ Post(w) \/ LogDelivery(w)

Offer(g) == \E d \in Deliveries : TriggerOffer(g, d)

Trigger(g) ==
    \/ \E type \in Types, address \in Addresses \cup {NoAddress} : TriggerQuery(g, type, address)
    \/ Offer(g)

WebhooksNext ==
    \/ CrashWebhooks
    \/ \E h \in Hooks, u \in Clients :
          \/ \E type \in Types, filter \in Addresses \cup {NoAddress} :
                CreateWebhook(h, u, type, filter)
          \/ DeleteWebhook(h, u)
    \/ \E g \in Triggers : Trigger(g)
    \/ \E w \in Workers : Work(w)

(* A goroutine that can take a step takes one: Trigger's loop waits for      *)
(* nothing, and a request has a timeout.                                    *)
WebhooksFairness ==
    /\ \A g \in Triggers : WF_webhookVars(Offer(g))
    /\ \A w \in Workers : WF_webhookVars(Work(w))

WebhooksSpec == WebhooksInit /\ [][WebhooksNext]_webhookVars /\ WebhooksFairness

-----------------------------------------------------------------------------
(* Properties *)

(* Every hook an event was found to concern is posted to, unless the queue  *)
(* was full, the hook was gone or not to be read, or the process restarted  *)
(* (Trigger, worker, deliver).                                              *)
MatchedIsPosted == \A d \in Deliveries : (d \in matched) ~> (d \in lost \/ posts[d] > 0)

(* No delivery is posted twice, none is logged that was not posted, and     *)
(* none is posted to a hook of another type, or one that filters another    *)
(* address than the event names.                                            *)
PostedOnce ==
    \A d \in Deliveries :
        /\ posts[d] <= 1
        /\ log[d] <= posts[d]
        /\ posts[d] = 1 /\ Registered(d[1]) =>
               /\ hook[d[1]].type = event[d[2]].type
               /\ event[d[2]].address = NoAddress
                      \/ hook[d[1]].filter \in {event[d[2]].address, NoAddress}
=============================================================================
