---------------------------- MODULE EventPipeline ----------------------------
(***************************************************************************)
(* Stock events on their way from InventoryService to an alert:            *)
(* infrastructure/queue/publisher.py, the durable queue alerts.queue, and  *)
(* workers/alert_worker.py with its two kinds of Redis keys.               *)
(*                                                                         *)
(* A step of a worker is the code between two awaits.  The broker is       *)
(* modelled by what the code relies on: a message is delivered to one      *)
(* worker at a time, and what is not settled when the worker's connection  *)
(* goes is delivered again.                                                *)
(***************************************************************************)
EXTENDS Integers, Sequences, FiniteSets

CONSTANTS
    Messages,      \* events, each by its event_id
    Workers,       \* running copies of the alert worker
    Items,
    Quantities,    \* quantity_after
    Low, Critical, \* the thresholds an event carries, by item
    Redis,         \* the ways Redis may serve the workers, among those below
    MessageTTL,    \* x-message-ttl
    DoneTTL,       \* how long worker:alert:processed:<event_id> is kept
    DedupTTL,      \* DEDUP_TTL
    Prefetch,      \* bound: set_qos(prefetch_count) is 10
    MaxTime,       \* bound: the clock stops there
    MaxFaults,     \* bound: how many connections and processes are lost
    NoMessage,     \* what a worker between two messages has in hand
    NoPayload      \* what a message not yet published carries

\* "none": the process that runs the worker never connected redis_client, as
\* when alert_worker.py is run by itself; "flaky": a call may fail; "sound".
RedisKinds == {"none", "flaky", "sound"}

Payload == [event: {"ITEM_ISSUED", "ITEM_RESTOCKED"}, item: Items, quantity: Quantities]
Conditions == {"CRITICAL_STOCK", "LOW_STOCK"}
Keys == Items \X Conditions

ASSUME PipelineAssumption ==
    /\ Quantities \subseteq Nat
    /\ Low \in [Items -> Nat] /\ Critical \in [Items -> Nat]
    /\ Redis \subseteq RedisKinds
    /\ MessageTTL \in Nat /\ DoneTTL \in Nat /\ DedupTTL \in Nat
    /\ MessageTTL <= DoneTTL
    /\ Prefetch \in Nat /\ MaxTime \in Nat /\ MaxFaults \in Nat
    /\ NoMessage \notin Messages /\ NoPayload \notin Payload

VARIABLES
    now,         \* the clock that TTLs are measured by
    redis,       \* how Redis serves the workers
    payload,     \* what each published message says
    born,        \* when it was published, 0 if it was not
    ready,       \* the messages in the queue
    unacked,     \* those delivered to each worker and not settled
    acked,       \* those a worker has acknowledged
    dead,        \* those dropped, rejected or expired: no queue will have them again
    pc,          \* where each worker is
    hand,        \* the message it handles
    cut,         \* workers that lost their connection while they handle a message
    done,        \* worker:alert:processed keys: when each expires, 0 if never set
    dedup,       \* alert_dedup keys, likewise
    alerts,      \* the rows of alerts: the message each is about, and when
    faults,      \* connections and processes lost so far
    interrupted  \* history: messages a worker lost while it handled them unfinished

broker == <<ready, unacked, acked, dead>>
keys == <<done, dedup>>
vars == <<now, redis, payload, born, broker, pc, hand, cut, keys, alerts, faults, interrupted>>

-----------------------------------------------------------------------------
(* Types *)

Handling == {"checkDone", "checkDedup", "insert", "setDedup", "setDone", "ack", "reject"}

Row == [message: Messages, at: Nat]

TypeOK ==
    /\ now \in Nat \ {0} /\ faults \in Nat
    /\ redis \in Redis
    /\ payload \in [Messages -> Payload \cup {NoPayload}]
    /\ born \in [Messages -> Nat]
    /\ ready \subseteq Messages /\ acked \subseteq Messages /\ dead \subseteq Messages
    /\ interrupted \subseteq Messages
    /\ unacked \in [Workers -> SUBSET Messages]
    /\ pc \in [Workers -> {"off", "idle"} \cup Handling]
    /\ hand \in [Workers -> Messages \cup {NoMessage}]
    /\ \A w \in Workers : hand[w] \in Messages <=> pc[w] \in Handling
    /\ cut \subseteq Workers
    /\ done \in [Messages -> Nat] /\ dedup \in [Keys -> Nat]
    /\ alerts \in Seq(Row)

-----------------------------------------------------------------------------

Init ==
    /\ now = 1 /\ faults = 0
    /\ redis \in Redis
    /\ payload = [m \in Messages |-> NoPayload]
    /\ born = [m \in Messages |-> 0]
    /\ ready = {} /\ acked = {} /\ dead = {} /\ interrupted = {}
    /\ unacked = [w \in Workers |-> {}]
    /\ pc = [w \in Workers |-> "off"]
    /\ hand = [w \in Workers |-> NoMessage]
    /\ cut = {}
    /\ done = [m \in Messages |-> 0] /\ dedup = [k \in Keys |-> 0]
    /\ alerts = <<>>

Goto(w, label) == pc' = [pc EXCEPT ![w] = label]

\* What process_inventory_event finds in an event.
Condition(p) == IF p.quantity <= Critical[p.item] THEN "CRITICAL_STOCK" ELSE "LOW_STOCK"

Shortage(p) == /\ p.event = "ITEM_ISSUED"
               /\ p.quantity <= Critical[p.item] \/ p.quantity <= Low[p.item]

Key(p) == <<p.item, Condition(p)>>

\* redis_client.get: the value, or None when there is none or the call failed.
Found(expiry) == redis # "none" /\ expiry > now
NotFound(expiry) == redis # "sound" \/ expiry <= now

-----------------------------------------------------------------------------
(* The publisher and the queue *)

\* Without a connection, or when the broker does not confirm, the event is dropped.
Publish(m) ==
    /\ payload[m] = NoPayload
    /\ payload' \in {[payload EXCEPT ![m] = p] : p \in Payload}
    /\ born' = [born EXCEPT ![m] = now]
    /\ \/ ready' = ready \cup {m} /\ UNCHANGED dead
       \/ dead' = dead \cup {m} /\ UNCHANGED ready
    /\ UNCHANGED <<now, redis, unacked, acked, pc, hand, cut, keys, alerts, faults, interrupted>>

Alive(m) == now < born[m] + MessageTTL

\* A message that has waited too long is dead-lettered, not delivered.
Expire(m) ==
    /\ m \in ready /\ ~Alive(m)
    /\ ready' = ready \ {m} /\ dead' = dead \cup {m}
    /\ UNCHANGED <<now, redis, payload, born, unacked, acked, pc, hand, cut, keys, alerts, faults, interrupted>>

Deliver(w, m) ==
    /\ pc[w] # "off" /\ w \notin cut
    /\ m \in ready /\ Alive(m)
    /\ Cardinality(unacked[w]) < Prefetch
    /\ ready' = ready \ {m}
    /\ unacked' = [unacked EXCEPT ![w] = @ \cup {m}]
    /\ UNCHANGED <<now, redis, payload, born, acked, dead, pc, hand, cut, keys, alerts, faults, interrupted>>

\* Faulty variant of TakeBack: what the worker still held is gone.
TakeBackNothing(w, back) ==
    /\ UNCHANGED ready
    /\ unacked' = [unacked EXCEPT ![w] = {}]

\* The connection of w ends: the queue takes back what is in back.
TakeBack(w, back) ==
    /\ ready' = ready \cup back
    /\ unacked' = [unacked EXCEPT ![w] = {}]

-----------------------------------------------------------------------------
(* The worker *)

Connect(w) ==
    /\ pc[w] = "off"
    /\ Goto(w, "idle")
    /\ UNCHANGED <<now, redis, payload, born, broker, hand, cut, keys, alerts, faults, interrupted>>

\* The next message of the iterator.
Take(w) ==
    /\ pc[w] = "idle"
    /\ \E m \in unacked[w] : hand' = [hand EXCEPT ![w] = m]
    /\ Goto(w, "checkDone")
    /\ UNCHANGED <<now, redis, payload, born, broker, cut, keys, alerts, faults, interrupted>>

CheckDone(w) ==
    /\ pc[w] = "checkDone"
    /\ LET m == hand[w] IN
       \/ Found(done[m]) /\ Goto(w, "ack")
       \/ NotFound(done[m]) /\ Shortage(payload[m]) /\ Goto(w, "checkDedup")
       \/ NotFound(done[m]) /\ ~Shortage(payload[m]) /\ Goto(w, "setDone")
    /\ UNCHANGED <<now, redis, payload, born, broker, hand, cut, keys, alerts, faults, interrupted>>

CheckDedup(w) ==
    /\ pc[w] = "checkDedup"
    /\ LET k == Key(payload[hand[w]]) IN
       \/ Found(dedup[k]) /\ Goto(w, "setDone")
       \/ NotFound(dedup[k]) /\ Goto(w, "insert")
    /\ UNCHANGED <<now, redis, payload, born, broker, hand, cut, keys, alerts, faults, interrupted>>

Inserted(w) == alerts' = Append(alerts, [message |-> hand[w], at |-> now])

\* Faulty variant of NotInserted: the exception is swallowed.
NotInsertedUnnoticed(w) == UNCHANGED alerts /\ Goto(w, "setDone")

NotInserted(w) == UNCHANGED alerts /\ Goto(w, "reject")

\* get_db_context commits, or the handler is left with an exception; a commit whose
\* answer is lost has taken effect all the same.
Insert(w) ==
    /\ pc[w] = "insert"
    /\ \/ Inserted(w) /\ Goto(w, "setDedup")
       \/ Inserted(w) /\ Goto(w, "reject")
       \/ NotInserted(w)
    /\ UNCHANGED <<now, redis, payload, born, broker, hand, cut, keys, faults, interrupted>>

SetDedup(w) ==
    /\ pc[w] = "setDedup"
    /\ \/ redis # "none" /\ dedup' = [dedup EXCEPT ![Key(payload[hand[w]])] = now + DedupTTL]
       \/ redis # "sound" /\ UNCHANGED dedup
    /\ Goto(w, "setDone")
    /\ UNCHANGED <<now, redis, payload, born, broker, hand, cut, done, alerts, faults, interrupted>>

\* Faulty variant of MarkDone: the key lives no longer than the dedup keys do.
MarkDoneBriefly(m) == done' = [done EXCEPT ![m] = now + DedupTTL]

MarkDone(m) == done' = [done EXCEPT ![m] = now + DoneTTL]

SetDone(w) ==
    /\ pc[w] = "setDone"
    /\ \/ redis # "none" /\ MarkDone(hand[w])
       \/ redis # "sound" /\ UNCHANGED done
    /\ Goto(w, "ack")
    /\ UNCHANGED <<now, redis, payload, born, broker, hand, cut, dedup, alerts, faults, interrupted>>

\* Faulty variants of Leave: the message stays in hand, the connection is not renewed.
LeaveHolding(w) == Goto(w, "off") /\ cut' = cut \ {w} /\ UNCHANGED hand
LeaveCut(w) == Goto(w, "off") /\ hand' = [hand EXCEPT ![w] = NoMessage] /\ UNCHANGED cut

\* The worker leaves its connection, and comes back later.
Leave(w) ==
    /\ Goto(w, "off")
    /\ hand' = [hand EXCEPT ![w] = NoMessage]
    /\ cut' = cut \ {w}

\* The end of message.process.  On a lost connection it raises instead.
Ack(w) ==
    /\ pc[w] = "ack"
    /\ \/ /\ w \notin cut
          /\ acked' = acked \cup {hand[w]}
          /\ unacked' = [unacked EXCEPT ![w] = @ \ {hand[w]}]
          /\ hand' = [hand EXCEPT ![w] = NoMessage]
          /\ Goto(w, "idle")
          /\ UNCHANGED cut
       \/ /\ w \in cut
          /\ Leave(w)
          /\ UNCHANGED <<acked, unacked>>
    /\ UNCHANGED <<now, redis, payload, born, ready, dead, keys, alerts, faults, interrupted>>

\* process(requeue=False) rejects the message; the exception goes on and closes the
\* connection, and with it the queue takes back what was prefetched.
Reject(w) ==
    /\ pc[w] = "reject"
    /\ dead' = dead \cup (unacked[w] \cap {hand[w]})
    /\ TakeBack(w, unacked[w] \ {hand[w]})
    /\ Leave(w)
    /\ UNCHANGED <<now, redis, payload, born, acked, keys, alerts, faults, interrupted>>

-----------------------------------------------------------------------------
(* Faults *)

Unfinished(w) == {hand[w]} \cap (IF pc[w] \in Handling \ {"ack"} THEN Messages ELSE {})

Fault(w) ==
    /\ faults < MaxFaults
    /\ faults' = faults + 1
    /\ TakeBack(w, unacked[w])
    /\ interrupted' = interrupted \cup Unfinished(w)

\* The process ends.
Crash(w) ==
    /\ pc[w] # "off"
    /\ Fault(w)
    /\ Leave(w)
    /\ UNCHANGED <<now, redis, payload, born, acked, dead, keys, alerts>>

\* The connection ends.  A worker that is waiting notices; one that handles a message
\* goes on with it, while the queue gives the message to another.
Disconnect(w) ==
    /\ pc[w] # "off" /\ w \notin cut
    /\ Fault(w)
    /\ \/ pc[w] = "idle" /\ Leave(w)
       \/ pc[w] \in Handling /\ cut' = cut \cup {w} /\ UNCHANGED <<pc, hand>>
    /\ UNCHANGED <<now, redis, payload, born, acked, dead, keys, alerts>>

Tick ==
    /\ now < MaxTime
    /\ now' = now + 1
    /\ UNCHANGED <<redis, payload, born, broker, pc, hand, cut, keys, alerts, faults, interrupted>>

-----------------------------------------------------------------------------

Handle(w) == \/ CheckDone(w) \/ CheckDedup(w) \/ Insert(w) \/ SetDedup(w) \/ SetDone(w)
             \/ Ack(w) \/ Reject(w)

Work(w) == Connect(w) \/ Take(w) \/ Handle(w) \/ \E m \in Messages : Deliver(w, m)

Next ==
    \/ \E w \in Workers : Work(w) \/ Crash(w) \/ Disconnect(w)
    \/ \E m \in Messages : Publish(m) \/ Expire(m)
    \/ Tick

\* A call that a worker awaits is answered or fails, the broker delivers what waits,
\* the outer loop reconnects, and whoever runs a worker starts it again if it ends.
Fairness ==
    /\ \A w \in Workers : WF_vars(Work(w))
    /\ \A m \in Messages : WF_vars(Expire(m))

Spec == Init /\ [][Next]_vars /\ Fairness

-----------------------------------------------------------------------------
(* Properties *)

\* alert_worker.py:88, "DB transaction committed - safe to write dedup keys now": a
\* shortage that was acknowledged has an alert, its own or the one it was suppressed
\* for, whatever the workers, Redis and the connections did.
AckedShortageHasAlert ==
    \A m \in acked : Shortage(payload[m]) =>
        \E n \in DOMAIN alerts : Key(payload[alerts[n].message]) = Key(payload[m])

Rows(m) == {n \in DOMAIN alerts : alerts[n].message = m}

\* alert_worker.py:113-118: as long as Redis answers, the idempotency key lets an event
\* raise one alert, however often it is delivered, unless a worker was lost with the
\* event in hand; the key lives as long as the message can.
OncePerEvent ==
    redis = "sound" =>
        \A m \in Messages : Alive(m) /\ m \notin interrupted =>
            \A a, b \in Rows(m) : a = b

Held == UNION {unacked[w] : w \in Workers}

\* publisher.py:7-11: the queue neither loses nor doubles a message, also when the
\* worker that held it is lost or gives up.
OnePlace ==
    /\ \A m \in Messages : born[m] # 0 => m \in ready \cup Held \cup acked \cup dead
    /\ ready \cap (Held \cup acked \cup dead) = {}
    /\ Held \cap (acked \cup dead) = {} /\ acked \cap dead = {}
    /\ \A v, w \in Workers : v # w => unacked[v] \cap unacked[w] = {}

\* Every event that is published is settled: none waits for ever in the queue or with
\* a worker.
EveryEventSettles ==
    \A m \in Messages : born[m] # 0 ~> m \in acked \cup dead

-----------------------------------------------------------------------------
(* What the worker's comment says, and a worker run by itself does not do *)

\* alert_worker.py:36-38: a Redis key per item and alert type keeps repeated alerts for
\* the same condition a window apart; at least those of events handled to the end.
RepeatsAWindowApart ==
    \A a, b \in DOMAIN alerts :
        /\ a < b /\ alerts[a].message \in acked
        /\ Key(payload[alerts[a].message]) = Key(payload[alerts[b].message])
        => alerts[a].at + DedupTTL <= alerts[b].at

-----------------------------------------------------------------------------
(* The promise the pipeline keeps *)

\* A worker's name is no name of a place.
ASSUME PlacesAssumption == Workers \cap {"queue", "acked", "dropped"} = {}

Places(m) ==
    {w \in Workers : m \in unacked[w]}
    \cup (IF m \in ready THEN {"queue"} ELSE {})
    \cup (IF m \in acked THEN {"acked"} ELSE {})
    \cup (IF m \in dead THEN {"dropped"} ELSE {})

Calls(m) == IF payload[m] # NoPayload /\ Shortage(payload[m]) THEN {Key(payload[m])} ELSE {}

Delivery == INSTANCE EventDelivery WITH
    Events <- Messages,
    Alerts <- Keys,
    where  <- [m \in Messages |-> Places(m)],
    calls  <- [m \in Messages |-> Calls(m)],
    raised <- [n \in DOMAIN alerts |-> alerts[n].message]

\* publisher.py:72-84, alert_worker.py:88: between any two steps every event is in one
\* place, a lost worker's go back to the queue, and an acknowledgement comes after an
\* alert, however clocks, Redis keys, lost connections and half-handled events mix.
ImplementsDelivery == Delivery!Spec
=============================================================================
