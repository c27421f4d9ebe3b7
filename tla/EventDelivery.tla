---------------------------- MODULE EventDelivery ----------------------------
(***************************************************************************)
(* What the queue and the workers promise the rest of the platform, and    *)
(* nothing of how: an event is in one place at a time from its publication *)
(* on, whoever gives up an event gives it back, and an event that calls    *)
(* for an alert is acknowledged only when there is one.  There is no       *)
(* clock, no Redis, no connection and no half-handled event here.          *)
(*                                                                         *)
(* This is the contract of infrastructure/queue/publisher.py (the durable  *)
(* queue and its dead letters) and of workers/alert_worker.py ("DB         *)
(* transaction committed - safe to write dedup keys now").                 *)
(***************************************************************************)
EXTENDS Sequences

CONSTANTS Events, Workers, Alerts

VARIABLES
    where,   \* the places an event is in: none, and then always one
    calls,   \* the alerts it calls for, none or one
    raised   \* the event of each alert raised, in their order

dvars == <<where, calls, raised>>

Init ==
    /\ where = [e \in Events |-> {}]
    /\ calls = [e \in Events |-> {}]
    /\ raised = <<>>

Put(e, place) == where' = [where EXCEPT ![e] = {place}]

\* The event reaches the queue, or is dropped at once.
Publish(e) ==
    /\ where[e] = {}
    /\ \E place \in {"queue", "dropped"} : Put(e, place)
    /\ \/ UNCHANGED calls
       \/ \E a \in Alerts : calls' = [calls EXCEPT ![e] = {a}]
    /\ UNCHANGED raised

\* It is lent to a worker, or has waited too long.
Leave(e) ==
    /\ where[e] = {"queue"}
    /\ \E place \in Workers \cup {"dropped"} : Put(e, place)
    /\ UNCHANGED <<calls, raised>>

\* Everything lent to w goes back to the queue, but for at most one event that is
\* given up for good.
Return(w) ==
    LET lent == {e \in Events : where[e] = {w}} IN
    /\ lent # {}
    /\ \E gone \in SUBSET lent :
          /\ \A d, e \in gone : d = e
          /\ where' = [e \in Events |-> IF e \notin lent THEN where[e]
                                        ELSE IF e \in gone THEN {"dropped"} ELSE {"queue"}]
    /\ UNCHANGED <<calls, raised>>

\* A worker that was cut off may raise the alert of an event long settled by another.
Raise(e) ==
    /\ where[e] # {} /\ calls[e] # {}
    /\ raised' = Append(raised, e)
    /\ UNCHANGED <<where, calls>>

Acknowledge(e) ==
    /\ \E w \in Workers : where[e] = {w}
    /\ \A a \in calls[e] : \E n \in DOMAIN raised : a \in calls[raised[n]]
    /\ Put(e, "acked")
    /\ UNCHANGED <<calls, raised>>

Next ==
    \/ \E e \in Events : Publish(e) \/ Leave(e) \/ Raise(e) \/ Acknowledge(e)
    \/ \E w \in Workers : Return(w)

Spec == Init /\ [][Next]_dvars
=============================================================================
