------------------------- MODULE EventPipeline_proofs -------------------------
(***************************************************************************)
(* What the event pipeline guarantees for every number of events, workers  *)
(* and faults.  Placed says where messages are and which worker has which  *)
(* in hand; Answered, that keys and acknowledgements of a shortage come    *)
(* after its alert; Once, what the idempotency key stands for while Redis  *)
(* answers.                                                                *)
(***************************************************************************)
EXTENDS EventPipeline, TLAPS

Published ==
    /\ \A m \in Messages : born[m] # 0 <=> payload[m] # NoPayload
    /\ \A m \in Messages : born[m] <= now
    /\ \A m \in Messages : done[m] # 0 => payload[m] # NoPayload
    /\ \A m \in ready \cup Held \cup acked \cup dead : payload[m] # NoPayload
    /\ \A w \in Workers : pc[w] \in Handling => payload[hand[w]] # NoPayload
    /\ \A n \in DOMAIN alerts : payload[alerts[n].message] # NoPayload

\* A worker has its message unsettled, unless its connection is lost.
Hands ==
    \A w \in Workers :
        /\ w \in cut => pc[w] \in Handling
        /\ w \in cut \/ pc[w] = "off" => unacked[w] = {}
        /\ pc[w] \in Handling /\ w \notin cut => hand[w] \in unacked[w]

Placed == TypeOK /\ Published /\ Hands /\ OnePlace

\* What any step does to what was published.
Grows ==
    /\ \A m \in Messages : payload[m] # NoPayload => payload'[m] = payload[m] /\ born'[m] = born[m]
    /\ now <= now' /\ redis' = redis /\ interrupted \subseteq interrupted'
    /\ \/ alerts' = alerts
       \/ \E w \in Workers : pc[w] = "insert" /\ Inserted(w)

-----------------------------------------------------------------------------

\* A published message has a payload, and an issue's key is one of the keys.
LEMMA PayloadTypes ==
    ASSUME TypeOK, NEW m \in Messages, payload[m] # NoPayload
    PROVE  payload[m] \in Payload /\ Key(payload[m]) \in Keys
<1>1. payload[m] \in Payload
  BY DEF TypeOK
<1>2. QED
  BY <1>1 DEF Payload, Key, Keys, Condition, Conditions

\* Every step keeps what was published.
LEMMA NextGrows ==
    ASSUME TypeOK, [Next]_vars
    PROVE  Grows
<1>1. ASSUME NEW m \in Messages, Publish(m) PROVE Grows
  BY <1>1 DEF Publish, Grows, TypeOK
<1>2. ASSUME NEW w \in Workers, Insert(w) PROVE Grows
  BY <1>2 DEF Insert, NotInserted, Grows, TypeOK
<1>3. ASSUME NEW w \in Workers, Crash(w) \/ Disconnect(w) PROVE Grows
  BY <1>3 DEF Crash, Disconnect, Fault, Grows, TypeOK
<1>4. CASE Tick
  BY <1>4 DEF Tick, Grows, TypeOK
<1>5. ASSUME UNCHANGED <<now, redis, payload, born, alerts, interrupted>> PROVE Grows
  BY <1>5 DEF Grows, TypeOK
<1>6. ASSUME NEW w \in Workers, Work(w) PROVE Grows
  BY <1>2, <1>5, <1>6
  DEF Work, Handle, Connect, Take, CheckDone, CheckDedup, SetDedup, SetDone, Ack, Reject, Deliver
<1>7. ASSUME NEW m \in Messages, Expire(m) PROVE Grows
  BY <1>5, <1>7 DEF Expire
<1>8. CASE UNCHANGED vars
  BY <1>5, <1>8 DEF vars
<1>9. QED
  BY <1>1, <1>3, <1>4, <1>6, <1>7, <1>8 DEF Next

\* A row that is appended comes after the others and leaves them alone.
LEMMA AppendedRow ==
    ASSUME TypeOK, NEW w \in Workers, hand[w] \in Messages, Inserted(w)
    PROVE  /\ alerts' \in Seq(Row)
           /\ DOMAIN alerts' = DOMAIN alerts \cup {Len(alerts) + 1}
           /\ Len(alerts) + 1 \notin DOMAIN alerts
           /\ \A n \in DOMAIN alerts : alerts'[n] = alerts[n]
           /\ alerts'[Len(alerts) + 1] = [message |-> hand[w], at |-> now]
<1> DEFINE r == [message |-> hand[w], at |-> now]
<1>1. r \in Row /\ alerts \in Seq(Row)
  BY DEF TypeOK, Row
<1>2. alerts' = Append(alerts, r)
  BY DEF Inserted
<1>3. DOMAIN alerts = 1 .. Len(alerts) /\ Len(alerts) \in Nat
  BY <1>1
<1> HIDE DEF r
<1>4. /\ alerts' \in Seq(Row) /\ Len(alerts') = Len(alerts) + 1
      /\ \A n \in 1 .. Len(alerts) : alerts'[n] = alerts[n]
      /\ alerts'[Len(alerts) + 1] = r
  BY <1>1, <1>2
<1>5. DOMAIN alerts' = 1 .. Len(alerts) + 1
  BY <1>3, <1>4
<1>6. QED
  BY <1>3, <1>4, <1>5 DEF r

-----------------------------------------------------------------------------
(* Types *)

\* Every step keeps the types, and a message in hand while a worker handles one.
LEMMA NextTypes ==
    ASSUME TypeOK, [Next]_vars
    PROVE  TypeOK'
<1> USE PipelineAssumption
<1>1. ASSUME NEW m \in Messages, Publish(m) PROVE TypeOK'
  <2>1. PICK p \in Payload : payload' = [payload EXCEPT ![m] = p]
    BY <1>1 DEF Publish
  <2>2. payload' \in [Messages -> Payload \cup {NoPayload}] /\ born' \in [Messages -> Nat]
    BY <1>1, <2>1 DEF Publish, TypeOK
  <2>3. QED
    BY <1>1, <2>2 DEF Publish, TypeOK, keys
<1>2. ASSUME NEW m \in Messages, Expire(m) PROVE TypeOK'
  BY <1>2 DEF Expire, TypeOK, keys
<1>3. ASSUME NEW w \in Workers, NEW m \in Messages, Deliver(w, m) PROVE TypeOK'
  BY <1>3 DEF Deliver, TypeOK, keys
<1>4. ASSUME NEW w \in Workers, Connect(w) PROVE TypeOK'
  BY <1>4 DEF Connect, TypeOK, keys, broker, Goto, Handling
<1>5. ASSUME NEW w \in Workers, Take(w) PROVE TypeOK'
  <2>1. PICK m \in unacked[w] : hand' = [hand EXCEPT ![w] = m]
    BY <1>5 DEF Take
  <2>2. m \in Messages
    BY DEF TypeOK
  <2>3. QED
    BY <1>5, <2>1, <2>2 DEF Take, TypeOK, keys, broker, Goto, Handling
<1>6. ASSUME NEW w \in Workers, CheckDone(w) PROVE TypeOK'
  BY <1>6 DEF CheckDone, TypeOK, keys, broker, Goto, Handling
<1>7. ASSUME NEW w \in Workers, CheckDedup(w) PROVE TypeOK'
  BY <1>7 DEF CheckDedup, TypeOK, keys, broker, Goto, Handling
<1>8. ASSUME NEW w \in Workers, Insert(w) PROVE TypeOK'
  <2>1. hand[w] \in Messages
    BY <1>8 DEF Insert, TypeOK, Handling
  <2>2. alerts' \in Seq(Row)
    BY <1>8, <2>1, AppendedRow DEF Insert, NotInserted, TypeOK
  <2>3. QED
    BY <1>8, <2>2 DEF Insert, NotInserted, TypeOK, keys, broker, Goto, Handling
<1>9. ASSUME NEW w \in Workers, SetDedup(w) PROVE TypeOK'
  <2> DEFINE t == now + DedupTTL
             k == Key(payload[hand[w]])
  <2>3. t \in Nat
    BY DEF TypeOK
  <2>4. dedup' = dedup \/ dedup' = [dedup EXCEPT ![k] = t]
    BY <1>9 DEF SetDedup
  <2>1. dedup' \in [Keys -> Nat]
    <3> HIDE DEF t, k
    <3>1. QED
      BY <2>3, <2>4 DEF TypeOK
  <2>2. QED
    BY <1>9, <2>1 DEF SetDedup, TypeOK, broker, Goto, Handling
<1>10. ASSUME NEW w \in Workers, SetDone(w) PROVE TypeOK'
  <2> DEFINE t == now + DoneTTL
  <2>3. t \in Nat
    BY DEF TypeOK
  <2>4. done' = done \/ done' = [done EXCEPT ![hand[w]] = t]
    BY <1>10 DEF SetDone, MarkDone
  <2>1. done' \in [Messages -> Nat]
    <3> HIDE DEF t
    <3>1. QED
      BY <2>3, <2>4 DEF TypeOK
  <2>2. QED
    BY <1>10, <2>1 DEF SetDone, TypeOK, broker, Goto, Handling
<1>11. ASSUME NEW w \in Workers, Ack(w) PROVE TypeOK'
  <2>1. hand[w] \in Messages
    BY <1>11 DEF Ack, TypeOK, Handling
  <2>2. acked' \subseteq Messages /\ unacked' \in [Workers -> SUBSET Messages]
    <3>1. \/ UNCHANGED <<acked, unacked>>
          \/ /\ acked' = acked \cup {hand[w]}
             /\ unacked' = [unacked EXCEPT ![w] = @ \ {hand[w]}]
      BY <1>11 DEF Ack
    <3>2. unacked[w] \ {hand[w]} \in SUBSET Messages /\ unacked \in [Workers -> SUBSET Messages]
      BY DEF TypeOK
    <3>3. unacked' \in [Workers -> SUBSET Messages]
      BY <3>1, <3>2
    <3>4. QED
      BY <2>1, <3>1, <3>3 DEF TypeOK
  <2>3. /\ pc' \in [Workers -> {"off", "idle"} \cup Handling]
        /\ hand' \in [Workers -> Messages \cup {NoMessage}] /\ cut' \subseteq Workers
        /\ \A v \in Workers : hand'[v] \in Messages <=> pc'[v] \in Handling
    <3>1. PICK l \in {"idle", "off"} : pc' = [pc EXCEPT ![w] = l]
      BY <1>11 DEF Ack, Leave, Goto
    <3>2. hand' = [hand EXCEPT ![w] = NoMessage] /\ cut' \in {cut, cut \ {w}}
      BY <1>11 DEF Ack, Leave
    <3>3. l \in {"off", "idle"} \ Handling
      BY DEF Handling
    <3>4. QED
      BY <3>1, <3>2, <3>3 DEF TypeOK
  <2>4. UNCHANGED <<now, faults, redis, payload, born, ready, dead, interrupted, done, dedup, alerts>>
    BY <1>11 DEF Ack, keys
  <2>5. QED
    BY <2>2, <2>3, <2>4 DEF TypeOK
<1>12. ASSUME NEW w \in Workers, NEW back, back \subseteq unacked[w], TakeBack(w, back)
       PROVE  ready' \subseteq Messages /\ unacked' \in [Workers -> SUBSET Messages]
  BY <1>12 DEF TakeBack, TypeOK
<1>13. ASSUME NEW w \in Workers, Leave(w)
       PROVE  /\ pc' \in [Workers -> {"off", "idle"} \cup Handling]
              /\ hand' \in [Workers -> Messages \cup {NoMessage}] /\ cut' \subseteq Workers
              /\ \A v \in Workers : hand'[v] \in Messages <=> pc'[v] \in Handling
  BY <1>13 DEF Leave, Goto, TypeOK, Handling
<1>14. ASSUME NEW w \in Workers, Reject(w) PROVE TypeOK'
  <2>1. dead' \subseteq Messages
    BY <1>14 DEF Reject, TypeOK
  <2>2. QED
    BY <1>12, <1>13, <1>14, <2>1 DEF Reject, TypeOK, keys
<1>15. ASSUME NEW w \in Workers, Fault(w) PROVE interrupted' \subseteq Messages /\ faults' \in Nat
  BY <1>15 DEF Fault, Unfinished, TypeOK
<1>16. ASSUME NEW w \in Workers, Crash(w) PROVE TypeOK'
  BY <1>12, <1>13, <1>15, <1>16 DEF Crash, Fault, TypeOK, keys
<1>17. ASSUME NEW w \in Workers, Disconnect(w) PROVE TypeOK'
  BY <1>12, <1>13, <1>15, <1>17 DEF Disconnect, Fault, TypeOK, keys
<1>18. CASE Tick
  BY <1>18 DEF Tick, TypeOK, keys, broker
<1>19. CASE UNCHANGED vars
  BY <1>19 DEF vars, TypeOK, keys, broker
<1>20. QED
  BY <1>1, <1>2, <1>3, <1>4, <1>5, <1>6, <1>7, <1>8, <1>9, <1>10, <1>11, <1>14, <1>16, <1>17,
     <1>18, <1>19 DEF Next, Work, Handle

-----------------------------------------------------------------------------
(* Where messages are *)

\* Two workers hold different messages.
LEMMA HeldApart ==
    ASSUME OnePlace, NEW v \in Workers, NEW w \in Workers, NEW m \in unacked[v],
           m \in unacked[w]
    PROVE  v = w
BY DEF OnePlace

\* At the start nothing is published and every worker is off.
LEMMA InitPlaced ==
    ASSUME Init
    PROVE  Placed
<1>1. TypeOK
  BY PipelineAssumption DEF Init, TypeOK, Handling
<1>2. Held = {}
  BY DEF Init, Held
<1>3. Published /\ OnePlace
  BY <1>2 DEF Init, Published, OnePlace, Handling
<1>4. Hands
  BY DEF Init, Hands, Handling
<1>5. QED
  BY <1>1, <1>3, <1>4 DEF Placed

\* No message is lost or doubled by a step.
LEMMA NextOnePlace ==
    ASSUME Placed, [Next]_vars, TypeOK'
    PROVE  OnePlace'
<1> USE DEF Held
<1>1. ASSUME NEW m \in Messages, Publish(m) PROVE OnePlace'
  <2>1. m \notin ready \cup Held \cup acked \cup dead
    BY <1>1 DEF Publish, Placed, Published
  <2>2. \A x \in Messages : x # m => born'[x] = born[x]
    BY <1>1 DEF Publish, Placed, TypeOK
  <2>3. QED
    BY <1>1, <2>1, <2>2 DEF Publish, Placed, OnePlace
<1>2. ASSUME NEW m \in Messages, Expire(m) PROVE OnePlace'
  BY <1>2 DEF Expire, Placed, OnePlace
<1>3. ASSUME NEW w \in Workers, NEW m \in Messages, Deliver(w, m) PROVE OnePlace'
  <2>1. /\ unacked'[w] = unacked[w] \cup {m}
        /\ \A v \in Workers : v # w => unacked'[v] = unacked[v]
    BY <1>3 DEF Deliver, Placed, TypeOK
  <2>2. Held' = Held \cup {m} /\ ready' = ready \ {m} /\ m \in ready
    BY <1>3, <2>1 DEF Deliver
  <2>3. QED
    BY <1>3, <2>1, <2>2 DEF Deliver, Placed, OnePlace
<1>4. ASSUME NEW w \in Workers, NEW back, NEW gone, back \cup gone = unacked[w],
             back \cap gone = {}, TakeBack(w, back), dead' = dead \cup gone,
             UNCHANGED <<born, acked>>
      PROVE  OnePlace'
  <2>1. unacked'[w] = {} /\ \A v \in Workers : v # w => unacked'[v] = unacked[v]
    BY <1>4 DEF TakeBack, Placed, TypeOK
  <2>2. Held' = Held \ (back \cup gone) /\ back \cup gone \subseteq Held
    BY <1>4, <2>1 DEF Placed, OnePlace
  <2>3. ready' = ready \cup back
    BY <1>4 DEF TakeBack
  <2> HIDE DEF Held
  <2>4. QED
    BY <1>4, <2>1, <2>2, <2>3 DEF Placed, OnePlace
<1>5. ASSUME NEW w \in Workers, Reject(w) PROVE OnePlace'
  <2>1. TakeBack(w, unacked[w] \ {hand[w]}) /\ dead' = dead \cup (unacked[w] \cap {hand[w]})
        /\ UNCHANGED <<born, acked>>
    BY <1>5 DEF Reject
  <2>2. QED
    BY <1>4, <2>1
<1>6. ASSUME NEW w \in Workers, Crash(w) \/ Disconnect(w) PROVE OnePlace'
  <2>1. TakeBack(w, unacked[w]) /\ dead' = dead \cup {} /\ UNCHANGED <<born, acked>>
    BY <1>6 DEF Crash, Disconnect, Fault
  <2>2. QED
    BY <1>4, <2>1
<1>7. ASSUME NEW w \in Workers, Ack(w) PROVE OnePlace'
  <2>1. CASE w \in cut
    BY <1>7, <2>1 DEF Ack, Placed, OnePlace
  <2>2. CASE w \notin cut
    <3>1. /\ hand[w] \in unacked[w] /\ acked' = acked \cup {hand[w]}
          /\ UNCHANGED <<ready, dead, born>>
      BY <1>7, <2>2 DEF Ack, Placed, Hands, Handling
    <3>2. /\ unacked'[w] = unacked[w] \ {hand[w]}
          /\ \A v \in Workers : v # w => unacked'[v] = unacked[v]
      BY <1>7, <2>2 DEF Ack, Placed, TypeOK
    <3>3. Held' = Held \ {hand[w]} /\ hand[w] \in Held
      BY <3>1, <3>2 DEF Placed, OnePlace
    <3> HIDE DEF Held
    <3>4. QED
      BY <3>1, <3>2, <3>3 DEF Placed, OnePlace
  <2>3. QED
    BY <2>1, <2>2
<1>8. ASSUME UNCHANGED <<born, broker>> PROVE OnePlace'
  BY <1>8 DEF broker, Placed, OnePlace
<1>9. ASSUME NEW w \in Workers, Work(w) PROVE OnePlace'
  BY <1>3, <1>5, <1>7, <1>8, <1>9
  DEF Work, Handle, Connect, Take, CheckDone, CheckDedup, Insert, SetDedup, SetDone
<1>10. CASE Tick
  BY <1>8, <1>10 DEF Tick
<1>11. CASE UNCHANGED vars
  BY <1>8, <1>11 DEF vars
<1>12. QED
  BY <1>1, <1>2, <1>6, <1>9, <1>10, <1>11 DEF Next

\* A worker keeps its message unsettled through every step but the last.
LEMMA NextHands ==
    ASSUME Placed, [Next]_vars, TypeOK'
    PROVE  Hands'
<1>1. ASSUME UNCHANGED <<unacked, pc, hand, cut>> PROVE Hands'
  BY <1>1 DEF Placed, Hands
<1>2. ASSUME NEW w \in Workers, NEW m \in Messages, Deliver(w, m) PROVE Hands'
  <2>1. /\ unacked'[w] = unacked[w] \cup {m} /\ UNCHANGED <<pc, hand, cut>>
        /\ \A v \in Workers : v # w => unacked'[v] = unacked[v]
        /\ pc[w] # "off" /\ w \notin cut
    BY <1>2 DEF Deliver, Placed, TypeOK
  <2>2. QED
    BY <2>1 DEF Placed, Hands
<1>3. ASSUME NEW w \in Workers, NEW l \in Handling \cup {"idle"}, Goto(w, l),
             pc[w] \in Handling \cup {"off"}, pc[w] = "off" <=> l = "idle",
             UNCHANGED <<unacked, hand, cut>>
      PROVE  Hands'
  <2>1. pc'[w] = l /\ \A v \in Workers : v # w => pc'[v] = pc[v]
    BY <1>3 DEF Goto, Placed, TypeOK
  <2>2. w \in cut' => pc'[w] \in Handling
    BY <1>3, <2>1 DEF Placed, Hands, Handling
  <2>3. QED
    BY <1>3, <2>1, <2>2 DEF Placed, Hands, Handling
<1>4. ASSUME NEW w \in Workers, Connect(w) PROVE Hands'
  BY <1>3, <1>4 DEF Connect, broker, Handling
<1>5. ASSUME NEW w \in Workers, Take(w) PROVE Hands'
  <2>1. PICK m \in unacked[w] : hand' = [hand EXCEPT ![w] = m]
    BY <1>5 DEF Take
  <2>2. /\ pc'[w] = "checkDone" /\ hand'[w] = m /\ UNCHANGED <<unacked, cut>>
        /\ \A v \in Workers : v # w => pc'[v] = pc[v] /\ hand'[v] = hand[v]
    BY <1>5, <2>1 DEF Take, broker, Goto, Placed, TypeOK
  <2>3. QED
    BY <1>5, <2>1, <2>2 DEF Take, Placed, Hands, Handling
<1>6. ASSUME NEW w \in Workers,
             CheckDone(w) \/ CheckDedup(w) \/ Insert(w) \/ SetDedup(w) \/ SetDone(w)
      PROVE  Hands'
  <2>1. /\ UNCHANGED <<unacked, hand, cut>> /\ pc[w] \in Handling
        /\ \E l \in Handling : Goto(w, l)
    BY <1>6 DEF CheckDone, CheckDedup, Insert, NotInserted, SetDedup, SetDone, broker, Handling
  <2>2. \A l \in Handling : l # "idle" /\ l # "off"
    BY DEF Handling
  <2>3. QED
    BY <1>3, <2>1, <2>2
<1>7. ASSUME NEW w \in Workers, Leave(w), unacked'[w] = {},
             \A v \in Workers : v # w => unacked'[v] = unacked[v]
      PROVE  Hands'
  <2>1. /\ pc'[w] = "off" /\ w \notin cut' /\ cut' = cut \ {w}
        /\ \A v \in Workers : v # w => pc'[v] = pc[v] /\ hand'[v] = hand[v]
    BY <1>7 DEF Leave, Goto, Placed, TypeOK
  <2>2. QED
    BY <1>7, <2>1 DEF Placed, Hands, Handling
<1>8. ASSUME NEW w \in Workers, Ack(w) PROVE Hands'
  <2>1. CASE w \in cut
    BY <1>7, <1>8, <2>1 DEF Ack, Placed, Hands
  <2>2. CASE w \notin cut
    <3>1. /\ unacked'[w] = unacked[w] \ {hand[w]} /\ pc'[w] = "idle" /\ UNCHANGED cut
          /\ \A v \in Workers : v # w => /\ unacked'[v] = unacked[v] /\ pc'[v] = pc[v]
                                        /\ hand'[v] = hand[v]
      BY <1>8, <2>2 DEF Ack, Goto, Placed, TypeOK
    <3>2. QED
      BY <2>2, <3>1 DEF Placed, Hands, Handling
  <2>3. QED
    BY <2>1, <2>2
<1>9. ASSUME NEW w \in Workers, NEW back, TakeBack(w, back)
      PROVE  /\ unacked'[w] = {}
             /\ \A v \in Workers : v # w => unacked'[v] = unacked[v]
  BY <1>9 DEF TakeBack, Placed, TypeOK
<1>10. ASSUME NEW w \in Workers, Reject(w) PROVE Hands'
  BY <1>7, <1>9, <1>10 DEF Reject
<1>11. ASSUME NEW w \in Workers, Crash(w) PROVE Hands'
  BY <1>7, <1>9, <1>11 DEF Crash, Fault
<1>12. ASSUME NEW w \in Workers, Disconnect(w) PROVE Hands'
  <2>1. TakeBack(w, unacked[w])
    BY <1>12 DEF Disconnect, Fault
  <2>2. CASE Leave(w)
    BY <1>7, <1>9, <2>1, <2>2
  <2>3. CASE pc[w] \in Handling /\ cut' = cut \cup {w} /\ UNCHANGED <<pc, hand>>
    BY <1>9, <2>1, <2>3 DEF Placed, Hands
  <2>4. QED
    BY <1>12, <2>2, <2>3 DEF Disconnect
<1>13. ASSUME NEW w \in Workers, Work(w) PROVE Hands'
  BY <1>2, <1>4, <1>5, <1>6, <1>8, <1>10, <1>13 DEF Work, Handle
<1>14. ASSUME NEW m \in Messages, Publish(m) \/ Expire(m) PROVE Hands'
  BY <1>1, <1>14 DEF Publish, Expire
<1>15. CASE Tick
  BY <1>1, <1>15 DEF Tick, broker
<1>16. CASE UNCHANGED vars
  BY <1>1, <1>16 DEF vars, broker
<1>17. QED
  BY <1>11, <1>12, <1>13, <1>14, <1>15, <1>16 DEF Next

\* A message comes into a worker's hand from those delivered to it.
LEMMA NextInHand ==
    ASSUME TypeOK, [Next]_vars, NEW w \in Workers, pc'[w] \in Handling
    PROVE  \/ hand'[w] = hand[w] /\ pc[w] \in Handling
           \/ hand'[w] \in unacked[w] /\ pc[w] = "idle" /\ pc'[w] = "checkDone"
<1>1. ASSUME UNCHANGED <<pc, hand>> PROVE hand'[w] = hand[w] /\ pc[w] \in Handling
  BY <1>1
<1>2. ASSUME NEW v \in Workers, v # w, NEW l, NEW m, pc' = [pc EXCEPT ![v] = l],
             hand' = [hand EXCEPT ![v] = m] \/ hand' = hand
      PROVE  hand'[w] = hand[w] /\ pc[w] \in Handling
  BY <1>2 DEF TypeOK
<1>3. ASSUME NEW v \in Workers, NEW m \in Messages,
             Deliver(v, m) \/ Publish(m) \/ Expire(m) \/ Tick \/ UNCHANGED vars
      PROVE  hand'[w] = hand[w] /\ pc[w] \in Handling
  BY <1>3, <1>1 DEF Deliver, Publish, Expire, Tick, vars
<1>4. ASSUME NEW v \in Workers, Take(v)
      PROVE  \/ hand'[w] = hand[w] /\ pc[w] \in Handling
             \/ hand'[w] \in unacked[w] /\ pc[w] = "idle" /\ pc'[w] = "checkDone"
  BY <1>2, <1>4 DEF Take, Goto, TypeOK
<1>5. ASSUME NEW v \in Workers,
             CheckDone(v) \/ CheckDedup(v) \/ Insert(v) \/ SetDedup(v) \/ SetDone(v)
      PROVE  hand'[w] = hand[w] /\ pc[w] \in Handling
  <2>1. UNCHANGED hand /\ pc[v] \in Handling /\ \E l : pc' = [pc EXCEPT ![v] = l]
    BY <1>5 DEF CheckDone, CheckDedup, Insert, NotInserted, SetDedup, SetDone, Goto, Handling
  <2>2. QED
    BY <1>2, <2>1
<1>6. ASSUME NEW v \in Workers, Connect(v) \/ Ack(v) \/ Reject(v) \/ Crash(v) \/ Disconnect(v)
      PROVE  hand'[w] = hand[w] /\ pc[w] \in Handling
  <2>1. \/ UNCHANGED <<pc, hand>>
        \/ /\ \E l \in {"off", "idle"} : pc' = [pc EXCEPT ![v] = l]
           /\ hand' = [hand EXCEPT ![v] = NoMessage] \/ hand' = hand
    BY <1>6 DEF Connect, Ack, Reject, Crash, Disconnect, Leave, Goto
  <2>2. ASSUME NEW l \in {"off", "idle"}, pc' = [pc EXCEPT ![v] = l]
        PROVE  v # w
    BY <2>2 DEF TypeOK, Handling
  <2>3. QED
    BY <1>1, <1>2, <2>1, <2>2
<1>7. QED
  <2>1. ASSUME NEW v \in Workers, Work(v) \/ Crash(v) \/ Disconnect(v)
        PROVE  \/ hand'[w] = hand[w] /\ pc[w] \in Handling
               \/ hand'[w] \in unacked[w] /\ pc[w] = "idle" /\ pc'[w] = "checkDone"
    BY <1>3, <1>4, <1>5, <1>6, <2>1 DEF Work, Handle
  <2>2. ASSUME NEW m \in Messages, Publish(m) \/ Expire(m)
        PROVE  hand'[w] = hand[w] /\ pc[w] \in Handling
    BY <1>3, <2>2
  <2>3. CASE Tick \/ UNCHANGED vars
    BY <1>1, <2>3 DEF Tick, vars
  <2>4. QED
    BY <2>1, <2>2, <2>3 DEF Next

\* Only a worker's own steps take it to another step of its handler.
LEMMA NextStep ==
    ASSUME TypeOK, [Next]_vars, NEW w \in Workers, pc'[w] \in Handling, pc'[w] # pc[w]
    PROVE  Take(w) \/ CheckDone(w) \/ CheckDedup(w) \/ Insert(w) \/ SetDedup(w) \/ SetDone(w)
<1>1. ASSUME NEW v \in Workers, NEW l, pc' = [pc EXCEPT ![v] = l]
      PROVE  v = w /\ l \in Handling
  BY <1>1 DEF TypeOK
<1>2. ASSUME NEW v \in Workers, Crash(v) \/ Disconnect(v) \/ Connect(v) \/ Ack(v) \/ Reject(v)
      PROVE  FALSE
  <2>1. UNCHANGED pc \/ \E l \in {"off", "idle"} : pc' = [pc EXCEPT ![v] = l]
    BY <1>2 DEF Crash, Disconnect, Connect, Ack, Reject, Leave, Goto
  <2>2. QED
    BY <1>1, <2>1 DEF Handling
<1>3. ASSUME NEW v \in Workers,
             \/ Take(v) \/ CheckDone(v) \/ CheckDedup(v) \/ Insert(v) \/ SetDedup(v) \/ SetDone(v)
      PROVE  v = w
  <2>1. \E l : pc' = [pc EXCEPT ![v] = l]
    BY <1>3 DEF Take, CheckDone, CheckDedup, Insert, NotInserted, SetDedup, SetDone, Goto
  <2>2. QED
    BY <1>1, <2>1
<1>4. ASSUME NEW v \in Workers, NEW m \in Messages, Deliver(v, m) PROVE FALSE
  BY <1>4 DEF Deliver
<1>5. ASSUME NEW m \in Messages, Publish(m) \/ Expire(m) PROVE FALSE
  BY <1>5 DEF Publish, Expire
<1>6. CASE Tick \/ UNCHANGED vars
  BY <1>6 DEF Tick, vars
<1>7. QED
  BY <1>2, <1>3, <1>4, <1>5, <1>6 DEF Next, Work, Handle

\* Whatever is in the queue, with a worker, settled, or in a row was published.
LEMMA NextPublished ==
    ASSUME Placed, [Next]_vars, TypeOK'
    PROVE  Published'
<1> DEFINE Known == {m \in Messages : payload[m] # NoPayload}
<1>1. /\ Grows /\ Known' = {m \in Messages : payload'[m] # NoPayload}
      /\ \A m \in Known : m \in Messages /\ payload'[m] = payload[m] /\ born'[m] = born[m]
      /\ Known \subseteq Known'
  BY NextGrows DEF Placed, Grows
<1>2. ready \cup Held \cup acked \cup dead \subseteq Known
  BY DEF Placed, Published, TypeOK, Held
<1>3. \A w \in Workers : pc[w] \in Handling => hand[w] \in Known
  BY DEF Placed, Published, TypeOK
<1>4. \A n \in DOMAIN alerts : alerts[n].message \in Known
  <2>1. \A n \in DOMAIN alerts : alerts[n] \in Row
    BY DEF Placed, TypeOK
  <2>2. QED
    BY <2>1 DEF Placed, Published, Row
<1>5. /\ \A m \in Messages : born'[m] # 0 <=> payload'[m] # NoPayload
      /\ \A m \in Messages : born'[m] <= now'
  <2>1. ASSUME NEW m \in Messages, Publish(m)
        PROVE  \A x \in Messages : /\ born'[x] # 0 <=> payload'[x] # NoPayload
                                  /\ born'[x] <= now'
    <3>1. PICK p \in Payload : payload' = [payload EXCEPT ![m] = p]
      BY <2>1 DEF Publish
    <3>2. born' = [born EXCEPT ![m] = now] /\ now' = now /\ now # 0
      BY <2>1 DEF Publish, Placed, TypeOK
    <3>3. QED
      BY <3>1, <3>2, PipelineAssumption DEF Placed, Published, TypeOK
  <2>2. ASSUME UNCHANGED <<payload, born>>
        PROVE  \A x \in Messages : /\ born'[x] # 0 <=> payload'[x] # NoPayload
                                  /\ born'[x] <= now'
    <3>1. now \in Nat /\ now' \in Nat /\ now <= now' /\ \A x \in Messages : born[x] \in Nat
      BY <1>1 DEF Placed, TypeOK, Grows
    <3>2. QED
      BY <2>2, <3>1 DEF Placed, Published
  <2>3. (\E m \in Messages : Publish(m)) \/ UNCHANGED <<payload, born>>
    BY DEF Next, Work, Handle, Expire, Connect, Take, CheckDone, CheckDedup, Insert, SetDedup,
           SetDone, Ack, Reject, Deliver, Crash, Disconnect, Tick, vars
  <2>4. QED
    BY <2>1, <2>2, <2>3
<1>6. \A m \in Messages : done'[m] # 0 => m \in Known'
  <2>1. ASSUME NEW w \in Workers, SetDone(w)
        PROVE  \A m \in Messages : done'[m] # 0 => done[m] # 0 \/ m = hand[w]
    BY <2>1 DEF SetDone, MarkDone, Placed, TypeOK
  <2>2. (\E w \in Workers : SetDone(w) /\ pc[w] \in Handling) \/ UNCHANGED done
    BY DEF Next, Work, Handle, Publish, Expire, Connect, Take, CheckDone, CheckDedup, Insert,
           SetDedup, SetDone, Ack, Reject, Deliver, Crash, Disconnect, Tick, vars, keys, Handling
  <2>3. \A m \in Messages : done[m] # 0 => m \in Known
    BY DEF Placed, Published
  <2>4. QED
    BY <1>1, <1>3, <2>1, <2>2, <2>3
<1>7. ready' \cup Held' \cup acked' \cup dead' \subseteq Known'
  <2>1. ASSUME NEW m \in Messages, Publish(m)
        PROVE  /\ m \in Known' /\ Held' = Held
               /\ ready' \cup acked' \cup dead' \subseteq ready \cup acked \cup dead \cup {m}
    <3>1. PICK p \in Payload : payload' = [payload EXCEPT ![m] = p]
      BY <2>1 DEF Publish
    <3>2. payload'[m] # NoPayload
      BY <3>1, PipelineAssumption DEF Placed, TypeOK
    <3>3. QED
      BY <2>1, <3>2 DEF Publish, Held
  <2>2. ASSUME NEW w \in Workers, NEW m \in Messages, Deliver(w, m)
        PROVE  /\ Held' \subseteq Held \cup {m} /\ m \in ready
               /\ ready' \cup acked' \cup dead' \subseteq ready \cup acked \cup dead
    BY <2>2 DEF Deliver, Held, Placed, TypeOK
  <2>3. ASSUME NEW w \in Workers, Ack(w)
        PROVE  /\ Held' \subseteq Held /\ hand[w] \in Known
               /\ ready' \cup acked' \cup dead' \subseteq ready \cup acked \cup dead \cup {hand[w]}
    <3>3. unacked' = unacked \/ unacked' = [unacked EXCEPT ![w] = unacked[w] \ {hand[w]}]
      BY <2>3 DEF Ack
    <3>1. \A v \in Workers : unacked'[v] \subseteq unacked[v]
      BY <3>3 DEF Placed, TypeOK
    <3>2. QED
      BY <1>3, <2>3, <3>1 DEF Ack, Held, Handling
  <2>4. ASSUME NEW w \in Workers, Reject(w) \/ Crash(w) \/ Disconnect(w)
        PROVE  /\ Held' \subseteq Held
               /\ ready' \cup acked' \cup dead' \subseteq ready \cup acked \cup dead \cup Held
    <3>1. PICK back \in SUBSET unacked[w] : TakeBack(w, back)
      BY <2>4 DEF Reject, Crash, Disconnect, Fault
    <3>2. \A v \in Workers : unacked'[v] \subseteq unacked[v]
      BY <3>1 DEF TakeBack, Placed, TypeOK
    <3>3. ready' = ready \cup back /\ acked' = acked /\ dead' \subseteq dead \cup unacked[w]
      BY <2>4, <3>1 DEF Reject, Crash, Disconnect, TakeBack
    <3>4. QED
      BY <3>2, <3>3 DEF Held
  <2>5. ASSUME NEW m \in Messages, Expire(m)
        PROVE  Held' = Held /\ ready' \cup acked' \cup dead' \subseteq ready \cup acked \cup dead
    BY <2>5 DEF Expire, Held
  <2>6. \/ \E m \in Messages : Publish(m) \/ Expire(m) \/ \E w \in Workers : Deliver(w, m)
        \/ \E w \in Workers : Ack(w) \/ Reject(w) \/ Crash(w) \/ Disconnect(w)
        \/ UNCHANGED broker
    BY DEF Next, Work, Handle, Connect, Take, CheckDone, CheckDedup, Insert, SetDedup, SetDone,
           Tick, vars
  <2>7. UNCHANGED broker => Held' = Held /\ UNCHANGED <<ready, acked, dead>>
    BY DEF broker, Held
  <2> HIDE DEF Known
  <2>8. QED
    BY <1>1, <1>2, <2>1, <2>2, <2>3, <2>4, <2>5, <2>6, <2>7
<1>8. \A w \in Workers : pc'[w] \in Handling => hand'[w] \in Known'
  <2>1. ASSUME NEW w \in Workers, pc'[w] \in Handling PROVE hand'[w] \in Known'
    <3>1. (hand'[w] = hand[w] /\ pc[w] \in Handling) \/ hand'[w] \in unacked[w]
      BY <2>1, NextInHand DEF Placed
    <3>2. unacked[w] \subseteq Known
      BY <1>2 DEF Held
    <3>3. QED
      BY <1>1, <1>3, <3>1, <3>2
  <2>2. QED
    BY <2>1
<1>9. \A n \in DOMAIN alerts' : alerts'[n].message \in Known'
  <2>1. ASSUME NEW w \in Workers, pc[w] = "insert", Inserted(w)
        PROVE  \A n \in DOMAIN alerts' :
                  \/ n \in DOMAIN alerts /\ alerts'[n] = alerts[n]
                  \/ alerts'[n].message = hand[w]
    <3>1. hand[w] \in Messages
      BY <2>1 DEF Placed, TypeOK, Handling
    <3>2. /\ DOMAIN alerts' = DOMAIN alerts \cup {Len(alerts) + 1}
          /\ \A n \in DOMAIN alerts : alerts'[n] = alerts[n]
          /\ alerts'[Len(alerts) + 1] = [message |-> hand[w], at |-> now]
      BY <2>1, <3>1, AppendedRow DEF Placed
    <3>3. [message |-> hand[w], at |-> now].message = hand[w]
      OBVIOUS
    <3>4. QED
      BY <3>2, <3>3
  <2>2. alerts' = alerts \/ \E w \in Workers : pc[w] \in Handling /\ pc[w] = "insert" /\ Inserted(w)
    BY <1>1 DEF Grows, Handling
  <2>3. QED
    BY <1>1, <1>3, <1>4, <2>1, <2>2
<1>10. QED
  BY <1>1, <1>5, <1>6, <1>7, <1>8, <1>9 DEF Published

\* Every step keeps messages in their places.
LEMMA NextPlaced ==
    ASSUME Placed, [Next]_vars
    PROVE  Placed'
<1>1. TypeOK'
  BY NextTypes DEF Placed
<1>2. QED
  BY <1>1, NextOnePlace, NextHands, NextPublished DEF Placed

-----------------------------------------------------------------------------
(* Keys and acknowledgements come after the alert *)

\* The keys that an alert was inserted for, and the events that need no other.
Told == {Key(payload[alerts[n].message]) : n \in DOMAIN alerts}

Fulfilled == {m \in Messages : Shortage(payload[m]) => Key(payload[m]) \in Told}

Answered ==
    /\ \A k \in Keys : dedup[k] # 0 => k \in Told
    /\ \A m \in Messages : done[m] # 0 => m \in Fulfilled
    /\ \A w \in Workers :
        /\ pc[w] = "setDedup" => Key(payload[hand[w]]) \in Told
        /\ pc[w] \in {"setDone", "ack"} => hand[w] \in Fulfilled
    /\ acked \subseteq Fulfilled

\* What was told stays told.
LEMMA ToldStays ==
    ASSUME Placed, [Next]_vars
    PROVE  /\ Told \subseteq Told'
           /\ \A m \in Fulfilled : payload[m] # NoPayload => m \in Fulfilled'
<1>1. Grows
  BY NextGrows DEF Placed
<1>2. ASSUME NEW n \in DOMAIN alerts
      PROVE  /\ n \in DOMAIN alerts' /\ alerts'[n] = alerts[n]
             /\ payload'[alerts[n].message] = payload[alerts[n].message]
  <2>1. alerts[n] \in Row /\ payload[alerts[n].message] # NoPayload
    BY <1>2 DEF Placed, Published, TypeOK
  <2>2. alerts[n].message \in Messages
    BY <2>1 DEF Row
  <2>3. n \in DOMAIN alerts' /\ alerts'[n] = alerts[n]
    <3>1. CASE alerts' = alerts
      BY <1>2, <3>1
    <3>2. ASSUME NEW w \in Workers, pc[w] = "insert", Inserted(w)
          PROVE  n \in DOMAIN alerts' /\ alerts'[n] = alerts[n]
      <4>1. hand[w] \in Messages
        BY <3>2 DEF Placed, TypeOK, Handling
      <4>2. QED
        BY <1>2, <3>2, <4>1, AppendedRow DEF Placed
    <3>3. QED
      BY <1>1, <3>1, <3>2 DEF Grows
  <2>4. QED
    BY <1>1, <2>1, <2>2, <2>3 DEF Grows
<1>3. ASSUME NEW k, k \in Told PROVE k \in Told'
  BY <1>2, <1>3 DEF Told
<1>4. ASSUME NEW m \in Messages, payload[m] # NoPayload, m \in Fulfilled PROVE m \in Fulfilled'
  <2>1. payload'[m] = payload[m]
    BY <1>1, <1>4 DEF Grows
  <2>2. QED
    BY <1>3, <1>4, <2>1 DEF Fulfilled
<1>5. Fulfilled \subseteq Messages
  BY DEF Fulfilled
<1>6. QED
  BY <1>3, <1>4, <1>5

\* Keys, acknowledgements and the end of a handler come after an alert.
LEMMA NextAnswered ==
    ASSUME Placed, Answered, [Next]_vars
    PROVE  Answered'
<1>1. Placed' /\ Grows
  BY NextPlaced, NextGrows DEF Placed
<1>2. ASSUME NEW w \in Workers, pc[w] \in Handling
      PROVE  /\ hand[w] \in Messages /\ payload[hand[w]] # NoPayload
             /\ payload'[hand[w]] = payload[hand[w]]
  BY <1>1, <1>2 DEF Placed, TypeOK, Published, Grows
<1>3. ASSUME NEW w \in Workers, pc'[w] \in {"setDedup", "setDone", "ack"}
      PROVE  hand'[w] = hand[w] /\ pc[w] \in Handling
  BY <1>3, NextInHand DEF Placed, Handling
<1>4. \A k \in Keys : dedup'[k] # 0 => k \in Told'
  <2>1. (\E w \in Workers : SetDedup(w)) \/ UNCHANGED dedup
    BY DEF Next, Work, Handle, Publish, Expire, Connect, Take, CheckDone, CheckDedup, Insert,
           SetDone, Ack, Reject, Deliver, Crash, Disconnect, Tick, vars, keys
  <2>2. ASSUME NEW w \in Workers, SetDedup(w), NEW k \in Keys, dedup'[k] # 0
        PROVE  k \in Told
    <3>1. dedup[k] # 0 \/ (k = Key(payload[hand[w]]) /\ pc[w] = "setDedup")
      BY <2>2 DEF SetDedup, Placed, TypeOK
    <3>2. QED
      BY <3>1 DEF Answered
  <2>3. \A k \in Keys : dedup'[k] # 0 => k \in Told
    BY <2>1, <2>2 DEF Answered
  <2>4. QED
    BY <2>3, ToldStays
<1>5. \A m \in Messages : done'[m] # 0 => m \in Fulfilled'
  <2>1. (\E w \in Workers : SetDone(w)) \/ UNCHANGED done
    BY DEF Next, Work, Handle, Publish, Expire, Connect, Take, CheckDone, CheckDedup, Insert,
           SetDedup, Ack, Reject, Deliver, Crash, Disconnect, Tick, vars, keys
  <2>2. ASSUME NEW w \in Workers, SetDone(w), NEW m \in Messages, done'[m] # 0
        PROVE  payload[m] # NoPayload /\ m \in Fulfilled
    <3>1. done[m] # 0 \/ (m = hand[w] /\ pc[w] = "setDone")
      BY <2>2 DEF SetDone, MarkDone, Placed, TypeOK
    <3>2. QED
      BY <1>2, <3>1 DEF Answered, Placed, Published, Handling
  <2>3. \A m \in Messages : done'[m] # 0 => payload[m] # NoPayload /\ m \in Fulfilled
    BY <2>1, <2>2 DEF Answered, Placed, Published
  <2>4. QED
    BY <2>3, ToldStays
<1>6. \A m \in acked' : m \in Fulfilled'
  <2>1. ASSUME NEW w \in Workers, Ack(w), NEW m \in acked'
        PROVE  m \in Messages /\ payload[m] # NoPayload /\ m \in Fulfilled
    <3>1. m \in acked \/ (m = hand[w] /\ pc[w] = "ack")
      BY <2>1 DEF Ack
    <3>2. QED
      BY <1>2, <3>1 DEF Answered, Placed, Published, TypeOK, Handling
  <2>2. (\E w \in Workers : Ack(w)) \/ UNCHANGED acked
    BY DEF Next, Work, Handle, Publish, Expire, Connect, Take, CheckDone, CheckDedup, Insert,
           SetDedup, SetDone, Reject, Deliver, Crash, Disconnect, Tick, vars, broker
  <2>3. \A m \in acked' : m \in Messages /\ payload[m] # NoPayload /\ m \in Fulfilled
    BY <2>1, <2>2 DEF Answered, Placed, Published, TypeOK
  <2>4. QED
    BY <2>3, ToldStays
<1>7. ASSUME NEW w \in Workers, pc'[w] = "setDedup"
      PROVE  Key(payload'[hand'[w]]) \in Told'
  <2>1. hand'[w] = hand[w] /\ pc[w] \in Handling
    BY <1>3, <1>7
  <2>5. PICK m \in Messages : m = hand[w] /\ m = hand'[w] /\ payload'[m] = payload[m]
    BY <1>2, <2>1
  <2>2. CASE pc[w] = "setDedup"
    <3>1. PICK k : k = Key(payload[m])
      OBVIOUS
    <3>2. k \in Told /\ k = Key(payload'[hand'[w]])
      BY <2>2, <2>5, <3>1 DEF Answered
    <3>3. k \in Told'
      BY <3>2, ToldStays
    <3>4. QED
      BY <3>2, <3>3 DEF Told
  <2>3. CASE pc[w] # "setDedup"
    <3>1. Insert(w) /\ Inserted(w)
      BY <1>7, <2>1, <2>3, NextStep
      DEF Placed, TypeOK, Take, CheckDone, CheckDedup, Insert, NotInserted, SetDedup, SetDone, Goto,
          Handling
    <3>2. /\ Len(alerts) + 1 \in DOMAIN alerts'
          /\ alerts'[Len(alerts) + 1] = [message |-> hand[w], at |-> now]
      BY <1>2, <2>1, <3>1, AppendedRow DEF Placed
    <3>3. [message |-> hand[w], at |-> now].message = hand[w]
      OBVIOUS
    <3>4. QED
      BY <2>1, <3>2, <3>3 DEF Told
  <2>4. QED
    BY <2>2, <2>3
<1>8. ASSUME NEW w \in Workers, pc'[w] \in {"setDone", "ack"}
      PROVE  hand'[w] \in Fulfilled'
  <2>1. hand'[w] = hand[w] /\ pc[w] \in Handling
    BY <1>3, <1>8
  <2>5. PICK m \in Messages : m = hand[w] /\ m = hand'[w] /\ payload[m] # NoPayload
    BY <1>2, <2>1
  <2>6. m \in Fulfilled => hand'[w] \in Fulfilled'
    <3>1. m \in Fulfilled => m \in Fulfilled'
      BY <2>5, ToldStays
    <3>2. QED
      BY <2>5, <3>1 DEF Fulfilled
  <2>2. CASE pc'[w] = pc[w]
    BY <1>8, <2>2, <2>5, <2>6 DEF Answered
  <2>3. CASE pc'[w] # pc[w]
    <3>1. hand[w] \in Fulfilled
      <4>1. CASE CheckDone(w)
        <5>1. CASE Found(done[hand[w]])
          BY <1>2, <2>1, <5>1, PipelineAssumption DEF Found, Answered, Placed, TypeOK
        <5>2. CASE ~Shortage(payload[hand[w]])
          BY <2>5, <5>2 DEF Fulfilled
        <5>3. QED
          BY <1>8, <4>1, <5>1, <5>2 DEF CheckDone, Goto, Placed, TypeOK
      <4>2. CASE CheckDedup(w)
        <5>1. Found(dedup[Key(payload[hand[w]])])
          BY <1>8, <4>2 DEF CheckDedup, Goto, Placed, TypeOK
        <5>2. Key(payload[hand[w]]) \in Keys
          BY <1>2, <2>1, PayloadTypes DEF Placed
        <5>3. QED
          BY <2>5, <5>1, <5>2 DEF Found, Answered, Placed, TypeOK, Fulfilled
      <4>3. CASE Insert(w)
        <5>1. pc'[w] \in {"setDedup", "reject"}
          BY <4>3 DEF Insert, NotInserted, Goto, Placed, TypeOK
        <5>2. QED
          BY <1>8, <5>1
      <4>4. CASE SetDedup(w)
        BY <2>5, <4>4 DEF SetDedup, Answered, Fulfilled
      <4>5. CASE SetDone(w)
        BY <4>5 DEF SetDone, Answered
      <4>6. CASE Take(w)
        BY <1>8, <4>6 DEF Take, Goto, Placed, TypeOK
      <4>7. pc'[w] \in Handling
        BY <1>8 DEF Handling
      <4>8. QED
        BY <2>3, <4>1, <4>2, <4>3, <4>4, <4>5, <4>6, <4>7, NextStep DEF Placed
    <3>2. QED
      BY <2>5, <2>6, <3>1
  <2>4. QED
    BY <2>2, <2>3
<1>9. QED
  BY <1>4, <1>5, <1>6, <1>7, <1>8 DEF Answered

-----------------------------------------------------------------------------
(* Once per event *)

\* The workers that insert, or have inserted, the alert of m and are on their way
\* to the event's idempotency key, or to its rejection.
Marking(m) == {w \in Workers \ cut : hand[w] = m /\ pc[w] \in {"setDedup", "setDone", "reject"}}

OnceFor(m) ==
    /\ \A w \in cut : hand[w] = m => pc[w] = "ack"
    /\ \A w \in Workers : hand[w] = m /\ pc[w] \in {"checkDedup", "insert"} =>
          Rows(m) = {} \/ ~Alive(m)
    /\ \/ Rows(m) = {} \/ m \in dead \/ Marking(m) # {}
       \/ born[m] + MessageTTL <= done[m]
    /\ Alive(m) => \A a, b \in Rows(m) : a = b

Once == redis = "sound" => \A m \in Messages \ interrupted : OnceFor(m)

\* At the start there are no rows and no keys.
LEMMA InitOnce ==
    ASSUME Init
    PROVE  Once /\ Answered
<1>1. \A m \in Messages : Rows(m) = {}
  BY DEF Init, Rows
<1>2. Once
  BY <1>1 DEF Init, Once, OnceFor
<1>3. Answered
  BY DEF Init, Answered
<1>4. QED
  BY <1>2, <1>3

\* A worker that is busy with m, which no fault has struck, holds m alone.
LEMMA HoldsAlone ==
    ASSUME Placed, NEW m \in Messages, OnceFor(m), NEW w \in Workers, hand[w] = m,
           pc[w] \in Handling \ {"ack"}
    PROVE  /\ w \notin cut /\ m \in unacked[w] /\ m \notin dead
           /\ \A v \in Workers : hand[v] = m /\ pc[v] \in Handling \ {"ack"} => v = w
<1>1. ASSUME NEW v \in Workers, hand[v] = m, pc[v] \in Handling \ {"ack"}
      PROVE  v \notin cut /\ m \in unacked[v]
  BY <1>1 DEF OnceFor, Placed, Hands
<1>2. w \notin cut /\ m \in unacked[w]
  BY <1>1
<1>3. m \notin dead
  BY <1>2 DEF Placed, OnePlace, Held
<1>4. \A v \in Workers : hand[v] = m /\ pc[v] \in Handling \ {"ack"} => v = w
  BY <1>1, <1>2, HeldApart DEF Placed
<1>5. QED
  BY <1>2, <1>3, <1>4

\* OnceFor carries over a step that adds no row of m and loses no trace of one.
LEMMA OnceKept ==
    ASSUME Placed, TypeOK', NEW m \in Messages, OnceFor(m), Rows(m)' = Rows(m), now <= now',
           born'[m] = born[m] \/ Rows(m) = {},
           m \in dead => m \in dead',
           \/ Marking(m) \subseteq Marking(m)'
           \/ m \in dead' \/ born'[m] + MessageTTL <= done'[m],
           done'[m] = done[m] \/ born'[m] + MessageTTL <= done'[m],
           \A w \in cut' : hand'[w] = m => pc'[w] = "ack",
           \A w \in Workers : hand'[w] = m /\ pc'[w] \in {"checkDedup", "insert"} =>
               Rows(m) = {} \/ ~Alive(m)
    PROVE  OnceFor(m)'
<1>1. now \in Nat /\ now' \in Nat /\ born[m] \in Nat /\ born'[m] \in Nat /\ MessageTTL \in Nat
  BY PipelineAssumption DEF Placed, TypeOK
<1>2. Rows(m) = {} \/ (Alive(m)' => Alive(m))
  BY <1>1 DEF Alive
<1>3. \A w \in Workers : hand'[w] = m /\ pc'[w] \in {"checkDedup", "insert"} =>
         Rows(m)' = {} \/ ~Alive(m)'
  BY <1>2
<1>4. \/ Rows(m)' = {} \/ m \in dead' \/ Marking(m)' # {}
      \/ born'[m] + MessageTTL <= done'[m]
  BY DEF OnceFor
<1>5. Alive(m)' => \A a, b \in Rows(m)' : a = b
  BY <1>2 DEF OnceFor
<1>6. QED
  BY <1>3, <1>4, <1>5 DEF OnceFor

\* No step gives an event that no fault has struck a second row while it is alive.
LEMMA NextOnce ==
    ASSUME Placed, Once, [Next]_vars, redis = "sound", NEW m \in Messages, m \notin interrupted'
    PROVE  OnceFor(m)'
<1>1. TypeOK' /\ Grows /\ TypeOK
  BY NextTypes, NextGrows DEF Placed
<1>2. OnceFor(m) /\ now <= now'
  BY <1>1 DEF Once, Grows
<1>3. ASSUME UNCHANGED <<pc, hand, cut, done, alerts>>, dead \subseteq dead',
             born'[m] = born[m] \/ Rows(m) = {}
      PROVE  OnceFor(m)'
  <2>1. Rows(m)' = Rows(m) /\ Marking(m)' = Marking(m)
    BY <1>3 DEF Rows, Marking
  <2>2. QED
    BY <1>1, <1>2, <1>3, <2>1, OnceKept DEF OnceFor
<1>4. ASSUME NEW x \in Messages, Publish(x) PROVE OnceFor(m)'
  <2>1. born'[m] = born[m] \/ Rows(m) = {}
    <3>1. CASE x = m
      BY <1>4, <3>1 DEF Publish, Rows, Placed, Published
    <3>2. CASE x # m
      BY <1>1, <1>4, <3>2 DEF Publish, TypeOK
    <3>3. QED
      BY <3>1, <3>2
  <2>2. QED
    BY <1>3, <1>4, <2>1 DEF Publish, keys
<1>5. ASSUME NEW x \in Messages, Expire(x) PROVE OnceFor(m)'
  BY <1>3, <1>5 DEF Expire, keys
<1>6. ASSUME NEW w \in Workers, NEW x \in Messages, Deliver(w, x) PROVE OnceFor(m)'
  BY <1>3, <1>6 DEF Deliver, keys
<1>7. CASE Tick \/ UNCHANGED vars
  BY <1>3, <1>7 DEF Tick, vars, keys, broker
<1>8. ASSUME NEW w \in Workers, NEW l, pc' = [pc EXCEPT ![w] = l],
             hand' = hand \/ l \in {"off", "idle", "checkDone"},
             \A v \in Workers : v # w => hand'[v] = hand[v],
             cut' \in {cut, cut \ {w}}, UNCHANGED <<alerts, born>>, m \in dead => m \in dead',
             \/ w \notin Marking(m) \/ l \in {"setDedup", "setDone", "reject"}
             \/ m \in dead' \/ born'[m] + MessageTTL <= done'[m],
             done'[m] = done[m] \/ born'[m] + MessageTTL <= done'[m],
             w \in cut' => hand'[w] # m \/ l = "ack",
             hand'[w] = m /\ l \in {"checkDedup", "insert"} => Rows(m) = {} \/ ~Alive(m)
      PROVE  OnceFor(m)'
  <2>1. pc'[w] = l /\ \A v \in Workers : v # w => pc'[v] = pc[v]
    BY <1>1, <1>8 DEF TypeOK
  <2>2. Rows(m)' = Rows(m)
    BY <1>8 DEF Rows
  <2>3. \A v \in cut' : hand'[v] = m => pc'[v] = "ack"
    BY <1>1, <1>2, <1>8, <2>1 DEF OnceFor, TypeOK
  <2>4. \A v \in Workers : hand'[v] = m /\ pc'[v] \in {"checkDedup", "insert"} =>
           Rows(m) = {} \/ ~Alive(m)
    BY <1>2, <1>8, <2>1 DEF OnceFor
  <2>5. \/ Marking(m) \subseteq Marking(m)'
        \/ m \in dead' \/ born'[m] + MessageTTL <= done'[m]
    BY <1>8, <2>1 DEF Marking
  <2>6. QED
    BY <1>1, <1>2, <1>8, <2>2, <2>3, <2>4, <2>5, OnceKept
<1>9. ASSUME NEW w \in Workers, Connect(w) PROVE OnceFor(m)'
  BY <1>8, <1>9 DEF Connect, Goto, keys, broker, Marking, Placed, Hands, Handling
<1>10. ASSUME NEW w \in Workers, Take(w) PROVE OnceFor(m)'
  <2>1. /\ pc' = [pc EXCEPT ![w] = "checkDone"] /\ pc[w] = "idle"
        /\ \A v \in Workers : v # w => hand'[v] = hand[v]
        /\ UNCHANGED <<alerts, born, dead, done, cut>>
    BY <1>1, <1>10 DEF Take, Goto, keys, broker, TypeOK
  <2>2. w \notin cut /\ w \notin cut' /\ w \notin Marking(m)
    BY <2>1 DEF Placed, Hands, Handling, Marking
  <2>3. PICK l : l = "checkDone"
    OBVIOUS
  <2>4. QED
    BY <1>8, <2>1, <2>2, <2>3
<1>11. ASSUME NEW w \in Workers, CheckDone(w) PROVE OnceFor(m)'
  <2>1. PICK l \in {"ack", "checkDedup", "setDone"} :
           /\ pc' = [pc EXCEPT ![w] = l] /\ pc[w] = "checkDone"
           /\ l = "checkDedup" => NotFound(done[hand[w]])
           /\ UNCHANGED <<alerts, born, dead, done, hand, cut>>
    BY <1>11 DEF CheckDone, Goto, keys, broker
  <2>2. w \notin Marking(m)
    BY <2>1 DEF Marking
  <2>3. hand[w] = m => w \notin cut
    BY <1>2, <2>1, HoldsAlone DEF Handling
  <2>4. ASSUME hand[w] = m, l = "checkDedup" PROVE Rows(m) = {} \/ ~Alive(m)
    <3>1. done[m] <= now
      BY <2>1, <2>4 DEF NotFound
    <3>2. m \notin dead /\ Marking(m) = {}
      BY <1>2, <2>1, <2>4, HoldsAlone DEF Marking, Handling
    <3>3. Rows(m) = {} \/ born[m] + MessageTTL <= done[m]
      BY <1>2, <3>2 DEF OnceFor
    <3>4. done[m] \in Nat /\ now \in Nat /\ born[m] \in Nat /\ MessageTTL \in Nat
      BY <1>1, PipelineAssumption DEF TypeOK
    <3>5. QED
      BY <3>1, <3>3, <3>4 DEF Alive
  <2>5. QED
    BY <1>8, <2>1, <2>2, <2>3, <2>4
<1>12. ASSUME NEW w \in Workers, CheckDedup(w) PROVE OnceFor(m)'
  <2>1. PICK l \in {"insert", "setDone"} :
           /\ pc' = [pc EXCEPT ![w] = l] /\ pc[w] = "checkDedup"
           /\ UNCHANGED <<alerts, born, dead, done, hand, cut>>
    BY <1>12 DEF CheckDedup, Goto, keys, broker
  <2>2. hand[w] = m => w \notin cut /\ (Rows(m) = {} \/ ~Alive(m))
    BY <1>2, <2>1, HoldsAlone DEF Handling, OnceFor
  <2>3. w \notin Marking(m)
    BY <2>1 DEF Marking
  <2>4. QED
    BY <1>8, <2>1, <2>2, <2>3
<1>13. ASSUME NEW w \in Workers, SetDedup(w) PROVE OnceFor(m)'
  <2>1. /\ pc' = [pc EXCEPT ![w] = "setDone"] /\ pc[w] = "setDedup"
        /\ UNCHANGED <<alerts, born, dead, done, hand, cut>>
    BY <1>13 DEF SetDedup, Goto, broker
  <2>2. hand[w] = m => w \notin cut
    BY <1>2, <2>1, HoldsAlone DEF Handling
  <2>3. QED
    BY <1>8, <2>1, <2>2
<1>14. ASSUME NEW w \in Workers, SetDone(w) PROVE OnceFor(m)'
  <2>1. /\ pc' = [pc EXCEPT ![w] = "ack"] /\ pc[w] = "setDone"
        /\ done' = [done EXCEPT ![hand[w]] = now + DoneTTL]
        /\ UNCHANGED <<alerts, born, dead, hand, cut>>
    BY <1>14 DEF SetDone, MarkDone, Goto, broker
  <2>2. hand[w] # m => done'[m] = done[m] /\ w \notin Marking(m)
    BY <1>1, <2>1 DEF TypeOK, Marking
  <2>3. hand[w] = m => born[m] + MessageTTL <= done'[m]
    <3>1. hand[w] = m => done'[m] = now + DoneTTL
      BY <1>1, <2>1 DEF TypeOK
    <3>2. /\ born[m] <= now /\ born[m] \in Nat /\ now \in Nat
          /\ MessageTTL \in Nat /\ DoneTTL \in Nat /\ MessageTTL <= DoneTTL
      BY <1>1, PipelineAssumption DEF Placed, Published, TypeOK
    <3>3. born[m] + MessageTTL <= now + DoneTTL
      BY <3>2
    <3>4. QED
      BY <3>1, <3>3
  <2>4. QED
    BY <1>8, <2>1, <2>2, <2>3
<1>15. ASSUME NEW w \in Workers, Leave(w), UNCHANGED <<alerts, born, done>>,
              m \in dead => m \in dead', w \notin Marking(m) \/ m \in dead'
       PROVE  OnceFor(m)'
  <2>1. /\ pc' = [pc EXCEPT ![w] = "off"] /\ cut' = cut \ {w}
        /\ \A v \in Workers : v # w => hand'[v] = hand[v]
    BY <1>1, <1>15 DEF Leave, Goto, TypeOK
  <2>2. QED
    BY <1>8, <1>15, <2>1
<1>16. ASSUME NEW w \in Workers, Ack(w) PROVE OnceFor(m)'
  <2>1. w \notin Marking(m) /\ UNCHANGED <<alerts, born, done, dead>>
    BY <1>16 DEF Ack, Marking, keys
  <2>2. CASE Leave(w)
    BY <1>15, <2>1, <2>2
  <2>3. CASE ~Leave(w)
    <3>1. /\ pc' = [pc EXCEPT ![w] = "idle"] /\ w \notin cut /\ UNCHANGED cut
          /\ hand' = [hand EXCEPT ![w] = NoMessage]
      BY <1>16, <2>3 DEF Ack, Goto
    <3>2. \A v \in Workers : v # w => hand'[v] = hand[v]
      BY <1>1, <3>1 DEF TypeOK
    <3>3. QED
      BY <1>8, <2>1, <3>1, <3>2
  <2>4. QED
    BY <2>2, <2>3
<1>17. ASSUME NEW w \in Workers, Reject(w) PROVE OnceFor(m)'
  <2>1. /\ Leave(w) /\ UNCHANGED <<alerts, born, done>> /\ pc[w] = "reject"
        /\ dead' = dead \cup (unacked[w] \cap {hand[w]})
    BY <1>17 DEF Reject, keys
  <2>2. w \notin Marking(m) \/ m \in dead'
    BY <1>2, <2>1, HoldsAlone DEF Marking, Handling
  <2>3. QED
    BY <1>15, <2>1, <2>2
<1>18. ASSUME NEW w \in Workers, Fault(w) PROVE hand[w] = m => pc[w] \notin Handling \ {"ack"}
  BY <1>18 DEF Fault, Unfinished
<1>19. ASSUME NEW w \in Workers, Crash(w) PROVE OnceFor(m)'
  <2>1. w \notin Marking(m)
    BY <1>18, <1>19 DEF Crash, Marking, Handling
  <2>2. QED
    BY <1>15, <1>19, <2>1 DEF Crash, keys
<1>20. ASSUME NEW w \in Workers, Disconnect(w) PROVE OnceFor(m)'
  <2>1. /\ w \notin Marking(m) /\ UNCHANGED <<alerts, born, done, dead, now>>
        /\ hand[w] = m => pc[w] \notin Handling \ {"ack"}
    BY <1>18, <1>20 DEF Disconnect, Marking, Handling, keys
  <2>2. CASE Leave(w)
    BY <1>15, <2>1, <2>2
  <2>3. CASE pc[w] \in Handling /\ cut' = cut \cup {w} /\ UNCHANGED <<pc, hand>>
    <3>1. Rows(m)' = Rows(m) /\ Marking(m) \subseteq Marking(m)'
      BY <2>1, <2>3 DEF Rows, Marking
    <3>2. \A v \in cut' : hand'[v] = m => pc'[v] = "ack"
      BY <1>2, <2>1, <2>3 DEF OnceFor
    <3>3. QED
      BY <1>1, <1>2, <2>1, <2>3, <3>1, <3>2, OnceKept DEF OnceFor
  <2>4. QED
    BY <1>20, <2>2, <2>3 DEF Disconnect
<1>21. ASSUME NEW w \in Workers, Insert(w) PROVE OnceFor(m)'
  <2>1. PICK l \in {"setDedup", "reject"} :
           /\ pc' = [pc EXCEPT ![w] = l] /\ pc[w] = "insert"
           /\ UNCHANGED <<now, born, dead, done, hand, cut>>
           /\ UNCHANGED alerts \/ Inserted(w)
    BY <1>21 DEF Insert, NotInserted, Goto, keys, broker
  <2>2. hand[w] = m => w \notin cut /\ (Rows(m) = {} \/ ~Alive(m))
    BY <1>2, <2>1, HoldsAlone DEF Handling, OnceFor
  <2>3. CASE UNCHANGED alerts
    BY <1>8, <2>1, <2>2, <2>3
  <2>4. CASE Inserted(w)
    <3>1. pc'[w] = l /\ \A v \in Workers : v # w => pc'[v] = pc[v]
      BY <1>1, <2>1 DEF TypeOK
    <3>2. hand[w] \in Messages
      BY <1>1, <2>1 DEF TypeOK, Handling
    <3>3. /\ DOMAIN alerts' = DOMAIN alerts \cup {Len(alerts) + 1}
          /\ Len(alerts) + 1 \notin DOMAIN alerts
          /\ \A n \in DOMAIN alerts : alerts'[n] = alerts[n]
          /\ alerts'[Len(alerts) + 1] = [message |-> hand[w], at |-> now]
      BY <1>1, <2>4, <3>2, AppendedRow
    <3>4. [message |-> hand[w], at |-> now].message = hand[w]
      OBVIOUS
    <3>5. Rows(m)' = IF hand[w] = m THEN Rows(m) \cup {Len(alerts) + 1} ELSE Rows(m)
      BY <3>3, <3>4 DEF Rows
    <3>6. CASE hand[w] # m
      <4>1. Rows(m)' = Rows(m) /\ Marking(m)' = Marking(m)
        BY <2>1, <3>1, <3>5, <3>6 DEF Marking
      <4>2. \A v \in cut' : hand'[v] = m => pc'[v] = "ack"
        BY <1>1, <1>2, <2>1, <3>1, <3>6 DEF OnceFor, TypeOK
      <4>3. \A v \in Workers : hand'[v] = m /\ pc'[v] \in {"checkDedup", "insert"} =>
               Rows(m) = {} \/ ~Alive(m)
        BY <1>2, <2>1, <3>1, <3>6 DEF OnceFor
      <4>4. QED
        BY <1>1, <1>2, <2>1, <4>1, <4>2, <4>3, OnceKept
    <3>7. CASE hand[w] = m
      <4>1. Alive(m)' <=> Alive(m)
        BY <2>1 DEF Alive
      <4>2. Alive(m)' => \A a, b \in Rows(m)' : a = b
        BY <2>2, <3>5, <3>7, <4>1
      <4>3. w \in Marking(m)'
        BY <2>1, <2>2, <3>1, <3>7 DEF Marking
      <4>4. \A v \in Workers : hand[v] = m /\ pc[v] \in {"checkDedup", "insert"} => v = w
        BY <1>2, <2>1, <3>7, HoldsAlone DEF Handling
      <4>5. \A v \in Workers : hand'[v] = m => pc'[v] \notin {"checkDedup", "insert"}
        BY <2>1, <3>1, <4>4
      <4>6. \A v \in cut' : hand'[v] = m => pc'[v] = "ack"
        BY <1>1, <1>2, <2>1, <2>2, <3>1, <3>7 DEF OnceFor, TypeOK
      <4>7. QED
        BY <4>2, <4>3, <4>5, <4>6 DEF OnceFor
    <3>8. QED
      BY <3>6, <3>7
  <2>5. QED
    BY <2>1, <2>3, <2>4
<1>22. QED
  BY <1>4, <1>5, <1>6, <1>7, <1>9, <1>10, <1>11, <1>12, <1>13, <1>14, <1>16, <1>17, <1>19, <1>20,
     <1>21 DEF Next, Work, Handle

-----------------------------------------------------------------------------

\* The three invariants hold together in every reachable state.
LEMMA PipelineInvariant == Spec => [](Placed /\ Answered /\ Once)
<1>1. Init => Placed /\ Answered /\ Once
  BY InitPlaced, InitOnce
<1>2. Placed /\ Answered /\ Once /\ [Next]_vars => (Placed /\ Answered /\ Once)'
  <2>1. ASSUME Placed, Once, [Next]_vars PROVE Once'
    <3>1. redis' = redis /\ interrupted \subseteq interrupted'
      BY <2>1, NextGrows DEF Placed, Grows
    <3>2. \A m \in Messages : redis = "sound" /\ m \notin interrupted' => OnceFor(m)'
      BY <2>1, NextOnce
    <3>3. QED
      BY <3>1, <3>2 DEF Once
  <2>2. QED
    BY <2>1, NextPlaced, NextAnswered
<1>3. QED
  BY <1>1, <1>2, PTL DEF Spec

\* What workers, queue and keys hold keeps its type, and a worker between two steps of
\* its handler has a message in hand.
THEOREM TypeCorrect == Spec => []TypeOK
<1>1. Placed => TypeOK
  BY DEF Placed
<1>2. QED
  BY <1>1, PipelineInvariant, PTL

\* The queue, its workers and the dead letters neither lose nor share a message, for
\* any number of workers that crash, lose their connection, or give up.
THEOREM NothingLostOrDoubled == Spec => []OnePlace
<1>1. Placed => OnePlace
  BY DEF Placed
<1>2. QED
  BY <1>1, PipelineInvariant, PTL

\* An acknowledged shortage has an alert: a dedup key is only written after the commit
\* of the alert it stands for, and a failed insert never ends in an acknowledgement.
THEOREM AcknowledgedMeansAlerted == Spec => []AckedShortageHasAlert
<1>1. Placed /\ Answered => AckedShortageHasAlert
  BY DEF Placed, TypeOK, Answered, Fulfilled, Told, AckedShortageHasAlert
<1>2. QED
  BY <1>1, PipelineInvariant, PTL

\* While Redis answers, an event alerts once as long as its message can be delivered,
\* unless a fault struck the worker that was busy with it: because the idempotency key
\* outlives the message, MessageTTL <= DoneTTL.
THEOREM AlertsOncePerEvent == Spec => []OncePerEvent
<1>1. Once => OncePerEvent
  BY DEF Once, OnceFor, OncePerEvent
<1>2. QED
  BY <1>1, PipelineInvariant, PTL

-----------------------------------------------------------------------------
(* Repeats, while one worker runs and Redis answers *)

Lone == \A v, w \in Workers : v = w

KeyAt(n) == Key(payload[alerts[n].message])

\* The n-th row has left its dedup key, or will: unless its event was dropped or a
\* fault struck the worker that had it in hand.
Guarded(n) ==
    \/ alerts[n].message \in dead \cup interrupted
    \/ \E w \in Workers : hand[w] = alerts[n].message /\ pc[w] \in {"setDedup", "reject"}
    \/ alerts[n].at + DedupTTL <= dedup[KeyAt(n)]

\* A worker that is about to insert found no key that stands, and none is set until it
\* has inserted.
Spaced ==
    /\ \A n \in DOMAIN alerts : alerts[n].at <= now /\ Guarded(n)
    /\ \A w \in Workers : pc[w] = "insert" => dedup[Key(payload[hand[w]])] <= now
    /\ \A a, b \in DOMAIN alerts : a < b /\ KeyAt(a) = KeyAt(b) =>
          \/ alerts[a].message \in dead \cup interrupted
          \/ alerts[a].at + DedupTTL <= alerts[b].at

\* What comparing rows and keys needs of their types.
LEMMA RowTypes ==
    ASSUME Placed, NEW n \in DOMAIN alerts
    PROVE  /\ n \in Nat /\ n <= Len(alerts) /\ alerts[n].at \in Nat /\ alerts[n].message \in Messages
           /\ payload[alerts[n].message] # NoPayload
           /\ KeyAt(n) \in Keys /\ dedup[KeyAt(n)] \in Nat /\ now \in Nat /\ DedupTTL \in Nat
<1>1. /\ alerts[n] \in Row /\ n \in Nat /\ n <= Len(alerts)
      /\ dedup \in [Keys -> Nat] /\ now \in Nat /\ DedupTTL \in Nat
  BY PipelineAssumption DEF Placed, TypeOK
<1>2. alerts[n].at \in Nat /\ alerts[n].message \in Messages
  BY <1>1 DEF Row
<1>3. payload[alerts[n].message] # NoPayload
  BY DEF Placed, Published
<1>4. KeyAt(n) \in Keys
  BY <1>2, <1>3, PayloadTypes DEF Placed, KeyAt
<1>5. QED
  BY <1>1, <1>2, <1>3, <1>4

\* The key of a row stays what it is.
LEMMA KeyStays ==
    ASSUME Placed, [Next]_vars, NEW n \in DOMAIN alerts, alerts'[n] = alerts[n]
    PROVE  KeyAt(n)' = KeyAt(n)
<1>1. alerts[n].message \in Messages /\ payload[alerts[n].message] # NoPayload
  BY RowTypes
<1>2. payload'[alerts[n].message] = payload[alerts[n].message]
  BY <1>1, NextGrows DEF Placed, Grows
<1>3. QED
  BY <1>2 DEF KeyAt, Key, Condition

\* Only CheckDedup takes a worker to an insert, and on a sound Redis no key stands then.
LEMMA InsertAfterKey ==
    ASSUME Placed, Spaced, [Next]_vars, redis = "sound", NEW w \in Workers, pc'[w] = "insert"
    PROVE  /\ hand'[w] = hand[w] /\ pc[w] \in Handling
           /\ dedup[Key(payload[hand[w]])] <= now
<1>1. TypeOK /\ pc'[w] \in Handling
  BY DEF Placed, Handling
<1>2. hand'[w] = hand[w] /\ pc[w] \in Handling
  BY <1>1, NextInHand
<1>3. CASE pc[w] = "insert"
  BY <1>2, <1>3 DEF Spaced
<1>4. CASE pc[w] # "insert"
  <2>1. Take(w) \/ CheckDone(w) \/ CheckDedup(w) \/ Insert(w) \/ SetDedup(w) \/ SetDone(w)
    BY <1>1, <1>4, NextStep
  <2>2. ASSUME NEW l, pc' = [pc EXCEPT ![w] = l] PROVE l = "insert"
    BY <1>1, <2>2 DEF TypeOK
  <2>3. CheckDedup(w)
    BY <1>4, <2>1, <2>2
    DEF Take, CheckDone, Insert, NotInserted, SetDedup, SetDone, Goto
  <2>4. NotFound(dedup[Key(payload[hand[w]])])
    BY <2>2, <2>3 DEF CheckDedup, Goto
  <2>5. QED
    BY <1>2, <2>4 DEF NotFound
<1>5. QED
  BY <1>3, <1>4

\* Between its insert and its dedup key a worker loses its event only to the dead
\* letters or to a fault.
LEMMA MarkerStays ==
    ASSUME Placed, Once, [Next]_vars, redis = "sound", NEW w \in Workers,
           pc[w] \in {"setDedup", "reject"}, ~SetDedup(w)
    PROVE  \/ pc'[w] = pc[w] /\ hand'[w] = hand[w]
           \/ hand[w] \in dead' \cup interrupted'
<1> DEFINE Same == pc'[w] = pc[w] /\ hand'[w] = hand[w]
<1>1. TypeOK /\ pc[w] \in Handling \ {"ack"} /\ hand[w] \in Messages
  BY DEF Placed, TypeOK, Handling
<1>2. ASSUME NEW v \in Workers, v # w, Work(v) \/ Crash(v) \/ Disconnect(v) PROVE Same
  <2>1. \/ UNCHANGED <<pc, hand>>
        \/ \E l : /\ pc' = [pc EXCEPT ![v] = l]
                  /\ hand' = hand \/ \E m : hand' = [hand EXCEPT ![v] = m]
    BY <1>2 DEF Work, Connect, Take, Handle, CheckDone, CheckDedup, Insert, NotInserted, SetDedup,
                SetDone, Ack, Reject, Deliver, Crash, Disconnect, Leave, Goto
  <2>2. QED
    BY <1>1, <1>2, <2>1 DEF TypeOK
<1>3. ASSUME NEW m \in Messages, Publish(m) \/ Expire(m) \/ Deliver(w, m) PROVE Same
  BY <1>3 DEF Publish, Expire, Deliver
<1>4. CASE Tick \/ UNCHANGED vars
  BY <1>4 DEF Tick, vars
<1>5. CASE Reject(w)
  <2>1. CASE hand[w] \in interrupted
    BY <2>1, NextGrows DEF Placed, Grows
  <2>2. CASE hand[w] \notin interrupted
    <3>1. PICK m \in Messages : m = hand[w]
      BY <1>1
    <3>2. OnceFor(m)
      BY <2>2, <3>1 DEF Once
    <3>3. m \in unacked[w]
      BY <1>1, <3>1, <3>2, HoldsAlone
    <3>4. QED
      BY <1>5, <3>1, <3>3 DEF Reject
  <2>3. QED
    BY <2>1, <2>2
<1>6. CASE Crash(w) \/ Disconnect(w)
  BY <1>1, <1>6 DEF Crash, Disconnect, Fault, Unfinished
<1>7. ~(Connect(w) \/ Take(w) \/ CheckDone(w) \/ CheckDedup(w) \/ Insert(w) \/ SetDone(w) \/ Ack(w))
  BY DEF Connect, Take, CheckDone, CheckDedup, Insert, SetDone, Ack
<1>8. QED
  BY <1>2, <1>3, <1>4, <1>5, <1>6, <1>7 DEF Next, Work, Handle

\* Spaced carries over a step that inserts nothing and sets no dedup key.
LEMMA SpacedKept ==
    ASSUME Placed, Once, Spaced, [Next]_vars, redis = "sound", alerts' = alerts, dedup' = dedup,
           \A w \in Workers : ~SetDedup(w), dead \subseteq dead'
    PROVE  Spaced'
<1>1. now <= now' /\ interrupted \subseteq interrupted' /\ now \in Nat /\ now' \in Nat
  BY NextGrows, NextTypes DEF Grows, Placed, TypeOK
<1>2. ASSUME NEW n \in DOMAIN alerts
      PROVE  KeyAt(n)' = KeyAt(n) /\ alerts[n].at <= now' /\ Guarded(n)'
  <2>1. KeyAt(n)' = KeyAt(n)
    BY <1>2, KeyStays
  <2>2. alerts[n].at <= now'
    BY <1>1, <1>2, RowTypes DEF Spaced
  <2>3. CASE alerts[n].message \in dead \cup interrupted
    <3>1. alerts'[n].message \in dead' \cup interrupted'
      BY <1>1, <2>3
    <3>2. QED
      BY <2>1, <2>2, <3>1 DEF Guarded
  <2>4. ASSUME NEW w \in Workers, hand[w] = alerts[n].message, pc[w] \in {"setDedup", "reject"}
        PROVE  Guarded(n)'
    BY <2>4, MarkerStays DEF Guarded
  <2>5. CASE alerts[n].at + DedupTTL <= dedup[KeyAt(n)]
    <3>1. alerts'[n].at + DedupTTL <= dedup'[KeyAt(n)']
      BY <2>1, <2>5
    <3>2. QED
      BY <2>1, <2>2, <3>1 DEF Guarded
  <2>6. QED
    BY <1>2, <2>1, <2>2, <2>3, <2>4, <2>5 DEF Spaced, Guarded
<1>3. ASSUME NEW w \in Workers, pc'[w] = "insert"
      PROVE  dedup'[Key(payload'[hand'[w]])] <= now'
  <2>1. hand'[w] = hand[w] /\ pc[w] \in Handling /\ dedup[Key(payload[hand[w]])] <= now
    BY <1>3, InsertAfterKey
  <2>2. hand[w] \in Messages /\ payload[hand[w]] # NoPayload
    BY <2>1 DEF Placed, TypeOK, Published
  <2>3. payload'[hand[w]] = payload[hand[w]] /\ Key(payload[hand[w]]) \in Keys
    BY <2>2, NextGrows, PayloadTypes DEF Placed, Grows
  <2>4. dedup[Key(payload[hand[w]])] \in Nat
    BY <2>3 DEF Placed, TypeOK
  <2>5. QED
    BY <1>1, <2>1, <2>3, <2>4
<1>4. ASSUME NEW a \in DOMAIN alerts, NEW b \in DOMAIN alerts, a < b, KeyAt(a)' = KeyAt(b)'
      PROVE  alerts[a].message \in dead' \cup interrupted' \/ alerts[a].at + DedupTTL <= alerts[b].at
  BY <1>1, <1>2, <1>4 DEF Spaced
<1>5. QED
  BY <1>2, <1>3, <1>4 DEF Spaced, Key, Condition

\* The key that a worker sets stands for every row of the condition there is.
LEMMA SetDedupSpaces ==
    ASSUME Lone, Placed, Once, Spaced, [Next]_vars, redis = "sound", NEW w \in Workers, SetDedup(w)
    PROVE  Spaced'
<1> DEFINE k == Key(payload[hand[w]])
<1>1. /\ dedup' = [dedup EXCEPT ![k] = now + DedupTTL] /\ pc[w] = "setDedup"
      /\ pc' = [pc EXCEPT ![w] = "setDone"]
      /\ UNCHANGED <<now, alerts, dead, interrupted, payload>>
  BY DEF SetDedup, Goto, broker
<1>2. hand[w] \in Messages /\ payload[hand[w]] # NoPayload
  BY <1>1 DEF Placed, TypeOK, Published, Handling
<1>3. /\ k \in Keys /\ dedup \in [Keys -> Nat] /\ now \in Nat /\ DedupTTL \in Nat
  BY <1>2, PayloadTypes, PipelineAssumption DEF Placed, TypeOK
<1>4. dedup'[k] = now + DedupTTL /\ \A j \in Keys \ {k} : dedup'[j] = dedup[j]
  BY <1>1, <1>3
<1> HIDE DEF k
<1>5. ASSUME NEW n \in DOMAIN alerts
      PROVE  KeyAt(n)' = KeyAt(n) /\ Guarded(n)'
  <2>1. KeyAt(n)' = KeyAt(n)
    BY <1>1, <1>5, KeyStays
  <2>2. KeyAt(n) \in Keys /\ alerts[n].at \in Nat /\ alerts[n].at <= now
    BY <1>5, RowTypes DEF Spaced
  <2>3. CASE KeyAt(n) = k
    BY <1>1, <1>3, <1>4, <2>1, <2>2, <2>3 DEF Guarded
  <2>4. CASE KeyAt(n) # k
    <3>1. \A v \in Workers : hand[v] # alerts[n].message
      BY <2>4 DEF Lone, k, KeyAt
    <3>2. \/ alerts[n].message \in dead \cup interrupted
          \/ alerts[n].at + DedupTTL <= dedup[KeyAt(n)]
      BY <1>5, <3>1 DEF Spaced, Guarded
    <3>3. QED
      BY <1>1, <1>4, <2>1, <2>2, <2>4, <3>2 DEF Guarded
  <2>5. QED
    BY <2>1, <2>3, <2>4
<1>6. \A v \in Workers : pc'[v] # "insert"
  BY <1>1 DEF Lone, Placed, TypeOK
<1>7. QED
  BY <1>1, <1>5, <1>6 DEF Spaced

\* An insert comes after the keys of all earlier rows of the condition.
LEMMA InsertSpaces ==
    ASSUME Lone, Placed, Once, Spaced, [Next]_vars, redis = "sound", NEW w \in Workers, Insert(w)
    PROVE  Spaced'
<1> DEFINE k == Key(payload[hand[w]])
<1>1. /\ pc[w] = "insert" /\ pc' \in {[pc EXCEPT ![w] = l] : l \in {"setDedup", "reject"}}
      /\ UNCHANGED <<now, dead, interrupted, payload, dedup, hand>>
      /\ UNCHANGED alerts \/ Inserted(w)
  BY DEF Insert, NotInserted, Goto, broker, keys
<1>2. pc'[w] \in {"setDedup", "reject"} /\ hand[w] \in Messages /\ payload[hand[w]] # NoPayload
  BY <1>1 DEF Placed, TypeOK, Published, Handling
<1>3. k \in Keys /\ dedup[k] \in Nat /\ dedup[k] <= now /\ now \in Nat /\ DedupTTL \in Nat
  <2>1. k \in Keys
    BY <1>2, PayloadTypes DEF Placed
  <2>2. dedup[k] <= now
    BY <1>1 DEF Spaced
  <2>3. QED
    BY <2>1, <2>2, PipelineAssumption DEF Placed, TypeOK
<1>4. CASE UNCHANGED alerts
  <2>1. \A v \in Workers : ~SetDedup(v)
    BY <1>1 DEF Lone, SetDedup
  <2>2. QED
    BY <1>1, <1>4, <2>1, SpacedKept
<1>5. CASE Inserted(w)
  <2>1. PICK new \in Nat : new = Len(alerts) + 1
    BY DEF Placed, TypeOK
  <2>2. /\ DOMAIN alerts' = DOMAIN alerts \cup {new} /\ new \notin DOMAIN alerts
        /\ \A n \in DOMAIN alerts : alerts'[n] = alerts[n]
        /\ alerts'[new] = [message |-> hand[w], at |-> now]
    BY <1>2, <1>5, <2>1, AppendedRow DEF Placed
  <2>3. alerts'[new].message = hand[w] /\ alerts'[new].at = now
    BY <2>2
  <2>4. KeyAt(new)' = k
    <3>1. payload'[alerts'[new].message] = payload[hand[w]]
      BY <1>1, <2>3
    <3>2. QED
      BY <3>1 DEF KeyAt, Key, Condition
  <2> HIDE DEF k
  <2>5. ASSUME NEW n \in DOMAIN alerts
        PROVE  /\ KeyAt(n)' = KeyAt(n) /\ alerts[n].at <= now /\ Guarded(n)'
               /\ alerts[n].message \in dead \cup interrupted \/ alerts[n].at + DedupTTL <= dedup[KeyAt(n)]
    <3>1. KeyAt(n)' = KeyAt(n)
      BY <2>2, <2>5, KeyStays
    <3>2. \A v \in Workers : pc[v] \notin {"setDedup", "reject"}
      BY <1>1 DEF Lone
    <3>3. alerts[n].at <= now /\ Guarded(n)
      BY <2>5 DEF Spaced
    <3>4. alerts[n].message \in dead \cup interrupted \/ alerts[n].at + DedupTTL <= dedup[KeyAt(n)]
      BY <3>2, <3>3 DEF Guarded
    <3>5. Guarded(n)'
      BY <1>1, <2>2, <2>5, <3>1, <3>4 DEF Guarded
    <3>6. QED
      BY <3>1, <3>3, <3>4, <3>5
  <2>6. Guarded(new)'
    <3>1. hand'[w] = alerts'[new].message /\ pc'[w] \in {"setDedup", "reject"}
      BY <1>1, <1>2, <2>3
    <3>2. QED
      BY <3>1 DEF Guarded
  <2>7. \A v \in Workers : pc'[v] # "insert"
    BY <1>2 DEF Lone
  <2>8. ASSUME NEW a \in DOMAIN alerts', NEW b \in DOMAIN alerts', a < b, KeyAt(a)' = KeyAt(b)'
        PROVE  \/ alerts'[a].message \in dead' \cup interrupted'
               \/ alerts'[a].at + DedupTTL <= alerts'[b].at
    <3>1. \A n \in DOMAIN alerts : n \in Nat /\ n < new /\ alerts[n].at \in Nat
      BY <2>1, RowTypes DEF Placed, TypeOK
    <3>2. new \in Nat
      OBVIOUS
    <3>3. a \in DOMAIN alerts
      BY <2>2, <2>8, <3>1, <3>2
    <3>4. CASE b = new
      <4>1. KeyAt(a) = k /\ alerts'[a] = alerts[a]
        BY <2>2, <2>4, <2>5, <2>8, <3>3, <3>4
      <4>2. alerts[a].message \in dead \cup interrupted \/ alerts[a].at + DedupTTL <= dedup[k]
        BY <2>5, <3>3, <4>1
      <4>3. alerts[a].at + DedupTTL <= dedup[k] => alerts[a].at + DedupTTL <= now
        BY <1>3, <3>1, <3>3
      <4>4. QED
        BY <1>1, <2>3, <3>4, <4>1, <4>2, <4>3
    <3>5. CASE b \in DOMAIN alerts
      BY <1>1, <2>2, <2>5, <2>8, <3>3, <3>5 DEF Spaced
    <3>6. QED
      BY <2>2, <3>4, <3>5
  <2>9. \A n \in DOMAIN alerts' : alerts'[n].at <= now' /\ Guarded(n)'
    <3>1. \A n \in DOMAIN alerts : alerts'[n].at <= now' /\ Guarded(n)'
      BY <1>1, <2>2, <2>5
    <3>2. alerts'[new].at <= now'
      BY <1>1, <1>3, <2>3
    <3>3. QED
      BY <2>2, <2>6, <3>1, <3>2
  <2>10. QED
    BY <2>7, <2>8, <2>9 DEF Spaced
<1>6. QED
  BY <1>1, <1>4, <1>5

\* Spaced is inductive, for one worker and a Redis that answers.
LEMMA NextSpaced ==
    ASSUME Lone, Placed, Once, Spaced, [Next]_vars, redis = "sound"
    PROVE  Spaced'
<1>1. CASE \E w \in Workers : SetDedup(w)
  BY <1>1, SetDedupSpaces
<1>2. CASE \E w \in Workers : Insert(w)
  BY <1>2, InsertSpaces
<1>3. CASE \A w \in Workers : ~SetDedup(w) /\ ~Insert(w)
  <2>1. UNCHANGED <<alerts, dedup>> /\ dead \subseteq dead'
    BY <1>3 DEF Next, Work, Connect, Take, Handle, CheckDone, CheckDedup, SetDone, Ack, Reject, Deliver,
                Crash, Disconnect, Publish, Expire, Tick, vars, keys, broker
  <2>2. QED
    BY <1>3, <2>1, SpacedKept
<1>4. QED
  BY <1>1, <1>2, <1>3

\* alert_worker.py:36-38, where it holds: while one worker runs and Redis answers, two
\* alerts of one condition are a window apart, except after an alert whose event was
\* dropped or whose worker was struck by a fault before it had set the dedup key.
RepeatsOfOneWorker ==
    redis = "sound" => \A a, b \in DOMAIN alerts :
        /\ a < b /\ alerts[a].message \in acked \ interrupted
        /\ Key(payload[alerts[a].message]) = Key(payload[alerts[b].message])
        => alerts[a].at + DedupTTL <= alerts[b].at

\* One worker on a sound Redis keeps repeated alerts apart, through any lost
\* connections and restarts.
THEOREM OneWorkerSpacesAlerts ==
    ASSUME \A v, w \in Workers : v = w
    PROVE  Spec => []RepeatsOfOneWorker
<1>1. Init => (redis = "sound" => Spaced)
  BY DEF Init, Spaced
<1>2. Placed /\ Once /\ (redis = "sound" => Spaced) /\ [Next]_vars => (redis = "sound" => Spaced)'
  <2>1. Placed /\ [Next]_vars => redis' = redis
    BY NextGrows DEF Placed, Grows
  <2>2. QED
    BY <2>1, NextSpaced DEF Lone
<1>3. Placed /\ (redis = "sound" => Spaced) => RepeatsOfOneWorker
  BY DEF Spaced, KeyAt, RepeatsOfOneWorker, Placed, OnePlace
<1>4. QED
  BY <1>1, <1>2, <1>3, PipelineInvariant, PTL DEF Spec

\* Without faults that is the comment itself: RepeatsAWindowApart, which the worker that
\* is started by itself breaks.
THEOREM FaultlessWorkerSpacesAlerts ==
    ASSUME \A v, w \in Workers : v = w, Redis = {"sound"}, MaxFaults = 0
    PROVE  Spec => []RepeatsAWindowApart
<1>1. Init => interrupted = {}
  BY DEF Init
<1>2. TypeOK /\ interrupted = {} /\ [Next]_vars => (interrupted = {})'
  <2>1. ASSUME TypeOK, NEW w \in Workers PROVE ~Fault(w)
    BY <2>1 DEF Fault, TypeOK
  <2>2. ASSUME interrupted = {}, UNCHANGED interrupted PROVE interrupted' = {}
    BY <2>2
  <2>3. QED
    BY <2>1, <2>2 DEF Next, Work, Connect, Take, Handle, CheckDone, CheckDedup, Insert, SetDedup, SetDone,
      Ack, Reject, Deliver, Crash, Disconnect, Publish, Expire, Tick, vars
<1>3. Placed => TypeOK
  BY DEF Placed
<1>4. TypeOK /\ interrupted = {} /\ RepeatsOfOneWorker => RepeatsAWindowApart
  BY DEF TypeOK, RepeatsOfOneWorker, RepeatsAWindowApart
<1>5. Spec => []RepeatsOfOneWorker
  BY OneWorkerSpacesAlerts
<1>6. QED
  BY <1>1, <1>2, <1>3, <1>4, <1>5, PipelineInvariant, PTL DEF Spec

-----------------------------------------------------------------------------
(* The pipeline implements EventDelivery *)

\* Only a shortage comes as far as an insert, and every row is about one.
Called ==
    /\ \A w \in Workers :
          pc[w] \in {"checkDedup", "insert", "setDedup"} => Shortage(payload[hand[w]])
    /\ \A n \in DOMAIN alerts : Shortage(payload[alerts[n].message])

\* Every step keeps Called.
LEMMA NextCalled ==
    ASSUME Placed, Called, [Next]_vars
    PROVE  Called'
<1> DEFINE Known == {m \in Messages : payload[m] # NoPayload}
<1>1. TypeOK /\ Grows /\ \A m \in Known : m \in Messages /\ payload'[m] = payload[m]
  BY NextGrows DEF Placed, Grows
<1>2. ASSUME NEW w \in Workers, pc[w] \in Handling PROVE hand[w] \in Known
  BY <1>2 DEF Placed, Published, TypeOK
<1>3. ASSUME NEW n \in DOMAIN alerts PROVE alerts[n].message \in Known
  <2>1. alerts[n] \in Row
    BY <1>3 DEF Placed, TypeOK
  <2>2. QED
    BY <1>3, <2>1 DEF Placed, Published, Row
<1> HIDE DEF Known
<1>4. ASSUME NEW w \in Workers, pc'[w] \in {"checkDedup", "insert", "setDedup"}
      PROVE  Shortage(payload'[hand'[w]])
  <2>1. hand'[w] = hand[w] /\ pc[w] \in Handling
    BY <1>1, <1>4, NextInHand DEF Handling
  <2>2. Shortage(payload[hand[w]])
    <3>1. CASE pc'[w] = pc[w]
      BY <1>4, <3>1 DEF Called
    <3>2. CASE pc'[w] # pc[w]
      <4>1. CheckDone(w) \/ CheckDedup(w) \/ Insert(w)
        BY <1>1, <1>4, <3>2, NextStep
        DEF TypeOK, Take, SetDedup, SetDone, Goto, Handling
      <4>2. CASE CheckDone(w)
        BY <1>1, <1>4, <4>2 DEF TypeOK, CheckDone, Goto
      <4>3. CASE CheckDedup(w) \/ Insert(w)
        BY <4>3 DEF CheckDedup, Insert, Called
      <4>4. QED
        BY <4>1, <4>2, <4>3
    <3>3. QED
      BY <3>1, <3>2
  <2>3. payload'[hand'[w]] = payload[hand[w]]
    BY <1>1, <1>2, <2>1
  <2>4. QED
    BY <2>2, <2>3
<1>5. ASSUME NEW n \in DOMAIN alerts'
      PROVE  Shortage(payload'[alerts'[n].message])
  <2>1. CASE n \in DOMAIN alerts /\ alerts'[n] = alerts[n]
    <3>1. payload'[alerts'[n].message] = payload[alerts[n].message]
      BY <1>1, <1>3, <2>1
    <3>2. QED
      BY <2>1, <3>1 DEF Called
  <2>2. ASSUME NEW w \in Workers, pc[w] = "insert", alerts'[n].message = hand[w]
        PROVE  Shortage(payload'[alerts'[n].message])
    <3>1. payload'[alerts'[n].message] = payload[hand[w]]
      BY <1>1, <1>2, <2>2 DEF Handling
    <3>2. QED
      BY <2>2, <3>1 DEF Called
  <2>3. \/ n \in DOMAIN alerts /\ alerts'[n] = alerts[n]
        \/ \E w \in Workers : pc[w] = "insert" /\ alerts'[n].message = hand[w]
    <3>1. CASE alerts' = alerts
      BY <1>5, <3>1
    <3>2. ASSUME NEW w \in Workers, pc[w] = "insert", Inserted(w)
          PROVE  \/ n \in DOMAIN alerts /\ alerts'[n] = alerts[n]
                 \/ alerts'[n].message = hand[w]
      <4>1. hand[w] \in Messages
        BY <1>1, <3>2 DEF TypeOK, Handling
      <4>2. /\ DOMAIN alerts' = DOMAIN alerts \cup {Len(alerts) + 1}
            /\ \A k \in DOMAIN alerts : alerts'[k] = alerts[k]
            /\ alerts'[Len(alerts) + 1] = [message |-> hand[w], at |-> now]
        BY <1>1, <3>2, <4>1, AppendedRow
      <4>3. [message |-> hand[w], at |-> now].message = hand[w]
        OBVIOUS
      <4>4. QED
        BY <1>5, <4>2, <4>3
    <3>3. QED
      BY <1>1, <3>1, <3>2 DEF Grows
  <2>4. QED
    BY <2>1, <2>2, <2>3
<1>6. QED
  BY <1>4, <1>5 DEF Called

Where == [m \in Messages |-> Places(m)]
Wanted == [m \in Messages |-> Calls(m)]
Raised == [n \in DOMAIN alerts |-> alerts[n].message]

\* A message is in the one place it is said to be in, and in none before it is published.
LEMMA PlacesOf ==
    ASSUME Placed, NEW m \in Messages
    PROVE  /\ m \in ready <=> Places(m) = {"queue"}
           /\ \A w \in Workers : m \in unacked[w] <=> Places(m) = {w}
           /\ payload[m] = NoPayload <=> Places(m) = {}
<1>1. /\ m \in ready => m \notin Held \cup acked \cup dead
      /\ m \in Held => m \notin acked \cup dead
      /\ m \in acked => m \notin dead
      /\ payload[m] # NoPayload <=> m \in ready \cup Held \cup acked \cup dead
  BY DEF Placed, OnePlace, Published
<1>2. m \in Held <=> \E w \in Workers : m \in unacked[w]
  BY DEF Held
<1>3. \A v, w \in Workers : m \in unacked[v] /\ m \in unacked[w] => v = w
  BY DEF Placed, OnePlace
<1>4. QED
  BY <1>1, <1>2, <1>3, PlacesAssumption DEF Places

\* A step that moves no message moves none in the abstract.
LEMMA PlacesStay ==
    ASSUME UNCHANGED <<ready, unacked, acked, dead>>
    PROVE  Where' = Where
BY DEF Where, Places

\* What an event calls for is said once.
LEMMA WantedStays ==
    ASSUME UNCHANGED payload
    PROVE  Wanted' = Wanted
BY DEF Wanted, Calls

\* One message comes to one place, and the others stay.
LEMMA PutOne ==
    ASSUME NEW m \in Messages, NEW p, Places(m)' = {p},
           \A x \in Messages : x # m => Places(x)' = Places(x)
    PROVE  Where' = [Where EXCEPT ![m] = {p}]
BY DEF Where

-----------------------------------------------------------------------------

\* A publication: the event is in the queue or dropped, and calls for one alert or none.
LEMMA PublishDelivers ==
    ASSUME Placed, NEW m \in Messages, Publish(m)
    PROVE  Delivery!Publish(m)
<1> USE DEF Placed, TypeOK
<1>1. payload[m] = NoPayload /\ Places(m) = {}
  BY PlacesOf DEF Publish
<1>2. ASSUME NEW x \in Messages, x # m PROVE Places(x)' = Places(x)
  BY <1>2 DEF Publish, Places
<1>3. Places(m)' = {"queue"} \/ Places(m)' = {"dropped"}
  BY <1>1 DEF Publish, Places
<1>4. Where' = [Where EXCEPT ![m] = {"queue"}] \/ Where' = [Where EXCEPT ![m] = {"dropped"}]
  BY <1>2, <1>3, PutOne
<1>5. Wanted' = Wanted \/ \E k \in Keys : Wanted' = [Wanted EXCEPT ![m] = {k}]
  <2>1. PICK p \in Payload : payload' = [payload EXCEPT ![m] = p]
    BY DEF Publish
  <2>2. \A x \in Messages : x # m => Calls(x)' = Calls(x)
    BY <2>1 DEF Calls
  <2>3. Calls(m) = {} /\ (Calls(m)' = {} \/ Calls(m)' = {Key(p)})
    BY <1>1, <2>1 DEF Calls
  <2>4. Key(p) \in Keys
    BY DEF Payload, Key, Keys, Condition, Conditions
  <2>5. QED
    BY <2>2, <2>3, <2>4 DEF Wanted
<1>6. Raised' = Raised
  BY DEF Publish, Raised
<1>7. QED
  BY <1>1, <1>4, <1>5, <1>6 DEF Delivery!Publish, Delivery!Put, Where, Wanted, Raised

\* Delivery and expiry take a message from the queue.
LEMMA QueueDelivers ==
    ASSUME Placed, NEW m \in Messages, Expire(m) \/ \E w \in Workers : Deliver(w, m)
    PROVE  Delivery!Leave(m)
<1> USE DEF Placed, TypeOK
<1>1. Places(m) = {"queue"}
  BY PlacesOf DEF Expire, Deliver
<1>2. Wanted' = Wanted /\ Raised' = Raised
  BY WantedStays DEF Expire, Deliver, Raised
<1>3. ASSUME NEW x \in Messages, x # m PROVE Places(x)' = Places(x)
  <2>1. CASE Expire(m)
    BY <1>3, <2>1 DEF Expire, Places
  <2>2. ASSUME NEW w \in Workers, Deliver(w, m) PROVE Places(x)' = Places(x)
    <3>1. \A v \in Workers : x \in unacked'[v] <=> x \in unacked[v]
      BY <1>3, <2>2 DEF Deliver
    <3>2. QED
      BY <1>3, <2>2, <3>1 DEF Deliver, Places
  <2>3. QED
    BY <2>1, <2>2
<1>4. \E p \in Workers \cup {"dropped"} : Places(m)' = {p}
  <2>0. m \in ready /\ m \notin acked /\ m \notin dead /\ \A v \in Workers : m \notin unacked[v]
    BY DEF Expire, Deliver, OnePlace, Held
  <2>1. CASE Expire(m)
    BY <2>0, <2>1 DEF Expire, Places
  <2>2. ASSUME NEW w \in Workers, Deliver(w, m) PROVE Places(m)' = {w}
    BY <2>0, <2>2 DEF Deliver, Places
  <2>3. QED
    BY <2>1, <2>2
<1>5. \E p \in Workers \cup {"dropped"} : Where' = [Where EXCEPT ![m] = {p}]
  BY <1>3, <1>4, PutOne
<1>6. QED
  BY <1>1, <1>2, <1>5 DEF Delivery!Leave, Delivery!Put, Where, Wanted, Raised

\* An acknowledgement settles a message that has its alert.
LEMMA AckDelivers ==
    ASSUME Placed, Answered, Called, NEW w \in Workers, Ack(w)
    PROVE  (hand[w] \in Messages /\ Delivery!Acknowledge(hand[w])) \/ UNCHANGED <<Where, Wanted, Raised>>
<1> USE DEF Placed, TypeOK
<1>1. Wanted' = Wanted /\ Raised' = Raised
  BY WantedStays DEF Ack, Raised
<1>2. CASE w \in cut
  BY <1>1, <1>2, PlacesStay DEF Ack
<1>3. CASE w \notin cut
  <2>1. PICK m \in Messages :
          /\ m = hand[w] /\ m \in unacked[w] /\ acked' = acked \cup {m}
          /\ unacked' = [unacked EXCEPT ![w] = unacked[w] \ {m}] /\ UNCHANGED <<ready, dead>>
    BY <1>3 DEF Ack, Hands, Handling
  <2>2. Places(m) = {w}
    BY <2>1, PlacesOf
  <2>3. ASSUME NEW x \in Messages, x # m PROVE Places(x)' = Places(x)
    BY <2>1, <2>3 DEF Places
  <2>4. Places(m)' = {"acked"}
    <3>1. m \notin ready /\ m \notin dead /\ \A v \in Workers : v # w => m \notin unacked[v]
      BY <2>1 DEF OnePlace, Held
    <3>2. QED
      BY <2>1, <3>1 DEF Places
  <2>5. Where' = [Where EXCEPT ![m] = {"acked"}]
    BY <2>1, <2>3, <2>4, PutOne
  <2>6. ASSUME NEW k \in Calls(m)
        PROVE  \E n \in DOMAIN Raised : k \in Wanted[Raised[n]]
    <3>1. Shortage(payload[m]) /\ k = Key(payload[m])
      BY <2>6 DEF Calls
    <3>2. m \in Fulfilled
      BY <2>1 DEF Ack, Answered
    <3>3. PICK n \in DOMAIN alerts : k = Key(payload[alerts[n].message])
      BY <3>1, <3>2 DEF Fulfilled, Told
    <3>4. alerts[n] \in Row /\ payload[alerts[n].message] # NoPayload
      BY DEF Published
    <3>5. alerts[n].message \in Messages /\ Shortage(payload[alerts[n].message])
      BY <3>4 DEF Row, Called
    <3>6. k \in Calls(alerts[n].message)
      BY <3>3, <3>4, <3>5 DEF Calls
    <3>7. QED
      BY <3>5, <3>6 DEF Raised, Wanted
  <2>7. QED
    BY <1>1, <2>1, <2>2, <2>5, <2>6
    DEF Delivery!Acknowledge, Delivery!Put, Where, Wanted, Raised
<1>4. QED
  BY <1>2, <1>3

\* A lost connection or process, and a rejection, give everything back but one message.
LEMMA ReturnDelivers ==
    ASSUME Placed, NEW w \in Workers, Reject(w) \/ Crash(w) \/ Disconnect(w)
    PROVE  Delivery!Return(w) \/ UNCHANGED <<Where, Wanted, Raised>>
<1> USE DEF Placed, TypeOK
<1>1. Wanted' = Wanted /\ Raised' = Raised
  BY WantedStays DEF Reject, Crash, Disconnect, Fault, Raised
<1>2. PICK gone \in SUBSET unacked[w] :
        /\ \A d, e \in gone : d = e
        /\ ready' = ready \cup (unacked[w] \ gone) /\ dead' = dead \cup gone
        /\ unacked' = [unacked EXCEPT ![w] = {}] /\ acked' = acked
  <2>1. CASE Reject(w)
    <3>1. unacked[w] \ {hand[w]} = unacked[w] \ (unacked[w] \cap {hand[w]})
      OBVIOUS
    <3>2. QED
      BY <2>1, <3>1 DEF Reject, TakeBack
  <2>2. CASE Crash(w) \/ Disconnect(w)
    <3>1. unacked[w] \ {} = unacked[w] /\ dead \cup {} = dead
      OBVIOUS
    <3>2. /\ ready' = ready \cup (unacked[w] \ {}) /\ dead' = dead \cup {} /\ acked' = acked
          /\ unacked' = [unacked EXCEPT ![w] = {}]
      BY <2>2, <3>1 DEF Crash, Disconnect, Fault, TakeBack
    <3>3. {} \in SUBSET unacked[w] /\ \A d, e \in {} : d = e
      OBVIOUS
    <3>4. QED
      BY <3>2, <3>3
  <2>3. QED
    BY <2>1, <2>2
<1> DEFINE lent == {e \in Messages : Where[e] = {w}}
<1>3. lent = unacked[w]
  BY PlacesOf DEF Where
<1>4. CASE unacked[w] = {}
  <2>1. UNCHANGED <<ready, unacked, acked, dead>>
    BY <1>2, <1>4
  <2>2. QED
    BY <1>1, <2>1, PlacesStay
<1>5. CASE unacked[w] # {}
  <2>1. ASSUME NEW e \in Messages, e \notin unacked[w] PROVE Places(e)' = Places(e)
    BY <1>2, <2>1 DEF Places
  <2>2. ASSUME NEW e \in unacked[w]
        PROVE  Places(e)' = (IF e \in gone THEN {"dropped"} ELSE {"queue"})
    <3>1. e \notin ready /\ e \notin acked /\ e \notin dead
          /\ \A v \in Workers : v # w => e \notin unacked[v]
      BY <2>2 DEF OnePlace, Held
    <3>2. QED
      BY <1>2, <2>2, <3>1 DEF Places
  <2>3. Where' = [e \in Messages |-> IF e \notin lent THEN Where[e]
                                     ELSE IF e \in gone THEN {"dropped"} ELSE {"queue"}]
    <3> HIDE DEF lent
    <3>1. QED
      BY <1>3, <2>1, <2>2 DEF Where
  <2>4. gone \in SUBSET lent /\ lent # {}
    BY <1>3, <1>5
  <2>5. QED
    BY <1>1, <1>2, <2>3, <2>4 DEF Delivery!Return, Where, Wanted, Raised
<1>6. QED
  BY <1>4, <1>5

\* An insert raises the alert of the event in hand, or nothing.
LEMMA InsertDelivers ==
    ASSUME Placed, Called, NEW w \in Workers, Insert(w)
    PROVE  (hand[w] \in Messages /\ Delivery!Raise(hand[w])) \/ UNCHANGED <<Where, Wanted, Raised>>
<1> USE DEF Placed, TypeOK
<1>1. Wanted' = Wanted /\ Where' = Where
  BY WantedStays, PlacesStay DEF Insert, broker
<1>2. CASE UNCHANGED alerts
  BY <1>1, <1>2 DEF Raised
<1>3. CASE Inserted(w)
  <2>1. hand[w] \in Messages /\ payload[hand[w]] # NoPayload /\ Shortage(payload[hand[w]])
    BY DEF Insert, Handling, Published, Called
  <2>2. Places(hand[w]) # {} /\ Calls(hand[w]) # {}
    <3>1. Key(payload[hand[w]]) \in Keys
      BY <2>1, PayloadTypes
    <3>2. QED
      BY <2>1, <3>1, PlacesOf DEF Calls
  <2>3. /\ DOMAIN alerts' = DOMAIN alerts \cup {Len(alerts) + 1}
        /\ Len(alerts) + 1 \notin DOMAIN alerts
        /\ \A n \in DOMAIN alerts : alerts'[n] = alerts[n]
        /\ alerts'[Len(alerts) + 1] = [message |-> hand[w], at |-> now]
    BY <1>3, <2>1, AppendedRow
  <2>4. Raised \in Seq(Messages) /\ Len(Raised) = Len(alerts) /\ Len(alerts) \in Nat
        /\ DOMAIN alerts = 1 .. Len(alerts)
    <3>1. DOMAIN alerts = 1 .. Len(alerts) /\ Len(alerts) \in Nat
      OBVIOUS
    <3>2. \A n \in 1 .. Len(alerts) : alerts[n].message \in Messages
      <4>1. \A n \in DOMAIN alerts : alerts[n] \in Row
        OBVIOUS
      <4>2. QED
        BY <3>1, <4>1 DEF Row
    <3>3. QED
      BY <3>1, <3>2 DEF Raised
  <2>5. Raised' = Append(Raised, hand[w])
    <3>1. /\ DOMAIN Append(Raised, hand[w]) = 1 .. Len(alerts) + 1
          /\ Append(Raised, hand[w])[Len(alerts) + 1] = hand[w]
          /\ \A n \in 1 .. Len(alerts) : Append(Raised, hand[w])[n] = Raised[n]
          /\ Append(Raised, hand[w]) = [n \in 1 .. Len(alerts) + 1 |-> Append(Raised, hand[w])[n]]
      BY <2>1, <2>4
    <3>2. \A n \in DOMAIN alerts' : alerts'[n].message = Append(Raised, hand[w])[n]
      <4>1. [message |-> hand[w], at |-> now].message = hand[w]
        OBVIOUS
      <4>2. \A n \in DOMAIN alerts : Raised[n] = alerts[n].message
        BY DEF Raised
      <4>3. QED
        BY <2>3, <2>4, <3>1, <4>1, <4>2
    <3>3. DOMAIN alerts' = 1 .. Len(alerts) + 1
      BY <2>3, <2>4
    <3>4. Raised' = [n \in 1 .. Len(alerts) + 1 |-> Append(Raised, hand[w])[n]]
      BY <3>2, <3>3 DEF Raised
    <3>5. QED
      BY <3>1, <3>4
  <2>6. QED
    BY <1>1, <2>1, <2>2, <2>5 DEF Delivery!Raise, Where, Wanted, Raised
<1>4. QED
  BY <1>2, <1>3 DEF Insert, NotInserted

\* However workers, Redis, the clock and lost connections mix, an event is in one place
\* from its publication on, what a worker loses goes back to the queue, and a shortage
\* is acknowledged only when there is an alert for it.
THEOREM PipelineImplementsDelivery == Spec => ImplementsDelivery
<1>1. Init => Delivery!Init
  <2>1. ASSUME Init
        PROVE  /\ Where = [m \in Messages |-> {}] /\ Wanted = [m \in Messages |-> {}]
               /\ Raised = <<>>
    BY <2>1 DEF Init, Where, Places, Wanted, Calls, Raised
  <2>2. QED
    BY <2>1 DEF Delivery!Init, Where, Wanted, Raised
<1>2. Init => Called
  BY DEF Init, Called
<1>3. ASSUME Placed, Answered, Called, [Next]_vars
      PROVE  [Delivery!Next]_(Delivery!dvars)
  <2>1. ASSUME UNCHANGED <<Where, Wanted, Raised>> PROVE UNCHANGED Delivery!dvars
    BY <2>1 DEF Delivery!dvars, Where, Wanted, Raised
  <2>2. ASSUME UNCHANGED <<ready, unacked, acked, dead, payload, alerts>>
        PROVE  UNCHANGED Delivery!dvars
    <3>1. Raised' = Raised
      BY <2>2 DEF Raised
    <3>2. QED
      BY <2>1, <2>2, <3>1, PlacesStay, WantedStays
  <2>3. ASSUME NEW m \in Messages,
               Publish(m) \/ Expire(m) \/ \E w \in Workers : Deliver(w, m)
        PROVE  Delivery!Next
    BY <1>3, <2>3, PublishDelivers, QueueDelivers DEF Delivery!Next
  <2>4. ASSUME NEW w \in Workers, Insert(w) \/ Ack(w)
        PROVE  Delivery!Next \/ UNCHANGED Delivery!dvars
    <3>1. \/ hand[w] \in Messages /\ (Delivery!Raise(hand[w]) \/ Delivery!Acknowledge(hand[w]))
          \/ UNCHANGED <<Where, Wanted, Raised>>
      BY <1>3, <2>4, InsertDelivers, AckDelivers
    <3>2. ASSUME NEW m \in Messages, m = hand[w], Delivery!Raise(hand[w]) \/ Delivery!Acknowledge(hand[w])
          PROVE  Delivery!Raise(m) \/ Delivery!Acknowledge(m)
      BY <3>2 DEF Delivery!Raise, Delivery!Acknowledge, Delivery!Put
    <3>3. QED
      BY <2>1, <3>1, <3>2 DEF Delivery!Next
  <2>5. ASSUME NEW w \in Workers, Reject(w) \/ Crash(w) \/ Disconnect(w)
        PROVE  Delivery!Next \/ UNCHANGED Delivery!dvars
    BY <1>3, <2>1, <2>5, ReturnDelivers DEF Delivery!Next
  <2>6. ASSUME NEW w \in Workers,
               Connect(w) \/ Take(w) \/ CheckDone(w) \/ CheckDedup(w) \/ SetDedup(w) \/ SetDone(w)
        PROVE  UNCHANGED Delivery!dvars
    BY <2>2, <2>6 DEF Connect, Take, CheckDone, CheckDedup, SetDedup, SetDone, broker
  <2>7. CASE Tick \/ UNCHANGED vars
    BY <2>2, <2>7 DEF Tick, vars, broker
  <2>8. QED
    BY <1>3, <2>3, <2>4, <2>5, <2>6, <2>7 DEF Next, Work, Handle
<1>4. Placed /\ Called /\ [Next]_vars => Called'
  BY NextCalled
<1>5. QED
  BY <1>1, <1>2, <1>3, <1>4, PipelineInvariant, PTL DEF Spec, ImplementsDelivery, Delivery!Spec
=============================================================================
