-------------------------- MODULE AlertEngine_proofs --------------------------
(***************************************************************************)
(* The dedup table of every process, for every number of calls, processes, *)
(* items and every window.  Table is the inductive invariant: every call   *)
(* that decided to alert has its key in the table of its process until     *)
(* that process ends (Remembered), and a key that is in a table was put    *)
(* there by such a call (Owed).                                            *)
(***************************************************************************)
EXTENDS AlertEngine, TLAPS

\* The table that call h consults is still the one it consulted.
Current(h) == job[h].boot = boots[job[h].process]

\* A call is ahead of its decision until it evaluates, lives in the present
\* process, and nothing is decided in the future.
CallOK(h) ==
    /\ pc[h] # "idle" => job[h].boot <= boots[job[h].process] /\ job[h].decided <= now
    /\ pc[h] \in Running => Current(h)
    /\ pc[h] \in {"change", "notifyChange"} => job[h].decided = 0

Remembered ==
    \A h \in Deciders : Current(h) =>
        job[h].decided + TTL <= dedup[job[h].process][Key(job[h])]

Owed ==
    \A p \in Processes, k \in Keys : dedup[p][k] # 0 =>
        \E g \in Deciders : /\ job[g].process = p /\ job[g].boot = boots[p] /\ Key(job[g]) = k
                            /\ dedup[p][k] = job[g].decided + TTL

\* What has become of the alert of a call that decided to raise one.
Reported(g) == <<g, "condition">> \in alerts \/ pc[g] \in {"condition", "killed"} \/ g \in lost

\* The call whose alert stands for that of the silent call h.
Explained(h) ==
    \E g \in Deciders : /\ Rivals(g, h) /\ Reported(g)
                        /\ job[g].decided <= job[h].decided
                        /\ job[h].decided < job[g].decided + TTL

Table ==
    /\ TypeOK
    /\ \A h \in Handlers : CallOK(h)
    /\ Remembered
    /\ Owed
    /\ \A g \in Deciders : Reported(g)
    /\ OncePerWindow
    /\ \A h \in Handlers : pc[h] = "suppressed" => Explained(h)

-----------------------------------------------------------------------------

\* A key names one of the table's entries.
LEMMA KeyInKeys ==
    ASSUME NEW j \in Job
    PROVE  Key(j) \in Keys
BY DEF Key, Keys, Condition, Conditions, Job

\* A call that decided has a job, and is past its decision.
LEMMA DeciderHasJob ==
    ASSUME TypeOK, NEW h \in Deciders
    PROVE  /\ h \in Handlers /\ job[h] \in Job /\ Key(job[h]) \in Keys
           /\ pc[h] \in {"condition", "notifyCondition", "done", "killed"}
           /\ job[h].decided # 0
<1>1. h \in Handlers /\ pc[h] \in {"condition", "notifyCondition", "done", "killed"}
      /\ job[h].decided # 0
  BY DEF Deciders
<1>2. job[h] \in Job
  BY <1>1 DEF TypeOK
<1>3. QED
  BY <1>1, <1>2, KeyInKeys

\* At the start the tables are empty and no call has been made.
LEMMA InitTable ==
    ASSUME Init
    PROVE  Table
<1>1. TypeOK
  BY EngineAssumption DEF Init, TypeOK, Empty, Running, Finished
<1>2. Deciders = {} /\ \A h \in Handlers : pc[h] = "idle"
  BY DEF Init, Deciders
<1>3. \A p \in Processes, k \in Keys : dedup[p][k] = 0
  BY DEF Init, Empty
<1>4. \A h \in Handlers : CallOK(h)
  BY <1>2 DEF CallOK, Running
<1>5. Remembered /\ Owed /\ OncePerWindow
  BY <1>2, <1>3 DEF Remembered, Owed, OncePerWindow
<1>6. QED
  BY <1>1, <1>2, <1>4, <1>5 DEF Table

-----------------------------------------------------------------------------
(* Types *)

\* The first part of a call, up to its decision, keeps the types.
LEMMA EvaluateTypes ==
    ASSUME TypeOK, NEW h \in Handlers, NEW j \in Job, Evaluate(h, j)
    PROVE  /\ dedup' \in [Processes -> [Keys -> Nat]]
           /\ pc' \in [Handlers -> {"idle"} \cup Running \cup Finished]
           /\ job' \in [Handlers -> Job \cup {NoJob}]
           /\ \A g \in Handlers : pc'[g] # "idle" => job'[g] \in Job
<1>1. [j EXCEPT !.decided = now] \in Job
  BY DEF TypeOK, Job
<1>2. j.process \in Processes /\ Key(j) \in Keys
  BY KeyInKeys DEF Job
<1>3. now + TTL \in Nat
  BY EngineAssumption DEF TypeOK
<1>4. dedup' \in [Processes -> [Keys -> Nat]]
  <2>1. dedup \in [Processes -> [Keys -> Nat]] /\ (dedup' = dedup \/ Remember(j))
    BY DEF TypeOK, Evaluate
  <2>2. [dedup[j.process] EXCEPT ![Key(j)] = now + TTL] \in [Keys -> Nat]
    BY <1>2, <1>3, <2>1
  <2>3. QED
    BY <1>2, <2>1, <2>2 DEF Remember
<1>5. PICK r \in Job, l \in {"done", "suppressed", "condition"} :
         job' = [job EXCEPT ![h] = r] /\ pc' = [pc EXCEPT ![h] = l]
  BY <1>1 DEF Evaluate, Goto
<1>6. QED
  BY <1>4, <1>5 DEF TypeOK, Running, Finished

\* Every step keeps the types.
LEMMA NextTypes ==
    ASSUME TypeOK, [Next]_vars
    PROVE  TypeOK'
<1>1. ASSUME NEW h \in Handlers, RecordChange(h) PROVE TypeOK'
  <2>1. PICK p \in Processes, i \in Items, n \in Quantities :
          LET j == [process |-> p, boot |-> boots[p], item |-> i, quantity |-> n, decided |-> 0]
          IN IF NotifyOnEveryChange
             THEN /\ Goto(h, "change")
                  /\ job' = [job EXCEPT ![h] = j]
                  /\ UNCHANGED dedup
             ELSE Evaluate(h, j)
    BY <1>1 DEF RecordChange
  <2> DEFINE j == [process |-> p, boot |-> boots[p], item |-> i, quantity |-> n, decided |-> 0]
  <2>2. j \in Job
    BY EngineAssumption DEF TypeOK, Job
  <2>3. CASE NotifyOnEveryChange
    BY <1>1, <2>1, <2>2, <2>3 DEF RecordChange, TypeOK, Goto, Running
  <2>4. CASE ~NotifyOnEveryChange
    BY <1>1, <2>1, <2>2, <2>4, EvaluateTypes DEF RecordChange, TypeOK
  <2>5. QED
    BY <2>3, <2>4
<1>2. ASSUME NEW h \in Handlers, InsertChange(h) PROVE TypeOK'
  <2>1. job[h] \in Job /\ <<h, "change">> \in Alert
    BY <1>2 DEF InsertChange, TypeOK, Alert, Parts
  <2>2. alerts' \subseteq Alert /\ UNCHANGED <<now, boots, lost>>
    BY <1>2, <2>1 DEF InsertChange, TypeOK
  <2>3. CASE Goto(h, "notifyChange") /\ UNCHANGED <<dedup, job>>
    BY <1>2, <2>2, <2>3 DEF InsertChange, TypeOK, Goto, Running
  <2>4. CASE Evaluate(h, job[h])
    BY <2>1, <2>2, <2>4, EvaluateTypes DEF TypeOK
  <2>5. QED
    BY <1>2, <2>3, <2>4 DEF InsertChange
<1>3. ASSUME NEW h \in Handlers, NotifyChange(h) PROVE TypeOK'
  <2>1. job[h] \in Job
    BY <1>3 DEF NotifyChange, TypeOK
  <2>2. QED
    BY <1>3, <2>1, EvaluateTypes DEF NotifyChange, TypeOK
<1>4. ASSUME NEW h \in Handlers, InsertCondition(h) PROVE TypeOK'
  <2>1. <<h, "condition">> \in Alert
    BY DEF Alert, Parts
  <2>2. QED
    BY <1>4, <2>1 DEF InsertCondition, TypeOK, Goto, Running, Finished
<1>5. ASSUME NEW h \in Handlers, NotifyCondition(h) PROVE TypeOK'
  BY <1>5 DEF NotifyCondition, TypeOK, Goto, Finished
<1>6. ASSUME NEW p \in Processes, Restart(p) PROVE TypeOK'
  <2>1. Empty \in [Keys -> Nat]
    BY DEF Empty
  <2>2. pc' \in [Handlers -> {"idle"} \cup Running \cup Finished]
        /\ \A h \in Handlers : pc'[h] # "idle" => pc[h] # "idle"
    BY <1>6 DEF Restart, TypeOK, Running, Finished
  <2>3. QED
    BY <1>6, <2>1, <2>2 DEF Restart, TypeOK
<1>7. CASE Tick
  BY <1>7 DEF Tick, TypeOK
<1>8. CASE UNCHANGED vars
  BY <1>8 DEF vars, TypeOK
<1>9. QED
  BY <1>1, <1>2, <1>3, <1>4, <1>5, <1>6, <1>7, <1>8 DEF Next, Call

-----------------------------------------------------------------------------
(* Steps at which no call decides *)

\* Table carries over a step that leaves the tables and the decided calls alone.
LEMMA QuietStep ==
    ASSUME Table, TypeOK', UNCHANGED <<boots, dedup>>,
           Deciders' = Deciders,
           \A g \in Deciders : job'[g] = job[g] /\ Reported(g)',
           \A g \in Handlers : CallOK(g)',
           \A g \in Handlers : pc'[g] = "suppressed" =>
               (pc[g] = "suppressed" /\ job'[g] = job[g]) \/ Explained(g)'
    PROVE  Table'
<1>1. \A g \in Deciders : Current(g)' <=> Current(g)
  BY DEF Current
<1>2. Remembered'
  BY <1>1 DEF Table, Remembered, Key
<1>3. Owed'
  BY DEF Table, Owed, Key
<1>4. OncePerWindow'
  BY DEF Table, OncePerWindow, Rivals, Key
<1>5. \A g \in Handlers : pc[g] = "suppressed" /\ job'[g] = job[g] => Explained(g)'
  BY DEF Table, Explained, Rivals, Key
<1>6. QED
  BY <1>2, <1>3, <1>4, <1>5 DEF Table

-----------------------------------------------------------------------------
(* The step at which a call decides *)

\* A call that finds its key absent enters it, and has no rival in the window.
LEMMA DecideStep ==
    ASSUME Table, TypeOK', NEW h \in Handlers, NEW j \in Job,
           pc[h] \in {"idle", "change", "notifyChange"}, j.boot = boots[j.process],
           ~Seen(j), Remember(j), UNCHANGED <<now, boots, lost>>, alerts \subseteq alerts',
           job' = [job EXCEPT ![h] = [j EXCEPT !.decided = now]], Goto(h, "condition")
    PROVE  Table'
<1> DEFINE k == Key(j)
<1>1. k \in Keys /\ j.process \in Processes
  BY KeyInKeys DEF Job
<1>2. /\ job'[h].process = j.process /\ job'[h].boot = j.boot /\ job'[h].decided = now
      /\ Key(job'[h]) = k /\ pc'[h] = "condition"
      /\ \A g \in Handlers : g # h => job'[g] = job[g] /\ pc'[g] = pc[g]
  BY DEF Table, TypeOK, Goto, Job, Key
<1>3. h \notin Deciders /\ Deciders' = Deciders \cup {h}
  BY <1>2 DEF Deciders, Table, TypeOK
<1>4. dedup' = [dedup EXCEPT ![j.process][k] = now + TTL] /\ dedup[j.process][k] <= now
  BY <1>1 DEF Remember, Seen, Table, TypeOK
<1>5. /\ dedup'[j.process][k] = now + TTL
      /\ \A p \in Processes, c \in Keys :
            p # j.process \/ c # k => dedup'[p][c] = dedup[p][c]
  BY <1>1, <1>4 DEF Table, TypeOK
<1>6. \A g \in Deciders : /\ g # h /\ g \in Handlers /\ job'[g] = job[g] /\ job[g] \in Job
                          /\ Key(job[g]) \in Keys /\ Key(job'[g]) = Key(job[g])
                          /\ job[g].process \in Processes
                          /\ job[g].decided \in Nat /\ job[g].decided <= now
  BY <1>2, <1>3, DeciderHasJob DEF Table, CallOK, Job
<1>7. \A g \in Handlers : CallOK(g)'
  <2>1. CallOK(h)'
    BY <1>2 DEF CallOK, Current, Table, TypeOK, Job
  <2>2. QED
    BY <1>2, <2>1 DEF Table, CallOK, Current
<1>8. Remembered'
  <2>1. ASSUME NEW g \in Deciders, Current(g)
        PROVE  job[g].decided + TTL <= dedup'[job[g].process][Key(job[g])]
    <3>1. job[g].decided + TTL <= dedup[job[g].process][Key(job[g])]
      BY <2>1 DEF Table, Remembered
    <3>2. job[g].decided + TTL <= now + TTL
      BY <1>6, EngineAssumption DEF Table, TypeOK
    <3>3. QED
      BY <1>5, <1>6, <3>1, <3>2
  <2>2. now + TTL <= dedup'[j.process][k]
    BY <1>5, EngineAssumption DEF Table, TypeOK
  <2>3. QED
    BY <1>2, <1>3, <1>6, <2>1, <2>2 DEF Remembered, Current
<1>9. Owed'
  <2>1. ASSUME NEW p \in Processes, NEW c \in Keys, dedup'[p][c] # 0
        PROVE  \E g \in Deciders' : /\ job'[g].process = p /\ job'[g].boot = boots[p]
                                    /\ Key(job'[g]) = c /\ dedup'[p][c] = job'[g].decided + TTL
    <3>1. CASE p = j.process /\ c = k
      BY <1>2, <1>3, <1>5, <3>1
    <3>2. CASE p # j.process \/ c # k
      BY <1>3, <1>5, <1>6, <2>1, <3>2 DEF Table, Owed
    <3>3. QED
      BY <3>1, <3>2
  <2>2. QED
    BY <2>1 DEF Owed
<1>10. \A g \in Deciders' : Reported(g)'
  <2>1. \A g \in Deciders : Reported(g) /\ pc'[g] = pc[g]
    BY <1>2, <1>6 DEF Table
  <2>2. QED
    BY <1>2, <1>3, <2>1 DEF Reported
<1>11. \A g \in Deciders : Rivals(g, h)' => job[g].decided + TTL <= now
  <2>1. ASSUME NEW g \in Deciders, Rivals(g, h)' PROVE job[g].decided + TTL <= now
    <3>1. Current(g) /\ job[g].process = j.process /\ Key(job[g]) = k
      BY <1>2, <1>6, <2>1 DEF Rivals, Current
    <3>2. job[g].decided + TTL <= dedup[j.process][k]
      BY <3>1 DEF Table, Remembered
    <3>3. dedup[j.process][k] \in Nat /\ now \in Nat
      BY <1>1 DEF Table, TypeOK
    <3>4. QED
      BY <1>4, <1>6, <3>2, <3>3, EngineAssumption
  <2>2. QED
    BY <2>1
<1>12. OncePerWindow'
  BY <1>2, <1>3, <1>6, <1>11 DEF Table, OncePerWindow, Rivals
<1>13. \A g \in Handlers : pc'[g] = "suppressed" => Explained(g)'
  <2>1. ASSUME NEW g \in Handlers, pc'[g] = "suppressed" PROVE Explained(g)'
    <3>1. g # h /\ pc[g] = "suppressed" /\ job'[g] = job[g] /\ Explained(g)
      BY <1>2, <2>1 DEF Table
    <3>2. PICK d \in Deciders : /\ Rivals(d, g) /\ Reported(d)
                               /\ job[d].decided <= job[g].decided
                               /\ job[g].decided < job[d].decided + TTL
      BY <3>1 DEF Explained
    <3>3. d \in Deciders' /\ Reported(d)' /\ Rivals(d, g)'
      BY <1>3, <1>6, <1>10, <3>1, <3>2 DEF Rivals
    <3>4. QED
      BY <1>6, <3>1, <3>2, <3>3 DEF Explained
  <2>2. QED
    BY <2>1
<1>14. QED
  BY <1>7, <1>8, <1>9, <1>10, <1>12, <1>13 DEF Table

\* What a call does up to its decision.
LEMMA EvaluateStep ==
    ASSUME Table, TypeOK', NEW h \in Handlers, NEW j \in Job,
           pc[h] \in {"idle", "change", "notifyChange"}, j.boot = boots[j.process],
           j.decided = 0, Evaluate(h, j), UNCHANGED <<now, boots, lost>>,
           alerts \subseteq alerts'
    PROVE  Table'
<1>1. j.process \in Processes /\ Key(j) \in Keys /\ h \notin Deciders
  BY KeyInKeys DEF Job, Deciders
<1>2. CASE ~Short(j.item, j.quantity)
  <2>1. /\ job' = [job EXCEPT ![h] = j] /\ pc' = [pc EXCEPT ![h] = "done"] /\ UNCHANGED dedup
    BY <1>2 DEF Evaluate, Goto
  <2>2. /\ job'[h] = j /\ pc'[h] = "done"
        /\ \A g \in Handlers : g # h => job'[g] = job[g] /\ pc'[g] = pc[g]
    BY <2>1 DEF Table, TypeOK
  <2>3. Deciders' = Deciders
    BY <1>1, <2>2 DEF Deciders
  <2>4. \A g \in Deciders : job'[g] = job[g] /\ Reported(g)'
    BY <1>1, <2>2 DEF Table, Reported, Deciders
  <2>5. \A g \in Handlers : CallOK(g)'
    <3>1. CallOK(h)'
      BY <1>1, <2>2 DEF CallOK, Current, Running, Table, TypeOK
    <3>2. QED
      BY <2>2, <3>1 DEF Table, CallOK, Current
  <2>6. QED
    BY <2>1, <2>2, <2>3, <2>4, <2>5, QuietStep
<1>3. CASE Short(j.item, j.quantity) /\ Seen(j)
  <2>1. /\ job' = [job EXCEPT ![h] = [j EXCEPT !.decided = now]]
        /\ pc' = [pc EXCEPT ![h] = "suppressed"] /\ UNCHANGED dedup
    BY <1>3 DEF Evaluate, Goto
  <2>2. /\ job'[h].process = j.process /\ job'[h].boot = j.boot /\ job'[h].decided = now
        /\ Key(job'[h]) = Key(j) /\ pc'[h] = "suppressed"
        /\ \A g \in Handlers : g # h => job'[g] = job[g] /\ pc'[g] = pc[g]
    BY <2>1 DEF Table, TypeOK, Job, Key
  <2>3. Deciders' = Deciders
    BY <1>1, <2>2 DEF Deciders
  <2>4. \A g \in Deciders : job'[g] = job[g] /\ Reported(g)'
    BY <1>1, <2>2 DEF Table, Reported, Deciders
  <2>5. \A g \in Handlers : CallOK(g)'
    <3>1. CallOK(h)'
      BY <1>1, <2>2 DEF CallOK, Current, Running, Table, TypeOK
    <3>2. QED
      BY <2>2, <3>1 DEF Table, CallOK, Current
  <2>6. Explained(h)'
    <3>1. dedup[j.process][Key(j)] # 0 /\ dedup[j.process][Key(j)] > now
      BY <1>1, <1>3 DEF Seen, Table, TypeOK
    <3>2. PICK g \in Deciders : /\ job[g].process = j.process /\ job[g].boot = j.boot
                               /\ Key(job[g]) = Key(j)
                               /\ dedup[j.process][Key(j)] = job[g].decided + TTL
      BY <1>1, <3>1 DEF Table, Owed
    <3>3. job[g].decided <= now
      BY DeciderHasJob DEF Table, CallOK
    <3>4. Rivals(g, h)'
      BY <2>2, <2>4, <3>2 DEF Rivals, Key
    <3>5. now < job[g].decided + TTL
      BY <3>1, <3>2
    <3>6. QED
      BY <2>2, <2>3, <2>4, <3>3, <3>4, <3>5 DEF Explained
  <2>7. QED
    BY <2>1, <2>2, <2>3, <2>4, <2>5, <2>6, QuietStep
<1>4. CASE Short(j.item, j.quantity) /\ ~Seen(j)
  BY <1>4, DecideStep DEF Evaluate
<1>5. QED
  BY <1>2, <1>3, <1>4

-----------------------------------------------------------------------------
(* The inductive step *)

\* A process that starts again has an empty table, and none of its calls goes on.
LEMMA RestartStep ==
    ASSUME Table, TypeOK', NEW p \in Processes, Restart(p)
    PROVE  Table'
<1>1. /\ UNCHANGED <<now, alerts, lost, job>>
      /\ boots'[p] = boots[p] + 1 /\ \A q \in Processes : q # p => boots'[q] = boots[q]
      /\ \A k \in Keys : dedup'[p][k] = 0
      /\ \A q \in Processes : q # p => dedup'[q] = dedup[q]
      /\ \A h \in Handlers : pc'[h] = IF pc[h] \in Running /\ job[h].process = p
                                     THEN "killed" ELSE pc[h]
  BY DEF Restart, Table, TypeOK, Empty
<1>2. Deciders' = Deciders
  <2>1. ASSUME NEW h \in Handlers PROVE h \in Deciders' <=> h \in Deciders
    BY <1>1 DEF Deciders, Table, CallOK, Running
  <2>2. QED
    BY <2>1 DEF Deciders
<1>3. \A g \in Deciders : /\ g \in Handlers /\ job[g].process \in Processes /\ job[g].boot \in Nat
                          /\ Key(job[g]) \in Keys /\ job[g].boot <= boots[job[g].process]
                          /\ Key(job[g])' = Key(job[g])
  BY <1>1, DeciderHasJob DEF Table, CallOK, Job, Key
<1>4. \A g \in Deciders : Reported(g)'
  BY <1>1, <1>3 DEF Table, Reported
<1>5. \A g \in Handlers : CallOK(g)'
  <2>1. ASSUME NEW g \in Handlers, pc[g] # "idle"
        PROVE  job[g].process \in Processes /\ job[g].boot \in Nat
    BY <2>1 DEF Table, TypeOK, Job
  <2>2. boots \in [Processes -> Nat]
    BY DEF Table, TypeOK
  <2>3. QED
    BY <1>1, <2>1, <2>2 DEF Table, CallOK, Current, Running
<1>6. \A g \in Deciders : Current(g)' => job[g].process # p /\ Current(g)
  <2>1. boots[p] \in Nat
    BY DEF Table, TypeOK
  <2>2. QED
    BY <1>1, <1>3, <2>1 DEF Current
<1>7. Remembered'
  BY <1>1, <1>2, <1>3, <1>6 DEF Table, Remembered
<1>8. Owed'
  <2>1. ASSUME NEW q \in Processes, NEW k \in Keys, dedup'[q][k] # 0
        PROVE  q # p /\ dedup[q][k] # 0
    BY <1>1, <2>1
  <2>2. QED
    BY <1>1, <1>2, <1>3, <2>1 DEF Table, Owed
<1>9. OncePerWindow'
  BY <1>1, <1>2, <1>3 DEF Table, OncePerWindow, Rivals, Key
<1>10. \A g \in Handlers : pc'[g] = "suppressed" => Explained(g)'
  BY <1>1, <1>2, <1>4 DEF Table, Explained, Rivals, Key
<1>11. QED
  BY <1>2, <1>4, <1>5, <1>7, <1>8, <1>9, <1>10 DEF Table

\* Every step keeps the invariant.
LEMMA NextTable ==
    ASSUME Table, [Next]_vars
    PROVE  Table'
<1>1. TypeOK'
  BY NextTypes DEF Table
<1>2. ASSUME NEW h \in Handlers, RecordChange(h) PROVE Table'
  <2>1. PICK p \in Processes, i \in Items, n \in Quantities :
          LET j == [process |-> p, boot |-> boots[p], item |-> i, quantity |-> n, decided |-> 0]
          IN IF NotifyOnEveryChange
             THEN /\ Goto(h, "change")
                  /\ job' = [job EXCEPT ![h] = j]
                  /\ UNCHANGED dedup
             ELSE Evaluate(h, j)
    BY <1>2 DEF RecordChange
  <2> DEFINE j == [process |-> p, boot |-> boots[p], item |-> i, quantity |-> n, decided |-> 0]
  <2>2. j \in Job /\ j.process \in Processes
    BY EngineAssumption DEF Table, TypeOK, Job
  <2>3. pc[h] = "idle" /\ UNCHANGED <<now, boots, alerts, lost>>
    BY <1>2 DEF RecordChange
  <2>4. CASE NotifyOnEveryChange
    <3>1. /\ job'[h] = j /\ pc'[h] = "change" /\ UNCHANGED dedup
          /\ \A g \in Handlers : g # h => job'[g] = job[g] /\ pc'[g] = pc[g]
      BY <2>1, <2>4 DEF Goto, Table, TypeOK
    <3>2. Deciders' = Deciders /\ \A g \in Deciders : g \in Handlers /\ g # h
      BY <2>3, <3>1 DEF Deciders
    <3>3. CallOK(h)'
      BY <2>2, <2>3, <3>1 DEF CallOK, Current, Table, TypeOK
    <3>4. \A g \in Handlers : CallOK(g)'
      BY <2>3, <3>1, <3>3 DEF Table, CallOK, Current
    <3>5. \A g \in Deciders : job'[g] = job[g] /\ Reported(g)'
      BY <2>3, <3>1, <3>2 DEF Table, Reported
    <3>6. QED
      BY <1>1, <2>3, <3>1, <3>2, <3>4, <3>5, QuietStep
  <2>5. CASE ~NotifyOnEveryChange
    <3>1. Evaluate(h, j) /\ j.boot = boots[j.process] /\ j.decided = 0
      BY <2>1, <2>5
    <3> HIDE DEF j
    <3>2. QED
      BY <1>1, <2>2, <2>3, <3>1, EvaluateStep
  <2>6. QED
    BY <2>4, <2>5
<1>3. ASSUME NEW h \in Handlers, pc[h] \in {"change", "notifyChange"}
      PROVE  /\ job[h] \in Job /\ job[h].boot = boots[job[h].process]
             /\ job[h].decided = 0
  BY <1>3 DEF Table, TypeOK, CallOK, Current, Running
<1>4. ASSUME NEW h \in Handlers, InsertChange(h) PROVE Table'
  <2>1. pc[h] = "change" /\ UNCHANGED <<now, boots, lost>> /\ alerts \subseteq alerts'
    BY <1>4 DEF InsertChange
  <2>2. CASE Goto(h, "notifyChange") /\ UNCHANGED <<dedup, job>>
    <3>1. pc'[h] = "notifyChange" /\ \A g \in Handlers : g # h => pc'[g] = pc[g]
      BY <2>2 DEF Goto, Table, TypeOK
    <3>2. Deciders' = Deciders /\ \A g \in Deciders : g \in Handlers /\ g # h
      BY <2>1, <2>2, <3>1 DEF Deciders
    <3>3. \A g \in Handlers : CallOK(g)'
      BY <2>1, <2>2, <3>1 DEF Table, CallOK, Current, Running
    <3>4. \A g \in Deciders : job'[g] = job[g] /\ Reported(g)'
      BY <2>1, <2>2, <3>1, <3>2 DEF Table, Reported
    <3>5. QED
      BY <1>1, <2>1, <2>2, <3>1, <3>2, <3>3, <3>4, QuietStep
  <2>3. CASE Evaluate(h, job[h])
    BY <1>1, <1>3, <2>1, <2>3, EvaluateStep
  <2>4. QED
    BY <1>4, <2>2, <2>3 DEF InsertChange
<1>5. ASSUME NEW h \in Handlers, NotifyChange(h) PROVE Table'
  BY <1>1, <1>3, <1>5, EvaluateStep DEF NotifyChange
<1>6. ASSUME NEW h \in Handlers, InsertCondition(h) \/ NotifyCondition(h) PROVE Table'
  <2>1. /\ UNCHANGED <<now, boots, dedup, job>> /\ alerts \subseteq alerts' /\ lost \subseteq lost'
        /\ pc[h] \in {"condition", "notifyCondition"}
        /\ pc'[h] \in {"notifyCondition", "done"}
        /\ \A g \in Handlers : g # h => pc'[g] = pc[g]
        /\ pc[h] = "condition" => <<h, "condition">> \in alerts' \/ h \in lost'
    BY <1>6 DEF InsertCondition, NotifyCondition, Goto, Table, TypeOK
  <2>2. Deciders' = Deciders
    BY <2>1 DEF Deciders
  <2>3. \A g \in Handlers : CallOK(g)'
    BY <2>1 DEF Table, CallOK, Current, Running
  <2>4. \A g \in Deciders : g \in Handlers /\ job'[g] = job[g] /\ Reported(g)'
    BY <2>1 DEF Table, Reported, Deciders
  <2>5. QED
    BY <1>1, <2>1, <2>2, <2>3, <2>4, QuietStep
<1>7. ASSUME NEW p \in Processes, Restart(p) PROVE Table'
  BY <1>1, <1>7, RestartStep
<1>8. CASE Tick
  <2>1. /\ UNCHANGED <<boots, dedup, alerts, lost, pc, job>> /\ now' = now + 1
    BY <1>8 DEF Tick
  <2>2. Deciders' = Deciders /\ \A g \in Deciders : Reported(g)'
    BY <2>1 DEF Deciders, Reported, Table
  <2>3. \A g \in Handlers : CallOK(g)'
    <3>1. ASSUME NEW g \in Handlers, pc[g] # "idle" PROVE job[g].decided \in Nat
      BY <3>1 DEF Table, TypeOK, Job
    <3>2. now \in Nat
      BY DEF Table, TypeOK
    <3>3. QED
      BY <2>1, <3>1, <3>2 DEF Table, CallOK, Current, Running
  <2>4. QED
    BY <1>1, <2>1, <2>2, <2>3, QuietStep
<1>9. CASE UNCHANGED vars
  <2>1. UNCHANGED <<now, boots, dedup, alerts, lost, pc, job>>
    BY <1>9 DEF vars
  <2>2. Deciders' = Deciders /\ \A g \in Deciders : Reported(g)'
    BY <2>1 DEF Deciders, Reported, Table
  <2>3. \A g \in Handlers : CallOK(g)'
    BY <2>1 DEF Table, CallOK, Current
  <2>4. QED
    BY <1>1, <2>1, <2>2, <2>3, QuietStep
<1>10. QED
  BY <1>2, <1>4, <1>5, <1>6, <1>7, <1>8, <1>9 DEF Next, Call

\* Table holds in every reachable state.
LEMMA TableAlways == Spec => []Table
<1>1. Init => Table
  BY InitTable
<1>2. Table /\ [Next]_vars => Table'
  BY NextTable
<1>3. QED
  BY <1>1, <1>2, PTL DEF Spec

-----------------------------------------------------------------------------

\* The clock, the tables of all processes and every call's job have their types.
THEOREM TypeCorrect == Spec => []TypeOK
<1>1. Table => TypeOK
  BY DEF Table
<1>2. QED
  BY <1>1, TableAlways, PTL

\* No process raises two alerts about one item and condition within a window,
\* although its calls interleave at every await, inserts fail and calls are killed:
\* the key is looked up and recorded without an await in between.
THEOREM AlertsOncePerWindow == Spec => []OncePerWindow
<1>1. Table => OncePerWindow
  BY DEF Table
<1>2. QED
  BY <1>1, TableAlways, PTL

\* A call is silent only when another call of the same process answers for the
\* same condition: its alert was inserted, is being inserted, or failed.
THEOREM SilenceHasAReason == Spec => []SilenceExplained
<1>1. Table => SilenceExplained
  BY DEF Table, Explained, Reported, SilenceExplained
<1>2. QED
  BY <1>1, TableAlways, PTL
=============================================================================
