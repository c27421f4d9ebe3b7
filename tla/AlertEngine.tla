----------------------------- MODULE AlertEngine -----------------------------
(***************************************************************************)
(* The inline alerts of application/services/alert_engine.py.              *)
(*                                                                         *)
(* A stock handler calls record_inventory_change after its own writes; the *)
(* coroutine inserts an alert for the change, tells the SuperAdmins, and   *)
(* evaluates the stock condition the handler's quantity means.  Condition  *)
(* alerts are suppressed by a table of expiry times that every server      *)
(* process keeps for itself.  A step is the code between two awaits; what  *)
(* the handlers do to the stock before they call is InventoryApi.          *)
(***************************************************************************)
EXTENDS Integers

CONSTANTS
    Handlers,      \* calls of record_inventory_change
    Processes,     \* server processes (gunicorn runs four)
    Items,
    Low, Critical, \* the two thresholds of each item
    Quantities,    \* the quantities a handler may have left an item with
    TTL,           \* ALERT_DEDUP_TTL_SECONDS
    NotifyOnEveryChange,
    MaxTime,       \* bound: the clock stops there
    MaxBoots,      \* bound: how often a process is started
    NoJob          \* what a handler that has not called works on

Conditions == {"OUT_OF_STOCK", "CRITICAL_STOCK", "LOW_STOCK"}
Keys == Items \X Conditions
Parts == {"change", "condition"}

ASSUME EngineAssumption ==
    /\ Low \in [Items -> Nat] /\ Critical \in [Items -> Nat]
    /\ Quantities \subseteq Nat
    /\ TTL \in Nat \ {0}
    /\ NotifyOnEveryChange \in BOOLEAN
    /\ MaxTime \in Nat /\ MaxBoots \in Nat
    /\ NoJob \notin [process: Processes, boot: Nat, item: Items, quantity: Nat, decided: Nat]

VARIABLES
    now,     \* time.monotonic()
    boots,   \* how often each process was started again
    dedup,   \* _dedup: when each key expires in each process, 0 if it is not there
    alerts,  \* the rows of alerts, each known by the call and the part it is of
    lost,    \* the handlers whose condition alert could not be inserted
    pc,      \* where each call is
    job      \* its arguments, and when it decided to raise a condition alert

vars == <<now, boots, dedup, alerts, lost, pc, job>>

-----------------------------------------------------------------------------
(* Types *)

Job == [process: Processes, boot: Nat, item: Items, quantity: Nat, decided: Nat]

\* An alert is known by the call that raised it; what it says is in the call's job.
Alert == Handlers \X Parts

Running == {"change", "notifyChange", "condition", "notifyCondition"}
Finished == {"done", "suppressed", "killed"}

TypeOK ==
    /\ now \in Nat \ {0}
    /\ boots \in [Processes -> Nat]
    /\ dedup \in [Processes -> [Keys -> Nat]]
    /\ alerts \subseteq Alert
    /\ lost \subseteq Handlers
    /\ pc \in [Handlers -> {"idle"} \cup Running \cup Finished]
    /\ job \in [Handlers -> Job \cup {NoJob}]
    /\ \A h \in Handlers : pc[h] # "idle" => job[h] \in Job

-----------------------------------------------------------------------------

Empty == [k \in Keys |-> 0]

Init ==
    /\ now = 1
    /\ boots = [p \in Processes |-> 0]
    /\ dedup = [p \in Processes |-> Empty]
    /\ alerts = {}
    /\ lost = {}
    /\ pc = [h \in Handlers |-> "idle"]
    /\ job = [h \in Handlers |-> NoJob]

Goto(h, label) == pc' = [pc EXCEPT ![h] = label]

\* Which alert a quantity calls for, if any.
Short(i, n) == n <= 0 \/ n <= Critical[i] \/ n <= Low[i]

Condition(i, n) == IF n <= 0 THEN "OUT_OF_STOCK"
                   ELSE IF n <= Critical[i] THEN "CRITICAL_STOCK" ELSE "LOW_STOCK"

Key(j) == <<j.item, Condition(j.item, j.quantity)>>

\* Faulty variants of definitions below: a window that ends early, a window that
\* never ends, an expiry before the present.
SeenTooShort(j) == dedup[j.process][Key(j)] > now + 1
SeenForEver(j) == dedup[j.process][Key(j)] # 0
RememberBackwards(j) == dedup' = [dedup EXCEPT ![j.process][Key(j)] = now - TTL]

\* _dedup_seen: expired entries count as absent, whether or not the clean-up of
\* a large table has taken them out.
Seen(j) == dedup[j.process][Key(j)] > now

Remember(j) == dedup' = [dedup EXCEPT ![j.process][Key(j)] = now + TTL]

\* evaluate_stock_condition up to its first await: looking up the key and
\* recording it is one step.
Evaluate(h, j) ==
    \/ /\ ~Short(j.item, j.quantity)
       /\ Goto(h, "done")
       /\ job' = [job EXCEPT ![h] = j]
       /\ UNCHANGED dedup
    \/ /\ Short(j.item, j.quantity) /\ Seen(j)
       /\ Goto(h, "suppressed")
       /\ job' = [job EXCEPT ![h] = [j EXCEPT !.decided = now]]
       /\ UNCHANGED dedup
    \/ /\ Short(j.item, j.quantity) /\ ~Seen(j)
       /\ Remember(j)
       /\ job' = [job EXCEPT ![h] = [j EXCEPT !.decided = now]]
       /\ Goto(h, "condition")

\* A handler of process p has left item i with quantity n.
RecordChange(h) ==
    /\ pc[h] = "idle"
    /\ \E p \in Processes, i \in Items, n \in Quantities :
          LET j == [process |-> p, boot |-> boots[p], item |-> i, quantity |-> n,
                    decided |-> 0]
          IN IF NotifyOnEveryChange
             THEN /\ Goto(h, "change")
                  /\ job' = [job EXCEPT ![h] = j]
                  /\ UNCHANGED dedup
             ELSE Evaluate(h, j)
    /\ UNCHANGED <<now, boots, alerts, lost>>

\* _insert_alert swallows every exception; one may also hide an insert that took
\* place.  Only after a success are the SuperAdmins told.
InsertChange(h) ==
    /\ pc[h] = "change"
    /\ \/ /\ alerts' = alerts \cup {<<h, "change">>}
          /\ Goto(h, "notifyChange")
          /\ UNCHANGED <<dedup, job>>
       \/ /\ alerts' \in {alerts, alerts \cup {<<h, "change">>}}
          /\ Evaluate(h, job[h])
    /\ UNCHANGED <<now, boots, lost>>

\* Whatever the notification brings, the stock level is evaluated next.
NotifyChange(h) ==
    /\ pc[h] = "notifyChange"
    /\ Evaluate(h, job[h])
    /\ UNCHANGED <<now, boots, alerts, lost>>

InsertCondition(h) ==
    /\ pc[h] = "condition"
    /\ \/ /\ alerts' = alerts \cup {<<h, "condition">>}
          /\ Goto(h, "notifyCondition")
          /\ UNCHANGED lost
       \/ /\ alerts' \in {alerts, alerts \cup {<<h, "condition">>}}
          /\ lost' = lost \cup {h}
          /\ Goto(h, "done")
    /\ UNCHANGED <<now, boots, dedup, job>>

NotifyCondition(h) ==
    /\ pc[h] = "notifyCondition"
    /\ Goto(h, "done")
    /\ UNCHANGED <<now, boots, dedup, alerts, lost, job>>

\* The process ends, and with it its handlers and its table; it is started again.
Restart(p) ==
    /\ boots[p] < MaxBoots
    /\ boots' = [boots EXCEPT ![p] = @ + 1]
    /\ dedup' = [dedup EXCEPT ![p] = Empty]
    /\ pc' = [h \in Handlers |-> IF pc[h] \in Running /\ job[h].process = p
                                 THEN "killed" ELSE pc[h]]
    /\ UNCHANGED <<now, alerts, lost, job>>

Tick ==
    /\ now < MaxTime
    /\ now' = now + 1
    /\ UNCHANGED <<boots, dedup, alerts, lost, pc, job>>

-----------------------------------------------------------------------------

Call(h) == \/ RecordChange(h) \/ InsertChange(h) \/ NotifyChange(h)
           \/ InsertCondition(h) \/ NotifyCondition(h)

Next == (\E h \in Handlers : Call(h)) \/ (\E p \in Processes : Restart(p)) \/ Tick

Spec == Init /\ [][Next]_vars

-----------------------------------------------------------------------------
(* Properties *)

\* The calls that raised, or tried to raise, a condition alert.
Deciders == {h \in Handlers : pc[h] \in {"condition", "notifyCondition", "done", "killed"}
                              /\ job[h].decided # 0}

\* The same key, judged by the same table.
Rivals(g, h) ==
    /\ Key(job[g]) = Key(job[h])
    /\ job[g].process = job[h].process /\ job[g].boot = job[h].boot

\* alert_engine.py:23: of the alerts of one process about one item and condition,
\* any two lie at least a window apart, however its handlers interleave at their
\* awaits: also those whose insert failed, or whose process was killed.
OncePerWindow ==
    \A g, h \in Deciders : g # h /\ Rivals(g, h) =>
        \/ job[g].decided + TTL <= job[h].decided
        \/ job[h].decided + TTL <= job[g].decided

\* A shortage that goes unreported was decided on less than a window earlier by
\* another call in the same process, whose alert is in the table, on its way, or
\* was lost: the table never suppresses for anything else.
SilenceExplained ==
    \A h \in Handlers : pc[h] = "suppressed" =>
        \E g \in Deciders :
            /\ Rivals(g, h)
            /\ job[g].decided <= job[h].decided /\ job[h].decided < job[g].decided + TTL
            /\ \/ <<g, "condition">> \in alerts
               \/ pc[g] \in {"condition", "killed"} \/ g \in lost

-----------------------------------------------------------------------------
(* What the module's comment says, and the engine does not do *)

\* alert_engine.py:23: condition alerts are "de-duped per (item, type) within a
\* TTL window": what is suppressed is a duplicate of an alert that there is, or
\* that is about to be inserted.
SuppressedIsDuplicate ==
    \A h \in Handlers : pc[h] = "suppressed" =>
        \E g \in Deciders :
            /\ Key(job[g]) = Key(job[h])
            /\ \/ <<g, "condition">> \in alerts
               \/ pc[g] = "condition"
=============================================================================
