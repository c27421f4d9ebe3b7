----------------------------- MODULE MobileStock -----------------------------
(***************************************************************************)
(* The stock list of the iOS app: InventoryRepository.swift reads it from  *)
(* the database and then patches it, change by change, with what the       *)
(* Realtime channel of RealtimeManager.swift brings; InventoryListView.swift *)
(* shows it, reloads it when it is pulled down, and issues from it.        *)
(*                                                                         *)
(* What a row holds is counted: the n-th change of the database writes n.  *)
(* Which quantity that is matters only to the server, which decides.       *)
(***************************************************************************)
EXTENDS Integers, Sequences, FiniteSets

CONSTANTS Items,
          NoSheet,
          Publications,    \* what the replication of inventory_items may be set to publish
          Fractional,      \* the changes that write a quantity which is no whole number
          MaxChanges,      \* bound on the changes of the database
          MaxLoads,        \* bound on loads of the list
          MaxCalls         \* bound on issue requests

Kinds == {"insert", "update", "delete"}

ASSUME MobileStockConstants ==
    /\ Publications \subseteq SUBSET Kinds
    /\ Fractional \subseteq Nat
    /\ MaxChanges \in Nat \ {0} /\ MaxLoads \in Nat /\ MaxCalls \in Nat
    /\ NoSheet \notin [item : Items, shown : 1..MaxChanges, request : 0..MaxCalls]

VARIABLES
    published,      \* the kinds of change Realtime forwards
    rows,           \* the table: for each item 0 before it is created, what it holds, or Gone
    changes,        \* how many changes there were
    events,         \* changes Realtime has not come to yet, oldest first
    channel,        \* the app's channel
    items,          \* the published list: the entries it has for each item
    load, loads,    \* the load under way, and how many there were
    sheet,          \* the open issue sheet
    calls,          \* the issue requests, in the order they were sent
    overtaken,      \* history: items an event of which went by since the load was answered
    excused         \* history: items the list may have wrong until it hears of them again

database == <<published, rows, changes>>
feed == <<events, channel>>
list == <<items, load, loads>>
issue == <<sheet, calls>>
excuses == <<overtaken, excused>>
vars == <<database, feed, list, issue, excuses>>

Gone == MaxChanges + 1
Contents == 1..MaxChanges
Event == [id : Items, kind : Kinds, content : 1..Gone]
Entries == {<<>>} \cup {<<c>> : c \in Contents}
Call == [item : Items, waiting : BOOLEAN, settled : BOOLEAN]

Present(i) == rows[i] \in Contents
\* What a SELECT of the table answers.
Table == [i \in Items |-> IF Present(i) THEN <<rows[i]>> ELSE <<>>]
Nothing == [i \in Items |-> <<>>]

Init ==
    /\ published \in Publications
    /\ rows \in [Items -> {0, 1}] /\ changes = 1
    /\ events = <<>> /\ channel = "off"
    /\ items = Nothing /\ load = [state |-> "asked", seen |-> Nothing] /\ loads = 1
    /\ sheet = NoSheet /\ calls = <<>>
    /\ overtaken = {} /\ excused = Items

(***************************************************************************)
(* The database, as the handlers of the API change it.                     *)
(***************************************************************************)
Change(i, kind) ==
    /\ changes < MaxChanges
    /\ changes' = changes + 1
    /\ rows' = [rows EXCEPT ![i] = IF kind = "delete" THEN Gone ELSE changes + 1]
    /\ events' = Append(events, [id |-> i, kind |-> kind, content |-> rows'[i]])
    /\ UNCHANGED <<published, channel, list, excuses>>

Create(i) == rows[i] = 0 /\ Change(i, "insert") /\ UNCHANGED issue
Update(i) == Present(i) /\ Change(i, "update") /\ UNCHANGED issue
Delete(i) == Present(i) /\ Change(i, "delete") /\ UNCHANGED issue

(***************************************************************************)
(* Realtime.  The channel is lost and comes back without the app's doing.  *)
(***************************************************************************)
Connect ==
    /\ channel = "off" /\ channel' = "on"
    /\ UNCHANGED <<database, events, list, issue, excuses>>
Disconnect ==
    /\ channel = "on" /\ channel' = "off"
    /\ UNCHANGED <<database, events, list, issue, excuses>>

Listed(i) == items[i] # <<>>

\* Faulty variant of the next: the id of the old record is not understood.
PatchedButForDeletes(e) ==
    CASE e.kind = "update" /\ Listed(e.id)  -> [items EXCEPT ![e.id][1] = e.content]
      [] e.kind = "insert" /\ ~Listed(e.id) -> [items EXCEPT ![e.id] = <<e.content>>]
      [] OTHER -> items

\* Faulty variant of the next: an insert is appended whatever the list has.
PatchedTwice(e) ==
    CASE e.kind = "update" /\ Listed(e.id)  -> [items EXCEPT ![e.id][1] = e.content]
      [] e.kind = "insert" -> [items EXCEPT ![e.id] = Append(@, e.content)]
      [] e.kind = "delete" -> [items EXCEPT ![e.id] = <<>>]
      [] OTHER -> items

\* applyChange: the entry is replaced where there is one, appended where there is none,
\* or removed.
Patched(e) ==
    CASE e.kind = "update" /\ Listed(e.id)  -> [items EXCEPT ![e.id][1] = e.content]
      [] e.kind = "insert" /\ ~Listed(e.id) -> [items EXCEPT ![e.id] = <<e.content>>]
      [] e.kind = "delete" -> [items EXCEPT ![e.id] = <<>>]
      [] OTHER -> items

\* The head of the feed goes by while a load is on its way back.
GoesBy(e) ==
    /\ events' = Tail(events)
    /\ overtaken' = IF load.state = "read" THEN overtaken \cup {e.id} ELSE overtaken
    /\ UNCHANGED <<database, channel, load, loads, issue>>

\* What reaches applyChange and decodes; an InventoryItem has a whole quantity.
Told(e) ==
    /\ channel = "on" /\ e.kind \in published
    /\ e.kind = "delete" \/ e.content \notin Fractional

Receive ==
    /\ events # <<>> /\ Told(Head(events))
    /\ LET e == Head(events)
           heard == e.kind = "delete" \/ (e.kind = "update" <=> Listed(e.id))
       IN  /\ items' = Patched(e)
           /\ excused' = IF heard THEN excused \ {e.id} ELSE excused
           /\ GoesBy(e)
\* Any other change is never heard of.
Lose ==
    /\ events # <<>> /\ ~Told(Head(events))
    /\ excused' = excused \cup {Head(events).id}
    /\ items' = items
    /\ GoesBy(Head(events))

(***************************************************************************)
(* The list: while it loads the view shows a spinner, so that nothing else *)
(* is started from it.                                                     *)
(***************************************************************************)
Idle == load.state = "idle"

Refresh ==
    /\ Idle /\ sheet = NoSheet /\ loads < MaxLoads
    /\ load' = [state |-> "asked", seen |-> Nothing] /\ loads' = loads + 1
    /\ UNCHANGED <<database, feed, items, issue, excuses>>
Read ==
    /\ load.state = "asked"
    /\ load' = [state |-> "read", seen |-> Table]
    /\ overtaken' = {}
    /\ UNCHANGED <<database, feed, items, loads, issue, excused>>

Arrive ==
    /\ load.state = "read"
    /\ \A i \in Items : load.seen[i] # <<>> => load.seen[i][1] \notin Fractional
    /\ items' = load.seen
    /\ load' = [state |-> "idle", seen |-> Nothing]
    /\ excused' = overtaken /\ overtaken' = {}
    /\ UNCHANGED <<database, feed, loads, issue>>
\* The request fails, one of the rows does not decode, or SwiftUI cancels it with the list
\* that was pulled down, which the spinner replaces.
LoadFails ==
    /\ ~Idle
    /\ load' = [state |-> "idle", seen |-> Nothing] /\ overtaken' = {}
    /\ UNCHANGED <<database, feed, items, loads, issue, excused>>

(***************************************************************************)
(* Issuing.  The sheet keeps the item it was opened on; it is disabled     *)
(* while its request is on its way.  Whatever the answer, the sheet stays: *)
(* issue_item answers with transaction_id and status, and Transaction does *)
(* not decode without id, so that a success ends in catch as a refusal, a  *)
(* lost answer and a timeout do.                                           *)
(***************************************************************************)
Select(i) ==
    /\ Idle /\ sheet = NoSheet /\ Listed(i)
    /\ sheet' = [item |-> i, shown |-> items[i][1], request |-> 0]
    /\ UNCHANGED <<database, feed, list, calls, excuses>>
Dismiss ==
    /\ sheet # NoSheet /\ sheet' = NoSheet
    /\ UNCHANGED <<database, feed, list, calls, excuses>>
Confirm ==
    /\ sheet # NoSheet /\ sheet.request = 0 /\ Len(calls) < MaxCalls
    /\ calls' = Append(calls, [item |-> sheet.item, waiting |-> TRUE, settled |-> FALSE])
    /\ sheet' = [sheet EXCEPT !.request = Len(calls')]
    /\ UNCHANGED <<database, feed, list, excuses>>
\* issue_item writes the row, or refuses.
Perform(n) ==
    /\ ~calls[n].settled
    /\ calls' = [calls EXCEPT ![n].settled = TRUE]
    /\ \/ Present(calls[n].item) /\ Change(calls[n].item, "update")
       \/ UNCHANGED <<database, feed, list, excuses>>
    /\ UNCHANGED sheet
Answer(n) ==
    /\ calls[n].waiting
    /\ calls' = [calls EXCEPT ![n].waiting = FALSE]
    /\ sheet' = IF sheet # NoSheet /\ sheet.request = n THEN [sheet EXCEPT !.request = 0] ELSE sheet
    /\ UNCHANGED <<database, feed, list, excuses>>

Next ==
    \/ \E i \in Items : Create(i) \/ Update(i) \/ Delete(i) \/ Select(i)
    \/ Connect \/ Disconnect \/ Receive \/ Lose
    \/ Refresh \/ Read \/ Arrive \/ LoadFails
    \/ Dismiss \/ Confirm
    \/ \E n \in 1..Len(calls) : Perform(n) \/ Answer(n)

Spec == Init /\ [][Next]_vars

-----------------------------------------------------------------------------
\* No item is in the list twice, which ForEach, and LazyColumn on Android, take for granted
\* of their keys; the other variables have their types.
TypeOK ==
    /\ published \in Publications /\ rows \in [Items -> 0..Gone] /\ changes \in 1..MaxChanges
    /\ events \in Seq(Event) /\ channel \in {"on", "off"}
    /\ items \in [Items -> Entries]
    /\ load \in [state : {"idle", "asked", "read"}, seen : [Items -> Entries]]
    /\ loads \in Nat
    /\ sheet \in [item : Items, shown : Contents, request : 0..MaxCalls] \cup {NoSheet}
    /\ calls \in Seq(Call) /\ Len(calls) <= MaxCalls
    /\ overtaken \subseteq Items /\ excused \subseteq Items

\* Where the list differs from the table, Realtime has not come to the item's last change
\* yet; or the app missed a change of the item, or had its list put back by a load that was
\* answered before the change, and has not heard of the item since (applyChange, fetchItems).
ToCome(i) == \E n \in 1..Len(events) : events[n].id = i
DifferenceExplained ==
    \A i \in Items : items[i] # Table[i] => ToCome(i) \/ i \in excused
=============================================================================
