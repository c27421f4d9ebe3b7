---------------------------- MODULE RecordScreens ----------------------------
(***************************************************************************)
(* The pages whose rows carry buttons of their own: AlertsPage, BusesPage  *)
(* and WarehousesPage, with the badge of the header, as one user works with *)
(* them.  A button sends the status it wants the record to have, chosen by  *)
(* what the list on screen says; the handlers of alerts.py, buses.py and    *)
(* warehouses.py write it unconditionally.  What keeps two clicks on one    *)
(* record apart is which buttons the page disables meanwhile, and each page *)
(* does that in its own way.                                               *)
(***************************************************************************)
EXTENDS Integers, FiniteSets, ListQuery

CONSTANTS Alerts, Buses, Warehouses,
          Plans,        \* what there is at the start, see Plan
          NoRecord, NoClick,
          MaxEvents,    \* bound on clicks, forms, pages, filters, writes of other users,
                        \* and failed fetches together
          MaxLate       \* bound on abandoned requests the API may still perform

Records == Alerts \cup Buses \cup Warehouses
Statuses(rec) == CASE rec \in Alerts -> {"OPEN", "ACKNOWLEDGED", "RESOLVED"}
                   [] rec \in Buses  -> {"ACTIVE", "MAINTENANCE", "OUT_OF_SERVICE"}
                   [] OTHER          -> {"active", "inactive"}
Status == UNION {Statuses(rec) : rec \in Records}

\* The filters of AlertsPage, the badge, and the lists of the other pages.
Chips == {"all", "OPEN", "ACKNOWLEDGED", "RESOLVED"}
Lists == Chips \cup {"badge", "buses", "warehouses"}
Pages == {"alerts", "buses", "warehouses"}
PageOf(v) == IF v \in Chips THEN "alerts" ELSE v

\* A small world: the records there are, the list shown first, the lists and records the
\* user turns to, the records other users write, and how many events there are.
Plan == [status : [Records -> Status \cup {"absent"}], first : Lists \ {"badge"},
         lists : SUBSET Lists, uses : SUBSET Records, shared : SUBSET Records,
         events : 0..MaxEvents]

ASSUME RecordScreensConstants ==
    /\ Alerts \cap Buses = {} /\ (Alerts \cup Buses) \cap Warehouses = {}
    /\ NoRecord \notin Records /\ NoClick \notin Status
    /\ Plans \subseteq Plan
    /\ \A p \in Plans :
          /\ \A rec \in Records : p.status[rec] \in Statuses(rec) \cup {"absent"}
          /\ \A rec \in Alerts : p.status[rec] \in {"OPEN", "absent"}
    /\ {MaxEvents, MaxLate} \subseteq Nat

VARIABLES
    plan,
    status, version,    \* the database: its records, and the number of its changes
    cache,              \* Lists -> query
    view, visit,        \* the list on screen; visit counts the mounts of a page
    pendingBusId,       \* BusesPage
    form, forms,        \* the number of the open create form or 0; how many were opened
    requests,           \* what was sent and is not settled on both sides
    events,             \* counts what MaxEvents bounds
    clicked,            \* history: what the last button on a record asked for
    excused,            \* history: records of which another write may follow the last
                        \* click, see the actions that add to it
    resolvedAt          \* history: the version that first resolved an alert, or 0

db == <<status, version, resolvedAt>>
screen == <<view, visit, pendingBusId, form, forms>>
clicks == <<clicked, excused>>
vars == <<plan, db, cache, screen, requests, events, clicks>>

Snapshots == [at : Nat, status : [Records -> Status \cup {"absent"}]]
Request == [no : 1..MaxEvents, visit : 1..(MaxEvents + 1), form : 0..MaxEvents, record : Records,
            to : Status, seen : Nat, waiting : BOOLEAN, state : {"sent", "done", "refused"}]

Init ==
    /\ plan \in Plans
    /\ status = plan.status /\ version = 0
    /\ resolvedAt = [a \in Alerts |-> 0]
    /\ view = plan.first /\ visit = 1
    /\ cache = [v \in Lists |-> IF v \in {plan.first} \cup ({"badge"} \cap plan.lists)
                                THEN Ask(Unfetched) ELSE Unfetched]
    /\ pendingBusId = NoRecord /\ form = 0 /\ forms = 0
    /\ requests = {} /\ events = 0
    /\ clicked = [rec \in Records |-> NoClick] /\ excused = {}

\* One of the bounded events.
Event == events < plan.events /\ events' = events + 1

(***************************************************************************)
(* The lists.                                                              *)
(***************************************************************************)
page == PageOf(view)

\* On screen are the page's list, the badge, and in the form for a bus the depots.
\* The first two poll.
Polling == {view} \cup ({"badge"} \cap plan.lists)
OnScreen == Polling \cup (IF form # 0 /\ page = "buses" THEN {"warehouses"} ELSE {})

\* The keys ["alerts"], ["buses"] and ["warehouses"]; every alert list is under the first.
KeyOf(rec) == CASE rec \in Alerts -> Chips \cup {"badge"}
                [] rec \in Buses  -> {"buses"}
                [] OTHER          -> {"warehouses"}
Invalidate(lists) ==
    cache' = [v \in Lists |-> IF v \in lists THEN Invalidated(cache[v], v \in OnScreen) ELSE cache[v]]

OnlyLists == UNCHANGED <<plan, db, screen, requests, clicks>>

\* Faulty variant of the next: the badge does not poll.
PollPage(v) ==
    /\ v = view /\ cache[v].fetch = "idle"
    /\ cache' = [cache EXCEPT ![v] = Polled(@)]
    /\ OnlyLists /\ UNCHANGED events

Poll(v) ==
    /\ v \in Polling /\ cache[v].fetch = "idle"
    /\ cache' = [cache EXCEPT ![v] = Polled(@)]
    /\ OnlyLists /\ UNCHANGED events
Read(v) ==
    /\ cache[v].fetch = "asked"
    /\ cache' = [cache EXCEPT ![v] = Answered(@, [at |-> version, status |-> status])]
    /\ OnlyLists /\ UNCHANGED events
Arrive(v) ==
    /\ cache[v].fetch = "read"
    /\ cache' = [cache EXCEPT ![v] = Arrived(@)]
    /\ OnlyLists /\ UNCHANGED events
FailFetch(v) ==
    /\ cache[v].fetch # "idle" /\ Event
    /\ cache' = [cache EXCEPT ![v] = Failed(@)]
    /\ OnlyLists

\* The realtime channel tells of alerts, and only of them; what happens while it is
\* down is never told.
Broadcast ==
    /\ "badge" \in plan.lists
    /\ Invalidate(Chips \cup {"badge"})
    /\ OnlyLists /\ UNCHANGED events

\* Faulty variant of the next: every row has its buttons.
RowShown(rec, statuses) ==
    cache[view].data # NoData /\ cache[view].data.status[rec] # "absent"

\* A row of the list on screen, of whose status the button is for.
Row(rec, statuses) ==
    /\ cache[view].data # NoData /\ cache[view].data.status[rec] \in statuses
    /\ view \in Chips => view \in {"all", cache[view].data.status[rec]}

(***************************************************************************)
(* The buttons of the rows.                                                *)
(***************************************************************************)
Waiting == {r \in requests : r.waiting}
Sent == {r \in requests : r.state = "sent"}
OfButton(rec) == {r \in requests : r.record = rec /\ r.form = 0}

\* What the hooks of this mount of a page have under way.
Here(kind) == {r \in Waiting : r.visit = visit /\ r.form = 0 /\ r.record \in kind}

NewRequest(rec, to, n, seen) ==
    [no |-> events + 1, visit |-> visit, form |-> n, record |-> rec, to |-> to, seen |-> seen,
     waiting |-> TRUE, state |-> "sent"]

\* A click; others are the records whose buttons it sets free although they are pending.
Click(rec, to, others) ==
    /\ form = 0 /\ rec \in plan.uses /\ Event
    /\ requests' = requests \cup {NewRequest(rec, to, 0, cache[view].data.at)}
    /\ clicked' = [clicked EXCEPT ![rec] = to]
    /\ excused' = (IF OfButton(rec) = {} THEN excused \ {rec} ELSE excused) \cup others
    /\ UNCHANGED <<plan, db, cache, view, visit, form, forms>>

\* AlertsPage: either button waits for the mutation of its own, not for the other's.
AlertButton(a, to) ==
    /\ page = "alerts" /\ Row(a, {"OPEN"})
    /\ \A r \in Here(Alerts) : r.to # to
    /\ Click(a, to, IF \E r \in Here(Alerts) : r.record = a THEN {a} ELSE {})
    /\ UNCHANGED pendingBusId

\* Faulty variant of the next: the bus's button sends what the warehouse's does.
ToggledAlike(s) == IF s = "active" THEN "inactive" ELSE "active"

\* What a toggle asks for, by the status in its row.
Toggled(s) == CASE s = "ACTIVE"      -> "MAINTENANCE"
                [] s = "MAINTENANCE" -> "ACTIVE"
                [] s = "active"      -> "inactive"
                [] OTHER             -> "active"

\* Faulty variant of the next: no button is disabled.
BusButtonEnabled(b) == TRUE

\* BusesPage: the button of the bus that pendingBusId names.  A click on another bus
\* takes its place.
BusEnabled(b) == pendingBusId # b
BusButton(b) ==
    /\ page = "buses" /\ Row(b, {"ACTIVE", "MAINTENANCE"}) /\ BusEnabled(b)
    /\ LET crossing == {r.record : r \in Here(Buses)} \ {b}
       IN  Click(b, Toggled(cache[view].data.status[b]),
                 IF crossing = {} THEN {} ELSE crossing \cup {b})
    /\ pendingBusId' = b

\* WarehousesPage: all buttons while one is pending.
WarehouseButton(w) ==
    /\ page = "warehouses" /\ Row(w, {"active", "inactive"}) /\ Here(Warehouses) = {}
    /\ Click(w, Toggled(cache[view].data.status[w]), {})
    /\ UNCHANGED pendingBusId

(***************************************************************************)
(* Forms, filters and pages.                                               *)
(***************************************************************************)
OnlyForm == UNCHANGED <<plan, db, view, visit, pendingBusId, clicks>>

\* CreateBusModal mounts the list of depots, which may have passed its staleTime.
OpenForm ==
    /\ form = 0 /\ page # "alerts" /\ Event
    /\ form' = forms + 1 /\ forms' = forms + 1
    /\ IF page = "buses"
       THEN \E q \in {cache["warehouses"], Aged(cache["warehouses"])} :
                cache' = [cache EXCEPT !["warehouses"] = Mounted(q)]
       ELSE UNCHANGED cache
    /\ OnlyForm /\ UNCHANGED requests
CloseForm ==
    /\ form # 0 /\ form' = 0
    /\ OnlyForm /\ UNCHANGED <<cache, forms, requests, events>>

\* The confirm button of CreateBusModal and CreateWarehouseModal.
Create(rec, to) ==
    /\ form # 0 /\ \A r \in Waiting : r.form # form
    /\ rec \in plan.uses /\ Event
    /\ requests' = requests \cup {NewRequest(rec, to, form, 0)}
    /\ OnlyForm /\ UNCHANGED <<cache, form, forms>>
CreateBusModal(b) == page = "buses" /\ \E to \in Statuses(b) : Create(b, to)
CreateWarehouseModal(w) == page = "warehouses" /\ Create(w, "active")

\* Another list takes the screen; its data may have passed its staleTime meanwhile.
Show(v) ==
    /\ v \in plan.lists \ {"badge", view} /\ Event
    /\ view' = v
    /\ \E q \in {cache[v], Aged(cache[v])} : cache' = [cache EXCEPT ![v] = Mounted(q)]
    /\ UNCHANGED <<plan, db, requests>>
FilterChips(v) ==
    /\ PageOf(v) = page
    /\ Show(v)
    /\ UNCHANGED <<visit, pendingBusId, form, forms, clicks>>

\* A page is left: nothing remembers what its buttons have under way.
Navigate(v) ==
    /\ PageOf(v) # page
    /\ Show(v)
    /\ visit' = visit + 1 /\ pendingBusId' = NoRecord /\ form' = 0
    /\ excused' = excused \cup {r.record : r \in Here(Records) \cap Sent}
    /\ UNCHANGED <<forms, clicked>>

User ==
    \/ \E a \in Alerts : AlertButton(a, "ACKNOWLEDGED") \/ AlertButton(a, "RESOLVED")
    \/ \E b \in Buses : BusButton(b) \/ CreateBusModal(b)
    \/ \E w \in Warehouses : WarehouseButton(w) \/ CreateWarehouseModal(w)
    \/ OpenForm \/ CloseForm
    \/ \E v \in Lists : FilterChips(v) \/ Navigate(v)

(***************************************************************************)
(* The API and the other users.                                            *)
(***************************************************************************)
Write(rec, to) ==
    /\ status' = [status EXCEPT ![rec] = to]
    /\ version' = version + 1
    /\ resolvedAt' = IF to = "RESOLVED" /\ resolvedAt[rec] = 0
                     THEN [resolvedAt EXCEPT ![rec] = version + 1] ELSE resolvedAt

Update(r, to) == requests' = (requests \ {r}) \cup (IF r.waiting THEN {[r EXCEPT !.state = to]} ELSE {})

\* acknowledge_alert, resolve_alert, update_bus, update_warehouse write what they are
\* asked to; create_bus and create_warehouse insert.
Perform(r) ==
    /\ r.state = "sent" /\ (r.form # 0 => status[r.record] = "absent")
    /\ Write(r.record, r.to)
    /\ Update(r, "done")
    /\ UNCHANGED <<plan, cache, screen, events, clicks>>

\* A row that exists already, a missing permission, a failing database.
Refuse(r) ==
    /\ r.state = "sent"
    /\ Update(r, "refused")
    /\ excused' = IF r.form = 0 THEN excused \cup {r.record} ELSE excused
    /\ UNCHANGED <<plan, db, cache, screen, events, clicked>>

\* Someone else uses the same buttons, or the alert engine raises an alert.
OtherUser(rec, to) ==
    /\ rec \in plan.shared /\ Event
    /\ IF status[rec] = "absent" THEN to \in {"OPEN", "ACTIVE", "active"}
       ELSE to # status[rec] /\ to # "OPEN"
    /\ Write(rec, to)
    /\ excused' = excused \cup {rec}
    /\ UNCHANGED <<plan, cache, screen, requests, clicked>>

(***************************************************************************)
(* The outcome at the client.                                              *)
(***************************************************************************)
\* setPendingBusId(null), whichever bus it names by now.
BusAnswered(r) == pendingBusId' =
    IF r.record \in Buses /\ r.form = 0 /\ r.visit = visit THEN NoRecord ELSE pendingBusId

\* Faulty variant of the next: onError leaves pendingBusId as it is.
BusNotFreed(r) == UNCHANGED pendingBusId
BusFailed(r) == BusAnswered(r)

\* onSuccess: the lists are invalidated; a create form closes, also when it is another
\* than the one that sent the request.
Succeed(r) ==
    /\ r.waiting /\ r.state = "done"
    /\ requests' = requests \ {r}
    /\ Invalidate(KeyOf(r.record)) /\ BusAnswered(r)
    /\ form' = IF r.form # 0 /\ r.visit = visit THEN 0 ELSE form
    /\ UNCHANGED <<plan, db, view, visit, forms, events, clicks>>

\* onError, which AlertsPage does not have.
Fail(r) ==
    /\ r.waiting /\ r.state = "refused"
    /\ requests' = requests \ {r} /\ BusFailed(r)
    /\ UNCHANGED <<plan, db, cache, view, visit, form, forms, events, clicks>>

\* The client's timeout, or an answer that is lost: onError as well.
GiveUp(r) ==
    /\ r.waiting
    /\ requests' = (requests \ {r}) \cup
           (IF r.state = "sent" /\ Cardinality(requests \ Waiting) < MaxLate
            THEN {[r EXCEPT !.waiting = FALSE]} ELSE {})
    /\ excused' = IF r.state = "sent" /\ r.form = 0 THEN excused \cup {r.record} ELSE excused
    /\ BusFailed(r)
    /\ UNCHANGED <<plan, db, cache, view, visit, form, forms, events, clicked>>

Answer(r) == Succeed(r) \/ Fail(r) \/ GiveUp(r)

Next ==
    \/ \E v \in Lists : Poll(v) \/ Read(v) \/ Arrive(v) \/ FailFetch(v)
    \/ Broadcast
    \/ User
    \/ \E r \in requests : Perform(r) \/ Refuse(r) \/ Answer(r)
    \/ \E rec \in Records : \E to \in Statuses(rec) : OtherUser(rec, to)

\* Timers and the database's answers keep coming, and a request ends with its timeout.
Fairness ==
    /\ \A v \in Lists : WF_vars(Poll(v)) /\ WF_vars(Read(v)) /\ WF_vars(Arrive(v))
    /\ WF_vars(\E r \in requests : Answer(r))

Spec == Init /\ [][Next]_vars /\ Fairness

(***************************************************************************)
(* Properties.                                                             *)
(***************************************************************************)
\* Tables, lists, forms and requests keep their types; what is asked for is a status of
\* the record.
TypeOK ==
    /\ plan \in Plans
    /\ status \in [Records -> Status \cup {"absent"}] /\ version \in Nat
    /\ resolvedAt \in [Alerts -> Nat]
    /\ cache \in [Lists -> Query(Snapshots)]
    /\ view \in Lists \ {"badge"} /\ visit \in 1..(MaxEvents + 1)
    /\ pendingBusId \in Buses \cup {NoRecord}
    /\ form \in 0..MaxEvents /\ forms \in 0..MaxEvents
    /\ requests \in SUBSET Request /\ events \in 0..MaxEvents
    /\ \A r \in requests : r.to \in Statuses(r.record)
    /\ clicked \in [Records -> Status \cup {NoClick}] /\ excused \in SUBSET Records

\* When the API is done with a record, it has the status the user last asked for: the
\* buttons that could overtake that click were disabled.  Excepted are a refusal, a
\* write of another user, a lost answer, a page left while its button was pending, both
\* buttons of one alert, and two buses at a time.
LastClickStands ==
    \A rec \in Records \ excused :
        clicked[rec] # NoClick /\ OfButton(rec) \cap Sent = {} => status[rec] = clicked[rec]

\* The button of a bus stays disabled only as long as its own click is pending, however
\* its answer and those of other buses interleave (BusesPage, pendingBusId).
DisabledMeansPending ==
    pendingBusId # NoRecord => \E r \in Here(Buses) : r.record = pendingBusId

\* A resolved alert becomes acknowledged again only by a button pressed on a list from
\* before it was resolved: alerts.py checks nothing, the page shows no such button.
ReopenedByStaleClick ==
    [][\A r \in requests : Perform(r) /\ r.to = "ACKNOWLEDGED" /\ status[r.record] = "RESOLVED"
          => r.seen < resolvedAt[r.record]]_vars

\* Once the broadcasts that restart their requests cease, the list on screen and the
\* badge end up with what the database holds, although no broadcast tells of buses and
\* warehouses and invalidations may be overtaken: both poll.
ScreenCatchesUp ==
    <>[][~Broadcast]_vars
        => <>[](\A v \in Polling : cache[v].data # NoData /\ cache[v].data.at = version)
=============================================================================
