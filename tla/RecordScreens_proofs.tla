------------------------- MODULE RecordScreens_proofs -------------------------
(***************************************************************************)
(* The pages with buttons in their rows, for every number of records and    *)
(* events.  Clicks is the inductive invariant.  Calm is about the records    *)
(* that no other write can reach: what is on its way to one of them is what  *)
(* was last asked for, and the page that asked still waits for it, so that   *)
(* its button is disabled (Single, for the one marker of BusesPage).  Dated  *)
(* relates what a list shows of an alert to when the alert was resolved.     *)
(***************************************************************************)
EXTENDS RecordScreens, TLAPS

\* Pages and forms are counted, and no event is left out.
Counted ==
    /\ visit <= events + 1 /\ forms <= events /\ form <= forms
    /\ events <= plan.events
    /\ \A r \in requests : r.visit <= visit

\* An alert is not open once it was resolved, and nobody asks for it to be open.
Resolved ==
    /\ \A a \in Alerts : resolvedAt[a] <= version
    /\ \A a \in Alerts : status[a] \in {"OPEN", "absent"} => resolvedAt[a] = 0
    /\ \A a \in Alerts : status[a] = "RESOLVED" => resolvedAt[a] # 0
    /\ \A r \in requests : r.record \in Alerts => r.to # "OPEN" /\ r.form = 0

\* A list that shows an alert as open was read before the alert was resolved.
Dates(s) ==
    s # NoData => /\ s.at <= version
                  /\ \A a \in Alerts : s.status[a] = "OPEN" => resolvedAt[a] = 0 \/ resolvedAt[a] > s.at
Dated ==
    /\ Resolved
    /\ \A v \in Lists : Dates(cache[v].data) /\ Dates(cache[v].got)
    /\ \A r \in requests :
          /\ r.seen <= version
          /\ r.record \in Alerts => resolvedAt[r.record] = 0 \/ resolvedAt[r.record] > r.seen

\* What is under way to a record that is not excused.
Calm ==
    \A r \in requests : r.form = 0 /\ r.state = "sent" /\ r.record \notin excused =>
        r.waiting /\ r.visit = visit /\ r.to = clicked[r.record]

\* If BusesPage waits for a bus that is not excused, it waits for nothing else.
Single ==
    \A r \in Here(Buses) : r.record \notin excused =>
        pendingBusId = r.record /\ \A q \in Here(Buses) : q = r

Clicks == TypeOK /\ Counted /\ Dated /\ Calm /\ Single /\ DisabledMeansPending /\ LastClickStands

-----------------------------------------------------------------------------
(* Records *)

\* The statuses of a record, and what the toggles ask for.
LEMMA StatusTypes ==
    ASSUME NEW rec \in Records
    PROVE  /\ Statuses(rec) \subseteq Status
           /\ rec \in Alerts => Statuses(rec) = {"OPEN", "ACKNOWLEDGED", "RESOLVED"}
           /\ rec \in Buses => Statuses(rec) = {"ACTIVE", "MAINTENANCE", "OUT_OF_SERVICE"}
           /\ rec \in Warehouses => Statuses(rec) = {"active", "inactive"}
BY RecordScreensConstants DEF Statuses, Status, Records

LEMMA NeverAbsent == "absent" \notin Status
BY DEF Status, Statuses

LEMMA ToggleTypes ==
    /\ \A rec \in Buses : \A s \in {"ACTIVE", "MAINTENANCE"} : Toggled(s) \in Statuses(rec)
    /\ \A rec \in Warehouses : \A s \in {"active", "inactive"} : Toggled(s) \in Statuses(rec)
BY StatusTypes DEF Toggled, Records

-----------------------------------------------------------------------------
(* Lists *)

\* The answer the database gives now.
Current == [at |-> version, status |-> status]

LEMMA CurrentType ==
    ASSUME TypeOK
    PROVE  Current \in Snapshots
BY DEF TypeOK, Current, Snapshots

\* An entry keeps what it holds, forgets it, or takes what the database holds.
Follows(p, q) ==
    /\ p \in Query(Snapshots)
    /\ {p.data, p.got} \subseteq {q.data, q.got, NoData, Current}

LEMMA QueryFollows ==
    ASSUME TypeOK, NEW q \in Query(Snapshots), NEW b \in BOOLEAN
    PROVE  /\ Follows(q, q) /\ Follows(Polled(q), q) /\ Follows(Answered(q, Current), q)
           /\ Follows(Arrived(q), q) /\ Follows(Failed(q), q) /\ Follows(Invalidated(q, b), q)
           /\ Follows(Mounted(q), q) /\ Follows(Mounted(Aged(q)), q)
BY CurrentType DEF Follows, Query, Ask, Polled, Mounted, Invalidated, Answered, Arrived, Failed, Aged

ListsFollow == /\ cache' \in [Lists -> Query(Snapshots)]
               /\ \A v \in Lists : Follows(cache'[v], cache[v])

LEMMA EntryFollows ==
    ASSUME TypeOK, NEW v \in Lists, NEW p, Follows(p, cache[v]), cache' = [cache EXCEPT ![v] = p]
    PROVE  ListsFollow
<1>1. \A w \in Lists : Follows(cache[w], cache[w])
  BY QueryFollows DEF TypeOK
<1>2. p \in Query(Snapshots)
  BY DEF Follows
<1>3. QED
  BY <1>1, <1>2 DEF ListsFollow, TypeOK

LEMMA KeptFollow ==
    ASSUME TypeOK, UNCHANGED cache
    PROVE  ListsFollow
BY QueryFollows DEF ListsFollow, TypeOK

LEMMA InvalidateFollows ==
    ASSUME TypeOK, NEW S, Invalidate(S)
    PROVE  ListsFollow
<1>1. ASSUME NEW v \in Lists
      PROVE  Follows(IF v \in S THEN Invalidated(cache[v], v \in OnScreen) ELSE cache[v], cache[v])
  <2>1. cache[v] \in Query(Snapshots)
    BY DEF TypeOK
  <2>2. \A b \in BOOLEAN : Follows(Invalidated(cache[v], b), cache[v])
    BY <2>1, QueryFollows
  <2>3. (v \in OnScreen) \in BOOLEAN
    OBVIOUS
  <2>4. Follows(Invalidated(cache[v], v \in OnScreen), cache[v])
    BY <2>2, <2>3
  <2>5. QED
    BY <2>1, <2>4, QueryFollows
<1>2. \A v \in Lists : cache'[v] = IF v \in S THEN Invalidated(cache[v], v \in OnScreen) ELSE cache[v]
  BY DEF Invalidate
<1>3. \A v \in Lists : Follows(cache'[v], cache[v])
  BY <1>1, <1>2
<1>4. \A v \in Lists : cache'[v] \in Query(Snapshots)
  BY <1>3 DEF Follows
<1>5. cache' = [v \in Lists |-> cache'[v]]
  BY DEF Invalidate
<1>6. QED
  BY <1>3, <1>4, <1>5 DEF ListsFollow

\* No step puts anything else into a list.
LEMMA NextLists ==
    ASSUME TypeOK, [Next]_vars
    PROVE  ListsFollow
<1>1. ASSUME NEW v \in Lists, Poll(v) \/ Read(v) \/ Arrive(v) \/ FailFetch(v) PROVE ListsFollow
  <2>1. PICK p \in {Polled(cache[v]), Answered(cache[v], Current), Arrived(cache[v]), Failed(cache[v])} :
          cache' = [cache EXCEPT ![v] = p]
    BY <1>1 DEF Poll, Read, Arrive, FailFetch, Current
  <2>2. Follows(p, cache[v])
    BY <2>1, QueryFollows DEF TypeOK
  <2>3. QED
    BY <2>1, <2>2, EntryFollows
<1>2. CASE Broadcast
  BY <1>2, InvalidateFollows DEF Broadcast
<1>3. ASSUME NEW v \in Lists, FilterChips(v) \/ Navigate(v) PROVE ListsFollow
  <2>1. PICK p \in {Mounted(cache[v]), Mounted(Aged(cache[v]))} : cache' = [cache EXCEPT ![v] = p]
    BY <1>3 DEF FilterChips, Navigate, Show
  <2>2. Follows(p, cache[v])
    BY <2>1, QueryFollows DEF TypeOK
  <2>3. QED
    BY <2>1, <2>2, EntryFollows
<1>4. CASE OpenForm
  <2>1. CASE page = "buses"
    <3>1. "warehouses" \in Lists
      BY DEF Lists
    <3>2. PICK p \in {Mounted(cache["warehouses"]), Mounted(Aged(cache["warehouses"]))} :
             cache' = [cache EXCEPT !["warehouses"] = p]
      BY <1>4, <2>1 DEF OpenForm
    <3>3. Follows(p, cache["warehouses"])
      BY <3>1, <3>2, QueryFollows DEF TypeOK
    <3>4. QED
      BY <3>1, <3>2, <3>3, EntryFollows
  <2>2. CASE page # "buses"
    BY <1>4, <2>2, KeptFollow DEF OpenForm
  <2>3. QED
    BY <2>1, <2>2
<1>5. ASSUME NEW r \in requests, Perform(r) \/ Refuse(r) \/ Answer(r) PROVE ListsFollow
  BY <1>5, InvalidateFollows, KeptFollow DEF Perform, Refuse, Answer, Succeed, Fail, GiveUp
<1>6. ASSUME NEW rec \in Records, NEW to, OtherUser(rec, to) PROVE ListsFollow
  BY <1>6, KeptFollow DEF OtherUser
<1>7. ASSUME (\E a \in Alerts : AlertButton(a, "ACKNOWLEDGED") \/ AlertButton(a, "RESOLVED"))
             \/ (\E b \in Buses : BusButton(b) \/ CreateBusModal(b))
             \/ (\E w \in Warehouses : WarehouseButton(w) \/ CreateWarehouseModal(w)) \/ CloseForm
      PROVE  ListsFollow
  BY <1>7, KeptFollow DEF AlertButton, BusButton, WarehouseButton, Click, CreateBusModal,
     CreateWarehouseModal, Create, CloseForm
<1>8. CASE UNCHANGED vars
  BY <1>8, KeptFollow DEF vars
<1>9. QED
  BY <1>1, <1>2, <1>3, <1>4, <1>5, <1>6, <1>7, <1>8 DEF Next, User

-----------------------------------------------------------------------------
(* Types *)

\* What a step leaves alone keeps its type.
LEMMA KeptTypes ==
    ASSUME TypeOK, UNCHANGED <<plan, db, screen, requests, events, clicks>>, ListsFollow
    PROVE  TypeOK'
BY DEF TypeOK, db, screen, clicks, ListsFollow, Records, Status

LEMMA EventTypes ==
    ASSUME TypeOK, Counted, Event
    PROVE  events + 1 \in 1..MaxEvents /\ events' \in 0..MaxEvents
<1>1. plan \in Plan
  BY RecordScreensConstants DEF TypeOK
<1>2. plan.events \in 0..MaxEvents /\ MaxEvents \in Nat
  BY <1>1, RecordScreensConstants DEF Plan
<1>3. QED
  BY <1>2 DEF Event, TypeOK

LEMMA NewRequestTypes ==
    ASSUME TypeOK, Counted, Event, NEW rec \in Records, NEW to \in Statuses(rec), NEW n \in 0..MaxEvents,
           NEW seen \in Nat
    PROVE  NewRequest(rec, to, n, seen) \in Request /\ NewRequest(rec, to, n, seen).to \in Statuses(rec)
BY EventTypes, StatusTypes DEF NewRequest, Request, TypeOK

\* Forms and mounts stay below what bounds the events.
LEMMA CountTypes ==
    ASSUME TypeOK, Counted, Event
    PROVE  forms + 1 \in 0..MaxEvents /\ visit + 1 \in 1..(MaxEvents + 1)
<1>1. events + 1 \in 1..MaxEvents /\ events \in Int /\ MaxEvents \in Int
  BY EventTypes, RecordScreensConstants DEF TypeOK
<1>2. forms \in Nat /\ visit \in Nat /\ visit >= 1 /\ forms <= events /\ visit <= events + 1
  BY RecordScreensConstants DEF TypeOK, Counted
<1>3. QED
  BY <1>1, <1>2

\* What the list on screen says of a row.
LEMMA RowTypes ==
    ASSUME TypeOK, NEW rec \in Records, NEW statuses, Row(rec, statuses)
    PROVE  cache[view].data \in Snapshots /\ cache[view].data.at \in Nat
BY DEF TypeOK, Row, Query, Snapshots

\* A click.
LEMMA ClickTypes ==
    ASSUME TypeOK, Counted, NEW rec \in Records, NEW to \in Statuses(rec), NEW others \in SUBSET Records,
           Click(rec, to, others), cache[view].data.at \in Nat, pendingBusId' \in Buses \cup {NoRecord}
    PROVE  TypeOK'
<1>1. PICK r : r = NewRequest(rec, to, 0, cache[view].data.at)
  OBVIOUS
<1>2. r \in Request /\ r.to \in Statuses(r.record)
  <2>1. Event /\ 0 \in 0..MaxEvents
    BY RecordScreensConstants DEF Click
  <2>2. r.record = rec
    BY <1>1 DEF NewRequest
  <2>3. QED
    BY <1>1, <2>1, <2>2, NewRequestTypes
<1>3. requests' = requests \cup {r} /\ to \in Status
  BY <1>1, StatusTypes DEF Click
<1>4. events' \in 0..MaxEvents
  BY EventTypes DEF Click
<1>5. requests' \in SUBSET Request /\ \A q \in requests' : q.to \in Statuses(q.record)
  BY <1>2, <1>3 DEF TypeOK
<1>6. clicked' \in [Records -> Status \cup {NoClick}] /\ excused' \in SUBSET Records
  BY <1>3 DEF Click, TypeOK
<1>7. UNCHANGED <<plan, status, version, resolvedAt, cache, view, visit, form, forms>>
  BY DEF Click, db
<1>8. QED
  BY <1>4, <1>5, <1>6, <1>7 DEF TypeOK, Statuses

LEMMA ButtonTypes ==
    ASSUME TypeOK, Counted,
           (\E a \in Alerts : AlertButton(a, "ACKNOWLEDGED") \/ AlertButton(a, "RESOLVED"))
           \/ (\E b \in Buses : BusButton(b)) \/ (\E w \in Warehouses : WarehouseButton(w))
    PROVE  TypeOK'
<1>1. ASSUME NEW a \in Alerts, NEW to \in {"ACKNOWLEDGED", "RESOLVED"}, AlertButton(a, to) PROVE TypeOK'
  <2>1. a \in Records /\ to \in Statuses(a)
    BY StatusTypes DEF Records
  <2>2. cache[view].data.at \in Nat /\ pendingBusId' \in Buses \cup {NoRecord}
    BY <1>1, <2>1, RowTypes DEF AlertButton, TypeOK
  <2>3. QED
    BY <1>1, <2>1, <2>2, ClickTypes DEF AlertButton
<1>2. ASSUME NEW b \in Buses, BusButton(b) PROVE TypeOK'
  <2>1. b \in Records /\ Toggled(cache[view].data.status[b]) \in Statuses(b)
    BY <1>2, ToggleTypes DEF Records, BusButton, Row
  <2>2. cache[view].data.at \in Nat /\ pendingBusId' \in Buses \cup {NoRecord}
    BY <1>2, <2>1, RowTypes DEF BusButton
  <2>3. PICK others \in SUBSET Records : Click(b, Toggled(cache[view].data.status[b]), others)
    <3>1. {r.record : r \in Here(Buses)} \subseteq Records
      BY DEF Here, Waiting, TypeOK, Request
    <3>2. QED
      BY <1>2, <2>1, <3>1 DEF BusButton
  <2>4. QED
    BY <2>1, <2>2, <2>3, ClickTypes
<1>3. ASSUME NEW w \in Warehouses, WarehouseButton(w) PROVE TypeOK'
  <2>1. w \in Records /\ Toggled(cache[view].data.status[w]) \in Statuses(w)
    BY <1>3, ToggleTypes DEF Records, WarehouseButton, Row
  <2>2. cache[view].data.at \in Nat /\ pendingBusId' \in Buses \cup {NoRecord}
    BY <1>3, <2>1, RowTypes DEF WarehouseButton, TypeOK
  <2>3. QED
    BY <1>3, <2>1, <2>2, ClickTypes DEF WarehouseButton
<1>4. QED
  BY <1>1, <1>2, <1>3

LEMMA FormTypes ==
    ASSUME TypeOK, Counted, ListsFollow,
           OpenForm \/ CloseForm \/ (\E b \in Buses : CreateBusModal(b))
           \/ (\E w \in Warehouses : CreateWarehouseModal(w))
    PROVE  TypeOK'
<1>1. CASE OpenForm
  <2>1. forms + 1 \in 0..MaxEvents /\ events' \in 0..MaxEvents
    BY <1>1, EventTypes, CountTypes DEF OpenForm
  <2>2. QED
    BY <1>1, <2>1 DEF OpenForm, OnlyForm, TypeOK, db, clicks, ListsFollow
<1>2. CASE CloseForm
  BY <1>2, RecordScreensConstants DEF CloseForm, OnlyForm, TypeOK, db, clicks
<1>3. ASSUME NEW rec \in Records, NEW to \in Statuses(rec), Create(rec, to) PROVE TypeOK'
  <2>1. PICK r : r = NewRequest(rec, to, form, 0)
    OBVIOUS
  <2>2. r \in Request /\ r.to \in Statuses(r.record)
    <3>1. r.record = rec
      BY <2>1 DEF NewRequest
    <3>2. QED
      BY <1>3, <2>1, <3>1, NewRequestTypes DEF Create, TypeOK
  <2>3. requests' = requests \cup {r} /\ events' \in 0..MaxEvents
    BY <1>3, <2>1, EventTypes DEF Create
  <2>4. requests' \in SUBSET Request /\ \A q \in requests' : q.to \in Statuses(q.record)
    BY <2>2, <2>3 DEF TypeOK
  <2>5. QED
    BY <1>3, <2>3, <2>4 DEF Create, OnlyForm, TypeOK, db, clicks, Statuses
<1>4. QED
  BY <1>1, <1>2, <1>3, StatusTypes DEF CreateBusModal, CreateWarehouseModal, Records

LEMMA ShowTypes ==
    ASSUME TypeOK, Counted, ListsFollow, NEW v \in Lists, FilterChips(v) \/ Navigate(v)
    PROVE  TypeOK'
<1>1. view' \in Lists \ {"badge"} /\ events' \in 0..MaxEvents /\ visit + 1 \in 1..(MaxEvents + 1)
  BY EventTypes, CountTypes DEF FilterChips, Navigate, Show
<1>2. {r.record : r \in Here(Records) \cap Sent} \subseteq Records
  BY DEF Here, Waiting, TypeOK, Request
<1>3. CASE FilterChips(v)
  BY <1>1, <1>3 DEF FilterChips, Show, TypeOK, db, clicks, ListsFollow, Statuses
<1>4. CASE Navigate(v)
  BY <1>1, <1>2, <1>4, RecordScreensConstants DEF Navigate, Show, TypeOK, db, ListsFollow, Statuses
<1>5. QED
  BY <1>3, <1>4

LEMMA WriteTypes ==
    ASSUME TypeOK, NEW rec \in Records, NEW to \in Statuses(rec), Write(rec, to)
    PROVE  /\ status' \in [Records -> Status \cup {"absent"}] /\ version' \in Nat
           /\ resolvedAt' \in [Alerts -> Nat]
<1>1. to \in Status
  BY StatusTypes
<1>2. status' \in [Records -> Status \cup {"absent"}]
  BY <1>1 DEF Write, TypeOK
<1>3. version + 1 \in Nat /\ version' = version + 1
  BY DEF Write, TypeOK
<1>4. resolvedAt' \in [Alerts -> Nat]
  BY <1>3 DEF Write, TypeOK
<1>5. QED
  BY <1>2, <1>3, <1>4

\* A request changes its state, or is forgotten.
LEMMA RequestTypes ==
    ASSUME TypeOK, NEW r \in requests, NEW to \in {"done", "refused"},
           requests' \subseteq requests \cup {[r EXCEPT !.state = to], [r EXCEPT !.waiting = FALSE]}
    PROVE  requests' \in SUBSET Request /\ \A q \in requests' : q.to \in Statuses(q.record)
<1>1. r \in Request /\ r.to \in Statuses(r.record)
  BY DEF TypeOK
<1>2. PICK p : p = [r EXCEPT !.state = to]
  OBVIOUS
<1>3. PICK p1 : p1 = [r EXCEPT !.waiting = FALSE]
  OBVIOUS
<1>4. p \in Request /\ p.to = r.to /\ p.record = r.record
  BY <1>1, <1>2 DEF Request
<1>5. p1 \in Request /\ p1.to = r.to /\ p1.record = r.record
  BY <1>1, <1>3 DEF Request
<1>6. requests' \subseteq requests \cup {p, p1}
  BY <1>2, <1>3
<1>7. QED
  BY <1>1, <1>4, <1>5, <1>6 DEF TypeOK

LEMMA ServerTypes ==
    ASSUME TypeOK, NEW r \in requests, Perform(r) \/ Refuse(r)
    PROVE  TypeOK'
<1>1. requests' \in SUBSET Request /\ \A q \in requests' : q.to \in Statuses(q.record)
  BY RequestTypes DEF Perform, Refuse, Update
<1>2. r.record \in Records /\ r.to \in Statuses(r.record)
  BY DEF TypeOK, Request
<1>3. CASE Perform(r)
  BY <1>1, <1>2, <1>3, WriteTypes DEF Perform, TypeOK, screen, clicks, Statuses
<1>4. CASE Refuse(r)
  BY <1>1, <1>2, <1>4 DEF Refuse, TypeOK, screen, db, Statuses
<1>5. QED
  BY <1>3, <1>4

LEMMA OtherUserTypes ==
    ASSUME TypeOK, Counted, NEW rec \in Records, NEW to \in Statuses(rec), OtherUser(rec, to)
    PROVE  TypeOK'
<1>1. events' \in 0..MaxEvents
  BY EventTypes DEF OtherUser
<1>2. Write(rec, to)
  BY DEF OtherUser
<1>3. QED
  BY <1>1, <1>2, WriteTypes DEF OtherUser, TypeOK, screen, Statuses

LEMMA AnswerTypes ==
    ASSUME TypeOK, ListsFollow, NEW r \in requests, Answer(r)
    PROVE  TypeOK'
<1>1. requests' \in SUBSET Request /\ \A q \in requests' : q.to \in Statuses(q.record)
  <2>1. requests' \subseteq requests \cup {[r EXCEPT !.state = "done"], [r EXCEPT !.waiting = FALSE]}
    BY DEF Answer, Succeed, Fail, GiveUp
  <2>2. QED
    BY <2>1, RequestTypes
<1>2. r.record \in Records /\ pendingBusId' \in Buses \cup {NoRecord}
  BY DEF Answer, Succeed, Fail, GiveUp, BusFailed, BusAnswered, TypeOK, Request
<1>3. form' \in 0..MaxEvents
  BY RecordScreensConstants DEF Answer, Succeed, Fail, GiveUp, TypeOK
<1>4. UNCHANGED <<plan, status, version, resolvedAt, view, visit, forms, events, clicked>>
  BY DEF Answer, Succeed, Fail, GiveUp, db, clicks
<1>5. excused' \in SUBSET Records
  BY <1>2 DEF Answer, Succeed, Fail, GiveUp, clicks, TypeOK
<1>6. QED
  BY <1>1, <1>2, <1>3, <1>4, <1>5 DEF TypeOK, ListsFollow, Statuses

LEMMA NextTypes ==
    ASSUME TypeOK, Counted, [Next]_vars
    PROVE  TypeOK'
<1>1. ListsFollow
  BY NextLists
<1>2. ASSUME NEW v \in Lists, Poll(v) \/ Read(v) \/ Arrive(v) PROVE TypeOK'
  BY <1>1, <1>2, KeptTypes DEF Poll, Read, Arrive, OnlyLists
<1>3. ASSUME NEW v \in Lists, FailFetch(v) PROVE TypeOK'
  <2>1. events' \in 0..MaxEvents
    BY <1>3, EventTypes DEF FailFetch
  <2>2. QED
    BY <1>1, <1>3, <2>1 DEF FailFetch, OnlyLists, TypeOK, db, screen, clicks, ListsFollow, Statuses
<1>4. CASE Broadcast
  BY <1>1, <1>4, KeptTypes DEF Broadcast, OnlyLists
<1>5. CASE User
  BY <1>1, <1>5, ButtonTypes, FormTypes, ShowTypes DEF User
<1>6. ASSUME NEW r \in requests, Perform(r) \/ Refuse(r) \/ Answer(r) PROVE TypeOK'
  BY <1>1, <1>6, ServerTypes, AnswerTypes
<1>7. ASSUME NEW rec \in Records, NEW to \in Statuses(rec), OtherUser(rec, to) PROVE TypeOK'
  BY <1>7, OtherUserTypes
<1>8. CASE UNCHANGED vars
  BY <1>1, <1>8, KeptTypes DEF vars
<1>9. QED
  BY <1>2, <1>3, <1>4, <1>5, <1>6, <1>7, <1>8 DEF Next

-----------------------------------------------------------------------------
(* Steps *)

\* Steps that concern neither records, nor buttons, nor requests.
Quiet == UNCHANGED <<db, visit, pendingBusId, requests, clicks>>
Button(rec, to) ==
    \/ rec \in Alerts /\ to \in {"ACKNOWLEDGED", "RESOLVED"} /\ AlertButton(rec, to)
    \/ rec \in Buses /\ to = Toggled(cache[view].data.status[rec]) /\ BusButton(rec)
    \/ rec \in Warehouses /\ to = Toggled(cache[view].data.status[rec]) /\ WarehouseButton(rec)
Confirm(rec, to) == rec \in Buses \cup Warehouses /\ Create(rec, to)

LEMMA Kinds ==
    ASSUME [Next]_vars
    PROVE  \/ Quiet
           \/ \E rec \in Records : \E to : Button(rec, to)
           \/ \E rec \in Records : \E to \in Statuses(rec) : Confirm(rec, to)
           \/ \E v \in Lists : Navigate(v)
           \/ \E r \in requests : Perform(r) \/ Refuse(r) \/ Answer(r)
           \/ \E rec \in Records : \E to \in Statuses(rec) : OtherUser(rec, to)
<1>1. ASSUME (\E v \in Lists : Poll(v) \/ Read(v) \/ Arrive(v) \/ FailFetch(v)) \/ Broadcast
      PROVE  Quiet
  BY <1>1 DEF Poll, Read, Arrive, FailFetch, Broadcast, OnlyLists, Quiet, screen
<1>2. ASSUME OpenForm \/ CloseForm \/ (\E v \in Lists : FilterChips(v)) PROVE Quiet
  BY <1>2 DEF OpenForm, CloseForm, OnlyForm, FilterChips, Show, Quiet
<1>3. CASE UNCHANGED vars
  BY <1>3 DEF vars, Quiet, screen
<1>4. ASSUME NEW a \in Alerts, NEW to \in {"ACKNOWLEDGED", "RESOLVED"}, AlertButton(a, to)
      PROVE  a \in Records /\ Button(a, to)
  BY <1>4 DEF Button, Records
<1>5. ASSUME NEW b \in Buses, BusButton(b)
      PROVE  b \in Records /\ Button(b, Toggled(cache[view].data.status[b]))
  BY <1>5 DEF Button, Records
<1>6. ASSUME NEW w \in Warehouses, WarehouseButton(w)
      PROVE  w \in Records /\ Button(w, Toggled(cache[view].data.status[w]))
  BY <1>6 DEF Button, Records
<1>7. ASSUME NEW b \in Buses, CreateBusModal(b)
      PROVE  \E rec \in Records : \E to \in Statuses(rec) : Confirm(rec, to)
  BY <1>7 DEF CreateBusModal, Confirm, Records
<1>8. ASSUME NEW w \in Warehouses, CreateWarehouseModal(w)
      PROVE  \E rec \in Records : \E to \in Statuses(rec) : Confirm(rec, to)
  BY <1>8, StatusTypes DEF CreateWarehouseModal, Confirm, Records
<1>9. QED
  BY <1>1, <1>2, <1>3, <1>4, <1>5, <1>6, <1>7, <1>8 DEF Next, User

\* A button of a row is pressed by a click.
LEMMA ButtonClicks ==
    ASSUME NEW rec \in Records, NEW to, Button(rec, to)
    PROVE  \E others : Click(rec, to, others)
BY DEF Button, AlertButton, BusButton, WarehouseButton

-----------------------------------------------------------------------------
(* Counts *)

\* The requests a step leaves were there before, or are those of a button just pressed.
Like(q, p) == q.visit = p.visit /\ q.form = p.form /\ q.record = p.record /\ q.to = p.to /\ q.seen = p.seen

LEMMA NextRequests ==
    ASSUME TypeOK, [Next]_vars, NEW q \in requests'
    PROVE  \/ \E p \in requests : Like(q, p)
           \/ \E rec \in Records : \E to :
                 Button(rec, to) /\ q = NewRequest(rec, to, 0, cache[view].data.at)
           \/ \E rec \in Records : \E to \in Statuses(rec) :
                 Confirm(rec, to) /\ q = NewRequest(rec, to, form, 0)
<1>1. \A p \in requests : Like(p, p)
  BY DEF Like
<1>2. CASE UNCHANGED requests
  BY <1>1, <1>2
<1>3. ASSUME NEW rec \in Records, NEW to, Button(rec, to)
      PROVE  requests' = requests \cup {NewRequest(rec, to, 0, cache[view].data.at)}
  BY <1>3, ButtonClicks DEF Click
<1>4. ASSUME NEW rec \in Records, NEW to, Confirm(rec, to)
      PROVE  requests' = requests \cup {NewRequest(rec, to, form, 0)}
  BY <1>4 DEF Confirm, Create
<1>5. ASSUME NEW r \in requests, Perform(r) \/ Refuse(r) \/ Answer(r)
      PROVE  \E p \in requests : Like(q, p)
  <2>1. requests' \subseteq requests \cup {[r EXCEPT !.state = "done"], [r EXCEPT !.state = "refused"],
                                           [r EXCEPT !.waiting = FALSE]}
    BY <1>5 DEF Perform, Refuse, Answer, Succeed, Fail, GiveUp, Update
  <2>2. q \in requests \/ Like(q, r)
    BY <2>1 DEF TypeOK, Request, Like
  <2>3. QED
    BY <1>1, <2>2
<1>6. ASSUME Quiet \/ (\E v \in Lists : Navigate(v))
             \/ (\E rec \in Records : \E to \in Statuses(rec) : OtherUser(rec, to))
      PROVE  UNCHANGED requests
  BY <1>6 DEF Quiet, Navigate, Show, OtherUser
<1>7. QED
  BY <1>1, <1>2, <1>3, <1>4, <1>5, <1>6, Kinds

LEMMA NextCounted ==
    ASSUME TypeOK, Counted, [Next]_vars
    PROVE  Counted'
<1>1. /\ events \in Nat /\ visit \in Nat /\ forms \in Nat /\ form \in Nat /\ plan.events \in Nat
      /\ \A r \in requests : r.visit \in Nat
  BY RecordScreensConstants DEF TypeOK, Plan, Request
<1>2. plan' = plan
  BY DEF Next, Poll, Read, Arrive, FailFetch, Broadcast, OnlyLists, User, OpenForm, CloseForm, OnlyForm,
     FilterChips, Navigate, Show, AlertButton, BusButton, WarehouseButton, Click, CreateBusModal,
     CreateWarehouseModal, Create, Perform, Refuse, OtherUser, Answer, Succeed, Fail, GiveUp, vars
<1>3. events' = events \/ Event
  BY DEF Next, Poll, Read, Arrive, FailFetch, Broadcast, OnlyLists, User, OpenForm, CloseForm, OnlyForm,
     FilterChips, Navigate, Show, AlertButton, BusButton, WarehouseButton, Click, CreateBusModal,
     CreateWarehouseModal, Create, Perform, Refuse, OtherUser, Answer, Succeed, Fail, GiveUp, vars
<1>4. visit' = visit \/ (visit' = visit + 1 /\ Event)
  BY DEF Next, Poll, Read, Arrive, FailFetch, Broadcast, OnlyLists, User, OpenForm, CloseForm, OnlyForm,
     FilterChips, Navigate, Show, AlertButton, BusButton, WarehouseButton, Click, CreateBusModal,
     CreateWarehouseModal, Create, Perform, Refuse, OtherUser, Answer, Succeed, Fail, GiveUp, vars, screen
<1>5. \/ forms' = forms /\ form' \in {form, 0}
      \/ Event /\ forms' = forms + 1 /\ form' = forms + 1
  BY DEF Next, Poll, Read, Arrive, FailFetch, Broadcast, OnlyLists, User, OpenForm, CloseForm, OnlyForm,
     FilterChips, Navigate, Show, AlertButton, BusButton, WarehouseButton, Click, CreateBusModal,
     CreateWarehouseModal, Create, Perform, Refuse, OtherUser, Answer, Succeed, Fail, GiveUp, vars, screen
<1>6. events <= events' /\ events' <= plan.events /\ (Event => events' = events + 1)
  BY <1>1, <1>3 DEF Event, Counted
<1>7. visit' <= events' + 1 /\ visit <= visit'
  BY <1>1, <1>4, <1>6, NextTypes DEF Counted, TypeOK
<1>8. forms' <= events' /\ form' <= forms'
  BY <1>1, <1>5, <1>6, NextTypes DEF Counted, TypeOK
<1>9. \A q \in requests' : q.visit <= visit'
  <2>1. ASSUME NEW q \in requests' PROVE q.visit = visit \/ \E p \in requests : q.visit = p.visit
    BY NextRequests DEF Like, NewRequest
  <2>2. QED
    BY <1>1, <1>7, <2>1, NextTypes DEF Counted, TypeOK
<1>10. QED
  BY <1>2, <1>6, <1>7, <1>8, <1>9 DEF Counted

-----------------------------------------------------------------------------
(* Dates *)

\* A step leaves the records alone, or writes one of them with what somebody asked for.
LEMMA NextWrites ==
    ASSUME TypeOK, [Next]_vars
    PROVE  \/ UNCHANGED db
           \/ \E r \in requests : Write(r.record, r.to)
           \/ \E rec \in Records : \E to \in Statuses(rec) :
                 Write(rec, to) /\ (to = "OPEN" => status[rec] = "absent")
<1>1. ASSUME NEW rec \in Records, NEW to, Button(rec, to) \/ Confirm(rec, to) PROVE UNCHANGED db
  BY <1>1, ButtonClicks DEF Confirm, Create, OnlyForm, Click
<1>2. ASSUME Quiet \/ (\E v \in Lists : Navigate(v)) PROVE UNCHANGED db
  BY <1>2 DEF Quiet, Navigate, Show
<1>3. ASSUME NEW r \in requests, Perform(r) \/ Refuse(r) \/ Answer(r)
      PROVE  Write(r.record, r.to) \/ UNCHANGED db
  BY <1>3 DEF Perform, Refuse, Answer, Succeed, Fail, GiveUp
<1>4. ASSUME NEW rec \in Records, NEW to \in Statuses(rec), OtherUser(rec, to)
      PROVE  Write(rec, to) /\ (to = "OPEN" => status[rec] = "absent")
  BY <1>4 DEF OtherUser
<1>5. QED
  BY <1>1, <1>2, <1>3, <1>4, Kinds

LEMMA WriteResolved ==
    ASSUME TypeOK, Dated, NEW rec \in Records, NEW to \in Statuses(rec), Write(rec, to),
           rec \in Alerts /\ to = "OPEN" => status[rec] = "absent"
    PROVE  /\ \A a \in Alerts : resolvedAt'[a] = resolvedAt[a]
                                \/ (resolvedAt[a] = 0 /\ resolvedAt'[a] = version + 1)
           /\ version' = version + 1
           /\ \A a \in Alerts : status'[a] \in {"OPEN", "absent"} => resolvedAt'[a] = 0
           /\ \A a \in Alerts : status'[a] = "RESOLVED" => resolvedAt'[a] # 0
<1>1. to # "absent" /\ version \in Nat
  BY StatusTypes, NeverAbsent DEF TypeOK
<1>2. ASSUME NEW a \in Alerts, a # rec
      PROVE  resolvedAt'[a] = resolvedAt[a] /\ status'[a] = status[a]
  BY <1>2 DEF Write, TypeOK, Records
<1>3. ASSUME rec \in Alerts
      PROVE  /\ status'[rec] = to
             /\ resolvedAt'[rec] = IF to = "RESOLVED" /\ resolvedAt[rec] = 0
                                   THEN version + 1 ELSE resolvedAt[rec]
  BY <1>3 DEF Write, TypeOK
<1>4. ASSUME rec \in Alerts, to = "OPEN" PROVE resolvedAt[rec] = 0
  BY <1>4 DEF Dated, Resolved
<1>5. version + 1 # 0 /\ version' = version + 1
  BY <1>1 DEF Write
<1>6. QED
  BY <1>1, <1>2, <1>3, <1>4, <1>5 DEF Dated, Resolved

\* What happens to the dates.
LEMMA NextDates ==
    ASSUME TypeOK, Dated, [Next]_vars
    PROVE  /\ \A a \in Alerts : resolvedAt'[a] = resolvedAt[a]
                                \/ (resolvedAt[a] = 0 /\ resolvedAt'[a] = version + 1)
           /\ version' \in {version, version + 1}
           /\ \A a \in Alerts : resolvedAt'[a] <= version'
           /\ \A a \in Alerts : status'[a] \in {"OPEN", "absent"} => resolvedAt'[a] = 0
           /\ \A a \in Alerts : status'[a] = "RESOLVED" => resolvedAt'[a] # 0
<1>1. version \in Nat /\ \A a \in Alerts : resolvedAt[a] \in Nat /\ resolvedAt[a] <= version
  BY DEF TypeOK, Dated, Resolved
<1>2. CASE UNCHANGED db
  BY <1>1, <1>2 DEF db, Dated, Resolved
<1>3. ASSUME NEW rec \in Records, NEW to \in Statuses(rec), Write(rec, to),
             rec \in Alerts /\ to = "OPEN" => status[rec] = "absent"
      PROVE  /\ \A a \in Alerts : resolvedAt'[a] = resolvedAt[a]
                                  \/ (resolvedAt[a] = 0 /\ resolvedAt'[a] = version + 1)
             /\ version' = version + 1
             /\ \A a \in Alerts : status'[a] \in {"OPEN", "absent"} => resolvedAt'[a] = 0
             /\ \A a \in Alerts : status'[a] = "RESOLVED" => resolvedAt'[a] # 0
  BY <1>3, WriteResolved
<1>4. \A r \in requests : /\ r.record \in Records /\ r.to \in Statuses(r.record)
                          /\ r.record \in Alerts => r.to # "OPEN"
  BY DEF TypeOK, Request, Dated, Resolved
<1>5. CASE ~UNCHANGED db
  <2>1. \E rec \in Records : \E to \in Statuses(rec) :
           Write(rec, to) /\ (rec \in Alerts /\ to = "OPEN" => status[rec] = "absent")
    BY <1>4, <1>5, NextWrites
  <2>2. QED
    BY <1>1, <1>3, <2>1
<1>6. QED
  BY <1>2, <1>5

LEMMA DatesHold ==
    ASSUME TypeOK, Dated, [Next]_vars, NEW s \in Snapshots \cup {NoData}, Dates(s)
    PROVE  s # NoData => /\ s.at <= version'
                         /\ \A a \in Alerts : s.status[a] = "OPEN" =>
                               resolvedAt'[a] = 0 \/ resolvedAt'[a] > s.at
<1>1. SUFFICES ASSUME s # NoData
               PROVE  /\ s.at <= version'
                      /\ \A a \in Alerts : s.status[a] = "OPEN" =>
                            resolvedAt'[a] = 0 \/ resolvedAt'[a] > s.at
  OBVIOUS
<1>2. s.at \in Nat /\ version \in Nat /\ s.at <= version
  BY <1>1 DEF Snapshots, TypeOK, Dates
<1>3. s.at <= version'
  BY <1>2, NextDates
<1>4. ASSUME NEW a \in Alerts, s.status[a] = "OPEN" PROVE resolvedAt'[a] = 0 \/ resolvedAt'[a] > s.at
  BY <1>1, <1>2, <1>4, NextDates DEF Dates
<1>5. QED
  BY <1>3, <1>4

LEMMA NextDated ==
    ASSUME TypeOK, Dated, [Next]_vars
    PROVE  Dated'
<1>1. \A a \in Alerts : resolvedAt[a] \in Nat
  BY DEF TypeOK
<1>2. Dates(Current) /\ Dates(NoData) /\ Current \in Snapshots
  BY CurrentType DEF Dates, Current, Dated, Resolved, TypeOK
<1>3. ASSUME NEW v \in Lists PROVE Dates(cache[v].data)' /\ Dates(cache[v].got)'
  <2>1. /\ Follows(cache'[v], cache[v]) /\ cache[v] \in Query(Snapshots)
    BY NextLists DEF ListsFollow, TypeOK
  <2>2. PICK d, g : d = cache'[v].data /\ g = cache'[v].got
    OBVIOUS
  <2>3. /\ {d, g} \subseteq Snapshots \cup {NoData} /\ Dates(d) /\ Dates(g)
    <3>1. {cache[v].data, cache[v].got} \subseteq Snapshots \cup {NoData}
      BY <2>1 DEF Query
    <3>2. {d, g} \subseteq {cache[v].data, cache[v].got, NoData, Current}
      BY <2>1, <2>2 DEF Follows
    <3>3. Dates(cache[v].data) /\ Dates(cache[v].got)
      BY DEF Dated
    <3>4. QED
      BY <1>2, <3>1, <3>2, <3>3
  <2>4. QED
    BY <2>2, <2>3, DatesHold DEF Dates
<1>4. ASSUME NEW q \in requests'
      PROVE  /\ q.record \in Alerts => q.to # "OPEN" /\ q.form = 0
             /\ q.seen \in Nat /\ q.seen <= version
             /\ q.record \in Alerts => resolvedAt[q.record] = 0 \/ resolvedAt[q.record] > q.seen
  <2>1. ASSUME NEW p \in requests, Like(q, p)
        PROVE  /\ q.record \in Alerts => q.to # "OPEN" /\ q.form = 0
               /\ q.seen \in Nat /\ q.seen <= version
               /\ q.record \in Alerts => resolvedAt[q.record] = 0 \/ resolvedAt[q.record] > q.seen
    BY <2>1 DEF Like, Dated, Resolved, TypeOK, Request
  <2>2. ASSUME NEW rec \in Records, NEW to, Button(rec, to),
               q = NewRequest(rec, to, 0, cache[view].data.at)
        PROVE  /\ q.record = rec /\ q.to = to /\ q.form = 0 /\ q.seen = cache[view].data.at
               /\ q.seen \in Nat /\ q.seen <= version
               /\ rec \in Alerts => to # "OPEN" /\ (resolvedAt[rec] = 0 \/ resolvedAt[rec] > q.seen)
    <3>1. q.record = rec /\ q.to = to /\ q.form = 0 /\ q.seen = cache[view].data.at
      BY <2>2 DEF NewRequest
    <3>2. PICK d : d = cache[view].data
      OBVIOUS
    <3>3. \E statuses : Row(rec, statuses)
      BY <2>2 DEF Button, AlertButton, BusButton, WarehouseButton
    <3>4. d # NoData /\ d.at \in Nat
      BY <3>2, <3>3, RowTypes DEF Row
    <3>5. Dates(d)
      BY <3>2 DEF Dated, TypeOK
    <3>6. ASSUME rec \in Alerts PROVE to # "OPEN" /\ d.status[rec] = "OPEN"
      BY <2>2, <3>2, <3>6, RecordScreensConstants DEF Button, AlertButton, Row
    <3>7. QED
      BY <3>1, <3>2, <3>4, <3>5, <3>6 DEF Dates
  <2>3. ASSUME NEW rec \in Records, NEW to, Confirm(rec, to), q = NewRequest(rec, to, form, 0)
        PROVE  q.record \notin Alerts /\ q.seen = 0 /\ 0 <= version
    BY <2>3, RecordScreensConstants DEF Confirm, NewRequest, TypeOK
  <2>4. QED
    BY <2>1, <2>2, <2>3, NextRequests
<1>5. /\ \A a \in Alerts : resolvedAt'[a] <= version'
      /\ \A a \in Alerts : status'[a] \in {"OPEN", "absent"} => resolvedAt'[a] = 0
      /\ \A a \in Alerts : status'[a] = "RESOLVED" => resolvedAt'[a] # 0
  BY NextDates
<1>6. ASSUME NEW q \in requests'
      PROVE  /\ q.seen <= version'
             /\ q.record \in Alerts => resolvedAt'[q.record] = 0 \/ resolvedAt'[q.record] > q.seen
  <2>1. version \in Nat /\ version' \in {version, version + 1}
    BY NextDates DEF TypeOK
  <2>2. ASSUME NEW a \in Alerts, resolvedAt[a] = 0 \/ resolvedAt[a] > q.seen
        PROVE  resolvedAt'[a] = 0 \/ resolvedAt'[a] > q.seen
    BY <1>4, <2>1, <2>2, NextDates
  <2>3. QED
    BY <1>4, <2>1, <2>2
<1>7. QED
  BY <1>3, <1>4, <1>5, <1>6 DEF Dated, Resolved

-----------------------------------------------------------------------------
(* Clicks *)

\* What follows about a record when nothing but its excuses grows.
Marks == Calm /\ Single /\ DisabledMeansPending /\ LastClickStands

LEMMA QuietMarks ==
    ASSUME Marks, Quiet
    PROVE  Marks'
BY DEF Marks, Quiet, db, clicks, Calm, Single, DisabledMeansPending, LastClickStands, Here, Waiting,
   OfButton, Sent

\* A click.  Its button was not disabled: what is under way to its record is excused.
LEMMA PressedMarks ==
    ASSUME TypeOK, Counted, Marks, NEW rec \in Records, NEW to, Button(rec, to)
    PROVE  Marks'
<1>1. PICK others : Click(rec, to, others)
  BY ButtonClicks
<1>2. PICK n : n = NewRequest(rec, to, 0, cache[view].data.at)
  OBVIOUS
<1>3. /\ n.record = rec /\ n.to = to /\ n.form = 0 /\ n.visit = visit /\ n.waiting /\ n.state = "sent"
  BY <1>2 DEF NewRequest
<1>4. /\ requests' = requests \cup {n} /\ excused \ {rec} \subseteq excused'
      /\ OfButton(rec) # {} => excused \subseteq excused'
      /\ UNCHANGED <<status, visit>>
      /\ clicked' = [clicked EXCEPT ![rec] = to]
  BY <1>1, <1>2 DEF Click, db
<1>5. clicked \in [Records -> Status \cup {NoClick}] /\ \A r \in requests : r.record \in Records
  BY DEF TypeOK, Request
<1>6. ASSUME NEW q \in requests, q.form = 0, q.state = "sent", q.record = rec
      PROVE  rec \in excused'
  <2>1. OfButton(rec) # {}
    BY <1>6 DEF OfButton
  <2>2. SUFFICES ASSUME rec \notin excused PROVE rec \in excused'
    BY <1>4, <2>1
  <2>3. q.waiting /\ q.visit = visit
    BY <1>6, <2>2 DEF Marks, Calm
  <2>4. CASE rec \in Alerts
    <3>1. q \in Here(Alerts)
      BY <1>6, <2>3, <2>4 DEF Here, Waiting
    <3>2. AlertButton(rec, to)
      BY <2>4, RecordScreensConstants DEF Button
    <3>3. Click(rec, to, {rec})
      BY <1>6, <3>1, <3>2 DEF AlertButton
    <3>4. QED
      BY <3>3 DEF Click
  <2>5. CASE rec \in Buses
    <3>1. q \in Here(Buses)
      BY <1>6, <2>3, <2>5 DEF Here, Waiting
    <3>2. pendingBusId = rec
      BY <1>6, <2>2, <3>1 DEF Marks, Single
    <3>3. BusButton(rec)
      BY <2>5, RecordScreensConstants DEF Button
    <3>4. QED
      BY <3>2, <3>3 DEF BusButton, BusEnabled
  <2>6. CASE rec \in Warehouses
    <3>1. q \in Here(Warehouses)
      BY <1>6, <2>3, <2>6 DEF Here, Waiting
    <3>2. WarehouseButton(rec)
      BY <2>6, RecordScreensConstants DEF Button
    <3>3. QED
      BY <3>1, <3>2 DEF WarehouseButton
  <2>7. QED
    BY <2>4, <2>5, <2>6 DEF Records
<1>7. Calm'
  <2>1. ASSUME NEW q \in requests', q.form = 0, q.state = "sent", q.record \notin excused'
        PROVE  q.waiting /\ q.visit = visit /\ q.to = clicked'[q.record]
    <3>1. CASE q = n
      BY <1>3, <1>4, <1>5, <3>1
    <3>2. CASE q \in requests
      <4>1. q.record # rec
        BY <1>6, <2>1, <3>2
      <4>2. q.record \notin excused /\ clicked'[q.record] = clicked[q.record]
        BY <1>4, <1>5, <2>1, <3>2, <4>1
      <4>3. QED
        BY <2>1, <3>2, <4>2 DEF Marks, Calm
    <3>3. QED
      BY <1>4, <3>1, <3>2
  <2>2. QED
    BY <1>4, <2>1 DEF Calm
<1>8. Single' /\ DisabledMeansPending'
  <2>1. CASE rec \in Buses
    <3>1. BusButton(rec) /\ pendingBusId' = rec /\ pendingBusId # rec
      BY <2>1, RecordScreensConstants DEF Button, BusButton, BusEnabled
    <3>2. Here(Buses)' = Here(Buses) \cup {n}
      BY <1>3, <1>4, <2>1 DEF Here, Waiting
    <3>3. DisabledMeansPending'
      BY <1>3, <3>1, <3>2 DEF DisabledMeansPending
    <3>4. CASE \E q \in Here(Buses) : q.record # rec
      <4>1. Click(rec, Toggled(cache[view].data.status[rec]), {q.record : q \in Here(Buses)} \cup {rec})
        <5>1. ({q.record : q \in Here(Buses)} \ {rec}) # {}
          BY <3>4
        <5>2. ({q.record : q \in Here(Buses)} \ {rec}) \cup {rec} = {q.record : q \in Here(Buses)} \cup {rec}
          OBVIOUS
        <5>3. QED
          BY <3>1, <5>1, <5>2 DEF BusButton
      <4>2. {q.record : q \in Here(Buses)} \cup {rec} \subseteq excused'
        BY <4>1 DEF Click
      <4>3. QED
        BY <1>3, <3>2, <3>3, <4>2 DEF Single
    <3>5. CASE Here(Buses) # {} /\ \A q \in Here(Buses) : q.record = rec
      <4>1. PICK q \in Here(Buses) : q.record = rec
        BY <3>5
      <4>2. rec \in excused
        BY <3>1, <4>1 DEF Marks, Single
      <4>3. OfButton(rec) # {}
        BY <4>1 DEF OfButton, Here, Waiting
      <4>4. rec \in excused'
        BY <1>4, <4>2, <4>3
      <4>5. QED
        BY <1>3, <3>2, <3>3, <3>5, <4>4 DEF Single
    <3>6. CASE Here(Buses) = {}
      BY <1>3, <3>1, <3>2, <3>3, <3>6 DEF Single
    <3>7. QED
      BY <3>4, <3>5, <3>6
  <2>2. CASE rec \notin Buses
    <3>1. UNCHANGED pendingBusId
      BY <2>2 DEF Button, AlertButton, WarehouseButton
    <3>2. Here(Buses)' = Here(Buses)
      BY <1>3, <1>4, <2>2 DEF Here, Waiting
    <3>3. \A q \in Here(Buses) : q.record # rec
      BY <2>2 DEF Here
    <3>4. QED
      BY <1>4, <3>1, <3>2, <3>3 DEF Marks, Single, DisabledMeansPending
  <2>3. QED
    BY <2>1, <2>2
<1>9. LastClickStands'
  <2>1. ASSUME NEW q \in Records, q \notin excused', clicked'[q] # NoClick,
               \A r \in requests' : r.record = q /\ r.form = 0 => r.state # "sent"
        PROVE  status'[q] = clicked'[q]
    <3>1. q # rec
      BY <1>3, <1>4, <2>1
    <3>2. q \notin excused /\ clicked'[q] = clicked[q] /\ status' = status
      BY <1>4, <1>5, <2>1, <3>1
    <3>3. OfButton(q) \cap Sent = {}
      BY <1>4, <2>1 DEF OfButton, Sent
    <3>4. QED
      BY <2>1, <3>2, <3>3 DEF Marks, LastClickStands
  <2>2. QED
    BY <2>1 DEF LastClickStands, OfButton, Sent
<1>10. QED
  BY <1>7, <1>8, <1>9 DEF Marks

\* The confirm button of a form, which is no button of a row.
LEMMA ConfirmMarks ==
    ASSUME TypeOK, Marks, NEW rec \in Records, NEW to, Confirm(rec, to)
    PROVE  Marks'
<1>1. PICK n : n = NewRequest(rec, to, form, 0)
  OBVIOUS
<1>2. n.form # 0 /\ requests' = requests \cup {n} /\ UNCHANGED <<status, visit, pendingBusId, clicked, excused>>
  BY <1>1 DEF Confirm, Create, OnlyForm, NewRequest, db, clicks
<1>3. Here(Buses)' = Here(Buses)
  BY <1>2 DEF Here, Waiting
<1>4. Calm' /\ Single' /\ DisabledMeansPending'
  BY <1>2, <1>3 DEF Marks, Calm, Single, DisabledMeansPending
<1>5. \A q \in Records : (OfButton(q) \cap Sent)' = OfButton(q) \cap Sent
  BY <1>2 DEF OfButton, Sent
<1>6. LastClickStands'
  BY <1>2, <1>5 DEF Marks, LastClickStands
<1>7. QED
  BY <1>4, <1>6 DEF Marks

\* Another page: what is still sent is excused.
LEMMA NavigateMarks ==
    ASSUME TypeOK, Counted, Marks, NEW v \in Lists, Navigate(v)
    PROVE  Marks'
<1>1. /\ UNCHANGED <<status, requests, clicked>> /\ pendingBusId' = NoRecord /\ visit' = visit + 1
      /\ excused' = excused \cup {r.record : r \in Here(Records) \cap Sent}
  BY DEF Navigate, Show, db
<1>2. \A r \in requests : r.visit # visit'
  BY <1>1 DEF Counted, TypeOK, Request
<1>3. Single' /\ DisabledMeansPending'
  BY <1>1, <1>2 DEF Single, DisabledMeansPending, Here, Waiting
<1>4. ASSUME NEW r \in requests, r.form = 0, r.state = "sent", r.record \notin excused
      PROVE  r \in Here(Records) \cap Sent
  BY <1>4 DEF Marks, Calm, Here, Waiting, Sent, TypeOK, Request
<1>5. Calm'
  BY <1>1, <1>4 DEF Calm
<1>6. LastClickStands'
  BY <1>1 DEF Marks, LastClickStands, OfButton, Sent
<1>7. QED
  BY <1>3, <1>5, <1>6 DEF Marks

LEMMA OtherUserMarks ==
    ASSUME TypeOK, Marks, NEW rec \in Records, NEW to, OtherUser(rec, to)
    PROVE  Marks'
<1>1. /\ UNCHANGED <<visit, pendingBusId, requests, clicked>> /\ excused' = excused \cup {rec}
      /\ status' = [status EXCEPT ![rec] = to]
  BY DEF OtherUser, Write, screen
<1>2. Calm' /\ Single' /\ DisabledMeansPending'
  BY <1>1 DEF Marks, Calm, Single, DisabledMeansPending, Here, Waiting
<1>3. LastClickStands'
  BY <1>1 DEF Marks, LastClickStands, OfButton, Sent, TypeOK
<1>4. QED
  BY <1>2, <1>3 DEF Marks

\* The API is done with a request: the page goes on waiting for it.
LEMMA UpdateMarks ==
    ASSUME TypeOK, Marks, NEW r \in requests, NEW to \in {"done", "refused"}, Update(r, to),
           UNCHANGED <<visit, pendingBusId, clicked>>, excused \subseteq excused'
    PROVE  /\ Calm' /\ Single' /\ DisabledMeansPending'
           /\ \A q \in Records : q # r.record \/ r.form # 0 =>
                 OfButton(q) \cap Sent \subseteq (OfButton(q) \cap Sent)'
<1>1. PICK p : p = [r EXCEPT !.state = to]
  OBVIOUS
<1>2. /\ p.record = r.record /\ p.form = r.form /\ p.visit = r.visit /\ p.waiting = r.waiting
      /\ p.state # "sent" /\ p.to = r.to
  BY <1>1 DEF TypeOK, Request
<1>3. requests' = (requests \ {r}) \cup (IF r.waiting THEN {p} ELSE {})
  BY <1>1 DEF Update
<1>4. Calm'
  BY <1>2, <1>3 DEF Marks, Calm
<1>5. Here(Buses)' = IF r \in Here(Buses) THEN (Here(Buses) \ {r}) \cup {p} ELSE Here(Buses)
  BY <1>2, <1>3 DEF Here, Waiting, TypeOK
<1>6. Single'
  BY <1>2, <1>5 DEF Marks, Single
<1>7. DisabledMeansPending'
  BY <1>2, <1>5 DEF Marks, DisabledMeansPending
<1>8. ASSUME NEW q \in Records, q # r.record \/ r.form # 0 PROVE OfButton(q) \cap Sent \subseteq (OfButton(q) \cap Sent)'
  BY <1>3, <1>8 DEF OfButton, Sent
<1>9. QED
  BY <1>4, <1>6, <1>7, <1>8

LEMMA ServerMarks ==
    ASSUME TypeOK, Marks, NEW r \in requests, Perform(r) \/ Refuse(r)
    PROVE  Marks'
<1>1. r.record \in Records /\ r.state = "sent"
  BY DEF TypeOK, Request, Perform, Refuse
<1>2. UNCHANGED <<visit, pendingBusId, clicked>> /\ excused \subseteq excused'
  BY DEF Perform, Refuse, screen, clicks
<1>3. \E to \in {"done", "refused"} : Update(r, to)
  BY DEF Perform, Refuse
<1>4. /\ Calm' /\ Single' /\ DisabledMeansPending'
      /\ \A q \in Records : q # r.record \/ r.form # 0 =>
            OfButton(q) \cap Sent \subseteq (OfButton(q) \cap Sent)'
  BY <1>2, <1>3, UpdateMarks
<1>5. ASSUME NEW q \in Records, q \notin excused', clicked'[q] # NoClick, (OfButton(q) \cap Sent)' = {}
      PROVE  status'[q] = clicked'[q]
  <2>1. CASE q # r.record \/ r.form # 0
    <3>1. status[q] = clicked[q] /\ clicked[q] \in Status
      BY <1>1, <1>2, <1>4, <1>5, <2>1 DEF Marks, LastClickStands, TypeOK
    <3>2. CASE q # r.record
      BY <1>2, <3>1, <3>2 DEF Perform, Refuse, Write, TypeOK, db
    <3>3. CASE r.form # 0 /\ q = r.record
      <4>1. ~Perform(r)
        BY <3>1, <3>3, NeverAbsent DEF Perform
      <4>2. QED
        BY <1>2, <3>1, <4>1 DEF Refuse, db
    <3>4. QED
      BY <2>1, <3>2, <3>3
  <2>2. CASE q = r.record /\ r.form = 0
    <3>1. Perform(r) /\ r.record \notin excused
      BY <1>2, <1>5, <2>2 DEF Refuse
    <3>2. r.to = clicked[q]
      BY <1>1, <2>2, <3>1 DEF Marks, Calm
    <3>3. QED
      BY <1>1, <1>2, <2>2, <3>1, <3>2 DEF Perform, Write, TypeOK
  <2>3. QED
    BY <2>1, <2>2
<1>6. LastClickStands'
  BY <1>5 DEF LastClickStands
<1>7. QED
  BY <1>4, <1>6 DEF Marks

\* The outcome reaches the page, or the page gives up.
LEMMA AnswerMarks ==
    ASSUME TypeOK, Marks, NEW r \in requests, Answer(r)
    PROVE  Marks'
<1>1. UNCHANGED <<status, visit, clicked>> /\ excused \subseteq excused' /\ r.waiting
  BY DEF Answer, Succeed, Fail, GiveUp, db, clicks
<1>2. PICK p : p = [r EXCEPT !.waiting = FALSE]
  OBVIOUS
<1>3. /\ p.record = r.record /\ p.form = r.form /\ p.waiting = FALSE /\ p.state = r.state
  BY <1>2 DEF TypeOK, Request
<1>4. requests \ {r} \subseteq requests' /\ requests' \subseteq (requests \ {r}) \cup {p}
  BY <1>2 DEF Answer, Succeed, Fail, GiveUp
<1>5. r.state = "sent" /\ r.form = 0 => r.record \in excused'
  BY DEF Answer, Succeed, Fail, GiveUp
<1>6. pendingBusId' = IF r \in Here(Buses) THEN NoRecord ELSE pendingBusId
  BY <1>1 DEF Answer, Succeed, Fail, GiveUp, BusFailed, BusAnswered, Here, Waiting
<1>7. Here(Buses)' = Here(Buses) \ {r}
  BY <1>1, <1>3, <1>4 DEF Here, Waiting
<1>8. Single'
  BY <1>1, <1>6, <1>7 DEF Marks, Single
<1>9. DisabledMeansPending'
  BY <1>6, <1>7 DEF Marks, DisabledMeansPending
<1>10. Calm'
  BY <1>1, <1>3, <1>4, <1>5 DEF Marks, Calm
<1>11. ASSUME NEW q \in Records, q \notin excused' PROVE OfButton(q) \cap Sent \subseteq (OfButton(q) \cap Sent)'
  BY <1>4, <1>5, <1>11 DEF OfButton, Sent
<1>12. LastClickStands'
  BY <1>1, <1>11 DEF Marks, LastClickStands
<1>13. QED
  BY <1>8, <1>9, <1>10, <1>12 DEF Marks

LEMMA NextMarks ==
    ASSUME TypeOK, Counted, Marks, [Next]_vars
    PROVE  Marks'
BY Kinds, QuietMarks, PressedMarks, ConfirmMarks, NavigateMarks, ServerMarks, AnswerMarks, OtherUserMarks

-----------------------------------------------------------------------------
(* The invariant and the theorems *)

LEMMA InitClicks == Init => Clicks
<1>1. SUFFICES ASSUME Init PROVE Clicks
  OBVIOUS
<1>2. plan \in Plan /\ plan \in Plans
  BY <1>1, RecordScreensConstants DEF Init
<1>3. TypeOK
  <2>1. cache \in [Lists -> Query(Snapshots)]
    BY <1>1 DEF Init, Query, Ask, Unfetched
  <2>2. /\ status \in [Records -> Status \cup {"absent"}] /\ version \in Nat
        /\ resolvedAt \in [Alerts -> Nat] /\ view \in Lists \ {"badge"}
        /\ pendingBusId \in Buses \cup {NoRecord} /\ requests = {}
        /\ clicked \in [Records -> Status \cup {NoClick}] /\ excused \in SUBSET Records
    BY <1>1, <1>2 DEF Init, Plan
  <2>3. /\ visit \in 1..(MaxEvents + 1) /\ form \in 0..MaxEvents /\ forms \in 0..MaxEvents
        /\ events \in 0..MaxEvents
    BY <1>1, RecordScreensConstants DEF Init
  <2>4. QED
    BY <1>2, <2>1, <2>2, <2>3 DEF TypeOK
<1>4. Counted
  BY <1>1, <1>2 DEF Init, Counted, Plan
<1>5. Dated
  <2>1. \A a \in Alerts : status[a] \in {"OPEN", "absent"} /\ resolvedAt[a] = 0
    BY <1>1, <1>2, RecordScreensConstants DEF Init
  <2>2. \A v \in Lists : cache[v].data = NoData /\ cache[v].got = NoData
    BY <1>1 DEF Init, Ask, Unfetched
  <2>3. QED
    BY <1>1, <2>1, <2>2 DEF Init, Dated, Resolved, Dates
<1>6. Marks
  BY <1>1 DEF Init, Marks, Calm, Single, DisabledMeansPending, LastClickStands, Here, Waiting
<1>7. QED
  BY <1>3, <1>4, <1>5, <1>6 DEF Clicks, Marks

\* The invariant: types, counts, dates, and what may be under way to a record.
THEOREM ClicksInvariant == Spec => []Clicks
<1>1. Clicks /\ [Next]_vars => Clicks'
  BY NextTypes, NextCounted, NextDated, NextMarks DEF Clicks, Marks
<1>2. QED
  BY InitClicks, <1>1, PTL DEF Spec

\* Tables, lists, forms and requests keep their types, for every number of events.
THEOREM TypeCorrect == Spec => []TypeOK
<1>1. Clicks => TypeOK
  BY DEF Clicks
<1>2. QED
  BY <1>1, ClicksInvariant, PTL

\* What was clicked last is what the record becomes, on every page and for any number of
\* records, but for what excused records: no answer, failure or other click in between
\* lets an earlier click of the same button through after a later one.
THEOREM LastClickWins == Spec => []LastClickStands
<1>1. Clicks => LastClickStands
  BY DEF Clicks
<1>2. QED
  BY <1>1, ClicksInvariant, PTL

\* The marker of BusesPage never outlives the click it stands for.
THEOREM ButtonsComeBack == Spec => []DisabledMeansPending
<1>1. Clicks => DisabledMeansPending
  BY DEF Clicks
<1>2. QED
  BY <1>1, ClicksInvariant, PTL

\* A resolved alert is reopened only by a click on a list from before it was resolved.
THEOREM OnlyStaleClicksReopen == Spec => ReopenedByStaleClick
<1>1. Clicks => \A r \in requests : Perform(r) /\ r.to = "ACKNOWLEDGED" /\ status[r.record] = "RESOLVED"
                    => r.seen < resolvedAt[r.record]
  <2>1. SUFFICES ASSUME Clicks, NEW r \in requests, r.to = "ACKNOWLEDGED", status[r.record] = "RESOLVED"
                 PROVE  r.seen < resolvedAt[r.record]
    OBVIOUS
  <2>2. r.record \in Alerts
    BY <2>1, StatusTypes DEF Clicks, TypeOK, Request, Records
  <2>3. QED
    BY <2>1, <2>2 DEF Clicks, TypeOK, Dated, Resolved, Request
<1>2. Clicks /\ [Next]_vars =>
        [\A r \in requests : Perform(r) /\ r.to = "ACKNOWLEDGED" /\ status[r.record] = "RESOLVED"
             => r.seen < resolvedAt[r.record]]_vars
  BY <1>1
<1>3. QED
  BY <1>2, ClicksInvariant, PTL DEF Spec, ReopenedByStaleClick
=============================================================================
