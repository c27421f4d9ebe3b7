------------------------- MODULE StockScreens_proofs -------------------------
(***************************************************************************)
(* The stock pages for every number of items, lists, dialogs and events.    *)
(* Screens is the inductive invariant.  Its part Fresh is about the lists:  *)
(* an answer on its way is as recent as the last change the user was told   *)
(* of, unless an invalidation missed it.  Its part Once is about the        *)
(* dialogs: whose answers all arrived has at most one request, and while it *)
(* is open nothing was committed for it but what that request will report.  *)
(***************************************************************************)
EXTENDS StockScreens, TLAPS

\* Nothing is dated later than the database, and every mount was an event.
Dated ==
    /\ visit <= events + 1
    /\ acked <= version
    /\ \A r \in requests : r.at <= version

Fresh ==
    /\ \A v \in Views \ late :
          cache[v].fetch = "read" /\ cache[v].got # NoData => cache[v].got.at >= acked
    /\ OwnChangesShown

\* Dialogs are numbered in the order they are opened.
Numbered ==
    /\ dialog # NoDialog => dialog.no <= opened
    /\ \A r \in requests : r.dialog <= opened
    /\ \A n \in 1..MaxDialogs : n > opened => committed[n] = 0

Of(n) == {r \in requests : r.dialog = n}

\* The requests of the dialog on screen are those that disable its button.
Matching ==
    dialog # NoDialog => \A r \in requests :
        r.dialog = dialog.no => r.kind = dialog.kind /\ r.visit = visit

OnceFor(n) ==
    /\ committed[n] <= 1
    /\ \A r \in Of(n) : r.waiting /\ (r.state # "done" => committed[n] = 0)
    /\ \A r, q \in Of(n) : r = q
    /\ dialog # NoDialog /\ dialog.no = n
         => committed[n] = 0 \/ \E r \in Of(n) : r.state = "done"

Once ==
    /\ Numbered /\ Matching
    /\ \A n \in (1..MaxDialogs) \ unsure : OnceFor(n)

Screens == TypeOK /\ Dated /\ Fresh /\ Once

-----------------------------------------------------------------------------
(* Queries *)

\* Every operation on a query yields a query.
LEMMA QueryTypes ==
    ASSUME NEW q \in Query(Snapshots), NEW s \in Snapshots, NEW b \in BOOLEAN
    PROVE  /\ Ask(q) \in Query(Snapshots) /\ Polled(q) \in Query(Snapshots)
           /\ Mounted(q) \in Query(Snapshots) /\ Invalidated(q, b) \in Query(Snapshots)
           /\ Answered(q, s) \in Query(Snapshots) /\ Arrived(q) \in Query(Snapshots)
           /\ Failed(q) \in Query(Snapshots) /\ Aged(q) \in Query(Snapshots)
BY DEF Query, Ask, Polled, Mounted, Invalidated, Answered, Arrived, Failed, Aged

\* An invalidated entry is out of date, and a request that goes on is one that the
\* invalidation missed.
LEMMA InvalidatedEntry ==
    ASSUME NEW q \in Query(Snapshots), NEW b \in BOOLEAN
    PROVE  /\ Invalidated(q, b).stale
           /\ Invalidated(q, b).fetch = "read"
                => q.fetch = "read" /\ (~b \/ q.data = NoData) /\ Invalidated(q, b).got = q.got
BY DEF Query, Ask, Polled, Invalidated

\* A list that takes the screen keeps its data; a request that is answered already
\* goes on, and no data becomes fresh.
LEMMA MountedEntry ==
    ASSUME NEW q \in Query(Snapshots), NEW p \in {q, Aged(q)}
    PROVE  /\ Mounted(p) \in Query(Snapshots) /\ Mounted(p).data = q.data
           /\ ~Mounted(p).stale => ~q.stale
           /\ Mounted(p).fetch = "read" => q.fetch = "read" /\ Mounted(p).got = q.got
BY DEF Query, Ask, Polled, Mounted, Aged

-----------------------------------------------------------------------------
(* Types *)

\* What the database holds is a snapshot.
LEMMA SnapshotType ==
    ASSUME TypeOK
    PROVE  Snapshot \in Snapshots
BY DEF TypeOK, Snapshot, Snapshots, Listed

ListTypes ==
    /\ cache' \in [Views -> Query(Snapshots)]
    /\ late' \in SUBSET Views /\ behind' \in SUBSET Views

\* An invalidation keeps the types of the lists.
LEMMA InvalidateTypes ==
    ASSUME TypeOK, InvalidateLists
    PROVE  ListTypes
<1>1. \A v \in Views : Invalidated(cache[v], v = view) \in Query(Snapshots)
  BY QueryTypes, SnapshotType DEF TypeOK
<1>2. QED
  BY <1>1 DEF TypeOK, InvalidateLists, ListTypes

\* So does the change of one entry.
LEMMA BecomesTypes ==
    ASSUME TypeOK, NEW v \in Views, NEW q \in Query(Snapshots), Becomes(v, q)
    PROVE  cache' \in [Views -> Query(Snapshots)] /\ late' \in SUBSET Views
BY DEF TypeOK, Becomes

\* And a list that takes the screen.
LEMMA ShowTypes ==
    ASSUME TypeOK, NEW v \in Views, Show(v)
    PROVE  ListTypes /\ view' \in Views
<1>1. PICK p \in {cache[v], Aged(cache[v])} : Becomes(v, Mounted(p))
  BY DEF Show
<1>2. Mounted(p) \in Query(Snapshots)
  BY MountedEntry DEF TypeOK
<1>3. QED
  BY <1>1, <1>2, BecomesTypes DEF Show, ListTypes, TypeOK

\* The lists on their own.
LEMMA FetchTypes ==
    ASSUME TypeOK, Poll \/ (\E v \in Views : Read(v) \/ Arrive(v) \/ FailFetch(v)) \/ Broadcast
    PROVE  TypeOK'
<1>1. CASE Poll
  <2>1. Polled(cache[view]) \in Query(Snapshots)
    BY QueryTypes, SnapshotType DEF TypeOK
  <2>2. QED
    BY <1>1, <2>1, BecomesTypes DEF TypeOK, Poll, OnlyLists, db
<1>2. ASSUME NEW v \in Views, Read(v) PROVE TypeOK'
  <2>1. Answered(cache[v], Snapshot) \in Query(Snapshots)
    BY QueryTypes, SnapshotType DEF TypeOK
  <2>2. QED
    BY <1>2, <2>1, BecomesTypes DEF TypeOK, Read, OnlyLists, db
<1>3. ASSUME NEW v \in Views, Arrive(v) PROVE TypeOK'
  <2>1. Arrived(cache[v]) \in Query(Snapshots)
    BY QueryTypes, SnapshotType DEF TypeOK
  <2>2. QED
    BY <1>3, <2>1, BecomesTypes DEF TypeOK, Arrive, OnlyLists, db
<1>4. ASSUME NEW v \in Views, FailFetch(v) PROVE TypeOK'
  <2>1. Failed(cache[v]) \in Query(Snapshots)
    BY QueryTypes, SnapshotType DEF TypeOK
  <2>2. events' \in 0..MaxEvents
    BY <1>4, StockScreensConstants DEF TypeOK, FailFetch, Event
  <2>3. QED
    BY <1>4, <2>1, <2>2, BecomesTypes DEF TypeOK, FailFetch, OnlyLists, db
<1>5. CASE Broadcast
  BY <1>5, InvalidateTypes DEF TypeOK, Broadcast, ListTypes, db
<1>6. QED
  BY <1>1, <1>2, <1>3, <1>4, <1>5

\* A confirmation sends a well-formed request.
LEMMA ConfirmTypes ==
    ASSUME TypeOK, Dated, NEW k \in Kinds, NEW amount \in Nat, NEW to \in Items,
           Confirm(k, amount, to)
    PROVE  TypeOK'
<1>1. events' \in 1..MaxEvents /\ events' \in 0..MaxEvents
  BY StockScreensConstants DEF TypeOK, Confirm, Event
<1>2. dialog \in Dialog
  BY DEF TypeOK, Confirm
<1>3. requests' \in SUBSET Request
  <2>1. dialog.no \in 1..MaxDialogs /\ dialog.item \in Items /\ visit \in Visits
    BY <1>2 DEF TypeOK, Dialog
  <2> DEFINE r == [no |-> events', dialog |-> dialog.no, visit |-> visit, kind |-> k,
                   item |-> dialog.item, to |-> to, amount |-> amount, waiting |-> TRUE,
                   state |-> "sent", at |-> 0]
  <2>2. r \in Request
    BY <1>1, <2>1 DEF Request
  <2>3. requests' = requests \cup {r}
    BY DEF Confirm
  <2>4. QED
    BY <2>2, <2>3 DEF TypeOK
<1>4. QED
  BY <1>1, <1>3 DEF TypeOK, Confirm, db, Screen

\* The dialogs and buttons of the pages.
LEMMA UserTypes ==
    ASSUME TypeOK, Dated, User
    PROVE  TypeOK'
<1>1. ASSUME NEW v \in Views, ChangeList(v) PROVE TypeOK'
  <2>1. events' \in 0..MaxEvents
    BY <1>1, StockScreensConstants DEF TypeOK, ChangeList, Event
  <2>2. QED
    BY <1>1, <2>1, ShowTypes DEF TypeOK, ChangeList, ListTypes, db
<1>2. ASSUME NEW v \in Views, Navigate(v) PROVE TypeOK'
  <2>1. events' \in 0..MaxEvents /\ visit' \in Visits
    BY <1>2, StockScreensConstants DEF TypeOK, Navigate, Event, Dated, Visits
  <2>2. QED
    BY <1>2, <2>1, ShowTypes DEF TypeOK, Navigate, ListTypes, db
<1>3. ASSUME NEW k \in Kinds, NEW i \in Items, NEW n \in Nat, OpenDialog(k, i, n) PROVE TypeOK'
  <2>1. opened' \in 0..MaxDialogs /\ opened' \in 1..MaxDialogs
    BY <1>3, StockScreensConstants DEF TypeOK, OpenDialog
  <2>2. dialog' \in Dialog
    BY <1>3, <2>1 DEF OpenDialog, Dialog
  <2>3. QED
    BY <1>3, <2>1, <2>2 DEF TypeOK, OpenDialog, db, Screen, Hidden
<1>4. ASSUME NEW i \in Items, OpenAdd(i) \/ (\E k \in Kinds : OpenRow(k, i)) PROVE TypeOK'
  <2>1. CASE OpenAdd(i)
    BY <2>1, <1>3 DEF OpenAdd, Kinds
  <2>2. ASSUME NEW k \in Kinds, OpenRow(k, i) PROVE TypeOK'
    <3>1. cache[view].data \in Snapshots
      BY <2>2 DEF OpenRow, TypeOK, Query
    <3>2. cache[view].data.stock[i] \in Nat
      BY <3>1 DEF Snapshots
    <3>3. QED
      BY <2>2, <3>2, <1>3 DEF OpenRow
  <2>3. QED
    BY <1>4, <2>1, <2>2
<1>5. CASE CloseDialog
  BY <1>5 DEF TypeOK, CloseDialog, db, Screen, Hidden
<1>6. Amounts \subseteq Nat /\ Elsewhere \subseteq Items
  BY StockScreensConstants DEF Elsewhere
<1>7. dialog # NoDialog => dialog.item \in Items /\ dialog.seen \in Nat
  BY DEF TypeOK, Dialog
<1>8. ASSUME Transfer PROVE TypeOK'
  BY <1>8, <1>6, ConfirmTypes DEF Transfer, Kinds
<1>9. CASE IssueModal \/ RestockModal \/ AddItemModal \/ TransferModal
  <2>1. CASE IssueModal
    BY <2>1, <1>6, <1>7, ConfirmTypes DEF IssueModal, Confirm, Kinds
  <2>2. CASE RestockModal
    BY <2>2, <1>6, <1>7, ConfirmTypes DEF RestockModal, Confirm, Kinds
  <2>3. CASE AddItemModal
    BY <2>3, <1>6, <1>7, ConfirmTypes DEF AddItemModal, Confirm, Kinds
  <2>4. QED
    BY <1>9, <2>1, <2>2, <2>3, <1>8 DEF TransferModal
<1>10. CASE WriteOffDialog \/ DeleteDialog
  BY <1>10, <1>7, ConfirmTypes DEF WriteOffDialog, DeleteDialog, Confirm, Kinds
<1>11. CASE BusAssignModal \/ WarehouseTransferModal
  <2>1. CASE BusAssignModal
    BY <2>1, <1>6, <1>7, ConfirmTypes DEF BusAssignModal, Confirm, Kinds
  <2>2. QED
    BY <1>11, <2>1, <1>8 DEF WarehouseTransferModal
<1>12. CASE DropStockDialog \/ WarehouseDeleteDialog
  BY <1>12, <1>7, ConfirmTypes DEF DropStockDialog, WarehouseDeleteDialog, Confirm, Kinds
<1>13. QED
  BY <1>1, <1>2, <1>4, <1>5, <1>9, <1>10, <1>11, <1>12 DEF User

\* What the API does, in order: a movement, a refusal; and other users.
LEMMA ServerTypes ==
    ASSUME TypeOK,
           \/ \E r \in requests : Perform(r) \/ Refuse(r)
           \/ \E i \in Shared : OtherUserMoves(i)
    PROVE  TypeOK'
<1>1. ASSUME NEW r \in requests, Performs(r)
      PROVE  /\ rows' \in [Items -> {"absent", "listed", "deleted"}]
             /\ stock' \in [Items -> Nat] /\ moved' \in SUBSET Items
  <2>1. r.item \in Items /\ r.to \in Items /\ r.amount \in Nat
    BY DEF TypeOK, Request
  <2>2. CASE Takes(r)
    <3>1. \A i \in Items : stock[i] \in Nat
      BY DEF TypeOK
    <3>2. stock' \in [Items -> Nat]
      BY <2>1, <2>2, <3>1 DEF Takes, Taking
    <3>3. QED
      BY <2>1, <2>2, <3>2 DEF TypeOK, Takes, Taking
  <2>3. CASE Adds(r)
    BY <2>1, <2>3 DEF TypeOK, Adds
  <2>4. CASE Creates(r)
    BY <2>1, <2>4 DEF TypeOK, Creates
  <2>5. CASE Deletes(r)
    BY <2>1, <2>5 DEF TypeOK, Deletes
  <2>6. QED
    BY <1>1, <2>2, <2>3, <2>4, <2>5 DEF Performs
<1>2. ASSUME NEW r \in requests, Perform(r) PROVE TypeOK'
  <2>1. r \in Request /\ version \in Nat /\ committed \in [1..MaxDialogs -> Nat]
    BY <1>2 DEF TypeOK
  <2>2. /\ Performs(r) /\ version' = version + 1
        /\ committed' = [committed EXCEPT ![r.dialog] = @ + 1]
        /\ Update(r, [r EXCEPT !.state = "done", !.at = version + 1])
        /\ UNCHANGED <<cache, view, visit, dialog, opened, events, unsure, acked, late, behind>>
    BY <1>2 DEF Perform, Changed
  <2>3. version + 1 \in Nat
    BY <2>1
  <2>4. [r EXCEPT !.state = "done", !.at = version + 1] \in Request
    BY <2>1, <2>3 DEF Request
  <2>5. requests' \in SUBSET Request
    BY <2>2, <2>4 DEF TypeOK, Update
  <2>6. committed' \in [1..MaxDialogs -> Nat]
    <3>1. committed[r.dialog] + 1 \in Nat
      BY <2>1 DEF Request
    <3>2. QED
      BY <2>1, <2>2, <3>1
  <2>7. QED
    BY <1>1, <2>2, <2>3, <2>5, <2>6 DEF TypeOK
<1>3. ASSUME NEW r \in requests, Refuse(r) PROVE TypeOK'
  <2>1. r \in Request /\ [r EXCEPT !.state = "refused"] \in Request
    BY <1>3 DEF TypeOK, Request
  <2>2. requests' \in SUBSET Request
    BY <1>3, <2>1 DEF TypeOK, Refuse, Update
  <2>3. QED
    BY <1>3, <2>2 DEF TypeOK, Refuse, db, Hidden
<1>4. ASSUME NEW i \in Shared, OtherUserMoves(i) PROVE TypeOK'
  <2>1. i \in Items /\ version' \in Nat /\ events' \in 0..MaxEvents
    BY <1>4, StockScreensConstants DEF TypeOK, OtherUserMoves, Changed, Event
  <2>2. stock' \in [Items -> Nat] /\ moved' \in SUBSET Items
    BY <1>4, <2>1, StockScreensConstants DEF TypeOK, OtherUserMoves
  <2>3. QED
    BY <1>4, <2>1, <2>2 DEF TypeOK, OtherUserMoves
<1>5. QED
  BY <1>2, <1>3, <1>4

\* What an answer, or the lack of one, does to the page.
LEMMA AnswerTypes ==
    ASSUME TypeOK, NEW r \in Waiting, Answer(r)
    PROVE  TypeOK'
<1>1. r \in requests /\ r \in Request
  BY DEF Waiting, TypeOK
<1>2. CASE Succeed(r)
  <2>1. requests' \in SUBSET Request /\ acked' \in Nat /\ dialog' \in Dialog \cup {NoDialog}
    BY <1>1, <1>2 DEF TypeOK, Succeed, Request
  <2>2. ListTypes
    BY <1>2, InvalidateTypes DEF Succeed
  <2>3. QED
    BY <1>2, <2>1, <2>2 DEF TypeOK, Succeed, ListTypes, db, Screen
<1>3. CASE Fail(r)
  BY <1>3 DEF TypeOK, Fail, db, Screen, Hidden
<1>4. CASE GiveUp(r)
  <2>1. [r EXCEPT !.waiting = FALSE] \in Request /\ r.dialog \in 1..MaxDialogs
    BY <1>1 DEF Request
  <2>2. requests' \in SUBSET Request
    BY <1>4, <2>1 DEF TypeOK, GiveUp, Abandons
  <2>3. QED
    BY <1>4, <2>1, <2>2 DEF TypeOK, GiveUp, Abandons, db, Screen
<1>5. QED
  BY <1>2, <1>3, <1>4 DEF Answer

\* Every step keeps the types.
LEMMA NextTypes ==
    ASSUME TypeOK, Dated, [Next]_vars
    PROVE  TypeOK'
<1>1. CASE Next
  BY <1>1, FetchTypes, UserTypes, ServerTypes, AnswerTypes DEF Next
<1>2. CASE UNCHANGED vars
  BY <1>2 DEF TypeOK, vars
<1>3. QED
  BY <1>1, <1>2

-----------------------------------------------------------------------------
(* Dates *)

\* Every step keeps the dates.
LEMMA NextDated ==
    ASSUME TypeOK, Dated, [Next]_vars
    PROVE  Dated'
<1> USE DEF Dated
<1>1. /\ visit \in Nat /\ events \in Nat /\ version \in Nat /\ acked \in Nat
      /\ \A r \in requests : r.at \in Nat
  BY DEF TypeOK, Visits, Request
<1>2. CASE Poll \/ (\E v \in Views : Read(v) \/ Arrive(v) \/ FailFetch(v)) \/ Broadcast
  BY <1>1, <1>2 DEF Poll, Read, Arrive, FailFetch, Broadcast, OnlyLists, Event, db
<1>3. ASSUME NEW k \in Kinds, NEW amount, NEW to, Confirm(k, amount, to) PROVE Dated'
  BY <1>1, <1>3 DEF Confirm, Event, db, Screen
<1>4. CASE User
  <2>1. ASSUME NEW v \in Views, ChangeList(v) \/ Navigate(v) PROVE Dated'
    BY <1>1, <2>1 DEF ChangeList, Navigate, Event, db
  <2>2. ASSUME NEW i \in Items, NEW k \in Kinds, OpenAdd(i) \/ OpenRow(k, i) PROVE Dated'
    BY <1>1, <2>2 DEF OpenAdd, OpenRow, OpenDialog, db, Screen, Hidden
  <2>3. CASE CloseDialog
    BY <1>1, <2>3 DEF CloseDialog, db, Screen, Hidden
  <2>4. ASSUME Transfer PROVE Dated'
    BY <2>4, <1>3 DEF Transfer, Kinds
  <2>5. CASE IssueModal \/ RestockModal \/ AddItemModal \/ TransferModal
    BY <2>5, <2>4, <1>3 DEF IssueModal, RestockModal, AddItemModal, TransferModal, Kinds
  <2>6. CASE WriteOffDialog \/ DeleteDialog \/ BusAssignModal
    BY <2>6, <1>3 DEF WriteOffDialog, DeleteDialog, BusAssignModal, Kinds
  <2>7. CASE WarehouseTransferModal \/ DropStockDialog \/ WarehouseDeleteDialog
    BY <2>7, <2>4, <1>3 DEF WarehouseTransferModal, DropStockDialog, WarehouseDeleteDialog, Kinds
  <2>8. QED
    BY <1>4, <2>1, <2>2, <2>3, <2>5, <2>6, <2>7 DEF User, Kinds
<1>5. ASSUME NEW r \in requests, Perform(r) PROVE Dated'
  <2>1. /\ version' = version + 1 /\ UNCHANGED <<visit, events, acked>>
        /\ Update(r, [r EXCEPT !.state = "done", !.at = version + 1])
    BY <1>5 DEF Perform, Changed
  <2>2. [r EXCEPT !.state = "done", !.at = version + 1].at = version + 1
    BY <1>5 DEF TypeOK, Request
  <2>3. \A q \in requests' : q \in requests \/ q.at = version + 1
    BY <2>1, <2>2 DEF Update
  <2>4. QED
    BY <1>1, <2>1, <2>3
<1>6. ASSUME NEW r \in requests, Refuse(r) PROVE Dated'
  <2>1. [r EXCEPT !.state = "refused"].at = r.at
    BY <1>6 DEF TypeOK, Request
  <2>2. QED
    BY <1>1, <1>6, <2>1 DEF Refuse, Update, db, Hidden
<1>7. ASSUME NEW i \in Shared, OtherUserMoves(i) PROVE Dated'
  BY <1>1, <1>7 DEF OtherUserMoves, Event, Changed
<1>8. ASSUME NEW r \in Waiting, Answer(r) PROVE Dated'
  <2>1. r \in requests /\ [r EXCEPT !.waiting = FALSE].at = r.at
    BY DEF Waiting, TypeOK, Request
  <2>2. CASE Succeed(r)
    BY <1>1, <2>1, <2>2 DEF Succeed, db, Screen
  <2>3. CASE Fail(r)
    BY <1>1, <2>3 DEF Fail, db, Screen, Hidden
  <2>4. CASE GiveUp(r)
    BY <1>1, <2>1, <2>4 DEF GiveUp, Abandons, db, Screen
  <2>5. QED
    BY <1>8, <2>2, <2>3, <2>4 DEF Answer
<1>9. CASE UNCHANGED vars
  BY <1>9 DEF vars
<1>10. QED
  BY <1>2, <1>4, <1>5, <1>6, <1>7, <1>8, <1>9 DEF Next

-----------------------------------------------------------------------------
(* The lists *)

\* One entry's share of Fresh.
FreshAnswer(v) == cache[v].fetch = "read" /\ cache[v].got # NoData /\ v \notin late
                    => cache[v].got.at >= acked
FreshData(v) == cache[v].data # NoData /\ ~cache[v].stale /\ v \notin behind
                  => cache[v].data.at >= acked

LEMMA FreshByEntry ==
    Fresh <=> \A v \in Views : FreshAnswer(v) /\ FreshData(v)
BY DEF Fresh, FreshAnswer, FreshData, OwnChangesShown

\* After an invalidation every list is out of date and every answer still awaited
\* counts as late, whatever the user has been told by then.
LEMMA InvalidationIsFresh ==
    ASSUME TypeOK, InvalidateLists, acked' = acked \/ acked' \in Nat
    PROVE  \A v \in Views : (FreshData(v) => FreshData(v)') /\ FreshAnswer(v)'
<1> SUFFICES ASSUME NEW v \in Views PROVE (FreshData(v) => FreshData(v)') /\ FreshAnswer(v)'
  OBVIOUS
<1>1. cache[v] \in Query(Snapshots) /\ (v = view) \in BOOLEAN
  BY DEF TypeOK
<1>2. cache'[v] = Invalidated(cache[v], v = view)
  BY DEF InvalidateLists
<1>3. cache'[v].stale
  BY <1>1, <1>2, InvalidatedEntry
<1>4. cache'[v].fetch = "read" => cache[v].fetch = "read" /\ (v # view \/ cache[v].data = NoData)
  BY <1>1, <1>2, InvalidatedEntry
<1>5. cache'[v].fetch = "read" => v \in late'
  BY <1>4 DEF InvalidateLists, Misses
<1>6. QED
  BY <1>3, <1>5 DEF FreshData, FreshAnswer

\* The change of one entry leaves the others as they are.
LEMMA OtherEntries ==
    ASSUME TypeOK, Fresh, NEW v \in Views, NEW q \in Query(Snapshots), Becomes(v, q),
           acked' = acked, NEW w \in Views, w # v, w \in behind => w \in behind'
    PROVE  FreshAnswer(w)' /\ FreshData(w)'
<1>1. cache'[w] = cache[w] /\ (w \in late => w \in late')
  BY DEF TypeOK, Becomes
<1>2. FreshAnswer(w) /\ FreshData(w)
  BY FreshByEntry
<1>3. QED
  BY <1>1, <1>2 DEF FreshAnswer, FreshData

\* A list takes the screen.
LEMMA ShowFresh ==
    ASSUME TypeOK, Fresh, NEW v \in Views, Show(v), acked' = acked
    PROVE  Fresh'
<1>1. PICK p \in {cache[v], Aged(cache[v])} : Becomes(v, Mounted(p))
  BY DEF Show
<1>2. cache[v] \in Query(Snapshots)
  BY DEF TypeOK
<1>3. /\ Mounted(p) \in Query(Snapshots) /\ Mounted(p).data = cache[v].data
      /\ ~Mounted(p).stale => ~cache[v].stale
      /\ Mounted(p).fetch = "read" => cache[v].fetch = "read" /\ Mounted(p).got = cache[v].got
  BY <1>2, MountedEntry
<1>4. cache'[v] = Mounted(p) /\ behind' = behind
  BY <1>1 DEF Becomes, TypeOK, Show
<1>5. Mounted(p).fetch = "read" => late' = late
  BY <1>1 DEF Becomes
<1>6. FreshAnswer(v)' /\ FreshData(v)'
  BY <1>3, <1>4, <1>5, FreshByEntry DEF FreshAnswer, FreshData
<1>7. \A w \in Views \ {v} : FreshAnswer(w)' /\ FreshData(w)'
  BY <1>1, <1>3, <1>4, OtherEntries
<1>8. QED
  BY <1>6, <1>7, FreshByEntry DEF Fresh, FreshAnswer, FreshData, OwnChangesShown

\* A request is asked, answered or fails: nothing on screen becomes fresh by it.
LEMMA FetchFresh ==
    ASSUME TypeOK, Dated, Fresh, acked' = acked, NEW v \in Views, NEW q \in Query(Snapshots),
           Becomes(v, q), behind' = behind, q.data = cache[v].data, q.stale = cache[v].stale,
           q.fetch = "read" => q.got = Snapshot
    PROVE  Fresh'
<1>1. cache'[v] = q
  BY DEF Becomes, TypeOK
<1>2. Snapshot.at >= acked
  BY DEF Snapshot, Dated, TypeOK
<1>3. FreshAnswer(v)' /\ FreshData(v)'
  BY <1>1, <1>2, FreshByEntry DEF FreshAnswer, FreshData
<1>4. \A w \in Views \ {v} : FreshAnswer(w)' /\ FreshData(w)'
  BY OtherEntries
<1>5. QED
  BY <1>3, <1>4 DEF Fresh, FreshAnswer, FreshData, OwnChangesShown

\* An answer arrives: fresh if it was not late.
LEMMA ArriveFresh ==
    ASSUME TypeOK, Fresh, NEW v \in Views, Arrive(v)
    PROVE  Fresh'
<1>1. cache[v] \in Query(Snapshots) /\ cache[v].fetch = "read" /\ acked' = acked
  BY DEF TypeOK, Arrive, OnlyLists
<1>2. Arrived(cache[v]) \in Query(Snapshots) /\ Becomes(v, Arrived(cache[v]))
  BY <1>1, QueryTypes, SnapshotType DEF Arrive
<1>3. cache'[v] = Arrived(cache[v])
  BY <1>2 DEF Becomes, TypeOK
<1>4. /\ cache'[v].fetch = "idle" /\ cache'[v].data = cache[v].got
  BY <1>3 DEF Arrived
<1>5. v \notin behind' => v \notin late
  BY DEF Arrive
<1>6. FreshAnswer(v)' /\ FreshData(v)'
  BY <1>1, <1>4, <1>5, FreshByEntry DEF FreshAnswer, FreshData
<1>7. \A w \in Views \ {v} : w \in behind => w \in behind'
  BY DEF Arrive
<1>8. \A w \in Views \ {v} : FreshAnswer(w)' /\ FreshData(w)'
  BY <1>1, <1>2, <1>7, OtherEntries
<1>9. QED
  BY <1>6, <1>8 DEF Fresh, FreshAnswer, FreshData, OwnChangesShown

\* Every step keeps the lists fresh.
LEMMA NextFresh ==
    ASSUME TypeOK, Dated, Fresh, [Next]_vars
    PROVE  Fresh'
<1>1. ASSUME UNCHANGED <<cache, acked, late, behind>> PROVE Fresh'
  BY <1>1 DEF Fresh, OwnChangesShown
<1>2. ASSUME InvalidateLists, acked' = acked \/ acked' \in Nat PROVE Fresh'
  BY <1>2, InvalidationIsFresh, FreshByEntry DEF Fresh, FreshAnswer, FreshData, OwnChangesShown
<1>3. CASE Poll
  <2>1. Polled(cache[view]) = Ask(cache[view]) /\ view \in Views
    BY <1>3 DEF Poll, Polled, TypeOK
  <2>2. cache[view] \in Query(Snapshots) /\ Ask(cache[view]) \in Query(Snapshots)
    BY QueryTypes, SnapshotType DEF TypeOK
  <2>3. QED
    BY <1>3, <2>1, <2>2, FetchFresh DEF Poll, OnlyLists, Ask, Query
<1>4. ASSUME NEW v \in Views, Read(v) PROVE Fresh'
  <2>1. cache[v] \in Query(Snapshots) /\ Answered(cache[v], Snapshot) \in Query(Snapshots)
    BY QueryTypes, SnapshotType DEF TypeOK
  <2>2. QED
    BY <1>4, <2>1, FetchFresh DEF Read, OnlyLists, Answered, Query
<1>5. ASSUME NEW v \in Views, FailFetch(v) PROVE Fresh'
  <2>1. cache[v] \in Query(Snapshots) /\ Failed(cache[v]) \in Query(Snapshots)
    BY QueryTypes, SnapshotType DEF TypeOK
  <2>2. QED
    BY <1>5, <2>1, FetchFresh DEF FailFetch, OnlyLists, Failed, Query
<1>6. ASSUME NEW v \in Views, ChangeList(v) \/ Navigate(v) PROVE Fresh'
  BY <1>6, ShowFresh DEF ChangeList, Navigate
<1>7. CASE Broadcast
  BY <1>7, <1>2 DEF Broadcast
<1>8. ASSUME NEW r \in Waiting, Answer(r) PROVE Fresh'
  <2>1. CASE Succeed(r)
    <3>1. acked' \in Nat
      BY <2>1 DEF Succeed, TypeOK, Waiting, Request
    <3>2. QED
      BY <2>1, <3>1, <1>2 DEF Succeed
  <2>2. CASE Fail(r) \/ GiveUp(r)
    BY <2>2, <1>1 DEF Fail, GiveUp, Abandons, Hidden
  <2>3. QED
    BY <1>8, <2>1, <2>2 DEF Answer
<1>9. ASSUME NEW k, NEW amount, NEW to, Confirm(k, amount, to) PROVE Fresh'
  BY <1>9, <1>1 DEF Confirm
<1>10. CASE User
  <2>1. ASSUME NEW i \in Items, NEW k \in Kinds, OpenAdd(i) \/ OpenRow(k, i) PROVE Fresh'
    BY <2>1, <1>1 DEF OpenAdd, OpenRow, OpenDialog, Hidden
  <2>2. CASE CloseDialog
    BY <2>2, <1>1 DEF CloseDialog, Hidden
  <2>3. CASE IssueModal \/ RestockModal \/ AddItemModal \/ TransferModal
    BY <2>3, <1>9 DEF IssueModal, RestockModal, AddItemModal, TransferModal, Transfer
  <2>4. CASE WriteOffDialog \/ DeleteDialog \/ BusAssignModal
    BY <2>4, <1>9 DEF WriteOffDialog, DeleteDialog, BusAssignModal
  <2>5. CASE WarehouseTransferModal \/ DropStockDialog \/ WarehouseDeleteDialog
    BY <2>5, <1>9 DEF WarehouseTransferModal, Transfer, DropStockDialog, WarehouseDeleteDialog
  <2>6. QED
    BY <1>10, <1>6, <2>1, <2>2, <2>3, <2>4, <2>5 DEF User, Kinds
<1>11. ASSUME NEW r \in requests, Perform(r) \/ Refuse(r) PROVE Fresh'
  BY <1>11, <1>1 DEF Perform, Refuse, Hidden
<1>12. ASSUME NEW i \in Shared, OtherUserMoves(i) PROVE Fresh'
  BY <1>12, <1>1 DEF OtherUserMoves
<1>13. CASE UNCHANGED vars
  BY <1>13, <1>1 DEF vars
<1>14. QED
  BY <1>3, <1>4, <1>5, <1>7, <1>8, <1>10, <1>11, <1>12, <1>13, ArriveFresh DEF Next

-----------------------------------------------------------------------------
(* The dialogs *)

\* A closed dialog ends nothing that is on its way.
LEMMA ClosedOnce ==
    ASSUME TypeOK, Once, dialog' = NoDialog, UNCHANGED <<opened, requests, committed, unsure>>
    PROVE  Once'
BY DEF Once, Numbered, Matching, OnceFor, Of

\* Nothing was sent for a dialog that opens.
LEMMA OpenedOnce ==
    ASSUME TypeOK, Once, NEW k, NEW i, NEW n, OpenDialog(k, i, n)
    PROVE  Once'
<1>1. /\ dialog'.no = opened + 1 /\ opened' = opened + 1 /\ opened \in Nat
      /\ UNCHANGED <<requests, committed, unsure, visit>>
  BY DEF OpenDialog, Screen, Hidden, TypeOK
<1>2. \A r \in requests : r.dialog \in Nat /\ r.dialog <= opened
  BY DEF Once, Numbered, TypeOK, Request
<1>3. Numbered'
  BY <1>1, <1>2 DEF Once, Numbered
<1>4. \A r \in requests : r.dialog # opened + 1
  BY <1>1, <1>2
<1>5. Matching'
  BY <1>1, <1>4 DEF Matching
<1>6. ASSUME NEW m \in (1..MaxDialogs) \ unsure PROVE OnceFor(m)'
  <2>1. OnceFor(m) /\ Of(m)' = Of(m) /\ committed' = committed
    BY <1>1 DEF Once, Of
  <2>2. m = opened + 1 => committed[m] = 0
    BY <1>1 DEF Once, Numbered
  <2>3. QED
    BY <1>1, <2>1, <2>2 DEF OnceFor
<1>7. QED
  BY <1>1, <1>3, <1>5, <1>6 DEF Once

\* While a dialog that lost no answer has a request, its button is disabled.
LEMMA ConfirmedOnce ==
    ASSUME TypeOK, Once, NEW k \in Kinds, NEW amount, NEW to, Confirm(k, amount, to)
    PROVE  Once'
<1> DEFINE n == dialog.no
           q == [no |-> events', dialog |-> n, visit |-> visit, kind |-> k,
                 item |-> dialog.item, to |-> to, amount |-> amount, waiting |-> TRUE,
                 state |-> "sent", at |-> 0]
<1>1. /\ dialog # NoDialog /\ dialog.kind = k /\ ~Pending
      /\ requests' = requests \cup {q}
      /\ UNCHANGED <<dialog, opened, committed, unsure, visit>>
  BY DEF Confirm, Screen
<1>2. n \in 1..MaxDialogs /\ n <= opened
  BY <1>1 DEF TypeOK, Dialog, Once, Numbered
<1>3. Numbered'
  BY <1>1, <1>2 DEF Once, Numbered
<1>4. Matching'
  BY <1>1 DEF Once, Matching
<1>5. n \notin unsure => Of(n) = {} /\ committed[n] = 0
  <2>1. SUFFICES ASSUME n \notin unsure PROVE Of(n) = {} /\ committed[n] = 0
    OBVIOUS
  <2>2. OnceFor(n)
    BY <1>2, <2>1 DEF Once
  <2>3. \A r \in Of(n) : r.waiting /\ r.kind = dialog.kind /\ r.visit = visit /\ r.dialog = n
    BY <1>1, <2>2 DEF OnceFor, Once, Matching, Of
  <2>4. Of(n) = {}
    BY <1>1, <2>3 DEF Pending, Of
  <2>5. QED
    BY <1>1, <2>2, <2>4 DEF OnceFor
<1>6. ASSUME NEW m \in (1..MaxDialogs) \ unsure PROVE OnceFor(m)'
  <2>1. OnceFor(m)
    BY DEF Once
  <2>2. CASE m = n
    <3>1. Of(m)' = {q} /\ committed[m] = 0
      BY <1>1, <1>5, <2>2 DEF Of
    <3>2. QED
      BY <1>1, <3>1 DEF OnceFor
  <2>3. CASE m # n
    <3>1. Of(m)' = Of(m)
      BY <1>1, <2>3 DEF Of
    <3>2. QED
      BY <1>1, <2>1, <2>3, <3>1 DEF OnceFor
  <2>4. QED
    BY <2>2, <2>3
<1>7. QED
  BY <1>1, <1>3, <1>4, <1>6 DEF Once

\* The API commits the one request there is.
LEMMA PerformedOnce ==
    ASSUME TypeOK, Once, NEW r \in requests, Perform(r)
    PROVE  Once'
<1> DEFINE n == r.dialog
           d == [r EXCEPT !.state = "done", !.at = version + 1]
<1>1. /\ r.state = "sent" /\ requests' = (requests \ {r}) \cup (IF d.waiting THEN {d} ELSE {})
      /\ committed' = [committed EXCEPT ![n] = @ + 1]
      /\ UNCHANGED <<dialog, opened, unsure, visit>>
  BY DEF Perform, Update
<1>2. r \in Request /\ n \in 1..MaxDialogs /\ n <= opened
      /\ committed \in [1..MaxDialogs -> Nat] /\ opened \in Nat
  BY DEF TypeOK, Request, Once, Numbered
<1>3. /\ d.dialog = n /\ d.kind = r.kind /\ d.visit = r.visit /\ d.waiting = r.waiting
      /\ d.state = "done"
  BY <1>2 DEF Request
<1>4. Numbered'
  <2>1. \A m \in 1..MaxDialogs : m > opened => committed'[m] = committed[m]
    BY <1>1, <1>2
  <2>2. QED
    BY <1>1, <1>2, <1>3, <2>1 DEF Once, Numbered
<1>5. Matching'
  BY <1>1, <1>3 DEF Once, Matching
<1>6. ASSUME NEW m \in (1..MaxDialogs) \ unsure PROVE OnceFor(m)'
  <2>1. OnceFor(m)
    BY DEF Once
  <2>2. CASE m = n
    <3>1. r.waiting /\ committed[m] = 0 /\ Of(m) = {r}
      BY <1>1, <2>1, <2>2 DEF OnceFor, Of
    <3>2. Of(m)' = {d}
      BY <1>1, <1>3, <2>2, <3>1 DEF Of
    <3>3. committed'[m] = 1
      BY <1>1, <1>2, <2>2, <3>1
    <3>4. QED
      BY <1>1, <1>3, <3>1, <3>2, <3>3 DEF OnceFor
  <2>3. CASE m # n
    <3>1. Of(m)' = Of(m) /\ committed'[m] = committed[m]
      BY <1>1, <1>2, <1>3, <2>3 DEF Of
    <3>2. QED
      BY <1>1, <2>1, <3>1 DEF OnceFor
  <2>4. QED
    BY <2>2, <2>3
<1>7. QED
  BY <1>1, <1>4, <1>5, <1>6 DEF Once

\* A refusal commits nothing.
LEMMA RefusedOnce ==
    ASSUME TypeOK, Once, NEW r \in requests, Refuse(r)
    PROVE  Once'
<1> DEFINE n == r.dialog
           d == [r EXCEPT !.state = "refused"]
<1>1. /\ r.state = "sent" /\ requests' = (requests \ {r}) \cup (IF d.waiting THEN {d} ELSE {})
      /\ UNCHANGED <<dialog, opened, unsure, visit, committed>>
  BY DEF Refuse, Update, Hidden
<1>2. /\ d.dialog = n /\ d.kind = r.kind /\ d.visit = r.visit /\ d.waiting = r.waiting
      /\ d.state = "refused"
  BY DEF TypeOK, Request
<1>3. Numbered'
  BY <1>1, <1>2 DEF Once, Numbered
<1>4. Matching'
  BY <1>1, <1>2 DEF Once, Matching
<1>5. ASSUME NEW m \in (1..MaxDialogs) \ unsure PROVE OnceFor(m)'
  <2>1. OnceFor(m)
    BY DEF Once
  <2>2. CASE m = n
    <3>1. r.waiting /\ committed[m] = 0 /\ Of(m) = {r}
      BY <1>1, <2>1, <2>2 DEF OnceFor, Of
    <3>2. Of(m)' = {d}
      BY <1>1, <1>2, <2>2, <3>1 DEF Of
    <3>3. QED
      BY <1>1, <1>2, <3>1, <3>2 DEF OnceFor
  <2>3. CASE m # n
    <3>1. Of(m)' = Of(m)
      BY <1>1, <1>2, <2>3 DEF Of
    <3>2. QED
      BY <1>1, <2>1, <3>1 DEF OnceFor
  <2>4. QED
    BY <2>2, <2>3
<1>6. QED
  BY <1>1, <1>3, <1>4, <1>5 DEF Once

\* A success ends the dialog it was sent from, if that is still open.
LEMMA SucceededOnce ==
    ASSUME TypeOK, Once, NEW r \in requests, Succeed(r)
    PROVE  Once'
<1>1. /\ requests' = requests \ {r} /\ UNCHANGED <<opened, unsure, visit, committed>>
      /\ dialog' = dialog \/ dialog' = NoDialog
  BY DEF Succeed, Screen
<1>2. dialog' # NoDialog => dialog' = dialog /\ r.dialog # dialog.no
  BY DEF Succeed, Once, Matching
<1>3. Numbered' /\ Matching'
  BY <1>1, <1>2 DEF Once, Numbered, Matching
<1>4. ASSUME NEW m \in (1..MaxDialogs) \ unsure PROVE OnceFor(m)'
  <2>1. OnceFor(m) /\ Of(m)' = Of(m) \ {r}
    BY <1>1 DEF Once, Of
  <2>2. dialog' # NoDialog /\ dialog'.no = m => Of(m)' = Of(m)
    BY <1>1, <1>2 DEF Of
  <2>3. QED
    BY <1>1, <1>2, <2>1, <2>2 DEF OnceFor
<1>5. QED
  BY <1>1, <1>3, <1>4 DEF Once

\* An error leaves the dialog open, with nothing committed.
LEMMA FailedOnce ==
    ASSUME TypeOK, Once, NEW r \in requests, Fail(r)
    PROVE  Once'
<1>1. /\ r.state = "refused" /\ requests' = requests \ {r}
      /\ UNCHANGED <<dialog, opened, unsure, visit, committed>>
  BY DEF Fail, Screen, Hidden
<1>2. Numbered' /\ Matching'
  BY <1>1 DEF Once, Numbered, Matching
<1>3. ASSUME NEW m \in (1..MaxDialogs) \ unsure PROVE OnceFor(m)'
  <2>1. OnceFor(m) /\ Of(m)' = Of(m) \ {r}
    BY <1>1 DEF Once, Of
  <2>2. \A q \in Of(m) : q.state = "done" => q \in Of(m)'
    BY <1>1, <2>1
  <2>3. QED
    BY <1>1, <2>1, <2>2 DEF OnceFor
<1>4. QED
  BY <1>1, <1>2, <1>3 DEF Once

\* A lost answer takes its dialog out of the account.
LEMMA AbandonedOnce ==
    ASSUME TypeOK, Once, NEW r \in requests, Abandons(r)
    PROVE  Once'
<1> DEFINE d == [r EXCEPT !.waiting = FALSE]
<1>1. /\ requests' = requests \ {r} \/ requests' = (requests \ {r}) \cup {d}
      /\ unsure' = unsure \cup {r.dialog}
      /\ UNCHANGED <<dialog, opened, visit, committed>>
  BY DEF Abandons, Screen
<1>2. d.dialog = r.dialog /\ d.kind = r.kind /\ d.visit = r.visit
  BY DEF TypeOK, Request
<1>3. Numbered' /\ Matching'
  BY <1>1, <1>2 DEF Once, Numbered, Matching
<1>4. ASSUME NEW m \in (1..MaxDialogs) \ unsure' PROVE OnceFor(m)'
  <2>1. OnceFor(m) /\ m # r.dialog
    BY <1>1 DEF Once
  <2>2. Of(m)' = Of(m)
    BY <1>1, <1>2, <2>1 DEF Of
  <2>3. QED
    BY <1>1, <2>1, <2>2 DEF OnceFor
<1>5. QED
  BY <1>3, <1>4 DEF Once

\* Every step keeps the dialogs single.
LEMMA NextOnce ==
    ASSUME TypeOK, Once, [Next]_vars
    PROVE  Once'
<1>1. ASSUME UNCHANGED <<dialog, opened, requests, committed, unsure, visit>> PROVE Once'
  BY <1>1 DEF Once, Numbered, Matching, OnceFor, Of
<1>2. CASE Poll \/ (\E v \in Views : Read(v) \/ Arrive(v) \/ FailFetch(v)) \/ Broadcast
  BY <1>1, <1>2 DEF Poll, Read, Arrive, FailFetch, Broadcast, OnlyLists
<1>3. CASE User
  <2>1. ASSUME NEW v \in Views, ChangeList(v) \/ Navigate(v) PROVE Once'
    BY <1>1, <2>1, ClosedOnce DEF ChangeList, Navigate
  <2>2. ASSUME NEW i \in Items, NEW k \in Kinds, OpenAdd(i) \/ OpenRow(k, i) PROVE Once'
    BY <2>2, OpenedOnce DEF OpenAdd, OpenRow
  <2>3. CASE CloseDialog
    BY <2>3, ClosedOnce DEF CloseDialog, Hidden
  <2>4. CASE IssueModal \/ RestockModal \/ AddItemModal \/ TransferModal
    BY <2>4, ConfirmedOnce DEF IssueModal, RestockModal, AddItemModal, TransferModal, Transfer, Kinds
  <2>5. CASE WriteOffDialog \/ DeleteDialog \/ BusAssignModal
    BY <2>5, ConfirmedOnce DEF WriteOffDialog, DeleteDialog, BusAssignModal, Kinds
  <2>6. CASE WarehouseTransferModal \/ DropStockDialog \/ WarehouseDeleteDialog
    BY <2>6, ConfirmedOnce
    DEF WarehouseTransferModal, Transfer, DropStockDialog, WarehouseDeleteDialog, Kinds
  <2>7. QED
    BY <1>3, <2>1, <2>2, <2>3, <2>4, <2>5, <2>6 DEF User, Kinds
<1>4. ASSUME NEW i \in Shared, OtherUserMoves(i) PROVE Once'
  BY <1>4, <1>1 DEF OtherUserMoves
<1>5. ASSUME NEW r \in Waiting, Answer(r) PROVE Once'
  BY <1>5, SucceededOnce, FailedOnce, AbandonedOnce DEF Answer, GiveUp, Waiting
<1>6. CASE UNCHANGED vars
  BY <1>6, <1>1 DEF vars
<1>7. QED
  BY <1>2, <1>3, <1>4, <1>5, <1>6, PerformedOnce, RefusedOnce DEF Next

-----------------------------------------------------------------------------
(* The invariant *)

\* The first page: one list is loading and nothing has been done.
LEMMA InitScreens ==
    ASSUME Init
    PROVE  Screens
<1>1. Unfetched \in Query(Snapshots) /\ Ask(Unfetched) \in Query(Snapshots)
      /\ Unfetched.fetch = "idle" /\ Ask(Unfetched).fetch = "asked"
      /\ Unfetched.data = NoData /\ Ask(Unfetched).data = NoData
  BY DEF Unfetched, Query, Ask
<1>2. 1 \in Visits /\ 0 \in 0..MaxDialogs /\ 0 \in 0..MaxEvents
  BY StockScreensConstants DEF Visits
<1>3. TypeOK
  BY <1>1, <1>2, StockScreensConstants DEF Init, TypeOK
<1>4. Dated
  BY DEF Init, Dated
<1>5. Fresh
  BY <1>1 DEF Init, Fresh, OwnChangesShown
<1>6. Once
  BY DEF Init, Once, Numbered, Matching, OnceFor, Of
<1>7. QED
  BY <1>3, <1>4, <1>5, <1>6 DEF Screens

LEMMA NextScreens ==
    ASSUME Screens, [Next]_vars
    PROVE  Screens'
BY NextTypes, NextDated, NextFresh, NextOnce DEF Screens

\* Screens holds in every state.
THEOREM ScreensInvariant == Spec => []Screens
<1>1. Init => Screens
  BY InitScreens
<1>2. Screens /\ [Next]_vars => Screens'
  BY NextScreens
<1>3. QED
  BY <1>1, <1>2, PTL DEF Spec

\* Tables, lists, dialogs and requests keep their types: no movement takes more than
\* there is.
THEOREM TypeCorrect == Spec => []TypeOK
<1>1. Screens => TypeOK
  BY DEF Screens
<1>2. QED
  BY <1>1, ScreensInvariant, PTL

\* However often a dialog is confirmed, closed or left, and however late its answers
\* come, it moves stock at most once unless an answer was lost.
THEOREM DialogsMoveOnce == Spec => []OncePerDialog
<1>1. Screens => OncePerDialog
  BY DEF Screens, Once, OnceFor, OncePerDialog
<1>2. QED
  BY <1>1, ScreensInvariant, PTL

\* A list that has data and does not count as stale shows every change the user was
\* told of, unless its answer was read before an invalidation that did not cancel it:
\* a first load, or a request left behind off screen.
THEOREM ListsShowOwnChanges == Spec => []OwnChangesShown
<1>1. Screens => OwnChangesShown
  BY DEF Screens, Fresh
<1>2. QED
  BY <1>1, ScreensInvariant, PTL
=============================================================================
