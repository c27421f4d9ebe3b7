---------------------------- MODULE StockScreens ----------------------------
(***************************************************************************)
(* The stock pages of the web client as one user works with them: the      *)
(* lists of InventoryPage and WarehouseDetailPage in the query cache, the   *)
(* dialogs over them with the row they were opened on, the requests they    *)
(* send and the realtime broadcasts.  The API behind them is one atomic     *)
(* movement (InventoryApi and InventoryService model it); other users move  *)
(* stock too.  A request may be processed late or never, and its answer may *)
(* be lost: the client gives up after its timeout and may try again.        *)
(***************************************************************************)
EXTENDS Integers, FiniteSets, ListQuery

CONSTANTS Items, Views,     \* items, and the lists the pages can show
          FirstView,        \* the list the inventory page opens with
          PageOf,           \* the page a list belongs to
          WarehouseOf,      \* the warehouse of an item
          Existing,         \* the items that are there at the start
          InitialStock,
          Uses,             \* Uses[i]: the dialogs the user opens on item i
          Amounts,          \* quantities the user enters
          NoDialog,
          Shared, Deltas,   \* the items other users move, and by how much
          MaxDialogs,       \* bound on the dialogs opened
          MaxEvents,        \* bound on confirmations, changes of the list, movements
                            \* of other users and failed fetches together
          MaxLate           \* bound on abandoned requests the API may still perform

Pages == {"inventory", "warehouse"}
Kinds == {"issue", "restock", "add", "transfer", "assign", "writeoff", "delete"}

ASSUME StockScreensConstants ==
    /\ PageOf \in [Views -> Pages]
    /\ FirstView \in Views /\ PageOf[FirstView] = "inventory"
    /\ Existing \subseteq Items
    /\ Uses \in [Items -> SUBSET Kinds]
    /\ Amounts \subseteq Nat /\ InitialStock \in Nat
    /\ Shared \subseteq Items /\ Deltas \subseteq Int
    /\ {MaxDialogs, MaxEvents, MaxLate} \subseteq Nat

VARIABLES
    rows, stock,    \* the database: which items are there, and their quantity
    moved,          \* items the ledger has a row of
    version,        \* number of changes committed so far
    cache,          \* Views -> query
    view,           \* the list on screen
    visit,          \* counts the mounts of a page: local state ends with one
    dialog,         \* the dialog over the page
    opened,         \* number of dialogs opened so far
    requests,       \* what was sent and is not settled on both sides
    events,         \* counts what MaxEvents bounds
    committed,      \* history: dialog -> movements committed for it
    unsure,         \* history: dialogs that lost an answer
    acked,          \* history: the last change whose success the user saw
    late, behind    \* history: lists that are loading, or show, an answer which an
                    \* invalidation overtook without cancelling it

db == <<rows, stock, moved, version>>
vars == <<rows, stock, moved, version, cache, view, visit, dialog, opened, requests,
          events, committed, unsure, acked, late, behind>>

Listed == {i \in Items : rows[i] = "listed"}
Snapshot == [at |-> version, listed |-> Listed, stock |-> stock]
Snapshots == [at : Nat, listed : SUBSET Items, stock : [Items -> Nat]]

Visits == 1..(MaxEvents + 1)
Dialog == [no : 1..MaxDialogs, kind : Kinds, item : Items, seen : Nat]
Request == [no : 1..MaxEvents, dialog : 1..MaxDialogs, visit : Visits, kind : Kinds,
            item : Items, to : Items, amount : Nat, waiting : BOOLEAN,
            state : {"sent", "done", "refused"}, at : Nat]

Init ==
    /\ rows = [i \in Items |-> IF i \in Existing THEN "listed" ELSE "absent"]
    /\ stock = [i \in Items |-> IF i \in Existing THEN InitialStock ELSE 0]
    /\ moved = {} /\ version = 0
    /\ view = FirstView
    /\ cache = [v \in Views |-> IF v = FirstView THEN Ask(Unfetched) ELSE Unfetched]
    /\ visit = 1 /\ dialog = NoDialog /\ opened = 0 /\ requests = {}
    /\ events = 0
    /\ committed = [n \in 1..MaxDialogs |-> 0]
    /\ unsure = {} /\ acked = 0 /\ late = {} /\ behind = {}

(***************************************************************************)
(* The lists.                                                              *)
(***************************************************************************)
page == PageOf[view]

\* An invalidation misses a list whose request was answered before it and is
\* not cancelled by it.
Misses(v) == cache[v].fetch = "read" /\ (v # view \/ cache[v].data = NoData)

\* Faulty variant of the next: only the list on screen is invalidated.
InvalidateShown ==
    /\ cache' = [cache EXCEPT ![view] = Invalidated(@, TRUE)]
    /\ late' = (late \ {view}) \cup (IF Misses(view) THEN {view} ELSE {})
    /\ UNCHANGED behind

\* invalidateQueries(["inventory"]): every list, the one on screen asks anew.
InvalidateLists ==
    /\ cache' = [v \in Views |-> Invalidated(cache[v], v = view)]
    /\ late' = {v \in Views : Misses(v)} \cup {v \in late : cache'[v].fetch = "read"}
    /\ UNCHANGED behind

Becomes(v, q) ==
    /\ cache' = [cache EXCEPT ![v] = q]
    /\ late' = IF q.fetch = "read" THEN late ELSE late \ {v}

\* A page opens, or another search: the list of that key takes the screen.  Its data
\* may have passed its staleTime in the meantime.
Show(v) ==
    /\ view' = v
    /\ \E q \in {cache[v], Aged(cache[v])} : Becomes(v, Mounted(q))
    /\ UNCHANGED behind

\* One of the bounded events.
Event == events < MaxEvents /\ events' = events + 1

OnlyLists == UNCHANGED <<db, view, visit, dialog, opened, requests, committed,
                        unsure, acked>>

\* Faulty variant of the next: only a list that is stale asks again.
PollWhenStale ==
    /\ cache[view].fetch = "idle" /\ cache[view].stale
    /\ Becomes(view, Polled(cache[view]))
    /\ OnlyLists /\ UNCHANGED <<events, behind>>

Poll ==
    /\ cache[view].fetch = "idle"
    /\ Becomes(view, Polled(cache[view]))
    /\ OnlyLists /\ UNCHANGED <<events, behind>>
Read(v) ==
    /\ cache[v].fetch = "asked"
    /\ Becomes(v, Answered(cache[v], Snapshot))
    /\ OnlyLists /\ UNCHANGED <<events, behind>>
Arrive(v) ==
    /\ cache[v].fetch = "read"
    /\ Becomes(v, Arrived(cache[v]))
    /\ behind' = IF v \in late THEN behind \cup {v} ELSE behind \ {v}
    /\ OnlyLists /\ UNCHANGED events
FailFetch(v) ==
    /\ cache[v].fetch # "idle"
    /\ Event
    /\ Becomes(v, Failed(cache[v]))
    /\ OnlyLists /\ UNCHANGED behind

\* The realtime channel reports a change of some inventory_items row: of a movement,
\* or of a column that no list shows.  What happens while it is down is never told.
Broadcast ==
    /\ InvalidateLists
    /\ UNCHANGED <<db, view, visit, dialog, opened, requests, events,
                   committed, unsure, acked>>

(***************************************************************************)
(* The user.                                                               *)
(***************************************************************************)
Screen == <<view, visit>>
Hidden == <<events, committed, unsure, acked>>

\* A new search text or page number; the dialogs cover those fields.
ChangeList(v) ==
    /\ dialog = NoDialog /\ v # view /\ PageOf[v] = page
    /\ Show(v)
    /\ Event
    /\ UNCHANGED <<db, visit, dialog, opened, requests, committed, unsure, acked>>

\* Another page is mounted; what was open on this one is gone.
Navigate(v) ==
    /\ PageOf[v] # page
    /\ Event
    /\ visit' = visit + 1 /\ dialog' = NoDialog
    /\ Show(v)
    /\ UNCHANGED <<db, opened, requests, committed, unsure, acked>>

\* The buttons of a row, on either page.
InventoryButtons(i) == {"issue", "restock", "transfer", "delete"}
    \cup (IF cache[view].data.stock[i] > 0 THEN {"writeoff"} ELSE {})
WarehouseButtons(i) == {"assign", "transfer", "delete"}
    \cup (IF cache[view].data.stock[i] > 0 THEN {"writeoff"} ELSE {})
Buttons(i) == IF page = "inventory" THEN InventoryButtons(i) ELSE WarehouseButtons(i)

\* A dialog keeps the row as it was when the button was pressed.
OpenDialog(k, i, quantity) ==
    /\ dialog = NoDialog /\ opened < MaxDialogs /\ k \in Uses[i]
    /\ opened' = opened + 1
    /\ dialog' = [no |-> opened + 1, kind |-> k, item |-> i, seen |-> quantity]
    /\ UNCHANGED <<db, cache, Screen, requests, Hidden, late, behind>>

OpenRow(k, i) ==
    /\ cache[view].data # NoData /\ i \in cache[view].data.listed
    /\ k \in Buttons(i)
    /\ OpenDialog(k, i, cache[view].data.stock[i])

\* "Add item" needs no row.
OpenAdd(i) == page = "inventory" /\ OpenDialog("add", i, 0)

\* Cancel, Escape or the cross: also while the request is on its way.
CloseDialog ==
    /\ dialog # NoDialog
    /\ dialog' = NoDialog
    /\ UNCHANGED <<db, cache, Screen, opened, requests, Hidden, late, behind>>

\* Faulty variant of the next: the dialogs with a form leave the button enabled.
PendingOfPage ==
    \E r \in requests :
        r.waiting /\ dialog.kind \in {"writeoff", "delete"} /\ r.kind = dialog.kind /\ r.visit = visit

\* mutation.isPending: write-off and delete belong to the page and outlive their
\* dialog, the other mutations to the dialog that was opened.
Pending ==
    \E r \in requests :
        /\ r.waiting
        /\ IF dialog.kind \in {"writeoff", "delete"}
             THEN r.kind = dialog.kind /\ r.visit = visit
             ELSE r.dialog = dialog.no

\* The confirm button: disabled while pending.  An error leaves it enabled again.
Confirm(k, amount, to) ==
    /\ dialog # NoDialog /\ dialog.kind = k /\ ~Pending
    /\ Event
    /\ requests' = requests \cup
           {[no |-> events', dialog |-> dialog.no, visit |-> visit, kind |-> k,
             item |-> dialog.item, to |-> to, amount |-> amount, waiting |-> TRUE,
             state |-> "sent", at |-> 0]}
    /\ UNCHANGED <<db, cache, Screen, dialog, opened, committed, unsure, acked, late, behind>>

Fits(amount) == 0 < amount /\ amount <= dialog.seen
Elsewhere == {j \in Items : WarehouseOf[j] # WarehouseOf[dialog.item] /\ rows[j] # "absent"}

\* What each dialog lets through; the issue form does not compare the quantity.
IssueModal == \E q \in Amounts : Confirm("issue", q, dialog.item)
RestockModal == \E q \in Amounts : Confirm("restock", q, dialog.item)
AddItemModal == \E q \in Amounts : Confirm("add", q, dialog.item)
Transfer == dialog # NoDialog /\ \E q \in Amounts, j \in Elsewhere : Fits(q) /\ Confirm("transfer", q, j)
TransferModal == page = "inventory" /\ Transfer
WriteOffDialog == page = "inventory" /\ Confirm("writeoff", dialog.seen, dialog.item)
DeleteDialog == page = "inventory" /\ Confirm("delete", 0, dialog.item)

\* Their counterparts of WarehouseDetailPage, and its own way to issue.
BusAssignModal == dialog # NoDialog /\ \E q \in Amounts : Fits(q) /\ Confirm("assign", q, dialog.item)
WarehouseTransferModal == page = "warehouse" /\ Transfer
DropStockDialog == page = "warehouse" /\ Confirm("writeoff", dialog.seen, dialog.item)
WarehouseDeleteDialog == page = "warehouse" /\ Confirm("delete", 0, dialog.item)

User ==
    \/ \E v \in Views : ChangeList(v) \/ Navigate(v)
    \/ \E i \in Items : OpenAdd(i) \/ \E k \in Kinds : OpenRow(k, i)
    \/ CloseDialog
    \/ IssueModal \/ RestockModal \/ AddItemModal \/ TransferModal
    \/ WriteOffDialog \/ DeleteDialog
    \/ BusAssignModal \/ WarehouseTransferModal \/ DropStockDialog \/ WarehouseDeleteDialog

(***************************************************************************)
(* The API and the other users.                                            *)
(***************************************************************************)
Changed == version' = version + 1

Taking(r) ==
    /\ r.kind \in {"issue", "assign", "writeoff", "transfer"}
    /\ rows[r.item] = "listed" /\ 0 < r.amount
    /\ r.kind = "transfer" => rows[r.to] = "listed"
    /\ stock' = [i \in Items |-> CASE i = r.item /\ r.kind = "transfer" /\ r.to = i -> stock[i]
                                   [] i = r.item -> stock[i] - r.amount
                                   [] i = r.to -> stock[i] + r.amount
                                   [] OTHER -> stock[i]]
    /\ moved' = moved \cup {r.item, r.to}
    /\ UNCHANGED rows

\* Faulty variant of the next: the stock is not looked at.
TakesBlindly(r) == Taking(r)

\* The movements, each refused as a whole unless its condition holds.
Takes(r) == r.amount <= stock[r.item] /\ Taking(r)
Adds(r) ==
    /\ r.kind = "restock" /\ rows[r.item] = "listed" /\ 0 < r.amount
    /\ stock' = [stock EXCEPT ![r.item] = @ + r.amount]
    /\ moved' = moved \cup {r.item}
    /\ UNCHANGED rows
Creates(r) ==
    /\ r.kind = "add" /\ rows[r.item] = "absent"
    /\ rows' = [rows EXCEPT ![r.item] = "listed"]
    /\ stock' = [stock EXCEPT ![r.item] = r.amount]
    /\ UNCHANGED moved
Deletes(r) ==
    /\ r.kind = "delete" /\ rows[r.item] = "listed" /\ r.item \notin moved
    /\ rows' = [rows EXCEPT ![r.item] = "deleted"]
    /\ stock' = [stock EXCEPT ![r.item] = 0]
    /\ UNCHANGED moved
Performs(r) == Takes(r) \/ Adds(r) \/ Creates(r) \/ Deletes(r)

\* What the API turns down: a condition fails, or a movement finds that the stock
\* changed between its steps.
Refusable(r) ==
    CASE r.kind = "delete" -> rows[r.item] # "listed" \/ r.item \in moved
      [] r.kind = "add" -> rows[r.item] # "absent"
      [] OTHER -> TRUE

Update(r, changes) == requests' = (requests \ {r}) \cup
    (IF changes.waiting THEN {changes} ELSE {})

\* The API performs a request; it may do so after the client gave up.
Perform(r) ==
    /\ r.state = "sent" /\ Performs(r) /\ Changed
    /\ Update(r, [r EXCEPT !.state = "done", !.at = version + 1])
    /\ committed' = [committed EXCEPT ![r.dialog] = @ + 1]
    /\ UNCHANGED <<cache, view, visit, dialog, opened, events, unsure,
                   acked, late, behind>>

Refuse(r) ==
    /\ r.state = "sent" /\ Refusable(r)
    /\ Update(r, [r EXCEPT !.state = "refused"])
    /\ UNCHANGED <<db, cache, view, visit, dialog, opened, Hidden, late, behind>>

OtherUserMoves(i) ==
    /\ Event /\ rows[i] = "listed"
    /\ \E delta \in Deltas :
          /\ stock[i] + delta >= 0
          /\ stock' = [stock EXCEPT ![i] = @ + delta]
    /\ moved' = moved \cup {i}
    /\ Changed
    /\ UNCHANGED <<rows, cache, view, visit, dialog, opened, requests, committed,
                   unsure, acked, late, behind>>

(***************************************************************************)
(* The outcome of a request at the client.                                 *)
(***************************************************************************)
Waiting == {r \in requests : r.waiting}

\* onSuccess: the lists are invalidated and the page clears its dialog of that
\* kind, also when it has been opened for another item since.
Succeed(r) ==
    /\ r.state = "done"
    /\ requests' = requests \ {r}
    /\ acked' = IF r.at > acked THEN r.at ELSE acked
    /\ InvalidateLists
    /\ dialog' = IF dialog # NoDialog /\ dialog.kind = r.kind /\ r.visit = visit
                 THEN NoDialog ELSE dialog
    /\ UNCHANGED <<db, Screen, opened, events, committed, unsure>>

\* onError: a message, and the dialog stays as it is.
Fail(r) ==
    /\ r.state = "refused"
    /\ requests' = requests \ {r}
    /\ UNCHANGED <<db, cache, Screen, dialog, opened, Hidden, late, behind>>

Abandons(r) ==
    /\ requests' = (requests \ {r}) \cup
           (IF r.state = "sent" /\ Cardinality(requests \ Waiting) < MaxLate
              THEN {[r EXCEPT !.waiting = FALSE]} ELSE {})
    /\ unsure' = unsure \cup {r.dialog}
    /\ UNCHANGED <<db, cache, Screen, dialog, opened, events, committed, acked,
                   late, behind>>

\* Faulty variant of the next: without a timeout the client waits for the API.
GivesUpOnAnswer(r) == r.state # "sent" /\ Abandons(r)

\* A timeout, or a 5xx or network error: onError as well, whatever the API did or
\* is still going to do.
GiveUp(r) == Abandons(r)

Answer(r) == Succeed(r) \/ Fail(r) \/ GiveUp(r)

Next ==
    \/ Poll \/ (\E v \in Views : Read(v) \/ Arrive(v) \/ FailFetch(v))
    \/ Broadcast
    \/ User
    \/ \E r \in requests : Perform(r) \/ Refuse(r)
    \/ \E i \in Shared : OtherUserMoves(i)
    \/ \E r \in Waiting : Answer(r)

\* Timers and the database's answers keep coming; the user, the API, the other
\* users and the realtime channel owe nothing.
Fairness ==
    /\ WF_vars(Poll)
    /\ \A v \in Views : WF_vars(Read(v)) /\ WF_vars(Arrive(v))
    /\ WF_vars(\E r \in Waiting : Answer(r))

Spec == Init /\ [][Next]_vars /\ Fairness

(***************************************************************************)
(* Properties.                                                             *)
(***************************************************************************)
\* Tables, lists, dialogs and requests keep their types.
TypeOK ==
    /\ rows \in [Items -> {"absent", "listed", "deleted"}] /\ stock \in [Items -> Nat]
    /\ moved \in SUBSET Items /\ version \in Nat
    /\ cache \in [Views -> Query(Snapshots)]
    /\ view \in Views /\ visit \in Visits
    /\ dialog \in Dialog \cup {NoDialog} /\ opened \in 0..MaxDialogs
    /\ requests \in SUBSET Request
    /\ events \in 0..MaxEvents
    /\ committed \in [1..MaxDialogs -> Nat]
    /\ unsure \in SUBSET (1..MaxDialogs) /\ acked \in Nat
    /\ late \in SUBSET Views /\ behind \in SUBSET Views

\* One dialog moves stock at most once, however often it is confirmed, unless one
\* of its answers was lost: the confirm button is disabled while pending, and a
\* success ends the dialog (ModalActions, onSuccess).
OncePerDialog == \A n \in 1..MaxDialogs : n \in unsure \/ committed[n] <= 1

\* A list that counts as fresh shows every change of whose success the user was
\* told, unless it was loading an older answer that the invalidation did not
\* cancel: a first load, or one left behind when the list changed.
OwnChangesShown ==
    \A v \in Views \ behind :
        cache[v].data # NoData /\ ~cache[v].stale => cache[v].data.at >= acked

\* Once the broadcasts that restart its request cease, the list on screen ends up with
\* what the database holds, also when none told of the change and every invalidation
\* was overtaken: it polls.
ListCatchesUp ==
    <>[][~Broadcast]_vars => <>[](cache[view].data # NoData /\ cache[view].data.at = version)

\* No confirmation stays pending for ever: the client gives up on a request after
\* 30 s (api.ts).
PendingEnds == []<>(Waiting = {})
=============================================================================
