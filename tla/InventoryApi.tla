---------------------------- MODULE InventoryApi ----------------------------
(***************************************************************************)
(* The REST inventory handlers of backend/app/api/routes/inventory.py.     *)
(*                                                                         *)
(* A handler is a coroutine: between two awaits nothing else of it runs,   *)
(* and every await is one PostgREST call that the database executes and    *)
(* commits on its own.  A step of this module is therefore one database    *)
(* call together with the Python code up to the next one, and steps of     *)
(* different requests (of one worker or of several) interleave freely.     *)
(*                                                                         *)
(* The alert engine that the stock handlers call last writes to the tables *)
(* alerts and notifications only; it is a component of its own.            *)
(***************************************************************************)
EXTENDS Integers, FiniteSets

CONSTANTS
    Requests,      \* handler executions; each serves one HTTP request
    Items,         \* primary keys of inventory_items, used and still unused
    Warehouses,
    WarehouseOf,   \* inventory_items.warehouse_id: no handler changes it
    Reserved,      \* inventory_items.reserved_quantity: no handler changes it
    Amounts,       \* the quantities a request may ask for
    InitialRows,   \* the items that exist at first
    InitialStocks, \* the quantities they may have, and those of new items
    Uses,          \* the endpoints that clients use on each item
    NoRequest,     \* what a handler that is not running works on
    NoTxn          \* rollback_of_id IS NULL

AllKinds == {"issue", "restock", "transfer", "rollback", "create", "delete"}

\* reserved_quantity starts at 0 in create_item, and nothing writes it later.
ASSUME ConstantsAssumption ==
    /\ WarehouseOf \in [Items -> Warehouses]
    /\ Reserved \in [Items -> Nat]
    /\ Amounts \subseteq Nat \ {0}
    /\ InitialRows \subseteq Items
    /\ InitialStocks \subseteq Nat
    /\ Uses \in [Items -> SUBSET AllKinds]
    /\ \A i \in Items \ InitialRows : Reserved[i] = 0

Used(kind) == {i \in Items : kind \in Uses[i]}

Legs == {"main", "inbound"}

\* uuid4 keys: the k-th row of request r has a key that no other row has.
TxnIds == Requests \X Legs

ASSUME SentinelAssumption == NoTxn \notin TxnIds

VARIABLES
    rows,       \* the keys present in inventory_items
    deleted,    \* the keys that were present and are not any more
    qty,        \* inventory_items.quantity
    ledger,     \* inventory_transactions, without its status column
    rolledBack, \* the keys of the transactions whose status is ROLLED_BACK
    audit,      \* audit_logs
    unrecorded, \* history: the rows due for a change of stock and never inserted
    pc,         \* the call each handler makes next
    req,        \* the request body, or what rollback read of the original
    seen,       \* the quantities the handler has read
    earlier     \* history: the requests that were over when this rollback began

\* What outlives the handlers: the tables, and the record of what they lack.
dbvars == <<rows, deleted, qty, ledger, rolledBack, audit, unrecorded>>
vars == <<rows, deleted, qty, ledger, rolledBack, audit, unrecorded, pc, req, seen, earlier>>

-----------------------------------------------------------------------------
(* Types *)

TxnTypes == {"ISSUE", "RESTOCK", "TRANSFER"}

\* Numeric(12, 3) columns hold whole multiples of a thousandth: a quantity is
\* counted in that unit.
Txn == [id: TxnIds, type: TxnTypes, item: Items, warehouse: Warehouses,
        delta: Nat \ {0}, before: Nat, after: Nat, rollbackOf: TxnIds \cup {NoTxn}]

\* item is the source of a transfer and dest its destination; the other kinds
\* have dest = item.  A rollback has the original's item, amount and type.
Body == [kind: AllKinds, item: Items, dest: Items, warehouse: Warehouses,
         amount: Nat \ {0}, target: TxnIds \cup {NoTxn}, reverses: TxnTypes \cup {"NONE"}]

Snapshot == [item: Nat, dest: Nat]
Unread == [item |-> 0, dest |-> 0]

AuditEntry == [request: Requests, action: AllKinds]

Finished == {"done", "rejected", "failed"}
Running == {"cas", "write", "readDest", "debit", "credit", "readItem", "reverse",
            "mark", "insert", "insertInbound", "delete", "audit"}
Labels == {"idle"} \cup Running \cup Finished

TypeOK ==
    /\ rows \subseteq Items
    /\ deleted \subseteq Items
    /\ qty \in [Items -> Nat]
    /\ ledger \subseteq Txn
    /\ rolledBack \subseteq TxnIds
    /\ audit \subseteq AuditEntry
    /\ unrecorded \subseteq Txn
    /\ pc \in [Requests -> Labels]
    /\ req \in [Requests -> Body \cup {NoRequest}]
    /\ seen \in [Requests -> Snapshot]
    /\ earlier \in [Requests -> SUBSET Requests]
    /\ \A r \in Requests : pc[r] \in Running => req[r] \in Body

-----------------------------------------------------------------------------
(* What the handlers share *)

Init ==
    /\ rows = InitialRows
    /\ deleted = {}
    /\ qty \in [Items -> InitialStocks \cup {0}]
    /\ \A i \in Items : IF i \in rows THEN qty[i] \in InitialStocks /\ qty[i] >= Reserved[i]
                                      ELSE qty[i] = 0
    /\ ledger = {}
    /\ rolledBack = {}
    /\ audit = {}
    /\ unrecorded = {}
    /\ pc = [r \in Requests |-> "idle"]
    /\ req = [r \in Requests |-> NoRequest]
    /\ seen = [r \in Requests |-> Unread]
    /\ earlier = [r \in Requests |-> {}]

Goto(r, label) == pc' = [pc EXCEPT ![r] = label]

\* The handler returns or raises: its local variables are gone.
Finish(r, label) ==
    /\ Goto(r, label)
    /\ req' = [req EXCEPT ![r] = NoRequest]
    /\ seen' = [seen EXCEPT ![r] = Unread]
    /\ UNCHANGED earlier

\* The handler starts on body b after reading quantity n of its item.
Begin(r, b, n, label) ==
    /\ Goto(r, label)
    /\ req' = [req EXCEPT ![r] = b]
    /\ seen' = [seen EXCEPT ![r].item = n]
    /\ earlier' = [earlier EXCEPT ![r] =
                     {q \in Requests : b.kind = "rollback" /\ pc[q] \in Finished}]

StockBody(kind, i, a) ==
    [kind |-> kind, item |-> i, dest |-> i, warehouse |-> WarehouseOf[i],
     amount |-> a, target |-> NoTxn, reverses |-> "NONE"]

AvailableIgnoringReserved(i) == qty[i]   \* faulty, see below
Available(i) == qty[i] - Reserved[i]

AddsStock(b) == b.kind = "restock" \/ (b.kind = "rollback" /\ b.reverses = "ISSUE")

\* new_qty, new_src: the value the handler computes from the one it read.
NewQty(r) == IF AddsStock(req[r]) THEN seen[r].item + req[r].amount
                                  ELSE seen[r].item - req[r].amount

\* UPDATE inventory_items SET quantity = q WHERE id = i: no row, no change and
\* no error; a negative q is refused by the CHECK constraint.
SetQuantity(i, q) ==
    /\ q >= 0
    /\ qty' = IF i \in rows THEN [qty EXCEPT ![i] = q] ELSE qty

Write(r, i, q, next) ==
    /\ SetQuantity(i, q)
    /\ Goto(r, next)
    /\ UNCHANGED <<rows, deleted, ledger, rolledBack, audit, unrecorded, req, seen, earlier>>

-----------------------------------------------------------------------------
(* Faulty variants of definitions below, each a plausible slip in the code.
   No action uses them: they are what the properties are tried against. *)

CompareNothing(r) == req[r].item \in rows
TransferUnchecked(r) == req[r].dest \in rows /\ WarehouseOf[req[r].item] # req[r].warehouse
SignedDelta(r) == NewQty(r) - seen[r].item
ReversibleTwice(t) == t.type \in {"ISSUE", "RESTOCK"}

-----------------------------------------------------------------------------
(* Rows that the handlers insert into inventory_transactions *)

TxnType(b) == CASE b.kind = "issue" -> "ISSUE"
                [] b.kind = "restock" -> "RESTOCK"
                [] b.kind = "transfer" -> "TRANSFER"
                [] OTHER -> b.reverses

Delta(r) == req[r].amount

MainRow(r) ==
    [id |-> <<r, "main">>, type |-> TxnType(req[r]), item |-> req[r].item,
     warehouse |-> WarehouseOf[req[r].item], delta |-> Delta(r),
     before |-> seen[r].item, after |-> NewQty(r), rollbackOf |-> req[r].target]

\* The inbound leg is filed under the warehouse the body names.
InboundRow(r) ==
    [id |-> <<r, "inbound">>, type |-> "TRANSFER", item |-> req[r].dest,
     warehouse |-> req[r].warehouse, delta |-> Delta(r),
     before |-> seen[r].dest, after |-> seen[r].dest + req[r].amount, rollbackOf |-> NoTxn]

\* The row of a handler that changed a quantity and has still to record it; a
\* handler that stops there leaves the change without a row.
Due(r) == IF pc[r] = "insert" THEN {MainRow(r)} ELSE {}

\* _insert_transaction: the foreign key refuses a row whose item is gone, and
\* the handler then raises.
Insert(r, row, next) ==
    /\ \/ /\ row.item \in rows
          /\ ledger' = ledger \cup {row}
          /\ Goto(r, next)
          /\ UNCHANGED <<unrecorded, req, seen, earlier>>
       \/ /\ row.item \notin rows
          /\ UNCHANGED ledger
          /\ unrecorded' = unrecorded \cup Due(r)
          /\ Finish(r, "failed")
    /\ UNCHANGED <<rows, deleted, qty, rolledBack, audit>>

\* Faulty: the second leg of a transfer is forgotten.
ForgetInbound(r) == pc[r] = "insert" /\ Insert(r, MainRow(r), "audit")

InsertTransaction(r) ==
    /\ pc[r] = "insert"
    /\ Insert(r, MainRow(r), IF req[r].kind = "transfer" THEN "insertInbound" ELSE "audit")

InsertInbound(r) ==
    /\ pc[r] = "insertInbound"
    /\ Insert(r, InboundRow(r), "audit")

\* write_audit_log swallows every exception; the response goes out either way.
WriteAudit(r) ==
    /\ pc[r] = "audit"
    /\ \/ audit' = audit \cup {[request |-> r, action |-> req[r].kind]}
       \/ UNCHANGED audit
    /\ Finish(r, "done")
    /\ UNCHANGED <<rows, deleted, qty, ledger, rolledBack, unrecorded>>

\* A call raises (the connection, a statement timeout, a constraint), or the
\* process dies: nothing undoes the calls before it.  A call that took effect and
\* whose answer is lost is the call, and then this step.
Fail(r) ==
    /\ pc[r] \in Running
    /\ unrecorded' = unrecorded \cup Due(r)
    /\ Finish(r, "failed")
    /\ UNCHANGED <<rows, deleted, qty, ledger, rolledBack, audit>>

\* The handler raises 404, 409, 422 before it wrote anything.
Reject(r) ==
    /\ Finish(r, "rejected")
    /\ UNCHANGED dbvars

-----------------------------------------------------------------------------
(* issue_item *)

IssueRead(r) ==
    /\ pc[r] = "idle"
    /\ \E i \in Used("issue"), a \in Amounts :
          \/ /\ i \in rows /\ Available(i) >= a
             /\ Begin(r, StockBody("issue", i, a), qty[i], "cas")
             /\ UNCHANGED dbvars
          \/ /\ ~(i \in rows /\ Available(i) >= a)
             /\ Reject(r)

\* WHERE id = .. AND quantity = (the value read)
CompareMatches(r) == req[r].item \in rows /\ qty[req[r].item] = seen[r].item

IssueUpdate(r) ==
    /\ pc[r] = "cas"
    /\ \/ CompareMatches(r) /\ Write(r, req[r].item, NewQty(r), "insert")
       \/ ~CompareMatches(r) /\ Reject(r)

-----------------------------------------------------------------------------
(* restock_item *)

RestockRead(r) ==
    /\ pc[r] = "idle"
    /\ \E i \in Used("restock"), a \in Amounts :
          \/ /\ i \in rows
             /\ Begin(r, StockBody("restock", i, a), qty[i], "write")
             /\ UNCHANGED dbvars
          \/ i \notin rows /\ Reject(r)

RestockUpdate(r) ==
    /\ pc[r] = "write"
    /\ Write(r, req[r].item, NewQty(r), "insert")

-----------------------------------------------------------------------------
(* transfer_item *)

\* The body names the two items and the destination warehouse independently.
TransferReadSource(r) ==
    /\ pc[r] = "idle"
    /\ \E i, j \in Used("transfer"), w \in Warehouses, a \in Amounts :
          \/ /\ i \in rows
             /\ Begin(r, [StockBody("transfer", i, a) EXCEPT !.dest = j, !.warehouse = w],
                      qty[i], "readDest")
             /\ UNCHANGED dbvars
          \/ i \notin rows /\ Reject(r)

\* After the second read the source's warehouse and stock are checked; the
\* destination item's warehouse is not.
TransferAllowed(r) ==
    /\ req[r].dest \in rows
    /\ WarehouseOf[req[r].item] # req[r].warehouse
    /\ seen[r].item - Reserved[req[r].item] >= req[r].amount

TransferReadDest(r) ==
    /\ pc[r] = "readDest"
    /\ \/ /\ TransferAllowed(r)
          /\ seen' = [seen EXCEPT ![r].dest = qty[req[r].dest]]
          /\ Goto(r, "debit")
          /\ UNCHANGED <<rows, deleted, qty, ledger, rolledBack, audit, unrecorded, req, earlier>>
       \/ ~TransferAllowed(r) /\ Reject(r)

TransferDebit(r) ==
    /\ pc[r] = "debit"
    /\ Write(r, req[r].item, NewQty(r), "credit")

TransferCredit(r) ==
    /\ pc[r] = "credit"
    /\ Write(r, req[r].dest, seen[r].dest + req[r].amount, "insert")

-----------------------------------------------------------------------------
(* rollback_transaction *)

\* status = COMPLETED and the type is one of the two that can be rolled back
Reversible(t) == t.id \notin rolledBack /\ t.type \in {"ISSUE", "RESTOCK"}

\* The columns read here never change later, except for the status.
RollbackReadTxn(r) ==
    /\ pc[r] = "idle"
    /\ \/ \E t \in {u \in ledger : u.item \in Used("rollback")} :
             \/ /\ Reversible(t)
                /\ Begin(r, [StockBody("rollback", t.item, t.delta) EXCEPT
                               !.target = t.id, !.reverses = t.type], 0, "readItem")
                /\ UNCHANGED dbvars
             \/ ~Reversible(t) /\ Reject(r)
       \/ Reject(r)   \* no such transaction

\* n is the quantity just read; the check ignores what is reserved.
ReversalAllowed(b, n) ==
    /\ b.item \in rows
    /\ b.reverses = "ISSUE" \/ n - b.amount >= 0

RollbackReadItem(r) ==
    /\ pc[r] = "readItem"
    /\ LET n == qty[req[r].item] IN
          \/ /\ ReversalAllowed(req[r], n)
             /\ seen' = [seen EXCEPT ![r].item = n]
             /\ Goto(r, "reverse")
             /\ UNCHANGED <<rows, deleted, qty, ledger, rolledBack, audit, unrecorded, req, earlier>>
          \/ ~ReversalAllowed(req[r], n) /\ Reject(r)

RollbackUpdate(r) ==
    /\ pc[r] = "reverse"
    /\ Write(r, req[r].item, NewQty(r), "mark")

RollbackMark(r) ==
    /\ pc[r] = "mark"
    /\ rolledBack' = rolledBack \cup {req[r].target}
    /\ Goto(r, "insert")
    /\ UNCHANGED <<rows, deleted, qty, ledger, audit, unrecorded, req, seen, earlier>>

-----------------------------------------------------------------------------
(* create_item and delete_item *)

\* A new row has a fresh key; a missing field, a duplicate SKU, an unknown
\* warehouse or a negative quantity is refused.
CreateItem(r) ==
    /\ pc[r] = "idle"
    /\ \/ \E i \in Used("create") \ (rows \cup deleted), n \in InitialStocks :
             /\ rows' = rows \cup {i}
             /\ qty' = [qty EXCEPT ![i] = n]
             /\ Begin(r, StockBody("create", i, 1), 0, "audit")
             /\ UNCHANGED <<deleted, ledger, rolledBack, audit, unrecorded>>
       \/ Reject(r)

HasTransactions(i) == \E t \in ledger : t.item = i

DeleteCheck(r) ==
    /\ pc[r] = "idle"
    /\ \E i \in Used("delete") :
          \/ /\ ~HasTransactions(i)
             /\ Begin(r, StockBody("delete", i, 1), 0, "delete")
             /\ UNCHANGED dbvars
          \/ HasTransactions(i) /\ Reject(r)

\* DELETE: the foreign key refuses while a transaction names the item.
DeleteRow(r) ==
    /\ pc[r] = "delete"
    /\ LET i == req[r].item IN
          \/ /\ i \in rows /\ ~HasTransactions(i)
             /\ rows' = rows \ {i}
             /\ deleted' = deleted \cup {i}
             /\ qty' = [qty EXCEPT ![i] = 0]
             /\ Goto(r, "audit")
             /\ UNCHANGED <<ledger, rolledBack, audit, unrecorded, req, seen, earlier>>
          \/ i \notin rows /\ Reject(r)
          \/ /\ i \in rows /\ HasTransactions(i)
             /\ Finish(r, "failed") /\ UNCHANGED dbvars

-----------------------------------------------------------------------------

Issue(r) == IssueRead(r) \/ IssueUpdate(r)
Restock(r) == RestockRead(r) \/ RestockUpdate(r)
Transfer(r) == \/ TransferReadSource(r) \/ TransferReadDest(r)
               \/ TransferDebit(r) \/ TransferCredit(r) \/ InsertInbound(r)
Rollback(r) == \/ RollbackReadTxn(r) \/ RollbackReadItem(r)
               \/ RollbackUpdate(r) \/ RollbackMark(r)
Delete(r) == DeleteCheck(r) \/ DeleteRow(r)

Step(r) ==
    \/ Issue(r) \/ Restock(r) \/ Transfer(r) \/ Rollback(r)
    \/ CreateItem(r) \/ Delete(r)
    \/ InsertTransaction(r) \/ WriteAudit(r) \/ Fail(r)

Next == \E r \in Requests : Step(r)

Spec == Init /\ [][Next]_vars

-----------------------------------------------------------------------------
(* Safety properties *)

\* The item quantities still to be written are never negative: the handlers'
\* own checks keep the CHECK constraint ck_inventory_items_quantity_non_negative
\* (models/inventory.py: "last resort - catches bugs") from ever firing, whatever
\* other requests did between the read and the write.
PendingWritesValid ==
    \A r \in Requests :
        pc[r] \in {"cas", "write", "debit", "reverse"} => NewQty(r) >= 0

\* The stock of an item whose movements nobody rolls back never falls below what
\* is reserved, although restock and transfer write quantities computed from
\* stale reads: a lost update can falsify the stock, it cannot promise reserved
\* units twice.
ReservedKept == \A i \in rows \ Used("rollback") : qty[i] >= Reserved[i]

\* The units between after and before of a row left stock with that row.  Of an
\* item whose stock only leaves (nobody restocks, moves or rolls it back) no two
\* requests ever hand out the same unit: their ledger rows, and the rows still to
\* be inserted for quantities already written, cover disjoint ranges.
Disjoint(t, u) == t.before <= u.after \/ u.before <= t.after

PendingRows == {MainRow(r) : r \in {s \in Requests : pc[s] = "insert"}}

OnlyIssued == Items \ (Used("restock") \cup Used("transfer") \cup Used("rollback"))

IssuesDisjoint ==
    \A t, u \in ledger \cup PendingRows :
        t.item = u.item /\ t.item \in OnlyIssued => t.id = u.id \/ Disjoint(t, u)

\* The account of an item whose stock only leaves: its rows, those still to be
\* inserted, and those that a failed handler never inserted.
Account(i) == {t \in ledger \cup PendingRows \cup unrecorded : t.item = i}

\* Each row of such an account ends where exactly one other begins, or at the
\* stock: one chain without forks, down to the quantity the item has.  So the
\* gaps in the ledger are the rows of the handlers that failed between the
\* update and the insert (inventory.py:235 and 244) and no others, and a handler
\* that judges the stock on its row's "after" judges a quantity the item really
\* had, however late it gets to it.
IssuesAccountForStock ==
    \A i \in rows \cap OnlyIssued : LET L == Account(i) IN
        /\ L # {} => \E t \in L : t.after = qty[i]
        /\ \A t \in L : t.after = qty[i] \/ \E u \in L : u.before = t.after
        /\ \A t, u \in L : t.before = u.before \/ t.after = u.after => t.id = u.id
        /\ \A t, u \in L : (\A v \in L : v.after \notin {t.before, u.before}) => t.id = u.id

\* A compensating row is only ever there when its original is marked
\* ROLLED_BACK (rollback_transaction marks first, and may stop in between), and
\* only an ISSUE or a RESTOCK that was recorded is ever marked.
CompensationFollowsMark ==
    /\ \A t \in ledger : t.rollbackOf # NoTxn => t.rollbackOf \in rolledBack
    /\ \A id \in rolledBack : \E t \in ledger : t.id = id /\ t.type # "TRANSFER"

\* The two legs of a transfer are recorded in order and agree: an inbound row is
\* never there without the outbound row of the same request and quantity.
InboundHasOutbound ==
    \A t \in ledger : t.id[2] = "inbound" =>
        \E u \in ledger : /\ u.id = <<t.id[1], "main">>
                          /\ u.type = "TRANSFER" /\ u.delta = t.delta

\* A movement of request r that is recorded to the end: its row is in the ledger,
\* for a transfer with its second leg, over the same quantity; for a rollback with
\* the mark on the original.
Whole(r, kind) ==
    \E t \in ledger :
        /\ t.id = <<r, "main">>
        /\ kind = "rollback" <=> t.rollbackOf # NoTxn
        /\ kind = "rollback" => t.rollbackOf \in rolledBack
        /\ kind = "transfer" =>
             \E u \in ledger : u.id = <<r, "inbound">> /\ u.delta = t.delta

\* An audit entry never reports a movement that stopped halfway: whichever call
\* fails between the first update and the last insert, write_audit_log is reached
\* only when every row and mark of the movement is in, and nothing takes them back.
AuditMeansWhole ==
    \A e \in audit : e.action \in {"issue", "restock", "transfer", "rollback"} =>
        Whole(e.request, e.action)

\* The rows of rollbacks that reversed stock and marked their original: recorded,
\* still to be inserted, or never inserted by a handler that failed.
Reversals == {t \in ledger \cup PendingRows \cup unrecorded : t.rollbackOf # NoTxn}

\* Two rollbacks that both reverse and mark one original overlapped in time.  One that
\* began when the other was over is refused, whatever ran in between and even when
\* the other failed before it inserted its row (inventory.py:464).  Only one that
\* failed between its update and its mark leaves an original that is reversed again.
RetriedRollbackRefused ==
    \A t, u \in Reversals :
        t.rollbackOf = u.rollbackOf => t.id[1] \notin earlier[u.id[1]]

\* An issue that gets past the conditional UPDATE takes exactly its amount from
\* the quantity that is there at that moment, and leaves what is reserved; no
\* matter which endpoints run beside it.
IssueTakesExactly ==
    [][\A r \in Requests : pc[r] = "cas" /\ pc'[r] = "insert" =>
          LET i == req[r].item IN
             /\ qty'[i] = qty[i] - req[r].amount
             /\ qty'[i] >= Reserved[i]]_vars

-----------------------------------------------------------------------------
(* What the repository's comments and tests say, and the handlers do not do *)

Moved(r) == qty' # qty /\ pc'[r] # pc[r]

\* models/inventory.py:58: the quantity changes under a lock "to prevent lost
\* updates": a write moves the quantity it finds by the request's amount.
NoLostUpdate ==
    [][\A r \in Requests : pc[r] \in {"cas", "write"} /\ Moved(r) =>
          LET i == req[r].item
              d == IF AddsStock(req[r]) THEN req[r].amount ELSE -req[r].amount
          IN qty'[i] = qty[i] + d]_vars

\* models/transaction.py:4: "Every quantity change MUST be recorded as a
\* transaction": a handler that changed a quantity ends with its row inserted.
ChangesAreRecorded ==
    [][\A r \in Requests : pc[r] = "insert" /\ pc'[r] # "insert" =>
          \E t \in ledger' : t.id = <<r, "main">>]_vars

\* domain/exceptions/__init__.py:50: a rollback cannot be performed when the
\* transaction is already rolled back: one original, one compensating row.
RolledBackOnce ==
    \A t, u \in ledger :
        t.rollbackOf = u.rollbackOf /\ t.rollbackOf # NoTxn => t = u
=============================================================================
