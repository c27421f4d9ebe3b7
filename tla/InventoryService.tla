-------------------------- MODULE InventoryService --------------------------
(***************************************************************************)
(* The transaction service, application/services/inventory_service.py,     *)
(* over its repositories and the session of database/session.py.           *)
(*                                                                         *)
(* A request owns one SQLAlchemy session, that is one READ COMMITTED       *)
(* database transaction.  What it flushes is invisible to the others until *)
(* get_db commits it; the steps others can notice are the row locks it     *)
(* takes (SELECT .. FOR UPDATE NOWAIT), the event it publishes and the     *)
(* commit.  Flushing and the Python code between them belong to the step   *)
(* before.                                                                 *)
(***************************************************************************)
EXTENDS Integers, Sequences, FiniteSets

CONSTANTS
    Sessions,      \* requests served by the service, each with its session
    Items,         \* primary keys of inventory_items
    Rank,          \* the order of the keys that transfer_item sorts by
    Reserved,      \* inventory_items.reserved_quantity: never written
    Amounts,       \* the quantities a request may ask for
    InitialRows,   \* the items that exist at first
    InitialStocks, \* their quantities, and those of new items
    Kinds,         \* the operations in use
    Nobody,        \* a row that is not locked
    NoRequest,     \* what an idle or finished session works on
    NoTxn          \* rollback_of_id IS NULL

AllKinds == {"issue", "restock", "transfer", "rollback", "create"}
Legs == {"main", "inbound"}
TxnIds == Sessions \X Legs

ASSUME ServiceAssumption ==
    /\ Rank \in [Items -> Nat]
    /\ \A i, j \in Items : Rank[i] = Rank[j] => i = j
    /\ Reserved \in [Items -> Nat]
    /\ Amounts \subseteq Nat \ {0}
    /\ InitialRows \subseteq Items
    /\ InitialStocks \subseteq Nat
    /\ Kinds \subseteq AllKinds
    /\ Nobody \notin Sessions
    /\ NoTxn \notin TxnIds

VARIABLES
    rows,       \* the keys present in inventory_items
    qty,        \* inventory_items.quantity, as committed
    history,    \* per item, its inventory_transactions in commit order
    rolledBack, \* the transactions whose committed status is ROLLED_BACK
    audit,      \* audit_logs
    events,     \* what reached the broker on inventory.updated
    lockedBy,   \* the session that holds each row's lock
    pc,         \* where each request is
    req,        \* the DTO, or what rollback read of the original
    seen,       \* the quantities in the session's identity map
    asOf        \* history only: how many rows the item a rollback works on had
                \* when the rollback read the original

dbvars == <<rows, qty, history, rolledBack, audit>>
vars == <<rows, qty, history, rolledBack, audit, events, lockedBy, pc, req, seen, asOf>>

-----------------------------------------------------------------------------
(* Types *)

TxnTypes == {"ISSUE", "RESTOCK", "TRANSFER"}

Txn == [id: TxnIds, type: TxnTypes, delta: Nat \ {0}, before: Nat, after: Nat,
        rollbackOf: TxnIds \cup {NoTxn}]

Dto == [kind: AllKinds, item: Items, dest: Items, amount: Nat \ {0},
        target: TxnIds \cup {NoTxn}, reverses: TxnTypes \cup {"NONE"}]

Event == [session: Sessions, after: Nat]
AuditEntry == [session: Sessions, action: AllKinds]

Loaded == [item: Nat, dest: Nat]
NotLoaded == [item |-> 0, dest |-> 0]

Finished == {"done", "rejected", "failed"}
Running == {"second", "load", "relock", "publish", "commit", "aborting"}

TypeOK ==
    /\ rows \subseteq Items
    /\ qty \in [Items -> Nat]
    /\ history \in [Items -> Seq(Txn)]
    /\ rolledBack \subseteq TxnIds
    /\ audit \subseteq AuditEntry
    /\ events \subseteq Event
    /\ lockedBy \in [Items -> Sessions \cup {Nobody}]
    /\ pc \in [Sessions -> {"idle"} \cup Running \cup Finished]
    /\ req \in [Sessions -> Dto \cup {NoRequest}]
    /\ seen \in [Sessions -> Loaded]
    /\ asOf \in [Sessions -> Nat]
    /\ \A s \in Sessions : pc[s] \in Running => req[s] \in Dto

-----------------------------------------------------------------------------

Init ==
    /\ rows = InitialRows
    /\ qty \in [Items -> InitialStocks \cup {0}]
    /\ \A i \in Items : IF i \in rows THEN qty[i] \in InitialStocks ELSE qty[i] = 0
    /\ history = [i \in Items |-> <<>>]
    /\ rolledBack = {}
    /\ audit = {}
    /\ events = {}
    /\ lockedBy = [i \in Items |-> Nobody]
    /\ pc = [s \in Sessions |-> "idle"]
    /\ req = [s \in Sessions |-> NoRequest]
    /\ seen = [s \in Sessions |-> NotLoaded]
    /\ asOf = [s \in Sessions |-> 0]

Goto(s, label) == pc' = [pc EXCEPT ![s] = label]

\* Faulty variants of definitions below, each a plausible slip in the code.  No
\* action uses them: they are what the properties are tried against.
LockableUnlocked(s, i) == i \in rows /\ s \in Sessions
SufficientAlways(i, n, a) == i \in Items /\ n \in Nat /\ a \in Nat
ReleaseUnlessRejected(s, label) ==
    [i \in Items |-> IF lockedBy[i] = s /\ label # "rejected" THEN Nobody ELSE lockedBy[i]]
ReversibleTwice(t) == t.type \in {"ISSUE", "RESTOCK"}
EventBefore(s) == [session |-> s, after |-> seen[s].item]

StockDto(kind, i, a) ==
    [kind |-> kind, item |-> i, dest |-> i, amount |-> a, target |-> NoTxn,
     reverses |-> "NONE"]

Released(s, label) == [i \in Items |-> IF lockedBy[i] = s THEN Nobody ELSE lockedBy[i]]

\* The transaction ends: its locks go and its identity map with it.
Close(s, label) ==
    /\ Goto(s, label)
    /\ req' = [req EXCEPT ![s] = NoRequest]
    /\ seen' = [seen EXCEPT ![s] = NotLoaded]
    /\ asOf' = [asOf EXCEPT ![s] = 0]
    /\ lockedBy' = Released(s, label)

\* NOWAIT gives the lock at once or raises.
Lockable(s, i) == i \in rows /\ lockedBy[i] \in {Nobody, s}

Lock(s, i) == lockedBy' = [lockedBy EXCEPT ![i] = s]

\* The row's quantity enters the identity map as attribute of the item b names.
Load(s, b, i) ==
    seen' = [seen EXCEPT ![s] = [item |-> IF i = b.item THEN qty[i] ELSE @.item,
                                 dest |-> IF i = b.dest THEN qty[i] ELSE @.dest]]

\* assert_sufficient_stock, n being the item's quantity in the session
Sufficient(i, n, a) == n - Reserved[i] >= a

\* An exception leaves the service: get_db still has to roll back.
Raise(s, b) ==
    /\ Goto(s, "aborting")
    /\ req' = [req EXCEPT ![s] = b]

-----------------------------------------------------------------------------
(* issue_item and restock_item *)

LockForMovement(s, kind) ==
    /\ pc[s] = "idle" /\ kind \in Kinds
    /\ \E i \in Items, a \in Amounts : LET b == StockDto(kind, i, a) IN
          \/ /\ Lockable(s, i)
             /\ kind = "issue" => Sufficient(i, qty[i], a)
             /\ Lock(s, i) /\ Load(s, b, i)
             /\ req' = [req EXCEPT ![s] = b]
             /\ Goto(s, "publish")
          \/ /\ Lockable(s, i) /\ kind = "issue" /\ ~Sufficient(i, qty[i], a)
             /\ Lock(s, i) /\ Load(s, b, i) /\ Raise(s, b)
          \/ /\ ~Lockable(s, i)
             /\ Raise(s, b) /\ UNCHANGED <<lockedBy, seen>>
    /\ UNCHANGED <<rows, qty, history, rolledBack, audit, events, asOf>>

IssueItem(s) == LockForMovement(s, "issue")
RestockItem(s) == LockForMovement(s, "restock")

-----------------------------------------------------------------------------
(* transfer_item: both rows, in the order of their keys *)

FirstLock(b) == IF Rank[b.item] <= Rank[b.dest] THEN b.item ELSE b.dest
SecondLock(b) == IF Rank[b.item] <= Rank[b.dest] THEN b.dest ELSE b.item

TransferLockFirst(s) ==
    /\ pc[s] = "idle" /\ "transfer" \in Kinds
    /\ \E i, j \in Items, a \in Amounts :
          LET b == [StockDto("transfer", i, a) EXCEPT !.dest = j]
              x == FirstLock(b)
          IN \/ /\ Lockable(s, x)
                /\ Lock(s, x) /\ Load(s, b, x)
                /\ req' = [req EXCEPT ![s] = b]
                /\ Goto(s, "second")
             \/ /\ ~Lockable(s, x)
                /\ Raise(s, b) /\ UNCHANGED <<lockedBy, seen>>
    /\ UNCHANGED <<rows, qty, history, rolledBack, audit, events, asOf>>

\* The stock check runs once both rows are held.
TransferLockSecond(s) ==
    /\ pc[s] = "second"
    /\ LET b == req[s]
           x == SecondLock(b)
       IN \/ /\ Lockable(s, x)
             /\ Lock(s, x) /\ Load(s, b, x)
             /\ Goto(s, IF Sufficient(b.item, seen'[s].item, b.amount) THEN "commit" ELSE "aborting")
          \/ /\ ~Lockable(s, x)
             /\ Goto(s, "aborting") /\ UNCHANGED <<lockedBy, seen>>
    /\ UNCHANGED <<rows, qty, history, rolledBack, audit, events, req, asOf>>

-----------------------------------------------------------------------------
(* rollback_transaction *)

Reversible(t) == t.id \notin rolledBack /\ t.type \in {"ISSUE", "RESTOCK"}

\* get_by_id takes no lock.  Its first SELECT fetches the original, whose status
\* and type decide whether there is anything to roll back.
ReadOriginal(s) ==
    /\ pc[s] = "idle" /\ "rollback" \in Kinds
    /\ \/ \E i \in Items : \E k \in DOMAIN history[i] :
             LET t == history[i][k]
                 b == [StockDto("rollback", i, t.delta) EXCEPT !.target = t.id, !.reverses = t.type]
             IN \/ /\ Reversible(t)
                   /\ req' = [req EXCEPT ![s] = b]
                   /\ asOf' = [asOf EXCEPT ![s] = Len(history[i])]
                   /\ Goto(s, "load")
                   /\ UNCHANGED <<lockedBy, seen>>
                \/ ~Reversible(t) /\ Close(s, "rejected")
       \/ Close(s, "rejected")   \* no such transaction
    /\ UNCHANGED <<rows, qty, history, rolledBack, audit, events>>

\* Its selectinload is a SELECT of its own: under READ COMMITTED it sees what was
\* committed since the first, and puts the item with that quantity into the
\* identity map.
LoadItem(s) ==
    /\ pc[s] = "load"
    /\ Load(s, req[s], req[s].item)
    /\ Goto(s, "relock")
    /\ UNCHANGED <<rows, qty, history, rolledBack, audit, events, lockedBy, req, asOf>>

\* The locked SELECT returns the object that is in the identity map already,
\* attributes and all: the quantity stays the one read before the lock.
LockForRollback(s) ==
    /\ pc[s] = "relock"
    /\ LET b == req[s] IN
          \/ /\ Lockable(s, b.item)
             /\ Lock(s, b.item)
             /\ Goto(s, IF b.reverses = "ISSUE" \/ Sufficient(b.item, seen[s].item, b.amount)
                        THEN "commit" ELSE "aborting")
          \/ /\ ~Lockable(s, b.item)
             /\ Goto(s, "aborting") /\ UNCHANGED lockedBy
    /\ UNCHANGED <<rows, qty, history, rolledBack, audit, events, req, seen, asOf>>

-----------------------------------------------------------------------------
(* What a session writes *)

AddsStock(b) == b.kind = "restock" \/ (b.kind = "rollback" /\ b.reverses = "ISSUE")
SelfTransfer(b) == b.kind = "transfer" /\ b.dest = b.item

\* A transfer to the same item subtracts and adds on one object.
After(s) == CASE SelfTransfer(req[s]) -> seen[s].item
              [] AddsStock(req[s]) -> seen[s].item + req[s].amount
              [] OTHER -> seen[s].item - req[s].amount

DestAfter(s) == IF req[s].kind = "transfer" /\ ~SelfTransfer(req[s])
                THEN seen[s].dest + req[s].amount ELSE After(s)

TxnType(b) == CASE b.kind = "issue" -> "ISSUE"
                [] b.kind = "restock" -> "RESTOCK"
                [] b.kind = "transfer" -> "TRANSFER"
                [] OTHER -> b.reverses

MainRow(s) ==
    [id |-> <<s, "main">>, type |-> TxnType(req[s]), delta |-> req[s].amount,
     before |-> seen[s].item, after |-> After(s), rollbackOf |-> req[s].target]

InboundRow(s) ==
    [id |-> <<s, "inbound">>, type |-> "TRANSFER", delta |-> req[s].amount,
     before |-> seen[s].dest, after |-> DestAfter(s), rollbackOf |-> NoTxn]

\* The payload's quantity_after.
StockEvent(s) == [session |-> s, after |-> After(s)]

\* Issue and restock publish inventory.updated before get_db commits; the
\* publisher drops the event when it is not connected or the broker refuses.
PublishEvent(s) ==
    /\ pc[s] = "publish"
    /\ \/ events' = events \cup {StockEvent(s)}
       \/ UNCHANGED events
    /\ Goto(s, "commit")
    /\ UNCHANGED <<rows, qty, history, rolledBack, audit, lockedBy, req, seen, asOf>>

\* transfer_item writes no audit entry.  The CHECK constraints are left out:
\* TypeOK shows that no session gets as far as they would refuse.
Commit(s) ==
    /\ pc[s] = "commit"
    /\ LET b == req[s] IN
          /\ qty' = [qty EXCEPT ![b.item] = After(s), ![b.dest] = DestAfter(s)]
          /\ LET h == [history EXCEPT ![b.item] = Append(@, MainRow(s))] IN
                history' = IF b.kind = "transfer"
                           THEN [h EXCEPT ![b.dest] = Append(@, InboundRow(s))] ELSE h
          /\ rolledBack' = rolledBack \cup ({b.target} \ {NoTxn})
          /\ audit' = IF b.kind = "transfer" THEN audit
                      ELSE audit \cup {[session |-> s, action |-> b.kind]}
    /\ Close(s, "done")
    /\ UNCHANGED <<rows, events>>

\* get_db rolls back: nothing the session flushed remains.
Abort(s) ==
    /\ pc[s] = "aborting"
    /\ Close(s, "rejected")
    /\ UNCHANGED <<rows, qty, history, rolledBack, audit, events>>

\* The connection or the process is lost, or the flush or the commit fails: the
\* database rolls the transaction back by itself.
Crash(s) ==
    /\ pc[s] \in Running
    /\ Close(s, "failed")
    /\ UNCHANGED <<rows, qty, history, rolledBack, audit, events>>

\* create_item: the insert is committed with its audit entry, or refused.
CreateItem(s) ==
    /\ pc[s] = "idle" /\ "create" \in Kinds
    /\ \/ \E i \in Items \ rows, n \in InitialStocks :
             /\ rows' = rows \cup {i}
             /\ qty' = [qty EXCEPT ![i] = n]
             /\ audit' = audit \cup {[session |-> s, action |-> "create"]}
             /\ Close(s, "done")
       \/ Close(s, "rejected") /\ UNCHANGED <<rows, qty, audit>>
    /\ UNCHANGED <<history, rolledBack, events>>

-----------------------------------------------------------------------------

Start(s) == \/ IssueItem(s) \/ RestockItem(s) \/ TransferLockFirst(s)
            \/ ReadOriginal(s) \/ CreateItem(s)

Proceed(s) == \/ TransferLockSecond(s) \/ LoadItem(s) \/ LockForRollback(s)
              \/ PublishEvent(s) \/ Commit(s) \/ Abort(s)

Step(s) == Start(s) \/ Proceed(s) \/ Crash(s)

Next == \E s \in Sessions : Step(s)

Spec == Init /\ [][Next]_vars

\* The event loop resumes every coroutine whose call has returned, and no call
\* waits for another session: NOWAIT.
FairSpec == Spec /\ \A s \in Sessions : WF_vars(Proceed(s))

-----------------------------------------------------------------------------
(* Properties *)

\* The rollbacks that have found their original reversible and not ended yet.
Reversing(s) == pc[s] \in {"load", "relock", "commit", "aborting"} /\ req[s].kind = "rollback"

ClaimOf(s) == [id |-> <<s, "main">>, item |-> req[s].item, entry |-> req[s].target,
               from |-> asOf[s]]

Claims == {ClaimOf(s) : s \in {t \in Sessions : Reversing(t)}}

Ledger == INSTANCE LooseLedger
    WITH known <- rows, stock <- qty, entries <- history, reversed <- rolledBack,
         claims <- Claims

\* Issue, restock, transfer and creation are indivisible movements of an
\* unbroken ledger, whatever the sessions, their refused locks and their crashes
\* do: the service keeps the promise of StockLedger.  (Not so with rollback in
\* use, see LedgerUnbroken.)
ImplementsLedger == Ledger!Spec

\* With rollback in use the service keeps the promise of LooseLedger: issue,
\* restock, transfer and creation are as indivisible as before beside any number
\* of rollbacks.  A rollback undoes an entry that was not undone when the rollback
\* read its status, and posts from a quantity that the item has had since that
\* reading (inventory_service.py:291 to 318); it may be neither the one of that
\* moment nor the one of now.  Rollbacks of one entry may overlap and all succeed,
\* but none that begins after one of them was committed.
ImplementsLooseLedger == Ledger!LooseSpec

\* What an issue, a restock or a transfer read of the rows it holds is still what
\* is committed when it uses it, also beside rollbacks: the reason why the service
\* loses no update of theirs.
LockedReadIsFresh ==
    \A s \in Sessions : pc[s] \in {"publish", "commit"} /\ req[s].kind # "rollback" =>
        /\ seen[s].item = qty[req[s].item]
        /\ seen[s].dest = qty[req[s].dest]

\* transaction.py:56: before and after "enable full audit trail reconstruction
\* without replaying all transactions": every row of an item starts from the
\* quantity at which the one before it ended, and the last one ends at the
\* quantity the item has.
LedgerUnbroken ==
    \A i \in Items : LET h == history[i] IN
        /\ \A k \in 1 .. Len(h) - 1 : h[k + 1].before = h[k].after
        /\ h # <<>> => h[Len(h)].after = qty[i]

\* An event on the broker tells of a movement that is about to be committed as it
\* says, or that was: a consumer may act on it before the row is there, and finds
\* in the row the quantity it was told.  Only a request whose commit failed leaves
\* an event without a movement (inventory_service.py:145 publishes first,
\* session.py:62 commits); one that was refused never does.
EventMeansMovement ==
    \A e \in events :
        \/ pc[e.session] = "commit" /\ After(e.session) = e.after
        \/ /\ pc[e.session] = "done"
           /\ \E i \in Items : \E k \in DOMAIN history[i] :
                 history[i][k].id = <<e.session, "main">> /\ history[i][k].after = e.after
        \/ pc[e.session] = "failed"

\* No row stays locked by a request that was answered, and every request that
\* began is answered: NOWAIT turns the wait for a lock into a refusal, so no two
\* sessions ever wait for each other.
EveryRequestEnds ==
    \A s \in Sessions :
        pc[s] \in Running ~> pc[s] \in Finished /\ \A i \in Items : lockedBy[i] # s

=============================================================================
