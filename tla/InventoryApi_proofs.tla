------------------------- MODULE InventoryApi_proofs -------------------------
(***************************************************************************)
(* What the REST handlers guarantee for every number of requests, items    *)
(* and quantities.  The invariants are proved in layers: first the types   *)
(* together with what each handler knows from its own checks (Local), then *)
(* what it knows of the tables (Recorded), then the quantities.            *)
(***************************************************************************)
EXTENDS InventoryApi, TLAPS

Movements == {"issue", "restock", "transfer", "rollback"}

\* The endpoint that a handler about to make a call serves.
Serves(r) ==
    /\ pc[r] = "cas" => req[r].kind = "issue"
    /\ pc[r] = "write" => req[r].kind = "restock"
    /\ pc[r] \in {"readDest", "debit", "credit", "insertInbound"} => req[r].kind = "transfer"
    /\ pc[r] \in {"readItem", "reverse", "mark"} => req[r].kind = "rollback"
    /\ pc[r] = "insert" => req[r].kind \in Movements
    /\ pc[r] = "delete" => req[r].kind = "delete"

WellFormed(b) ==
    /\ b.item \in Used(b.kind)
    /\ b.kind = "transfer" => b.dest \in Used("transfer")
    /\ b.kind = "rollback" => b.target \in TxnIds /\ b.reverses \in {"ISSUE", "RESTOCK"}
    /\ b.kind # "rollback" => b.target = NoTxn

\* What the handler's check on the quantities it read leaves true of them.
Enough(r) ==
    /\ pc[r] \in {"cas", "debit"} => seen[r].item - req[r].amount >= Reserved[req[r].item]
    /\ pc[r] \in {"cas", "write", "debit", "credit", "reverse", "mark", "insert"} => NewQty(r) \in Nat

HandlerOK(r) == pc[r] \in Running => Serves(r) /\ WellFormed(req[r]) /\ Enough(r)

Local == TypeOK /\ \A r \in Requests : HandlerOK(r)

\* A step of one handler leaves the local variables of the others alone.
Alone(r) ==
    \A s \in Requests : s # r => /\ pc'[s] = pc[s] /\ req'[s] = req[s] /\ seen'[s] = seen[s]
                                  /\ earlier'[s] = earlier[s]

-----------------------------------------------------------------------------

\* The locals of a handler that returned or raised are typed and hold nothing.
LEMMA FinishLocal ==
    ASSUME TypeOK, NEW r \in Requests, NEW label \in Finished, Finish(r, label)
    PROVE  /\ pc' \in [Requests -> Labels]
           /\ req' \in [Requests -> Body \cup {NoRequest}]
           /\ seen' \in [Requests -> Snapshot]
           /\ earlier' \in [Requests -> SUBSET Requests]
           /\ \A s \in Requests : pc'[s] \in Running => req'[s] \in Body
           /\ pc'[r] = label /\ pc'[r] \notin Running
           /\ Alone(r)
  BY DEF TypeOK, Finish, Goto, Labels, Finished, Running, Snapshot, Unread, Alone

\* A handler that goes on to its next call keeps its body.
LEMMA GotoLocal ==
    ASSUME TypeOK, NEW r \in Requests, NEW label \in Running, Goto(r, label),
           pc[r] \in Running, UNCHANGED <<req, seen, earlier>>
    PROVE  /\ pc' \in [Requests -> Labels]
           /\ req' \in [Requests -> Body \cup {NoRequest}]
           /\ seen' \in [Requests -> Snapshot]
           /\ earlier' \in [Requests -> SUBSET Requests]
           /\ \A s \in Requests : pc'[s] \in Running => req'[s] \in Body
           /\ pc'[r] = label /\ req'[r] = req[r] /\ seen'[r] = seen[r]
           /\ Alone(r)
  BY DEF TypeOK, Goto, Labels, Alone

\* A handler that starts works on the body it was given.
LEMMA BeginLocal ==
    ASSUME TypeOK, NEW r \in Requests, NEW b \in Body, NEW n \in Nat, NEW label \in Running,
           Begin(r, b, n, label)
    PROVE  /\ pc' \in [Requests -> Labels]
           /\ req' \in [Requests -> Body \cup {NoRequest}]
           /\ seen' \in [Requests -> Snapshot]
           /\ earlier' \in [Requests -> SUBSET Requests]
           /\ \A s \in Requests : pc'[s] \in Running => req'[s] \in Body
           /\ pc'[r] = label /\ req'[r] = b /\ seen'[r].item = n
           /\ Alone(r)
  BY DEF TypeOK, Begin, Goto, Labels, Snapshot, Alone

\* An UPDATE that the CHECK constraint admits keeps the quantities natural.
LEMMA WriteLocal ==
    ASSUME TypeOK, NEW r \in Requests, NEW i \in Items, NEW q \in Int, NEW label \in Running,
           Write(r, i, q, label), pc[r] \in Running
    PROVE  /\ TypeOK'
           /\ pc'[r] = label /\ req'[r] = req[r] /\ seen'[r] = seen[r]
           /\ Alone(r)
           /\ UNCHANGED <<rows, deleted, ledger, rolledBack, audit, unrecorded>>
           /\ q >= 0
           /\ i \in rows => qty'[i] = q
           /\ \A j \in Items : j # i \/ i \notin rows => qty'[j] = qty[j]
<1>1. q \in Nat
  BY DEF Write, SetQuantity
<1>2. qty' \in [Items -> Nat]
  BY <1>1 DEF Write, SetQuantity, TypeOK
<1>3. Goto(r, label) /\ UNCHANGED <<req, seen, earlier>>
  BY DEF Write
<1>4. QED
  BY <1>1, <1>2, <1>3, GotoLocal DEF TypeOK, Write, SetQuantity

-----------------------------------------------------------------------------
(* Local is inductive *)

\* At the start no request has begun anything.
LEMMA InitLocal ==
    ASSUME Init
    PROVE  Local
<1>1. qty \in [Items -> Nat] /\ rows \subseteq Items
  BY ConstantsAssumption DEF Init
<1>2. /\ ledger \subseteq Txn /\ audit \subseteq AuditEntry /\ rolledBack \subseteq TxnIds
      /\ deleted \subseteq Items /\ unrecorded \subseteq Txn
  BY DEF Init
<1>3. pc \in [Requests -> Labels] /\ \A r \in Requests : pc[r] \notin Running
  BY DEF Init, Labels, Running
<1>4. /\ req \in [Requests -> Body \cup {NoRequest}] /\ seen \in [Requests -> Snapshot]
      /\ earlier \in [Requests -> SUBSET Requests]
  BY DEF Init, Snapshot, Unread
<1>5. QED
  BY <1>1, <1>2, <1>3, <1>4 DEF Local, TypeOK, HandlerOK

\* What one handler knows no other handler can disturb.
LEMMA OthersStayOK ==
    ASSUME Local, NEW r \in Requests, TypeOK', Alone(r), HandlerOK(r)'
    PROVE  Local'
  BY DEF Local, Alone, HandlerOK, Serves, WellFormed, Enough, NewQty, AddsStock, Used

\* A request that is over keeps nothing it would have to be right about.
LEMMA EndStaysLocal ==
    ASSUME Local, NEW r \in Requests, NEW label \in Finished, Finish(r, label),
           qty' \in [Items -> Nat], rows' \subseteq Items, deleted' \subseteq Items,
           ledger' \subseteq Txn, rolledBack' \subseteq TxnIds, audit' \subseteq AuditEntry,
           unrecorded' \subseteq Txn
    PROVE  Local'
<1>1. TypeOK' /\ Alone(r) /\ pc'[r] \notin Running
  BY FinishLocal DEF Local, TypeOK
<1>2. QED
  BY <1>1, OthersStayOK DEF HandlerOK

\* An early return (404, 400) writes nothing.
LEMMA RejectLocal ==
    ASSUME Local, NEW r \in Requests, Reject(r)
    PROVE  Local'
  BY EndStaysLocal DEF Reject, Local, TypeOK, dbvars, Finished

\* What a request body gives its handler.
LEMMA StockBodyTyped ==
    ASSUME NEW kind \in AllKinds, NEW i \in Items, NEW a \in Nat \ {0}
    PROVE  StockBody(kind, i, a) \in Body
  BY ConstantsAssumption DEF StockBody, Body

\* issue_item: both the read and the compare-and-set keep Local.
LEMMA IssueLocal ==
    ASSUME Local, NEW r \in Requests, Issue(r)
    PROVE  Local'
<1>1. CASE IssueRead(r)
  <2>1. PICK i \in Used("issue"), a \in Amounts :
           \/ /\ i \in rows /\ Available(i) >= a
              /\ Begin(r, StockBody("issue", i, a), qty[i], "cas")
              /\ UNCHANGED dbvars
           \/ Reject(r)
    BY <1>1 DEF IssueRead
  <2>2. CASE Reject(r)
    BY <2>2, RejectLocal
  <2>3. CASE /\ Available(i) >= a
             /\ Begin(r, StockBody("issue", i, a), qty[i], "cas")
             /\ UNCHANGED dbvars
    <3> DEFINE b == StockBody("issue", i, a)
    <3>1. i \in Items /\ a \in Nat \ {0} /\ qty[i] \in Nat /\ Reserved[i] \in Nat
      BY ConstantsAssumption DEF Used, Local, TypeOK
    <3>2. b \in Body
      BY <3>1, StockBodyTyped DEF AllKinds
    <3>3. TypeOK' /\ Alone(r) /\ pc'[r] = "cas" /\ req'[r] = b /\ seen'[r].item = qty[i]
      BY <2>3, <3>1, <3>2, BeginLocal DEF Local, TypeOK, dbvars, Running
    <3>4. HandlerOK(r)'
      BY <2>3, <3>1, <3>3
      DEF HandlerOK, Serves, WellFormed, Enough, NewQty, AddsStock, StockBody, Available
    <3>5. QED
      BY <3>3, <3>4, OthersStayOK
  <2>4. QED
    BY <2>1, <2>2, <2>3
<1>2. CASE IssueUpdate(r)
  <2>1. CASE CompareMatches(r) /\ Write(r, req[r].item, NewQty(r), "insert")
    <3>1. pc[r] = "cas" /\ req[r] \in Body /\ HandlerOK(r) /\ NewQty(r) \in Nat
      BY <1>2 DEF IssueUpdate, Local, TypeOK, Running, HandlerOK, Enough
    <3>2. TypeOK' /\ Alone(r) /\ pc'[r] = "insert" /\ req'[r] = req[r] /\ seen'[r] = seen[r]
      BY <2>1, <3>1, WriteLocal DEF Local, Body, Running
    <3>3. HandlerOK(r)'
      BY <3>1, <3>2 DEF HandlerOK, Serves, WellFormed, Enough, NewQty, AddsStock, Running, Movements
    <3>4. QED
      BY <3>2, <3>3, OthersStayOK
  <2>2. CASE Reject(r)
    BY <2>2, RejectLocal
  <2>3. QED
    BY <1>2, <2>1, <2>2 DEF IssueUpdate
<1>3. QED
  BY <1>1, <1>2 DEF Issue

\* restock_item: the read and the unconditional write keep Local.
LEMMA RestockLocal ==
    ASSUME Local, NEW r \in Requests, Restock(r)
    PROVE  Local'
<1>1. CASE RestockRead(r)
  <2>1. PICK i \in Used("restock"), a \in Amounts :
           \/ /\ i \in rows
              /\ Begin(r, StockBody("restock", i, a), qty[i], "write")
              /\ UNCHANGED dbvars
           \/ Reject(r)
    BY <1>1 DEF RestockRead
  <2>2. CASE Reject(r)
    BY <2>2, RejectLocal
  <2>3. CASE Begin(r, StockBody("restock", i, a), qty[i], "write") /\ UNCHANGED dbvars
    <3> DEFINE b == StockBody("restock", i, a)
    <3>1. i \in Items /\ a \in Nat \ {0} /\ qty[i] \in Nat
      BY ConstantsAssumption DEF Used, Local, TypeOK
    <3>2. b \in Body
      BY <3>1, StockBodyTyped DEF AllKinds
    <3>3. TypeOK' /\ Alone(r) /\ pc'[r] = "write" /\ req'[r] = b /\ seen'[r].item = qty[i]
      BY <2>3, <3>1, <3>2, BeginLocal DEF Local, TypeOK, dbvars, Running
    <3>4. HandlerOK(r)'
      BY <3>1, <3>3 DEF HandlerOK, Serves, WellFormed, Enough, NewQty, AddsStock, StockBody
    <3>5. QED
      BY <3>3, <3>4, OthersStayOK
  <2>4. QED
    BY <2>1, <2>2, <2>3
<1>2. CASE RestockUpdate(r)
  <2>1. pc[r] = "write" /\ req[r] \in Body /\ HandlerOK(r) /\ NewQty(r) \in Nat
    BY <1>2 DEF RestockUpdate, Local, TypeOK, Running, HandlerOK, Enough
  <2>2. TypeOK' /\ Alone(r) /\ pc'[r] = "insert" /\ req'[r] = req[r] /\ seen'[r] = seen[r]
    BY <1>2, <2>1, WriteLocal DEF RestockUpdate, Local, Body, Running
  <2>3. HandlerOK(r)'
    BY <2>1, <2>2 DEF HandlerOK, Serves, WellFormed, Enough, NewQty, AddsStock, Running, Movements
  <2>4. QED
    BY <2>2, <2>3, OthersStayOK
<1>3. QED
  BY <1>1, <1>2 DEF Restock

\* seen[r] of a handler that reads one more quantity.
LEMMA ReadLocal ==
    ASSUME TypeOK, NEW r \in Requests, NEW label \in Running, Goto(r, label),
           pc[r] \in Running, NEW n \in Nat, UNCHANGED <<dbvars, req, earlier>>,
           \/ seen' = [seen EXCEPT ![r].item = n]
           \/ seen' = [seen EXCEPT ![r].dest = n]
    PROVE  /\ TypeOK' /\ Alone(r)
           /\ pc'[r] = label /\ req'[r] = req[r]
<1>1. seen' \in [Requests -> Snapshot] /\ \A s \in Requests : s # r => seen'[s] = seen[s]
  BY DEF TypeOK, Snapshot
<1>2. QED
  BY <1>1 DEF TypeOK, Goto, Labels, Alone, dbvars

\* transfer_item reads the source and checks the stock.
LEMMA TransferReadSourceLocal ==
    ASSUME Local, NEW r \in Requests, TransferReadSource(r)
    PROVE  Local'
<1>1. PICK i \in Used("transfer"), j \in Used("transfer"), w \in Warehouses, a \in Amounts :
         \/ /\ Begin(r, [StockBody("transfer", i, a) EXCEPT !.dest = j, !.warehouse = w],
                     qty[i], "readDest")
            /\ UNCHANGED dbvars
         \/ Reject(r)
  BY DEF TransferReadSource
<1>2. CASE Reject(r)
  BY <1>2, RejectLocal
<1> DEFINE b == [StockBody("transfer", i, a) EXCEPT !.dest = j, !.warehouse = w]
<1>3. CASE Begin(r, b, qty[i], "readDest") /\ UNCHANGED dbvars
  <2>1. i \in Items /\ j \in Items /\ a \in Nat \ {0} /\ qty[i] \in Nat
    BY ConstantsAssumption DEF Used, Local, TypeOK
  <2>2. /\ b \in Body
        /\ b.kind = "transfer" /\ b.item = i /\ b.dest = j /\ b.target = NoTxn
    BY <2>1, ConstantsAssumption DEF StockBody, Body, AllKinds
  <2>3. TypeOK' /\ Alone(r) /\ pc'[r] = "readDest" /\ req'[r] = b
    <3> HIDE DEF b
    <3> QED BY <1>3, <2>1, <2>2, BeginLocal DEF Local, TypeOK, dbvars, Running
  <2>4. HandlerOK(r)'
    <3> HIDE DEF b
    <3> QED BY <2>2, <2>3 DEF HandlerOK, Serves, WellFormed, Enough
  <2>5. QED
    BY <2>3, <2>4, OthersStayOK
<1>4. QED
  BY <1>1, <1>2, <1>3

\* transfer_item reads the destination.
LEMMA TransferReadDestLocal ==
    ASSUME Local, NEW r \in Requests, TransferReadDest(r)
    PROVE  Local'
<1>1. CASE Reject(r)
  BY <1>1, RejectLocal
<1>2. CASE /\ TransferAllowed(r)
           /\ seen' = [seen EXCEPT ![r].dest = qty[req[r].dest]]
           /\ Goto(r, "debit")
           /\ UNCHANGED <<rows, deleted, qty, ledger, rolledBack, audit, unrecorded, req, earlier>>
  <2>1. /\ pc[r] = "readDest" /\ req[r] \in Body /\ HandlerOK(r)
        /\ seen[r] \in Snapshot /\ qty[req[r].dest] \in Nat
        /\ Reserved[req[r].item] \in Nat
    BY ConstantsAssumption DEF TransferReadDest, Local, TypeOK, Running, Body
  <2>2. TypeOK' /\ Alone(r) /\ pc'[r] = "debit" /\ req'[r] = req[r]
    BY <1>2, <2>1, ReadLocal DEF Local, dbvars, Running
  <2>3. seen'[r].item = seen[r].item
    BY <1>2, <2>1 DEF Local, TypeOK, Snapshot
  <2>4. seen[r].item - req[r].amount >= Reserved[req[r].item] /\ seen[r].item \in Nat
        /\ req[r].amount \in Nat
    BY <1>2, <2>1 DEF TransferAllowed, Snapshot, Body
  <2>5. HandlerOK(r)'
    BY <2>1, <2>2, <2>3, <2>4
    DEF HandlerOK, Serves, WellFormed, Enough, NewQty, AddsStock, Running
  <2>6. QED
    BY <2>2, <2>5, OthersStayOK
<1>3. QED
  BY <1>1, <1>2 DEF TransferReadDest

\* The two updates of transfer_item keep Local.
LEMMA TransferWritesLocal ==
    ASSUME Local, NEW r \in Requests, TransferDebit(r) \/ TransferCredit(r)
    PROVE  Local'
<1>1. /\ pc[r] \in {"debit", "credit"} /\ req[r] \in Body /\ HandlerOK(r)
      /\ NewQty(r) \in Nat /\ seen[r].dest + req[r].amount \in Int
  BY DEF TransferDebit, TransferCredit, Local, TypeOK, Running, HandlerOK, Enough, Snapshot, Body
<1>2. TypeOK' /\ Alone(r) /\ pc'[r] \in {"credit", "insert"} /\ req'[r] = req[r] /\ seen'[r] = seen[r]
  BY <1>1, WriteLocal DEF TransferDebit, TransferCredit, Local, Body, Running
<1>3. HandlerOK(r)'
  BY <1>1, <1>2 DEF HandlerOK, Serves, WellFormed, Enough, NewQty, AddsStock, Running, Movements
<1>4. QED
  BY <1>2, <1>3, OthersStayOK

\* rollback_transaction reads the original transaction.
LEMMA RollbackReadTxnLocal ==
    ASSUME Local, NEW r \in Requests, RollbackReadTxn(r)
    PROVE  Local'
<1>1. CASE Reject(r)
  BY <1>1, RejectLocal
<1>2. ASSUME NEW t \in ledger, t.item \in Used("rollback"), Reversible(t),
             Begin(r, [StockBody("rollback", t.item, t.delta) EXCEPT
                         !.target = t.id, !.reverses = t.type], 0, "readItem"),
             UNCHANGED dbvars
      PROVE  Local'
  <2> DEFINE b == [StockBody("rollback", t.item, t.delta) EXCEPT
                     !.target = t.id, !.reverses = t.type]
  <2>1. t \in Txn
    BY DEF Local, TypeOK
  <2>2. /\ b \in Body
        /\ b.kind = "rollback" /\ b.item = t.item
        /\ b.target \in TxnIds /\ b.reverses \in {"ISSUE", "RESTOCK"}
    BY <1>2, <2>1, ConstantsAssumption DEF StockBody, Body, AllKinds, Txn, Reversible
  <2>3. TypeOK' /\ Alone(r) /\ pc'[r] = "readItem" /\ req'[r] = b
    <3>1. Begin(r, b, 0, "readItem")
      BY <1>2
    <3> HIDE DEF b
    <3> QED BY <1>2, <2>2, <3>1, BeginLocal DEF Local, TypeOK, dbvars, Running
  <2>4. HandlerOK(r)'
    <3> HIDE DEF b
    <3> QED BY <1>2, <2>2, <2>3 DEF HandlerOK, Serves, WellFormed, Enough
  <2>5. QED
    BY <2>3, <2>4, OthersStayOK
<1>3. QED
  BY <1>1, <1>2 DEF RollbackReadTxn

\* rollback_transaction reads the item and computes the new quantity.
LEMMA RollbackReadItemLocal ==
    ASSUME Local, NEW r \in Requests, RollbackReadItem(r)
    PROVE  Local'
<1> DEFINE n == qty[req[r].item]
<1>1. CASE Reject(r)
  BY <1>1, RejectLocal
<1>2. CASE /\ ReversalAllowed(req[r], n)
           /\ seen' = [seen EXCEPT ![r].item = n]
           /\ Goto(r, "reverse")
           /\ UNCHANGED <<rows, deleted, qty, ledger, rolledBack, audit, unrecorded, req, earlier>>
  <2>1. pc[r] = "readItem" /\ req[r] \in Body /\ HandlerOK(r) /\ n \in Nat
    BY DEF RollbackReadItem, Local, TypeOK, Running, Body
  <2>2. TypeOK' /\ Alone(r) /\ pc'[r] = "reverse" /\ req'[r] = req[r]
    BY <1>2, <2>1, ReadLocal DEF Local, dbvars, Running
  <2>3. seen'[r].item = n /\ req[r].amount \in Nat
    BY <1>2, <2>1 DEF Local, TypeOK, Snapshot, Body
  <2>4. HandlerOK(r)'
    <3>1. req[r].kind = "rollback" /\ WellFormed(req[r])
      BY <2>1 DEF HandlerOK, Serves, Running
    <3>2. req[r].reverses = "ISSUE" \/ n - req[r].amount >= 0
      BY <1>2 DEF ReversalAllowed
    <3>3. NewQty(r)' \in Nat
      BY <2>1, <2>2, <2>3, <3>1, <3>2 DEF NewQty, AddsStock
    <3>4. QED
      BY <2>2, <3>1, <3>3 DEF HandlerOK, Serves, Enough
  <2>5. QED
    BY <2>2, <2>4, OthersStayOK
<1>3. QED
  BY <1>1, <1>2 DEF RollbackReadItem

\* The update of the item and the mark of the original keep Local.
LEMMA RollbackWritesLocal ==
    ASSUME Local, NEW r \in Requests, RollbackUpdate(r) \/ RollbackMark(r)
    PROVE  Local'
<1>1. /\ pc[r] \in {"reverse", "mark"} /\ req[r] \in Body /\ HandlerOK(r)
      /\ NewQty(r) \in Nat
  BY DEF RollbackUpdate, RollbackMark, Local, TypeOK, Running, HandlerOK, Enough
<1>2. TypeOK' /\ Alone(r) /\ pc'[r] \in {"mark", "insert"} /\ req'[r] = req[r] /\ seen'[r] = seen[r]
  <2>1. CASE RollbackUpdate(r)
    BY <1>1, <2>1, WriteLocal DEF RollbackUpdate, Local, Body, Running
  <2>2. CASE RollbackMark(r)
    <3>1. req[r].target \in TxnIds
      BY <1>1, <2>2 DEF RollbackMark, HandlerOK, Serves, WellFormed, Running
    <3>2. QED
      BY <1>1, <2>2, <3>1, GotoLocal DEF RollbackMark, Local, TypeOK, Running
  <2>3. QED
    BY <2>1, <2>2
<1>3. HandlerOK(r)'
  BY <1>1, <1>2 DEF HandlerOK, Serves, WellFormed, Enough, NewQty, AddsStock, Running, Movements
<1>4. QED
  BY <1>2, <1>3, OthersStayOK

\* create_item keeps Local.
LEMMA CreateItemLocal ==
    ASSUME Local, NEW r \in Requests, CreateItem(r)
    PROVE  Local'
<1>1. CASE Reject(r)
  BY <1>1, RejectLocal
<1>2. ASSUME NEW i \in Used("create"), NEW n \in InitialStocks,
             rows' = rows \cup {i}, qty' = [qty EXCEPT ![i] = n],
             Begin(r, StockBody("create", i, 1), 0, "audit"),
             UNCHANGED <<deleted, ledger, rolledBack, audit, unrecorded>>
      PROVE  Local'
  <2>1. i \in Items /\ n \in Nat /\ StockBody("create", i, 1) \in Body
    BY ConstantsAssumption, StockBodyTyped DEF Used, AllKinds
  <2>2. TypeOK' /\ Alone(r) /\ pc'[r] = "audit" /\ req'[r] = StockBody("create", i, 1)
    BY <1>2, <2>1, BeginLocal DEF Local, TypeOK, Running
  <2>3. HandlerOK(r)'
    BY <2>2 DEF HandlerOK, Serves, WellFormed, Enough, StockBody
  <2>4. QED
    BY <2>2, <2>3, OthersStayOK
<1>3. QED
  BY <1>1, <1>2 DEF CreateItem

\* delete_item: the check and the delete keep Local.
LEMMA DeleteLocal ==
    ASSUME Local, NEW r \in Requests, Delete(r)
    PROVE  Local'
<1>1. CASE Reject(r)
  BY <1>1, RejectLocal
<1>2. CASE Finish(r, "failed") /\ UNCHANGED dbvars
  BY <1>2, EndStaysLocal DEF Local, TypeOK, dbvars, Finished
<1>3. ASSUME NEW i \in Used("delete"), Begin(r, StockBody("delete", i, 1), 0, "delete"),
             UNCHANGED dbvars
      PROVE  Local'
  <2>1. StockBody("delete", i, 1) \in Body
    BY StockBodyTyped DEF Used, AllKinds
  <2>2. TypeOK' /\ Alone(r) /\ pc'[r] = "delete" /\ req'[r] = StockBody("delete", i, 1)
    BY <1>3, <2>1, BeginLocal DEF Local, TypeOK, dbvars, Running
  <2>3. HandlerOK(r)'
    BY <2>2 DEF HandlerOK, Serves, WellFormed, Enough, StockBody
  <2>4. QED
    BY <2>2, <2>3, OthersStayOK
<1>4. CASE /\ pc[r] = "delete"
           /\ rows' = rows \ {req[r].item}
           /\ deleted' = deleted \cup {req[r].item}
           /\ qty' = [qty EXCEPT ![req[r].item] = 0]
           /\ Goto(r, "audit")
           /\ UNCHANGED <<ledger, rolledBack, audit, unrecorded, req, seen, earlier>>
  <2>1. req[r] \in Body /\ HandlerOK(r) /\ req[r].item \in Items
    BY <1>4 DEF Local, TypeOK, Running, Body
  <2>2. TypeOK' /\ Alone(r) /\ pc'[r] = "audit" /\ req'[r] = req[r]
    BY <1>4, <2>1, GotoLocal DEF Local, TypeOK, Running
  <2>3. HandlerOK(r)'
    BY <1>4, <2>1, <2>2 DEF HandlerOK, Serves, WellFormed, Enough, Running
  <2>4. QED
    BY <2>2, <2>3, OthersStayOK
<1>5. QED
  BY <1>1, <1>2, <1>3, <1>4 DEF Delete, DeleteCheck, DeleteRow

\* The rows that a handler inserts are rows of the table.
LEMMA RowsTyped ==
    ASSUME Local, NEW r \in Requests
    PROVE  /\ pc[r] = "insert" => MainRow(r) \in Txn
           /\ pc[r] = "insertInbound" => InboundRow(r) \in Txn
<1>1. SUFFICES ASSUME pc[r] \in {"insert", "insertInbound"}
               PROVE  /\ pc[r] = "insert" => MainRow(r) \in Txn
                      /\ pc[r] = "insertInbound" => InboundRow(r) \in Txn
  OBVIOUS
<1>2. req[r] \in Body /\ seen[r] \in Snapshot /\ HandlerOK(r)
  BY <1>1 DEF Local, TypeOK, Running
<1>3. /\ <<r, "main">> \in TxnIds /\ <<r, "inbound">> \in TxnIds
      /\ WarehouseOf[req[r].item] \in Warehouses
  BY <1>2, ConstantsAssumption DEF TxnIds, Legs, Body
<1>4. CASE pc[r] = "insert"
  <2>1. TxnType(req[r]) \in TxnTypes
    BY <1>2, <1>4 DEF TxnType, TxnTypes, HandlerOK, Serves, WellFormed, Movements, Running
  <2>2. NewQty(r) \in Nat
    BY <1>2, <1>4 DEF HandlerOK, Enough, Running
  <2>3. QED
    BY <1>2, <1>3, <1>4, <2>1, <2>2 DEF MainRow, Txn, Body, Snapshot, Delta
<1>5. CASE pc[r] = "insertInbound"
  BY <1>2, <1>3, <1>5 DEF InboundRow, Txn, Body, Snapshot, Delta, TxnTypes
<1>6. QED
  BY <1>1, <1>4, <1>5

\* The inserts of the transaction rows keep Local.
LEMMA InsertLocal ==
    ASSUME Local, NEW r \in Requests, InsertTransaction(r) \/ InsertInbound(r)
    PROVE  Local'
<1>1. CASE /\ Finish(r, "failed") /\ unrecorded' = unrecorded \cup Due(r)
           /\ UNCHANGED <<rows, deleted, qty, ledger, rolledBack, audit>>
  BY <1>1, RowsTyped, EndStaysLocal DEF Local, TypeOK, Finished, Due
<1>2. ASSUME NEW row \in Txn, NEW next \in {"insertInbound", "audit"},
             pc[r] \in {"insert", "insertInbound"},
             next = "insertInbound" => req[r].kind = "transfer",
             ledger' = ledger \cup {row}, Goto(r, next),
             UNCHANGED <<rows, deleted, qty, rolledBack, audit, unrecorded, req, seen, earlier>>
      PROVE  Local'
  <2>1. HandlerOK(r) /\ pc[r] \in Running
    BY <1>2 DEF Local, Running
  <2>2. TypeOK' /\ Alone(r) /\ pc'[r] = next /\ req'[r] = req[r]
    BY <1>2, <2>1, GotoLocal DEF Local, TypeOK, Running
  <2>3. HandlerOK(r)'
    BY <1>2, <2>1, <2>2 DEF HandlerOK, Serves, WellFormed, Enough
  <2>4. QED
    BY <2>2, <2>3, OthersStayOK
<1>3. CASE InsertTransaction(r)
  <2>1. MainRow(r) \in Txn
    BY <1>3, RowsTyped DEF InsertTransaction
  <2>2. QED
    BY <1>1, <1>2, <1>3, <2>1 DEF InsertTransaction, Insert
<1>4. CASE InsertInbound(r)
  <2>1. InboundRow(r) \in Txn
    BY <1>4, RowsTyped DEF InsertInbound
  <2>2. QED
    BY <1>1, <1>2, <1>4, <2>1 DEF InsertInbound, Insert
<1>5. QED
  BY <1>3, <1>4

\* The audit entry, a failing call and the end of a request keep Local.
LEMMA EndingsLocal ==
    ASSUME Local, NEW r \in Requests, WriteAudit(r) \/ Fail(r)
    PROVE  Local'
<1>1. CASE WriteAudit(r)
  <2>1. [request |-> r, action |-> req[r].kind] \in AuditEntry
    BY <1>1 DEF WriteAudit, Local, TypeOK, Running, Body, AuditEntry
  <2>2. audit' \subseteq AuditEntry
    BY <1>1, <2>1 DEF WriteAudit, Local, TypeOK
  <2>3. QED
    BY <1>1, <2>2, EndStaysLocal DEF WriteAudit, Local, TypeOK, Finished
<1>2. CASE Fail(r)
  BY <1>2, RowsTyped, EndStaysLocal DEF Fail, Local, TypeOK, Finished, Due
<1>3. QED
  BY <1>1, <1>2

\* Local is inductive.
LEMMA LocalStep == Local /\ [Next]_vars => Local'
<1>1. SUFFICES ASSUME Local, [Next]_vars PROVE Local'
  OBVIOUS
<1>2. CASE UNCHANGED vars
  BY <1>1, <1>2
  DEF vars, Local, TypeOK, HandlerOK, Serves, WellFormed, Enough, NewQty, AddsStock, Used
<1>3. ASSUME NEW r \in Requests, Step(r) PROVE Local'
  BY <1>1, <1>3, IssueLocal, RestockLocal, TransferReadSourceLocal, TransferReadDestLocal,
     TransferWritesLocal, RollbackReadTxnLocal, RollbackReadItemLocal, RollbackWritesLocal,
     CreateItemLocal, DeleteLocal, InsertLocal, EndingsLocal
  DEF Step, Transfer, Rollback
<1>4. QED
  BY <1>1, <1>2, <1>3 DEF Next

\* Types, and what each request knows of its own work at each of its steps, hold in
\* every state: the strengthening of TypeOK and PendingWritesValid that is inductive.
THEOREM LocalAlways == Spec => []Local
<1>1. Init => Local
  BY InitLocal
<1>2. Local /\ [Next]_vars => Local'
  BY LocalStep
<1>3. QED
  BY <1>1, <1>2, PTL DEF Spec

\* The types, and with them that quantities and the columns of every transaction
\* row stay natural numbers (the CHECK constraints of the two tables).
THEOREM TypeCorrect == Spec => []TypeOK
<1>1. Local => TypeOK
  BY DEF Local
<1>2. QED
  BY <1>1, LocalAlways, PTL

\* No write of a quantity is ever refused by the CHECK constraint: what a
\* handler checked on its own copy is enough, whatever the others did since.
THEOREM WritesAreValid == Spec => []PendingWritesValid
<1>1. Local => PendingWritesValid
  BY DEF Local, HandlerOK, Enough, PendingWritesValid, Running
<1>2. QED
  BY <1>1, LocalAlways, PTL

-----------------------------------------------------------------------------
(* What the handlers know of the tables: nothing is ever taken out of the    *)
(* ledger, and a handler that wrote a row finds it there.                     *)

Known(r) ==
    /\ pc[r] \in {"readItem", "reverse", "mark"} =>
          \E t \in ledger : t.id = req[r].target /\ t.type # "TRANSFER"
    /\ pc[r] = "insert" /\ req[r].target # NoTxn => req[r].target \in rolledBack
    /\ pc[r] = "insertInbound" =>
          \E t \in ledger : /\ t.id = <<r, "main">> /\ t.type = "TRANSFER"
                            /\ t.delta = req[r].amount /\ t.rollbackOf = NoTxn
    /\ pc[r] = "audit" /\ req[r].kind \in Movements => Whole(r, req[r].kind)
    /\ pc[r] \in Running \ {"delete"} => req[r].item \in rows \cup deleted

Recorded ==
    /\ \A r \in Requests : Known(r)
    /\ CompensationFollowsMark
    /\ InboundHasOutbound
    /\ AuditMeansWhole
    /\ \A t \in ledger : t.item \in rows
    /\ InitialRows \subseteq rows \cup deleted

Grows ==
    /\ ledger \subseteq ledger'
    /\ rolledBack \subseteq rolledBack'
    /\ rows \cup deleted \subseteq rows' \cup deleted'

\* What is recorded to the end stays so.
LEMMA WholeStays ==
    ASSUME Grows, NEW r, NEW kind, Whole(r, kind)
    PROVE  Whole(r, kind)'
  BY DEF Grows, Whole

\* Rows, marks and audit entries are never taken back, items that are gone stay gone.
LEMMA StepGrows ==
    ASSUME Local, NEW r \in Requests, Step(r)
    PROVE  Grows
<1>1. CASE Issue(r) \/ Restock(r)
  BY <1>1 DEF Issue, IssueRead, IssueUpdate, Restock, RestockRead, RestockUpdate, Write, Reject,
     dbvars, Grows
<1>2. CASE Transfer(r) \/ InsertTransaction(r)
  BY <1>2 DEF Transfer, TransferReadSource, TransferReadDest, TransferDebit, TransferCredit,
     InsertInbound, InsertTransaction, Insert, Write, Reject, dbvars, Grows
<1>3. CASE Rollback(r)
  BY <1>3 DEF Rollback, RollbackReadTxn, RollbackReadItem, RollbackUpdate, RollbackMark, Write,
     Reject, dbvars, Grows
<1>4. CASE CreateItem(r) \/ Delete(r)
  BY <1>4 DEF CreateItem, Delete, DeleteCheck, DeleteRow, Reject, dbvars, Grows
<1>5. CASE WriteAudit(r) \/ Fail(r)
  BY <1>5 DEF WriteAudit, Fail, dbvars, Grows
<1>6. QED
  BY <1>1, <1>2, <1>3, <1>4, <1>5 DEF Step

\* A step of one request leaves what the others have read and plan alone.
LEMMA StepAlone ==
    ASSUME Local, NEW r \in Requests, Step(r)
    PROVE  Alone(r)
<1> USE DEF Local, TypeOK, Alone, Begin, Goto, Finish, Reject, Write
<1>1. CASE Issue(r) \/ Restock(r)
  BY <1>1 DEF Issue, IssueRead, IssueUpdate, Restock, RestockRead, RestockUpdate
<1>2. CASE Transfer(r) \/ InsertTransaction(r)
  BY <1>2 DEF Transfer, TransferReadSource, TransferReadDest, TransferDebit, TransferCredit,
     InsertInbound, InsertTransaction, Insert
<1>3. CASE Rollback(r)
  BY <1>3 DEF Rollback, RollbackReadTxn, RollbackReadItem, RollbackUpdate, RollbackMark
<1>4. CASE CreateItem(r) \/ Delete(r)
  BY <1>4 DEF CreateItem, Delete, DeleteCheck, DeleteRow
<1>5. CASE WriteAudit(r) \/ Fail(r)
  BY <1>5 DEF WriteAudit, Fail
<1>6. QED
  BY <1>1, <1>2, <1>3, <1>4, <1>5 DEF Step

\* A request that ends adds no row.
LEMMA EndKnown ==
    ASSUME Local, NEW r \in Requests, NEW label \in Finished, Finish(r, label)
    PROVE  Known(r)'
  BY FinishLocal DEF Local, Known, Running

\* An early return adds no row.
LEMMA RejectKnown ==
    ASSUME Local, NEW r \in Requests, Reject(r)
    PROVE  Known(r)'
  BY EndKnown DEF Reject, Finished

\* A handler that starts, on an item it found, knows that the item is there.
LEMMA BeginKnown ==
    ASSUME Local, NEW r \in Requests, NEW b \in Body, NEW n \in Nat,
           NEW label \in {"cas", "write", "readDest"}, Begin(r, b, n, label),
           b.item \in rows, UNCHANGED dbvars
    PROVE  Known(r)'
<1>1. pc'[r] = label /\ req'[r] = b
  BY BeginLocal DEF Local, Running
<1>2. QED
  BY <1>1 DEF Known, dbvars

\* What issue_item has written is what its step says.
LEMMA IssueKnown ==
    ASSUME Local, Recorded, NEW r \in Requests, Issue(r)
    PROVE  Known(r)'
<1>1. CASE IssueRead(r)
  <2>1. PICK i \in Used("issue"), a \in Amounts :
           \/ /\ i \in rows
              /\ Begin(r, StockBody("issue", i, a), qty[i], "cas")
              /\ UNCHANGED dbvars
           \/ Reject(r)
    BY <1>1 DEF IssueRead
  <2>2. i \in Items /\ a \in Nat \ {0} /\ qty[i] \in Nat
    BY ConstantsAssumption DEF Used, Local, TypeOK
  <2>3. StockBody("issue", i, a) \in Body /\ StockBody("issue", i, a).item = i
    BY <2>2, StockBodyTyped DEF AllKinds, StockBody
  <2>4. QED
    BY <2>1, <2>2, <2>3, RejectKnown, BeginKnown
<1>2. CASE IssueUpdate(r)
  <2>1. CASE Write(r, req[r].item, NewQty(r), "insert")
    <3>1. /\ pc[r] = "cas" /\ pc'[r] = "insert" /\ req'[r] = req[r]
          /\ rows' = rows /\ deleted' = deleted
      BY <1>2, <2>1 DEF IssueUpdate, Write, Goto, Local, TypeOK
    <3>2. req[r].target = NoTxn /\ req[r].item \in rows \cup deleted
      BY <3>1 DEF Local, HandlerOK, Serves, WellFormed, Recorded, Known, Running
    <3>3. QED
      BY <3>1, <3>2 DEF Known
  <2>2. QED
    BY <1>2, <2>1, RejectKnown DEF IssueUpdate
<1>3. QED
  BY <1>1, <1>2 DEF Issue

\* What restock_item has written is what its step says.
LEMMA RestockKnown ==
    ASSUME Local, Recorded, NEW r \in Requests, Restock(r)
    PROVE  Known(r)'
<1>1. CASE RestockRead(r)
  <2>1. PICK i \in Used("restock"), a \in Amounts :
           \/ /\ i \in rows
              /\ Begin(r, StockBody("restock", i, a), qty[i], "write")
              /\ UNCHANGED dbvars
           \/ Reject(r)
    BY <1>1 DEF RestockRead
  <2>2. i \in Items /\ a \in Nat \ {0} /\ qty[i] \in Nat
    BY ConstantsAssumption DEF Used, Local, TypeOK
  <2>3. StockBody("restock", i, a) \in Body /\ StockBody("restock", i, a).item = i
    BY <2>2, StockBodyTyped DEF AllKinds, StockBody
  <2>4. QED
    BY <2>1, <2>2, <2>3, RejectKnown, BeginKnown
<1>2. CASE RestockUpdate(r)
  <2>1. /\ pc[r] = "write" /\ pc'[r] = "insert" /\ req'[r] = req[r]
        /\ rows' = rows /\ deleted' = deleted
    BY <1>2 DEF RestockUpdate, Write, Goto, Local, TypeOK
  <2>2. req[r].target = NoTxn /\ req[r].item \in rows \cup deleted
    BY <2>1 DEF Local, HandlerOK, Serves, WellFormed, Recorded, Known, Running
  <2>3. QED
    BY <2>1, <2>2 DEF Known
<1>3. QED
  BY <1>1, <1>2 DEF Restock

\* What transfer_item has written is what its step says.
LEMMA TransferKnown ==
    ASSUME Local, Recorded, NEW r \in Requests, Transfer(r)
    PROVE  Known(r)'
<1>1. CASE TransferReadSource(r)
  <2>1. PICK i \in Used("transfer"), j \in Used("transfer"), w \in Warehouses, a \in Amounts :
           \/ /\ i \in rows
              /\ Begin(r, [StockBody("transfer", i, a) EXCEPT !.dest = j, !.warehouse = w],
                       qty[i], "readDest")
              /\ UNCHANGED dbvars
           \/ Reject(r)
    BY <1>1 DEF TransferReadSource
  <2> DEFINE b == [StockBody("transfer", i, a) EXCEPT !.dest = j, !.warehouse = w]
  <2>2. i \in Items /\ j \in Items /\ a \in Nat \ {0} /\ qty[i] \in Nat
    BY ConstantsAssumption DEF Used, Local, TypeOK
  <2>3. b \in Body /\ b.item = i
    BY <2>2, ConstantsAssumption DEF StockBody, Body, AllKinds
  <2>4. CASE i \in rows /\ Begin(r, b, qty[i], "readDest") /\ UNCHANGED dbvars
    <3> HIDE DEF b
    <3> QED BY <2>2, <2>3, <2>4, BeginKnown
  <2>5. QED
    BY <2>1, <2>4, RejectKnown
<1>2. CASE TransferReadDest(r) \/ TransferDebit(r) \/ TransferCredit(r)
  <2>1. CASE Reject(r)
    BY <2>1, RejectKnown
  <2>2. CASE /\ pc[r] \in {"readDest", "debit", "credit"}
             /\ pc'[r] \in {"debit", "credit", "insert"} /\ req'[r] = req[r]
             /\ rows' = rows /\ deleted' = deleted
    <3>1. req[r].target = NoTxn /\ req[r].item \in rows \cup deleted
      BY <2>2 DEF Local, HandlerOK, Serves, WellFormed, Recorded, Known, Running
    <3>2. QED
      BY <2>2, <3>1 DEF Known
  <2>3. QED
    BY <1>2, <2>1, <2>2
    DEF TransferReadDest, TransferDebit, TransferCredit, Write, Goto, Local, TypeOK
<1>3. CASE InsertInbound(r)
  <2>1. CASE Finish(r, "failed")
    BY <2>1, EndKnown DEF Finished
  <2>2. CASE /\ ledger' = ledger \cup {InboundRow(r)} /\ Goto(r, "audit")
             /\ UNCHANGED <<req, seen>> /\ UNCHANGED <<rows, deleted, qty, rolledBack, audit>>
    <3>1. /\ pc[r] = "insertInbound" /\ pc'[r] = "audit" /\ req'[r] = req[r]
          /\ req[r].kind = "transfer"
      BY <1>3, <2>2 DEF InsertInbound, Goto, Local, TypeOK, HandlerOK, Serves, Running
    <3>2. PICK t \in ledger : t.id = <<r, "main">> /\ t.rollbackOf = NoTxn /\ t.delta = req[r].amount
      BY <3>1 DEF Recorded, Known
    <3>3. req[r].item \in rows \cup deleted
      BY <3>1 DEF Recorded, Known, Running
    <3>4. Whole(r, "transfer")'
      <4>1. InboundRow(r) \in ledger' /\ InboundRow(r).id = <<r, "inbound">> /\ InboundRow(r).delta = t.delta
        BY <2>2, <3>2 DEF InboundRow, Delta
      <4>2. QED
        BY <2>2, <3>2, <4>1 DEF Whole
    <3>5. QED
      BY <2>2, <3>1, <3>3, <3>4 DEF Known
  <2>3. QED
    BY <1>3, <2>1, <2>2 DEF InsertInbound, Insert
<1>4. QED
  BY <1>1, <1>2, <1>3 DEF Transfer

\* What rollback_transaction has written is what its step says.
LEMMA RollbackKnown ==
    ASSUME Local, Recorded, NEW r \in Requests, Rollback(r)
    PROVE  Known(r)'
<1>1. CASE RollbackReadTxn(r)
  <2>1. CASE Reject(r)
    BY <2>1, RejectKnown
  <2>2. ASSUME NEW t \in ledger, Reversible(t),
               Begin(r, [StockBody("rollback", t.item, t.delta) EXCEPT
                           !.target = t.id, !.reverses = t.type], 0, "readItem"),
               UNCHANGED dbvars
        PROVE  Known(r)'
    <3> DEFINE b == [StockBody("rollback", t.item, t.delta) EXCEPT
                       !.target = t.id, !.reverses = t.type]
    <3>1. b.target = t.id /\ b.item = t.item
      BY DEF StockBody
    <3>2. pc'[r] = "readItem" /\ req'[r] = b
      BY <2>2 DEF Begin, Goto, Local, TypeOK
    <3>3. t.type # "TRANSFER" /\ t.item \in rows /\ t \in ledger'
      BY <2>2 DEF Reversible, Recorded, dbvars
    <3> HIDE DEF b
    <3>4. QED
      BY <2>2, <3>1, <3>2, <3>3 DEF Known, dbvars
  <2>3. QED
    BY <1>1, <2>1, <2>2 DEF RollbackReadTxn
<1>2. CASE RollbackReadItem(r) \/ RollbackUpdate(r) \/ RollbackMark(r)
  <2>1. CASE Reject(r)
    BY <2>1, RejectKnown
  <2>2. CASE /\ pc[r] \in {"readItem", "reverse", "mark"} /\ req'[r] = req[r]
             /\ \/ pc'[r] \in {"reverse", "mark"}
                \/ pc'[r] = "insert" /\ req[r].target \in rolledBack'
             /\ rows' = rows /\ deleted' = deleted /\ ledger' = ledger
    <3>1. req[r].item \in rows \cup deleted
      BY <2>2 DEF Recorded, Known, Running
    <3>2. \E t \in ledger' : t.id = req'[r].target /\ t.type # "TRANSFER"
      BY <2>2 DEF Recorded, Known
    <3>3. QED
      BY <2>2, <3>1, <3>2 DEF Known
  <2>3. QED
    BY <1>2, <2>1, <2>2
    DEF RollbackReadItem, RollbackUpdate, RollbackMark, Write, Goto, Local, TypeOK
<1>3. QED
  BY <1>1, <1>2 DEF Rollback

\* create_item and delete_item write no transaction row.
LEMMA CreateDeleteKnown ==
    ASSUME Local, Recorded, NEW r \in Requests, CreateItem(r) \/ Delete(r)
    PROVE  Known(r)'
<1>1. CASE CreateItem(r)
  <2>1. CASE Reject(r)
    BY <2>1, RejectKnown
  <2>2. ASSUME NEW i \in Items, rows' = rows \cup {i},
               Begin(r, StockBody("create", i, 1), 0, "audit")
        PROVE  Known(r)'
    <3>1. /\ pc'[r] = "audit" /\ req'[r] = StockBody("create", i, 1)
          /\ req'[r].kind = "create" /\ req'[r].item = i
      BY <2>2 DEF Begin, Goto, StockBody, Local, TypeOK
    <3>2. QED
      BY <2>2, <3>1 DEF Known, Movements
  <2>3. QED
    BY <1>1, <2>1, <2>2 DEF CreateItem, Used
<1>2. CASE DeleteCheck(r)
  <2>1. CASE Reject(r)
    BY <2>1, RejectKnown
  <2>2. CASE \E i \in Items : Begin(r, StockBody("delete", i, 1), 0, "delete")
    <3>1. pc'[r] = "delete"
      BY <2>2 DEF Begin, Goto, Local, TypeOK
    <3>2. QED
      BY <3>1 DEF Known
  <2>3. QED
    BY <1>2, <2>1, <2>2 DEF DeleteCheck, Used
<1>3. CASE DeleteRow(r)
  <2>1. CASE Reject(r)
    BY <2>1, RejectKnown
  <2>2. CASE Finish(r, "failed")
    BY <2>2, EndKnown DEF Finished
  <2>3. CASE deleted' = deleted \cup {req[r].item} /\ Goto(r, "audit") /\ UNCHANGED req
    <3>1. /\ pc'[r] = "audit" /\ req'[r] = req[r] /\ req[r].kind = "delete"
      BY <1>3, <2>3 DEF DeleteRow, Goto, Local, TypeOK, HandlerOK, Serves, Running
    <3>2. QED
      BY <2>3, <3>1 DEF Known, Movements
  <2>4. QED
    BY <1>3, <2>1, <2>2, <2>3 DEF DeleteRow
<1>4. QED
  BY <1>1, <1>2, <1>3 DEF Delete

\* The row that a movement records names what it reverses, if anything.
LEMMA MainRowFields ==
    ASSUME Local, NEW r \in Requests, pc[r] = "insert"
    PROVE  /\ MainRow(r).id = <<r, "main">> /\ MainRow(r).item = req[r].item
           /\ MainRow(r).rollbackOf = req[r].target
           /\ req[r].kind = "rollback" <=> MainRow(r).rollbackOf # NoTxn
           /\ req[r].kind = "transfer" =>
                 /\ MainRow(r).type = "TRANSFER" /\ MainRow(r).delta = req[r].amount
                 /\ MainRow(r).rollbackOf = NoTxn
<1>1. WellFormed(req[r]) /\ Serves(r)
  BY DEF Local, HandlerOK, Running
<1>2. QED
  BY <1>1, SentinelAssumption DEF MainRow, TxnType, Delta, WellFormed

\* The inserts write the row that belongs to the request.
LEMMA InsertKnown ==
    ASSUME Local, Recorded, NEW r \in Requests, InsertTransaction(r)
    PROVE  Known(r)'
<1>1. CASE Finish(r, "failed")
  BY <1>1, EndKnown DEF Finished
<1>2. CASE /\ ledger' = ledger \cup {MainRow(r)}
           /\ Goto(r, IF req[r].kind = "transfer" THEN "insertInbound" ELSE "audit")
           /\ UNCHANGED <<req, seen>> /\ UNCHANGED <<rows, deleted, qty, rolledBack, audit>>
  <2>1. /\ pc[r] = "insert" /\ req'[r] = req[r]
        /\ pc'[r] = IF req[r].kind = "transfer" THEN "insertInbound" ELSE "audit"
    BY <1>2 DEF InsertTransaction, Goto, Local, TypeOK
  <2>2. req[r].item \in rows \cup deleted
    BY <2>1 DEF Recorded, Known, Running
  <2>3. MainRow(r) \in ledger'
    BY <1>2
  <2>4. ASSUME req[r].kind # "transfer" PROVE Whole(r, req[r].kind)'
    <3>1. /\ MainRow(r).id = <<r, "main">>
          /\ req[r].kind = "rollback" <=> MainRow(r).rollbackOf # NoTxn
      BY <2>1, MainRowFields
    <3>2. MainRow(r).rollbackOf # NoTxn => MainRow(r).rollbackOf \in rolledBack'
      BY <1>2, <2>1, MainRowFields DEF Recorded, Known
    <3>3. QED
      BY <2>1, <2>3, <2>4, <3>1, <3>2 DEF Whole
  <2>5. QED
    BY <1>2, <2>1, <2>2, <2>3, <2>4, MainRowFields DEF Known
<1>3. QED
  BY <1>1, <1>2 DEF InsertTransaction, Insert

\* What a request has written is known at every one of its steps.
LEMMA KnownStep ==
    ASSUME Local, Recorded, NEW r \in Requests, Step(r)
    PROVE  \A s \in Requests : Known(s)'
<1>1. Known(r)'
  <2>1. CASE WriteAudit(r) \/ Fail(r)
    BY <2>1, EndKnown DEF WriteAudit, Fail, Finished
  <2>2. QED
    BY <2>1, IssueKnown, RestockKnown, TransferKnown, RollbackKnown, CreateDeleteKnown,
       InsertKnown DEF Step
<1>2. ASSUME NEW s \in Requests, s # r PROVE Known(s)'
  <2>1. pc'[s] = pc[s] /\ req'[s] = req[s] /\ Known(s) /\ Grows
    BY <1>2, StepAlone, StepGrows DEF Alone, Recorded
  <2>2. pc[s] = "audit" /\ req[s].kind \in Movements => Whole(s, req[s].kind)'
    BY <2>1, WholeStays DEF Known
  <2>3. QED
    BY <2>1, <2>2 DEF Known, Grows
<1>3. QED
  BY <1>1, <1>2

\* The one place where each table grows or shrinks.
LEMMA TableChanges ==
    ASSUME Local, NEW r \in Requests, Step(r)
    PROVE  /\ \/ ledger' = ledger
              \/ /\ pc[r] = "insert" /\ ledger' = ledger \cup {MainRow(r)}
                 /\ MainRow(r).item \in rows /\ rows' = rows
              \/ /\ pc[r] = "insertInbound" /\ ledger' = ledger \cup {InboundRow(r)}
                 /\ InboundRow(r).item \in rows /\ rows' = rows
           /\ \/ rolledBack' = rolledBack
              \/ pc[r] = "mark" /\ rolledBack' = rolledBack \cup {req[r].target}
           /\ \/ audit' = audit
              \/ /\ pc[r] = "audit"
                 /\ audit' = audit \cup {[request |-> r, action |-> req[r].kind]}
           /\ \/ rows \subseteq rows'
              \/ \E i \in rows : /\ rows' = rows \ {i} /\ ~HasTransactions(i)
                                 /\ ledger' = ledger
<1>1. CASE Issue(r) \/ Restock(r)
  BY <1>1 DEF Issue, IssueRead, IssueUpdate, Restock, RestockRead, RestockUpdate, Write, Reject,
     dbvars
<1>2. CASE Transfer(r) \/ InsertTransaction(r)
  BY <1>2 DEF Transfer, TransferReadSource, TransferReadDest, TransferDebit, TransferCredit,
     InsertInbound, InsertTransaction, Insert, Write, Reject, dbvars
<1>3. CASE Rollback(r)
  BY <1>3 DEF Rollback, RollbackReadTxn, RollbackReadItem, RollbackUpdate, RollbackMark, Write,
     Reject, dbvars
<1>4. CASE CreateItem(r) \/ Delete(r)
  BY <1>4 DEF CreateItem, Delete, DeleteCheck, DeleteRow, Reject, dbvars
<1>5. CASE WriteAudit(r) \/ Fail(r)
  BY <1>5 DEF WriteAudit, Fail, dbvars
<1>6. QED
  BY <1>1, <1>2, <1>3, <1>4, <1>5 DEF Step

\* Recorded is inductive on top of Local.
LEMMA RecordedStep == Local /\ Recorded /\ [Next]_vars => Recorded'
<1>1. CASE UNCHANGED vars
  <2>1. Grows
    BY <1>1 DEF vars, Grows
  <2>2. ASSUME Recorded PROVE AuditMeansWhole'
    BY <1>1, <2>1, <2>2, WholeStays DEF vars, Recorded, AuditMeansWhole
  <2>3. ASSUME Recorded, NEW s \in Requests PROVE Known(s)'
    <3>1. pc[s] = "audit" /\ req[s].kind \in Movements => Whole(s, req[s].kind)'
      BY <1>1, <2>1, <2>3, WholeStays DEF vars, Recorded, Known
    <3>2. QED
      BY <1>1, <2>3, <3>1 DEF vars, Recorded, Known
  <2>4. QED
    BY <1>1, <2>2, <2>3 DEF vars, Recorded, CompensationFollowsMark, InboundHasOutbound
<1>2. ASSUME Local, Recorded, NEW r \in Requests, Step(r) PROVE Recorded'
  <2>1. \A s \in Requests : Known(s)'
    BY <1>2, KnownStep
  <2>2. Grows
    BY <1>2, StepGrows
  <2>3. Known(r)
    BY <1>2 DEF Recorded
  <2>4. CompensationFollowsMark'
    <3>1. ASSUME NEW t \in ledger', t.rollbackOf # NoTxn PROVE t.rollbackOf \in rolledBack'
      <4>1. CASE t \in ledger
        BY <1>2, <2>2, <3>1, <4>1 DEF Recorded, CompensationFollowsMark, Grows
      <4>2. CASE pc[r] = "insert" /\ t = MainRow(r)
        BY <1>2, <2>2, <2>3, <3>1, <4>2, MainRowFields DEF Known, Grows
      <4>3. CASE pc[r] = "insertInbound" /\ t = InboundRow(r)
        BY <3>1, <4>3 DEF InboundRow
      <4>4. QED
        BY <1>2, <4>1, <4>2, <4>3, TableChanges
    <3>2. ASSUME NEW id \in rolledBack' PROVE \E t \in ledger' : t.id = id /\ t.type # "TRANSFER"
      <4>1. \E t \in ledger : t.id = id /\ t.type # "TRANSFER"
        BY <1>2, <2>3, TableChanges DEF Recorded, CompensationFollowsMark, Known
      <4>2. QED
        BY <2>2, <4>1 DEF Grows
    <3>3. QED
      BY <3>1, <3>2 DEF CompensationFollowsMark
  <2>5. InboundHasOutbound'
    <3>1. ASSUME NEW t \in ledger', t.id[2] = "inbound"
          PROVE  \E u \in ledger : /\ u.id = <<t.id[1], "main">>
                                   /\ u.type = "TRANSFER" /\ u.delta = t.delta
      <4>1. CASE t \in ledger
        BY <1>2, <3>1, <4>1 DEF Recorded, InboundHasOutbound
      <4>2. CASE pc[r] = "insert" /\ t = MainRow(r)
        BY <1>2, <3>1, <4>2, MainRowFields
      <4>3. CASE pc[r] = "insertInbound" /\ t = InboundRow(r)
        BY <2>3, <4>3 DEF Known, InboundRow, Delta
      <4>4. QED
        BY <1>2, <4>1, <4>2, <4>3, TableChanges
    <3>2. QED
      BY <2>2, <3>1 DEF InboundHasOutbound, Grows
  <2>6. AuditMeansWhole'
    <3>1. ASSUME NEW e \in audit', e.action \in Movements
          PROVE  Whole(e.request, e.action)
      <4>1. CASE e \in audit
        BY <1>2, <3>1, <4>1 DEF Recorded, AuditMeansWhole, Movements
      <4>2. CASE pc[r] = "audit" /\ e = [request |-> r, action |-> req[r].kind]
        BY <2>3, <3>1, <4>2 DEF Known
      <4>3. QED
        BY <1>2, <4>1, <4>2, TableChanges
    <3>2. QED
      BY <2>2, <3>1, WholeStays DEF AuditMeansWhole, Movements
  <2>7. \A t \in ledger' : t.item \in rows'
    BY <1>2, TableChanges DEF Recorded, HasTransactions
  <2>8. InitialRows \subseteq rows' \cup deleted'
    BY <1>2, <2>2 DEF Recorded, Grows
  <2>9. QED
    BY <2>1, <2>4, <2>5, <2>6, <2>7, <2>8 DEF Recorded
<1>3. QED
  BY <1>1, <1>2 DEF Next

\* Rows, marks and audit entries are what the requests so far have written, in the
\* order in which the handlers write them: the invariant behind MarkComesFirst,
\* LegsInOrder and AuditTellsTheTruth.
THEOREM RecordedAlways == Spec => []Recorded
<1>1. Init => Recorded
  BY DEF Init, Recorded, Known, CompensationFollowsMark, InboundHasOutbound, AuditMeansWhole,
     Running
<1>2. Local /\ Recorded /\ [Next]_vars => Recorded'
  BY RecordedStep
<1>3. QED
  BY <1>1, <1>2, LocalAlways, PTL DEF Spec

\* A compensating row is never there before its original is marked, and only a
\* recorded ISSUE or RESTOCK is ever marked.
THEOREM MarkComesFirst == Spec => []CompensationFollowsMark
  BY RecordedAlways, PTL DEF Recorded

\* The inbound leg of a transfer never stands alone in the ledger.
THEOREM LegsInOrder == Spec => []InboundHasOutbound
  BY RecordedAlways, PTL DEF Recorded

\* An audit entry never reports a movement that stopped halfway: its rows and its mark
\* are all there, for every number of requests and whatever fails.
THEOREM AuditTellsTheTruth == Spec => []AuditMeansWhole
  BY RecordedAlways, PTL DEF Recorded

-----------------------------------------------------------------------------
(* Quantities *)

\* Where and how a step changes the quantity of an item.
LEMMA QuantityChanges ==
    ASSUME Local, NEW r \in Requests, Step(r)
    PROVE  \/ qty' = qty /\ rows' = rows
           \/ /\ pc[r] \in {"cas", "write", "debit", "reverse"} /\ rows' = rows
              /\ pc[r] = "cas" => CompareMatches(r)
              /\ SetQuantity(req[r].item, NewQty(r))
           \/ /\ pc[r] = "credit" /\ rows' = rows
              /\ SetQuantity(req[r].dest, seen[r].dest + req[r].amount)
           \/ \E i \in Items \ (rows \cup deleted), n \in InitialStocks :
                 /\ rows' = rows \cup {i} /\ qty' = [qty EXCEPT ![i] = n]
           \/ \E i \in rows : rows' = rows \ {i} /\ qty' = [qty EXCEPT ![i] = 0]
<1>1. CASE Issue(r) \/ Restock(r)
  BY <1>1 DEF Issue, IssueRead, IssueUpdate, Restock, RestockRead, RestockUpdate, Write, Reject,
     dbvars
<1>2. CASE Transfer(r) \/ InsertTransaction(r)
  BY <1>2 DEF Transfer, TransferReadSource, TransferReadDest, TransferDebit, TransferCredit,
     InsertInbound, InsertTransaction, Insert, Write, Reject, dbvars
<1>3. CASE Rollback(r)
  BY <1>3 DEF Rollback, RollbackReadTxn, RollbackReadItem, RollbackUpdate, RollbackMark, Write,
     Reject, dbvars
<1>4. CASE CreateItem(r) \/ Delete(r)
  BY <1>4 DEF CreateItem, Delete, DeleteCheck, DeleteRow, Reject, dbvars, Used
<1>5. CASE WriteAudit(r) \/ Fail(r)
  BY <1>5 DEF WriteAudit, Fail, dbvars
<1>6. QED
  BY <1>1, <1>2, <1>3, <1>4, <1>5 DEF Step

\* A quantity that a handler read from an item of which nothing is rolled back,
\* and is about to add to, was enough for the reservation.
ReadEnough(r) ==
    /\ pc[r] = "write" /\ req[r].item \notin Used("rollback") =>
          seen[r].item >= Reserved[req[r].item]
    /\ pc[r] \in {"debit", "credit"} /\ req[r].dest \notin Used("rollback") =>
          seen[r].dest >= Reserved[req[r].dest]

Reservations == ReservedKept /\ \A r \in Requests : ReadEnough(r)

\* A quantity read and found sufficient stays so for items used without rollback.
LEMMA ReadEnoughStep ==
    ASSUME Local, Reservations, NEW r \in Requests, Step(r)
    PROVE  ReadEnough(r)'
<1>1. SUFFICES ASSUME pc'[r] \in {"write", "debit", "credit"} PROVE ReadEnough(r)'
  BY DEF ReadEnough
<1>2. CASE RestockRead(r)
  <2>1. PICK i \in Used("restock"), a \in Amounts :
           i \in rows /\ Begin(r, StockBody("restock", i, a), qty[i], "write")
    BY <1>1, <1>2 DEF RestockRead, Reject, Finish, Goto, Local, TypeOK
  <2>2. pc'[r] = "write" /\ req'[r].item = i /\ seen'[r].item = qty[i]
    BY <2>1 DEF Begin, Goto, StockBody, Local, TypeOK, Snapshot
  <2>3. QED
    BY <2>1, <2>2 DEF ReadEnough, Reservations, ReservedKept, Used
<1>3. CASE TransferReadDest(r)
  <2>1. /\ pc'[r] = "debit" /\ req'[r] = req[r] /\ req[r].dest \in rows
        /\ seen'[r].dest = qty[req[r].dest]
    BY <1>1, <1>3 DEF TransferReadDest, TransferAllowed, Reject, Finish, Goto, Local, TypeOK, Snapshot
  <2>2. QED
    BY <2>1 DEF ReadEnough, Reservations, ReservedKept, Used
<1>4. CASE TransferDebit(r)
  <2>1. pc[r] = "debit" /\ pc'[r] = "credit" /\ req'[r] = req[r] /\ seen'[r] = seen[r]
    BY <1>4 DEF TransferDebit, Write, Goto, Local, TypeOK
  <2>2. QED
    BY <2>1 DEF ReadEnough, Reservations, Used
<1>5. ~(RestockRead(r) \/ TransferReadDest(r) \/ TransferDebit(r)) => FALSE
  <2> USE <1>1 DEF Local, TypeOK, Begin, Goto, Finish, Reject, Write
  <2>1. ~(Issue(r) \/ RestockUpdate(r))
    BY DEF Issue, IssueRead, IssueUpdate, RestockUpdate
  <2>2. ~(TransferReadSource(r) \/ TransferCredit(r) \/ InsertInbound(r) \/ InsertTransaction(r))
    BY DEF TransferReadSource, TransferCredit, InsertInbound, InsertTransaction, Insert
  <2>3. ~Rollback(r)
    BY DEF Rollback, RollbackReadTxn, RollbackReadItem, RollbackUpdate, RollbackMark
  <2>4. ~(CreateItem(r) \/ Delete(r) \/ WriteAudit(r) \/ Fail(r))
    BY DEF CreateItem, Delete, DeleteCheck, DeleteRow, WriteAudit, Fail
  <2>5. QED
    BY <2>1, <2>2, <2>3, <2>4 DEF Step, Restock, Transfer
<1>6. QED
  BY <1>2, <1>3, <1>4, <1>5

\* Reservations is inductive on top of Local and Recorded.
LEMMA ReservationsStep == Local /\ Recorded /\ Reservations /\ [Next]_vars => Reservations'
<1>1. CASE UNCHANGED vars
  BY <1>1 DEF vars, Reservations, ReadEnough, ReservedKept, Used
<1>2. ASSUME Local, Recorded, Reservations, NEW r \in Requests, Step(r) PROVE Reservations'
  <2>1. \A s \in Requests : ReadEnough(s)'
    <3>1. ReadEnough(r)'
      BY <1>2, ReadEnoughStep
    <3>2. ASSUME NEW s \in Requests, s # r PROVE ReadEnough(s)'
      <4>1. pc'[s] = pc[s] /\ req'[s] = req[s] /\ seen'[s] = seen[s] /\ ReadEnough(s)
        BY <1>2, <3>2, StepAlone DEF Alone, Reservations
      <4>2. QED
        BY <4>1 DEF ReadEnough, Used
    <3>3. QED
      BY <3>1, <3>2
  <2>2. ASSUME NEW j \in rows' \ Used("rollback") PROVE qty'[j] >= Reserved[j]
    <3>1. CASE qty' = qty /\ rows' = rows
      BY <1>2, <3>1 DEF Reservations, ReservedKept
    <3>2. CASE /\ pc[r] \in {"cas", "write", "debit", "reverse"} /\ rows' = rows
               /\ SetQuantity(req[r].item, NewQty(r))
      <4>1. /\ HandlerOK(r) /\ req[r] \in Body /\ seen[r] \in Snapshot /\ ReadEnough(r)
            /\ Reserved[j] \in Nat
        BY <1>2, <3>2, ConstantsAssumption DEF Local, TypeOK, Running, Reservations, Used
      <4>2. CASE j # req[r].item
        BY <1>2, <3>2, <4>2 DEF SetQuantity, Reservations, ReservedKept, Local, TypeOK
      <4>3. CASE j = req[r].item
        <5>1. qty'[j] = NewQty(r)
          BY <1>2, <3>2, <4>1, <4>3 DEF SetQuantity, Local, TypeOK, Body
        <5>2. pc[r] # "reverse"
          BY <4>1, <4>3, <2>2 DEF HandlerOK, Serves, WellFormed, Running
        <5>3. NewQty(r) >= Reserved[j]
          BY <3>2, <4>1, <4>3, <5>2, <2>2
          DEF HandlerOK, Serves, Enough, Running, NewQty, AddsStock, ReadEnough, Body, Snapshot
        <5>4. QED
          BY <5>1, <5>3
      <4>4. QED
        BY <4>2, <4>3
    <3>3. CASE /\ pc[r] = "credit" /\ rows' = rows
               /\ SetQuantity(req[r].dest, seen[r].dest + req[r].amount)
      <4>1. req[r] \in Body /\ seen[r] \in Snapshot /\ ReadEnough(r) /\ Reserved[j] \in Nat
        BY <1>2, <3>3, ConstantsAssumption DEF Local, TypeOK, Running, Reservations, Used
      <4>2. CASE j # req[r].dest
        BY <1>2, <3>3, <4>2 DEF SetQuantity, Reservations, ReservedKept, Local, TypeOK
      <4>3. CASE j = req[r].dest
        <5>1. qty'[j] = seen[r].dest + req[r].amount
          BY <1>2, <3>3, <4>1, <4>3 DEF SetQuantity, Local, TypeOK, Body
        <5>2. seen[r].dest >= Reserved[j]
          BY <2>2, <3>3, <4>1, <4>3 DEF ReadEnough
        <5>3. QED
          BY <4>1, <5>1, <5>2 DEF Body, Snapshot
      <4>4. QED
        BY <4>2, <4>3
    <3>4. ASSUME NEW i \in Items \ (rows \cup deleted), NEW n \in InitialStocks,
                 rows' = rows \cup {i}, qty' = [qty EXCEPT ![i] = n]
          PROVE  qty'[j] >= Reserved[j]
      <4>1. n \in Nat /\ Reserved[i] = 0
        BY <1>2, ConstantsAssumption DEF Recorded
      <4>2. QED
        BY <1>2, <2>2, <3>4, <4>1 DEF Reservations, ReservedKept, Local, TypeOK
    <3>5. ASSUME NEW i \in rows, rows' = rows \ {i}, qty' = [qty EXCEPT ![i] = 0]
          PROVE  qty'[j] >= Reserved[j]
      BY <1>2, <2>2, <3>5 DEF Reservations, ReservedKept, Local, TypeOK
    <3>6. QED
      BY <1>2, <3>1, <3>2, <3>3, <3>4, <3>5, QuantityChanges
  <2>3. QED
    BY <2>1, <2>2 DEF Reservations, ReservedKept, Used
<1>3. QED
  BY <1>1, <1>2 DEF Next

\* What is reserved of an item stays in stock as long as nobody rolls back its
\* movements, for every interleaving with stale restocks and transfers.
THEOREM ReservationsHold == Spec => []ReservedKept
<1>1. Init => Reservations
  BY ConstantsAssumption DEF Init, Reservations, ReadEnough, ReservedKept
<1>2. Local /\ Recorded /\ Reservations /\ [Next]_vars => Reservations'
  BY ReservationsStep
<1>3. Reservations => ReservedKept
  BY DEF Reservations
<1>4. QED
  BY <1>1, <1>2, <1>3, LocalAlways, RecordedAlways, PTL DEF Spec

-----------------------------------------------------------------------------
(* Issued units *)

Taken == ledger \cup PendingRows \cup unrecorded

\* A row of an item that is only issued took stock, at a level above the present.
Above(t) ==
    /\ t \in Txn /\ t.item \in rows \cup deleted
    /\ t.after < t.before /\ qty[t.item] <= t.after

Units ==
    /\ \A t \in Taken : t.item \in OnlyIssued => Above(t)
    /\ \A t, u \in Taken :
          t.item = u.item /\ t.item \in OnlyIssued => t.id = u.id \/ Disjoint(t, u)

\* The rows of an only issued item, recorded or not, form one chain that ends at
\* its stock.
Chained ==
    \A i \in rows \cap OnlyIssued : LET L == Account(i) IN
        /\ L # {} => \E t \in L : t.after = qty[i]
        /\ \A t \in L : t.after = qty[i] \/ \E u \in L : u.before = t.after
        /\ \A t, u \in L : (\A v \in L : v.after \notin {t.before, u.before}) => t.id = u.id

\* How a handler gets to the insert of its row: only an issue serves an item
\* that is only issued, and its row continues the quantity that is there.
LEMMA ArriveAtInsert ==
    ASSUME Local, NEW r \in Requests, Step(r), pc'[r] = "insert"
    PROVE  /\ MainRow(r)' = MainRow(r) /\ ledger' = ledger /\ rows' = rows
           /\ \/ /\ pc[r] = "cas" /\ CompareMatches(r)
                 /\ qty' = [qty EXCEPT ![req[r].item] = NewQty(r)]
              \/ MainRow(r).item \notin OnlyIssued
           /\ pc[r] \in {"cas", "write", "credit"} \/ RollbackMark(r)
<1> USE DEF Local, TypeOK, Begin, Goto, Finish, Reject
<1>1. CASE IssueUpdate(r)
  BY <1>1 DEF IssueUpdate, Write, SetQuantity, CompareMatches, MainRow, Delta, NewQty
<1>2. CASE RestockUpdate(r)
  <2>1. req[r].item \in Used("restock")
    BY <1>2 DEF RestockUpdate, HandlerOK, Serves, WellFormed, Running
  <2>2. QED
    BY <1>2, <2>1 DEF RestockUpdate, Write, MainRow, Delta, NewQty, OnlyIssued
<1>3. CASE TransferCredit(r)
  <2>1. req[r].item \in Used("transfer")
    BY <1>3 DEF TransferCredit, HandlerOK, Serves, WellFormed, Running
  <2>2. QED
    BY <1>3, <2>1 DEF TransferCredit, Write, MainRow, Delta, NewQty, OnlyIssued
<1>4. CASE RollbackMark(r)
  <2>1. req[r].item \in Used("rollback")
    BY <1>4 DEF RollbackMark, HandlerOK, Serves, WellFormed, Running
  <2>2. QED
    BY <1>4, <2>1 DEF RollbackMark, MainRow, Delta, NewQty, OnlyIssued
<1>5. ~(IssueUpdate(r) \/ RestockUpdate(r) \/ TransferCredit(r) \/ RollbackMark(r)) => FALSE
  <2>1. ~(IssueRead(r) \/ RestockRead(r))
    BY DEF IssueRead, RestockRead
  <2>2. ~(TransferReadSource(r) \/ TransferReadDest(r) \/ TransferDebit(r))
    BY DEF TransferReadSource, TransferReadDest, TransferDebit, Write
  <2>3. ~(InsertInbound(r) \/ InsertTransaction(r))
    BY DEF InsertInbound, InsertTransaction, Insert
  <2>4. ~(RollbackReadTxn(r) \/ RollbackReadItem(r) \/ RollbackUpdate(r))
    BY DEF RollbackReadTxn, RollbackReadItem, RollbackUpdate, Write
  <2>5. ~(CreateItem(r) \/ Delete(r) \/ WriteAudit(r) \/ Fail(r))
    BY DEF CreateItem, Delete, DeleteCheck, DeleteRow, WriteAudit, Fail
  <2>6. QED
    BY <2>1, <2>2, <2>3, <2>4, <2>5 DEF Step, Issue, Restock, Transfer, Rollback
<1>6. QED
  BY <1>1, <1>2, <1>3, <1>4, <1>5

\* What a step adds to the rows that were never inserted was due before.
LEMMA UnrecordedChanges ==
    ASSUME Local, NEW r \in Requests, Step(r)
    PROVE  /\ unrecorded \subseteq unrecorded' /\ unrecorded' \subseteq unrecorded \cup Due(r)
           /\ pc[r] = "insert" => MainRow(r) \in ledger' \cup unrecorded'
<1>1. CASE Issue(r) \/ Restock(r)
  BY <1>1 DEF Issue, IssueRead, IssueUpdate, Restock, RestockRead, RestockUpdate, Write, Reject,
     dbvars
<1>2. CASE Transfer(r) \/ InsertTransaction(r)
  BY <1>2 DEF Transfer, TransferReadSource, TransferReadDest, TransferDebit, TransferCredit,
     InsertInbound, InsertTransaction, Insert, Write, Reject, dbvars, Due
<1>3. CASE Rollback(r)
  BY <1>3 DEF Rollback, RollbackReadTxn, RollbackReadItem, RollbackUpdate, RollbackMark, Write,
     Reject, dbvars
<1>4. CASE CreateItem(r) \/ Delete(r)
  BY <1>4 DEF CreateItem, Delete, DeleteCheck, DeleteRow, Reject, dbvars
<1>5. CASE WriteAudit(r) \/ Fail(r)
  BY <1>5 DEF WriteAudit, Fail, Due
<1>6. QED
  BY <1>1, <1>2, <1>3, <1>4, <1>5 DEF Step

\* Nothing is ever taken out of an account: a row that was due is inserted, stays
\* due, or is remembered as missing.
LEMMA TakenGrows ==
    ASSUME Local, NEW r \in Requests, Step(r), NEW t \in Taken
    PROVE  t \in Taken'
<1>1. CASE t \in ledger \cup unrecorded
  BY <1>1, StepGrows, UnrecordedChanges DEF Grows, Taken
<1>2. CASE \E s \in Requests : pc[s] = "insert" /\ t = MainRow(s)
  <2>1. PICK s \in Requests : pc[s] = "insert" /\ t = MainRow(s)
    BY <1>2
  <2>2. CASE s = r
    BY <2>1, <2>2, UnrecordedChanges DEF Taken
  <2>3. CASE s # r
    <3>1. pc'[s] = "insert" /\ MainRow(s)' = t
      BY <2>1, <2>3, StepAlone DEF Alone, MainRow, NewQty, AddsStock, Delta
    <3>2. QED
      BY <3>1 DEF Taken, PendingRows
  <2>4. QED
    BY <2>2, <2>3
<1>3. QED
  BY <1>1, <1>2 DEF Taken, PendingRows

\* The rows of only issued items that a step adds: at most the one of an issue.
LEMMA TakenChanges ==
    ASSUME Local, NEW r \in Requests, Step(r), NEW t \in Taken', t.item \in OnlyIssued
    PROVE  \/ t \in Taken
           \/ /\ t = MainRow(r) /\ rows' = rows
              /\ pc[r] = "cas" /\ CompareMatches(r)
              /\ qty' = [qty EXCEPT ![req[r].item] = NewQty(r)]
<1>1. CASE t \in ledger'
  <2>1. CASE t \in ledger
    BY <2>1 DEF Taken
  <2>2. CASE pc[r] = "insert" /\ t = MainRow(r)
    BY <2>2 DEF Taken, PendingRows
  <2>3. CASE pc[r] = "insertInbound" /\ t = InboundRow(r)
    <3>1. t.item \in Used("transfer")
      BY <2>3 DEF InboundRow, Local, HandlerOK, Serves, WellFormed, Running
    <3>2. QED
      BY <3>1 DEF OnlyIssued
  <2>4. QED
    BY <1>1, <2>1, <2>2, <2>3, TableChanges
<1>2. CASE t \in PendingRows'
  <2>1. PICK s \in Requests : pc'[s] = "insert" /\ t = MainRow(s)'
    BY <1>2 DEF PendingRows
  <2>2. CASE s = r
    BY <2>1, <2>2, ArriveAtInsert
  <2>3. CASE s # r
    <3>1. pc[s] = "insert" /\ t = MainRow(s)
      BY <2>1, <2>3, StepAlone DEF Alone, MainRow, NewQty, AddsStock, Delta
    <3>2. QED
      BY <3>1 DEF Taken, PendingRows
  <2>4. QED
    BY <2>2, <2>3
<1>3. CASE t \in unrecorded'
  BY <1>3, UnrecordedChanges DEF Taken, Due, PendingRows
<1>4. QED
  BY <1>1, <1>2, <1>3 DEF Taken

\* The stock of an only issued item that is, or was, there never grows.
LEMMA OnlyShrinks ==
    ASSUME Local, NEW r \in Requests, Step(r),
           NEW i \in OnlyIssued, i \in rows \cup deleted
    PROVE  qty'[i] <= qty[i]
<1>1. i \in Items /\ qty[i] \in Nat
  BY DEF OnlyIssued, Local, TypeOK
<1>2. CASE qty' = qty
  BY <1>1, <1>2
<1>3. CASE /\ pc[r] \in {"cas", "write", "debit", "reverse"}
           /\ pc[r] = "cas" => CompareMatches(r)
           /\ SetQuantity(req[r].item, NewQty(r))
  <2>1. CASE i # req[r].item
    BY <1>1, <1>3, <2>1 DEF SetQuantity, Local, TypeOK
  <2>2. CASE i = req[r].item
    <3>1. pc[r] = "cas" /\ req[r].kind = "issue" /\ req[r] \in Body
      BY <1>3, <2>2 DEF Local, TypeOK, HandlerOK, Serves, WellFormed, OnlyIssued, Running
    <3>2. qty'[i] = qty[i] - req[r].amount
      BY <1>1, <1>3, <2>2, <3>1 DEF SetQuantity, CompareMatches, NewQty, AddsStock, Local, TypeOK
    <3>3. QED
      BY <1>1, <3>1, <3>2 DEF Body
  <2>3. QED
    BY <2>1, <2>2
<1>4. CASE pc[r] = "credit" /\ SetQuantity(req[r].dest, seen[r].dest + req[r].amount)
  <2>1. req[r].dest \in Used("transfer")
    BY <1>4 DEF Local, HandlerOK, Serves, WellFormed, Running
  <2>2. QED
    BY <1>1, <1>4, <2>1 DEF SetQuantity, OnlyIssued, Local, TypeOK
<1>5. CASE \E j \in Items \ (rows \cup deleted), n \in InitialStocks : qty' = [qty EXCEPT ![j] = n]
  BY <1>1, <1>5 DEF Local, TypeOK
<1>6. CASE \E j \in rows : qty' = [qty EXCEPT ![j] = 0]
  BY <1>1, <1>6 DEF Local, TypeOK
<1>7. QED
  BY <1>2, <1>3, <1>4, <1>5, <1>6, QuantityChanges

\* The row of an issue starts at the stock its update found and ends at the stock
\* it left.
LEMMA NewRow ==
    ASSUME Local, Recorded, NEW r \in Requests, pc[r] = "cas", CompareMatches(r),
           MainRow(r).item \in OnlyIssued, rows' = rows,
           qty' = [qty EXCEPT ![req[r].item] = NewQty(r)]
    PROVE  /\ MainRow(r).before = qty[MainRow(r).item]
           /\ MainRow(r).after = qty'[MainRow(r).item]
           /\ MainRow(r).after < MainRow(r).before
           /\ MainRow(r) \in Txn /\ MainRow(r).item \in rows
<1>1. /\ NewQty(r) \in Nat /\ req[r].kind = "issue" /\ req[r].target = NoTxn
      /\ req[r] \in Body /\ seen[r] \in Snapshot
  BY DEF Local, TypeOK, HandlerOK, Enough, Serves, WellFormed, Running
<1>2. NewQty(r) = seen[r].item - req[r].amount
  BY <1>1 DEF NewQty, AddsStock
<1>3. MainRow(r) \in Txn
  <2>1. <<r, "main">> \in TxnIds /\ WarehouseOf[req[r].item] \in Warehouses
    BY <1>1, ConstantsAssumption DEF TxnIds, Legs, Body
  <2>2. QED
    BY <1>1, <2>1 DEF MainRow, Txn, TxnType, TxnTypes, Delta, Body, Snapshot
<1>4. QED
  BY <1>1, <1>2, <1>3 DEF CompareMatches, MainRow, Local, TypeOK, OnlyIssued, Body, Snapshot

\* A row that a step finds keeps its place above the stock.
LEMMA AboveStays ==
    ASSUME Local, Recorded, Units, NEW r \in Requests, Step(r),
           NEW t \in Taken, t.item \in OnlyIssued
    PROVE  Above(t) /\ Above(t)'
<1>1. Above(t)
  BY DEF Units
<1>2. qty'[t.item] <= qty[t.item] /\ qty[t.item] \in Nat /\ qty'[t.item] \in Nat
  BY <1>1, OnlyShrinks, LocalStep DEF Above, Txn, Local, TypeOK, Next
<1>3. QED
  BY <1>1, <1>2, StepGrows DEF Above, Grows, Txn

\* Units is inductive on top of Local and Recorded.
LEMMA UnitsStep == Local /\ Recorded /\ Units /\ [Next]_vars => Units'
<1>1. CASE UNCHANGED vars
  BY <1>1 DEF vars, Units, Taken, Above, PendingRows, MainRow, NewQty, AddsStock, Delta,
     Disjoint, OnlyIssued, Used
<1>2. ASSUME Local, Recorded, Units, NEW r \in Requests, Step(r) PROVE Units'
  <2>1. ASSUME NEW t \in Taken', t.item \in OnlyIssued PROVE Above(t)'
    <3>1. CASE t \in Taken
      BY <1>2, <2>1, <3>1, AboveStays
    <3>2. CASE t \notin Taken
      <4>1. /\ t = MainRow(r) /\ rows' = rows /\ pc[r] = "cas" /\ CompareMatches(r)
            /\ qty' = [qty EXCEPT ![req[r].item] = NewQty(r)]
        BY <1>2, <2>1, <3>2, TakenChanges
      <4>2. /\ t.after = qty'[t.item] /\ t.after < t.before /\ t \in Txn /\ t.item \in rows
        BY <1>2, <2>1, <4>1, NewRow
      <4>3. t.after \in Nat
        BY <4>2 DEF Txn
      <4>4. QED
        BY <4>1, <4>2, <4>3 DEF Above
    <3>3. QED
      BY <3>1, <3>2
  <2>2. ASSUME NEW t \in Taken, NEW u \in Taken' \ Taken, t.item = u.item, t.item \in OnlyIssued
        PROVE  u.before <= t.after
    <3>1. /\ u = MainRow(r) /\ rows' = rows /\ pc[r] = "cas" /\ CompareMatches(r)
          /\ qty' = [qty EXCEPT ![req[r].item] = NewQty(r)]
      BY <1>2, <2>2, TakenChanges
    <3>2. QED
      BY <1>2, <2>2, <3>1, NewRow DEF Units, Above
  <2>3. ASSUME NEW t \in Taken', NEW u \in Taken', t.item = u.item, t.item \in OnlyIssued
        PROVE  t.id = u.id \/ Disjoint(t, u)
    <3>1. CASE t \in Taken /\ u \in Taken
      BY <1>2, <2>3, <3>1 DEF Units
    <3>2. CASE t \notin Taken /\ u \notin Taken
      BY <1>2, <2>3, <3>2, TakenChanges
    <3>3. CASE t \in Taken /\ u \notin Taken
      BY <2>2, <2>3, <3>3 DEF Disjoint
    <3>4. CASE t \notin Taken /\ u \in Taken
      BY <2>2, <2>3, <3>4 DEF Disjoint
    <3>5. QED
      BY <3>1, <3>2, <3>3, <3>4
  <2>4. QED
    BY <2>1, <2>3 DEF Units, OnlyIssued, Used, Disjoint
<1>3. QED
  BY <1>1, <1>2 DEF Next

\* An issue gets to its insert through its update and no other way.
LEMMA ArriveByUpdate ==
    ASSUME Local, NEW r \in Requests, Step(r), pc[r] = "cas"
    PROVE  IssueUpdate(r) \/ Fail(r)
  BY DEF Step, Issue, IssueRead, Restock, RestockRead, RestockUpdate, Transfer, TransferReadSource,
     TransferReadDest, TransferDebit, TransferCredit, InsertInbound, Rollback, RollbackReadTxn,
     RollbackReadItem, RollbackUpdate, RollbackMark, CreateItem, Delete, DeleteCheck, DeleteRow,
     InsertTransaction, WriteAudit

\* Units holds in every state.
LEMMA UnitsAlways == Spec => []Units
<1>1. Init => Units
  BY DEF Init, Units, Taken, PendingRows
<1>2. Local /\ Recorded /\ Units /\ [Next]_vars => Units'
  BY UnitsStep
<1>3. QED
  BY <1>1, <1>2, LocalAlways, RecordedAlways, PTL DEF Spec

\* No unit of an item that is only issued is ever issued twice: the conditional
\* UPDATE suffices, also when a value it compares with has come back.
THEOREM NoUnitTwice == Spec => []IssuesDisjoint
<1>1. Units => IssuesDisjoint
  BY DEF Units, Taken, IssuesDisjoint
<1>2. QED
  BY <1>1, UnitsAlways, PTL

\* A step keeps the stock and the account of an item that is only issued, or is one
\* issue that prolongs the account by its row.
LEMMA AccountSteps ==
    ASSUME Local, Recorded, Units, NEW r \in Requests, Step(r),
           NEW i \in OnlyIssued, i \in rows, i \in rows'
    PROVE  \/ qty'[i] = qty[i] /\ Account(i)' = Account(i)
           \/ \E t : /\ Account(i)' = Account(i) \cup {t} /\ t \in Txn
                    /\ t.before = qty[i] /\ t.after = qty'[i] /\ t.after < t.before
<1>1. i \in Items /\ qty \in [Items -> Nat]
  BY DEF OnlyIssued, Local, TypeOK
<1>2. \A t : t \in Account(i)' <=> t \in Taken' /\ t.item = i
  BY DEF Account, Taken
<1>3. \A t : t \in Account(i) <=> t \in Taken /\ t.item = i
  BY DEF Account, Taken
<1>4. CASE /\ pc[r] = "cas" /\ CompareMatches(r) /\ rows' = rows /\ req[r].item = i
           /\ qty' = [qty EXCEPT ![i] = NewQty(r)] /\ pc'[r] = "insert"
  <2>1. MainRow(r).item = i
    BY <1>4 DEF MainRow
  <2>2. /\ MainRow(r) \in Txn /\ MainRow(r).before = qty[i] /\ MainRow(r).after = qty'[i]
        /\ MainRow(r).after < MainRow(r).before
    BY <1>4, <2>1, NewRow
  <2>3. MainRow(r) \in Taken'
    BY <1>4, ArriveAtInsert DEF Taken, PendingRows
  <2>4. Account(i)' = Account(i) \cup {MainRow(r)}
    BY <1>2, <1>3, <2>1, <2>3, TakenGrows, TakenChanges
  <2>5. QED
    BY <2>2, <2>4
<1>5. CASE qty'[i] = qty[i]
  <2>1. ASSUME NEW t \in Taken', t.item = i PROVE t \in Taken
    <3>1. SUFFICES ASSUME t \notin Taken PROVE FALSE
      OBVIOUS
    <3>2. /\ t = MainRow(r) /\ rows' = rows /\ pc[r] = "cas" /\ CompareMatches(r)
          /\ qty' = [qty EXCEPT ![req[r].item] = NewQty(r)]
      BY <2>1, <3>1, TakenChanges
    <3>3. t.before = qty[i] /\ t.after = qty'[i] /\ t.after < t.before /\ t \in Txn
      BY <2>1, <3>2, NewRow
    <3>4. QED
      BY <1>1, <1>5, <3>3 DEF Txn
  <2>2. Account(i)' = Account(i)
    BY <1>2, <1>3, <2>1, TakenGrows
  <2>3. QED
    BY <1>5, <2>2
<1>6. CASE /\ pc[r] \in {"cas", "write", "debit", "reverse"} /\ rows' = rows
           /\ pc[r] = "cas" => CompareMatches(r)
           /\ SetQuantity(req[r].item, NewQty(r))
  <2>1. CASE req[r].item # i
    BY <1>1, <1>5, <1>6, <2>1 DEF SetQuantity
  <2>2. CASE req[r].item = i
    <3>1. pc[r] = "cas" /\ qty' = [qty EXCEPT ![i] = NewQty(r)]
      BY <1>6, <2>2 DEF SetQuantity, Local, TypeOK, HandlerOK, Serves, WellFormed, OnlyIssued, Running
    <3>2. CASE IssueUpdate(r) /\ ~Reject(r)
      BY <1>4, <1>6, <2>2, <3>1, <3>2 DEF IssueUpdate, Write, Goto, Local, TypeOK
    <3>3. CASE Reject(r) \/ Fail(r)
      BY <1>5, <3>3 DEF Reject, Fail, dbvars
    <3>4. QED
      BY <3>1, <3>2, <3>3, ArriveByUpdate
  <2>3. QED
    BY <2>1, <2>2
<1>7. CASE pc[r] = "credit" /\ SetQuantity(req[r].dest, seen[r].dest + req[r].amount)
  <2>1. req[r].dest \in Used("transfer")
    BY <1>7 DEF Local, HandlerOK, Serves, WellFormed, Running
  <2>2. QED
    BY <1>1, <1>5, <1>7, <2>1 DEF SetQuantity, OnlyIssued
<1>8. CASE \/ qty' = qty
           \/ \E j \in Items \ (rows \cup deleted), n \in InitialStocks : qty' = [qty EXCEPT ![j] = n]
           \/ \E j \in rows : rows' = rows \ {j} /\ qty' = [qty EXCEPT ![j] = 0]
  BY <1>1, <1>5, <1>8
<1>9. QED
  BY <1>6, <1>7, <1>8, QuantityChanges

\* An item that has just been created has no account yet.
LEMMA NewItemHasNoAccount ==
    ASSUME Local, Recorded, Units, NEW r \in Requests, Step(r),
           NEW i \in OnlyIssued, i \notin rows, i \in rows'
    PROVE  Account(i)' = {}
<1>1. i \in Items \ (rows \cup deleted)
  BY QuantityChanges DEF OnlyIssued
<1>2. ~\E t \in Taken : t.item = i
  BY <1>1 DEF Units, Above
<1>3. ASSUME NEW t \in Taken', t.item = i PROVE FALSE
  <2>1. t.item \in OnlyIssued
    BY <1>3
  <2>2. rows' # rows /\ t \notin Taken
    BY <1>2, <1>3
  <2>3. QED
    BY <2>1, <2>2, TakenChanges
<1>4. Account(i)' = {t \in Taken' : t.item = i}
  BY DEF Account, Taken
<1>5. QED
  BY <1>3, <1>4

\* The chain is inductive on top of the types, the rows and the units.
LEMMA ChainedStep == Local /\ Recorded /\ Units /\ Chained /\ [Next]_vars => Chained'
<1>1. CASE UNCHANGED vars
  <2>1. UNCHANGED <<rows, qty, PendingRows>>
    BY <1>1 DEF vars, PendingRows, MainRow, NewQty, AddsStock, Delta
  <2>2. ASSUME NEW i PROVE Account(i)' = Account(i)
    BY <1>1, <2>1 DEF vars, Account
  <2>3. QED
    BY <2>1, <2>2 DEF Chained, OnlyIssued
<1>2. ASSUME Local, Recorded, Units, Chained, NEW r \in Requests, Step(r),
             NEW i \in rows' \cap OnlyIssued
      PROVE  /\ Account(i)' # {} => \E t \in Account(i)' : t.after = qty'[i]
             /\ \A t \in Account(i)' : t.after = qty'[i] \/ \E u \in Account(i)' : u.before = t.after
             /\ \A t, u \in Account(i)' :
                   (\A v \in Account(i)' : v.after \notin {t.before, u.before}) => t.id = u.id
  <2> DEFINE L == Account(i)
             M == Account(i)'
  <2>1. CASE i \notin rows
    BY <1>2, <2>1, NewItemHasNoAccount
  <2>2. CASE i \in rows /\ qty'[i] = qty[i] /\ M = L
    BY <1>2, <2>2 DEF Chained
  <2>3. ASSUME i \in rows, NEW n, M = L \cup {n},
               n.before = qty[i], n.after = qty'[i]
        PROVE  /\ \E t \in M : t.after = qty'[i]
               /\ \A t \in M : t.after = qty'[i] \/ \E u \in M : u.before = t.after
               /\ \A t, u \in M : (\A v \in M : v.after \notin {t.before, u.before}) => t.id = u.id
    <3>1. /\ L # {} => \E t \in L : t.after = qty[i]
          /\ \A t \in L : t.after = qty[i] \/ \E u \in L : u.before = t.after
          /\ \A t, u \in L : (\A v \in L : v.after \notin {t.before, u.before}) => t.id = u.id
      BY <1>2, <2>3 DEF Chained
    <3> HIDE DEF L, M
    <3>2. \A t \in M : t.after = qty'[i] \/ \E u \in M : u.before = t.after
      BY <2>3, <3>1
    <3>3. ASSUME NEW t \in M, NEW u \in M, \A v \in M : v.after \notin {t.before, u.before}
          PROVE  t.id = u.id
      <4>1. CASE L = {}
        BY <2>3, <3>3, <4>1
      <4>2. CASE L # {}
        <5>1. t # n /\ u # n
          BY <2>3, <3>1, <3>3, <4>2
        <5>2. QED
          BY <2>3, <3>1, <3>3, <5>1
      <4>3. QED
        BY <4>1, <4>2
    <3>4. QED
      BY <2>3, <3>2, <3>3
  <2>4. QED
    <3>1. CASE i \in rows
      <4>1. CASE qty'[i] = qty[i] /\ M = L
        BY <2>2, <3>1, <4>1
      <4>2. CASE \E n : M = L \cup {n} /\ n.before = qty[i] /\ n.after = qty'[i]
        BY <2>3, <3>1, <4>2
      <4>3. QED
        BY <1>2, <3>1, <4>1, <4>2, AccountSteps
    <3>2. QED
      BY <2>1, <3>1
<1>3. ASSUME Local, Recorded, Units, Chained, NEW r \in Requests, Step(r) PROVE Chained'
  <2>1. OnlyIssued' = OnlyIssued
    BY DEF OnlyIssued, Used
  <2>2. QED
    BY <1>2, <1>3, <2>1 DEF Chained
<1>4. QED
  BY <1>1, <1>3 DEF Next

\* The rows of an item that is only issued, with those its failed handlers never
\* inserted, account for its stock without a gap or a fork, for every number of
\* requests and whatever fails.
THEOREM IssuesAccountForTheStock == Spec => []IssuesAccountForStock
<1>1. Init => Chained
  BY DEF Init, Chained, Account, PendingRows
<1>2. Local /\ Recorded /\ Units /\ Chained /\ [Next]_vars => Chained'
  BY ChainedStep
<1>3. Units /\ Chained => IssuesAccountForStock
  <2>1. SUFFICES ASSUME Units, Chained, NEW i \in rows \cap OnlyIssued,
                        NEW t \in Account(i), NEW u \in Account(i),
                        t.before = u.before \/ t.after = u.after
                 PROVE  t.id = u.id
    BY DEF IssuesAccountForStock, Chained
  <2>2. /\ t \in Taken /\ u \in Taken /\ t.item = i /\ u.item = i
    BY DEF Account, Taken
  <2>3. /\ t \in Txn /\ u \in Txn /\ t.after < t.before /\ u.after < u.before
        /\ t.id = u.id \/ Disjoint(t, u)
    BY <2>1, <2>2 DEF Units, Above
  <2>4. QED
    BY <2>1, <2>3 DEF Disjoint, Txn
<1>4. QED
  BY <1>1, <1>2, <1>3, LocalAlways, RecordedAlways, UnitsAlways, PTL DEF Spec

-----------------------------------------------------------------------------
(* Rollbacks of one original *)

\* Where a rollback is before it has marked its original.
Undecided == {"readItem", "reverse", "mark"}

\* What a rollback knows of those that were over when it began: they reversed
\* something else, and they do nothing any more.
Retries ==
    /\ RetriedRollbackRefused
    /\ \A t \in Reversals :
          t.rollbackOf \in rolledBack /\ t.id[1] \in Requests /\ pc[t.id[1]] # "idle"
    /\ \A r \in Requests : \A q \in earlier[r] : pc[q] \in Finished
    /\ \A r \in Requests : pc[r] \in Undecided =>
          \A t \in Reversals : t.rollbackOf = req[r].target => t.id[1] \notin earlier[r]

\* A row that reverses something is due from the mark on.
LEMMA ReversalsChange ==
    ASSUME Local, NEW r \in Requests, Step(r), NEW t \in Reversals'
    PROVE  \/ t \in Reversals
           \/ /\ pc[r] = "mark" /\ pc'[r] = "insert"
              /\ t.id = <<r, "main">> /\ t.rollbackOf = req[r].target
              /\ t.rollbackOf \in rolledBack'
<1>1. t.rollbackOf # NoTxn
  BY DEF Reversals
<1>2. CASE t \in ledger'
  <2>1. CASE pc[r] = "insert" /\ t = MainRow(r)
    BY <1>1, <2>1 DEF Reversals, PendingRows
  <2>2. CASE pc[r] = "insertInbound" /\ t = InboundRow(r)
    BY <1>1, <2>2 DEF InboundRow
  <2>3. QED
    BY <1>1, <1>2, <2>1, <2>2, TableChanges DEF Reversals
<1>3. CASE t \in PendingRows'
  <2>1. PICK s \in Requests : pc'[s] = "insert" /\ t = MainRow(s)'
    BY <1>3 DEF PendingRows
  <2>2. CASE s = r
    <3>1. t = MainRow(r) /\ t.id = <<r, "main">> /\ t.rollbackOf = req[r].target
      BY <2>1, <2>2, ArriveAtInsert DEF MainRow
    <3>2. ~(pc[r] \in {"cas", "write", "credit"})
      BY <1>1, <3>1 DEF Local, HandlerOK, Serves, WellFormed, Running
    <3>3. RollbackMark(r)
      BY <2>1, <2>2, <3>2, ArriveAtInsert
    <3>4. QED
      BY <2>1, <2>2, <3>1, <3>3 DEF RollbackMark
  <2>3. CASE s # r
    <3>1. pc[s] = "insert" /\ t = MainRow(s)
      BY <2>1, <2>3, StepAlone DEF Alone, MainRow, NewQty, AddsStock, Delta
    <3>2. QED
      BY <1>1, <3>1 DEF Reversals, PendingRows
  <2>4. QED
    BY <2>2, <2>3
<1>4. CASE t \in unrecorded'
  BY <1>1, <1>4, UnrecordedChanges DEF Reversals, Due, PendingRows
<1>5. QED
  BY <1>2, <1>3, <1>4 DEF Reversals

\* A request steps until it is over; only a rollback's first step notes who was over
\* before, and it goes on only with an original that is not marked.
LEMMA Progress ==
    ASSUME Local, NEW r \in Requests, Step(r)
    PROVE  /\ pc[r] \notin Finished /\ pc'[r] # "idle"
           /\ \/ earlier'[r] = earlier[r]
              \/ /\ pc[r] = "idle"
                 /\ earlier'[r] \subseteq {q \in Requests : pc[q] \in Finished}
           /\ pc'[r] \in Undecided =>
                \/ pc[r] \in {"readItem", "reverse"} /\ req'[r] = req[r] /\ earlier'[r] = earlier[r]
                \/ pc[r] = "idle" /\ req'[r].target \notin rolledBack
<1> USE DEF Local, TypeOK, Begin, Goto, Finish, Reject, Write, Finished, Undecided
<1>1. CASE Issue(r) \/ Restock(r)
  BY <1>1 DEF Issue, IssueRead, IssueUpdate, Restock, RestockRead, RestockUpdate
<1>2. CASE Transfer(r) \/ InsertTransaction(r)
  <2>1. CASE InsertInbound(r) \/ InsertTransaction(r)
    <3>1. /\ pc[r] \in {"insert", "insertInbound"}
          /\ pc'[r] \in {"insertInbound", "audit", "failed"} /\ earlier' = earlier
      BY <2>1 DEF InsertInbound, InsertTransaction, Insert
    <3>2. QED
      BY <3>1
  <2>2. CASE TransferReadSource(r)
    BY <2>2 DEF TransferReadSource
  <2>3. CASE TransferReadDest(r) \/ TransferDebit(r) \/ TransferCredit(r)
    BY <2>3 DEF TransferReadDest, TransferDebit, TransferCredit
  <2>4. QED
    BY <1>2, <2>1, <2>2, <2>3 DEF Transfer
<1>3. CASE RollbackReadTxn(r)
  <2>1. CASE Reject(r)
    BY <1>3, <2>1 DEF RollbackReadTxn
  <2>2. ASSUME NEW t \in ledger, Reversible(t),
               Begin(r, [StockBody("rollback", t.item, t.delta) EXCEPT
                           !.target = t.id, !.reverses = t.type], 0, "readItem")
        PROVE  /\ pc'[r] = "readItem" /\ req'[r].target = t.id
               /\ earlier'[r] \subseteq {q \in Requests : pc[q] \in Finished}
    BY <2>2 DEF StockBody
  <2>3. QED
    BY <1>3, <2>1, <2>2 DEF RollbackReadTxn, Reversible
<1>4. CASE RollbackReadItem(r) \/ RollbackUpdate(r) \/ RollbackMark(r)
  BY <1>4 DEF RollbackReadItem, RollbackUpdate, RollbackMark
<1>5. CASE CreateItem(r) \/ Delete(r)
  BY <1>5 DEF CreateItem, Delete, DeleteCheck, DeleteRow
<1>6. CASE WriteAudit(r) \/ Fail(r)
  BY <1>6 DEF WriteAudit, Fail, Running
<1>7. QED
  BY <1>1, <1>2, <1>3, <1>4, <1>5, <1>6 DEF Step, Rollback

\* Retries is inductive on top of Local.
LEMMA RetriesStep == Local /\ Retries /\ [Next]_vars => Retries'
<1>1. CASE UNCHANGED vars
  <2>1. Reversals' = Reversals
    BY <1>1 DEF vars, Reversals, PendingRows, MainRow, NewQty, AddsStock, Delta
  <2>2. QED
    BY <1>1, <2>1 DEF vars, Retries, RetriedRollbackRefused
<1>2. ASSUME Local, Retries, NEW r \in Requests, Step(r) PROVE Retries'
  <2>1. /\ pc[r] \notin Finished /\ pc'[r] # "idle" /\ pc' \in [Requests -> Labels]
        /\ \A s \in Requests : s # r => pc'[s] = pc[s] /\ req'[s] = req[s] /\ earlier'[s] = earlier[s]
        /\ \A s \in Requests : pc[s] # "idle" => earlier'[s] = earlier[s]
    BY <1>2, Progress, StepAlone, LocalStep DEF Alone, Next, Local, TypeOK
  <2>2. rolledBack \subseteq rolledBack'
    BY <1>2, StepGrows DEF Grows
  <2>3. ASSUME NEW s \in Requests PROVE r \notin earlier[s]
    BY <1>2, <2>1 DEF Retries
  <2>4. ASSUME NEW t \in Reversals'
        PROVE  t.rollbackOf \in rolledBack' /\ t.id[1] \in Requests /\ pc'[t.id[1]] # "idle"
    <3>1. CASE t \in Reversals
      BY <1>2, <2>1, <2>2, <3>1 DEF Retries
    <3>2. CASE t.id = <<r, "main">> /\ t.rollbackOf \in rolledBack'
      BY <2>1, <3>2
    <3>3. QED
      BY <1>2, <3>1, <3>2, ReversalsChange
  <2>5. ASSUME NEW s \in Requests, NEW q \in earlier'[s] PROVE pc'[q] \in Finished
    <3>1. q \in Requests /\ pc[q] \in Finished
      BY <1>2, <2>1, <2>5, Progress DEF Retries, Local, TypeOK
    <3>2. QED
      BY <2>1, <3>1
  <2>6. ASSUME NEW s \in Requests, pc'[s] \in Undecided, NEW t \in Reversals',
               t.rollbackOf = req'[s].target
        PROVE  t.id[1] \notin earlier'[s]
    <3>1. CASE s # r
      <4>1. pc[s] \in Undecided /\ req'[s] = req[s] /\ earlier'[s] = earlier[s]
        BY <2>1, <2>6, <3>1
      <4>2. CASE t \in Reversals
        BY <1>2, <2>6, <4>1, <4>2 DEF Retries
      <4>3. CASE t.id = <<r, "main">>
        BY <2>3, <4>1, <4>3
      <4>4. QED
        BY <1>2, <4>2, <4>3, ReversalsChange
    <3>2. CASE s = r /\ t \in Reversals
      <4>1. CASE pc[r] \in {"readItem", "reverse"} /\ req'[r] = req[r] /\ earlier'[r] = earlier[r]
        BY <1>2, <2>6, <3>2, <4>1 DEF Retries, Undecided
      <4>2. CASE req'[r].target \notin rolledBack
        BY <1>2, <2>6, <3>2, <4>2 DEF Retries
      <4>3. QED
        BY <1>2, <2>6, <3>2, <4>1, <4>2, Progress
    <3>3. CASE s = r /\ t \notin Reversals
      BY <1>2, <2>6, <3>3, ReversalsChange DEF Undecided
    <3>4. QED
      BY <3>1, <3>2, <3>3
  <2>7. ASSUME NEW t \in Reversals', NEW u \in Reversals', t.rollbackOf = u.rollbackOf
        PROVE  t.id[1] \notin earlier'[u.id[1]]
    <3>1. /\ u \in Reversals \/ (pc[r] = "mark" /\ u.id = <<r, "main">> /\ u.rollbackOf = req[r].target)
          /\ t \in Reversals \/ (pc[r] = "mark" /\ t.id = <<r, "main">>)
      BY <1>2, ReversalsChange
    <3>2. u.id[1] \in Requests /\ earlier'[u.id[1]] = earlier[u.id[1]]
      BY <1>2, <2>1, <3>1 DEF Retries
    <3>3. CASE t \in Reversals /\ u \in Reversals
      BY <1>2, <2>7, <3>2, <3>3 DEF Retries, RetriedRollbackRefused
    <3>4. CASE t.id = <<r, "main">>
      BY <2>3, <3>2, <3>4
    <3>5. CASE t \in Reversals /\ pc[r] = "mark" /\ u.id = <<r, "main">> /\ u.rollbackOf = req[r].target
      BY <1>2, <2>7, <3>2, <3>5 DEF Retries, Undecided
    <3>6. QED
      BY <3>1, <3>3, <3>4, <3>5
  <2>8. QED
    BY <2>4, <2>5, <2>6, <2>7 DEF Retries, RetriedRollbackRefused
<1>3. QED
  BY <1>1, <1>2 DEF Next

\* A rollback that begins when another of the same original is over is refused, unless
\* that one failed before it marked the original: only overlapping rollbacks reverse
\* one movement twice.
THEOREM RetriesAreRefused == Spec => []RetriedRollbackRefused
<1>1. Init => Retries
  <2>1. SUFFICES ASSUME Init PROVE Retries
    OBVIOUS
  <2>2. \A r \in Requests : pc[r] = "idle" /\ earlier[r] = {}
    BY <2>1 DEF Init
  <2>3. Reversals = {}
    BY <2>1, <2>2 DEF Init, Reversals, PendingRows
  <2>4. QED
    BY <2>2, <2>3 DEF Retries, RetriedRollbackRefused, Undecided
<1>2. Local /\ Retries /\ [Next]_vars => Retries'
  BY RetriesStep
<1>3. Retries => RetriedRollbackRefused
  BY DEF Retries
<1>4. QED
  BY <1>1, <1>2, <1>3, LocalAlways, PTL DEF Spec

\* An issue that passes its conditional UPDATE takes its amount from the stock
\* of that moment, and never from what is reserved.
THEOREM IssueIsExact == Spec => IssueTakesExactly
<1> DEFINE Exact(r) == pc[r] = "cas" /\ pc'[r] = "insert" =>
                          LET i == req[r].item IN
                             /\ qty'[i] = qty[i] - req[r].amount
                             /\ qty'[i] >= Reserved[i]
<1>1. Local /\ [Next]_vars => \A r \in Requests : Exact(r)
  <2>1. SUFFICES ASSUME Local, [Next]_vars, NEW r \in Requests, pc[r] = "cas", pc'[r] = "insert"
                 PROVE  Exact(r)
    OBVIOUS
  <2>2. PICK s \in Requests : Step(s)
    BY <2>1 DEF Next, vars
  <2>3. s = r
    BY <2>1, <2>2, StepAlone DEF Alone
  <2>4. CompareMatches(r) /\ qty' = [qty EXCEPT ![req[r].item] = NewQty(r)]
    <3>1. IssueUpdate(r)
      BY <2>1, <2>2, <2>3, ArriveByUpdate DEF Fail, Finish, Goto, Local, TypeOK
    <3>2. QED
      BY <2>1, <3>1 DEF IssueUpdate, Write, SetQuantity, CompareMatches, Reject, Finish, Goto,
         Local, TypeOK
  <2>5. /\ req[r].kind = "issue" /\ req[r].item \in Items
        /\ seen[r].item - req[r].amount >= Reserved[req[r].item]
    BY <2>1 DEF Local, TypeOK, HandlerOK, Serves, Enough, Running, Body
  <2>6. NewQty(r) = qty[req[r].item] - req[r].amount /\ NewQty(r) >= Reserved[req[r].item]
    BY <2>4, <2>5 DEF CompareMatches, NewQty, AddsStock
  <2>7. qty'[req[r].item] = NewQty(r)
    BY <2>1, <2>4, <2>5 DEF Local, TypeOK
  <2>8. QED
    BY <2>6, <2>7
<1>2. QED
  BY <1>1, LocalAlways, PTL DEF Spec, IssueTakesExactly
=============================================================================
