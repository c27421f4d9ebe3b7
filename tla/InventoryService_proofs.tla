----------------------- MODULE InventoryService_proofs -----------------------
(***************************************************************************)
(* What the transaction service guarantees for every number of sessions,   *)
(* items and quantities.  Own is the inductive invariant: what a session   *)
(* holds locked, it knows, and no other session can change.  The account,  *)
(* the events and the refinement of both ledgers rest on it.               *)
(***************************************************************************)
EXTENDS InventoryService, TLAPS

WellFormed(b) ==
    /\ b.kind \in Kinds
    /\ b.kind # "transfer" => b.dest = b.item
    /\ b.kind = "rollback" => b.target \in TxnIds /\ b.reverses \in {"ISSUE", "RESTOCK"}
    /\ b.kind # "rollback" => b.target = NoTxn /\ b.amount \in Amounts

\* The operation that a session at each step serves.
Serves(s) ==
    /\ pc[s] = "second" => req[s].kind = "transfer"
    /\ pc[s] \in {"load", "relock"} => req[s].kind = "rollback"
    /\ pc[s] = "publish" => req[s].kind \in {"issue", "restock"}
    /\ pc[s] = "commit" => req[s].kind \in {"issue", "restock", "transfer", "rollback"}

\* The session has item i locked.
Has(s, i) == i \in rows /\ lockedBy[i] = s

Fresh(s, i) ==
    /\ i = req[s].item => seen[s].item = qty[i]
    /\ i = req[s].dest => seen[s].dest = qty[i]

Holds(s) ==
    /\ pc[s] = "second" => Has(s, FirstLock(req[s])) /\ Fresh(s, FirstLock(req[s]))
    /\ pc[s] \in {"publish", "commit"} =>
          /\ Has(s, req[s].item) /\ Has(s, req[s].dest)
          /\ req[s].kind # "rollback" => Fresh(s, req[s].item) /\ Fresh(s, req[s].dest)
          /\ AddsStock(req[s]) \/ Sufficient(req[s].item, seen[s].item, req[s].amount)

SessionOK(s) == pc[s] \in Running => WellFormed(req[s]) /\ Serves(s) /\ Holds(s)

Own == TypeOK /\ \A s \in Sessions : SessionOK(s)

\* A step of one session leaves the others' variables alone, and the rows they
\* have locked.
Apart(s) ==
    /\ \A t \in Sessions : t # s => pc'[t] = pc[t] /\ req'[t] = req[t] /\ seen'[t] = seen[t]
                                /\ asOf'[t] = asOf[t]
    /\ \A t \in Sessions, i \in Items : t # s /\ Has(t, i) =>
          i \in rows' /\ lockedBy'[i] = t /\ qty'[i] = qty[i]

-----------------------------------------------------------------------------

\* At the start no session owns anything.
LEMMA InitOwn ==
    ASSUME Init
    PROVE  Own
<1>1. qty \in [Items -> Nat] /\ rows \subseteq Items
  <2>1. InitialStocks \cup {0} \subseteq Nat /\ InitialRows \subseteq Items
    BY ServiceAssumption
  <2>2. rows = InitialRows /\ qty \in [Items -> InitialStocks \cup {0}]
    BY DEF Init
  <2>3. QED
    BY <2>1, <2>2
<1>2. /\ history \in [Items -> Seq(Txn)] /\ lockedBy \in [Items -> Sessions \cup {Nobody}]
      /\ rolledBack \subseteq TxnIds /\ audit \subseteq AuditEntry /\ events \subseteq Event
  BY DEF Init
<1>3. /\ pc \in [Sessions -> {"idle"} \cup Running \cup Finished]
      /\ \A s \in Sessions : pc[s] \notin Running
  BY DEF Init, Running
<1>4. /\ req \in [Sessions -> Dto \cup {NoRequest}] /\ seen \in [Sessions -> Loaded]
      /\ asOf \in [Sessions -> Nat]
  BY DEF Init, Loaded, NotLoaded
<1>5. QED
  BY <1>1, <1>2, <1>3, <1>4 DEF Own, TypeOK, SessionOK

\* What one session owns the steps of the others do not touch.
LEMMA OthersStayOK ==
    ASSUME Own, NEW s \in Sessions, TypeOK', Apart(s), SessionOK(s)'
    PROVE  Own'
<1>1. ASSUME NEW t \in Sessions, t # s PROVE SessionOK(t)'
  <2>1. pc'[t] = pc[t] /\ req'[t] = req[t] /\ seen'[t] = seen[t] /\ SessionOK(t)
    BY <1>1 DEF Apart, Own
  <2>2. CASE pc[t] \in Running
    <3>1. req[t] \in Dto
      BY <2>2 DEF Own, TypeOK
    <3>2. /\ req[t].item \in Items /\ req[t].dest \in Items /\ FirstLock(req[t]) \in Items
      BY <3>1 DEF Dto, FirstLock
    <3>3. Serves(t)' /\ WellFormed(req[t])'
      BY <2>1, <2>2 DEF SessionOK, Serves, WellFormed
    <3>4. Holds(t)'
      BY <1>1, <2>1, <2>2, <3>2
      DEF SessionOK, Holds, Has, Fresh, Apart, AddsStock, Sufficient, FirstLock
    <3>5. QED
      BY <2>1, <3>3, <3>4 DEF SessionOK, WellFormed
  <2>3. QED
    BY <2>1, <2>2 DEF SessionOK
<1>2. QED
  BY <1>1 DEF Own

\* A transaction that ends gives its locks back and those of no other.
LEMMA CloseOwn ==
    ASSUME Own, NEW s \in Sessions, NEW label \in Finished, Close(s, label),
           rows' \subseteq Items, qty' \in [Items -> Nat], history' \in [Items -> Seq(Txn)],
           rolledBack' \subseteq TxnIds, audit' \subseteq AuditEntry, events' \subseteq Event,
           \A t \in Sessions, i \in Items : t # s /\ Has(t, i) => i \in rows' /\ qty'[i] = qty[i]
    PROVE  Own' /\ Apart(s) /\ pc'[s] = label
<1>1. /\ pc' \in [Sessions -> {"idle"} \cup Running \cup Finished]
      /\ req' \in [Sessions -> Dto \cup {NoRequest}] /\ seen' \in [Sessions -> Loaded]
      /\ asOf' \in [Sessions -> Nat] /\ lockedBy' \in [Items -> Sessions \cup {Nobody}]
      /\ pc'[s] = label /\ label \notin Running
  BY DEF Close, Goto, Released, Own, TypeOK, Loaded, NotLoaded, Finished, Running
<1>2. \A t \in Sessions : t # s => pc'[t] = pc[t] /\ req'[t] = req[t] /\ seen'[t] = seen[t]
                               /\ asOf'[t] = asOf[t]
  BY DEF Close, Goto, Own, TypeOK
<1>3. \A t \in Sessions : pc'[t] \in Running => req'[t] \in Dto
  BY <1>1, <1>2 DEF Own, TypeOK
<1>4. Apart(s)
  BY <1>2 DEF Apart, Close, Released, Has
<1>5. TypeOK'
  BY <1>1, <1>3 DEF TypeOK
<1>6. SessionOK(s)'
  BY <1>1 DEF SessionOK
<1>7. QED
  BY <1>1, <1>4, <1>5, <1>6, OthersStayOK

\* What loading a row does to the identity maps.
LEMMA LoadEffect ==
    ASSUME Own, NEW s \in Sessions, NEW i \in Items, NEW b, Load(s, b, i)
    PROVE  /\ seen' \in [Sessions -> Loaded]
           /\ \A t \in Sessions : t # s => seen'[t] = seen[t]
           /\ seen'[s].item = IF i = b.item THEN qty[i] ELSE seen[s].item
           /\ seen'[s].dest = IF i = b.dest THEN qty[i] ELSE seen[s].dest
<1> DEFINE v == [item |-> IF i = b.item THEN qty[i] ELSE seen[s].item,
                 dest |-> IF i = b.dest THEN qty[i] ELSE seen[s].dest]
<1>1. seen \in [Sessions -> Loaded] /\ qty[i] \in Nat
  BY DEF Own, TypeOK
<1>2. seen[s].item \in Nat /\ seen[s].dest \in Nat
  <2>1. seen[s] \in Loaded
    BY <1>1
  <2>2. QED
    BY <2>1 DEF Loaded
<1>3. v \in Loaded /\ v.item = (IF i = b.item THEN qty[i] ELSE seen[s].item)
      /\ v.dest = (IF i = b.dest THEN qty[i] ELSE seen[s].dest)
  BY <1>1, <1>2 DEF Loaded
<1>4. seen' = [seen EXCEPT ![s] = v]
  BY <1>1 DEF Load
<1> HIDE DEF v
<1>5. QED
  BY <1>1, <1>3, <1>4

\* A session that takes a lock it may take, and loads the row.
Takes(s, i, b, label) ==
    /\ Lockable(s, i) /\ Lock(s, i)
    /\ Load(s, b, i) \/ UNCHANGED seen
    /\ req' = [req EXCEPT ![s] = b] /\ Goto(s, label)
    /\ UNCHANGED <<rows, qty, history, rolledBack, audit, events, asOf>>

\* A session that goes on without taking a lock.
Turns(s, b, label) ==
    /\ UNCHANGED seen \/ \E i \in Items : Load(s, b, i)
    /\ UNCHANGED asOf \/ \E n \in Nat : asOf' = [asOf EXCEPT ![s] = n]
    /\ req' = [req EXCEPT ![s] = b] /\ Goto(s, label)
    /\ UNCHANGED <<rows, qty, history, rolledBack, audit, lockedBy>> /\ events' \subseteq Event

\* A lock that is taken disturbs no other session.
LEMMA LockApart ==
    ASSUME Own, NEW s \in Sessions, NEW i \in Items, NEW b \in Dto, NEW label \in Running,
           Takes(s, i, b, label)
    PROVE  /\ TypeOK' /\ Apart(s)
           /\ pc'[s] = label /\ req'[s] = b /\ i \in rows' /\ lockedBy'[i] = s
           /\ \A j \in Items : lockedBy[j] = s => lockedBy'[j] = s
           /\ Load(s, b, i) =>
                 /\ seen'[s].item = IF i = b.item THEN qty[i] ELSE seen[s].item
                 /\ seen'[s].dest = IF i = b.dest THEN qty[i] ELSE seen[s].dest
<1>1. Nobody \notin Sessions
  BY ServiceAssumption
<1>2. /\ seen' \in [Sessions -> Loaded]
      /\ \A t \in Sessions : t # s => seen'[t] = seen[t]
  BY LoadEffect DEF Takes, Own, TypeOK
<1>3. /\ lockedBy' \in [Items -> Sessions \cup {Nobody}] /\ lockedBy'[i] = s /\ i \in rows
      /\ \A j \in Items : j # i => lockedBy'[j] = lockedBy[j]
      /\ lockedBy[i] \in {Nobody, s}
  BY DEF Takes, Lock, Lockable, Own, TypeOK
<1>4. /\ pc' \in [Sessions -> {"idle"} \cup Running \cup Finished]
      /\ req' \in [Sessions -> Dto \cup {NoRequest}]
      /\ pc'[s] = label /\ req'[s] = b
      /\ \A t \in Sessions : t # s => pc'[t] = pc[t] /\ req'[t] = req[t]
      /\ \A t \in Sessions : pc'[t] \in Running => req'[t] \in Dto
  BY DEF Takes, Goto, Own, TypeOK
<1>5. TypeOK'
  BY <1>2, <1>3, <1>4 DEF Takes, Own, TypeOK
<1>6. Apart(s)
  BY <1>1, <1>2, <1>3, <1>4 DEF Takes, Apart, Has
<1>7. Load(s, b, i) =>
         /\ seen'[s].item = IF i = b.item THEN qty[i] ELSE seen[s].item
         /\ seen'[s].dest = IF i = b.dest THEN qty[i] ELSE seen[s].dest
  BY LoadEffect
<1>8. QED
  BY <1>3, <1>4, <1>5, <1>6, <1>7 DEF Takes

\* A session that raises, or reads without a lock, disturbs nobody.
LEMMA NoLockApart ==
    ASSUME Own, NEW s \in Sessions, NEW b \in Dto, NEW label \in Running, Turns(s, b, label)
    PROVE  /\ TypeOK' /\ Apart(s)
           /\ pc'[s] = label /\ req'[s] = b
<1>1. /\ seen' \in [Sessions -> Loaded]
      /\ \A t \in Sessions : t # s => seen'[t] = seen[t]
  <2>1. CASE UNCHANGED seen
    BY <2>1 DEF Own, TypeOK
  <2>2. CASE \E i \in Items : Load(s, b, i)
    BY <2>2, LoadEffect
  <2>3. QED
    BY <2>1, <2>2 DEF Turns
<1>2. /\ pc' \in [Sessions -> {"idle"} \cup Running \cup Finished]
      /\ req' \in [Sessions -> Dto \cup {NoRequest}] /\ asOf' \in [Sessions -> Nat]
      /\ pc'[s] = label /\ req'[s] = b
      /\ \A t \in Sessions : t # s => pc'[t] = pc[t] /\ req'[t] = req[t] /\ asOf'[t] = asOf[t]
      /\ \A t \in Sessions : pc'[t] \in Running => req'[t] \in Dto
  BY DEF Turns, Goto, Own, TypeOK
<1>3. TypeOK'
  BY <1>1, <1>2 DEF Turns, Own, TypeOK
<1>4. QED
  BY <1>1, <1>2, <1>3 DEF Turns, Apart, Has

\* What a DTO gives the service.
LEMMA StockDtoTyped ==
    ASSUME NEW kind \in AllKinds, NEW i \in Items, NEW a \in Nat \ {0}
    PROVE  /\ StockDto(kind, i, a) \in Dto
           /\ StockDto(kind, i, a).kind = kind /\ StockDto(kind, i, a).item = i
           /\ StockDto(kind, i, a).dest = i /\ StockDto(kind, i, a).target = NoTxn
           /\ StockDto(kind, i, a).amount = a
  BY DEF StockDto, Dto

\* issue_item and restock_item up to the lock.
LEMMA MovementOwn ==
    ASSUME Own, NEW s \in Sessions, NEW kind \in {"issue", "restock"}, LockForMovement(s, kind)
    PROVE  Own' /\ Apart(s)
<1>1. PICK i \in Items, a \in Amounts : LET b == StockDto(kind, i, a) IN
         \/ /\ Lockable(s, i)
            /\ kind = "issue" => Sufficient(i, qty[i], a)
            /\ Lock(s, i) /\ Load(s, b, i)
            /\ req' = [req EXCEPT ![s] = b]
            /\ Goto(s, "publish")
         \/ Lockable(s, i) /\ Lock(s, i) /\ Load(s, b, i) /\ Raise(s, b)
         \/ Raise(s, b) /\ UNCHANGED <<lockedBy, seen>>
  BY DEF LockForMovement
<1> DEFINE b == StockDto(kind, i, a)
<1>2. /\ a \in Nat \ {0} /\ kind \in Kinds /\ kind \in AllKinds
      /\ UNCHANGED <<rows, qty, history, rolledBack, audit, events, asOf>> /\ events' \subseteq Event
  BY ServiceAssumption DEF LockForMovement, AllKinds, Own, TypeOK
<1>3. /\ b \in Dto /\ WellFormed(b)
      /\ b.kind = kind /\ b.item = i /\ b.dest = i /\ b.amount = a
  BY <1>2, StockDtoTyped DEF WellFormed
<1>4. CASE /\ Lockable(s, i)
           /\ kind = "issue" => Sufficient(i, qty[i], a)
           /\ Lock(s, i) /\ Load(s, b, i)
           /\ req' = [req EXCEPT ![s] = b]
           /\ Goto(s, "publish")
  <2> HIDE DEF b
  <2>1. /\ TypeOK' /\ Apart(s) /\ pc'[s] = "publish" /\ req'[s] = b
        /\ i \in rows' /\ lockedBy'[i] = s
        /\ seen'[s].item = qty[i] /\ seen'[s].dest = qty[i]
    <3>1. Takes(s, i, b, "publish") /\ Load(s, b, i) /\ "publish" \in Running
      BY <1>2, <1>4 DEF Takes, Running
    <3>2. QED
      BY <1>3, <3>1, LockApart
  <2>2. SessionOK(s)'
    BY <1>2, <1>3, <1>4, <2>1
    DEF SessionOK, WellFormed, Serves, Holds, Has, Fresh, AddsStock, Sufficient
  <2>3. QED
    BY <2>1, <2>2, OthersStayOK
<1>5. CASE Lockable(s, i) /\ Lock(s, i) /\ Load(s, b, i) /\ Raise(s, b)
  <2> HIDE DEF b
  <2>1. TypeOK' /\ Apart(s) /\ pc'[s] = "aborting" /\ req'[s] = b
    <3>1. Takes(s, i, b, "aborting") /\ "aborting" \in Running
      BY <1>2, <1>5 DEF Takes, Running, Raise
    <3>2. QED
      BY <1>3, <3>1, LockApart
  <2>2. SessionOK(s)'
    BY <1>3, <2>1 DEF SessionOK, WellFormed, Serves, Holds
  <2>3. QED
    BY <2>1, <2>2, OthersStayOK
<1>6. CASE Raise(s, b) /\ UNCHANGED <<lockedBy, seen>>
  <2> HIDE DEF b
  <2>1. TypeOK' /\ Apart(s) /\ pc'[s] = "aborting" /\ req'[s] = b
    <3>1. Turns(s, b, "aborting") /\ "aborting" \in Running
      BY <1>2, <1>6 DEF Turns, Running, Raise
    <3>2. QED
      BY <1>3, <3>1, NoLockApart
  <2>2. SessionOK(s)'
    BY <1>3, <2>1 DEF SessionOK, WellFormed, Serves, Holds
  <2>3. QED
    BY <2>1, <2>2, OthersStayOK
<1>7. QED
  BY <1>1, <1>4, <1>5, <1>6

\* transfer_item takes its first lock.
LEMMA TransferFirstOwn ==
    ASSUME Own, NEW s \in Sessions, TransferLockFirst(s)
    PROVE  Own' /\ Apart(s)
<1>1. PICK i \in Items, j \in Items, a \in Amounts :
         LET b == [StockDto("transfer", i, a) EXCEPT !.dest = j]
             x == FirstLock(b)
         IN \/ /\ Lockable(s, x)
               /\ Lock(s, x) /\ Load(s, b, x)
               /\ req' = [req EXCEPT ![s] = b]
               /\ Goto(s, "second")
            \/ Raise(s, b) /\ UNCHANGED <<lockedBy, seen>>
  BY DEF TransferLockFirst
<1> DEFINE b == [StockDto("transfer", i, a) EXCEPT !.dest = j]
<1>2. /\ a \in Nat \ {0} /\ "transfer" \in Kinds
      /\ UNCHANGED <<rows, qty, history, rolledBack, audit, events, asOf>> /\ events' \subseteq Event
  BY ServiceAssumption DEF TransferLockFirst, Own, TypeOK
<1>3. /\ b \in Dto /\ WellFormed(b)
      /\ b.kind = "transfer" /\ b.item = i /\ b.dest = j /\ b.amount = a
      /\ FirstLock(b) \in {i, j}
  BY <1>2 DEF WellFormed, StockDto, Dto, AllKinds, FirstLock
<1>4. CASE /\ Lockable(s, FirstLock(b))
           /\ Lock(s, FirstLock(b)) /\ Load(s, b, FirstLock(b))
           /\ req' = [req EXCEPT ![s] = b]
           /\ Goto(s, "second")
  <2> HIDE DEF b
  <2> DEFINE x == FirstLock(b)
  <2>1. /\ TypeOK' /\ Apart(s) /\ pc'[s] = "second" /\ req'[s] = b
        /\ x \in rows' /\ lockedBy'[x] = s
        /\ seen'[s].item = IF x = b.item THEN qty[x] ELSE seen[s].item
        /\ seen'[s].dest = IF x = b.dest THEN qty[x] ELSE seen[s].dest
    <3>1. x \in Items
      BY <1>3
    <3> HIDE DEF x
    <3>2. Takes(s, x, b, "second") /\ Load(s, b, x) /\ "second" \in Running
      BY <1>2, <1>4 DEF x, Takes, Running
    <3>3. QED
      BY <1>3, <3>1, <3>2, LockApart
  <2>2. SessionOK(s)'
    BY <1>2, <1>3, <2>1 DEF SessionOK, WellFormed, Serves, Holds, Has, Fresh, FirstLock
  <2>3. QED
    BY <2>1, <2>2, OthersStayOK
<1>5. CASE Raise(s, b) /\ UNCHANGED <<lockedBy, seen>>
  <2> HIDE DEF b
  <2>1. TypeOK' /\ Apart(s) /\ pc'[s] = "aborting" /\ req'[s] = b
    <3>1. Turns(s, b, "aborting") /\ "aborting" \in Running
      BY <1>2, <1>5 DEF Turns, Running, Raise
    <3>2. QED
      BY <1>3, <3>1, NoLockApart
  <2>2. SessionOK(s)'
    BY <1>3, <2>1 DEF SessionOK, WellFormed, Serves, Holds
  <2>3. QED
    BY <2>1, <2>2, OthersStayOK
<1>6. QED
  BY <1>1, <1>4, <1>5

\* transfer_item takes its second lock: what it read under the first is still so.
LEMMA TransferSecondOwn ==
    ASSUME Own, NEW s \in Sessions, TransferLockSecond(s)
    PROVE  Own' /\ Apart(s)
<1> DEFINE b == req[s]
           x == SecondLock(b)
<1>1. /\ pc[s] = "second" /\ b \in Dto /\ WellFormed(b) /\ b.kind = "transfer"
      /\ Has(s, FirstLock(b)) /\ Fresh(s, FirstLock(b))
      /\ req' = [req EXCEPT ![s] = b]
      /\ UNCHANGED <<rows, qty, history, rolledBack, audit, events, asOf>> /\ events' \subseteq Event
  BY DEF TransferLockSecond, Own, TypeOK, SessionOK, Serves, Holds, Running
<1>2. b.item \in Items /\ b.dest \in Items /\ {FirstLock(b), x} = {b.item, b.dest} /\ x \in Items
  BY <1>1 DEF Dto, FirstLock, SecondLock
<1>3. ASSUME Lockable(s, x), Lock(s, x), Load(s, b, x), NEW label \in {"commit", "aborting"},
             Goto(s, label), label = "commit" => Sufficient(b.item, seen'[s].item, b.amount)
      PROVE  Own' /\ Apart(s)
  <2> HIDE DEF x, b
  <2>1. /\ TypeOK' /\ Apart(s) /\ pc'[s] = label /\ req'[s] = b
        /\ x \in rows' /\ lockedBy'[x] = s
        /\ \A j \in Items : lockedBy[j] = s => lockedBy'[j] = s
        /\ seen'[s].item = IF x = b.item THEN qty[x] ELSE seen[s].item
        /\ seen'[s].dest = IF x = b.dest THEN qty[x] ELSE seen[s].dest
    <3>1. Takes(s, x, b, label) /\ label \in Running
      BY <1>1, <1>3 DEF Takes, Running
    <3>2. QED
      BY <1>1, <1>2, <1>3, <3>1, LockApart
  <2>2. /\ b.item \in rows' /\ b.dest \in rows'
        /\ lockedBy'[b.item] = s /\ lockedBy'[b.dest] = s
    BY <1>1, <1>2, <2>1 DEF Has
  <2>3. seen'[s].item = qty'[b.item] /\ seen'[s].dest = qty'[b.dest]
    BY <1>1, <1>2, <2>1 DEF Fresh, b
  <2>4. SessionOK(s)'
    BY <1>1, <1>3, <2>1, <2>2, <2>3
    DEF SessionOK, WellFormed, Serves, Holds, Has, Fresh, Sufficient
  <2>5. QED
    BY <2>1, <2>4, OthersStayOK
<1>4. CASE Goto(s, "aborting") /\ UNCHANGED <<lockedBy, seen>>
  <2> HIDE DEF x, b
  <2>1. TypeOK' /\ Apart(s) /\ pc'[s] = "aborting" /\ req'[s] = b
    <3>1. Turns(s, b, "aborting") /\ "aborting" \in Running
      BY <1>1, <1>4 DEF Turns, Running
    <3>2. QED
      BY <1>1, <3>1, NoLockApart
  <2>2. SessionOK(s)'
    BY <1>1, <2>1 DEF SessionOK, WellFormed, Serves, Holds
  <2>3. QED
    BY <2>1, <2>2, OthersStayOK
<1>5. QED
  BY <1>3, <1>4 DEF TransferLockSecond

\* rollback_transaction reads the original without a lock.
LEMMA ReadOriginalOwn ==
    ASSUME Own, NEW s \in Sessions, ReadOriginal(s)
    PROVE  Own' /\ Apart(s)
<1>1. /\ UNCHANGED <<rows, qty, history, rolledBack, audit, events>> /\ "rollback" \in Kinds
      /\ rows' \subseteq Items /\ qty' \in [Items -> Nat] /\ history' \in [Items -> Seq(Txn)]
      /\ rolledBack' \subseteq TxnIds /\ audit' \subseteq AuditEntry /\ events' \subseteq Event
  BY DEF ReadOriginal, Own, TypeOK
<1>2. CASE Close(s, "rejected")
  <2>1. \A t \in Sessions, i \in Items : t # s /\ Has(t, i) => i \in rows' /\ qty'[i] = qty[i]
    BY <1>1 DEF Has
  <2>2. "rejected" \in Finished
    BY DEF Finished
  <2>3. QED
    BY <1>1, <1>2, <2>1, <2>2, CloseOwn
<1>3. ASSUME NEW i \in Items, NEW k \in DOMAIN history[i], NEW b,
             b = [StockDto("rollback", i, history[i][k].delta) EXCEPT
                     !.target = history[i][k].id, !.reverses = history[i][k].type],
             Reversible(history[i][k]), req' = [req EXCEPT ![s] = b],
             asOf' = [asOf EXCEPT ![s] = Len(history[i])], Goto(s, "load"),
             UNCHANGED <<lockedBy, seen>>
      PROVE  Own' /\ Apart(s)
  <2>1. history[i][k] \in Txn /\ Len(history[i]) \in Nat
    <3>1. history[i] \in Seq(Txn)
      BY DEF Own, TypeOK
    <3>2. QED
      BY <3>1
  <2>2. /\ b \in Dto /\ WellFormed(b) /\ b.kind = "rollback"
    BY <1>1, <1>3, <2>1 DEF Txn, Reversible, StockDto, Dto, WellFormed, AllKinds, TxnTypes
  <2>3. Turns(s, b, "load") /\ "load" \in Running
    BY <1>1, <1>3, <2>1 DEF Turns, Running
  <2>4. TypeOK' /\ Apart(s) /\ pc'[s] = "load" /\ req'[s] = b
    BY <2>2, <2>3, NoLockApart
  <2>5. SessionOK(s)'
    BY <2>2, <2>4 DEF SessionOK, WellFormed, Serves, Holds
  <2>6. QED
    BY <2>4, <2>5, OthersStayOK
<1>4. QED
  BY <1>2, <1>3 DEF ReadOriginal

\* The second SELECT of get_by_id takes no lock either.
LEMMA LoadItemOwn ==
    ASSUME Own, NEW s \in Sessions, LoadItem(s)
    PROVE  Own' /\ Apart(s)
<1> DEFINE b == req[s]
<1>1. /\ pc[s] = "load" /\ b \in Dto /\ WellFormed(b) /\ b.kind = "rollback" /\ b.item \in Items
      /\ req' = [req EXCEPT ![s] = b]
      /\ UNCHANGED <<rows, qty, history, rolledBack, audit, events, asOf>> /\ events' \subseteq Event
  BY DEF LoadItem, Own, TypeOK, SessionOK, Serves, Running, Dto
<1>2. Load(s, b, b.item) /\ Goto(s, "relock") /\ UNCHANGED lockedBy
  BY DEF LoadItem
<1> HIDE DEF b
<1>3. Turns(s, b, "relock") /\ "relock" \in Running
  BY <1>1, <1>2 DEF Turns, Running
<1>4. TypeOK' /\ Apart(s) /\ pc'[s] = "relock" /\ req'[s] = b
  BY <1>1, <1>3, NoLockApart
<1>5. SessionOK(s)'
  BY <1>1, <1>4 DEF SessionOK, WellFormed, Serves, Holds
<1>6. QED
  BY <1>4, <1>5, OthersStayOK

\* rollback_transaction takes the lock and keeps the quantity it had.
LEMMA LockForRollbackOwn ==
    ASSUME Own, NEW s \in Sessions, LockForRollback(s)
    PROVE  Own' /\ Apart(s)
<1> DEFINE b == req[s]
<1>1. /\ pc[s] = "relock" /\ b \in Dto /\ WellFormed(b) /\ b.kind = "rollback"
      /\ b.item \in Items /\ b.dest = b.item
      /\ req' = [req EXCEPT ![s] = b] /\ UNCHANGED seen
      /\ UNCHANGED <<rows, qty, history, rolledBack, audit, events, asOf>> /\ events' \subseteq Event
  BY DEF LockForRollback, Own, TypeOK, SessionOK, Serves, Running, WellFormed, Dto
<1>2. ASSUME Lockable(s, b.item), Lock(s, b.item), NEW label \in {"commit", "aborting"},
             Goto(s, label),
             label = "commit" => b.reverses = "ISSUE" \/ Sufficient(b.item, seen[s].item, b.amount)
      PROVE  Own' /\ Apart(s)
  <2> HIDE DEF b
  <2>1. Takes(s, b.item, b, label) /\ label \in Running
    BY <1>1, <1>2 DEF Takes, Running
  <2>2. /\ TypeOK' /\ Apart(s) /\ pc'[s] = label /\ req'[s] = b
        /\ b.item \in rows' /\ lockedBy'[b.item] = s
    BY <1>1, <2>1, LockApart
  <2>3. SessionOK(s)'
    BY <1>1, <1>2, <2>2
    DEF SessionOK, WellFormed, Serves, Holds, Has, AddsStock, Sufficient
  <2>4. QED
    BY <2>2, <2>3, OthersStayOK
<1>3. CASE Goto(s, "aborting") /\ UNCHANGED lockedBy
  <2> HIDE DEF b
  <2>1. Turns(s, b, "aborting") /\ "aborting" \in Running
    BY <1>1, <1>3 DEF Turns, Running
  <2>2. TypeOK' /\ Apart(s) /\ pc'[s] = "aborting" /\ req'[s] = b
    BY <1>1, <2>1, NoLockApart
  <2>3. SessionOK(s)'
    BY <1>1, <2>2 DEF SessionOK, WellFormed, Serves, Holds
  <2>4. QED
    BY <2>2, <2>3, OthersStayOK
<1>4. QED
  BY <1>2, <1>3 DEF LockForRollback

\* What a session at its commit is about to write.
LEMMA CommitWrites ==
    ASSUME Own, NEW s \in Sessions, pc[s] \in {"publish", "commit"}
    PROVE  /\ req[s] \in Dto /\ req[s].item \in Items /\ req[s].dest \in Items
           /\ req[s].amount \in Nat \ {0} /\ WellFormed(req[s]) /\ Holds(s) /\ Serves(s)
           /\ seen[s].item \in Nat /\ seen[s].dest \in Nat
           /\ After(s) \in Nat /\ DestAfter(s) \in Nat
           /\ MainRow(s) \in Txn
           /\ req[s].kind = "transfer" => InboundRow(s) \in Txn
<1>1. /\ req[s] \in Dto /\ WellFormed(req[s]) /\ Holds(s) /\ Serves(s)
      /\ seen[s] \in Loaded
  BY DEF Own, TypeOK, SessionOK, Running
<1>2. /\ req[s].item \in Items /\ req[s].dest \in Items /\ req[s].amount \in Nat \ {0}
      /\ req[s].target \in TxnIds \cup {NoTxn}
      /\ seen[s].item \in Nat /\ seen[s].dest \in Nat
  BY <1>1 DEF Dto, Loaded
<1>3. Reserved[req[s].item] \in Nat
  BY <1>2, ServiceAssumption
<1>4. AddsStock(req[s]) \/ seen[s].item >= req[s].amount
  BY <1>1, <1>2, <1>3 DEF Holds, Sufficient
<1>5. After(s) \in Nat
  BY <1>2, <1>4 DEF After
<1>6. DestAfter(s) \in Nat
  BY <1>2, <1>5 DEF DestAfter
<1>7. TxnType(req[s]) \in TxnTypes
  BY <1>1 DEF TxnType, TxnTypes, Serves, WellFormed
<1>8. MainRow(s) \in Txn /\ InboundRow(s) \in Txn
  <2>1. <<s, "main">> \in TxnIds /\ <<s, "inbound">> \in TxnIds
    BY DEF TxnIds, Legs
  <2>2. QED
    BY <1>2, <1>5, <1>6, <1>7, <2>1 DEF MainRow, InboundRow, Txn, TxnTypes
<1>9. QED
  BY <1>1, <1>2, <1>5, <1>6, <1>8

\* Publishing the event changes nothing a session owns.
LEMMA PublishOwn ==
    ASSUME Own, NEW s \in Sessions, PublishEvent(s)
    PROVE  Own' /\ Apart(s)
<1>1. /\ pc[s] = "publish" /\ req[s] \in Dto /\ SessionOK(s) /\ events \subseteq Event
      /\ req[s].item \in Items /\ req[s].dest \in Items
      /\ StockEvent(s) \in Event
  BY CommitWrites DEF PublishEvent, Own, TypeOK, StockEvent, Event
<1>2. Turns(s, req[s], "commit") /\ "commit" \in Running
  BY <1>1 DEF Turns, Running, PublishEvent, Own, TypeOK
<1>3. TypeOK' /\ Apart(s) /\ pc'[s] = "commit" /\ req'[s] = req[s]
  BY <1>1, <1>2, NoLockApart
<1>4. SessionOK(s)'
  BY <1>1, <1>3
  DEF SessionOK, Running, WellFormed, Serves, Holds, Has, Fresh, AddsStock, Sufficient, PublishEvent
<1>5. QED
  BY <1>3, <1>4, OthersStayOK

\* A commit writes rows that only its session had locked.
LEMMA CommitOwn ==
    ASSUME Own, NEW s \in Sessions, Commit(s)
    PROVE  Own' /\ Apart(s)
<1> DEFINE b == req[s]
<1>1. /\ pc[s] = "commit" /\ b \in Dto /\ b.item \in Items /\ b.dest \in Items
      /\ WellFormed(b) /\ Serves(s) /\ Has(s, b.item) /\ Has(s, b.dest)
      /\ After(s) \in Nat /\ DestAfter(s) \in Nat /\ MainRow(s) \in Txn
      /\ b.kind = "transfer" => InboundRow(s) \in Txn
  BY CommitWrites DEF Commit, Holds
<1>2. /\ rows' \subseteq Items /\ events' \subseteq Event /\ rows' = rows
  BY DEF Commit, Own, TypeOK
<1>3. /\ qty' \in [Items -> Nat]
      /\ \A i \in Items : i \notin {b.item, b.dest} => qty'[i] = qty[i]
  BY <1>1 DEF Commit, Own, TypeOK
<1>4. history' \in [Items -> Seq(Txn)]
  <2>1. history \in [Items -> Seq(Txn)]
    BY DEF Own, TypeOK
  <2> DEFINE h == [history EXCEPT ![b.item] = Append(@, MainRow(s))]
  <2>2. h \in [Items -> Seq(Txn)]
    BY <1>1, <2>1
  <2>3. CASE b.kind = "transfer"
    <3>1. history' = [h EXCEPT ![b.dest] = Append(@, InboundRow(s))]
      BY <2>3 DEF Commit
    <3> HIDE DEF h
    <3>2. QED
      BY <1>1, <2>2, <2>3, <3>1
  <2>4. QED
    BY <2>2, <2>3 DEF Commit
<1>5. rolledBack' \subseteq TxnIds
  BY <1>1 DEF Commit, Own, TypeOK, Dto
<1>6. audit' \subseteq AuditEntry
  BY <1>1 DEF Commit, Own, TypeOK, Dto, AuditEntry
<1>7. \A t \in Sessions, i \in Items : t # s /\ Has(t, i) => i \in rows' /\ qty'[i] = qty[i]
  BY <1>1, <1>2, <1>3 DEF Has
<1>8. Close(s, "done") /\ "done" \in Finished
  BY DEF Commit, Finished
<1>9. QED
  BY <1>2, <1>3, <1>4, <1>5, <1>6, <1>7, <1>8, CloseOwn

\* An abort and a crash leave nothing behind.
LEMMA NoCommitOwn ==
    ASSUME Own, NEW s \in Sessions, Abort(s) \/ Crash(s)
    PROVE  Own' /\ Apart(s)
<1>1. PICK label \in Finished : Close(s, label)
  BY DEF Abort, Crash, Finished
<1>2. /\ UNCHANGED <<rows, qty, history, rolledBack, audit, events>>
      /\ rows' \subseteq Items /\ qty' \in [Items -> Nat] /\ history' \in [Items -> Seq(Txn)]
      /\ rolledBack' \subseteq TxnIds /\ audit' \subseteq AuditEntry /\ events' \subseteq Event
  BY DEF Abort, Crash, Own, TypeOK
<1>3. \A t \in Sessions, i \in Items : t # s /\ Has(t, i) => i \in rows' /\ qty'[i] = qty[i]
  BY <1>2 DEF Has
<1>4. QED
  BY <1>1, <1>2, <1>3, CloseOwn

\* A created item is one that nobody can have locked.
LEMMA CreateOwn ==
    ASSUME Own, NEW s \in Sessions, CreateItem(s)
    PROVE  Own' /\ Apart(s)
<1>1. PICK label \in Finished : Close(s, label)
  BY DEF CreateItem, Finished
<1>2. /\ history' \in [Items -> Seq(Txn)] /\ rolledBack' \subseteq TxnIds /\ events' \subseteq Event
  BY DEF CreateItem, Own, TypeOK
<1>3. /\ rows' \subseteq Items /\ qty' \in [Items -> Nat] /\ audit' \subseteq AuditEntry
      /\ rows \subseteq rows' /\ \A i \in rows : qty'[i] = qty[i]
  <2>1. rows \subseteq Items /\ qty \in [Items -> Nat] /\ audit \subseteq AuditEntry
    BY DEF Own, TypeOK
  <2>2. CASE UNCHANGED <<rows, qty, audit>>
    BY <2>1, <2>2
  <2>3. ASSUME NEW i \in Items \ rows, NEW n \in InitialStocks, rows' = rows \cup {i},
               qty' = [qty EXCEPT ![i] = n],
               audit' = audit \cup {[session |-> s, action |-> "create"]}
        PROVE  /\ rows' \subseteq Items /\ qty' \in [Items -> Nat] /\ audit' \subseteq AuditEntry
               /\ rows \subseteq rows' /\ \A j \in rows : qty'[j] = qty[j]
    <3>1. n \in Nat /\ [session |-> s, action |-> "create"] \in AuditEntry
      BY ServiceAssumption DEF AuditEntry, AllKinds
    <3>2. QED
      BY <2>1, <2>3, <3>1
  <2>4. QED
    BY <2>2, <2>3 DEF CreateItem
<1>4. \A t \in Sessions, i \in Items : t # s /\ Has(t, i) => i \in rows' /\ qty'[i] = qty[i]
  BY <1>3 DEF Has
<1>5. QED
  BY <1>1, <1>2, <1>3, <1>4, CloseOwn

-----------------------------------------------------------------------------

\* Own is inductive, and every step keeps out of what the others own.
LEMMA StepOwn ==
    ASSUME Own, NEW s \in Sessions, Step(s)
    PROVE  Own' /\ Apart(s)
<1>1. CASE IssueItem(s) \/ RestockItem(s)
  BY <1>1, MovementOwn DEF IssueItem, RestockItem
<1>2. CASE TransferLockFirst(s)
  BY <1>2, TransferFirstOwn
<1>3. CASE ReadOriginal(s)
  BY <1>3, ReadOriginalOwn
<1>4. CASE CreateItem(s)
  BY <1>4, CreateOwn
<1>5. CASE TransferLockSecond(s)
  BY <1>5, TransferSecondOwn
<1>6. CASE LockForRollback(s)
  BY <1>6, LockForRollbackOwn
<1>7. CASE PublishEvent(s) \/ LoadItem(s)
  BY <1>7, PublishOwn, LoadItemOwn
<1>8. CASE Commit(s)
  BY <1>8, CommitOwn
<1>9. CASE Abort(s) \/ Crash(s)
  BY <1>9, NoCommitOwn
<1>10. QED
  BY <1>1, <1>2, <1>3, <1>4, <1>5, <1>6, <1>7, <1>8, <1>9 DEF Step, Start, Proceed

\* A step of the environment changes nothing.
LEMMA StutterOwn ==
    ASSUME Own, UNCHANGED vars
    PROVE  Own'
  BY DEF Own, vars, TypeOK, SessionOK, WellFormed, Serves, Holds, Has, Fresh, FirstLock,
         AddsStock, Sufficient

\* The ownership of rows is kept by every behaviour.
THEOREM OwnAlways == Spec => []Own
<1>1. Init => Own
  BY InitOwn
<1>2. Own /\ [Next]_vars => Own'
  BY StepOwn, StutterOwn DEF Next
<1>3. QED
  BY <1>1, <1>2, PTL DEF Spec

\* Types: among them that no quantity an operation commits is negative, which the
\* CHECK constraint of inventory_items would refuse.
THEOREM TypeCorrect == Spec => []TypeOK
<1>1. Own => TypeOK
  BY DEF Own
<1>2. QED
  BY <1>1, OwnAlways, PTL

\* What a session read of the rows it holds is what is committed, for every
\* number of sessions.
THEOREM LockedReadsStayFresh == Spec => []LockedReadIsFresh
<1>1. Own => LockedReadIsFresh
  BY DEF Own, SessionOK, Holds, Fresh, Running, LockedReadIsFresh
<1>2. QED
  BY <1>1, OwnAlways, PTL
-----------------------------------------------------------------------------
(* The account *)

\* A list of rows that reads as an unbroken account ending at n.
Chain(h, n) ==
    /\ \A k \in 1 .. Len(h) - 1 : h[k + 1].before = h[k].after
    /\ h # <<>> => h[Len(h)].after = n

\* Only items that exist have rows.
NoStrayRows == \A i \in Items : i \notin rows => history[i] = <<>>

\* A row that starts where the account ends prolongs it.
LEMMA ChainAppend ==
    ASSUME NEW h \in Seq(Txn), NEW n \in Nat, NEW e \in Txn, Chain(h, n), e.before = n
    PROVE  /\ Append(h, e) \in Seq(Txn) /\ Append(h, e) # <<>>
           /\ Chain(Append(h, e), e.after)
<1> DEFINE g == Append(h, e)
<1>1. /\ g \in Seq(Txn) /\ Len(g) = Len(h) + 1 /\ Len(h) \in Nat /\ g[Len(g)] = e
      /\ \A k \in 1 .. Len(h) : g[k] = h[k]
  OBVIOUS
<1>2. g # <<>>
  BY <1>1
<1>3. h # <<>> <=> Len(h) # 0
  OBVIOUS
<1>4. ASSUME NEW k \in 1 .. Len(g) - 1 PROVE g[k + 1].before = g[k].after
  <2>1. CASE k = Len(h)
    BY <1>1, <1>3, <2>1 DEF Chain
  <2>2. CASE k # Len(h)
    <3>1. k \in 1 .. Len(h) - 1 /\ k + 1 \in 1 .. Len(h) /\ k \in 1 .. Len(h)
      BY <1>1, <2>2
    <3>2. QED
      BY <1>1, <3>1 DEF Chain
  <2>3. QED
    BY <2>1, <2>2
<1> HIDE DEF g
<1>5. Chain(g, e.after)
  BY <1>1, <1>4 DEF Chain
<1>6. QED
  BY <1>1, <1>2, <1>5 DEF g

\* Which steps write what the database keeps.
LEMMA WhoWrites ==
    ASSUME NEW s \in Sessions, Step(s)
    PROVE  /\ pc[s] \notin Finished
           /\ Commit(s) \/ UNCHANGED history
           /\ PublishEvent(s) \/ UNCHANGED events
           /\ Commit(s) \/ CreateItem(s) \/ UNCHANGED <<rows, qty, history, rolledBack>>
           /\ pc[s] = "commit" => pc'[s] \in Finished \/ pc' = [pc EXCEPT ![s] = "done"]
                                                      \/ pc' = [pc EXCEPT ![s] = "failed"]
  BY DEF Step, Start, Proceed, IssueItem, RestockItem, LockForMovement, TransferLockFirst,
         TransferLockSecond, ReadOriginal, LoadItem, LockForRollback, PublishEvent, Commit, Abort,
         Crash, CreateItem, Finished, Running, Close, Goto

\* The rows a commit appends to the history of item i.
LEMMA CommitAppends ==
    ASSUME Own, NEW s \in Sessions, Commit(s), NEW i \in Items
    PROVE  /\ i # req[s].item /\ (i # req[s].dest \/ req[s].kind # "transfer") =>
                 history'[i] = history[i]
           /\ i = req[s].item /\ (i # req[s].dest \/ req[s].kind # "transfer") =>
                 history'[i] = Append(history[i], MainRow(s))
           /\ i # req[s].item /\ i = req[s].dest /\ req[s].kind = "transfer" =>
                 history'[i] = Append(history[i], InboundRow(s))
           /\ i = req[s].item /\ i = req[s].dest /\ req[s].kind = "transfer" =>
                 history'[i] = Append(Append(history[i], MainRow(s)), InboundRow(s))
<1>1. req[s].item \in Items /\ req[s].dest \in Items /\ history \in [Items -> Seq(Txn)]
  BY CommitWrites DEF Commit, Own, TypeOK
<1> DEFINE h == [history EXCEPT ![req[s].item] = Append(@, MainRow(s))]
<1>2. h \in [Items -> {h[j] : j \in Items}]
      /\ h[i] = IF i = req[s].item THEN Append(history[i], MainRow(s)) ELSE history[i]
  BY <1>1
<1>3. history' = IF req[s].kind = "transfer"
                 THEN [h EXCEPT ![req[s].dest] = Append(@, InboundRow(s))] ELSE h
  BY DEF Commit
<1> HIDE DEF h
<1>4. QED
  BY <1>1, <1>2, <1>3

\* Rows and quantities of an item after a commit that is not a rollback's.
LEMMA CommitUnbroken ==
    ASSUME Own, NEW s \in Sessions, Commit(s), req[s].kind # "rollback", NEW i \in Items,
           Chain(history[i], qty[i])
    PROVE  Chain(history'[i], qty'[i])
<1> DEFINE b == req[s]
<1>1. /\ b.item \in Items /\ b.dest \in Items /\ b.kind \in {"issue", "restock", "transfer"}
      /\ b.kind # "transfer" => b.dest = b.item
      /\ seen[s].item = qty[b.item] /\ seen[s].dest = qty[b.dest]
      /\ MainRow(s) \in Txn
      /\ b.kind = "transfer" => InboundRow(s) \in Txn
  BY CommitWrites DEF Commit, Holds, Serves, WellFormed, Fresh
<1>2. history \in [Items -> Seq(Txn)] /\ qty \in [Items -> Nat]
  BY DEF Own, TypeOK
<1>3. qty'[i] = IF i = b.dest THEN DestAfter(s) ELSE IF i = b.item THEN After(s) ELSE qty[i]
  BY <1>1, <1>2 DEF Commit
<1>4. /\ MainRow(s).before = qty[b.item] /\ MainRow(s).after = After(s)
      /\ InboundRow(s).before = qty[b.dest] /\ InboundRow(s).after = DestAfter(s)
  BY <1>1 DEF MainRow, InboundRow
<1>5. history[i] \in Seq(Txn) /\ qty[i] \in Nat
  BY <1>2
<1>6. CASE i # b.item /\ (i # b.dest \/ b.kind # "transfer")
  BY <1>1, <1>3, <1>6, CommitAppends
<1>7. CASE i = b.item /\ (i # b.dest \/ b.kind # "transfer")
  <2>1. qty'[i] = After(s)
    BY <1>1, <1>3, <1>7 DEF DestAfter
  <2>2. history'[i] = Append(history[i], MainRow(s))
    BY <1>7, CommitAppends
  <2>3. MainRow(s) \in Txn /\ MainRow(s).before = qty[i] /\ MainRow(s).after = qty'[i]
    BY <1>1, <1>4, <1>7, <2>1
  <2>4. QED
    BY <1>5, <2>2, <2>3, ChainAppend
<1>8. CASE i # b.item /\ i = b.dest /\ b.kind = "transfer"
  <2>1. history'[i] = Append(history[i], InboundRow(s))
    BY <1>8, CommitAppends
  <2>2. InboundRow(s) \in Txn /\ InboundRow(s).before = qty[i] /\ InboundRow(s).after = qty'[i]
    BY <1>1, <1>3, <1>4, <1>8
  <2>3. QED
    BY <1>5, <2>1, <2>2, ChainAppend
<1>9. CASE i = b.item /\ i = b.dest /\ b.kind = "transfer"
  <2>1. history'[i] = Append(Append(history[i], MainRow(s)), InboundRow(s))
    BY <1>9, CommitAppends
  <2>2. After(s) = qty[i] /\ DestAfter(s) = qty[i]
    BY <1>1, <1>9 DEF After, DestAfter, SelfTransfer, AddsStock
  <2>3. /\ MainRow(s) \in Txn /\ MainRow(s).before = qty[i] /\ MainRow(s).after = qty[i]
        /\ InboundRow(s) \in Txn /\ InboundRow(s).before = qty[i]
        /\ InboundRow(s).after = qty'[i] /\ qty'[i] = qty[i]
    BY <1>1, <1>3, <1>4, <1>9, <2>2
  <2> DEFINE g == Append(history[i], MainRow(s))
  <2>4. g \in Seq(Txn) /\ Chain(g, qty[i])
    BY <1>5, <2>3, ChainAppend
  <2>5. history'[i] = Append(g, InboundRow(s))
    BY <2>1
  <2> HIDE DEF g
  <2>6. QED
    BY <1>5, <2>3, <2>4, <2>5, ChainAppend
<1>10. QED
  BY <1>6, <1>7, <1>8, <1>9

Account == NoStrayRows /\ \A i \in Items : Chain(history[i], qty[i])

\* The account of every item stays unbroken: as long as no request is a rollback,
\* before and after reconstruct the stock, whatever the sessions and their crashes.
THEOREM LedgerStaysUnbroken ==
    ASSUME "rollback" \notin Kinds
    PROVE  Spec => []LedgerUnbroken
<1>1. Init => Account
  BY DEF Init, Account, NoStrayRows, Chain
<1>2. ASSUME Own, Account, NEW s \in Sessions, Step(s) PROVE Account'
  <2>1. CASE UNCHANGED <<rows, qty, history, rolledBack>>
    BY <1>2, <2>1 DEF Account, NoStrayRows, Chain
  <2>2. CASE Commit(s)
    <3>1. NoStrayRows'
      <4>1. rows' = rows /\ req[s].item \in rows /\ req[s].dest \in rows
        BY <1>2, <2>2, CommitWrites DEF Commit, Holds, Has
      <4>2. QED
        BY <1>2, <2>2, <4>1, CommitAppends DEF Account, NoStrayRows
    <3>2. req[s].kind # "rollback"
      BY <1>2, <2>2, CommitWrites DEF Commit, WellFormed
    <3>3. \A i \in Items : Chain(history'[i], qty'[i])
      BY <1>2, <2>2, <3>2, CommitUnbroken DEF Account
    <3>4. QED
      BY <3>1, <3>3 DEF Account, Chain
  <2>3. CASE CreateItem(s)
    <3>1. /\ history' = history /\ qty \in [Items -> Nat]
          /\ rows \subseteq rows' /\ rows \subseteq Items
      BY <1>2, <2>3 DEF CreateItem, Own, TypeOK
    <3>2. \A i \in rows : qty'[i] = qty[i]
      BY <2>3, <3>1 DEF CreateItem
    <3>3. \A i \in Items : i \notin rows => history[i] = <<>>
      BY <1>2 DEF Account, NoStrayRows
    <3>4. NoStrayRows'
      BY <3>1, <3>3 DEF NoStrayRows
    <3>5. ASSUME NEW i \in Items PROVE Chain(history[i], qty'[i])
      <4>1. CASE i \in rows
        BY <1>2, <3>2, <4>1 DEF Account
      <4>2. CASE i \notin rows
        BY <1>2, <3>3, <4>2 DEF Account, Chain
      <4>3. QED
        BY <4>1, <4>2
    <3>6. QED
      BY <3>1, <3>4, <3>5 DEF Account, Chain
  <2>4. QED
    BY <1>2, <2>1, <2>2, <2>3, WhoWrites
<1>3. ASSUME Own, Account, UNCHANGED vars PROVE Account'
  BY <1>3 DEF vars, Account, NoStrayRows, Chain
<1>4. Own /\ Account /\ [Next]_vars => Account'
  BY <1>2, <1>3 DEF Next
<1>5. Account => LedgerUnbroken
  BY DEF Account, Chain, LedgerUnbroken
<1>6. QED
  BY <1>1, <1>4, <1>5, OwnAlways, PTL DEF Spec
-----------------------------------------------------------------------------
(* The refinement *)

\* A commit is the one step of StockLedger that its operation stands for.
LEMMA CommitIsLedgerStep ==
    ASSUME Own, NEW s \in Sessions, Commit(s), req[s].kind # "rollback"
    PROVE  Ledger!Movement
<1> DEFINE b == req[s]
           i == b.item
           j == b.dest
           a == b.amount
           main == <<s, "main">>
           inbound == <<s, "inbound">>
<1>1. /\ i \in Items /\ j \in Items /\ a \in Amounts /\ a \in Nat
      /\ b.kind \in {"issue", "restock", "transfer"} /\ b.target = NoTxn
      /\ b.kind # "transfer" => j = i
      /\ seen[s].item = qty[i] /\ seen[s].dest = qty[j]
      /\ i \in rows /\ j \in rows
      /\ AddsStock(b) \/ qty[i] - Reserved[i] >= a
  BY CommitWrites DEF Commit, Holds, Serves, WellFormed, Fresh, Has, Sufficient
<1>2. /\ history \in [Items -> Seq(Txn)] /\ qty \in [Items -> Nat]
      /\ main \in TxnIds /\ inbound \in TxnIds
  BY DEF Own, TypeOK, TxnIds, Legs
<1>3. /\ UNCHANGED rows /\ rolledBack' = rolledBack
      /\ qty' = [qty EXCEPT ![i] = After(s), ![j] = DestAfter(s)]
  BY <1>1 DEF Commit
<1>4. CASE b.kind = "issue"
  <2>1. After(s) = qty[i] - a /\ DestAfter(s) = qty[i] - a
    BY <1>1, <1>4 DEF After, DestAfter, SelfTransfer, AddsStock
  <2>2. qty' = [qty EXCEPT ![i] = @ - a]
    BY <1>1, <1>2, <1>3, <1>4, <2>1
  <2>3. MainRow(s) = Ledger!Entry(main, "ISSUE", a, qty[i], qty[i] - a, NoTxn)
    BY <1>1, <1>4, <2>1 DEF MainRow, Ledger!Entry, TxnType
  <2>4. Ledger!Issue(main, i, a)
    BY <1>1, <1>3, <1>4, <2>2, <2>3 DEF Commit, Ledger!Issue, Ledger!Post, AddsStock
  <2>5. QED
    BY <1>1, <1>2, <2>4 DEF Ledger!Movement
<1>5. CASE b.kind = "restock"
  <2>1. After(s) = qty[i] + a /\ DestAfter(s) = qty[i] + a
    BY <1>1, <1>5 DEF After, DestAfter, SelfTransfer, AddsStock
  <2>2. qty' = [qty EXCEPT ![i] = @ + a]
    BY <1>1, <1>2, <1>3, <1>5, <2>1
  <2>3. MainRow(s) = Ledger!Entry(main, "RESTOCK", a, qty[i], qty[i] + a, NoTxn)
    BY <1>1, <1>5, <2>1 DEF MainRow, Ledger!Entry, TxnType
  <2>4. Ledger!Restock(main, i, a)
    BY <1>1, <1>3, <1>5, <2>2, <2>3 DEF Commit, Ledger!Restock, Ledger!Post
  <2>5. QED
    BY <1>1, <1>2, <2>4 DEF Ledger!Movement
<1>6. CASE b.kind = "transfer"
  <2>1. /\ j = i => After(s) = qty[i] /\ DestAfter(s) = qty[j]
        /\ j # i => After(s) = qty[i] - a /\ DestAfter(s) = qty[j] + a
    BY <1>1, <1>6 DEF After, DestAfter, SelfTransfer, AddsStock
  <2> DEFINE less == [qty EXCEPT ![i] = @ - a]
  <2>2. qty' = [less EXCEPT ![j] = @ + a]
    <3>1. less \in [Items -> Int] /\ less[j] = IF j = i THEN qty[i] - a ELSE qty[j]
      BY <1>1, <1>2
    <3>2. DestAfter(s) = less[j] + a
      BY <1>1, <1>2, <2>1, <3>1
    <3>3. CASE j = i
      BY <1>1, <1>2, <1>3, <3>2, <3>3
    <3>4. CASE j # i
      BY <1>1, <1>2, <1>3, <2>1, <3>2, <3>4
    <3>5. QED
      BY <3>3, <3>4
  <2>3. qty'[i] = After(s) /\ qty'[j] = DestAfter(s)
    BY <1>1, <1>2, <1>3, <2>1
  <2>4. /\ MainRow(s) = Ledger!Entry(main, "TRANSFER", a, qty[i], qty'[i], NoTxn)
        /\ InboundRow(s) = Ledger!Entry(inbound, "TRANSFER", a, qty[j], qty'[j], NoTxn)
    BY <1>1, <1>6, <2>3 DEF MainRow, InboundRow, Ledger!Entry, TxnType
  <2>5. history' = [[history EXCEPT ![i] = Append(@, MainRow(s))]
                       EXCEPT ![j] = Append(@, InboundRow(s))]
    BY <1>6 DEF Commit
  <2>6. Ledger!Transfer(main, inbound, i, j, a)
    <3>1. ~AddsStock(b)
      BY <1>6 DEF AddsStock
    <3>2. QED
      BY <1>1, <1>3, <2>2, <2>4, <2>5, <3>1 DEF Ledger!Transfer
  <2>7. QED
    BY <1>1, <1>2, <2>6 DEF Ledger!Movement
<1>7. QED
  BY <1>1, <1>4, <1>5, <1>6

\* A created item is opened in the ledger, a refused one changes nothing there.
LEMMA CreateIsLedgerStep ==
    ASSUME NEW s \in Sessions, CreateItem(s)
    PROVE  [Ledger!Movement]_Ledger!svars
<1>1. CASE UNCHANGED <<rows, qty, audit>>
  BY <1>1 DEF CreateItem, Ledger!svars
<1>2. ASSUME NEW i \in Items \ rows, NEW n \in InitialStocks, rows' = rows \cup {i},
             qty' = [qty EXCEPT ![i] = n]
      PROVE  Ledger!Movement
  BY <1>2 DEF CreateItem, Ledger!Movement, Ledger!Open
<1>3. QED
  BY <1>1, <1>2 DEF CreateItem

\* Without rollback every behaviour of the service is one of StockLedger: issue,
\* restock, transfer and creation happen at the commit, whole or not at all.
THEOREM ServiceImplementsLedger ==
    ASSUME "rollback" \notin Kinds
    PROVE  Spec => ImplementsLedger
<1>1. Init => Ledger!Init
  BY DEF Init, Ledger!Init
<1>2. ASSUME Own, NEW s \in Sessions, Step(s) PROVE [Ledger!Next]_Ledger!svars
  <2>1. CASE Commit(s)
    <3>1. req[s].kind # "rollback"
      BY <1>2, <2>1, CommitWrites DEF Commit, WellFormed
    <3>2. QED
      BY <1>2, <2>1, <3>1, CommitIsLedgerStep DEF Ledger!Next
  <2>2. CASE CreateItem(s)
    BY <2>2, CreateIsLedgerStep DEF Ledger!Next
  <2>3. CASE UNCHANGED <<rows, qty, history, rolledBack>>
    BY <2>3 DEF Ledger!svars
  <2>4. QED
    BY <1>2, <2>1, <2>2, <2>3, WhoWrites
<1>3. UNCHANGED vars => [Ledger!Next]_Ledger!svars
  BY DEF vars, Ledger!svars
<1>4. Own /\ [Next]_vars => [Ledger!Next]_Ledger!svars
  BY <1>2, <1>3 DEF Next
<1>5. QED
  BY <1>1, <1>4, OwnAlways, PTL DEF Spec, ImplementsLedger, Ledger!Spec

-----------------------------------------------------------------------------
(* Rollback *)

\* What a rollback knows of the entry it undoes: it is the k-th of its item, whose
\* account had asOf rows when the status was read and has them still.
Knows(s, k) ==
    LET b == req[s]
        h == history[b.item]
    IN /\ k \in DOMAIN h /\ asOf[s] <= Len(h)
       /\ h[k].id = b.target /\ h[k].type = b.reverses /\ h[k].delta = b.amount

\* The quantity it posts from is the one after the j-th row, none from before.
SawAfter(s, j) ==
    LET h == history[req[s].item]
    IN j \in DOMAIN h /\ asOf[s] <= j /\ seen[s].item = h[j].after

Undoes(s) == pc[s] \in {"load", "relock", "commit"} /\ req[s].kind = "rollback"

\* The quantity of an item is its last row's, and what a rollback works on was true
\* of the account since it read the status.
Books ==
    /\ NoStrayRows
    /\ \A i \in Items : history[i] # <<>> => history[i][Len(history[i])].after = qty[i]
    /\ \A s \in Sessions : Undoes(s) => \E k \in Nat : Knows(s, k)
    /\ \A s \in Sessions : Undoes(s) /\ pc[s] # "load" => \E j \in Nat : SawAfter(s, j)

\* The only rows that do not start where the account ends are a rollback's.
BrokenOnlyByRollback ==
    \A i \in Items : LET h == history[i] IN
        \A k \in 1 .. Len(h) - 1 :
            h[k + 1].before = h[k].after \/ h[k + 1].rollbackOf # NoTxn

\* A row that is appended is the last one, and leaves the others alone.
LEMMA RowAppended ==
    ASSUME NEW h \in Seq(Txn), NEW e \in Txn, NEW g, g = Append(h, e)
    PROVE  /\ g \in Seq(Txn) /\ g # <<>> /\ g[Len(g)] = e
           /\ \A m \in 1 .. Len(h) : m \in 1 .. Len(g) /\ g[m] = h[m]
           /\ \A m \in 1 .. Len(g) : m \in 1 .. Len(h) \/ g[m] = e
<1>1. Len(g) = Len(h) + 1 /\ g \in Seq(Txn)
  OBVIOUS
<1>2. g[Len(g)] = e /\ \A m \in 1 .. Len(h) : g[m] = h[m]
  OBVIOUS
<1>3. Len(h) \in Nat
  OBVIOUS
<1>4. g # <<>>
  BY <1>1, <1>3
<1>5. \A m \in 1 .. Len(h) : m \in 1 .. Len(g) /\ g[m] = h[m]
  BY <1>1, <1>2, <1>3
<1>6. \A m \in 1 .. Len(g) : m \in 1 .. Len(h) \/ g[m] = e
  BY <1>1, <1>2, <1>3
<1>7. QED
  BY <1>1, <1>2, <1>4, <1>5, <1>6

\* What a commit does to the account of one item.
LEMMA CommitPosts ==
    ASSUME Own, NEW s \in Sessions, Commit(s), NEW i \in Items
    PROVE  /\ history[i] \in Seq(Txn) /\ history'[i] \in Seq(Txn)
           /\ \A m \in 1 .. Len(history[i]) :
                 m \in 1 .. Len(history'[i]) /\ history'[i][m] = history[i][m]
           /\ \A m \in 1 .. Len(history'[i]) :
                 \/ m \in 1 .. Len(history[i])
                 \/ history'[i][m].rollbackOf \in {req[s].target, NoTxn}
           /\ \/ history'[i] = history[i] /\ qty'[i] = qty[i]
              \/ history'[i] # <<>> /\ history'[i][Len(history'[i])].after = qty'[i]
<1> DEFINE b == req[s]
<1>1. /\ history[i] \in Seq(Txn) /\ history'[i] \in Seq(Txn) /\ qty \in [Items -> Nat]
      /\ b.item \in Items /\ b.dest \in Items /\ (b.kind # "transfer" => b.dest = b.item)
      /\ MainRow(s) \in Txn /\ (b.kind = "transfer" => InboundRow(s) \in Txn)
  BY StepOwn, CommitWrites DEF Step, Proceed, Commit, Own, TypeOK, WellFormed
<1>2. /\ MainRow(s).after = After(s) /\ MainRow(s).rollbackOf = b.target
      /\ InboundRow(s).after = DestAfter(s) /\ InboundRow(s).rollbackOf = NoTxn
  BY DEF MainRow, InboundRow
<1>3. qty'[i] = IF i = b.dest THEN DestAfter(s) ELSE IF i = b.item THEN After(s) ELSE qty[i]
  BY <1>1 DEF Commit
<1>4. CASE i # b.item /\ (i # b.dest \/ b.kind # "transfer")
  BY <1>1, <1>3, <1>4, CommitAppends
<1>5. CASE i = b.item /\ (i # b.dest \/ b.kind # "transfer")
  <2>1. history'[i] = Append(history[i], MainRow(s)) /\ qty'[i] = MainRow(s).after
    BY <1>1, <1>2, <1>3, <1>5, CommitAppends DEF DestAfter
  <2>2. PICK h \in Seq(Txn), e \in Txn, g \in Seq(Txn) :
           h = history[i] /\ e = MainRow(s) /\ g = history'[i]
    BY <1>1
  <2>3. g = Append(h, e)
    BY <2>1, <2>2
  <2>4. /\ g # <<>> /\ g[Len(g)] = e
        /\ \A m \in 1 .. Len(h) : m \in 1 .. Len(g) /\ g[m] = h[m]
        /\ \A m \in 1 .. Len(g) : m \in 1 .. Len(h) \/ g[m] = e
    BY <2>3, RowAppended
  <2>5. QED
    BY <1>1, <1>2, <2>1, <2>2, <2>4
<1>6. CASE i # b.item /\ i = b.dest /\ b.kind = "transfer"
  <2>1. history'[i] = Append(history[i], InboundRow(s)) /\ qty'[i] = InboundRow(s).after
    BY <1>2, <1>3, <1>6, CommitAppends
  <2>2. PICK h \in Seq(Txn), e \in Txn, g \in Seq(Txn) :
           h = history[i] /\ e = InboundRow(s) /\ g = history'[i]
    BY <1>1, <1>6
  <2>3. g = Append(h, e)
    BY <2>1, <2>2
  <2>4. /\ g # <<>> /\ g[Len(g)] = e
        /\ \A m \in 1 .. Len(h) : m \in 1 .. Len(g) /\ g[m] = h[m]
        /\ \A m \in 1 .. Len(g) : m \in 1 .. Len(h) \/ g[m] = e
    BY <2>3, RowAppended
  <2>5. QED
    BY <1>1, <1>2, <2>1, <2>2, <2>4
<1>7. CASE i = b.item /\ i = b.dest /\ b.kind = "transfer"
  <2>1. PICK h \in Seq(Txn), e \in Txn, f \in Txn :
           h = history[i] /\ e = MainRow(s) /\ f = InboundRow(s)
    BY <1>1, <1>7
  <2>2. PICK g \in Seq(Txn) : g = Append(h, e)
    <3>1. Append(h, e) \in Seq(Txn)
      OBVIOUS
    <3>2. QED
      BY <3>1
  <2>3. history'[i] = Append(Append(history[i], MainRow(s)), InboundRow(s))
    BY <1>7, CommitAppends
  <2>4. history'[i] = Append(g, f) /\ qty'[i] = f.after
    BY <1>2, <1>3, <1>7, <2>1, <2>2, <2>3
  <2>5. /\ \A m \in 1 .. Len(h) : m \in 1 .. Len(g) /\ g[m] = h[m]
        /\ \A m \in 1 .. Len(g) : m \in 1 .. Len(h) \/ g[m] = e
    BY <2>2, RowAppended
  <2>6. /\ history'[i] # <<>> /\ history'[i][Len(history'[i])] = f
        /\ \A m \in 1 .. Len(g) : m \in 1 .. Len(history'[i]) /\ history'[i][m] = g[m]
        /\ \A m \in 1 .. Len(history'[i]) : m \in 1 .. Len(g) \/ history'[i][m] = f
    BY <2>4, RowAppended
  <2>7. \A m \in 1 .. Len(h) : m \in 1 .. Len(history'[i]) /\ history'[i][m] = h[m]
    BY <2>5, <2>6
  <2>8. \A m \in 1 .. Len(history'[i]) :
           m \in 1 .. Len(h) \/ history'[i][m].rollbackOf \in {b.target, NoTxn}
    BY <1>2, <2>1, <2>5, <2>6
  <2>9. QED
    BY <1>1, <2>1, <2>4, <2>6, <2>7, <2>8
<1>8. QED
  BY <1>4, <1>5, <1>6, <1>7

\* An account only grows, so what a rollback knows of it stays true.
LEMMA KnowsStays ==
    ASSUME Own, NEW s \in Sessions, Commit(s), NEW t \in Sessions, t # s, req[t].item \in Items
    PROVE  /\ \A k \in Nat : Knows(t, k) => Knows(t, k)'
           /\ \A j \in Nat : SawAfter(t, j) => SawAfter(t, j)'
<1> DEFINE i == req[t].item
<1>1. /\ history[i] \in Seq(Txn) /\ history'[i] \in Seq(Txn)
      /\ \A m \in 1 .. Len(history[i]) :
            m \in 1 .. Len(history'[i]) /\ history'[i][m] = history[i][m]
  BY CommitPosts
<1>2. req'[t] = req[t] /\ seen'[t] = seen[t] /\ asOf'[t] = asOf[t] /\ asOf[t] \in Nat
  BY StepOwn DEF Step, Proceed, Apart, Own, TypeOK
<1>3. /\ DOMAIN history[i] = 1 .. Len(history[i]) /\ DOMAIN history'[i] = 1 .. Len(history'[i])
      /\ Len(history[i]) <= Len(history'[i])
  <2>1. Len(history[i]) \in Nat /\ Len(history'[i]) \in Nat
    BY <1>1
  <2>2. CASE Len(history[i]) = 0
    BY <1>1, <2>1, <2>2
  <2>3. CASE Len(history[i]) # 0
    <3>1. Len(history[i]) \in 1 .. Len(history[i])
      BY <2>1, <2>3
    <3>2. Len(history[i]) \in 1 .. Len(history'[i])
      BY <1>1, <3>1
    <3>3. QED
      BY <1>1, <2>1, <3>2
  <2>4. QED
    BY <2>2, <2>3
<1>4. ASSUME NEW k \in Nat, Knows(t, k) PROVE Knows(t, k)'
  BY <1>1, <1>2, <1>3, <1>4 DEF Knows
<1>5. ASSUME NEW j \in Nat, SawAfter(t, j) PROVE SawAfter(t, j)'
  BY <1>1, <1>2, <1>3, <1>5 DEF SawAfter
<1>6. QED
  BY <1>4, <1>5

\* The other operations never turn into a rollback.
LEMMA OthersDoNotReverse ==
    ASSUME Own, NEW s \in Sessions,
           \/ IssueItem(s) \/ RestockItem(s) \/ TransferLockFirst(s)
           \/ TransferLockSecond(s) \/ PublishEvent(s)
    PROVE  req'[s].kind # "rollback"
<1>1. req \in [Sessions -> Dto \cup {NoRequest}]
  BY DEF Own, TypeOK
<1>2. CASE IssueItem(s) \/ RestockItem(s)
  <2>1. PICK kind \in {"issue", "restock"}, i \in Items, a \in Amounts :
           req' = [req EXCEPT ![s] = StockDto(kind, i, a)]
    BY <1>2 DEF IssueItem, RestockItem, LockForMovement, Raise
  <2>2. QED
    BY <1>1, <2>1 DEF StockDto
<1>3. CASE TransferLockFirst(s)
  <2>1. PICK i \in Items, j \in Items, a \in Amounts :
           req' = [req EXCEPT ![s] = [StockDto("transfer", i, a) EXCEPT !.dest = j]]
    BY <1>3 DEF TransferLockFirst, Raise
  <2>2. QED
    BY <1>1, <2>1 DEF StockDto
<1>4. CASE TransferLockSecond(s) \/ PublishEvent(s)
  BY <1>4 DEF TransferLockSecond, PublishEvent, Own, SessionOK, Serves, Running
<1>5. QED
  BY <1>2, <1>3, <1>4

\* What the session of a ReadOriginal that goes on has read.
LEMMA ReadFinds ==
    ASSUME Own, NEW s \in Sessions, ReadOriginal(s), pc'[s] # "rejected"
    PROVE  \E i \in Items : \E k \in DOMAIN history[i] :
              /\ Reversible(history[i][k]) /\ history[i] \in Seq(Txn)
              /\ pc'[s] = "load" /\ asOf'[s] = Len(history[i])
              /\ req'[s].kind = "rollback" /\ req'[s].item = i /\ req'[s].target = history[i][k].id
              /\ req'[s].reverses = history[i][k].type /\ req'[s].amount = history[i][k].delta
<1> DEFINE Of(i, k) == [StockDto("rollback", i, history[i][k].delta) EXCEPT
                           !.target = history[i][k].id, !.reverses = history[i][k].type]
           Read(i, k) == /\ Reversible(history[i][k]) /\ Goto(s, "load")
                         /\ req' = [req EXCEPT ![s] = Of(i, k)]
                         /\ asOf' = [asOf EXCEPT ![s] = Len(history[i])]
<1>1. ~Close(s, "rejected")
  BY DEF Close, Goto, Own, TypeOK
<1>2. PICK i \in Items : \E k \in DOMAIN history[i] : Read(i, k)
  BY <1>1 DEF ReadOriginal
<1>3. PICK k \in DOMAIN history[i] : Read(i, k)
  BY <1>2
<1>4. req'[s] = Of(i, k) /\ asOf'[s] = Len(history[i]) /\ pc'[s] = "load"
  BY <1>3 DEF Own, TypeOK, Goto
<1>5. /\ Of(i, k).kind = "rollback" /\ Of(i, k).item = i /\ Of(i, k).target = history[i][k].id
      /\ Of(i, k).reverses = history[i][k].type /\ Of(i, k).amount = history[i][k].delta
  BY DEF StockDto
<1>6. history[i] \in Seq(Txn)
  BY DEF Own, TypeOK
<1> HIDE DEF Of
<1>7. QED
  BY <1>3, <1>4, <1>5, <1>6

\* What a rollback knows, every step keeps or ends with the rollback.
LEMMA RollbacksKnow ==
    ASSUME Own, Books, NEW s \in Sessions, Step(s), NEW t \in Sessions, Undoes(t)'
    PROVE  /\ \E k \in Nat : Knows(t, k)'
           /\ pc'[t] # "load" => \E j \in Nat : SawAfter(t, j)'
<1>1. CASE t # s
  <2>1. pc'[t] = pc[t] /\ req'[t] = req[t] /\ seen'[t] = seen[t] /\ asOf'[t] = asOf[t]
    BY <1>1, StepOwn DEF Apart
  <2>2. Undoes(t) /\ req[t].item \in Items
    BY <2>1 DEF Undoes, Own, TypeOK, Running, Dto
  <2>3. /\ \E k \in Nat : Knows(t, k)
        /\ pc[t] # "load" => \E j \in Nat : SawAfter(t, j)
    BY <2>2 DEF Books
  <2>4. CASE Commit(s)
    BY <1>1, <2>1, <2>2, <2>3, <2>4, KnowsStays
  <2>5. CASE UNCHANGED history
    BY <2>1, <2>3, <2>5 DEF Knows, SawAfter
  <2>6. QED
    BY <2>4, <2>5, WhoWrites
<1>2. CASE t = s /\ ReadOriginal(s)
  <2>1. pc'[s] # "rejected" /\ UNCHANGED history
    BY <1>2 DEF Undoes, ReadOriginal
  <2>2. PICK i \in Items : \E k \in DOMAIN history[i] :
              /\ history[i] \in Seq(Txn) /\ pc'[s] = "load" /\ asOf'[s] = Len(history[i])
              /\ req'[s].item = i /\ req'[s].target = history[i][k].id
              /\ req'[s].reverses = history[i][k].type /\ req'[s].amount = history[i][k].delta
    BY <1>2, <2>1, ReadFinds
  <2>3. PICK k \in DOMAIN history[i] :
              /\ history[i] \in Seq(Txn) /\ pc'[s] = "load" /\ asOf'[s] = Len(history[i])
              /\ req'[s].item = i /\ req'[s].target = history[i][k].id
              /\ req'[s].reverses = history[i][k].type /\ req'[s].amount = history[i][k].delta
    BY <2>2
  <2>4. k \in Nat /\ Len(history[i]) \in Nat
    BY <2>3
  <2>5. Knows(s, k)'
    BY <2>1, <2>3, <2>4 DEF Knows
  <2>6. QED
    BY <1>2, <2>3, <2>4, <2>5
<1>3. CASE t = s /\ LoadItem(s)
  <2> DEFINE i == req[s].item
             h == history[i]
             j == Len(h)
  <2>1. /\ Undoes(s) /\ i \in Items /\ UNCHANGED <<history, req, asOf>> /\ Load(s, req[s], i)
    BY <1>3 DEF LoadItem, Undoes, Own, TypeOK, SessionOK, Serves, Running, Dto
  <2>2. PICK k \in Nat : Knows(s, k)
    BY <2>1 DEF Books
  <2>3. Knows(s, k)'
    BY <2>1, <2>2 DEF Knows
  <2>4. h \in Seq(Txn) /\ k \in DOMAIN h /\ asOf[s] <= j
    BY <2>1, <2>2 DEF Knows, Own, TypeOK
  <2>5. j \in Nat /\ j \in DOMAIN h /\ h # <<>>
    BY <2>4
  <2>6. seen'[s].item = h[j].after
    BY <2>1, <2>5, LoadEffect DEF Books
  <2>7. SawAfter(s, j)'
    BY <2>1, <2>4, <2>5, <2>6 DEF SawAfter
  <2>8. QED
    BY <1>3, <2>2, <2>3, <2>5, <2>7
<1>4. CASE t = s /\ LockForRollback(s)
  <2>1. Undoes(s) /\ pc[s] # "load" /\ UNCHANGED <<history, req, seen, asOf>>
    BY <1>4 DEF LockForRollback, Undoes, Own, SessionOK, Serves, Running
  <2>2. PICK k \in Nat : Knows(s, k)
    BY <2>1 DEF Books
  <2>3. PICK j \in Nat : SawAfter(s, j)
    BY <2>1 DEF Books
  <2>4. Knows(s, k)' /\ SawAfter(s, j)'
    BY <2>1, <2>2, <2>3 DEF Knows, SawAfter
  <2>5. QED
    BY <1>4, <2>4
<1>5. CASE t = s /\ ~ReadOriginal(s) /\ ~LoadItem(s) /\ ~LockForRollback(s)
  <2>1. /\ pc \in [Sessions -> {"idle"} \cup Running \cup Finished]
        /\ req \in [Sessions -> Dto \cup {NoRequest}]
    BY DEF Own, TypeOK
  <2>2. CASE IssueItem(s) \/ RestockItem(s)
    BY <1>5, <2>2, OthersDoNotReverse DEF Undoes
  <2>3. CASE TransferLockFirst(s) \/ TransferLockSecond(s) \/ PublishEvent(s)
    BY <1>5, <2>3, OthersDoNotReverse DEF Undoes
  <2>4. CASE \E label \in Finished : Close(s, label)
    BY <1>5, <2>1, <2>4 DEF Close, Goto, Undoes, Finished
  <2>5. QED
    <3>1. CreateItem(s) \/ Commit(s) \/ Abort(s) \/ Crash(s)
             => \E label \in Finished : Close(s, label)
      BY DEF CreateItem, Commit, Abort, Crash, Finished
    <3>2. QED
      BY <1>5, <2>2, <2>3, <2>4, <3>1 DEF Step, Start, Proceed
<1>6. QED
  BY <1>1, <1>2, <1>3, <1>4, <1>5

\* A commit keeps the books.
LEMMA CommitKeepsBooks ==
    ASSUME Own, Books, NEW s \in Sessions, Commit(s)
    PROVE  Books'
<1>1. NoStrayRows'
  <2>1. rows' = rows /\ req[s].item \in rows /\ req[s].dest \in rows
    BY CommitWrites DEF Commit, Holds, Has
  <2>2. QED
    BY <2>1, CommitAppends DEF Books, NoStrayRows
<1>2. \A i \in Items : history'[i] # <<>> => history'[i][Len(history'[i])].after = qty'[i]
  BY CommitPosts DEF Books
<1>3. ASSUME NEW t \in Sessions, Undoes(t)'
      PROVE  /\ \E k \in Nat : Knows(t, k)'
             /\ pc'[t] # "load" => \E j \in Nat : SawAfter(t, j)'
  BY <1>3, RollbacksKnow DEF Step, Proceed
<1>4. QED
  BY <1>1, <1>2, <1>3 DEF Books

\* The books are kept by every behaviour, with every operation in use.
LEMMA BooksAlways == Spec => []Books
<1>1. Init => Books
  BY DEF Init, Books, NoStrayRows, Undoes
<1>2. ASSUME Own, Books, NEW s \in Sessions, Step(s) PROVE Books'
  <2>1. CASE Commit(s)
    BY <1>2, <2>1, CommitKeepsBooks
  <2>2. \A t \in Sessions : Undoes(t)' =>
           /\ \E k \in Nat : Knows(t, k)'
           /\ pc'[t] # "load" => \E j \in Nat : SawAfter(t, j)'
    BY <1>2, RollbacksKnow
  <2>3. CASE UNCHANGED <<rows, qty, history, rolledBack>>
    BY <1>2, <2>2, <2>3 DEF Books, NoStrayRows
  <2>4. CASE CreateItem(s)
    <3>1. /\ history' = history /\ rolledBack' = rolledBack /\ qty \in [Items -> Nat]
          /\ rows \subseteq rows' /\ rows \subseteq Items
      BY <1>2, <2>4 DEF CreateItem, Own, TypeOK
    <3>2. \A i \in Items : history[i] # <<>> => qty'[i] = qty[i]
      BY <1>2, <2>4, <3>1 DEF CreateItem, Books, NoStrayRows
    <3>3. QED
      BY <1>2, <2>2, <3>1, <3>2 DEF Books, NoStrayRows
  <2>5. QED
    BY <1>2, <2>1, <2>3, <2>4, WhoWrites
<1>3. ASSUME Books, UNCHANGED vars PROVE Books'
  BY <1>3 DEF vars, Books, NoStrayRows, Undoes, Knows, SawAfter
<1>4. Own /\ Books /\ [Next]_vars => Books'
  BY <1>2, <1>3 DEF Next
<1>5. QED
  BY <1>1, <1>4, OwnAlways, PTL DEF Spec

\* What a step of one session does to the claims of all.
LEMMA ClaimsChange ==
    ASSUME Own, NEW s \in Sessions, Step(s)
    PROVE  /\ ~Reversing(s) /\ ~Reversing(s)' => Claims' = Claims
           /\ Reversing(s) /\ Reversing(s)' /\ ClaimOf(s)' = ClaimOf(s) => Claims' = Claims
           /\ ~Reversing(s) /\ Reversing(s)' => Claims' = Claims \cup {ClaimOf(s)'}
           /\ Reversing(s) /\ ~Reversing(s)' => Claims' = Claims \ {ClaimOf(s)}
           /\ \A c \in Claims : c.id = <<s, "main">> => Reversing(s)
<1>1. \A t \in Sessions : t # s => Reversing(t)' = Reversing(t) /\ ClaimOf(t)' = ClaimOf(t)
  BY StepOwn DEF Apart, Reversing, ClaimOf
<1>2. \A t \in Sessions : ClaimOf(t).id = <<t, "main">>
  BY DEF ClaimOf
<1>3. \A t, u \in Sessions : ClaimOf(t) = ClaimOf(u) => t = u
  BY <1>2
<1>4. Claims = {ClaimOf(t) : t \in {u \in Sessions : Reversing(u)}}
  BY DEF Claims
<1>5. Claims' = {ClaimOf(t)' : t \in {u \in Sessions : Reversing(u)'}}
  BY DEF Claims
<1>6. \A c \in Claims : c.id = <<s, "main">> => Reversing(s)
  BY <1>2, <1>4
<1>7. QED
  BY <1>1, <1>3, <1>4, <1>5, <1>6

\* Only ReadOriginal makes a claim; what it found does not change until it ends.
LEMMA ClaimKept ==
    ASSUME Own, NEW s \in Sessions, Step(s), ~ReadOriginal(s), Reversing(s)'
    PROVE  Reversing(s) /\ ClaimOf(s)' = ClaimOf(s)
<1>1. pc \in [Sessions -> {"idle"} \cup Running \cup Finished]
  BY DEF Own, TypeOK
<1>2. ~ \E label \in Finished : Close(s, label)
  BY <1>1 DEF Close, Goto, Finished, Reversing
<1>3. ~CreateItem(s) /\ ~Commit(s) /\ ~Abort(s) /\ ~Crash(s)
  BY <1>2 DEF CreateItem, Commit, Abort, Crash, Finished
<1>4. LoadItem(s) \/ LockForRollback(s)
  BY <1>3, OthersDoNotReverse DEF Step, Start, Proceed, Reversing
<1>5. pc[s] \in {"load", "relock"} /\ UNCHANGED <<req, asOf>>
  BY <1>4 DEF LoadItem, LockForRollback
<1>6. QED
  BY <1>5 DEF Reversing, ClaimOf

\* The commit of a rollback undoes the entry it claimed.
LEMMA RollbackIsLedgerStep ==
    ASSUME Own, Books, NEW s \in Sessions, Commit(s), req[s].kind = "rollback"
    PROVE  Ledger!LooseNext
<1> DEFINE b == req[s]
           i == b.item
           h == history[i]
           c == ClaimOf(s)
<1>1. /\ i \in Items /\ b.dest = i /\ b.target \in TxnIds /\ b.target # NoTxn
      /\ b.reverses \in {"ISSUE", "RESTOCK"} /\ b.amount \in Nat
      /\ b.reverses = "RESTOCK" => seen[s].item - Reserved[i] >= b.amount
  BY CommitWrites, ServiceAssumption DEF Commit, WellFormed, Holds, AddsStock, Sufficient
<1>2. Undoes(s) /\ pc[s] # "load"
  BY DEF Undoes, Commit
<1>3. PICK k \in Nat : Knows(s, k)
  BY <1>2 DEF Books
<1>4. PICK j \in Nat : SawAfter(s, j)
  BY <1>2 DEF Books
<1>5. /\ k \in DOMAIN h /\ j \in DOMAIN h /\ asOf[s] <= j
      /\ h[k].id = b.target /\ h[k].type = b.reverses /\ h[k].delta = b.amount
      /\ seen[s].item = h[j].after
  BY <1>3, <1>4 DEF Knows, SawAfter
<1>6. After(s) = IF b.reverses = "ISSUE" THEN seen[s].item + b.amount
                                         ELSE seen[s].item - b.amount
  BY DEF After, SelfTransfer, AddsStock
<1>7. /\ UNCHANGED rows /\ rolledBack' = rolledBack \cup {b.target}
      /\ history' = [history EXCEPT ![i] = Append(@, MainRow(s))]
  BY <1>1 DEF Commit
<1>8. qty' = [qty EXCEPT ![i] = After(s)]
  <2>1. DestAfter(s) = After(s) /\ qty \in [Items -> Nat]
    BY DEF DestAfter, Own, TypeOK
  <2>2. qty' = [qty EXCEPT ![i] = After(s), ![i] = After(s)]
    BY <1>1, <2>1 DEF Commit
  <2>3. QED
    BY <1>1, <2>1, <2>2
<1>9. /\ c.id = <<s, "main">> /\ c.item = i /\ c.entry = b.target /\ c.from = asOf[s]
  BY DEF ClaimOf
<1>10. MainRow(s) = Ledger!Entry(c.id, b.reverses, b.amount, seen[s].item, After(s), b.target)
  BY <1>9 DEF MainRow, Ledger!Entry, TxnType
<1>11. c \in Claims /\ Claims' = Claims \ {c}
  <2>1. Reversing(s) /\ ~Reversing(s)'
    BY DEF Reversing, Commit, Close, Goto, Own, TypeOK
  <2>2. QED
    BY <2>1, ClaimsChange DEF Claims, Step, Proceed
<1> HIDE DEF c
<1>12. Ledger!Undo(c, k, j)
  BY <1>1, <1>5, <1>6, <1>7, <1>8, <1>9, <1>10, <1>11 DEF Ledger!Undo, Ledger!Post
<1>13. QED
  BY <1>5, <1>9, <1>11, <1>12 DEF Ledger!LooseNext

\* Reading an original that can be rolled back claims it.
LEMMA ReadIsLedgerStep ==
    ASSUME Own, NEW s \in Sessions, ReadOriginal(s)
    PROVE  [Ledger!LooseNext]_Ledger!lvars
<1>1. UNCHANGED <<rows, qty, history, rolledBack>> /\ pc[s] = "idle" /\ ~Reversing(s) /\ Step(s)
  BY DEF ReadOriginal, Reversing, Step, Start
<1>2. CASE pc'[s] = "rejected"
  <2>1. ~Reversing(s)'
    BY <1>2 DEF Reversing
  <2>2. QED
    BY <1>1, <2>1, ClaimsChange DEF Ledger!lvars, Ledger!svars
<1>3. CASE pc'[s] # "rejected"
  <2>1. PICK i \in Items : \E k \in DOMAIN history[i] :
              /\ Reversible(history[i][k]) /\ pc'[s] = "load" /\ asOf'[s] = Len(history[i])
              /\ req'[s].kind = "rollback" /\ req'[s].item = i /\ req'[s].target = history[i][k].id
    BY <1>3, ReadFinds
  <2>2. PICK k \in DOMAIN history[i] :
              /\ Reversible(history[i][k]) /\ pc'[s] = "load" /\ asOf'[s] = Len(history[i])
              /\ req'[s].kind = "rollback" /\ req'[s].item = i /\ req'[s].target = history[i][k].id
    BY <2>1
  <2> DEFINE id == <<s, "main">>
  <2>3. Reversing(s)' /\ id \in TxnIds
    BY <2>2 DEF Reversing, TxnIds, Legs
  <2>4. ClaimOf(s)' = [id |-> id, item |-> i, entry |-> history[i][k].id,
                       from |-> Len(history[i])]
    BY <2>2 DEF ClaimOf
  <2>5. Claims' = Claims \cup {ClaimOf(s)'} /\ \A c \in Claims : c.id # id
    BY <1>1, <2>3, ClaimsChange
  <2>6. Ledger!Claim(id, i, k)
    BY <1>1, <2>2, <2>4, <2>5 DEF Ledger!Claim, Ledger!svars, Reversible
  <2>7. QED
    BY <2>3, <2>6 DEF Ledger!LooseNext
<1>4. QED
  BY <1>2, <1>3

\* Every behaviour of the service, with rollback in use and whatever its sessions
\* and crashes do, is one of the looser ledger: no movement but a rollback ever
\* posts from a quantity that is not the stock, and a rollback only undoes what it
\* found not undone, from a quantity the item has had since.
THEOREM ServiceImplementsLooseLedger == Spec => ImplementsLooseLedger
<1>1. Init => Ledger!LooseInit
  BY DEF Init, Ledger!LooseInit, Ledger!Init, Claims, Reversing
<1>2. ASSUME Own, Books, NEW s \in Sessions, Step(s) PROVE [Ledger!LooseNext]_Ledger!lvars
  <2>1. CASE Commit(s) /\ req[s].kind # "rollback"
    <3>1. ~Reversing(s) /\ ~Reversing(s)'
      BY <1>2, <2>1 DEF Reversing, Commit, Close, Goto, Own, TypeOK
    <3>2. QED
      BY <1>2, <2>1, <3>1, CommitIsLedgerStep, ClaimsChange DEF Ledger!LooseNext
  <2>2. CASE Commit(s) /\ req[s].kind = "rollback"
    BY <1>2, <2>2, RollbackIsLedgerStep
  <2>3. CASE CreateItem(s)
    <3>1. ~Reversing(s) /\ ~Reversing(s)'
      BY <1>2, <2>3 DEF Reversing, CreateItem, Close, Goto, Own, TypeOK
    <3>2. Claims' = Claims
      BY <1>2, <3>1, ClaimsChange
    <3>3. Ledger!Movement \/ UNCHANGED <<rows, qty, history, rolledBack>>
      BY <2>3, CreateIsLedgerStep DEF Ledger!svars
    <3>4. QED
      BY <3>2, <3>3 DEF Ledger!LooseNext, Ledger!lvars
  <2>4. CASE ReadOriginal(s)
    BY <1>2, <2>4, ReadIsLedgerStep
  <2>5. CASE UNCHANGED <<rows, qty, history, rolledBack>> /\ ~ReadOriginal(s)
    <3>1. CASE ~Reversing(s) \/ Reversing(s)'
      <4>1. Claims' = Claims
        BY <1>2, <2>5, <3>1, ClaimsChange, ClaimKept
      <4>2. QED
        BY <2>5, <4>1 DEF Ledger!lvars, Ledger!svars
    <3>2. CASE Reversing(s) /\ ~Reversing(s)'
      <4>1. ClaimOf(s) \in Claims /\ Claims' = Claims \ {ClaimOf(s)}
        BY <1>2, <3>2, ClaimsChange DEF Claims
      <4>2. Ledger!Drop(ClaimOf(s))
        BY <2>5, <4>1 DEF Ledger!Drop, Ledger!svars
      <4>3. QED
        BY <4>1, <4>2 DEF Ledger!LooseNext
    <3>3. QED
      BY <3>1, <3>2
  <2>6. QED
    BY <1>2, <2>1, <2>2, <2>3, <2>4, <2>5, WhoWrites
<1>3. UNCHANGED vars => [Ledger!LooseNext]_Ledger!lvars
  BY DEF vars, Ledger!lvars, Ledger!svars, Claims, Reversing, ClaimOf
<1>4. Own /\ Books /\ [Next]_vars => [Ledger!LooseNext]_Ledger!lvars
  BY <1>2, <1>3 DEF Next
<1>5. QED
  BY <1>1, <1>4, OwnAlways, BooksAlways, PTL DEF Spec, ImplementsLooseLedger, Ledger!LooseSpec

\* Where the account of an item is broken, a rollback broke it: every issue,
\* restock and transfer starts from the quantity at which the row before it ended,
\* and the last row always ends at the item's quantity, rollbacks or not.
THEOREM AccountBrokenOnlyByRollback ==
    Spec => [](BrokenOnlyByRollback /\ \A i \in Items :
                  history[i] # <<>> => history[i][Len(history[i])].after = qty[i])
<1> DEFINE Last == \A i \in Items :
              history[i] # <<>> => history[i][Len(history[i])].after = qty[i]
<1>1. Init => BrokenOnlyByRollback
  BY DEF Init, BrokenOnlyByRollback
<1>2. ASSUME Own, Books, BrokenOnlyByRollback, NEW s \in Sessions, Commit(s), NEW i \in Items,
             NEW k \in 1 .. Len(history'[i]) - 1
      PROVE  \/ history'[i][k + 1].before = history'[i][k].after
             \/ history'[i][k + 1].rollbackOf # NoTxn
  <2> DEFINE h == history[i]
             b == req[s]
  <2>1. /\ h \in Seq(Txn) /\ qty[i] \in Nat /\ MainRow(s) \in Txn
        /\ b.kind = "transfer" => InboundRow(s) \in Txn
        /\ b.kind = "rollback" => MainRow(s).rollbackOf # NoTxn
    BY <1>2, CommitWrites, ServiceAssumption DEF Commit, Own, TypeOK, MainRow, WellFormed
  <2>2. \A m \in 1 .. Len(h) - 1 : \/ h[m + 1].before = h[m].after
                                   \/ h[m + 1].rollbackOf # NoTxn
    BY <1>2 DEF BrokenOnlyByRollback
  <2>3. h # <<>> => h[Len(h)].after = qty[i]
    BY <1>2 DEF Books
  <2>4. b.kind # "rollback" => MainRow(s).before = qty[b.item] /\ InboundRow(s).before = qty[b.dest]
    BY <1>2, CommitWrites DEF Commit, Holds, Fresh, MainRow, InboundRow
  <2>5. CASE history'[i] = h
    BY <1>2, <2>2, <2>5
  <2>6. CASE i = b.item /\ history'[i] = Append(h, MainRow(s))
    BY <1>2, <2>1, <2>2, <2>3, <2>4, <2>6
  <2>7. CASE i = b.dest /\ b.kind = "transfer" /\ history'[i] = Append(h, InboundRow(s))
    BY <1>2, <2>1, <2>2, <2>3, <2>4, <2>7
  <2>8. CASE /\ i = b.item /\ i = b.dest /\ b.kind = "transfer"
             /\ history'[i] = Append(Append(h, MainRow(s)), InboundRow(s))
    <3>1. MainRow(s).after = qty[i] /\ MainRow(s).before = qty[i] /\ InboundRow(s).before = qty[i]
      <4>1. MainRow(s).before = qty[i] /\ InboundRow(s).before = qty[i]
        BY <2>4, <2>8
      <4>2. MainRow(s).after = seen[s].item /\ MainRow(s).before = seen[s].item
        BY <2>8 DEF MainRow, After, SelfTransfer, AddsStock
      <4>3. QED
        BY <4>1, <4>2
    <3> DEFINE g == Append(h, MainRow(s))
    <3>2. /\ g \in Seq(Txn) /\ Len(g) = Len(h) + 1 /\ g[Len(g)] = MainRow(s)
          /\ \A n \in 1 .. Len(h) : g[n] = h[n]
          /\ history'[i] = Append(g, InboundRow(s))
      BY <2>1, <2>8
    <3>3. \A m \in 1 .. Len(g) - 1 : \/ g[m + 1].before = g[m].after
                                     \/ g[m + 1].rollbackOf # NoTxn
      BY <2>1, <2>2, <2>3, <3>1, <3>2
    <3> HIDE DEF g
    <3>4. QED
      BY <1>2, <2>1, <2>8, <3>1, <3>2, <3>3
  <2>9. QED
    BY <1>2, <2>5, <2>6, <2>7, <2>8, CommitAppends
<1>3. Own /\ Books /\ BrokenOnlyByRollback /\ [Next]_vars => BrokenOnlyByRollback'
  <2>1. ASSUME Own, Books, BrokenOnlyByRollback, NEW s \in Sessions, Commit(s)
        PROVE  BrokenOnlyByRollback'
    BY <1>2, <2>1 DEF BrokenOnlyByRollback
  <2>2. ASSUME BrokenOnlyByRollback, UNCHANGED history PROVE BrokenOnlyByRollback'
    BY <2>2 DEF BrokenOnlyByRollback
  <2>3. QED
    BY <2>1, <2>2, WhoWrites DEF Next, vars
<1>4. Books => Last
  BY DEF Books
<1>5. QED
  BY <1>1, <1>3, <1>4, OwnAlways, BooksAlways, PTL DEF Spec

-----------------------------------------------------------------------------
(* Events *)

\* The main row that a commit appends is in the account of the session's item.
LEMMA CommittedRow ==
    ASSUME Own, NEW s \in Sessions, Commit(s)
    PROVE  \E i \in Items : \E k \in DOMAIN history'[i] :
              history'[i][k].id = <<s, "main">> /\ history'[i][k].after = After(s)
<1> DEFINE i == req[s].item
           k == Len(history[i]) + 1
<1>1. /\ i \in Items /\ history[i] \in Seq(Txn) /\ MainRow(s) \in Txn
      /\ req[s].kind = "transfer" => InboundRow(s) \in Txn
  BY CommitWrites DEF Commit, Own, TypeOK
<1>2. MainRow(s).id = <<s, "main">> /\ MainRow(s).after = After(s)
  BY DEF MainRow
<1>3. CASE history'[i] = Append(history[i], MainRow(s))
  <2>1. k \in DOMAIN history'[i] /\ history'[i][k] = MainRow(s)
    BY <1>1, <1>3
  <2>2. QED
    BY <1>1, <1>2, <2>1
<1>4. CASE /\ req[s].kind = "transfer"
           /\ history'[i] = Append(Append(history[i], MainRow(s)), InboundRow(s))
  <2>1. k \in DOMAIN history'[i] /\ history'[i][k] = MainRow(s)
    BY <1>1, <1>4
  <2>2. QED
    BY <1>1, <1>2, <2>1
<1>5. QED
  BY <1>1, <1>3, <1>4, CommitAppends

\* The row that an event tells of stays where it is.
LEMMA RowsStay ==
    ASSUME Own, NEW s \in Sessions, Step(s), NEW i \in Items, NEW k \in DOMAIN history[i]
    PROVE  k \in DOMAIN history'[i] /\ history'[i][k] = history[i][k]
<1>1. CASE UNCHANGED history
  BY <1>1
<1>2. CASE Commit(s)
  <2>1. history[i] \in Seq(Txn) /\ history'[i] \in Seq(Txn)
    BY <1>2, CommitPosts
  <2>2. QED
    BY <1>2, <2>1, CommitPosts
<1>3. QED
  BY <1>1, <1>2, WhoWrites

\* Every event tells of a movement about to be committed as it says, or committed
\* as it said, but for the requests whose commit failed: for every number of
\* sessions, whatever else they do.
THEOREM EventsTellTheTruth == Spec => []EventMeansMovement
<1>1. Init => EventMeansMovement
  BY DEF Init, EventMeansMovement
<1>2. ASSUME Own, EventMeansMovement, NEW s \in Sessions, Step(s) PROVE EventMeansMovement'
  <2> DEFINE Meant(e) ==
               \/ pc[e.session] = "commit" /\ After(e.session) = e.after
               \/ /\ pc[e.session] = "done"
                  /\ \E i \in Items : \E k \in DOMAIN history[i] :
                        history[i][k].id = <<e.session, "main">> /\ history[i][k].after = e.after
               \/ pc[e.session] = "failed"
  <2>1. /\ pc[s] \notin Finished /\ Apart(s) /\ events \subseteq Event
        /\ pc \in [Sessions -> {"idle"} \cup Running \cup Finished]
    BY <1>2, WhoWrites, StepOwn DEF Own, TypeOK
  <2>2. ASSUME NEW e \in events, e.session # s PROVE Meant(e)'
    <3>1. /\ e.session \in Sessions /\ Meant(e)
          /\ pc'[e.session] = pc[e.session] /\ After(e.session)' = After(e.session)
      BY <1>2, <2>1, <2>2 DEF Event, EventMeansMovement, Apart, After, SelfTransfer, AddsStock
    <3>2. ASSUME NEW i \in Items, NEW k \in DOMAIN history[i]
          PROVE  k \in DOMAIN history'[i] /\ history'[i][k] = history[i][k]
      BY <1>2, <3>2, RowsStay
    <3>3. QED
      BY <3>1, <3>2
  <2>3. ASSUME NEW e \in events, e.session = s PROVE Meant(e)'
    <3>1. Meant(e)
      BY <1>2 DEF EventMeansMovement
    <3>2. pc[s] = "commit" /\ After(s) = e.after
      BY <2>1, <2>3, <3>1 DEF Finished
    <3>3. CASE Commit(s)
      <4>1. pc'[s] = "done"
        BY <2>1, <3>3 DEF Commit, Close, Goto
      <4>2. QED
        BY <1>2, <2>3, <3>2, <3>3, <4>1, CommittedRow
    <3>4. CASE ~Commit(s)
      <4>1. pc'[s] = "failed"
        BY <1>2, <2>1, <3>2, <3>4
        DEF Step, Start, Proceed, IssueItem, RestockItem, LockForMovement, TransferLockFirst,
            TransferLockSecond, ReadOriginal, LoadItem, LockForRollback, PublishEvent, Abort,
            Crash, CreateItem, Close, Goto
      <4>2. QED
        BY <2>3, <4>1
    <3>5. QED
      BY <3>3, <3>4
  <2>4. CASE PublishEvent(s)
    <3>1. /\ pc'[s] = "commit" /\ After(s)' = After(s)
          /\ events' \subseteq events \cup {StockEvent(s)}
      BY <2>1, <2>4 DEF PublishEvent, Goto, After, SelfTransfer, AddsStock
    <3>2. StockEvent(s).session = s /\ StockEvent(s).after = After(s)
      BY DEF StockEvent
    <3>3. ASSUME NEW e \in events', e \notin events PROVE Meant(e)'
      <4>1. e.session = s /\ e.after = After(s)
        BY <3>1, <3>2, <3>3
      <4>2. QED
        BY <3>1, <4>1
    <3>4. \A e \in events' : Meant(e)'
      BY <2>2, <2>3, <3>3
    <3>5. QED
      BY <3>4 DEF EventMeansMovement
  <2>5. CASE UNCHANGED events
    <3>1. \A e \in events' : Meant(e)'
      BY <2>2, <2>3, <2>5
    <3>2. QED
      BY <3>1 DEF EventMeansMovement
  <2>6. QED
    BY <1>2, <2>4, <2>5, WhoWrites
<1>3. EventMeansMovement /\ UNCHANGED vars => EventMeansMovement'
  BY DEF vars, EventMeansMovement, After, SelfTransfer, AddsStock
<1>4. Own /\ EventMeansMovement /\ [Next]_vars => EventMeansMovement'
  BY <1>2, <1>3 DEF Next
<1>5. QED
  BY <1>1, <1>4, OwnAlways, PTL DEF Spec
==============================================================================
