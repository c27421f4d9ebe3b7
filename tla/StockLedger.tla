---------------------------- MODULE StockLedger -----------------------------
(***************************************************************************)
(* What the inventory promises its users, and nothing of how: every item   *)
(* has a quantity and a list of entries, and each operation changes the    *)
(* quantities and appends its entries in one indivisible step.  An entry's *)
(* before and after are the quantities around that very step, so the list  *)
(* of an item reads as an unbroken account of its stock.                   *)
(*                                                                         *)
(* This is the contract of backend/app/domain/models/transaction.py        *)
(* ("Every quantity change MUST be recorded as a transaction", "full audit *)
(* trail reconstruction") and of repositories/inventory_repository.py      *)
(* ("preventing lost updates and negative stock").                         *)
(***************************************************************************)
EXTENDS Integers, Sequences

CONSTANTS Items, TxnIds, NoTxn, Amounts, Reserved, InitialRows, InitialStocks

VARIABLES known, stock, entries, reversed

svars == <<known, stock, entries, reversed>>

Entry(id, type, a, before, after, of) ==
    [id |-> id, type |-> type, delta |-> a, before |-> before, after |-> after,
     rollbackOf |-> of]

Init ==
    /\ known = InitialRows
    /\ stock \in [Items -> InitialStocks \cup {0}]
    /\ entries = [i \in Items |-> <<>>]
    /\ reversed = {}

Post(i, e) == entries' = [entries EXCEPT ![i] = Append(@, e)]

Open(i, n) ==
    /\ i \notin known
    /\ known' = known \cup {i}
    /\ stock' = [stock EXCEPT ![i] = n]
    /\ UNCHANGED <<entries, reversed>>

Issue(id, i, a) ==
    /\ i \in known /\ stock[i] - Reserved[i] >= a
    /\ stock' = [stock EXCEPT ![i] = @ - a]
    /\ Post(i, Entry(id, "ISSUE", a, stock[i], stock[i] - a, NoTxn))
    /\ UNCHANGED <<known, reversed>>

Restock(id, i, a) ==
    /\ i \in known
    /\ stock' = [stock EXCEPT ![i] = @ + a]
    /\ Post(i, Entry(id, "RESTOCK", a, stock[i], stock[i] + a, NoTxn))
    /\ UNCHANGED <<known, reversed>>

\* From i to j; with i = j the quantity stays and both entries say so.
Transfer(out, in, i, j, a) ==
    /\ i \in known /\ j \in known /\ stock[i] - Reserved[i] >= a
    /\ LET less == [stock EXCEPT ![i] = @ - a] IN stock' = [less EXCEPT ![j] = @ + a]
    /\ LET out1 == [entries EXCEPT
               ![i] = Append(@, Entry(out, "TRANSFER", a, stock[i], stock'[i], NoTxn))]
       IN entries' = [out1 EXCEPT
               ![j] = Append(@, Entry(in, "TRANSFER", a, stock[j], stock'[j], NoTxn))]
    /\ UNCHANGED <<known, reversed>>

\* An entry is undone at most once.
Reverse(id, i, k) ==
    LET e == entries[i][k]
        n == IF e.type = "ISSUE" THEN stock[i] + e.delta ELSE stock[i] - e.delta
    IN /\ e.type \in {"ISSUE", "RESTOCK"} /\ e.id \notin reversed
       /\ e.type = "RESTOCK" => stock[i] - Reserved[i] >= e.delta
       /\ stock' = [stock EXCEPT ![i] = n]
       /\ Post(i, Entry(id, e.type, e.delta, stock[i], n, e.id))
       /\ reversed' = reversed \cup {e.id}
       /\ UNCHANGED known

Movement ==
    \/ \E i \in Items, n \in InitialStocks : Open(i, n)
    \/ \E id \in TxnIds, i \in Items, a \in Amounts : Issue(id, i, a) \/ Restock(id, i, a)
    \/ \E out, in \in TxnIds, i, j \in Items, a \in Amounts : Transfer(out, in, i, j, a)

Next ==
    \/ Movement
    \/ \E id \in TxnIds, i \in Items : \E k \in DOMAIN entries[i] : Reverse(id, i, k)

Spec == Init /\ [][Next]_svars
=============================================================================
