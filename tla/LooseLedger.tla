---------------------------- MODULE LooseLedger -----------------------------
(***************************************************************************)
(* The ledger whose reversals rest on earlier readings of the account.  To *)
(* claim an entry is to find it not undone; whoever holds a claim may undo *)
(* the entry later, posting from a quantity that the item has had since    *)
(* the claim, and uses the claim up in doing so.  Every other movement is  *)
(* as strict as in StockLedger.  Once an entry is undone nobody claims it  *)
(* again: it is undone a second time only by a claim as old as the first.  *)
(***************************************************************************)
EXTENDS StockLedger

VARIABLE claims   \* the reversals that have found their entry and not ended

lvars == <<known, stock, entries, reversed, claims>>

LooseInit == Init /\ claims = {}

\* entries[i][k] is not undone, and the account of i is from entries long.
Claim(id, i, k) ==
    /\ \A c \in claims : c.id # id
    /\ entries[i][k].type \in {"ISSUE", "RESTOCK"} /\ entries[i][k].id \notin reversed
    /\ claims' = claims \cup
           {[id |-> id, item |-> i, entry |-> entries[i][k].id, from |-> Len(entries[i])]}
    /\ UNCHANGED svars

Drop(c) == claims' = claims \ {c} /\ UNCHANGED svars

\* The claim's entry is the k-th of the item, the quantity the one after the j-th.
\* With j the last entry, and the entry not undone, this is Reverse.
Undo(c, k, j) ==
    LET i == c.item
        e == entries[i][k]
        base == entries[i][j].after
        n == IF e.type = "ISSUE" THEN base + e.delta ELSE base - e.delta
    IN /\ e.id = c.entry /\ c.from <= j
       /\ e.type = "RESTOCK" => base - Reserved[i] >= e.delta
       /\ stock' = [stock EXCEPT ![i] = n]
       /\ Post(i, Entry(c.id, e.type, e.delta, base, n, e.id))
       /\ reversed' = reversed \cup {e.id}
       /\ claims' = claims \ {c}
       /\ UNCHANGED known

LooseNext ==
    \/ Movement /\ UNCHANGED claims
    \/ \E id \in TxnIds, i \in Items : \E k \in DOMAIN entries[i] : Claim(id, i, k)
    \/ \E c \in claims : Drop(c) \/ \E k, j \in DOMAIN entries[c.item] : Undo(c, k, j)

LooseSpec == LooseInit /\ [][LooseNext]_lvars
=============================================================================
