------------------------- MODULE MobileStock_proofs -------------------------
(***************************************************************************)
(* Proofs about MobileStock: the variables keep their types, so that no    *)
(* item is in the list twice, and a difference between list and table is   *)
(* always explained.                                                       *)
(*                                                                         *)
(* DifferenceExplained speaks of an item with nothing to come, and says    *)
(* nothing of how the list came to be right.  What is inductive is that a  *)
(* list follows the feed: whatever is still to come of an item makes its   *)
(* entry right in the end.  The published list does so for the items that  *)
(* are not excused, and the answer of the load on its way for those that   *)
(* were not overtaken.                                                     *)
(***************************************************************************)
EXTENDS MobileStock, TLAPS

\* The parts of a feed q over a table r, and of a list over both.
LastOf(q, n) == \A m \in 1..Len(q) : m > n => q[m].id # q[n].id
Feed(q, r) ==
    \A n \in 1..Len(q) :
        /\ q[n].kind # "delete" => q[n].content \in Contents
        /\ r[q[n].id] # 0
        /\ LastOf(q, n) => r[q[n].id] = IF q[n].kind = "delete" THEN Gone ELSE q[n].content
        /\ \A m \in 1..Len(q) :
              m < n /\ q[m].id = q[n].id => q[n].kind # "insert" /\ q[m].kind # "delete"

Entry(r, i) == IF r[i] \in Contents THEN <<r[i]>> ELSE <<>>
Coming(q, i) == \E n \in 1..Len(q) : q[n].id = i
OnlyOne(q, n) == \A m \in 1..Len(q) : q[m].id = q[n].id => m = n
Follows(view, q, r, i) ==
    /\ ~Coming(q, i) => view[i] = Entry(r, i)
    /\ \A n \in 1..Len(q) : q[n].id = i /\ OnlyOne(q, n) /\ q[n].kind = "insert" =>
          view[i] \in {<<>>, <<q[n].content>>}
    /\ Coming(q, i) /\ view[i] = <<>> /\ Entry(r, i) # <<>> =>
          \E n \in 1..Len(q) : q[n].id = i /\ q[n].kind = "insert"

IInv ==
    /\ TypeOK
    /\ Feed(events, rows)
    /\ \A i \in Items \ excused : Follows(items, events, rows, i)
    /\ load.state = "read" => \A i \in Items \ overtaken : Follows(load.seen, events, rows, i)

-----------------------------------------------------------------------------
\* The indexes of a feed that got longer or shorter by one change.
LEMMA Appending ==
    ASSUME NEW q \in Seq(Event), NEW e \in Event
    PROVE  /\ Append(q, e) \in Seq(Event) /\ Len(Append(q, e)) = Len(q) + 1 /\ Len(q) \in Nat
           /\ Append(q, e)[Len(q) + 1] = e
           /\ \A n \in 1..Len(q) : Append(q, e)[n] = q[n] /\ q[n] \in Event
OBVIOUS

LEMMA Shortening ==
    ASSUME NEW q \in Seq(Event), q # <<>>
    PROVE  /\ Tail(q) \in Seq(Event) /\ Len(Tail(q)) = Len(q) - 1 /\ Len(q) \in Nat \ {0}
           /\ Head(q) = q[1] /\ Head(q) \in Event
           /\ \A n \in 1..(Len(q) - 1) : Tail(q)[n] = q[n + 1] /\ q[n + 1] \in Event
OBVIOUS

\* A change that is recorded keeps the feed in order, and a list that follows follows on.
LEMMA Recorded ==
    ASSUME NEW q \in Seq(Event), NEW r \in [Items -> 0..Gone], Feed(q, r),
           NEW e \in Event,
           e.kind = "insert" => r[e.id] = 0 /\ e.content \in Contents,
           e.kind = "update" => r[e.id] \in Contents /\ e.content \in Contents,
           e.kind = "delete" => r[e.id] \in Contents /\ e.content = Gone,
           NEW s, s = [r EXCEPT ![e.id] = e.content]
    PROVE  /\ Feed(Append(q, e), s)
           /\ \A view, i : i \in Items /\ Follows(view, q, r, i) => Follows(view, Append(q, e), s, i)
<1> DEFINE p == Append(q, e)
           k == Len(q) + 1
<1>1. /\ p \in Seq(Event) /\ Len(p) = k /\ p[k] = e /\ Len(q) \in Nat /\ k \in Nat
      /\ \A n \in 1..Len(q) : p[n] = q[n] /\ q[n] \in Event
  BY Appending
<1>2. /\ e.id \in Items /\ e.kind \in Kinds /\ e.content \in 1..Gone
      /\ \A n \in 1..Len(q) : q[n].id \in Items /\ q[n].kind \in Kinds /\ q[n].content \in 1..Gone
  BY <1>1 DEF Event
<1>3. Gone \notin Contents /\ Gone # 0 /\ 0 \notin Contents /\ Contents \subseteq 0..Gone /\ Gone \in Nat
  BY MobileStockConstants DEF Gone, Contents
<1>4. /\ s[e.id] = e.content
      /\ \A i \in Items : i # e.id => s[i] = r[i]
  BY <1>2
<1> HIDE DEF p, k
<1>5. ASSUME NEW n \in 1..Len(q), q[n].id # e.id
      PROVE  LastOf(p, n) <=> LastOf(q, n)
  <2>1. \A m \in 1..k : m # k => m \in 1..Len(q) /\ p[m] = q[m]
    BY <1>1 DEF k
  <2>2. \A m \in 1..Len(q) : m \in 1..k /\ p[m] = q[m]
    BY <1>1 DEF k
  <2>3. LastOf(p, n) <=> \A m \in 1..k : m > n => p[m].id # p[n].id
    BY <1>1 DEF LastOf
  <2>4. p[n] = q[n] /\ p[k].id # q[n].id
    BY <1>1, <1>5
  <2>5. QED
    BY <2>1, <2>2, <2>3, <2>4 DEF LastOf
<1>6. ASSUME NEW n \in 1..Len(q), q[n].id = e.id
      PROVE  ~LastOf(p, n)
  BY <1>1, <1>6 DEF LastOf, k
<1>7. ASSUME NEW n \in 1..Len(q), q[n].id = e.id
      PROVE  e.kind # "insert" /\ q[n].kind # "delete"
  <2>1. r[e.id] # 0
    BY <1>7 DEF Feed
  <2>2. e.kind # "insert"
    BY <2>1
  <2>3. r[e.id] \in Contents
    BY <2>2, <1>2 DEF Kinds
  <2>4. CASE LastOf(q, n)
    <3>1. r[e.id] = IF q[n].kind = "delete" THEN Gone ELSE q[n].content
      BY <1>7, <2>4 DEF Feed
    <3>2. QED
      BY <3>1, <2>2, <2>3, <1>3
  <2>5. CASE ~LastOf(q, n)
    <3>1. PICK m \in 1..Len(q) : m > n /\ q[m].id = q[n].id
      BY <2>5 DEF LastOf
    <3>2. q[n].kind # "delete"
      BY <3>1 DEF Feed
    <3>3. QED
      BY <3>2, <2>2
  <2>6. QED
    BY <2>4, <2>5
<1>8. Feed(p, s)
  <2> SUFFICES ASSUME NEW n \in 1..k
               PROVE  /\ p[n].kind # "delete" => p[n].content \in Contents
                      /\ s[p[n].id] # 0
                      /\ LastOf(p, n) => s[p[n].id] = IF p[n].kind = "delete" THEN Gone ELSE p[n].content
                      /\ \A m \in 1..k :
                            m < n /\ p[m].id = p[n].id => p[n].kind # "insert" /\ p[m].kind # "delete"
    BY <1>1 DEF Feed
  <2>1. CASE n = k
    <3>1. p[n] = e
      BY <2>1, <1>1
    <3>2. \A m \in 1..k : m < n => m \in 1..Len(q) /\ p[m] = q[m]
      BY <2>1, <1>1 DEF k
    <3>3. e.content # 0 /\ (e.kind # "delete" => e.content \in Contents)
      BY <1>2, <1>3 DEF Kinds
    <3>4. QED
      BY <3>1, <3>2, <3>3, <1>4, <1>7
  <2>2. CASE n # k
    <3>1. n \in 1..Len(q) /\ p[n] = q[n]
      BY <2>2, <1>1 DEF k
    <3>2. \A m \in 1..k : m < n => m \in 1..Len(q) /\ p[m] = q[m]
      BY <3>1, <1>1 DEF k
    <3>3. p[n].kind # "delete" => p[n].content \in Contents
      BY <3>1 DEF Feed
    <3>4. \A m \in 1..k : m < n /\ p[m].id = p[n].id => p[n].kind # "insert" /\ p[m].kind # "delete"
      BY <3>1, <3>2 DEF Feed
    <3>5. CASE q[n].id = e.id
      <4>1. ~LastOf(p, n) /\ s[p[n].id] # 0
        BY <3>1, <3>5, <1>6, <1>4, <1>2
      <4>2. QED
        BY <4>1, <3>3, <3>4
    <3>6. CASE q[n].id # e.id
      <4>1. s[p[n].id] = r[q[n].id] /\ (LastOf(p, n) <=> LastOf(q, n))
        BY <3>1, <3>6, <1>2, <1>4, <1>5
      <4>2. /\ s[p[n].id] # 0
            /\ LastOf(p, n) => s[p[n].id] = IF p[n].kind = "delete" THEN Gone ELSE p[n].content
        BY <4>1, <3>1 DEF Feed
      <4>3. QED
        BY <4>2, <3>3, <3>4
    <3>7. QED
      BY <3>5, <3>6
  <2>3. QED
    BY <2>1, <2>2
<1>9. ASSUME NEW view, NEW i \in Items, Follows(view, q, r, i)
      PROVE  Follows(view, p, s, i)
  <2>1. CASE i # e.id
    <3>1. Coming(p, i) <=> Coming(q, i)
      <4>1. \A m \in 1..k : m # k => m \in 1..Len(q) /\ p[m] = q[m]
        BY <1>1 DEF k
      <4>2. \A m \in 1..Len(q) : m \in 1..k /\ p[m] = q[m]
        BY <1>1 DEF k
      <4>3. Coming(p, i) <=> \E m \in 1..k : p[m].id = i
        BY <1>1 DEF Coming
      <4>4. p[k].id # i
        BY <1>1, <2>1
      <4>5. QED
        BY <4>1, <4>2, <4>3, <4>4 DEF Coming
    <3>2. Entry(s, i) = Entry(r, i)
      BY <2>1, <1>4 DEF Entry
    <3>3. ASSUME NEW n \in 1..k, p[n].id = i, OnlyOne(p, n), p[n].kind = "insert"
          PROVE  view[i] \in {<<>>, <<p[n].content>>}
      <4>1. n \in 1..Len(q) /\ p[n] = q[n]
        BY <3>3, <2>1, <1>1 DEF k
      <4>2. OnlyOne(q, n)
        BY <4>1, <3>3, <1>1 DEF OnlyOne, k
      <4>3. QED
        BY <4>1, <4>2, <3>3, <1>9 DEF Follows
    <3>4. (\E n \in 1..Len(q) : q[n].id = i /\ q[n].kind = "insert") =>
             \E n \in 1..k : p[n].id = i /\ p[n].kind = "insert"
      BY <1>1 DEF k
    <3>5. QED
      BY <3>1, <3>2, <3>3, <3>4, <1>9, <1>1 DEF Follows
  <2>2. CASE i = e.id
    <3>1. Coming(p, i)
      BY <2>2, <1>1 DEF Coming, k
    <3>2. ASSUME NEW n \in 1..k, p[n].id = i, OnlyOne(p, n)
          PROVE  n = k
      <4>1. k \in 1..Len(p) /\ p[k].id = p[n].id
        BY <3>2, <2>2, <1>1 DEF k
      <4>2. QED
        BY <4>1, <3>2 DEF OnlyOne
    <3>3. e.kind = "insert" => view[i] = <<>>
      <4> SUFFICES ASSUME e.kind = "insert"
                   PROVE  view[i] = <<>>
        OBVIOUS
      <4>1. ~Coming(q, i)
        BY <1>7, <2>2 DEF Coming
      <4>2. QED
        BY <4>1, <1>9, <2>2, <1>3 DEF Follows, Entry
    <3>4. ASSUME view[i] = <<>>, Entry(s, i) # <<>>
          PROVE  \E n \in 1..k : p[n].id = i /\ p[n].kind = "insert"
      <4>1. e.kind # "delete"
        BY <3>4, <2>2, <1>3, <1>4 DEF Entry
      <4>2. CASE e.kind = "insert"
        BY <4>2, <2>2, <1>1 DEF k
      <4>3. CASE e.kind = "update"
        <5>1. Entry(r, i) # <<>>
          BY <4>3, <2>2 DEF Entry
        <5>2. \E n \in 1..Len(q) : q[n].id = i /\ q[n].kind = "insert"
          BY <5>1, <3>4, <1>9 DEF Follows
        <5>3. QED
          BY <5>2, <1>1 DEF k
      <4>4. QED
        BY <4>1, <4>2, <4>3, <1>2 DEF Kinds
    <3>5. \A n \in 1..k : p[n].id = i /\ OnlyOne(p, n) /\ p[n].kind = "insert" =>
             view[i] \in {<<>>, <<p[n].content>>}
      BY <3>2, <3>3, <1>1
    <3>6. QED
      BY <3>1, <3>4, <3>5, <1>1 DEF Follows
  <2>3. QED
    BY <2>1, <2>2
<1>10. QED
  BY <1>8, <1>9 DEF p

\* A change that goes by leaves the feed in order, and what is said of the other items.
LEMMA GoneBy ==
    ASSUME NEW q \in Seq(Event), q # <<>>, NEW r, Feed(q, r)
    PROVE  /\ Feed(Tail(q), r)
           /\ \A view, i : i # Head(q).id /\ Follows(view, q, r, i) => Follows(view, Tail(q), r, i)
           /\ ~Coming(Tail(q), Head(q).id) => LastOf(q, 1) /\ OnlyOne(q, 1)
           /\ \A n \in 1..Len(Tail(q)) : Tail(q)[n].id = Head(q).id =>
                 Tail(q)[n].kind # "insert" /\ Head(q).kind # "delete"
<1> DEFINE p == Tail(q)
           k == Len(q) - 1
<1>1. /\ p \in Seq(Event) /\ Len(p) = k /\ Len(q) \in Nat \ {0} /\ k \in Nat /\ Head(q) = q[1]
      /\ \A n \in 1..k : p[n] = q[n + 1] /\ n + 1 \in 1..Len(q)
      /\ \A n \in 1..Len(q) : n # 1 => n - 1 \in 1..k /\ p[n - 1] = q[n]
      /\ 1 \in 1..Len(q)
  BY Shortening
<1> HIDE DEF p, k
<1>2. ASSUME NEW n \in 1..k
      PROVE  LastOf(p, n) <=> LastOf(q, n + 1)
  BY <1>1 DEF LastOf, k
<1>3. Feed(p, r)
  <2> SUFFICES ASSUME NEW n \in 1..k
               PROVE  /\ p[n].kind # "delete" => p[n].content \in Contents
                      /\ r[p[n].id] # 0
                      /\ LastOf(p, n) => r[p[n].id] = IF p[n].kind = "delete" THEN Gone ELSE p[n].content
                      /\ \A m \in 1..k :
                            m < n /\ p[m].id = p[n].id => p[n].kind # "insert" /\ p[m].kind # "delete"
    BY <1>1 DEF Feed
  <2>1. p[n] = q[n + 1] /\ n + 1 \in 1..Len(q)
    BY <1>1
  <2>2. /\ p[n].kind # "delete" => p[n].content \in Contents
        /\ r[p[n].id] # 0
        /\ LastOf(p, n) => r[p[n].id] = IF p[n].kind = "delete" THEN Gone ELSE p[n].content
    BY <2>1, <1>2 DEF Feed
  <2>3. \A m \in 1..k : m < n => m + 1 < n + 1 /\ m + 1 \in 1..Len(q) /\ p[m] = q[m + 1]
    BY <1>1
  <2>4. QED
    BY <2>1, <2>2, <2>3 DEF Feed
<1>4. ASSUME NEW view, NEW i, i # Head(q).id, Follows(view, q, r, i)
      PROVE  Follows(view, p, r, i)
  <2>1. Coming(p, i) <=> Coming(q, i)
    BY <1>1, <1>4 DEF Coming
  <2>2. ASSUME NEW n \in 1..k, p[n].id = i, OnlyOne(p, n), p[n].kind = "insert"
        PROVE  view[i] \in {<<>>, <<p[n].content>>}
    <3>1. n + 1 \in 1..Len(q) /\ p[n] = q[n + 1]
      BY <1>1
    <3>2. OnlyOne(q, n + 1)
      <4> SUFFICES ASSUME NEW m \in 1..Len(q), q[m].id = q[n + 1].id
                   PROVE  m = n + 1
        BY DEF OnlyOne
      <4>1. m # 1
        BY <1>1, <1>4, <2>2, <3>1
      <4>2. m - 1 \in 1..k /\ p[m - 1].id = p[n].id
        BY <4>1, <3>1, <1>1
      <4>3. m - 1 = n
        BY <4>2, <2>2, <1>1 DEF OnlyOne
      <4>4. QED
        BY <4>3
    <3>3. QED
      BY <3>1, <3>2, <2>2, <1>4 DEF Follows
  <2>3. (\E n \in 1..Len(q) : q[n].id = i /\ q[n].kind = "insert") =>
           \E n \in 1..k : p[n].id = i /\ p[n].kind = "insert"
    BY <1>1, <1>4
  <2>4. QED
    BY <2>1, <2>2, <2>3, <1>4, <1>1 DEF Follows
<1>5. ~Coming(p, Head(q).id) => LastOf(q, 1) /\ OnlyOne(q, 1)
  BY <1>1 DEF Coming, LastOf, OnlyOne
<1>6. ASSUME NEW n \in 1..k, p[n].id = Head(q).id
      PROVE  p[n].kind # "insert" /\ Head(q).kind # "delete"
  <2>1. n + 1 \in 1..Len(q) /\ p[n] = q[n + 1] /\ 1 < n + 1
    BY <1>1
  <2>2. QED
    BY <2>1, <1>1, <1>6 DEF Feed
<1>7. QED
  BY <1>1, <1>3, <1>4, <1>5, <1>6 DEF p

\* A list that hears of a change follows afterwards: at once where it takes it over, and
\* where it ignores it if it did before.
LEMMA Hearing ==
    ASSUME NEW q \in Seq(Event), q # <<>>, NEW r, Feed(q, r),
           NEW view, NEW view2, NEW i, i = Head(q).id,
           \/ Head(q).kind = "delete" /\ view2[i] = <<>>
           \/ Head(q).kind # "delete" /\ view2[i] = <<Head(q).content>>
           \/ Head(q).kind = "insert" /\ view[i] # <<>> /\ view2[i] = view[i] /\ Follows(view, q, r, i)
           \/ Head(q).kind = "update" /\ view[i] = <<>> /\ view2[i] = view[i] /\ Follows(view, q, r, i)
    PROVE  Follows(view2, Tail(q), r, i)
<1> DEFINE p == Tail(q)
           e == Head(q)
<1>1. e = q[1] /\ 1 \in 1..Len(q) /\ Coming(q, i)
  BY Shortening DEF Coming
<1>2. /\ ~Coming(p, i) => LastOf(q, 1) /\ OnlyOne(q, 1)
      /\ \A n \in 1..Len(p) : p[n].id = i => p[n].kind # "insert" /\ e.kind # "delete"
  BY GoneBy
<1> HIDE DEF p, e
<1>3. ASSUME ~Coming(p, i)
      PROVE  /\ r[i] = IF e.kind = "delete" THEN Gone ELSE e.content
             /\ e.kind # "delete" => r[i] \in Contents /\ Entry(r, i) = <<e.content>>
             /\ e.kind = "delete" => Entry(r, i) = <<>>
  <2>1. r[i] = IF e.kind = "delete" THEN Gone ELSE e.content
    BY <1>1, <1>2, <1>3 DEF Feed, e
  <2>2. e.kind # "delete" => e.content \in Contents
    BY <1>1 DEF Feed
  <2>3. Gone \notin Contents
    BY MobileStockConstants DEF Gone, Contents
  <2>4. QED
    BY <2>1, <2>2, <2>3 DEF Entry
<1>4. ~Coming(p, i) => view2[i] = Entry(r, i)
  <2> SUFFICES ASSUME ~Coming(p, i)
               PROVE  view2[i] = Entry(r, i)
    OBVIOUS
  <2>1. CASE e.kind = "delete" /\ view2[i] = <<>>
    BY <2>1, <1>3
  <2>2. CASE e.kind # "delete" /\ view2[i] = <<e.content>>
    BY <2>2, <1>3
  <2>3. CASE e.kind = "insert" /\ view[i] # <<>> /\ view2[i] = view[i] /\ Follows(view, q, r, i)
    <3>1. view[i] \in {<<>>, <<e.content>>}
      BY <2>3, <1>1, <1>2 DEF Follows, e
    <3>2. QED
      BY <3>1, <2>3, <1>3
  <2>4. CASE e.kind = "update" /\ view[i] = <<>> /\ view2[i] = view[i] /\ Follows(view, q, r, i)
    <3>1. Entry(r, i) # <<>>
      <4>1. Entry(r, i) = <<e.content>>
        BY <2>4, <1>3
      <4>2. QED
        BY <4>1
    <3>2. PICK n \in 1..Len(q) : q[n].id = i /\ q[n].kind = "insert"
      BY <3>1, <2>4, <1>1 DEF Follows
    <3>3. n = 1
      BY <3>2, <1>1, <1>2 DEF OnlyOne, e
    <3>4. QED
      BY <3>2, <3>3, <1>1, <2>4
  <2>5. QED
    BY <2>1, <2>2, <2>3, <2>4 DEF e
<1>5. ~(Coming(p, i) /\ view2[i] = <<>> /\ Entry(r, i) # <<>>)
  <2> SUFFICES ASSUME Coming(p, i), view2[i] = <<>>, Entry(r, i) # <<>>
               PROVE  FALSE
    OBVIOUS
  <2>1. e.kind # "delete"
    BY <1>2 DEF Coming
  <2>2. e.kind = "update" /\ view[i] = <<>> /\ Follows(view, q, r, i)
    BY <2>1 DEF e
  <2>3. PICK n \in 1..Len(q) : q[n].id = i /\ q[n].kind = "insert"
    BY <2>2, <1>1 DEF Follows
  <2>4. n # 1
    BY <2>2, <2>3, <1>1
  <2>5. 1 < n
    BY <2>4, Shortening
  <2>6. QED
    BY <2>3, <2>5, <1>1 DEF Feed, e
<1>6. QED
  BY <1>2, <1>4, <1>5 DEF Follows, p

-----------------------------------------------------------------------------
LEMMA Follow == \* the names of the module and of these proofs agree
    /\ \A i \in Items : Table[i] = Entry(rows, i)
    /\ \A i : ToCome(i) <=> Coming(events, i)
BY DEF Table, Entry, Present, ToCome, Coming

\* A table follows a feed that is in order.
LEMMA TableFollows ==
    ASSUME TypeOK, Feed(events, rows), NEW i \in Items
    PROVE  Follows(Table, events, rows, i)
<1>1. Table[i] = Entry(rows, i)
  BY Follow
<1>2. ASSUME NEW n \in 1..Len(events), events[n].id = i, OnlyOne(events, n),
             events[n].kind = "insert"
      PROVE  Table[i] \in {<<>>, <<events[n].content>>}
  <2>1. LastOf(events, n)
    BY <1>2 DEF OnlyOne, LastOf, TypeOK
  <2>2. rows[i] = events[n].content
    BY <2>1, <1>2 DEF Feed
  <2>3. QED
    BY <1>1, <2>2 DEF Entry
<1>3. QED
  BY <1>1, <1>2 DEF Follows

LEMMA InitInv == Init => IInv
<1> SUFFICES ASSUME Init
             PROVE  IInv
  OBVIOUS
<1>1. events = <<>> /\ excused = Items /\ load.state = "asked"
  BY DEF Init
<1>2. TypeOK
  <2>1. rows \in [Items -> 0..Gone] /\ changes \in 1..MaxChanges
    BY MobileStockConstants DEF Init, Gone
  <2>2. Nothing \in [Items -> Entries]
    BY DEF Nothing, Entries
  <2>3. events \in Seq(Event) /\ calls \in Seq(Call) /\ Len(calls) = 0
    BY DEF Init
  <2>4. QED
    BY <2>1, <2>2, <2>3, MobileStockConstants DEF Init, TypeOK
<1>3. Feed(events, rows)
  BY <1>1 DEF Feed
<1>4. QED
  BY <1>1, <1>2, <1>3 DEF IInv

\* What a change of the table does, whoever makes it.
LEMMA ChangeInv ==
    ASSUME IInv, NEW i \in Items, NEW kind \in Kinds, Change(i, kind),
           kind = "insert" => rows[i] = 0, kind # "insert" => Present(i)
    PROVE  /\ rows' \in [Items -> 0..Gone] /\ changes' \in 1..MaxChanges /\ events' \in Seq(Event)
           /\ Feed(events, rows)'
           /\ \A j \in Items \ excused : Follows(items, events', rows', j)
           /\ load.state = "read" => \A j \in Items \ overtaken : Follows(load.seen, events', rows', j)
<1> DEFINE c == IF kind = "delete" THEN Gone ELSE changes + 1
           e == [id |-> i, kind |-> kind, content |-> c]
<1>1. /\ changes \in 1..MaxChanges /\ changes < MaxChanges /\ rows \in [Items -> 0..Gone]
      /\ events \in Seq(Event) /\ MaxChanges \in Nat
  BY MobileStockConstants DEF IInv, TypeOK, Change
<1>2. c \in 1..Gone /\ (kind # "delete" => c \in Contents) /\ (kind = "delete" => c = Gone)
  BY <1>1 DEF Gone, Contents
<1> HIDE DEF c
<1>3. rows' = [rows EXCEPT ![i] = c] /\ events' = Append(events, e) /\ changes' = changes + 1
  <2>1. rows' = [rows EXCEPT ![i] = c]
    BY DEF Change, c
  <2>2. rows'[i] = c
    BY <2>1, <1>1
  <2>3. QED
    BY <2>1, <2>2 DEF Change
<1>4. e \in Event /\ e.id = i /\ e.kind = kind /\ e.content = c
  BY <1>2 DEF Event
<1> HIDE DEF e
<1>5. rows' \in [Items -> 0..Gone] /\ changes' \in 1..MaxChanges /\ events' \in Seq(Event)
  <2>1. c \in 0..Gone
    BY <1>2
  <2>2. QED
    BY <1>1, <1>3, <1>4, <2>1, Appending
<1>6. /\ e.kind = "insert" => rows[e.id] = 0 /\ e.content \in Contents
      /\ e.kind = "update" => rows[e.id] \in Contents /\ e.content \in Contents
      /\ e.kind = "delete" => rows[e.id] \in Contents /\ e.content = Gone
  BY <1>2, <1>4 DEF Present
<1>7. /\ Feed(events', rows')
      /\ \A view, j : j \in Items /\ Follows(view, events, rows, j) => Follows(view, events', rows', j)
  <2>1. rows' = [rows EXCEPT ![e.id] = e.content] /\ Feed(events, rows)
    BY <1>3, <1>4 DEF IInv
  <2>2. QED
    BY <2>1, <1>1, <1>3, <1>4, <1>6, Recorded
<1>8. Feed(events, rows)'
  BY <1>7 DEF Feed, LastOf
<1>9. QED
  BY <1>5, <1>7, <1>8 DEF IInv

LEMMA ChangeStep ==
    ASSUME IInv, NEW i \in Items, NEW kind \in Kinds, Change(i, kind),
           kind = "insert" => rows[i] = 0, kind # "insert" => Present(i),
           \/ UNCHANGED issue
           \/ /\ UNCHANGED sheet /\ calls' \in Seq(Call) /\ Len(calls') <= MaxCalls
    PROVE  IInv'
<1>1. UNCHANGED <<published, channel, items, load, loads, overtaken, excused>>
  BY DEF Change, list, excuses
<1>2. TypeOK'
  BY <1>1, ChangeInv DEF IInv, TypeOK, issue
<1>3. QED
  BY <1>1, <1>2, ChangeInv DEF IInv

\* The same, for the steps that touch neither table nor feed.
LEMMA StillFollows ==
    ASSUME IInv, UNCHANGED <<database, events, items, load, excuses>>, TypeOK'
    PROVE  IInv'
BY DEF IInv, database, excuses, Feed, LastOf, Follows, Coming, OnlyOne, Entry

\* A change that goes by, heard or not.
LEMMA GoesByInv ==
    ASSUME IInv, events # <<>>, GoesBy(Head(events)),
           items' \in [Items -> Entries], excused' \in SUBSET Items,
           \A i \in Items : i # Head(events).id => items'[i] = items[i] /\ (i \in excused' <=> i \in excused),
           Head(events).id \notin excused' => Follows(items', Tail(events), rows, Head(events).id)
    PROVE  IInv'
<1> DEFINE e == Head(events)
<1>1. /\ events' = Tail(events) /\ UNCHANGED <<rows, load>>
      /\ overtaken' = IF load.state = "read" THEN overtaken \cup {e.id} ELSE overtaken
  BY DEF GoesBy, database
<1>2. events \in Seq(Event) /\ e \in Event /\ e.id \in Items /\ Tail(events) \in Seq(Event)
  BY Shortening DEF IInv, TypeOK, Event
<1>3. TypeOK'
  BY <1>1, <1>2 DEF IInv, TypeOK, GoesBy, database, issue
<1>4. /\ Feed(Tail(events), rows)
      /\ \A view, i : i # e.id /\ Follows(view, events, rows, i) => Follows(view, Tail(events), rows, i)
  BY <1>2, GoneBy DEF IInv
<1>5. ASSUME NEW i \in Items \ excused'
      PROVE  Follows(items', Tail(events), rows, i)
  <2>1. CASE i = e.id
    BY <2>1, <1>5
  <2>2. CASE i # e.id
    <3>1. Follows(items, Tail(events), rows, i)
      BY <2>2, <1>4, <1>5 DEF IInv
    <3>2. items'[i] = items[i]
      BY <2>2, <1>5
    <3>3. QED
      BY <3>1, <3>2 DEF Follows
  <2>3. QED
    BY <2>1, <2>2
<1>6. ASSUME load.state = "read", NEW i \in Items \ overtaken'
      PROVE  Follows(load.seen, Tail(events), rows, i)
  BY <1>1, <1>4, <1>6 DEF IInv
<1> HIDE DEF e
<1>7. Feed(events, rows)'
  BY <1>1, <1>4 DEF Feed, LastOf
<1>8. QED
  BY <1>1, <1>3, <1>5, <1>6, <1>7 DEF IInv

LEMMA HeardInv == IInv /\ Receive => IInv'
<1> SUFFICES ASSUME IInv, Receive
             PROVE  IInv'
  OBVIOUS
<1> DEFINE e == Head(events)
           heard == e.kind = "delete" \/ (e.kind = "update" <=> Listed(e.id))
<1>1. /\ events # <<>> /\ items' = Patched(e) /\ GoesBy(e)
      /\ excused' = IF heard THEN excused \ {e.id} ELSE excused
  BY DEF Receive
<1>2. /\ events \in Seq(Event) /\ events # <<>> /\ e \in Event /\ Feed(events, rows)
      /\ items \in [Items -> Entries] /\ excused \subseteq Items
  BY <1>1, Shortening DEF IInv, TypeOK
<1>3. e.id \in Items /\ e.kind \in Kinds /\ (e.kind # "delete" => e.content \in Contents)
  <2>1. e = events[1] /\ 1 \in 1..Len(events)
    BY <1>2, Shortening
  <2>2. QED
    BY <2>1, <1>2 DEF Event, Feed
<1> HIDE DEF e
<1>4. items[e.id] = <<>> \/ \E c \in Contents : items[e.id] = <<c>>
  BY <1>2, <1>3 DEF Entries
<1>5. /\ e.kind = "update" /\ Listed(e.id) => items' = [items EXCEPT ![e.id][1] = e.content]
      /\ e.kind = "insert" /\ ~Listed(e.id) => items' = [items EXCEPT ![e.id] = <<e.content>>]
      /\ e.kind = "delete" => items' = [items EXCEPT ![e.id] = <<>>]
      /\ e.kind = "update" /\ ~Listed(e.id) => items' = items
      /\ e.kind = "insert" /\ Listed(e.id) => items' = items
  BY <1>1 DEF Patched
<1>6. e.kind = "update" /\ Listed(e.id) => items' = [items EXCEPT ![e.id] = <<e.content>>]
  <2> SUFFICES ASSUME e.kind = "update", Listed(e.id)
               PROVE  items' = [items EXCEPT ![e.id] = <<e.content>>]
    OBVIOUS
  <2>1. PICK c \in Contents : items[e.id] = <<c>>
    BY <1>4 DEF Listed
  <2>2. [items[e.id] EXCEPT ![1] = e.content] = <<e.content>>
    BY <2>1
  <2>3. items' = [items EXCEPT ![e.id] = [items[e.id] EXCEPT ![1] = e.content]]
    BY <1>5
  <2>4. QED
    BY <2>2, <2>3
<1>7. /\ items' \in [Items -> Entries]
      /\ \A i \in Items : i # e.id => items'[i] = items[i]
      /\ heard /\ e.kind = "delete" => items'[e.id] = <<>>
      /\ heard /\ e.kind # "delete" => items'[e.id] = <<e.content>>
      /\ ~heard => items'[e.id] = items[e.id]
  <2>1. CASE heard /\ e.kind = "delete"
    <3>1. items' = [items EXCEPT ![e.id] = <<>>] /\ <<>> \in Entries
      BY <2>1, <1>5 DEF Entries
    <3>2. QED
      BY <3>1, <2>1, <1>2, <1>3
  <2>2. CASE heard /\ e.kind # "delete"
    <3>1. items' = [items EXCEPT ![e.id] = <<e.content>>]
      BY <2>2, <1>3, <1>5, <1>6 DEF Kinds
    <3>2. <<e.content>> \in Entries
      BY <2>2, <1>3 DEF Entries
    <3>3. QED
      BY <3>1, <3>2, <2>2, <1>2, <1>3
  <2>3. CASE ~heard
    <3>1. items' = items
      BY <2>3, <1>3, <1>5 DEF Kinds
    <3>2. QED
      BY <3>1, <2>3, <1>2
  <2>4. QED
    BY <2>1, <2>2, <2>3
<1>8. /\ excused' \in SUBSET Items
      /\ \A i \in Items : i # e.id => (i \in excused' <=> i \in excused)
  BY <1>1, <1>2
<1>9. e.id \notin excused' => Follows(items', Tail(events), rows, e.id)
  <2>1. CASE heard
    BY <2>1, <1>2, <1>7, Hearing DEF e
  <2>2. CASE ~heard
    <3> SUFFICES ASSUME e.id \notin excused
                 PROVE  Follows(items', Tail(events), rows, e.id)
      BY <2>2, <1>1
    <3>1. Follows(items, events, rows, e.id)
      BY <1>3 DEF IInv
    <3>2. \/ e.kind = "insert" /\ items[e.id] # <<>>
          \/ e.kind = "update" /\ items[e.id] = <<>>
      BY <2>2, <1>3 DEF Listed, Kinds
    <3>3. items'[e.id] = items[e.id]
      BY <2>2, <1>7
    <3>4. QED
      BY <3>1, <3>2, <3>3, <1>2, Hearing DEF e
  <2>3. QED
    BY <2>1, <2>2
<1>10. QED
  BY <1>1, <1>7, <1>8, <1>9, GoesByInv DEF e

\* A call that is settled or answered.
LEMMA CallTypes ==
    ASSUME calls \in Seq(Call), NEW n \in 1..Len(calls)
    PROVE  /\ calls[n].item \in Items
           /\ [calls EXCEPT ![n].settled = TRUE] \in Seq(Call)
           /\ Len([calls EXCEPT ![n].settled = TRUE]) = Len(calls)
           /\ [calls EXCEPT ![n].waiting = FALSE] \in Seq(Call)
           /\ Len([calls EXCEPT ![n].waiting = FALSE]) = Len(calls)
<1>1. calls[n] \in Call
  OBVIOUS
<1>2. ASSUME NEW c \in Call
      PROVE  [calls EXCEPT ![n] = c] \in Seq(Call) /\ Len([calls EXCEPT ![n] = c]) = Len(calls)
  OBVIOUS
<1>3. /\ [calls[n] EXCEPT !.settled = TRUE] \in Call /\ [calls[n] EXCEPT !.waiting = FALSE] \in Call
      /\ calls[n].item \in Items
  BY <1>1 DEF Call
<1>4. /\ [calls EXCEPT ![n].settled = TRUE] = [calls EXCEPT ![n] = [calls[n] EXCEPT !.settled = TRUE]]
      /\ [calls EXCEPT ![n].waiting = FALSE] = [calls EXCEPT ![n] = [calls[n] EXCEPT !.waiting = FALSE]]
  OBVIOUS
<1>5. QED
  BY <1>2, <1>3, <1>4

LEMMA NextInv == IInv /\ [Next]_vars => IInv'
<1> SUFFICES ASSUME IInv, [Next]_vars
             PROVE  IInv'
  OBVIOUS
<1>1. ASSUME NEW i \in Items, Create(i)
      PROVE  IInv'
  BY <1>1, ChangeStep DEF Create, Kinds
<1>2. ASSUME NEW i \in Items, Update(i)
      PROVE  IInv'
  BY <1>2, ChangeStep DEF Update, Kinds
<1>3. ASSUME NEW i \in Items, Delete(i)
      PROVE  IInv'
  BY <1>3, ChangeStep DEF Delete, Kinds
<1>4. ASSUME NEW i \in Items, Select(i)
      PROVE  IInv'
  <2>1. items[i][1] \in Contents
    BY <1>4 DEF IInv, TypeOK, Select, Listed, Entries
  <2>2. sheet' \in [item : Items, shown : Contents, request : 0..MaxCalls]
    BY <1>4, <2>1, MobileStockConstants DEF Select
  <2>3. TypeOK'
    BY <1>4, <2>2 DEF IInv, TypeOK, Select, database, feed, list, excuses
  <2>4. QED
    BY <1>4, <2>3, StillFollows DEF Select, feed, list
<1>5. CASE Connect
  <2>1. TypeOK'
    BY <1>5 DEF IInv, TypeOK, Connect, database, list, issue, excuses
  <2>2. QED
    BY <1>5, <2>1, StillFollows DEF Connect, list
<1>6. CASE Disconnect
  <2>1. TypeOK'
    BY <1>6 DEF IInv, TypeOK, Disconnect, database, list, issue, excuses
  <2>2. QED
    BY <1>6, <2>1, StillFollows DEF Disconnect, list
<1>7. CASE Receive
  BY <1>7, HeardInv
<1>8. CASE Lose
  <2>1. /\ events # <<>> /\ items' = items /\ GoesBy(Head(events))
        /\ excused' = excused \cup {Head(events).id}
    BY <1>8 DEF Lose
  <2>2. Head(events).id \in Items
    BY <2>1, Shortening DEF IInv, TypeOK, Event
  <2>3. items' \in [Items -> Entries] /\ excused' \in SUBSET Items
    BY <2>1, <2>2 DEF IInv, TypeOK
  <2>4. QED
    BY <2>1, <2>3, GoesByInv
<1>9. CASE Refresh
  <2>1. TypeOK'
    BY <1>9 DEF IInv, TypeOK, Refresh, Nothing, Entries, database, feed, issue, excuses
  <2>2. load'.state # "read"
    BY <1>9 DEF Refresh
  <2>3. UNCHANGED <<items, events, rows, excused>>
    BY <1>9 DEF Refresh, database, feed, excuses
  <2>4. QED
    BY <2>1, <2>2, <2>3 DEF IInv, Feed, LastOf
<1>10. CASE Read
  <2>1. Table \in [Items -> Entries]
    BY DEF Table, Present, Entries
  <2>2. TypeOK'
    BY <1>10, <2>1 DEF IInv, TypeOK, Read, database, feed, issue
  <2>3. load'.seen = Table /\ UNCHANGED <<items, events, rows, excused>>
    BY <1>10 DEF Read, database, feed
  <2>4. \A i \in Items : Follows(load'.seen, events, rows, i)
    BY <2>3, TableFollows DEF IInv
  <2>5. QED
    BY <2>2, <2>3, <2>4 DEF IInv, Feed, LastOf
<1>11. CASE Arrive
  <2>1. TypeOK'
    BY <1>11 DEF IInv, TypeOK, Arrive, Nothing, Entries, database, feed, issue
  <2>2. /\ load.state = "read" /\ items' = load.seen /\ excused' = overtaken
        /\ load'.state # "read" /\ UNCHANGED <<events, rows>>
    BY <1>11 DEF Arrive, database, feed
  <2>3. QED
    BY <2>1, <2>2 DEF IInv, Feed, LastOf
<1>12. CASE LoadFails
  <2>1. TypeOK'
    BY <1>12 DEF IInv, TypeOK, LoadFails, Nothing, Entries, database, feed, issue
  <2>2. load'.state # "read" /\ UNCHANGED <<items, events, rows, excused>>
    BY <1>12 DEF LoadFails, database, feed
  <2>3. QED
    BY <2>1, <2>2 DEF IInv, Feed, LastOf
<1>13. CASE Dismiss
  <2>1. TypeOK'
    BY <1>13 DEF IInv, TypeOK, Dismiss, database, feed, list, excuses
  <2>2. QED
    BY <1>13, <2>1, StillFollows DEF Dismiss, feed, list
<1>14. CASE Confirm
  <2>1. /\ sheet \in [item : Items, shown : Contents, request : 0..MaxCalls]
        /\ calls \in Seq(Call) /\ Len(calls) < MaxCalls
    BY <1>14 DEF IInv, TypeOK, Confirm
  <2>2. calls' \in Seq(Call) /\ Len(calls') = Len(calls) + 1 /\ Len(calls) \in Nat
    BY <1>14, <2>1 DEF Confirm, Call
  <2>3. Len(calls') \in 0..MaxCalls
    BY <2>1, <2>2, MobileStockConstants
  <2>4. sheet' \in [item : Items, shown : Contents, request : 0..MaxCalls]
    BY <1>14, <2>1, <2>3 DEF Confirm
  <2>5. TypeOK'
    BY <1>14, <2>2, <2>3, <2>4 DEF IInv, TypeOK, Confirm, database, feed, list, excuses
  <2>6. QED
    BY <1>14, <2>5, StillFollows DEF Confirm, feed, list
<1>15. ASSUME NEW n \in 1..Len(calls), Perform(n)
       PROVE  IInv'
  <2>1. /\ calls \in Seq(Call) /\ Len(calls) <= MaxCalls
        /\ calls' = [calls EXCEPT ![n].settled = TRUE] /\ UNCHANGED sheet
    BY <1>15 DEF IInv, TypeOK, Perform
  <2>2. calls' \in Seq(Call) /\ Len(calls') <= MaxCalls /\ calls[n].item \in Items
    BY <2>1, CallTypes
  <2>3. CASE Present(calls[n].item) /\ Change(calls[n].item, "update")
    BY <2>1, <2>2, <2>3, ChangeStep DEF Kinds
  <2>4. CASE UNCHANGED <<database, feed, list, excuses>>
    <3>1. TypeOK'
      BY <2>1, <2>2, <2>4 DEF IInv, TypeOK, database, feed, list, excuses
    <3>2. QED
      BY <3>1, <2>4, StillFollows DEF feed, list
  <2>5. QED
    BY <1>15, <2>3, <2>4 DEF Perform
<1>16. ASSUME NEW n \in 1..Len(calls), Answer(n)
       PROVE  IInv'
  <2>1. /\ calls \in Seq(Call) /\ Len(calls) <= MaxCalls
        /\ calls' = [calls EXCEPT ![n].waiting = FALSE]
    BY <1>16 DEF IInv, TypeOK, Answer
  <2>2. calls' \in Seq(Call) /\ Len(calls') <= MaxCalls
    BY <2>1, CallTypes
  <2>3. sheet' \in [item : Items, shown : Contents, request : 0..MaxCalls] \cup {NoSheet}
    <3>1. sheet' = sheet \/ (sheet # NoSheet /\ sheet' = [sheet EXCEPT !.request = 0])
      BY <1>16 DEF Answer
    <3>2. 0 \in 0..MaxCalls
      BY MobileStockConstants
    <3>3. QED
      BY <3>1, <3>2 DEF IInv, TypeOK
  <2>4. TypeOK'
    BY <1>16, <2>2, <2>3 DEF IInv, TypeOK, Answer, database, feed, list, excuses
  <2>5. QED
    BY <1>16, <2>4, StillFollows DEF Answer, feed, list
<1>17. CASE UNCHANGED vars
  <2>1. TypeOK'
    BY <1>17 DEF IInv, TypeOK, vars, database, feed, list, issue, excuses
  <2>2. QED
    BY <1>17, <2>1, StillFollows DEF vars, feed, list
<1>18. QED
  BY <1>1, <1>2, <1>3, <1>4, <1>5, <1>6, <1>7, <1>8, <1>9, <1>10, <1>11, <1>12, <1>13, <1>14,
     <1>15, <1>16, <1>17 DEF Next

-----------------------------------------------------------------------------
\* What is still to come of an item makes its entry right, but for the excused.
THEOREM ListFollowsFeed == Spec => []IInv
<1>1. QED
  BY InitInv, NextInv, PTL DEF Spec

\* The variables keep their types; no item is in the list twice (applyChange, fetchItems).
THEOREM TypeCorrect == Spec => []TypeOK
<1>1. IInv => TypeOK
  BY DEF IInv
<1>2. QED
  BY <1>1, ListFollowsFeed, PTL

\* For any number of items, changes, loads and lost connections, the list differs from the
\* table only where a change is still to come or was missed (applyChange, fetchItems).
THEOREM DifferencesAreExplained == Spec => []DifferenceExplained
<1>1. IInv => DifferenceExplained
  BY Follow DEF IInv, Follows, DifferenceExplained
<1>2. QED
  BY <1>1, ListFollowsFeed, PTL
=============================================================================
