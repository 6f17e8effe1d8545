--------------------------- MODULE HashTableProofs ---------------------------
(***************************************************************************)
(* Theorems about HashTable, for any items, keys, hash values, ranks and   *)
(* numbers of buckets: links, buckets and counters agree after any         *)
(* sequence of calls, and users see the list of items of OrderedItems.     *)
(***************************************************************************)
EXTENDS HashTable, SequenceLemmas

-----------------------------------------------------------------------------
(* Links *)

\* The links forth lead along s, and out of it at its end.
Leads(hh, forth, s) ==
    /\ s \in Seq(Item) /\ Injective(s)
    /\ \A n \in 1..Len(s) : hh[s[n]][forth] = IF n = Len(s) THEN NULL ELSE s[n + 1]

Start(s) == IF s = <<>> THEN NULL ELSE s[1]

\* What is at each step of a walk.
Steps(f, hh, link, start) ==
    f = [n \in 0..Cardinality(Item) |->
            IF n = 0 THEN start ELSE IF f[n - 1] = NULL THEN NULL ELSE hh[f[n - 1]][link]]

\* The items that a walk finds at its steps.
Found(f) == [n \in 1..Cardinality({m \in 0..Cardinality(Item) : f[m] # NULL}) |-> f[n - 1]]

LEMMA WalkDefined ==
    ASSUME NEW hh, NEW link, NEW start
    PROVE  \E f : Steps(f, hh, link, start) /\ Walk(hh, link, start) = Found(f)
<1>1. PICK l : l = Cardinality(Item)
  OBVIOUS
<1>2. l \in Nat
  BY <1>1, HashAssumption, FS_CardinalityType
<1>3. PICK T : T = {k \in Nat : \E f : f = [n \in 0..k |->
                       IF n = 0 THEN start ELSE IF f[n - 1] = NULL THEN NULL ELSE hh[f[n - 1]][link]]}
  OBVIOUS
<1>4. 0 \in T
  <2>1. PICK f : f = [n \in 0..0 |-> start]
    OBVIOUS
  <2>2. f = [n \in 0..0 |->
                IF n = 0 THEN start ELSE IF f[n - 1] = NULL THEN NULL ELSE hh[f[n - 1]][link]]
    BY <2>1
  <2>3. QED
    BY <1>3, <2>2
<1>5. \A k \in Nat : k \in T => k + 1 \in T
  <2> SUFFICES ASSUME NEW k \in Nat, k \in T PROVE k + 1 \in T
    OBVIOUS
  <2>1. PICK f : f = [n \in 0..k |->
                IF n = 0 THEN start ELSE IF f[n - 1] = NULL THEN NULL ELSE hh[f[n - 1]][link]]
    BY <1>3
  <2>2. PICK g : g = [n \in 0..(k + 1) |->
                IF n = 0 THEN start ELSE IF f[n - 1] = NULL THEN NULL ELSE hh[f[n - 1]][link]]
    OBVIOUS
  <2>3. \A n \in 0..k : g[n] = f[n]
    <3>1. \A n \in 0..k :
             f[n] = IF n = 0 THEN start ELSE IF f[n - 1] = NULL THEN NULL ELSE hh[f[n - 1]][link]
      BY <2>1, Zenon
    <3>2. \A n \in 0..(k + 1) :
             g[n] = IF n = 0 THEN start ELSE IF f[n - 1] = NULL THEN NULL ELSE hh[f[n - 1]][link]
      BY <2>2, Zenon
    <3>3. \A n \in 0..k : n \in 0..(k + 1)
      OBVIOUS
    <3>4. QED
      BY <3>1, <3>2, <3>3, Zenon
  <2>4. \A n \in 0..(k + 1) : n # 0 => g[n - 1] = f[n - 1]
    BY <2>3
  <2>5. g = [n \in 0..(k + 1) |->
                IF n = 0 THEN start ELSE IF g[n - 1] = NULL THEN NULL ELSE hh[g[n - 1]][link]]
    BY <2>2, <2>4
  <2>6. k + 1 \in Nat
    OBVIOUS
  <2>7. QED
    BY <1>3, <2>5, <2>6, Zenon
<1>6. l \in T
  BY <1>2, <1>4, <1>5, Induction
<1> DEFINE at == CHOOSE f : f = [n \in 0..Cardinality(Item) |->
                     IF n = 0 THEN start ELSE IF f[n - 1] = NULL THEN NULL ELSE hh[f[n - 1]][link]]
<1>8. Steps(at, hh, link, start)
  BY <1>1, <1>3, <1>6, Zenon DEF Steps
<1>9. Walk(hh, link, start) = Found(at)
  BY DEF Walk, Found
<1> HIDE DEF at
<1>10. QED
  BY <1>8, <1>9

\* A walk that starts at the first of a sequence that the links lead along is that sequence.
LEMMA WalkLeads ==
    ASSUME NEW hh, NEW link, NEW s, Leads(hh, link, s), NEW start, start = Start(s)
    PROVE  Walk(hh, link, start) = s
<1>1. PICK l : l = Len(s)
  OBVIOUS
<1>2. PICK N : N = Cardinality(Item)
  OBVIOUS
<1>3. /\ l \in Nat /\ N \in Nat /\ l =< N /\ s \in Seq(Item)
      /\ \A n \in 1..l : s[n] \in Item /\ s[n] # NULL
      /\ \A n \in 1..l : hh[s[n]][link] = IF n = l THEN NULL ELSE s[n + 1]
  BY <1>1, <1>2, InjectiveBound, HashAssumption DEF Leads
<1>4. PICK f : Steps(f, hh, link, start) /\ Walk(hh, link, start) = Found(f)
  BY WalkDefined, Zenon
<1>5. \A n \in 0..N :
         f[n] = IF n = 0 THEN start ELSE IF f[n - 1] = NULL THEN NULL ELSE hh[f[n - 1]][link]
  BY <1>2, <1>4, Zenon DEF Steps
<1>6. PICK T : T = {n \in Nat : f[n] = IF n < l THEN s[n + 1] ELSE NULL}
  OBVIOUS
<1>7. \A n \in 0..N : n \in T
  <2>1. 0 \in T
    <3>1. s = <<>> <=> l = 0
      BY <1>1, <1>3
    <3>2. f[0] = start
      BY <1>3, <1>5
    <3>3. QED
      BY <1>3, <1>6, <3>1, <3>2 DEF Start
  <2>2. \A k \in 0..(N - 1) : k \in T => k + 1 \in T
    <3> SUFFICES ASSUME NEW k \in 0..(N - 1), k \in T PROVE k + 1 \in T
      OBVIOUS
    <3>1. k \in Nat /\ k + 1 \in 0..N /\ k + 1 # 0 /\ (k + 1) - 1 = k /\ k + 1 \in Nat
      BY <1>3
    <3>2. f[k + 1] = IF f[k] = NULL THEN NULL ELSE hh[f[k]][link]
      BY <1>5, <3>1
    <3>3. CASE k < l
      <4>1. k + 1 \in 1..l /\ f[k] = s[k + 1]
        BY <1>3, <1>6, <3>1, <3>3
      <4>2. f[k + 1] = IF k + 1 = l THEN NULL ELSE s[(k + 1) + 1]
        BY <1>3, <3>2, <4>1
      <4>3. QED
        BY <1>3, <1>6, <3>1, <3>3, <4>2
    <3>4. CASE ~(k < l)
      BY <1>3, <1>6, <3>1, <3>2, <3>4
    <3>5. QED
      BY <3>3, <3>4
  <2>3. N \in Nat
    BY <1>3
  <2>4. QED
    BY <2>1, <2>2, <2>3, InductionTo
<1>8. Cardinality({m \in 0..N : f[m] # NULL}) = l
  <2>1. \A m \in 0..N : f[m] # NULL <=> m < l
    BY <1>3, <1>6, <1>7
  <2>2. {m \in 0..N : f[m] # NULL} = 0..(l - 1)
    BY <1>3, <2>1
  <2>3. 0 \in Int /\ l - 1 \in Int
    BY <1>3
  <2>4. Cardinality(0..(l - 1)) = IF 0 > l - 1 THEN 0 ELSE (l - 1) - 0 + 1
    BY <2>3, FS_Interval, Zenon
  <2>5. Cardinality(0..(l - 1)) = l
    BY <1>3, <2>4
  <2>6. QED
    BY <2>2, <2>5, Zenon
<1>9. \A n \in 1..l : f[n - 1] = s[n]
  BY <1>3, <1>6, <1>7
<1>10. Walk(hh, link, start) = [n \in 1..l |-> s[n]]
  BY <1>2, <1>4, <1>8, <1>9 DEF Found
<1>11. QED
  BY <1>1, <1>3, <1>10

-----------------------------------------------------------------------------
(* Doubly linked items *)

Linked(hh, back, forth, s) ==
    /\ s \in Seq(Item) /\ Injective(s)
    /\ \A n \in 1..Len(s) : hh[s[n]] \in Handle
    /\ \A n \in 1..Len(s) : hh[s[n]][back] = IF n = 1 THEN NULL ELSE s[n - 1]
    /\ \A n \in 1..Len(s) : hh[s[n]][forth] = IF n = Len(s) THEN NULL ELSE s[n + 1]

LEMMA LinkedWalk ==
    ASSUME NEW hh, NEW back, NEW forth, NEW s, Linked(hh, back, forth, s)
    PROVE  Walk(hh, forth, Start(s)) = s
<1>1. Leads(hh, forth, s)
  BY DEF Linked, Leads
<1>2. QED
  BY <1>1, WalkLeads

\* Other items and other links may change.
LEMMA LinkedFrame ==
    ASSUME NEW hh, NEW back, NEW forth, NEW s, Linked(hh, back, forth, s), NEW g,
           \A n \in 1..Len(s) : /\ g[s[n]] \in Handle
                                /\ g[s[n]][back] = hh[s[n]][back]
                                /\ g[s[n]][forth] = hh[s[n]][forth]
    PROVE  Linked(g, back, forth, s)
  BY DEF Linked

\* An item comes in at the place d.
LEMMA LinkedInsert ==
    ASSUME NEW hh, NEW back, NEW forth, NEW s, Linked(hh, back, forth, s),
           NEW d \in 1..(Len(s) + 1), NEW x \in Item, ~Has(s, x), NEW g,
           \A n \in 1..Len(s) :
               /\ g[s[n]] \in Handle
               /\ g[s[n]][back] = IF n = d THEN x ELSE hh[s[n]][back]
               /\ g[s[n]][forth] = IF n = d - 1 THEN x ELSE hh[s[n]][forth],
           g[x] \in Handle,
           g[x][back] = IF d = 1 THEN NULL ELSE s[d - 1],
           g[x][forth] = IF d = Len(s) + 1 THEN NULL ELSE s[d]
    PROVE  Linked(g, back, forth, Inserted(s, d, x))
<1>1. PICK t : t = Inserted(s, d, x)
  OBVIOUS
<1>2. PICK l : l = Len(s)
  OBVIOUS
<1>3. l \in Nat /\ s \in Seq(Item) /\ Injective(s) /\ d \in 1..(l + 1)
  BY <1>2 DEF Linked
<1>4. /\ t \in Seq(Item) /\ Len(t) = l + 1 /\ Injective(t)
      /\ \A n \in 1..(l + 1) : t[n] = IF n < d THEN s[n] ELSE IF n = d THEN x ELSE s[n - 1]
  <2>1. t \in Seq(Item) /\ Len(t) = Len(s) + 1 /\ Injective(t)
    BY <1>1, <1>3, InsertedSeq
  <2>2. QED
    BY <1>1, <1>2, <1>3, <2>1 DEF Inserted
<1>5. /\ \A n \in 1..l : hh[s[n]][back] = IF n = 1 THEN NULL ELSE s[n - 1]
      /\ \A n \in 1..l : hh[s[n]][forth] = IF n = l THEN NULL ELSE s[n + 1]
  BY <1>2 DEF Linked
<1>6. ASSUME NEW n \in 1..(l + 1)
      PROVE  /\ g[t[n]] \in Handle
             /\ g[t[n]][back] = IF n = 1 THEN NULL ELSE t[n - 1]
             /\ g[t[n]][forth] = IF n = l + 1 THEN NULL ELSE t[n + 1]
  <2>1. CASE n < d
    <3>1. n \in 1..l /\ t[n] = s[n]
      BY <1>3, <1>4, <2>1
    <3>2. n # 1 => t[n - 1] = s[n - 1]
      BY <1>3, <1>4, <2>1
    <3>3. t[n + 1] = IF n = d - 1 THEN x ELSE s[n + 1]
      BY <1>3, <1>4, <2>1, <3>1
    <3>4. g[s[n]] \in Handle /\ g[s[n]][back] = IF n = 1 THEN NULL ELSE s[n - 1]
      BY <1>2, <1>5, <2>1, <3>1
    <3>5. g[s[n]][forth] = IF n = d - 1 THEN x ELSE IF n = l THEN NULL ELSE s[n + 1]
      BY <1>2, <1>5, <3>1
    <3>6. n # l + 1 /\ (n = l => n = d - 1)
      BY <1>3, <2>1
    <3>7. QED
      BY <3>1, <3>2, <3>3, <3>4, <3>5, <3>6
  <2>2. CASE n = d
    <3>1. t[n] = x /\ (n # 1 => t[n - 1] = s[n - 1]) /\ (n # l + 1 => t[n + 1] = s[n])
      BY <1>3, <1>4, <2>2
    <3>2. QED
      BY <1>2, <2>2, <3>1
  <2>3. CASE n > d
    <3>1. n - 1 \in 1..l /\ t[n] = s[n - 1] /\ n # 1
      BY <1>3, <1>4, <2>3
    <3>2. t[n - 1] = IF n - 1 = d THEN x ELSE s[(n - 1) - 1]
      BY <1>3, <1>4, <2>3
    <3>3. n # l + 1 => t[n + 1] = s[(n - 1) + 1]
      BY <1>3, <1>4, <2>3
    <3>4. g[s[n - 1]] \in Handle
          /\ g[s[n - 1]][back] = IF n - 1 = d THEN x ELSE hh[s[n - 1]][back]
      BY <1>2, <3>1
    <3>5. g[s[n - 1]][forth] = hh[s[n - 1]][forth]
      BY <1>2, <1>3, <2>3, <3>1
    <3>6. hh[s[n - 1]][back] = IF n - 1 = 1 THEN NULL ELSE s[(n - 1) - 1]
      BY <1>5, <3>1
    <3>7. hh[s[n - 1]][forth] = IF n - 1 = l THEN NULL ELSE s[(n - 1) + 1]
      BY <1>5, <3>1
    <3>8. n - 1 = l <=> n = l + 1
      BY <1>3
    <3>9. n - 1 # d => n - 1 # 1
      BY <1>3, <2>3
    <3>10. g[s[n - 1]][back] = t[n - 1]
      BY <3>2, <3>4, <3>6, <3>9
    <3>11. g[s[n - 1]][forth] = IF n = l + 1 THEN NULL ELSE t[n + 1]
      BY <3>3, <3>5, <3>7, <3>8
    <3>12. QED
      BY <3>1, <3>4, <3>10, <3>11
  <2>4. QED
    BY <1>3, <2>1, <2>2, <2>3
<1>7. QED
  BY <1>1, <1>4, <1>6 DEF Linked

\* The item at the place d goes, its neighbours become neighbours.
LEMMA LinkedDrop ==
    ASSUME NEW hh, NEW back, NEW forth, NEW s, Linked(hh, back, forth, s),
           NEW d \in 1..Len(s), NEW g,
           \A n \in 1..Len(s) :
               n # d => /\ g[s[n]] \in Handle
                        /\ g[s[n]][back] = IF n = d + 1 THEN hh[s[d]][back] ELSE hh[s[n]][back]
                        /\ g[s[n]][forth] = IF n = d - 1 THEN hh[s[d]][forth] ELSE hh[s[n]][forth]
    PROVE  Linked(g, back, forth, Dropped(s, d))
<1>1. PICK t : t = Dropped(s, d)
  OBVIOUS
<1>2. PICK l : l = Len(s)
  OBVIOUS
<1>3. l \in Nat /\ s \in Seq(Item) /\ Injective(s) /\ d \in 1..l
  BY <1>2 DEF Linked
<1>4. /\ t \in Seq(Item) /\ Len(t) = l - 1 /\ Injective(t)
      /\ \A n \in 1..(l - 1) : t[n] = IF n < d THEN s[n] ELSE s[n + 1]
  BY <1>1, <1>2, <1>3, DroppedSeq
<1>5. /\ \A n \in 1..l : hh[s[n]][back] = IF n = 1 THEN NULL ELSE s[n - 1]
      /\ \A n \in 1..l : hh[s[n]][forth] = IF n = l THEN NULL ELSE s[n + 1]
  BY <1>2 DEF Linked
<1>6. ASSUME NEW n \in 1..(l - 1)
      PROVE  /\ g[t[n]] \in Handle
             /\ g[t[n]][back] = IF n = 1 THEN NULL ELSE t[n - 1]
             /\ g[t[n]][forth] = IF n = l - 1 THEN NULL ELSE t[n + 1]
  <2>1. CASE n < d
    <3>1. n \in 1..l /\ n # d /\ n # d + 1 /\ t[n] = s[n]
      BY <1>3, <1>4, <2>1
    <3>2. n # 1 => t[n - 1] = s[n - 1]
      BY <1>3, <1>4, <2>1
    <3>3. g[s[n]] \in Handle /\ g[s[n]][back] = IF n = 1 THEN NULL ELSE s[n - 1]
      BY <1>2, <1>5, <3>1
    <3>4. g[s[n]][forth] = IF n = d - 1 THEN hh[s[d]][forth] ELSE hh[s[n]][forth]
      BY <1>2, <3>1
    <3>5. g[s[n]][forth] = IF n = l - 1 THEN NULL ELSE t[n + 1]
      <4>1. CASE n = d - 1
        <5>1. hh[s[d]][forth] = IF d = l THEN NULL ELSE s[d + 1]
          BY <1>3, <1>5
        <5>2. (n = l - 1 <=> d = l) /\ (n # l - 1 => t[n + 1] = s[d + 1])
          BY <1>3, <1>4, <4>1
        <5>3. QED
          BY <3>4, <4>1, <5>1, <5>2
      <4>2. CASE n # d - 1
        <5>1. n # l /\ n # l - 1 /\ t[n + 1] = s[n + 1]
          BY <1>3, <1>4, <2>1, <4>2
        <5>2. hh[s[n]][forth] = s[n + 1]
          BY <1>5, <3>1, <5>1
        <5>3. QED
          BY <3>4, <4>2, <5>1, <5>2
      <4>3. QED
        BY <4>1, <4>2
    <3>6. QED
      BY <3>1, <3>2, <3>3, <3>5
  <2>2. CASE ~(n < d)
    <3>1. n + 1 \in 1..l /\ n + 1 # d /\ n + 1 # d - 1 /\ t[n] = s[n + 1]
      BY <1>3, <1>4, <2>2
    <3>2. /\ g[s[n + 1]] \in Handle
          /\ g[s[n + 1]][back] = IF n + 1 = d + 1 THEN hh[s[d]][back] ELSE hh[s[n + 1]][back]
          /\ g[s[n + 1]][forth] = hh[s[n + 1]][forth]
      BY <1>2, <3>1
    <3>3. hh[s[n + 1]][forth] = IF n + 1 = l THEN NULL ELSE s[(n + 1) + 1]
      BY <1>5, <3>1
    <3>4. n # l - 1 => t[n + 1] = s[(n + 1) + 1]
      <4>1. n # l - 1 => n + 1 \in 1..(l - 1) /\ ~(n + 1 < d)
        BY <1>3, <2>2
      <4>2. QED
        BY <1>4, <4>1
    <3>5. g[s[n + 1]][forth] = IF n = l - 1 THEN NULL ELSE t[n + 1]
      BY <1>3, <3>2, <3>3, <3>4
    <3>6. g[s[n + 1]][back] = IF n = 1 THEN NULL ELSE t[n - 1]
      <4>1. CASE n = d
        <5>1. hh[s[d]][back] = IF d = 1 THEN NULL ELSE s[d - 1]
          BY <1>3, <1>5
        <5>2. n # 1 => t[n - 1] = s[d - 1]
          BY <1>3, <1>4, <4>1
        <5>3. QED
          BY <3>2, <4>1, <5>1, <5>2
      <4>2. CASE n # d
        <5>1. n # 1 /\ n + 1 # d + 1 /\ n + 1 # 1 /\ (n + 1) - 1 = n
          BY <1>3, <2>2, <4>2
        <5>2. t[n - 1] = s[n]
          BY <1>3, <1>4, <2>2, <4>2
        <5>3. hh[s[n + 1]][back] = s[n]
          BY <1>5, <3>1, <5>1
        <5>4. QED
          BY <3>2, <5>1, <5>2, <5>3
      <4>3. QED
        BY <4>1, <4>2
    <3>7. QED
      BY <3>1, <3>2, <3>5, <3>6
  <2>3. QED
    BY <2>1, <2>2
<1>7. QED
  BY <1>1, <1>4, <1>6 DEF Linked

-----------------------------------------------------------------------------
(* The inductive invariant *)

Bucket == [hh_head : Ref, count : Nat, expand_mult : Nat]

\* The bucket B has the chain c.
Filled(hh, B, c) ==
    Linked(hh, "hh_prev", "hh_next", c) /\ B.hh_head = Start(c) /\ B.count = Len(c)

\* The items of S lie in the n buckets as their hash values say.
BucketsOK(hh, buckets, n, S) ==
    /\ S \subseteq Item /\ buckets \in [0..(n - 1) -> Bucket]
    /\ \A b \in 0..(n - 1) : \E c :
           Filled(hh, buckets[b], c) /\ \A i : Has(c, i) <=> i \in S /\ BucketOf(i, n) = b

TableOK(t) ==
    /\ DOMAIN t = {"num_buckets", "buckets", "num_items", "tail", "ideal_chain_maxlen",
                   "nonideal_items", "ineff_expands", "noexpand"}
    /\ t.num_buckets \in Nat \ {0} /\ t.num_items \in Nat /\ t.ideal_chain_maxlen \in Nat
    /\ t.nonideal_items \in Nat /\ t.ineff_expands \in Nat /\ t.noexpand \in BOOLEAN

Short(B, ideal) ==
    \/ B.count < (B.expand_mult + 1) * HASH_BKT_CAPACITY_THRESH
    \/ B.count =< (B.expand_mult + 1) * ideal

Bounded(t) ==
    \/ t.noexpand
    \/ \A b \in 0..(t.num_buckets - 1) : Short(t.buckets[b], t.ideal_chain_maxlen)

HashOK(x) == DOMAIN x = {"head", "tbl", "hh"} /\ x.hh \in [Item -> {Freed} \union Handle]

\* A hash that lists o, has the items of S in its buckets and counts n.
Lists(x, o, S, n) ==
    /\ HashOK(x) /\ Linked(x.hh, "prev", "next", o) /\ o # <<>>
    /\ x.head = Start(o)
    /\ TableOK(x.tbl) /\ x.tbl.tail = o[Len(o)] /\ x.tbl.num_items = n
    /\ BucketsOK(x.hh, x.tbl.buckets, x.tbl.num_buckets, S)
    /\ Bounded(x.tbl)

\* A hash between two calls: its items are those of o.
Full(x, o) == \E S : Lists(x, o, S, Len(o)) /\ \A i : i \in S <=> Has(o, i)

Empty(x) == HashOK(x) /\ x.head = NULL /\ x.tbl = NULL

\* Only the items of the hash have not been freed.
Owned(x, o) == \A i \in Item : x.hh[i] # Freed <=> Has(o, i)

Holds(x, o) == ((o = <<>> /\ Empty(x)) \/ Full(x, o)) /\ Owned(x, o)

HashInv == \E o : Holds(h, o)

\* What a HASH_ITER loop remembers is in the hash, next to the item the loop is at.
IterInv ==
    /\ el \in Ref /\ tmp \in Ref
    /\ el # NULL => /\ tmp # NULL => h.hh[tmp] # Freed
                    /\ h.hh[el] # Freed => h.hh[el].next = tmp

Inv == HashInv /\ IterInv

-----------------------------------------------------------------------------
(* Buckets *)

LEMMA BucketRange ==
    ASSUME NEW i \in Item, NEW n \in Nat \ {0}
    PROVE  BucketOf(i, n) \in 0..(n - 1)
  BY HashAssumption DEF BucketOf, HASH_TO_BKT

\* From hh to g nothing changes but links in the buckets, and those only of items of S.
SameList(g, hh, S) ==
    \A j \in Item :
        /\ j \notin S => g[j] = hh[j]
        /\ g[j] = Freed <=> hh[j] = Freed
        /\ hh[j] \in Handle => g[j] \in Handle /\ g[j].prev = hh[j].prev /\ g[j].next = hh[j].next

LEMMA SameListTrans ==
    ASSUME NEW g, NEW g2, NEW hh, NEW S, NEW T, SameList(g, hh, S), SameList(g2, g, T), S \subseteq T
    PROVE  SameList(g2, hh, T)
  BY DEF SameList

LEMMA SameListLinked ==
    ASSUME NEW g, NEW hh, NEW S, SameList(g, hh, S), NEW o, Linked(hh, "prev", "next", o)
    PROVE  Linked(g, "prev", "next", o)
<1>1. \A n \in 1..Len(o) : o[n] \in Item
  BY DEF Linked
<1>2. \A n \in 1..Len(o) : /\ g[o[n]] \in Handle
                           /\ g[o[n]]["prev"] = hh[o[n]]["prev"]
                           /\ g[o[n]]["next"] = hh[o[n]]["next"]
  BY <1>1 DEF Linked, SameList
<1>3. QED
  BY <1>2, LinkedFrame

\* The item i has gone from t to the bucket b in u.
Pushed(u, t, n, S, i, b) ==
    /\ DOMAIN u = DOMAIN t /\ \A f \in DOMAIN t \ {"buckets", "hh"} : u[f] = t[f]
    /\ u.hh \in [Item -> {Freed} \union Handle]
    /\ SameList(u.hh, t.hh, S \union {i})
    /\ BucketsOK(u.hh, u.buckets, n, S \union {i})
    /\ \A c \in 0..(n - 1) :
           /\ u.buckets[c].expand_mult = t.buckets[c].expand_mult
           /\ u.buckets[c].count = t.buckets[c].count + IF c = b THEN 1 ELSE 0

LEMMA PushOK ==
    ASSUME NEW t, {"buckets", "hh"} \subseteq DOMAIN t, t.hh \in [Item -> {Freed} \union Handle],
           NEW n \in Nat \ {0}, NEW S, BucketsOK(t.hh, t.buckets, n, S),
           NEW i \in Item, i \notin S, t.hh[i] \in Handle,
           NEW b, b = BucketOf(i, n), NEW u, u = Push(t, b, i)
    PROVE  Pushed(u, t, n, S, i, b)
<1>1. PICK first : first = t.buckets[b].hh_head
  OBVIOUS
<1>2. PICK hh : hh = t.hh
  OBVIOUS
<1>3. PICK g : g = [[hh EXCEPT ![i].hh_prev = NULL, ![i].hh_next = first] EXCEPT
                       ![first].hh_prev = i]
  OBVIOUS
<1>4. PICK g1 : g1 = [hh EXCEPT ![i].hh_prev = NULL, ![i].hh_next = first]
  OBVIOUS
<1>5. u = [t EXCEPT !.hh = IF first = NULL THEN g1 ELSE g,
                    !.buckets[b].hh_head = i, !.buckets[b].count = @ + 1]
  BY <1>1, <1>2, <1>3, <1>4 DEF Push
<1>6. b \in 0..(n - 1) /\ hh \in [Item -> {Freed} \union Handle] /\ hh[i] \in Handle
      /\ t.buckets \in [0..(n - 1) -> Bucket]
  BY <1>2, BucketRange DEF BucketsOK
<1>7. PICK c : Filled(hh, t.buckets[b], c) /\ \A j : Has(c, j) <=> j \in S /\ BucketOf(j, n) = b
  BY <1>2, <1>6 DEF BucketsOK
<1>8. /\ Linked(hh, "hh_prev", "hh_next", c) /\ c \in Seq(Item) /\ Injective(c)
      /\ first = Start(c) /\ t.buckets[b].count = Len(c) /\ ~Has(c, i)
      /\ \A m \in 1..Len(c) : hh[c[m]] \in Handle /\ c[m] \in Item
      /\ \A m \in 1..Len(c) : c[m] \in S /\ BucketOf(c[m], n) = b /\ c[m] # i
  <2>1. Linked(hh, "hh_prev", "hh_next", c) /\ first = Start(c) /\ t.buckets[b].count = Len(c)
    BY <1>1, <1>7 DEF Filled
  <2>2. /\ c \in Seq(Item) /\ Injective(c)
        /\ \A m \in 1..Len(c) : hh[c[m]] \in Handle /\ c[m] \in Item
    BY <2>1 DEF Linked
  <2>3. \A m \in 1..Len(c) : Has(c, c[m])
    BY DEF Has
  <2>4. \A m \in 1..Len(c) : c[m] \in S /\ BucketOf(c[m], n) = b /\ c[m] # i
    BY <1>7, <2>3
  <2>5. ~Has(c, i)
    BY <1>7
  <2>6. QED
    BY <2>1, <2>2, <2>4, <2>5
<1>9. first # NULL => first \in Item /\ first \in S /\ first # i /\ hh[first] \in Handle
                      /\ BucketOf(first, n) = b /\ c # <<>> /\ first = c[1]
  BY <1>8 DEF Start
<1>10. first \in Ref
  BY <1>9 DEF Ref
<1>11. PICK new : new = u.hh
  OBVIOUS
<1>12. /\ new \in [Item -> {Freed} \union Handle]
       /\ new[i] \in Handle /\ new[i].hh_prev = NULL /\ new[i].hh_next = first
       /\ new[i].prev = hh[i].prev /\ new[i].next = hh[i].next
       /\ \A j \in Item : j # i /\ j # first => new[j] = hh[j]
       /\ first # NULL => /\ new[first] \in Handle /\ new[first].hh_prev = i
                          /\ new[first].hh_next = hh[first].hh_next
                          /\ new[first].prev = hh[first].prev /\ new[first].next = hh[first].next
  <2>1. /\ g1 \in [Item -> {Freed} \union Handle]
        /\ g1[i] = [hh[i] EXCEPT !.hh_prev = NULL, !.hh_next = first]
        /\ \A j \in Item : j # i => g1[j] = hh[j]
    <3>1. [hh[i] EXCEPT !.hh_prev = NULL, !.hh_next = first] \in Handle
      BY <1>6, <1>10 DEF Handle, Ref
    <3>2. QED
      BY <1>4, <1>6, <3>1
  <2>2. g1[i] \in Handle /\ g1[i].hh_prev = NULL /\ g1[i].hh_next = first
        /\ g1[i].prev = hh[i].prev /\ g1[i].next = hh[i].next
    BY <1>6, <1>10, <2>1 DEF Handle, Ref
  <2>3. CASE first = NULL
    <3>1. new = g1
      BY <1>5, <1>11, <2>3
    <3>2. QED
      BY <2>1, <2>2, <2>3, <3>1
  <2>4. CASE first # NULL
    <3>1. new = [g1 EXCEPT ![first].hh_prev = i]
      BY <1>3, <1>4, <1>5, <1>11, <2>4
    <3>2. first \in Item /\ first # i /\ g1[first] = hh[first] /\ hh[first] \in Handle
      BY <1>9, <2>1, <2>4
    <3>3. [hh[first] EXCEPT !.hh_prev = i] \in Handle
      BY <3>2 DEF Handle, Ref
    <3>4. /\ new \in [Item -> {Freed} \union Handle]
          /\ new[first] = [hh[first] EXCEPT !.hh_prev = i]
          /\ \A j \in Item : j # first => new[j] = g1[j]
      BY <2>1, <3>1, <3>2, <3>3
    <3>5. /\ new[first] \in Handle /\ new[first].hh_prev = i
          /\ new[first].hh_next = hh[first].hh_next
          /\ new[first].prev = hh[first].prev /\ new[first].next = hh[first].next
      BY <3>2, <3>3, <3>4 DEF Handle
    <3>6. QED
      BY <2>1, <2>2, <3>2, <3>4, <3>5
  <2>5. QED
    BY <2>3, <2>4
<1>13. /\ DOMAIN u = DOMAIN t /\ \A f \in DOMAIN t \ {"buckets", "hh"} : u[f] = t[f]
       /\ u.buckets = [t.buckets EXCEPT ![b].hh_head = i, ![b].count = @ + 1]
  BY <1>5
<1>14. PICK B : B = t.buckets[b]
  OBVIOUS
<1>15. B \in Bucket /\ B.count \in Nat
  BY <1>6, <1>14 DEF Bucket
<1>16. PICK B2 : B2 = [[B EXCEPT !.hh_head = i] EXCEPT !.count = B.count + 1]
  OBVIOUS
<1>17. B2 \in Bucket /\ B2.hh_head = i /\ B2.count = B.count + 1 /\ B2.expand_mult = B.expand_mult
  <2>1. B.count + 1 \in Nat /\ i \in Ref
    BY <1>15 DEF Ref
  <2>2. QED
    BY <1>15, <1>16, <2>1 DEF Bucket
<1>18. /\ u.buckets \in [0..(n - 1) -> Bucket] /\ u.buckets[b] = B2
       /\ \A a \in 0..(n - 1) : a # b => u.buckets[a] = t.buckets[a]
  <2>1. PICK v : v = [t.buckets EXCEPT ![b].hh_head = i]
    OBVIOUS
  <2>2. /\ v[b] = [B EXCEPT !.hh_head = i] /\ DOMAIN v = 0..(n - 1)
        /\ \A a \in 0..(n - 1) : a # b => v[a] = t.buckets[a]
    BY <1>6, <1>14, <2>1
  <2>3. v[b].count = B.count
    BY <1>15, <2>2 DEF Bucket
  <2>4. u.buckets = [v EXCEPT ![b].count = @ + 1]
    BY <1>13, <2>1
  <2>5. u.buckets[b] = B2
    BY <1>6, <1>16, <2>2, <2>3, <2>4
  <2>6. /\ DOMAIN u.buckets = 0..(n - 1)
        /\ \A a \in 0..(n - 1) : a # b => u.buckets[a] = t.buckets[a]
    BY <1>6, <2>2, <2>4
  <2>7. u.buckets = [a \in 0..(n - 1) |-> u.buckets[a]]
    BY <2>2, <2>4
  <2>8. \A a \in 0..(n - 1) : u.buckets[a] \in Bucket
    BY <1>6, <1>17, <2>5, <2>6
  <2>9. QED
    BY <2>5, <2>6, <2>7, <2>8
<1>19. SameList(new, hh, S \union {i})
  BY <1>6, <1>9, <1>12, HashAssumption DEF SameList
<1>20. ASSUME NEW a \in 0..(n - 1)
       PROVE  \E e : Filled(new, u.buckets[a], e)
                     /\ \A j : Has(e, j) <=> j \in S \union {i} /\ BucketOf(j, n) = a
  <2>1. CASE a = b
    <3>1. PICK e : e = Inserted(c, 1, i)
      OBVIOUS
    <3>2. e \in Seq(Item) /\ Len(e) = Len(c) + 1 /\ \A j : Has(e, j) <=> Has(c, j) \/ j = i
      BY <1>8, <3>1, InsertedSeq
    <3>3. e # <<>> /\ e[1] = i
      BY <1>8, <3>1, <3>2 DEF Inserted
    <3>4. \A m \in 1..Len(c) :
             /\ new[c[m]] \in Handle
             /\ new[c[m]]["hh_prev"] = IF m = 1 THEN i ELSE hh[c[m]]["hh_prev"]
             /\ new[c[m]]["hh_next"] = IF m = 1 - 1 THEN i ELSE hh[c[m]]["hh_next"]
      <4> SUFFICES ASSUME NEW m \in 1..Len(c)
                   PROVE  /\ new[c[m]] \in Handle
                          /\ new[c[m]]["hh_prev"] = IF m = 1 THEN i ELSE hh[c[m]]["hh_prev"]
                          /\ new[c[m]]["hh_next"] = hh[c[m]]["hh_next"]
        OBVIOUS
      <4>1. first # NULL /\ (m = 1 <=> c[m] = first)
        <5>1. c # <<>> /\ 1 \in 1..Len(c)
          BY <1>8
        <5>2. first = c[1] /\ c[1] \in Item
          BY <1>8, <5>1 DEF Start
        <5>3. QED
          BY <1>8, <5>1, <5>2, HashAssumption DEF Injective
      <4>2. QED
        BY <1>8, <1>12, <4>1
    <3>5. 1 \in 1..(Len(c) + 1) /\ new[i]["hh_prev"] = IF 1 = 1 THEN NULL ELSE c[1 - 1]
      BY <1>8, <1>12
    <3>6. new[i]["hh_next"] = IF 1 = Len(c) + 1 THEN NULL ELSE c[1]
      BY <1>8, <1>12 DEF Start
    <3>7. Linked(new, "hh_prev", "hh_next", e)
      BY <1>8, <1>12, <3>1, <3>4, <3>5, <3>6, LinkedInsert
    <3>8. Filled(new, u.buckets[a], e)
      BY <1>8, <1>14, <1>17, <1>18, <2>1, <3>2, <3>3, <3>7 DEF Filled, Start
    <3>9. \A j : Has(e, j) <=> j \in S \union {i} /\ BucketOf(j, n) = a
      BY <1>7, <2>1, <3>2
    <3>10. QED
      BY <3>8, <3>9
  <2>2. CASE a # b
    <3>1. PICK e : Filled(hh, t.buckets[a], e) /\ \A j : Has(e, j) <=> j \in S /\ BucketOf(j, n) = a
      BY <1>2 DEF BucketsOK
    <3>2. \A m \in 1..Len(e) : e[m] \in Item /\ e[m] \in S /\ BucketOf(e[m], n) = a
      BY <3>1 DEF Filled, Linked, Has
    <3>3. \A m \in 1..Len(e) : e[m] # i /\ (first = NULL \/ e[m] # first)
      BY <1>9, <2>2, <3>2
    <3>4. \A m \in 1..Len(e) : new[e[m]] = hh[e[m]]
      BY <1>12, <3>2, <3>3, HashAssumption
    <3>5. Linked(hh, "hh_prev", "hh_next", e)
      BY <3>1 DEF Filled
    <3>6. \A m \in 1..Len(e) : hh[e[m]] \in Handle
      BY <3>5 DEF Linked
    <3>7. Linked(new, "hh_prev", "hh_next", e)
      BY <3>4, <3>5, <3>6, LinkedFrame
    <3>8. Filled(new, u.buckets[a], e)
      BY <1>18, <2>2, <3>1, <3>7 DEF Filled
    <3>9. \A j : Has(e, j) <=> j \in S \union {i} /\ BucketOf(j, n) = a
      BY <2>2, <3>1
    <3>10. QED
      BY <3>8, <3>9
  <2>3. QED
    BY <2>1, <2>2
<1>21. BucketsOK(u.hh, u.buckets, n, S \union {i})
  <2>1. S \union {i} \subseteq Item
    BY DEF BucketsOK
  <2>2. QED
    BY <1>11, <1>18, <1>20, <2>1 DEF BucketsOK
<1>22. \A a \in 0..(n - 1) :
          /\ u.buckets[a].expand_mult = t.buckets[a].expand_mult
          /\ u.buckets[a].count = t.buckets[a].count + IF a = b THEN 1 ELSE 0
  <2> TAKE a \in 0..(n - 1)
  <2>1. CASE a = b
    BY <1>14, <1>17, <1>18, <2>1
  <2>2. CASE a # b
    <3>1. t.buckets[a].count \in Nat
      BY <1>6 DEF Bucket
    <3>2. QED
      BY <1>18, <2>2, <3>1
  <2>3. QED
    BY <2>1, <2>2
<1>23. QED
  BY <1>2, <1>11, <1>12, <1>13, <1>19, <1>21, <1>22 DEF Pushed

LEMMA Multiple ==
    ASSUME NEW m \in Nat, NEW k \in Nat
    PROVE  (m + 1) * k = m * k + k /\ m * k \in Nat /\ (m + 1) * k \in Nat
  OBVIOUS

\* Only the heads and the counts of buckets matter to their chains.
LEMMA BucketsFrame ==
    ASSUME NEW hh, NEW buckets, NEW n, NEW S, BucketsOK(hh, buckets, n, S),
           NEW v \in [0..(n - 1) -> Bucket],
           \A b \in 0..(n - 1) : v[b].hh_head = buckets[b].hh_head /\ v[b].count = buckets[b].count
    PROVE  BucketsOK(hh, v, n, S)
<1>1. ASSUME NEW b \in 0..(n - 1)
      PROVE  \E c : Filled(hh, v[b], c) /\ \A i : Has(c, i) <=> i \in S /\ BucketOf(i, n) = b
  <2>1. PICK c : Filled(hh, buckets[b], c) /\ \A i : Has(c, i) <=> i \in S /\ BucketOf(i, n) = b
    BY DEF BucketsOK
  <2>2. Filled(hh, v[b], c)
    BY <2>1 DEF Filled
  <2>3. QED
    BY <2>1, <2>2
<1>2. QED
  BY <1>1 DEF BucketsOK

-----------------------------------------------------------------------------
(* Expansion *)

\* The items of S have been moved to n new buckets, none beyond a multiple of the ideal.
Spread(t, hh, n, S, X, ideal) ==
    /\ DOMAIN t = {"buckets", "hh", "nonideal"} /\ t.nonideal \in Nat
    /\ t.hh \in [Item -> {Freed} \union Handle] /\ SameList(t.hh, hh, X)
    /\ BucketsOK(t.hh, t.buckets, n, S)
    /\ \A b \in 0..(n - 1) : t.buckets[b].count =< (t.buckets[b].expand_mult + 1) * ideal

LEMMA MoveOK ==
    ASSUME NEW hh, NEW n \in Nat \ {0}, NEW S, NEW X, NEW ideal \in Nat \ {0},
           NEW t, Spread(t, hh, n, S, X, ideal),
           NEW i \in Item, i \notin S, t.hh[i] \in Handle, S \union {i} \subseteq X,
           NEW b, b = BucketOf(i, n), NEW u, u = Move(t, b, i, ideal)
    PROVE  Spread(u, hh, n, S \union {i}, X, ideal)
<1>1. PICK p : p = Push(t, b, i)
  OBVIOUS
<1>2. /\ {"buckets", "hh"} \subseteq DOMAIN t /\ t.hh \in [Item -> {Freed} \union Handle]
      /\ BucketsOK(t.hh, t.buckets, n, S)
  BY DEF Spread
<1>3. /\ DOMAIN p = DOMAIN t /\ \A f \in DOMAIN t \ {"buckets", "hh"} : p[f] = t[f]
      /\ p.hh \in [Item -> {Freed} \union Handle]
      /\ SameList(p.hh, t.hh, S \union {i})
      /\ BucketsOK(p.hh, p.buckets, n, S \union {i})
      /\ \A c \in 0..(n - 1) :
             /\ p.buckets[c].expand_mult = t.buckets[c].expand_mult
             /\ p.buckets[c].count = t.buckets[c].count + IF c = b THEN 1 ELSE 0
  <2>1. Pushed(p, t, n, S, i, b)
    BY <1>1, <1>2, PushOK
  <2>2. QED
    BY <2>1 DEF Pushed
<1>4. DOMAIN p = {"buckets", "hh", "nonideal"} /\ p.nonideal = t.nonideal /\ p.nonideal \in Nat
  BY <1>3 DEF Spread
<1>5. SameList(p.hh, hh, X)
  BY <1>3 DEF Spread, SameList
<1>6. b \in 0..(n - 1) /\ t.buckets \in [0..(n - 1) -> Bucket] /\ p.buckets \in [0..(n - 1) -> Bucket]
  BY <1>3, BucketRange DEF BucketsOK, Spread
<1>7. PICK B : B = p.buckets[b]
  OBVIOUS
<1>8. /\ B \in Bucket /\ B.count \in Nat /\ B.expand_mult \in Nat
      /\ B.count =< (B.expand_mult + 1) * ideal + 1
  <2>1. B \in Bucket /\ t.buckets[b] \in Bucket
    BY <1>6, <1>7
  <2>2. t.buckets[b].count =< (t.buckets[b].expand_mult + 1) * ideal
    BY <1>6 DEF Spread
  <2>3. B.count = t.buckets[b].count + 1 /\ B.expand_mult = t.buckets[b].expand_mult
    BY <1>3, <1>6, <1>7
  <2>4. /\ B.count \in Nat /\ B.expand_mult \in Nat /\ t.buckets[b].count \in Nat
        /\ (B.expand_mult + 1) * ideal \in Nat
    BY <2>1, Multiple DEF Bucket
  <2>5. QED
    BY <2>1, <2>2, <2>3, <2>4
<1>9. \A c \in 0..(n - 1) : c # b =>
         p.buckets[c].count =< (p.buckets[c].expand_mult + 1) * ideal
  <2> SUFFICES ASSUME NEW c \in 0..(n - 1), c # b
               PROVE  p.buckets[c].count =< (p.buckets[c].expand_mult + 1) * ideal
    OBVIOUS
  <2>1. t.buckets[c].count \in Nat
    BY <1>6 DEF Bucket
  <2>2. p.buckets[c].count = t.buckets[c].count
    BY <1>3, <2>1
  <2>3. QED
    BY <1>3, <2>2 DEF Spread
<1>10. CASE B.count =< ideal
  <2>1. u = p
    BY <1>1, <1>7, <1>10 DEF Move
  <2>2. (B.expand_mult + 1) * ideal = B.expand_mult * ideal + ideal /\ B.expand_mult * ideal \in Nat
    BY <1>8, Multiple
  <2>3. B.count =< (B.expand_mult + 1) * ideal
    BY <1>8, <1>10, <2>2
  <2>4. \A c \in 0..(n - 1) : p.buckets[c].count =< (p.buckets[c].expand_mult + 1) * ideal
    BY <1>7, <1>9, <2>3
  <2>5. QED
    BY <1>3, <1>4, <1>5, <2>1, <2>4 DEF Spread
<1>11. CASE ~(B.count =< ideal)
  <2>1. PICK m : m = IF B.count > B.expand_mult * ideal THEN B.expand_mult + 1 ELSE B.expand_mult
    OBVIOUS
  <2>2. m \in Nat /\ B.count =< (m + 1) * ideal
    <3>1. (B.expand_mult + 1) * ideal = B.expand_mult * ideal + ideal /\ B.expand_mult * ideal \in Nat
      BY <1>8, Multiple
    <3>2. CASE B.count > B.expand_mult * ideal
      <4>1. m = B.expand_mult + 1 /\ m \in Nat
        BY <1>8, <2>1, <3>2
      <4>2. (m + 1) * ideal = m * ideal + ideal /\ m * ideal \in Nat
        BY <4>1, Multiple
      <4>3. B.count =< m * ideal + 1
        BY <1>8, <4>1
      <4>4. QED
        BY <1>8, <4>1, <4>2, <4>3
    <3>3. CASE ~(B.count > B.expand_mult * ideal)
      BY <1>8, <2>1, <3>1, <3>3
    <3>4. QED
      BY <3>2, <3>3
  <2>3. PICK v : v = [p.buckets EXCEPT ![b].expand_mult = m]
    OBVIOUS
  <2>4. u = [p EXCEPT !.nonideal = @ + 1, !.buckets = v]
    <3>1. u = [p EXCEPT !.nonideal = @ + 1,
                        !.buckets[b].expand_mult =
                            IF B.count > B.expand_mult * ideal THEN @ + 1 ELSE @]
      BY <1>1, <1>7, <1>11 DEF Move
    <3>2. u = [p EXCEPT !.nonideal = @ + 1, !.buckets[b].expand_mult = m]
      BY <1>4, <1>6, <1>7, <2>1, <3>1
    <3>3. QED
      BY <2>3, <3>2
  <2>5. PICK B2 : B2 = [B EXCEPT !.expand_mult = m]
    OBVIOUS
  <2>6. B2 \in Bucket /\ B2.hh_head = B.hh_head /\ B2.count = B.count /\ B2.expand_mult = m
    BY <1>8, <2>2, <2>5 DEF Bucket
  <2>7. /\ v \in [0..(n - 1) -> Bucket] /\ v[b] = B2
        /\ \A c \in 0..(n - 1) : c # b => v[c] = p.buckets[c]
    BY <1>6, <1>7, <2>3, <2>5, <2>6
  <2>8. /\ DOMAIN u = {"buckets", "hh", "nonideal"} /\ u.nonideal = p.nonideal + 1
        /\ u.buckets = v /\ u.hh = p.hh
    BY <1>4, <2>4
  <2>9. BucketsOK(u.hh, v, n, S \union {i})
    BY <1>3, <1>7, <2>6, <2>7, <2>8, BucketsFrame
  <2>10. \A c \in 0..(n - 1) : v[c].count =< (v[c].expand_mult + 1) * ideal
    BY <1>9, <2>2, <2>6, <2>7
  <2>11. u.nonideal \in Nat
    BY <1>4, <2>8
  <2>12. QED
    BY <1>3, <1>5, <2>8, <2>9, <2>10, <2>11 DEF Spread
<1>12. QED
  BY <1>10, <1>11

Moving(f, hh, items, n, ideal) ==
    f = [k \in 0..Len(items) |->
            IF k = 0 THEN [buckets |-> EmptyBuckets(n), hh |-> hh, nonideal |-> 0]
            ELSE Move(f[k - 1], BucketOf(items[k], n), items[k], ideal)]

LEMMA MovingDefined ==
    ASSUME NEW hh, NEW items \in Seq(Item), NEW n, NEW ideal
    PROVE  \E f : Moving(f, hh, items, n, ideal)
<1>1. PICK l : l = Len(items)
  OBVIOUS
<1>2. l \in Nat
  BY <1>1
<1>3. PICK none : none = [buckets |-> EmptyBuckets(n), hh |-> hh, nonideal |-> 0]
  OBVIOUS
<1>4. PICK T : T = {m \in Nat : \E f : f = [k \in 0..m |->
                       IF k = 0 THEN none ELSE Move(f[k - 1], BucketOf(items[k], n), items[k], ideal)]}
  OBVIOUS
<1>5. 0 \in T
  <2>1. PICK f : f = [k \in 0..0 |-> none]
    OBVIOUS
  <2>2. f = [k \in 0..0 |->
                IF k = 0 THEN none ELSE Move(f[k - 1], BucketOf(items[k], n), items[k], ideal)]
    BY <2>1
  <2>3. QED
    BY <1>4, <2>2
<1>6. \A m \in Nat : m \in T => m + 1 \in T
  <2> SUFFICES ASSUME NEW m \in Nat, m \in T PROVE m + 1 \in T
    OBVIOUS
  <2>1. PICK f : f = [k \in 0..m |->
                IF k = 0 THEN none ELSE Move(f[k - 1], BucketOf(items[k], n), items[k], ideal)]
    BY <1>4
  <2>2. PICK g : g = [k \in 0..(m + 1) |->
                IF k = 0 THEN none ELSE Move(f[k - 1], BucketOf(items[k], n), items[k], ideal)]
    OBVIOUS
  <2>3. \A k \in 0..m : g[k] = f[k]
    <3>1. \A k \in 0..m :
             f[k] = IF k = 0 THEN none ELSE Move(f[k - 1], BucketOf(items[k], n), items[k], ideal)
      BY <2>1, Zenon
    <3>2. \A k \in 0..(m + 1) :
             g[k] = IF k = 0 THEN none ELSE Move(f[k - 1], BucketOf(items[k], n), items[k], ideal)
      BY <2>2, Zenon
    <3>3. \A k \in 0..m : k \in 0..(m + 1)
      OBVIOUS
    <3>4. QED
      BY <3>1, <3>2, <3>3, Zenon
  <2>4. \A k \in 0..(m + 1) : k # 0 => g[k - 1] = f[k - 1]
    BY <2>3
  <2>5. g = [k \in 0..(m + 1) |->
                IF k = 0 THEN none ELSE Move(g[k - 1], BucketOf(items[k], n), items[k], ideal)]
    BY <2>2, <2>4
  <2>6. m + 1 \in Nat
    OBVIOUS
  <2>7. QED
    BY <1>4, <2>5, <2>6, Zenon
<1>7. l \in T
  BY <1>2, <1>5, <1>6, Induction
<1>8. PICK f : f = [k \in 0..l |->
          IF k = 0 THEN none ELSE Move(f[k - 1], BucketOf(items[k], n), items[k], ideal)]
  BY <1>4, <1>7
<1>9. QED
  BY <1>1, <1>3, <1>8, Zenon DEF Moving

LEMMA EmptyBucketsOK ==
    ASSUME NEW hh, NEW n \in Nat \ {0}
    PROVE  /\ BucketsOK(hh, EmptyBuckets(n), n, {})
           /\ \A b \in 0..(n - 1) : EmptyBuckets(n)[b].count = 0 /\ EmptyBuckets(n)[b].expand_mult = 0
<1>1. PICK v : v = EmptyBuckets(n)
  OBVIOUS
<1>2. PICK B : B = [hh_head |-> NULL, count |-> 0, expand_mult |-> 0]
  OBVIOUS
<1>3. B \in Bucket /\ B.hh_head = NULL /\ B.count = 0 /\ B.expand_mult = 0
  BY <1>2 DEF Bucket, Ref
<1>4. v = [b \in 0..(n - 1) |-> B]
  BY <1>1, <1>2 DEF EmptyBuckets
<1>5. v \in [0..(n - 1) -> Bucket] /\ \A b \in 0..(n - 1) : v[b] = B
  BY <1>3, <1>4
<1>6. PICK c : c = <<>>
  OBVIOUS
<1>7. c \in Seq(Item) /\ Len(c) = 0
  BY <1>6
<1>8. Linked(hh, "hh_prev", "hh_next", c)
  BY <1>7 DEF Linked, Injective
<1>9. Filled(hh, B, c)
  BY <1>3, <1>6, <1>7, <1>8 DEF Filled, Start
<1>10. \A i : ~Has(c, i)
  BY <1>7 DEF Has
<1>11. \A b \in 0..(n - 1) : \E e : Filled(hh, v[b], e)
                               /\ \A i : Has(e, i) <=> i \in {} /\ BucketOf(i, n) = b
  <2> TAKE b \in 0..(n - 1)
  <2>1. \A i : Has(c, i) <=> i \in {} /\ BucketOf(i, n) = b
    BY <1>10
  <2>2. QED
    BY <1>5, <1>9, <2>1
<1>12. BucketsOK(hh, v, n, {})
  BY <1>5, <1>11 DEF BucketsOK
<1>13. QED
  BY <1>1, <1>3, <1>5, <1>12

\* After all items have been moved they are spread over the new buckets.
LEMMA MovedOK ==
    ASSUME NEW hh \in [Item -> {Freed} \union Handle], NEW n \in Nat \ {0}, NEW ideal \in Nat \ {0},
           NEW S \in SUBSET Item, \A i \in S : hh[i] \in Handle,
           NEW items \in Seq(Item), Injective(items), \A i : Has(items, i) <=> i \in S,
           NEW f, Moving(f, hh, items, n, ideal)
    PROVE  Spread(f[Len(items)], hh, n, S, S, ideal)
<1>1. PICK l : l = Len(items)
  OBVIOUS
<1>2. l \in Nat
  BY <1>1
<1>3. \A k \in 0..l : f[k] = IF k = 0 THEN [buckets |-> EmptyBuckets(n), hh |-> hh, nonideal |-> 0]
                             ELSE Move(f[k - 1], BucketOf(items[k], n), items[k], ideal)
  BY <1>1, Zenon DEF Moving
<1>4. PICK T : T = {k \in 0..l : Spread(f[k], hh, n, {i \in S : \E j \in 1..k : items[j] = i}, S, ideal)}
  OBVIOUS
<1>5. 0 \in T
  <2>1. PICK t : t = [buckets |-> EmptyBuckets(n), hh |-> hh, nonideal |-> 0]
    OBVIOUS
  <2>2. f[0] = t
    BY <1>2, <1>3, <2>1
  <2>3. t.buckets = EmptyBuckets(n) /\ t.hh = hh /\ t.nonideal = 0
        /\ DOMAIN t = {"buckets", "hh", "nonideal"}
    BY <2>1
  <2>4. SameList(hh, hh, S)
    BY DEF SameList
  <2>5. \A b \in 0..(n - 1) : t.buckets[b].count =< (t.buckets[b].expand_mult + 1) * ideal
    <3> TAKE b \in 0..(n - 1)
    <3>1. t.buckets[b].count = 0 /\ t.buckets[b].expand_mult = 0
      BY <2>3, EmptyBucketsOK
    <3>2. QED
      BY <3>1
  <2>6. {i \in S : \E j \in 1..0 : items[j] = i} = {}
    OBVIOUS
  <2>7. BucketsOK(hh, EmptyBuckets(n), n, {})
    BY EmptyBucketsOK
  <2>8. Spread(t, hh, n, {}, S, ideal)
    BY <2>3, <2>4, <2>5, <2>7 DEF Spread
  <2>9. Spread(f[0], hh, n, {i \in S : \E j \in 1..0 : items[j] = i}, S, ideal)
    BY <2>2, <2>6, <2>8, Zenon
  <2>10. 0 \in 0..l
    BY <1>2
  <2>11. QED
    BY <1>4, <2>9, <2>10
<1>6. \A k \in 0..(l - 1) : k \in T => k + 1 \in T
  <2> SUFFICES ASSUME NEW k \in 0..(l - 1), k \in T PROVE k + 1 \in T
    OBVIOUS
  <2>1. k \in Nat /\ k + 1 \in 1..l /\ k + 1 \in 0..l /\ k + 1 # 0 /\ (k + 1) - 1 = k
    BY <1>2
  <2>2. PICK i : i = items[k + 1]
    OBVIOUS
  <2>3. PICK P : P = {j \in S : \E m \in 1..k : items[m] = j}
    OBVIOUS
  <2>4. i \in Item /\ i \in S /\ i \notin P
    <3>1. i \in Item /\ Has(items, i)
      BY <1>1, <2>1, <2>2 DEF Has
    <3>2. \A m \in 1..k : m \in 1..l /\ m # k + 1
      BY <1>2, <2>1
    <3>3. \A m \in 1..k : items[m] # i
      BY <1>1, <2>1, <2>2, <3>2 DEF Injective
    <3>4. QED
      BY <2>3, <3>1, <3>3
  <2>5. P \union {i} = {j \in S : \E m \in 1..(k + 1) : items[m] = j}
    <3>1. \A m \in 1..(k + 1) : m \in 1..k \/ m = k + 1
      BY <2>1
    <3>2. \A m \in 1..k : m \in 1..(k + 1)
      BY <2>1
    <3>3. k + 1 \in 1..(k + 1)
      BY <2>1
    <3>4. QED
      BY <2>2, <2>3, <2>4, <3>1, <3>2, <3>3
  <2>6. Spread(f[k], hh, n, P, S, ideal)
    BY <1>4, <2>3
  <2>7. f[k].hh[i] \in Handle /\ P \union {i} \subseteq S
    BY <2>3, <2>4, <2>6 DEF Spread, SameList
  <2>8. f[k + 1] = Move(f[k], BucketOf(i, n), i, ideal)
    BY <1>3, <2>1, <2>2
  <2>9. Spread(f[k + 1], hh, n, P \union {i}, S, ideal)
    BY <2>4, <2>6, <2>7, <2>8, MoveOK
  <2>10. QED
    BY <1>4, <2>1, <2>5, <2>9
<1>7. l \in T
  <2>1. \A k \in 0..l : k \in T
    BY <1>2, <1>5, <1>6, InductionTo
  <2>2. QED
    BY <1>2, <2>1
<1>8. {i \in S : \E j \in 1..l : items[j] = i} = S
  BY <1>1 DEF Has
<1>9. QED
  BY <1>1, <1>4, <1>7, <1>8

\* Doubling the buckets loses no item and bounds the chains again.
LEMMA ExpandOK ==
    ASSUME NEW x, HashOK(x), TableOK(x.tbl), x.tbl.num_items # 0,
           NEW S, BucketsOK(x.hh, x.tbl.buckets, x.tbl.num_buckets, S),
           NEW y, y = HASH_EXPAND_BUCKETS(x)
    PROVE  /\ HashOK(y) /\ y.head = x.head /\ SameList(y.hh, x.hh, S)
           /\ TableOK(y.tbl) /\ y.tbl.tail = x.tbl.tail /\ y.tbl.num_items = x.tbl.num_items
           /\ BucketsOK(y.hh, y.tbl.buckets, y.tbl.num_buckets, S)
           /\ Bounded(y.tbl)
<1> DEFINE n == 2 * x.tbl.num_buckets
           ideal == x.tbl.num_items \div n + (IF x.tbl.num_items % n # 0 THEN 1 ELSE 0)
           chains == [b \in 1..x.tbl.num_buckets |-> Chain(x, b - 1)]
           items == FlattenSeq(chains)
           moved == CHOOSE f : Moving(f, x.hh, items, n, ideal)
           all == moved[Len(items)]
           ineff == IF all.nonideal > x.tbl.num_items \div 2 THEN x.tbl.ineff_expands + 1 ELSE 0
           tbl == [x.tbl EXCEPT !.buckets = all.buckets, !.num_buckets = n,
                                !.ideal_chain_maxlen = ideal, !.nonideal_items = all.nonideal,
                                !.ineff_expands = ineff, !.noexpand = @ \/ ineff > 1]
<1>1. y = [x EXCEPT !.hh = all.hh, !.tbl = tbl]
  BY DEF HASH_EXPAND_BUCKETS, Moving
<1>2. PICK N : N = x.tbl.num_buckets
  OBVIOUS
<1>3. N \in Nat \ {0} /\ x.tbl.num_items \in Nat \ {0} /\ x.tbl.ineff_expands \in Nat
      /\ x.tbl.noexpand \in BOOLEAN
  BY <1>2 DEF TableOK
<1>4. n \in Nat \ {0} /\ n = 2 * N
  BY <1>2, <1>3
<1> HIDE DEF n
<1>5. ideal \in Nat \ {0}
  <2>1. PICK a : a = x.tbl.num_items
    OBVIOUS
  <2>2. a \in Nat \ {0}
    BY <1>3, <2>1
  <2>3. a \div n \in Nat
    BY <1>4, <2>2
  <2>4. a \div n = 0 => a % n # 0
    BY <1>4, <2>2
  <2>5. QED
    BY <2>1, <2>3, <2>4
<1> HIDE DEF ideal
<1>6. ASSUME NEW b \in 1..N
      PROVE  /\ chains[b] \in Seq(Item) /\ Injective(chains[b])
             /\ \A i : Has(chains[b], i) <=> i \in S /\ BucketOf(i, N) = b - 1
  <2>1. b - 1 \in 0..(N - 1)
    BY <1>3
  <2>2. PICK c : Filled(x.hh, x.tbl.buckets[b - 1], c)
                 /\ \A i : Has(c, i) <=> i \in S /\ BucketOf(i, N) = b - 1
    BY <1>2, <2>1 DEF BucketsOK
  <2>3. Linked(x.hh, "hh_prev", "hh_next", c) /\ x.tbl.buckets[b - 1].hh_head = Start(c)
    BY <2>2 DEF Filled
  <2>4. Chain(x, b - 1) = c
    BY <2>3, LinkedWalk DEF Chain
  <2>5. chains[b] = c
    BY <1>2, <2>4
  <2>6. QED
    BY <2>2, <2>3, <2>5 DEF Linked
<1>7. chains \in Seq(Seq(Item)) /\ Len(chains) = N
  <2>1. chains = [b \in 1..N |-> chains[b]]
    BY <1>2
  <2> HIDE DEF chains
  <2>2. \A b \in 1..N : chains[b] \in Seq(Item)
    BY <1>6
  <2>3. QED
    BY <1>3, <2>1, <2>2
<1> HIDE DEF chains
<1>8. items \in Seq(Item) /\ Injective(items) /\ \A i : Has(items, i) <=> i \in S
  <2>1. \A m \in 1..Len(chains) : Injective(chains[m])
    BY <1>6, <1>7
  <2>2. \A p, m \in 1..Len(chains) : \A i : Has(chains[p], i) /\ Has(chains[m], i) => p = m
    <3> SUFFICES ASSUME NEW p \in 1..N, NEW m \in 1..N, NEW i,
                        Has(chains[p], i), Has(chains[m], i)
                 PROVE  p = m
      BY <1>7
    <3>1. BucketOf(i, N) = p - 1 /\ BucketOf(i, N) = m - 1
      BY <1>6
    <3>2. QED
      BY <3>1
  <2>3. /\ items \in Seq(Item) /\ Injective(items)
        /\ \A i : Has(items, i) <=> \E m \in 1..Len(chains) : Has(chains[m], i)
    BY <1>7, <2>1, <2>2, FlattenedSeq
  <2>4. ASSUME NEW i \in S PROVE \E m \in 1..N : Has(chains[m], i)
    <3>1. i \in Item
      BY DEF BucketsOK
    <3>2. BucketOf(i, N) \in 0..(N - 1)
      BY <1>3, <3>1, BucketRange
    <3>3. PICK b \in 1..N : b - 1 = BucketOf(i, N)
      <4>1. BucketOf(i, N) + 1 \in 1..N /\ (BucketOf(i, N) + 1) - 1 = BucketOf(i, N)
        BY <1>3, <3>2
      <4>2. QED
        BY <4>1
    <3>4. QED
      BY <1>6, <3>3
  <2>5. \A m \in 1..N : \A i : Has(chains[m], i) => i \in S
    BY <1>6
  <2>6. QED
    BY <1>7, <2>3, <2>4, <2>5
<1> HIDE DEF items
<1>9. Moving(moved, x.hh, items, n, ideal)
  <2>1. \E f : Moving(f, x.hh, items, n, ideal)
    BY <1>8, MovingDefined
  <2>2. QED
    BY <2>1, Zenon
<1> HIDE DEF moved
<1>10. \A i \in S : x.hh[i] \in Handle /\ i \in Item
  <2> SUFFICES ASSUME NEW i \in S PROVE x.hh[i] \in Handle /\ i \in Item
    OBVIOUS
  <2>1. i \in Item
    BY DEF BucketsOK
  <2>2. PICK b \in 0..(N - 1) : b = BucketOf(i, N)
    BY <1>3, <2>1, BucketRange
  <2>3. PICK c : Filled(x.hh, x.tbl.buckets[b], c) /\ \A j : Has(c, j) <=> j \in S /\ BucketOf(j, N) = b
    BY <1>2 DEF BucketsOK
  <2>4. Has(c, i)
    BY <2>2, <2>3
  <2>5. QED
    BY <2>1, <2>3, <2>4 DEF Filled, Linked, Has
<1>11. x.hh \in [Item -> {Freed} \union Handle] /\ DOMAIN x = {"head", "tbl", "hh"}
  BY DEF HashOK
<1>12. Spread(all, x.hh, n, S, S, ideal)
  <2>1. S \in SUBSET Item /\ \A i \in S : x.hh[i] \in Handle
    BY <1>10
  <2>2. QED
    BY <1>4, <1>5, <1>8, <1>9, <1>11, <2>1, MovedOK
<1> HIDE DEF all
<1>13. ineff \in Nat
  BY <1>3
<1> HIDE DEF ineff
<1>14. PICK t : t = tbl
  OBVIOUS
<1>15. DOMAIN y = {"head", "tbl", "hh"} /\ y.head = x.head /\ y.hh = all.hh /\ y.tbl = t
  <2> HIDE DEF tbl
  <2>1. QED
    BY <1>1, <1>11, <1>14
<1>16. /\ DOMAIN t = DOMAIN x.tbl /\ t.buckets = all.buckets /\ t.num_buckets = n
       /\ t.ideal_chain_maxlen = ideal /\ t.nonideal_items = all.nonideal
       /\ t.ineff_expands = ineff /\ t.noexpand \in BOOLEAN
       /\ t.tail = x.tbl.tail /\ t.num_items = x.tbl.num_items
  BY <1>14 DEF TableOK
<1>17. TableOK(t)
  BY <1>3, <1>4, <1>5, <1>12, <1>13, <1>16 DEF TableOK, Spread
<1>18. Bounded(t)
  BY <1>12, <1>16 DEF Bounded, Spread, Short
<1>19. QED
  BY <1>12, <1>15, <1>16, <1>17, <1>18 DEF HashOK, Spread

-----------------------------------------------------------------------------
(* Additions *)

LEMMA AddToBucketOK ==
    ASSUME NEW x, NEW o, NEW S, NEW n, Lists(x, o, S, n), n # 0,
           NEW i \in Item, i \notin S, x.hh[i] \in Handle,
           NEW b, b = BucketOf(i, x.tbl.num_buckets), NEW y, y = HASH_ADD_TO_BKT(x, b, i)
    PROVE  Lists(y, o, S \union {i}, n) /\ SameList(y.hh, x.hh, S \union {i})
<1>1. PICK t : t = [buckets |-> x.tbl.buckets, hh |-> x.hh]
  OBVIOUS
<1>2. PICK p : p = Push(t, b, i)
  OBVIOUS
<1>3. PICK N : N = x.tbl.num_buckets
  OBVIOUS
<1>4. /\ HashOK(x) /\ DOMAIN x = {"head", "tbl", "hh"} /\ x.hh \in [Item -> {Freed} \union Handle]
      /\ Linked(x.hh, "prev", "next", o) /\ o # <<>> /\ x.head = Start(o)
      /\ TableOK(x.tbl) /\ x.tbl.tail = o[Len(o)] /\ x.tbl.num_items = n
      /\ N \in Nat \ {0} /\ BucketsOK(x.hh, x.tbl.buckets, N, S) /\ Bounded(x.tbl)
  BY <1>3 DEF Lists, HashOK, TableOK
<1>5. t.buckets = x.tbl.buckets /\ t.hh = x.hh /\ DOMAIN t = {"buckets", "hh"}
  BY <1>1
<1>6. Pushed(p, t, N, S, i, b)
  <2>1. /\ {"buckets", "hh"} \subseteq DOMAIN t /\ t.hh \in [Item -> {Freed} \union Handle]
        /\ BucketsOK(t.hh, t.buckets, N, S) /\ t.hh[i] \in Handle
    BY <1>4, <1>5
  <2>2. QED
    BY <1>2, <1>3, <1>4, <2>1, PushOK
<1>7. /\ p.hh \in [Item -> {Freed} \union Handle]
      /\ SameList(p.hh, x.hh, S \union {i})
      /\ BucketsOK(p.hh, p.buckets, N, S \union {i})
      /\ \A c \in 0..(N - 1) :
             /\ p.buckets[c].expand_mult = x.tbl.buckets[c].expand_mult
             /\ p.buckets[c].count = x.tbl.buckets[c].count + IF c = b THEN 1 ELSE 0
  BY <1>5, <1>6 DEF Pushed
<1>8. PICK T : T = [x.tbl EXCEPT !.buckets = p.buckets]
  OBVIOUS
<1>9. /\ DOMAIN T = DOMAIN x.tbl /\ T.buckets = p.buckets
      /\ \A f \in DOMAIN x.tbl : f # "buckets" => T[f] = x.tbl[f]
  BY <1>4, <1>8 DEF TableOK
<1>10. /\ TableOK(T) /\ T.num_buckets = N /\ T.tail = x.tbl.tail /\ T.num_items = n
       /\ T.noexpand = x.tbl.noexpand /\ T.ideal_chain_maxlen = x.tbl.ideal_chain_maxlen
  BY <1>3, <1>4, <1>9 DEF TableOK
<1>11. PICK added : added = [x EXCEPT !.hh = p.hh, !.tbl.buckets = p.buckets]
  OBVIOUS
<1>12. DOMAIN added = DOMAIN x /\ added.head = x.head /\ added.hh = p.hh /\ added.tbl = T
  BY <1>4, <1>8, <1>11
<1>13. HashOK(added)
  BY <1>4, <1>7, <1>12 DEF HashOK
<1>14. Linked(p.hh, "prev", "next", o)
  BY <1>4, <1>7, SameListLinked
<1>15. PICK B : B = p.buckets[b]
  OBVIOUS
<1>16. b \in 0..(N - 1) /\ p.buckets \in [0..(N - 1) -> Bucket] /\ x.tbl.buckets \in [0..(N - 1) -> Bucket]
  BY <1>3, <1>4, <1>7, BucketRange DEF BucketsOK
<1>17. CASE B.count >= (B.expand_mult + 1) * HASH_BKT_CAPACITY_THRESH /\ ~x.tbl.noexpand
  <2>1. y = HASH_EXPAND_BUCKETS(added)
    BY <1>1, <1>2, <1>11, <1>15, <1>17 DEF HASH_ADD_TO_BKT
  <2>2. added.tbl.num_items # 0 /\ TableOK(added.tbl)
        /\ BucketsOK(added.hh, added.tbl.buckets, added.tbl.num_buckets, S \union {i})
    BY <1>7, <1>9, <1>10, <1>12
  <2>3. /\ HashOK(y) /\ y.head = added.head /\ SameList(y.hh, added.hh, S \union {i})
        /\ TableOK(y.tbl) /\ y.tbl.tail = added.tbl.tail /\ y.tbl.num_items = added.tbl.num_items
        /\ BucketsOK(y.hh, y.tbl.buckets, y.tbl.num_buckets, S \union {i})
        /\ Bounded(y.tbl)
    BY <1>13, <2>1, <2>2, ExpandOK
  <2>4. Linked(y.hh, "prev", "next", o)
    BY <1>12, <1>14, <2>3, SameListLinked
  <2>5. SameList(y.hh, x.hh, S \union {i})
    BY <1>7, <1>12, <2>3, SameListTrans
  <2>6. QED
    BY <1>4, <1>10, <1>12, <2>3, <2>4, <2>5 DEF Lists
<1>18. CASE ~(B.count >= (B.expand_mult + 1) * HASH_BKT_CAPACITY_THRESH /\ ~x.tbl.noexpand)
  <2>1. y = added
    BY <1>1, <1>2, <1>11, <1>15, <1>18 DEF HASH_ADD_TO_BKT
  <2>2. Bounded(T)
    <3>1. CASE x.tbl.noexpand
      BY <1>10, <3>1 DEF Bounded
    <3>2. CASE ~x.tbl.noexpand
      <4>1. ~(B.count >= (B.expand_mult + 1) * HASH_BKT_CAPACITY_THRESH)
        BY <1>18, <3>2
      <4>2. B \in Bucket
        BY <1>15, <1>16
      <4>3. B.count \in Nat /\ (B.expand_mult + 1) * HASH_BKT_CAPACITY_THRESH \in Nat
        BY <4>2, Multiple, HashAssumption DEF Bucket
      <4>4. Short(B, T.ideal_chain_maxlen)
        BY <4>1, <4>3 DEF Short
      <4>5. ASSUME NEW c \in 0..(N - 1), c # b
            PROVE  Short(p.buckets[c], T.ideal_chain_maxlen)
        <5>1. Short(x.tbl.buckets[c], x.tbl.ideal_chain_maxlen)
          BY <1>3, <1>4, <3>2, <4>5 DEF Bounded
        <5>2. x.tbl.buckets[c].count \in Nat
          BY <1>16 DEF Bucket
        <5>3. p.buckets[c].count = x.tbl.buckets[c].count
              /\ p.buckets[c].expand_mult = x.tbl.buckets[c].expand_mult
          BY <1>7, <4>5, <5>2
        <5>4. QED
          BY <1>10, <5>1, <5>3 DEF Short
      <4>6. QED
        BY <1>9, <1>10, <1>15, <4>4, <4>5 DEF Bounded
    <3>3. QED
      BY <3>1, <3>2
  <2>3. BucketsOK(added.hh, T.buckets, T.num_buckets, S \union {i})
    BY <1>7, <1>9, <1>10, <1>12
  <2>4. QED
    BY <1>4, <1>7, <1>10, <1>12, <1>13, <1>14, <2>1, <2>2, <2>3 DEF Lists
<1>19. QED
  BY <1>17, <1>18

LEMMA AddToTableOK ==
    ASSUME NEW x, NEW o, NEW S, NEW n \in Nat, Lists(x, o, S, n),
           NEW i \in Item, i \notin S, x.hh[i] \in Handle,
           NEW y, y = HASH_ADD_TO_TABLE(x, i)
    PROVE  Lists(y, o, S \union {i}, n + 1) /\ SameList(y.hh, x.hh, S \union {i})
<1>1. PICK z : z = [x EXCEPT !.tbl.num_items = @ + 1]
  OBVIOUS
<1>2. /\ HashOK(x) /\ DOMAIN x = {"head", "tbl", "hh"} /\ TableOK(x.tbl) /\ x.tbl.num_items = n
      /\ Bounded(x.tbl)
  BY DEF Lists, HashOK
<1>3. PICK T : T = [x.tbl EXCEPT !.num_items = @ + 1]
  OBVIOUS
<1>4. DOMAIN z = DOMAIN x /\ z.head = x.head /\ z.hh = x.hh /\ z.tbl = T
  BY <1>1, <1>2, <1>3
<1>5. /\ DOMAIN T = DOMAIN x.tbl /\ T.num_items = n + 1
      /\ \A f \in DOMAIN x.tbl : f # "num_items" => T[f] = x.tbl[f]
  BY <1>2, <1>3 DEF TableOK
<1>6. /\ T.num_buckets = x.tbl.num_buckets /\ T.buckets = x.tbl.buckets /\ T.tail = x.tbl.tail
      /\ T.noexpand = x.tbl.noexpand /\ T.ideal_chain_maxlen = x.tbl.ideal_chain_maxlen
  BY <1>2, <1>5 DEF TableOK
<1>7. n + 1 \in Nat /\ n + 1 # 0
  OBVIOUS
<1>8. TableOK(T)
  BY <1>2, <1>5, <1>7 DEF TableOK
<1>9. Bounded(T)
  BY <1>2, <1>6 DEF Bounded
<1>10. HashOK(z)
  BY <1>2, <1>4 DEF HashOK
<1>11. Lists(z, o, S, n + 1)
  BY <1>4, <1>5, <1>6, <1>8, <1>9, <1>10 DEF Lists
<1>12. y = HASH_ADD_TO_BKT(z, BucketOf(i, z.tbl.num_buckets), i)
  BY <1>1, <1>4, <1>6 DEF HASH_ADD_TO_TABLE
<1>13. z.hh[i] \in Handle
  BY <1>4
<1>14. Lists(y, o, S \union {i}, n + 1) /\ SameList(y.hh, z.hh, S \union {i})
  BY <1>7, <1>11, <1>12, <1>13, AddToBucketOK
<1>15. QED
  BY <1>4, <1>14

LEMMA BucketMember ==
    ASSUME NEW hh, NEW buckets, NEW n \in Nat \ {0}, NEW S, BucketsOK(hh, buckets, n, S), NEW i \in S
    PROVE  i \in Item /\ hh[i] \in Handle
           /\ \E c : Filled(hh, buckets[BucketOf(i, n)], c) /\ Has(c, i)
<1>1. i \in Item
  BY DEF BucketsOK
<1>2. PICK b \in 0..(n - 1) : b = BucketOf(i, n)
  BY <1>1, BucketRange
<1>3. PICK c : Filled(hh, buckets[b], c) /\ \A j : Has(c, j) <=> j \in S /\ BucketOf(j, n) = b
  BY DEF BucketsOK
<1>4. Has(c, i)
  BY <1>2, <1>3
<1>5. hh[i] \in Handle
  BY <1>3, <1>4 DEF Filled, Linked, Has
<1>6. QED
  BY <1>1, <1>2, <1>3, <1>4, <1>5

\* The chains stay when only the links of the application order change.
LEMMA BucketsKeep ==
    ASSUME NEW hh, NEW buckets, NEW n, NEW S, BucketsOK(hh, buckets, n, S), NEW g,
           \A j \in S : /\ g[j] \in Handle
                        /\ g[j].hh_prev = hh[j].hh_prev /\ g[j].hh_next = hh[j].hh_next
    PROVE  BucketsOK(g, buckets, n, S)
<1>1. ASSUME NEW b \in 0..(n - 1)
      PROVE  \E c : Filled(g, buckets[b], c) /\ \A i : Has(c, i) <=> i \in S /\ BucketOf(i, n) = b
  <2>1. PICK c : Filled(hh, buckets[b], c) /\ \A i : Has(c, i) <=> i \in S /\ BucketOf(i, n) = b
    BY DEF BucketsOK
  <2>2. \A m \in 1..Len(c) : c[m] \in S
    BY <2>1 DEF Has
  <2>3. \A m \in 1..Len(c) : /\ g[c[m]] \in Handle
                             /\ g[c[m]]["hh_prev"] = hh[c[m]]["hh_prev"]
                             /\ g[c[m]]["hh_next"] = hh[c[m]]["hh_next"]
    BY <2>2
  <2>4. Linked(hh, "hh_prev", "hh_next", c)
    BY <2>1 DEF Filled
  <2>5. Linked(g, "hh_prev", "hh_next", c)
    BY <2>3, <2>4, LinkedFrame
  <2>6. QED
    BY <2>1, <2>5 DEF Filled
<1>2. QED
  BY <1>1 DEF BucketsOK

\* The item i has been linked in z into the list of x, and into no bucket yet.
Joins(z, x, o, i, e, S, n) ==
    /\ Lists(z, e, S, n) /\ z.hh[i] \in Handle
    /\ \A j \in Item : ~Has(o, j) /\ j # i => z.hh[j] = x.hh[j]

LEMMA UnlinkedHandle ==
    ASSUME NEW p \in Ref, NEW q \in Ref
    PROVE  /\ [Unlinked EXCEPT !.prev = p, !.next = q] \in Handle
           /\ [Unlinked EXCEPT !.prev = p, !.next = q].prev = p
           /\ [Unlinked EXCEPT !.prev = p, !.next = q].next = q
           /\ [Unlinked EXCEPT !.prev = p] \in Handle
           /\ [Unlinked EXCEPT !.prev = p].prev = p /\ [Unlinked EXCEPT !.prev = p].next = NULL
           /\ Unlinked \in Handle /\ Unlinked.prev = NULL /\ Unlinked.next = NULL
  BY DEF Unlinked, Handle, Ref

LEMMA FirstOK ==
    ASSUME NEW x, HashOK(x), NEW i \in Item, NEW z, z = First(x, i)
    PROVE  Joins(z, x, <<>>, i, Inserted(<<>>, 1, i), {}, 0)
<1>1. PICK t : t = HASH_MAKE_TABLE(i)
  OBVIOUS
<1>2. PICK e : e = Inserted(<<>>, 1, i)
  OBVIOUS
<1>3. <<>> \in Seq(Item) /\ Len(<<>>) = 0 /\ 1 \in 1..(Len(<<>>) + 1) /\ ~Has(<<>>, i) /\ Injective(<<>>)
  BY DEF Has, Injective
<1>4. e \in Seq(Item) /\ Len(e) = 1 /\ Injective(e)
  <2>1. PICK o : o = <<>>
    OBVIOUS
  <2>2. o \in Seq(Item) /\ 1 \in 1..(Len(o) + 1) /\ ~Has(o, i) /\ Injective(o) /\ e = Inserted(o, 1, i)
    BY <1>2, <1>3, <2>1
  <2>3. e \in Seq(Item) /\ Len(e) = Len(o) + 1 /\ Injective(e)
    BY <2>2, InsertedSeq
  <2>4. QED
    BY <1>3, <2>1, <2>3
<1>5. e[1] = i /\ e # <<>>
  BY <1>2, <1>3, <1>4 DEF Inserted
<1>6. Unlinked \in Handle /\ Unlinked.prev = NULL /\ Unlinked.next = NULL
  BY UnlinkedHandle DEF Ref
<1>7. z.head = i /\ z.tbl = t /\ z.hh = [x.hh EXCEPT ![i] = Unlinked] /\ DOMAIN z = {"head", "tbl", "hh"}
  BY <1>1 DEF First
<1>8. x.hh \in [Item -> {Freed} \union Handle]
  BY DEF HashOK
<1>9. /\ z.hh \in [Item -> {Freed} \union Handle] /\ z.hh[i] = Unlinked
      /\ \A j \in Item : j # i => z.hh[j] = x.hh[j]
  BY <1>6, <1>7, <1>8
<1>10. Linked(z.hh, "prev", "next", e)
  <2>1. \A m \in 1..Len(e) : m = 1 /\ e[m] = i
    BY <1>4, <1>5
  <2>2. QED
    BY <1>4, <1>6, <1>9, <2>1 DEF Linked
<1>11. PICK v : v = EmptyBuckets(HASH_INITIAL_NUM_BUCKETS)
  OBVIOUS
<1>12. /\ DOMAIN t = {"num_buckets", "buckets", "num_items", "tail", "ideal_chain_maxlen",
                      "nonideal_items", "ineff_expands", "noexpand"}
       /\ t.num_buckets = HASH_INITIAL_NUM_BUCKETS /\ t.buckets = v /\ t.num_items = 0 /\ t.tail = i
       /\ t.ideal_chain_maxlen = 0 /\ t.nonideal_items = 0 /\ t.ineff_expands = 0
       /\ t.noexpand = FALSE
  BY <1>1, <1>11 DEF HASH_MAKE_TABLE
<1>13. TableOK(t)
  <2>1. t.noexpand \in BOOLEAN
    BY <1>12, Zenon
  <2>2. t.num_buckets \in Nat \ {0}
    BY <1>12, HashAssumption
  <2>3. QED
    BY <1>12, <2>1, <2>2 DEF TableOK
<1>14. /\ BucketsOK(z.hh, v, HASH_INITIAL_NUM_BUCKETS, {})
       /\ \A b \in 0..(HASH_INITIAL_NUM_BUCKETS - 1) : v[b].count = 0 /\ v[b].expand_mult = 0
  BY <1>11, HashAssumption, EmptyBucketsOK
<1>15. Bounded(t)
  <2>1. \A b \in 0..(HASH_INITIAL_NUM_BUCKETS - 1) : v[b].count =< (v[b].expand_mult + 1) * 0
    BY <1>14
  <2>2. QED
    BY <1>12, <2>1 DEF Bounded, Short
<1>16. HashOK(z)
  BY <1>7, <1>9 DEF HashOK
<1>17. Lists(z, e, {}, 0)
  BY <1>4, <1>5, <1>7, <1>10, <1>12, <1>13, <1>14, <1>15, <1>16 DEF Lists, Start
<1>18. QED
  BY <1>2, <1>6, <1>9, <1>17 DEF Joins

\* The table keeps what it says, but for its tail.
LEMMA TailOK ==
    ASSUME NEW t, TableOK(t), Bounded(t), NEW tail, NEW u, u = [t EXCEPT !.tail = tail]
    PROVE  /\ TableOK(u) /\ Bounded(u) /\ u.tail = tail /\ u.num_items = t.num_items
           /\ u.buckets = t.buckets /\ u.num_buckets = t.num_buckets
<1>1. DOMAIN u = DOMAIN t /\ u.tail = tail /\ \A f \in DOMAIN t : f # "tail" => u[f] = t[f]
  BY DEF TableOK
<1>2. /\ u.num_items = t.num_items /\ u.buckets = t.buckets /\ u.num_buckets = t.num_buckets
      /\ u.noexpand = t.noexpand /\ u.ideal_chain_maxlen = t.ideal_chain_maxlen
      /\ u.nonideal_items = t.nonideal_items /\ u.ineff_expands = t.ineff_expands
  BY <1>1 DEF TableOK
<1>3. TableOK(u)
  BY <1>1, <1>2 DEF TableOK
<1>4. QED
  BY <1>1, <1>2, <1>3 DEF Bounded

LEMMA AppendOK ==
    ASSUME NEW x, NEW o, NEW S, NEW n, Lists(x, o, S, n), \A j : j \in S <=> Has(o, j),
           NEW i \in Item, ~Has(o, i), NEW z, z = HASH_APPEND_LIST(x, i)
    PROVE  Joins(z, x, o, i, Inserted(o, Len(o) + 1, i), S, n)
<1>1. PICK l : l = Len(o)
  OBVIOUS
<1>2. PICK e : e = Inserted(o, l + 1, i)
  OBVIOUS
<1>3. PICK hh : hh = x.hh
  OBVIOUS
<1>4. /\ HashOK(x) /\ DOMAIN x = {"head", "tbl", "hh"} /\ hh \in [Item -> {Freed} \union Handle]
      /\ Linked(hh, "prev", "next", o) /\ o # <<>> /\ x.head = Start(o)
      /\ TableOK(x.tbl) /\ x.tbl.tail = o[l] /\ x.tbl.num_items = n
      /\ BucketsOK(hh, x.tbl.buckets, x.tbl.num_buckets, S) /\ Bounded(x.tbl)
  BY <1>1, <1>3 DEF Lists, HashOK
<1>5. /\ o \in Seq(Item) /\ l \in Nat \ {0} /\ Injective(o) /\ l + 1 \in 1..(Len(o) + 1) /\ l \in 1..l
      /\ \A m \in 1..l : o[m] \in Item /\ hh[o[m]] \in Handle /\ o[m] # i
      /\ \A m \in 1..l : hh[o[m]].next = IF m = l THEN NULL ELSE o[m + 1]
  BY <1>1, <1>4 DEF Linked, Has
<1>6. PICK tail : tail = o[l]
  OBVIOUS
<1>7. tail \in Item /\ hh[tail] \in Handle /\ tail # i /\ tail \in Ref /\ Has(o, tail)
  BY <1>1, <1>5, <1>6 DEF Ref, Has
<1>8. PICK H : H = [Unlinked EXCEPT !.prev = tail]
  OBVIOUS
<1>9. H \in Handle /\ H.prev = tail /\ H.next = NULL
  BY <1>7, <1>8, UnlinkedHandle
<1>10. PICK g : g = [[hh EXCEPT ![i] = H] EXCEPT ![tail].next = i]
  OBVIOUS
<1>11. PICK T : T = [x.tbl EXCEPT !.tail = i]
  OBVIOUS
<1>12. DOMAIN z = DOMAIN x /\ z.head = x.head /\ z.hh = g /\ z.tbl = T
  <2>1. z = [x EXCEPT !.hh = g, !.tbl.tail = i]
    BY <1>3, <1>4, <1>6, <1>8, <1>10 DEF HASH_APPEND_LIST
  <2>2. QED
    BY <1>4, <1>11, <2>1
<1>13. PICK J : J = [hh[tail] EXCEPT !.next = i]
  OBVIOUS
<1>14. J \in Handle /\ J.next = i /\ J.prev = hh[tail].prev
       /\ J.hh_prev = hh[tail].hh_prev /\ J.hh_next = hh[tail].hh_next
  BY <1>7, <1>13 DEF Handle, Ref
<1>15. /\ g \in [Item -> {Freed} \union Handle] /\ g[i] = H /\ g[tail] = J
       /\ \A j \in Item : j # i /\ j # tail => g[j] = hh[j]
  BY <1>4, <1>7, <1>9, <1>10, <1>13, <1>14
<1>16. e \in Seq(Item) /\ Len(e) = l + 1
  BY <1>1, <1>2, <1>5, InsertedSeq
<1>17. e[l + 1] = i /\ e # <<>> /\ e[1] = o[1]
  BY <1>1, <1>2, <1>5, <1>16 DEF Inserted
<1>18. \A m \in 1..l : /\ g[o[m]] \in Handle
                       /\ g[o[m]]["prev"] = hh[o[m]]["prev"]
                       /\ g[o[m]]["next"] = IF m = l THEN i ELSE hh[o[m]]["next"]
  <2> SUFFICES ASSUME NEW m \in 1..l
               PROVE  /\ g[o[m]] \in Handle
                      /\ g[o[m]]["prev"] = hh[o[m]]["prev"]
                      /\ g[o[m]]["next"] = IF m = l THEN i ELSE hh[o[m]]["next"]
    OBVIOUS
  <2>1. m = l <=> o[m] = tail
    BY <1>1, <1>5, <1>6 DEF Injective
  <2>2. QED
    BY <1>5, <1>14, <1>15, <2>1
<1>19. Linked(g, "prev", "next", e)
  <2>1. \A m \in 1..Len(o) :
           /\ g[o[m]] \in Handle
           /\ g[o[m]]["prev"] = IF m = l + 1 THEN i ELSE hh[o[m]]["prev"]
           /\ g[o[m]]["next"] = IF m = (l + 1) - 1 THEN i ELSE hh[o[m]]["next"]
    <3>1. \A m \in 1..l : m # l + 1 /\ (m = (l + 1) - 1 <=> m = l)
      BY <1>5
    <3>2. QED
      BY <1>1, <1>18, <3>1
  <2>2. /\ g[i] \in Handle
        /\ g[i]["prev"] = IF l + 1 = 1 THEN NULL ELSE o[(l + 1) - 1]
        /\ g[i]["next"] = IF l + 1 = Len(o) + 1 THEN NULL ELSE o[l + 1]
    BY <1>1, <1>5, <1>6, <1>9, <1>15
  <2>3. QED
    BY <1>2, <1>4, <1>5, <2>1, <2>2, LinkedInsert
<1>20. BucketsOK(g, x.tbl.buckets, x.tbl.num_buckets, S)
  <2>1. \A j \in S : /\ g[j] \in Handle
                     /\ g[j].hh_prev = hh[j].hh_prev /\ g[j].hh_next = hh[j].hh_next
    <3> SUFFICES ASSUME NEW j \in S
                 PROVE  /\ g[j] \in Handle
                        /\ g[j].hh_prev = hh[j].hh_prev /\ g[j].hh_next = hh[j].hh_next
      OBVIOUS
    <3>1. j \in Item /\ j # i /\ hh[j] \in Handle
      BY <1>1, <1>5 DEF Has
    <3>2. QED
      BY <1>14, <1>15, <3>1
  <2>2. QED
    BY <1>4, <2>1, BucketsKeep
<1>21. /\ TableOK(T) /\ Bounded(T) /\ T.tail = i /\ T.num_items = n
       /\ T.buckets = x.tbl.buckets /\ T.num_buckets = x.tbl.num_buckets
  BY <1>4, <1>11, TailOK
<1>22. HashOK(z)
  BY <1>4, <1>12, <1>15 DEF HashOK
<1>23. z.head = Start(e) /\ T.tail = e[Len(e)]
  BY <1>4, <1>12, <1>16, <1>17, <1>21 DEF Start
<1>24. Lists(z, e, S, n)
  BY <1>12, <1>17, <1>19, <1>20, <1>21, <1>22, <1>23 DEF Lists
<1>25. \A j \in Item : ~Has(o, j) /\ j # i => z.hh[j] = x.hh[j]
  BY <1>3, <1>7, <1>12, <1>15
<1>26. QED
  BY <1>1, <1>2, <1>9, <1>12, <1>15, <1>24, <1>25 DEF Joins

LEMMA InsertBeforeOK ==
    ASSUME NEW x, NEW o, NEW S, NEW n, Lists(x, o, S, n), \A j : j \in S <=> Has(o, j),
           NEW i \in Item, ~Has(o, i), NEW d \in 1..Len(o),
           NEW z, z = InsertBefore(x, i, o[d])
    PROVE  Joins(z, x, o, i, Inserted(o, d, i), S, n)
<1>1. PICK l : l = Len(o)
  OBVIOUS
<1>2. PICK e : e = Inserted(o, d, i)
  OBVIOUS
<1>3. PICK hh : hh = x.hh
  OBVIOUS
<1>4. /\ HashOK(x) /\ DOMAIN x = {"head", "tbl", "hh"} /\ hh \in [Item -> {Freed} \union Handle]
      /\ Linked(hh, "prev", "next", o) /\ o # <<>> /\ x.head = Start(o)
      /\ TableOK(x.tbl) /\ x.tbl.tail = o[l] /\ x.tbl.num_items = n
      /\ BucketsOK(hh, x.tbl.buckets, x.tbl.num_buckets, S) /\ Bounded(x.tbl)
  BY <1>1, <1>3 DEF Lists, HashOK
<1>5. /\ o \in Seq(Item) /\ l \in Nat \ {0} /\ Injective(o) /\ d \in 1..(Len(o) + 1) /\ d \in 1..l
      /\ \A m \in 1..l : o[m] \in Item /\ hh[o[m]] \in Handle /\ o[m] # i
      /\ \A m \in 1..l : hh[o[m]].prev = IF m = 1 THEN NULL ELSE o[m - 1]
  BY <1>1, <1>4 DEF Linked, Has
<1>6. PICK next : next = o[d]
  OBVIOUS
<1>7. next \in Item /\ hh[next] \in Handle /\ next # i /\ next \in Ref /\ Has(o, next)
  BY <1>1, <1>5, <1>6 DEF Ref, Has
<1>8. PICK prev : prev = hh[next].prev
  OBVIOUS
<1>9. prev = IF d = 1 THEN NULL ELSE o[d - 1]
  BY <1>5, <1>6, <1>8
<1>10. d # 1 => d - 1 \in 1..l /\ prev \in Item /\ hh[prev] \in Handle /\ prev # i /\ prev # next /\ Has(o, prev)
                /\ prev = o[d - 1]
  <2> SUFFICES ASSUME d # 1
               PROVE  d - 1 \in 1..l /\ prev \in Item /\ hh[prev] \in Handle /\ prev # i /\ prev # next
                      /\ Has(o, prev) /\ prev = o[d - 1]
    OBVIOUS
  <2>1. d - 1 \in 1..l /\ d - 1 # d
    BY <1>5
  <2>2. QED
    BY <1>1, <1>5, <1>6, <1>9, <2>1 DEF Has, Injective
<1>11. prev \in Ref /\ (prev = NULL <=> d = 1)
  BY <1>9, <1>10, HashAssumption DEF Ref
<1>12. PICK H : H = [Unlinked EXCEPT !.prev = prev, !.next = next]
  OBVIOUS
<1>13. H \in Handle /\ H.prev = prev /\ H.next = next
  BY <1>7, <1>11, <1>12, UnlinkedHandle
<1>14. PICK J : J = [hh[next] EXCEPT !.prev = i]
  OBVIOUS
<1>15. J \in Handle /\ J.prev = i /\ J.next = hh[next].next
       /\ J.hh_prev = hh[next].hh_prev /\ J.hh_next = hh[next].hh_next
  BY <1>7, <1>14 DEF Handle, Ref
<1>16. PICK h1 : h1 = [[hh EXCEPT ![i] = H] EXCEPT ![next].prev = i]
  OBVIOUS
<1>17. /\ h1 \in [Item -> {Freed} \union Handle] /\ h1[i] = H /\ h1[next] = J
       /\ \A j \in Item : j # i /\ j # next => h1[j] = hh[j]
  BY <1>4, <1>7, <1>13, <1>14, <1>15, <1>16
<1>18. PICK K : K = [hh[prev] EXCEPT !.next = i]
  OBVIOUS
<1>19. d # 1 => /\ K \in Handle /\ K.next = i /\ K.prev = hh[prev].prev
                /\ K.hh_prev = hh[prev].hh_prev /\ K.hh_next = hh[prev].hh_next
  BY <1>10, <1>18 DEF Handle, Ref
<1>20. PICK g : g = z.hh
  OBVIOUS
<1>21. /\ DOMAIN z = DOMAIN x /\ z.tbl = x.tbl /\ z.head = IF d = 1 THEN i ELSE x.head
       /\ g = IF d = 1 THEN h1 ELSE [h1 EXCEPT ![prev].next = i]
  <2>1. z = IF prev = NULL THEN [x EXCEPT !.hh = h1, !.head = i]
            ELSE [x EXCEPT !.hh = [h1 EXCEPT ![prev].next = i]]
    BY <1>3, <1>6, <1>8, <1>12, <1>16 DEF InsertBefore
  <2>2. CASE d = 1
    BY <1>4, <1>11, <1>20, <2>1, <2>2
  <2>3. CASE d # 1
    BY <1>4, <1>11, <1>20, <2>1, <2>3
  <2>4. QED
    BY <2>2, <2>3
<1>22. /\ g \in [Item -> {Freed} \union Handle] /\ g[i] = H /\ g[next] = J
       /\ d # 1 => g[prev] = K
       /\ \A j \in Item : j # i /\ j # next /\ (d = 1 \/ j # prev) => g[j] = hh[j]
  <2>1. CASE d = 1
    BY <1>17, <1>21, <2>1
  <2>2. CASE d # 1
    <3>1. h1[prev] = hh[prev]
      BY <1>10, <1>17, <2>2
    <3>2. g = [h1 EXCEPT ![prev].next = i] /\ K \in Handle /\ prev \in Item
      BY <1>10, <1>19, <1>21, <2>2
    <3>3. /\ g \in [Item -> {Freed} \union Handle] /\ g[prev] = K
          /\ \A j \in Item : j # prev => g[j] = h1[j]
      BY <1>17, <1>18, <3>1, <3>2
    <3>4. QED
      BY <1>7, <1>10, <1>17, <2>2, <3>3
  <2>3. QED
    BY <2>1, <2>2
<1>23. e \in Seq(Item) /\ Len(e) = l + 1
  BY <1>1, <1>2, <1>5, InsertedSeq
<1>24. e[l + 1] = o[l] /\ e # <<>> /\ e[1] = IF d = 1 THEN i ELSE o[1]
  <2>1. l + 1 \in 1..(l + 1) /\ 1 \in 1..(l + 1) /\ (l + 1) - 1 = l /\ ~(l + 1 < d) /\ l + 1 # d
    BY <1>5
  <2>2. \A m \in 1..(l + 1) : e[m] = IF m < d THEN o[m] ELSE IF m = d THEN i ELSE o[m - 1]
    BY <1>1, <1>2, <1>5 DEF Inserted
  <2>3. e[l + 1] = o[l]
    BY <2>1, <2>2
  <2>4. e[1] = IF d = 1 THEN i ELSE o[1]
    BY <1>5, <2>1, <2>2
  <2>5. QED
    BY <1>5, <1>23, <2>3, <2>4
<1>25. \A m \in 1..l : /\ g[o[m]] \in Handle
                       /\ g[o[m]]["prev"] = IF m = d THEN i ELSE hh[o[m]]["prev"]
                       /\ g[o[m]]["next"] = IF m = d - 1 THEN i ELSE hh[o[m]]["next"]
  <2> SUFFICES ASSUME NEW m \in 1..l
               PROVE  /\ g[o[m]] \in Handle
                      /\ g[o[m]]["prev"] = IF m = d THEN i ELSE hh[o[m]]["prev"]
                      /\ g[o[m]]["next"] = IF m = d - 1 THEN i ELSE hh[o[m]]["next"]
    OBVIOUS
  <2>1. m = d <=> o[m] = next
    BY <1>1, <1>5, <1>6 DEF Injective
  <2>2. d # 1 => (m = d - 1 <=> o[m] = prev)
    BY <1>1, <1>5, <1>10 DEF Injective
  <2>3. d = 1 => m # d - 1
    OBVIOUS
  <2>4. CASE m = d
    BY <1>5, <1>15, <1>22, <2>1, <2>4
  <2>5. CASE m # d /\ m = d - 1
    <3>1. d # 1
      BY <2>3, <2>5
    <3>2. QED
      BY <1>19, <1>22, <2>2, <2>5, <3>1
  <2>6. CASE m # d /\ m # d - 1
    BY <1>5, <1>22, <2>1, <2>2, <2>6
  <2>7. QED
    BY <2>4, <2>5, <2>6
<1>26. Linked(g, "prev", "next", e)
  <2>1. \A m \in 1..Len(o) :
           /\ g[o[m]] \in Handle
           /\ g[o[m]]["prev"] = IF m = d THEN i ELSE hh[o[m]]["prev"]
           /\ g[o[m]]["next"] = IF m = d - 1 THEN i ELSE hh[o[m]]["next"]
    BY <1>1, <1>25
  <2>2. /\ g[i] \in Handle
        /\ g[i]["prev"] = IF d = 1 THEN NULL ELSE o[d - 1]
    BY <1>9, <1>13, <1>22
  <2>3. g[i]["next"] = IF d = Len(o) + 1 THEN NULL ELSE o[d]
    <3>1. d # Len(o) + 1
      BY <1>1, <1>5
    <3>2. QED
      BY <1>6, <1>13, <1>22, <3>1
  <2>4. QED
    BY <1>2, <1>4, <1>5, <2>1, <2>2, <2>3, LinkedInsert
<1>27. BucketsOK(g, x.tbl.buckets, x.tbl.num_buckets, S)
  <2>1. \A j \in S : /\ g[j] \in Handle
                     /\ g[j].hh_prev = hh[j].hh_prev /\ g[j].hh_next = hh[j].hh_next
    <3> SUFFICES ASSUME NEW j \in S
                 PROVE  /\ g[j] \in Handle
                        /\ g[j].hh_prev = hh[j].hh_prev /\ g[j].hh_next = hh[j].hh_next
      OBVIOUS
    <3>1. j \in Item /\ j # i /\ hh[j] \in Handle
      BY <1>1, <1>5 DEF Has
    <3>2. CASE j = next
      BY <1>15, <1>22, <3>2
    <3>3. CASE j # next /\ d # 1 /\ j = prev
      BY <1>19, <1>22, <3>3
    <3>4. CASE j # next /\ (d = 1 \/ j # prev)
      BY <1>22, <3>1, <3>4
    <3>5. QED
      BY <3>2, <3>3, <3>4
  <2>2. QED
    BY <1>4, <2>1, BucketsKeep
<1>28. HashOK(z)
  BY <1>4, <1>20, <1>21, <1>22 DEF HashOK
<1>29. z.head = Start(e) /\ z.tbl.tail = e[Len(e)]
  BY <1>4, <1>21, <1>23, <1>24 DEF Start
<1>30. Lists(z, e, S, n)
  BY <1>4, <1>20, <1>21, <1>24, <1>26, <1>27, <1>28, <1>29 DEF Lists
<1>31. \A j \in Item : ~Has(o, j) /\ j # i => z.hh[j] = x.hh[j]
  BY <1>3, <1>7, <1>10, <1>20, <1>22
<1>32. QED
  BY <1>2, <1>13, <1>20, <1>22, <1>30, <1>31 DEF Joins

\* From x to y the list o has become e, and no handle of other items has changed.
Becomes(y, x, o, e) ==
    Full(y, e) /\ \A j \in Item : ~Has(o, j) /\ ~Has(e, j) => y.hh[j] = x.hh[j]

LEMMA JoinOK ==
    ASSUME NEW x, NEW o \in Seq(Item), NEW i \in Item, ~Has(o, i), NEW d \in 1..(Len(o) + 1),
           NEW S, \A j : j \in S <=> Has(o, j),
           NEW z, Joins(z, x, o, i, Inserted(o, d, i), S, Len(o)), NEW y, y = HASH_ADD_TO_TABLE(z, i)
    PROVE  Becomes(y, x, o, Inserted(o, d, i))
<1>1. PICK e : e = Inserted(o, d, i)
  OBVIOUS
<1>2. Len(o) \in Nat /\ i \notin S
  OBVIOUS
<1>3. Len(e) = Len(o) + 1 /\ \A j : Has(e, j) <=> Has(o, j) \/ j = i
  BY <1>1, InsertedSeq
<1>4. Lists(z, e, S, Len(o)) /\ z.hh[i] \in Handle
  BY <1>1 DEF Joins
<1>5. Lists(y, e, S \union {i}, Len(o) + 1) /\ SameList(y.hh, z.hh, S \union {i})
  BY <1>2, <1>4, AddToTableOK
<1>6. Full(y, e)
  <2>1. \A j : j \in S \union {i} <=> Has(e, j)
    BY <1>3
  <2>2. QED
    BY <1>3, <1>5, <2>1 DEF Full
<1>7. \A j \in Item : ~Has(o, j) /\ ~Has(e, j) => y.hh[j] = x.hh[j]
  BY <1>3, <1>5 DEF SameList, Joins
<1>8. QED
  BY <1>1, <1>6, <1>7 DEF Becomes

LEMMA FullFacts ==
    ASSUME NEW x, NEW o, Full(x, o)
    PROVE  /\ HashOK(x) /\ o \in Seq(Item) /\ Injective(o) /\ o # <<>> /\ Linked(x.hh, "prev", "next", o)
           /\ x.head # NULL /\ x.head = o[1] /\ AppOrder(x) = o /\ Len(o) \in Nat \ {0}
<1>1. /\ HashOK(x) /\ Linked(x.hh, "prev", "next", o) /\ o # <<>> /\ x.head = Start(o)
  BY DEF Full, Lists
<1>2. o \in Seq(Item) /\ Injective(o)
  BY <1>1 DEF Linked
<1>3. Len(o) \in Nat \ {0} /\ o[1] \in Item
  BY <1>1, <1>2
<1>4. AppOrder(x) = o
  BY <1>1, LinkedWalk DEF AppOrder
<1>5. QED
  BY <1>1, <1>2, <1>3, <1>4, HashAssumption DEF Start

LEMMA AddOK ==
    ASSUME NEW x, NEW o, (o = <<>> /\ Empty(x)) \/ Full(x, o), NEW i \in Item, ~Has(o, i),
           NEW y, y = HASH_ADD(x, i)
    PROVE  Becomes(y, x, o, Inserted(o, Len(o) + 1, i))
<1>1. CASE o = <<>> /\ Empty(x)
  <2>1. o \in Seq(Item) /\ Len(o) = 0 /\ 1 \in 1..(Len(o) + 1) /\ Len(o) + 1 = 1
    BY <1>1
  <2>2. \A j : j \in {} <=> Has(o, j)
    BY <2>1 DEF Has
  <2>3. PICK z : z = First(x, i)
    OBVIOUS
  <2>4. Joins(z, x, o, i, Inserted(o, 1, i), {}, 0)
    BY <1>1, <2>3, FirstOK DEF Empty
  <2>5. y = HASH_ADD_TO_TABLE(z, i)
    BY <1>1, <2>3 DEF HASH_ADD, Empty
  <2>6. QED
    BY <2>1, <2>2, <2>4, <2>5, JoinOK
<1>2. CASE Full(x, o)
  <2>1. o \in Seq(Item) /\ Len(o) + 1 \in 1..(Len(o) + 1) /\ x.head # NULL
    BY <1>2, FullFacts
  <2>2. PICK S : Lists(x, o, S, Len(o)) /\ \A j : j \in S <=> Has(o, j)
    BY <1>2 DEF Full
  <2>3. PICK z : z = HASH_APPEND_LIST(x, i)
    OBVIOUS
  <2>4. Joins(z, x, o, i, Inserted(o, Len(o) + 1, i), S, Len(o))
    BY <2>2, <2>3, AppendOK
  <2>5. y = HASH_ADD_TO_TABLE(z, i)
    BY <2>1, <2>3 DEF HASH_ADD
  <2>6. QED
    BY <2>1, <2>2, <2>4, <2>5, JoinOK
<1>3. QED
  BY <1>1, <1>2

\* The place that an ordered addition finds: before the first item that ranks higher.
Place(o, i, d) ==
    /\ d \in 1..(Len(o) + 1)
    /\ \A m \in 1..(d - 1) : ~(Rank[o[m]] > Rank[i])
    /\ d =< Len(o) => Rank[o[d]] > Rank[i]

LEMMA AddInorderOK ==
    ASSUME NEW x, NEW o, (o = <<>> /\ Empty(x)) \/ Full(x, o), NEW i \in Item, ~Has(o, i),
           NEW y, y = HASH_ADD_INORDER(x, i)
    PROVE  \E d : Place(o, i, d) /\ Becomes(y, x, o, Inserted(o, d, i))
<1>1. CASE o = <<>> /\ Empty(x)
  <2>1. o \in Seq(Item) /\ Len(o) = 0 /\ 1 \in 1..(Len(o) + 1)
    BY <1>1
  <2>2. \A j : j \in {} <=> Has(o, j)
    BY <2>1 DEF Has
  <2>3. PICK z : z = First(x, i)
    OBVIOUS
  <2>4. Joins(z, x, o, i, Inserted(o, 1, i), {}, 0)
    BY <1>1, <2>3, FirstOK DEF Empty
  <2>5. y = HASH_ADD_TO_TABLE(z, i)
    BY <1>1, <2>3 DEF HASH_ADD_INORDER, Empty
  <2>6. Becomes(y, x, o, Inserted(o, 1, i))
    BY <2>1, <2>2, <2>4, <2>5, JoinOK
  <2>7. Place(o, i, 1)
    BY <2>1 DEF Place
  <2>8. QED
    BY <2>6, <2>7
<1>2. CASE Full(x, o)
  <2>1. o \in Seq(Item) /\ Len(o) \in Nat \ {0} /\ Len(o) + 1 \in 1..(Len(o) + 1) /\ x.head # NULL
        /\ AppOrder(x) = o
    BY <1>2, FullFacts
  <2>2. PICK S : Lists(x, o, S, Len(o)) /\ \A j : j \in S <=> Has(o, j)
    BY <1>2 DEF Full
  <2>3. PICK I : I = {m \in 1..Len(o) : Rank[o[m]] > Rank[i]}
    OBVIOUS
  <2>4. PICK at : at = IF I # {} THEN Min(I) ELSE 0
    OBVIOUS
  <2>5. y = HASH_ADD_TO_TABLE(IF at = 0 THEN HASH_APPEND_LIST(x, i)
                              ELSE InsertBefore(x, i, o[at]), i)
    <3>1. SelectInSeq(o, LAMBDA j : Rank[j] > Rank[i]) = at
      BY <2>3, <2>4, Zenon DEF SelectInSeq
    <3>2. y = HASH_ADD_TO_TABLE(IF SelectInSeq(o, LAMBDA j : Rank[j] > Rank[i]) = 0
                                THEN HASH_APPEND_LIST(x, i)
                                ELSE InsertBefore(x, i, o[SelectInSeq(o, LAMBDA j : Rank[j] > Rank[i])]), i)
      BY <2>1, Zenon DEF HASH_ADD_INORDER
    <3>3. QED
      BY <3>1, <3>2, Zenon
  <2>6. CASE I = {}
    <3>1. at = 0 /\ y = HASH_ADD_TO_TABLE(HASH_APPEND_LIST(x, i), i)
      BY <2>4, <2>5, <2>6
    <3>2. Joins(HASH_APPEND_LIST(x, i), x, o, i, Inserted(o, Len(o) + 1, i), S, Len(o))
      BY <2>2, AppendOK
    <3>3. Becomes(y, x, o, Inserted(o, Len(o) + 1, i))
      BY <2>1, <2>2, <3>1, <3>2, JoinOK
    <3>4. Place(o, i, Len(o) + 1)
      BY <2>1, <2>3, <2>6 DEF Place
    <3>5. QED
      BY <3>3, <3>4
  <2>7. CASE I # {}
    <3>1. at \in I /\ \A m \in I : at =< m
      BY <2>1, <2>3, <2>4, <2>7, SelectIndex
    <3>2. at \in 1..Len(o) /\ at \in 1..(Len(o) + 1) /\ at # 0
      BY <2>1, <2>3, <3>1
    <3>3. y = HASH_ADD_TO_TABLE(InsertBefore(x, i, o[at]), i)
      BY <2>5, <3>2
    <3>4. Joins(InsertBefore(x, i, o[at]), x, o, i, Inserted(o, at, i), S, Len(o))
      BY <2>2, <3>2, InsertBeforeOK
    <3>5. Becomes(y, x, o, Inserted(o, at, i))
      BY <2>1, <2>2, <3>2, <3>3, <3>4, JoinOK
    <3>6. Place(o, i, at)
      BY <2>1, <2>3, <3>1, <3>2 DEF Place
    <3>7. QED
      BY <3>5, <3>6
  <2>8. QED
    BY <2>6, <2>7
<1>3. QED
  BY <1>1, <1>2

-----------------------------------------------------------------------------
(* Deletions *)

\* The item between p and q, either of which may be NULL, has been taken out.
LEMMA LinkedUnlink ==
    ASSUME NEW hh, NEW back, NEW forth, NEW s, Linked(hh, back, forth, s), NEW d \in 1..Len(s),
           NEW p, p = hh[s[d]][back], NEW q, q = hh[s[d]][forth], NEW g,
           \A j \in Item : hh[j] \in Handle =>
               /\ g[j] \in Handle
               /\ g[j][back] = IF j = q THEN p ELSE hh[j][back]
               /\ g[j][forth] = IF j = p THEN q ELSE hh[j][forth]
    PROVE  Linked(g, back, forth, Dropped(s, d))
<1>1. PICK l : l = Len(s)
  OBVIOUS
<1>2. /\ s \in Seq(Item) /\ l \in Nat /\ d \in 1..l /\ Injective(s)
      /\ \A n \in 1..l : s[n] \in Item /\ hh[s[n]] \in Handle
      /\ \A n \in 1..l : hh[s[n]][back] = IF n = 1 THEN NULL ELSE s[n - 1]
      /\ \A n \in 1..l : hh[s[n]][forth] = IF n = l THEN NULL ELSE s[n + 1]
  BY <1>1 DEF Linked
<1>3. p = IF d = 1 THEN NULL ELSE s[d - 1]
  BY <1>2
<1>4. q = IF d = l THEN NULL ELSE s[d + 1]
  BY <1>2
<1>5. ASSUME NEW n \in 1..l, n # d
      PROVE  /\ g[s[n]] \in Handle
             /\ g[s[n]][back] = IF n = d + 1 THEN hh[s[d]][back] ELSE hh[s[n]][back]
             /\ g[s[n]][forth] = IF n = d - 1 THEN hh[s[d]][forth] ELSE hh[s[n]][forth]
  <2>1. s[n] = q <=> n = d + 1
    <3>1. CASE d = l
      BY <1>2, <1>4, <3>1, HashAssumption
    <3>2. CASE d # l
      <4>1. d + 1 \in 1..l /\ q = s[d + 1]
        BY <1>2, <1>4, <3>2
      <4>2. QED
        BY <1>1, <1>2, <4>1 DEF Injective
    <3>3. QED
      BY <3>1, <3>2
  <2>2. s[n] = p <=> n = d - 1
    <3>1. CASE d = 1
      BY <1>2, <1>3, <3>1, HashAssumption
    <3>2. CASE d # 1
      <4>1. d - 1 \in 1..l /\ p = s[d - 1]
        BY <1>2, <1>3, <3>2
      <4>2. QED
        BY <1>1, <1>2, <4>1 DEF Injective
    <3>3. QED
      BY <3>1, <3>2
  <2>3. s[n] \in Item /\ hh[s[n]] \in Handle
    BY <1>2
  <2>4. QED
    BY <2>1, <2>2, <2>3
<1>6. QED
  BY <1>1, <1>5, LinkedDrop

LEMMA LinkRefs ==
    ASSUME NEW hh, NEW back, NEW forth, NEW s, Linked(hh, back, forth, s), NEW d \in 1..Len(s)
    PROVE  /\ s[d] \in Item /\ hh[s[d]] \in Handle
           /\ hh[s[d]][back] # NULL => d # 1 /\ hh[s[d]][back] \in Item /\ Has(s, hh[s[d]][back])
                                       /\ hh[hh[s[d]][back]] \in Handle
                                       /\ hh[s[d]][back] # s[d] /\ hh[s[d]][back] = s[d - 1]
           /\ hh[s[d]][forth] # NULL => d # Len(s) /\ hh[s[d]][forth] \in Item /\ Has(s, hh[s[d]][forth])
                                       /\ hh[hh[s[d]][forth]] \in Handle
                                       /\ hh[s[d]][forth] # s[d] /\ hh[s[d]][forth] = s[d + 1]
           /\ hh[s[d]][back] # NULL => hh[s[d]][back] # hh[s[d]][forth]
           /\ hh[s[d]][back] = NULL <=> d = 1
           /\ hh[s[d]][forth] = NULL <=> d = Len(s)
<1>1. PICK l : l = Len(s)
  OBVIOUS
<1>2. /\ s \in Seq(Item) /\ l \in Nat /\ d \in 1..l
      /\ \A m, n \in 1..l : s[m] = s[n] => m = n
      /\ \A n \in 1..l : s[n] \in Item /\ s[n] # NULL /\ hh[s[n]] \in Handle /\ Has(s, s[n])
      /\ hh[s[d]][back] = IF d = 1 THEN NULL ELSE s[d - 1]
      /\ hh[s[d]][forth] = IF d = l THEN NULL ELSE s[d + 1]
  BY <1>1, HashAssumption DEF Linked, Injective, Has
<1>3. d # 1 => d - 1 \in 1..l /\ d - 1 # d
  BY <1>2
<1>4. d # l => d + 1 \in 1..l /\ d + 1 # d /\ d + 1 # d - 1
  BY <1>2
<1>5. d # 1 => s[d - 1] # s[d] /\ s[d - 1] # NULL
  BY <1>2, <1>3
<1>6. d # l => s[d + 1] # s[d] /\ s[d + 1] # NULL
  BY <1>2, <1>4
<1>7. d # 1 /\ d # l => s[d - 1] # s[d + 1]
  BY <1>2, <1>3, <1>4
<1>8. QED
  BY <1>1, <1>2, <1>3, <1>4, <1>5, <1>6, <1>7

\* The links of hh, but for those between p and q in the chain of its bucket.
ChainUnlinked(g, hh, p, q) ==
    /\ g \in [Item -> {Freed} \union Handle]
    /\ \A j \in Item : j # p /\ j # q => g[j] = hh[j]
    /\ \A j \in Item : hh[j] \in Handle =>
           /\ g[j] \in Handle
           /\ g[j]["hh_prev"] = IF j = q THEN p ELSE hh[j]["hh_prev"]
           /\ g[j]["hh_next"] = IF j = p THEN q ELSE hh[j]["hh_next"]
           /\ g[j].prev = hh[j].prev /\ g[j].next = hh[j].next

OutOfChain(hh, p, q) ==
    LET hh1 == IF p = NULL THEN hh ELSE [hh EXCEPT ![p].hh_next = q]
    IN  IF q = NULL THEN hh1 ELSE [hh1 EXCEPT ![q].hh_prev = p]

LEMMA UnlinkChain ==
    ASSUME NEW hh \in [Item -> {Freed} \union Handle], NEW p \in Ref, NEW q \in Ref,
           p # NULL => hh[p] \in Handle /\ p # q, q # NULL => hh[q] \in Handle,
           NEW g, g = OutOfChain(hh, p, q)
    PROVE  ChainUnlinked(g, hh, p, q)
<1>0. PICK g1 : /\ g1 = IF p = NULL THEN hh ELSE [hh EXCEPT ![p].hh_next = q]
                /\ g = IF q = NULL THEN g1 ELSE [g1 EXCEPT ![q].hh_prev = p]
  BY DEF OutOfChain
<1>1. /\ g1 \in [Item -> {Freed} \union Handle]
      /\ \A j \in Item : j # p => g1[j] = hh[j]
      /\ p # NULL => g1[p] \in Handle /\ g1[p].hh_next = q /\ g1[p].hh_prev = hh[p].hh_prev
                     /\ g1[p].prev = hh[p].prev /\ g1[p].next = hh[p].next
  <2>1. CASE p = NULL
    BY <1>0, <2>1, HashAssumption
  <2>2. CASE p # NULL
    <3>1. p \in Item /\ g1 = [hh EXCEPT ![p].hh_next = q]
      BY <1>0, <2>2 DEF Ref
    <3>2. PICK H : H = [hh[p] EXCEPT !.hh_next = q]
      OBVIOUS
    <3>3. H \in Handle /\ H.hh_next = q /\ H.hh_prev = hh[p].hh_prev
          /\ H.prev = hh[p].prev /\ H.next = hh[p].next
      BY <2>2, <3>2 DEF Handle
    <3>4. g1[p] = H /\ g1 \in [Item -> {Freed} \union Handle] /\ \A j \in Item : j # p => g1[j] = hh[j]
      BY <3>1, <3>2, <3>3
    <3>5. QED
      BY <3>3, <3>4
  <2>3. QED
    BY <2>1, <2>2
<1>2. CASE q = NULL
  <2>1. g = g1 /\ \A j \in Item : j # q
    BY <1>0, <1>2, HashAssumption
  <2>2. ASSUME NEW j \in Item, hh[j] \in Handle
        PROVE  /\ g[j] \in Handle
               /\ g[j]["hh_prev"] = hh[j]["hh_prev"]
               /\ g[j]["hh_next"] = IF j = p THEN q ELSE hh[j]["hh_next"]
               /\ g[j].prev = hh[j].prev /\ g[j].next = hh[j].next
    <3>1. CASE j = p
      BY <1>1, <2>1, <3>1, HashAssumption
    <3>2. CASE j # p
      BY <1>1, <2>1, <2>2, <3>2
    <3>3. QED
      BY <3>1, <3>2
  <2>3. QED
    BY <1>1, <2>1, <2>2 DEF ChainUnlinked
<1>3. CASE q # NULL
  <2>1. q \in Item /\ g = [g1 EXCEPT ![q].hh_prev = p] /\ q # p /\ g1[q] = hh[q] /\ hh[q] \in Handle
    BY <1>0, <1>1, <1>3 DEF Ref
  <2>2. PICK H : H = [hh[q] EXCEPT !.hh_prev = p]
    OBVIOUS
  <2>3. H \in Handle /\ H.hh_prev = p /\ H.hh_next = hh[q].hh_next
        /\ H.prev = hh[q].prev /\ H.next = hh[q].next
    BY <2>1, <2>2 DEF Handle
  <2>4. g[q] = H /\ g \in [Item -> {Freed} \union Handle] /\ \A j \in Item : j # q => g[j] = g1[j]
    BY <1>1, <2>1, <2>2, <2>3
  <2>5. ASSUME NEW j \in Item, hh[j] \in Handle
        PROVE  /\ g[j] \in Handle
               /\ g[j]["hh_prev"] = IF j = q THEN p ELSE hh[j]["hh_prev"]
               /\ g[j]["hh_next"] = IF j = p THEN q ELSE hh[j]["hh_next"]
               /\ g[j].prev = hh[j].prev /\ g[j].next = hh[j].next
    <3>1. CASE j = q
      BY <2>1, <2>3, <2>4, <3>1
    <3>2. CASE j # q /\ j = p
      <4>1. p # NULL
        BY <3>2, HashAssumption
      <4>2. QED
        BY <1>1, <2>4, <3>2, <4>1
    <3>3. CASE j # q /\ j # p
      BY <1>1, <2>4, <2>5, <3>3
    <3>4. QED
      BY <3>1, <3>2, <3>3
  <2>6. QED
    BY <1>1, <2>4, <2>5 DEF ChainUnlinked
<1>4. QED
  BY <1>2, <1>3 DEF ChainUnlinked

\* The links of hh, but for those between p and q in the application order.
ListUnlinked(g, hh, p, q) ==
    /\ g \in [Item -> {Freed} \union Handle]
    /\ \A j \in Item : j # p /\ j # q => g[j] = hh[j]
    /\ \A j \in Item : hh[j] \in Handle =>
           /\ g[j] \in Handle
           /\ g[j]["prev"] = IF j = q THEN p ELSE hh[j]["prev"]
           /\ g[j]["next"] = IF j = p THEN q ELSE hh[j]["next"]
           /\ g[j].hh_prev = hh[j].hh_prev /\ g[j].hh_next = hh[j].hh_next

OutOfList(hh, p, q) ==
    LET hh1 == IF p = NULL THEN hh ELSE [hh EXCEPT ![p].next = q]
    IN  IF q = NULL THEN hh1 ELSE [hh1 EXCEPT ![q].prev = p]

LEMMA UnlinkList ==
    ASSUME NEW hh \in [Item -> {Freed} \union Handle], NEW p \in Ref, NEW q \in Ref,
           p # NULL => hh[p] \in Handle /\ p # q, q # NULL => hh[q] \in Handle,
           NEW g, g = OutOfList(hh, p, q)
    PROVE  ListUnlinked(g, hh, p, q)
<1>0. PICK g1 : /\ g1 = IF p = NULL THEN hh ELSE [hh EXCEPT ![p].next = q]
                /\ g = IF q = NULL THEN g1 ELSE [g1 EXCEPT ![q].prev = p]
  BY DEF OutOfList
<1>1. /\ g1 \in [Item -> {Freed} \union Handle]
      /\ \A j \in Item : j # p => g1[j] = hh[j]
      /\ p # NULL => g1[p] \in Handle /\ g1[p].next = q /\ g1[p].prev = hh[p].prev
                     /\ g1[p].hh_prev = hh[p].hh_prev /\ g1[p].hh_next = hh[p].hh_next
  <2>1. CASE p = NULL
    BY <1>0, <2>1, HashAssumption
  <2>2. CASE p # NULL
    <3>1. p \in Item /\ g1 = [hh EXCEPT ![p].next = q]
      BY <1>0, <2>2 DEF Ref
    <3>2. PICK H : H = [hh[p] EXCEPT !.next = q]
      OBVIOUS
    <3>3. H \in Handle /\ H.next = q /\ H.prev = hh[p].prev
          /\ H.hh_prev = hh[p].hh_prev /\ H.hh_next = hh[p].hh_next
      BY <2>2, <3>2 DEF Handle
    <3>4. g1[p] = H /\ g1 \in [Item -> {Freed} \union Handle] /\ \A j \in Item : j # p => g1[j] = hh[j]
      BY <3>1, <3>2, <3>3
    <3>5. QED
      BY <3>3, <3>4
  <2>3. QED
    BY <2>1, <2>2
<1>2. CASE q = NULL
  <2>1. g = g1 /\ \A j \in Item : j # q
    BY <1>0, <1>2, HashAssumption
  <2>2. ASSUME NEW j \in Item, hh[j] \in Handle
        PROVE  /\ g[j] \in Handle
               /\ g[j]["prev"] = hh[j]["prev"]
               /\ g[j]["next"] = IF j = p THEN q ELSE hh[j]["next"]
               /\ g[j].hh_prev = hh[j].hh_prev /\ g[j].hh_next = hh[j].hh_next
    <3>1. CASE j = p
      BY <1>1, <2>1, <3>1, HashAssumption
    <3>2. CASE j # p
      BY <1>1, <2>1, <2>2, <3>2
    <3>3. QED
      BY <3>1, <3>2
  <2>3. QED
    BY <1>1, <2>1, <2>2 DEF ListUnlinked
<1>3. CASE q # NULL
  <2>1. q \in Item /\ g = [g1 EXCEPT ![q].prev = p] /\ q # p /\ g1[q] = hh[q] /\ hh[q] \in Handle
    BY <1>0, <1>1, <1>3 DEF Ref
  <2>2. PICK H : H = [hh[q] EXCEPT !.prev = p]
    OBVIOUS
  <2>3. H \in Handle /\ H.prev = p /\ H.next = hh[q].next
        /\ H.hh_prev = hh[q].hh_prev /\ H.hh_next = hh[q].hh_next
    BY <2>1, <2>2 DEF Handle
  <2>4. g[q] = H /\ g \in [Item -> {Freed} \union Handle] /\ \A j \in Item : j # q => g[j] = g1[j]
    BY <1>1, <2>1, <2>2, <2>3
  <2>5. ASSUME NEW j \in Item, hh[j] \in Handle
        PROVE  /\ g[j] \in Handle
               /\ g[j]["prev"] = IF j = q THEN p ELSE hh[j]["prev"]
               /\ g[j]["next"] = IF j = p THEN q ELSE hh[j]["next"]
               /\ g[j].hh_prev = hh[j].hh_prev /\ g[j].hh_next = hh[j].hh_next
    <3>1. CASE j = q
      BY <2>1, <2>3, <2>4, <3>1
    <3>2. CASE j # q /\ j = p
      <4>1. p # NULL
        BY <3>2, HashAssumption
      <4>2. QED
        BY <1>1, <2>4, <3>2, <4>1
    <3>3. CASE j # q /\ j # p
      BY <1>1, <2>4, <2>5, <3>3
    <3>4. QED
      BY <3>1, <3>2, <3>3
  <2>6. QED
    BY <1>1, <2>4, <2>5 DEF ListUnlinked
<1>4. QED
  BY <1>2, <1>3 DEF ListUnlinked

LEMMA ShorterBucket ==
    ASSUME NEW B \in Bucket, NEW ideal \in Nat, Short(B, ideal), NEW B2 \in Bucket,
           B2.count =< B.count, B2.expand_mult = B.expand_mult
    PROVE  Short(B2, ideal)
<1>1. B.count \in Nat /\ B2.count \in Nat /\ B.expand_mult \in Nat
  BY DEF Bucket
<1>2. (B.expand_mult + 1) * HASH_BKT_CAPACITY_THRESH \in Nat /\ (B.expand_mult + 1) * ideal \in Nat
  BY <1>1, Multiple, HashAssumption
<1>3. QED
  BY <1>1, <1>2 DEF Short

\* From x to y only the buckets have changed: they have had the items of S, and have those of R.
Rebucketed(y, x, S, R) ==
    /\ HashOK(y) /\ y.head = x.head /\ SameList(y.hh, x.hh, S)
    /\ TableOK(y.tbl) /\ y.tbl.tail = x.tbl.tail /\ y.tbl.num_items = x.tbl.num_items
    /\ BucketsOK(y.hh, y.tbl.buckets, y.tbl.num_buckets, R)
    /\ Bounded(y.tbl)

LEMMA DelInBucketOK ==
    ASSUME NEW x, HashOK(x), TableOK(x.tbl), Bounded(x.tbl),
           NEW N, N = x.tbl.num_buckets, NEW S, BucketsOK(x.hh, x.tbl.buckets, N, S), NEW i \in S,
           NEW b, b = BucketOf(i, N), NEW y, y = HASH_DEL_IN_BKT(x, b, i)
    PROVE  Rebucketed(y, x, S, S \ {i})
<1>1. PICK hh : hh = x.hh
  OBVIOUS
<1>2. /\ DOMAIN x = {"head", "tbl", "hh"} /\ hh \in [Item -> {Freed} \union Handle]
      /\ N \in Nat \ {0} /\ x.tbl.buckets \in [0..(N - 1) -> Bucket] /\ S \subseteq Item
  BY <1>1 DEF HashOK, TableOK, BucketsOK
<1>3. i \in Item /\ b \in 0..(N - 1) /\ hh[i] \in Handle
  BY <1>1, <1>2, BucketMember, BucketRange
<1>4. PICK c : Filled(hh, x.tbl.buckets[b], c) /\ \A j : Has(c, j) <=> j \in S /\ BucketOf(j, N) = b
  BY <1>1, <1>3 DEF BucketsOK
<1>5. PICK B : B = x.tbl.buckets[b]
  OBVIOUS
<1>6. Linked(hh, "hh_prev", "hh_next", c) /\ B.hh_head = Start(c) /\ B.count = Len(c) /\ c \in Seq(Item)
      /\ Injective(c) /\ B \in Bucket
  BY <1>2, <1>3, <1>4, <1>5 DEF Filled, Linked
<1>7. PICK d \in 1..Len(c) : c[d] = i
  BY <1>4 DEF Has
<1>8. PICK q : q = hh[i].hh_next
  OBVIOUS
<1>9. PICK p : p = hh[i].hh_prev
  OBVIOUS
<1>10. p \in Ref /\ q \in Ref
  BY <1>3, <1>8, <1>9 DEF Handle
<1>11. /\ p # NULL => d # 1 /\ Has(c, p) /\ hh[p] \in Handle /\ p # i /\ p # q
       /\ q # NULL => d # Len(c) /\ Has(c, q) /\ hh[q] \in Handle /\ q # i /\ q = c[d + 1]
       /\ p = NULL <=> d = 1
       /\ q = NULL <=> d = Len(c)
  <2>1. p = hh[c[d]]["hh_prev"] /\ q = hh[c[d]]["hh_next"]
    BY <1>7, <1>8, <1>9
  <2>2. QED
    BY <1>6, <1>7, <2>1, LinkRefs
<1>13. PICK g : g = OutOfChain(hh, p, q)
  OBVIOUS
<1>14. /\ g \in [Item -> {Freed} \union Handle]
       /\ \A j \in Item : j # p /\ j # q => g[j] = hh[j]
       /\ \A j \in Item : hh[j] \in Handle =>
              /\ g[j] \in Handle
              /\ g[j]["hh_prev"] = IF j = q THEN p ELSE hh[j]["hh_prev"]
              /\ g[j]["hh_next"] = IF j = p THEN q ELSE hh[j]["hh_next"]
              /\ g[j].prev = hh[j].prev /\ g[j].next = hh[j].next
  <2>1. p # NULL => hh[p] \in Handle /\ p # q
    BY <1>11
  <2>2. q # NULL => hh[q] \in Handle
    BY <1>11
  <2>3. hh \in [Item -> {Freed} \union Handle]
    BY <1>2
  <2>4. ChainUnlinked(g, hh, p, q)
    BY <1>10, <1>13, <2>1, <2>2, <2>3, UnlinkChain
  <2>5. QED
    BY <2>4 DEF ChainUnlinked
<1>15. PICK B2 : B2 = [B EXCEPT !.count = @ - 1, !.hh_head = IF @ = i THEN q ELSE @]
  OBVIOUS
<1>16. B.count \in Nat \ {0} /\ B.count - 1 \in Nat /\ B.hh_head = c[1] /\ c # <<>>
  BY <1>6, <1>7 DEF Start
<1>17. /\ B2 \in Bucket /\ B2.count = B.count - 1 /\ B2.expand_mult = B.expand_mult
       /\ B2.hh_head = IF B.hh_head = i THEN q ELSE B.hh_head
  BY <1>6, <1>10, <1>15, <1>16 DEF Bucket
<1>18. PICK v : v = [x.tbl.buckets EXCEPT ![b] = B2]
  OBVIOUS
<1>19. /\ v \in [0..(N - 1) -> Bucket] /\ v[b] = B2
       /\ \A a \in 0..(N - 1) : a # b => v[a] = x.tbl.buckets[a]
  BY <1>2, <1>3, <1>17, <1>18
<1>20. PICK T : T = [x.tbl EXCEPT !.buckets = v]
  OBVIOUS
<1>21. DOMAIN y = DOMAIN x /\ y.head = x.head /\ y.hh = g /\ y.tbl = T
  <2>1. y = [x EXCEPT !.hh = g, !.tbl.buckets[b] = B2]
    BY <1>1, <1>5, <1>8, <1>9, <1>13, <1>15 DEF HASH_DEL_IN_BKT, OutOfChain
  <2>2. PICK u : u = [x.tbl EXCEPT !.buckets[b] = B2]
    OBVIOUS
  <2>3. DOMAIN y = DOMAIN x /\ y.head = x.head /\ y.hh = g /\ y.tbl = u
    BY <1>2, <2>1, <2>2
  <2>4. u = T
    BY <1>18, <1>20, <2>2 DEF TableOK
  <2>5. QED
    BY <2>3, <2>4
<1>22. /\ DOMAIN T = DOMAIN x.tbl /\ T.buckets = v
       /\ \A f \in DOMAIN x.tbl : f # "buckets" => T[f] = x.tbl[f]
  BY <1>20 DEF TableOK
<1>23. /\ TableOK(T) /\ T.num_buckets = N /\ T.tail = x.tbl.tail /\ T.num_items = x.tbl.num_items
       /\ T.noexpand = x.tbl.noexpand /\ T.ideal_chain_maxlen = x.tbl.ideal_chain_maxlen
  BY <1>22 DEF TableOK
<1>24. Bounded(T)
  <2>1. CASE x.tbl.noexpand
    BY <1>23, <2>1 DEF Bounded
  <2>2. CASE ~x.tbl.noexpand
    <3>1. \A a \in 0..(N - 1) : Short(x.tbl.buckets[a], x.tbl.ideal_chain_maxlen)
      BY <2>2 DEF Bounded
    <3>2. x.tbl.ideal_chain_maxlen \in Nat
      BY DEF TableOK
    <3>3. Short(B2, x.tbl.ideal_chain_maxlen)
      <4>1. B2.count =< B.count /\ Short(B, x.tbl.ideal_chain_maxlen)
        BY <1>3, <1>5, <1>16, <1>17, <3>1
      <4>2. QED
        BY <1>6, <1>17, <3>2, <4>1, ShorterBucket
    <3>4. \A a \in 0..(N - 1) : Short(v[a], x.tbl.ideal_chain_maxlen)
      BY <1>19, <3>1, <3>3
    <3>5. QED
      BY <1>22, <1>23, <3>4 DEF Bounded
  <2>3. QED
    BY <2>1, <2>2
<1>25. HashOK(y)
  BY <1>2, <1>14, <1>21 DEF HashOK
<1>26. SameList(g, hh, S)
  <2>1. \A j \in Item : j \notin S => g[j] = hh[j]
    BY <1>4, <1>11, <1>14, HashAssumption
  <2>2. \A j \in Item : g[j] = Freed <=> hh[j] = Freed
    <3> TAKE j \in Item
    <3>1. CASE hh[j] \in Handle
      BY <1>14, <3>1, HashAssumption
    <3>2. CASE hh[j] = Freed
      <4>1. j \notin S
        <5> SUFFICES ASSUME j \in S PROVE FALSE
          OBVIOUS
        <5>1. hh[j] \in Handle
          BY <1>1, <1>2, BucketMember
        <5>2. QED
          BY <3>2, <5>1, HashAssumption
      <4>2. QED
        BY <2>1, <3>2, <4>1
    <3>3. QED
      BY <1>2, <3>1, <3>2
  <2>3. QED
    BY <1>14, <2>1, <2>2 DEF SameList
<1>27. ASSUME NEW a \in 0..(N - 1)
       PROVE  \E e : Filled(g, v[a], e) /\ \A j : Has(e, j) <=> j \in S \ {i} /\ BucketOf(j, N) = a
  <2>1. CASE a = b
    <3>1. PICK e : e = Dropped(c, d)
      OBVIOUS
    <3>2. e \in Seq(Item) /\ Len(e) = Len(c) - 1 /\ \A j : Has(e, j) <=> Has(c, j) /\ j # i
      <4>1. e \in Seq(Item) /\ Len(e) = Len(c) - 1
        BY <1>6, <3>1, DroppedSeq
      <4>2. \A j : Has(e, j) <=> Has(c, j) /\ j # c[d]
        BY <1>6, <3>1, DroppedSeq
      <4>3. QED
        BY <1>7, <4>1, <4>2
    <3>3. Linked(g, "hh_prev", "hh_next", e)
      <4>1. p = hh[c[d]]["hh_prev"] /\ q = hh[c[d]]["hh_next"]
        BY <1>7, <1>8, <1>9
      <4>2. \A j \in Item : hh[j] \in Handle =>
              /\ g[j] \in Handle
              /\ g[j]["hh_prev"] = IF j = q THEN p ELSE hh[j]["hh_prev"]
              /\ g[j]["hh_next"] = IF j = p THEN q ELSE hh[j]["hh_next"]
        BY <1>14
      <4>3. QED
        BY <1>6, <1>7, <3>1, <4>1, <4>2, LinkedUnlink
    <3>4. B2.hh_head = Start(e)
      <4>1. B.hh_head = i <=> d = 1
        <5>1. 1 \in 1..Len(c)
          BY <1>6, <1>7
        <5>2. QED
          BY <1>6, <1>7, <1>16, <5>1 DEF Injective
      <4>2. CASE Len(c) = 1
        <5>1. d = 1 /\ e = <<>> /\ q = NULL
          BY <1>7, <1>11, <3>2, <4>2
        <5>2. QED
          BY <1>17, <4>1, <5>1 DEF Start
      <4>3. CASE Len(c) # 1
        <5>1. e # <<>> /\ e[1] = IF 1 < d THEN c[1] ELSE c[2]
          <6>1. 1 \in 1..(Len(c) - 1)
            <7>1. PICK l : l = Len(c)
              OBVIOUS
            <7>2. l \in Nat /\ l # 0 /\ l # 1
              BY <1>6, <1>7, <4>3, <7>1
            <7>3. 1 \in 1..(l - 1)
              BY <7>2
            <7>4. QED
              BY <7>1, <7>3
          <6>2. e[1] = IF 1 < d THEN c[1] ELSE c[1 + 1]
            BY <3>1, <6>1 DEF Dropped
          <6>3. e # <<>>
            BY <3>2, <6>1
          <6>4. QED
            BY <6>2, <6>3
        <5>2. CASE d = 1
          <6>1. q # NULL /\ q = c[2]
            BY <1>11, <4>3, <5>2
          <6>2. QED
            BY <1>17, <4>1, <5>1, <5>2, <6>1 DEF Start
        <5>3. CASE d # 1
          <6>1. 1 < d
            BY <5>3
          <6>2. QED
            BY <1>16, <1>17, <4>1, <5>1, <5>3, <6>1 DEF Start
        <5>4. QED
          BY <5>2, <5>3
      <4>4. QED
        BY <4>2, <4>3
    <3>5. Filled(g, v[a], e)
      BY <1>6, <1>17, <1>19, <2>1, <3>2, <3>3, <3>4 DEF Filled
    <3>6. \A j : Has(e, j) <=> j \in S \ {i} /\ BucketOf(j, N) = a
      BY <1>4, <2>1, <3>2
    <3>7. QED
      BY <3>5, <3>6
  <2>2. CASE a # b
    <3>1. PICK e : Filled(hh, x.tbl.buckets[a], e) /\ \A j : Has(e, j) <=> j \in S /\ BucketOf(j, N) = a
      BY <1>1 DEF BucketsOK
    <3>2. Linked(hh, "hh_prev", "hh_next", e)
      BY <3>1 DEF Filled
    <3>3. \A m \in 1..Len(e) : e[m] \in Item /\ hh[e[m]] \in Handle /\ Has(e, e[m])
      BY <3>2 DEF Linked, Has
    <3>4. \A m \in 1..Len(e) : BucketOf(e[m], N) = a
      BY <3>1, <3>3
    <3>5. (p # NULL => BucketOf(p, N) = b) /\ (q # NULL => BucketOf(q, N) = b)
      BY <1>4, <1>11
    <3>6. \A m \in 1..Len(e) : e[m] # p /\ e[m] # q
      BY <2>2, <3>3, <3>4, <3>5, HashAssumption
    <3>7. \A m \in 1..Len(e) : g[e[m]] = hh[e[m]]
      BY <1>14, <3>3, <3>6
    <3>8. Linked(g, "hh_prev", "hh_next", e)
      BY <3>2, <3>3, <3>7, LinkedFrame
    <3>9. Filled(g, v[a], e)
      BY <1>19, <2>2, <3>1, <3>8 DEF Filled
    <3>10. \A j : Has(e, j) <=> j \in S \ {i} /\ BucketOf(j, N) = a
      BY <1>7, <2>2, <3>1
    <3>11. QED
      BY <3>9, <3>10
  <2>3. QED
    BY <2>1, <2>2
<1>28. BucketsOK(g, v, N, S \ {i})
  <2>1. S \ {i} \subseteq Item
    BY <1>2
  <2>2. QED
    BY <1>19, <1>27, <2>1 DEF BucketsOK
<1>29. QED
  BY <1>1, <1>21, <1>22, <1>23, <1>24, <1>25, <1>26, <1>28 DEF Rebucketed

LEMMA DeleteOK ==
    ASSUME NEW x, NEW o, Full(x, o), NEW d \in 1..Len(o), NEW y, y = HASH_DELETE(x, o[d])
    PROVE  IF Len(o) = 1 THEN Empty(y) /\ y.hh = x.hh ELSE Becomes(y, x, o, Dropped(o, d))
<1>1. PICK i : i = o[d]
  OBVIOUS
<1>2. PICK l : l = Len(o)
  OBVIOUS
<1>3. PICK hh : hh = x.hh
  OBVIOUS
<1>4. PICK S : Lists(x, o, S, l) /\ \A j : j \in S <=> Has(o, j)
  BY <1>2 DEF Full
<1>5. /\ HashOK(x) /\ DOMAIN x = {"head", "tbl", "hh"} /\ hh \in [Item -> {Freed} \union Handle]
      /\ Linked(hh, "prev", "next", o) /\ o # <<>> /\ x.head = Start(o)
      /\ TableOK(x.tbl) /\ x.tbl.tail = o[l] /\ x.tbl.num_items = l
      /\ BucketsOK(hh, x.tbl.buckets, x.tbl.num_buckets, S) /\ Bounded(x.tbl)
  BY <1>2, <1>3, <1>4 DEF Lists, HashOK
<1>6. /\ o \in Seq(Item) /\ l \in Nat \ {0} /\ Injective(o) /\ d \in 1..l /\ x.head = o[1]
      /\ \A m, n \in 1..l : o[m] = o[n] => m = n
  BY <1>2, <1>5 DEF Linked, Injective, Start
<1>7. PICK p : p = hh[i].prev
  OBVIOUS
<1>8. PICK q : q = hh[i].next
  OBVIOUS
<1>9. /\ i \in Item /\ hh[i] \in Handle
      /\ p # NULL => d # 1 /\ Has(o, p) /\ hh[p] \in Handle /\ p # i /\ p # q /\ p = o[d - 1]
      /\ q # NULL => d # l /\ Has(o, q) /\ hh[q] \in Handle /\ q # i /\ q = o[d + 1]
      /\ p = NULL <=> d = 1
      /\ q = NULL <=> d = l
  <2>1. p = hh[o[d]]["prev"] /\ q = hh[o[d]]["next"]
    BY <1>1, <1>7, <1>8
  <2>2. QED
    BY <1>1, <1>2, <1>5, <2>1, LinkRefs
<1>10. p \in Ref /\ q \in Ref
  BY <1>7, <1>8, <1>9 DEF Handle
<1>11. CASE l = 1
  <2>1. p = NULL /\ q = NULL
    BY <1>6, <1>9, <1>11
  <2>2. y = [x EXCEPT !.head = NULL, !.tbl = NULL]
    BY <1>1, <1>3, <1>7, <1>8, <2>1 DEF HASH_DELETE
  <2>3. DOMAIN y = DOMAIN x /\ y.head = NULL /\ y.tbl = NULL /\ y.hh = x.hh
    BY <1>5, <2>2
  <2>4. QED
    BY <1>2, <1>3, <1>5, <1>11, <2>3 DEF Empty, HashOK
<1>12. CASE l # 1
  <2>1. ~(p = NULL /\ q = NULL)
    BY <1>9, <1>12
  <2>2. PICK g : g = OutOfList(hh, p, q)
    OBVIOUS
  <2>3. ListUnlinked(g, hh, p, q)
    <3>1. p # NULL => hh[p] \in Handle /\ p # q
      BY <1>9
    <3>2. q # NULL => hh[q] \in Handle
      BY <1>9
    <3>3. hh \in [Item -> {Freed} \union Handle]
      BY <1>5
    <3>4. QED
      BY <1>10, <2>2, <3>1, <3>2, <3>3, UnlinkList
  <2>4. PICK t : t = [x.tbl EXCEPT !.num_items = @ - 1, !.tail = IF @ = i THEN p ELSE @]
    OBVIOUS
  <2>5. PICK u : u = [head |-> IF p = NULL THEN q ELSE x.head, hh |-> g, tbl |-> t]
    OBVIOUS
  <2>6. y = HASH_DEL_IN_BKT(u, BucketOf(i, x.tbl.num_buckets), i)
    BY <1>1, <1>3, <1>7, <1>8, <2>1, <2>2, <2>4, <2>5 DEF HASH_DELETE, OutOfList
  <2>7. /\ DOMAIN t = DOMAIN x.tbl /\ t.num_items = l - 1
        /\ t.tail = IF x.tbl.tail = i THEN p ELSE x.tbl.tail
        /\ \A f \in DOMAIN x.tbl : f \notin {"num_items", "tail"} => t[f] = x.tbl[f]
    BY <1>5, <2>4 DEF TableOK
  <2>8. /\ t.num_buckets = x.tbl.num_buckets /\ t.buckets = x.tbl.buckets
        /\ t.noexpand = x.tbl.noexpand /\ t.ideal_chain_maxlen = x.tbl.ideal_chain_maxlen
    BY <1>5, <2>7 DEF TableOK
  <2>9. TableOK(t) /\ Bounded(t)
    <3>1. l - 1 \in Nat
      BY <1>6
    <3>2. TableOK(t)
      BY <1>5, <2>7, <3>1 DEF TableOK
    <3>3. QED
      BY <1>5, <2>8, <3>2 DEF Bounded
  <2>10. u.head = (IF p = NULL THEN q ELSE x.head) /\ u.hh = g /\ u.tbl = t /\ DOMAIN u = {"head", "tbl", "hh"}
    BY <2>5
  <2>11. HashOK(u)
    BY <2>3, <2>10 DEF HashOK, ListUnlinked
  <2>12. BucketsOK(g, x.tbl.buckets, x.tbl.num_buckets, S)
    <3>1. \A j \in S : hh[j] \in Handle /\ j \in Item
      BY <1>4, <1>5 DEF Linked, Has
    <3>2. \A j \in S : /\ g[j] \in Handle
                       /\ g[j].hh_prev = hh[j].hh_prev /\ g[j].hh_next = hh[j].hh_next
      BY <2>3, <3>1 DEF ListUnlinked
    <3>3. QED
      BY <1>5, <3>2, BucketsKeep
  <2>13. i \in S
    BY <1>1, <1>4 DEF Has
  <2>14. /\ HashOK(y) /\ y.head = u.head /\ SameList(y.hh, u.hh, S)
         /\ TableOK(y.tbl) /\ y.tbl.tail = u.tbl.tail /\ y.tbl.num_items = u.tbl.num_items
         /\ BucketsOK(y.hh, y.tbl.buckets, y.tbl.num_buckets, S \ {i})
         /\ Bounded(y.tbl)
    <3>1. PICK N : N = u.tbl.num_buckets
      OBVIOUS
    <3>2. TableOK(u.tbl) /\ Bounded(u.tbl) /\ BucketsOK(u.hh, u.tbl.buckets, N, S)
      BY <2>8, <2>9, <2>10, <2>12, <3>1
    <3>3. y = HASH_DEL_IN_BKT(u, BucketOf(i, N), i)
      BY <2>6, <2>8, <2>10, <3>1
    <3>4. Rebucketed(y, u, S, S \ {i})
      BY <2>11, <2>13, <3>1, <3>2, <3>3, DelInBucketOK
    <3>5. QED
      BY <3>4 DEF Rebucketed
  <2>15. PICK e : e = Dropped(o, d)
    OBVIOUS
  <2>16. e \in Seq(Item) /\ Len(e) = l - 1
    BY <1>2, <1>6, <2>15, DroppedSeq
  <2>17. \A j : Has(e, j) <=> Has(o, j) /\ j # i
    <3>1. \A j : Has(e, j) <=> Has(o, j) /\ j # o[d]
      BY <1>6, <2>15, DroppedSeq
    <3>2. QED
      BY <1>1, <3>1
  <2>18. \A m \in 1..(l - 1) : e[m] = IF m < d THEN o[m] ELSE o[m + 1]
    BY <1>2, <2>15 DEF Dropped
  <2>19. Linked(g, "prev", "next", e)
    <3>1. p = hh[o[d]]["prev"] /\ q = hh[o[d]]["next"]
      BY <1>1, <1>7, <1>8
    <3>2. \A j \in Item : hh[j] \in Handle =>
              /\ g[j] \in Handle
              /\ g[j]["prev"] = IF j = q THEN p ELSE hh[j]["prev"]
              /\ g[j]["next"] = IF j = p THEN q ELSE hh[j]["next"]
      BY <2>3 DEF ListUnlinked
    <3>3. QED
      BY <1>5, <2>15, <3>1, <3>2, LinkedUnlink
  <2>20. Linked(y.hh, "prev", "next", e)
    BY <2>10, <2>14, <2>19, SameListLinked
  <2>21. 1 \in 1..(l - 1) /\ l - 1 \in 1..(l - 1) /\ (l - 1) + 1 = l /\ e # <<>>
    <3>1. 1 \in 1..(l - 1) /\ l - 1 \in 1..(l - 1) /\ (l - 1) + 1 = l
      BY <1>6, <1>12
    <3>2. QED
      BY <2>16, <3>1
  <2>22. y.head = Start(e)
    <3>1. e[1] = IF 1 < d THEN o[1] ELSE o[1 + 1]
      BY <2>18, <2>21
    <3>2. CASE d = 1
      <4>1. d # l
        BY <1>12, <3>2
      <4>2. q # NULL /\ p = NULL
        BY <1>9, <3>2, <4>1
      <4>3. u.head = q /\ q = o[2]
        BY <1>9, <2>10, <3>2, <4>2
      <4>4. QED
        BY <2>14, <2>21, <3>1, <3>2, <4>3 DEF Start
    <3>3. CASE d # 1
      <4>1. 1 < d
        BY <1>6, <3>3
      <4>2. p # NULL
        BY <1>9, <3>3
      <4>3. QED
        BY <1>6, <2>10, <2>14, <2>21, <3>1, <4>1, <4>2 DEF Start
    <3>4. QED
      BY <3>2, <3>3
  <2>23. y.tbl.tail = e[Len(e)]
    <3>1. e[l - 1] = IF l - 1 < d THEN o[l - 1] ELSE o[l]
      BY <2>18, <2>21
    <3>2. CASE d = l
      <4>1. p = o[d - 1] /\ x.tbl.tail = i
        BY <1>1, <1>5, <1>9, <1>12, <3>2
      <4>2. l - 1 < d
        BY <1>6, <3>2
      <4>3. t.tail = o[l - 1]
        BY <2>7, <3>2, <4>1
      <4>4. QED
        BY <2>10, <2>14, <2>16, <3>1, <4>2, <4>3
    <3>3. CASE d # l
      <4>1. x.tbl.tail # i
        <5>1. l \in 1..l
          BY <1>6
        <5>2. QED
          BY <1>1, <1>5, <1>6, <3>3, <5>1
      <4>2. ~(l - 1 < d)
        BY <1>6, <3>3
      <4>3. QED
        BY <1>5, <2>7, <2>10, <2>14, <2>16, <3>1, <4>1, <4>2
    <3>4. QED
      BY <3>2, <3>3
  <2>24. y.tbl.num_items = Len(e)
    BY <2>7, <2>10, <2>14, <2>16
  <2>25. Lists(y, e, S \ {i}, Len(e))
    BY <2>14, <2>20, <2>21, <2>22, <2>23, <2>24 DEF Lists
  <2>26. \A j : j \in S \ {i} <=> Has(e, j)
    BY <1>4, <2>17
  <2>27. Full(y, e)
    BY <2>25, <2>26 DEF Full
  <2>28. \A j \in Item : ~Has(o, j) /\ ~Has(e, j) => y.hh[j] = x.hh[j]
    <3> SUFFICES ASSUME NEW j \in Item, ~Has(o, j) PROVE y.hh[j] = hh[j]
      BY <1>3
    <3>1. y.hh[j] = g[j]
      BY <1>4, <2>10, <2>14 DEF SameList
    <3>2. j # p /\ j # q
      BY <1>9, HashAssumption
    <3>3. QED
      BY <2>3, <3>1, <3>2 DEF ListUnlinked
  <2>29. QED
    BY <1>2, <1>12, <2>15, <2>27, <2>28 DEF Becomes
<1>13. QED
  BY <1>11, <1>12

\* Freeing what is not in the hash changes nothing in it.
LEMMA FreeOK ==
    ASSUME NEW x, NEW gone, NEW y, y = Free(x, gone), HashOK(x)
    PROVE  /\ HashOK(y) /\ y.head = x.head /\ y.tbl = x.tbl
           /\ \A j \in Item : y.hh[j] = IF j \in gone THEN Freed ELSE x.hh[j]
           /\ \A o : Full(x, o) /\ (\A j \in gone : ~Has(o, j)) => Full(y, o)
<1>1. DOMAIN x = {"head", "tbl", "hh"} /\ x.hh \in [Item -> {Freed} \union Handle]
  BY DEF HashOK
<1>2. PICK g : g = [i \in Item |-> IF i \in gone THEN Freed ELSE x.hh[i]]
  OBVIOUS
<1>3. y = [x EXCEPT !.hh = g]
  BY <1>2 DEF Free
<1>4. DOMAIN y = DOMAIN x /\ y.head = x.head /\ y.tbl = x.tbl /\ y.hh = g
  BY <1>1, <1>3
<1>5. g \in [Item -> {Freed} \union Handle] /\ \A j \in Item : g[j] = IF j \in gone THEN Freed ELSE x.hh[j]
  BY <1>1, <1>2
<1>6. HashOK(y)
  BY <1>1, <1>4, <1>5 DEF HashOK
<1>7. ASSUME NEW o, Full(x, o), \A j \in gone : ~Has(o, j)
      PROVE  Full(y, o)
  <2>1. PICK S : Lists(x, o, S, Len(o)) /\ \A j : j \in S <=> Has(o, j)
    BY <1>7 DEF Full
  <2>2. /\ Linked(x.hh, "prev", "next", o)
        /\ BucketsOK(x.hh, x.tbl.buckets, x.tbl.num_buckets, S)
    BY <2>1 DEF Lists
  <2>3. \A n \in 1..Len(o) : o[n] \in Item /\ x.hh[o[n]] \in Handle /\ Has(o, o[n])
    BY <2>2 DEF Linked, Has
  <2>4. \A n \in 1..Len(o) : g[o[n]] = x.hh[o[n]]
    BY <1>5, <1>7, <2>3
  <2>5. Linked(g, "prev", "next", o)
    BY <2>2, <2>3, <2>4, LinkedFrame
  <2>6. \A j \in S : j \in Item /\ x.hh[j] \in Handle /\ j \notin gone
    BY <1>7, <2>1, <2>3 DEF Has
  <2>7. \A j \in S : /\ g[j] \in Handle
                     /\ g[j].hh_prev = x.hh[j].hh_prev /\ g[j].hh_next = x.hh[j].hh_next
    BY <1>5, <2>6
  <2>8. BucketsOK(g, x.tbl.buckets, x.tbl.num_buckets, S)
    BY <2>2, <2>7, BucketsKeep
  <2>9. Lists(y, o, S, Len(o))
    BY <1>4, <1>6, <2>1, <2>5, <2>8 DEF Lists
  <2>10. QED
    BY <2>1, <2>9 DEF Full
<1>8. QED
  BY <1>4, <1>5, <1>6, <1>7

\* A search finds an item with the key if there is one.
LEMMA FindOK ==
    ASSUME NEW x, NEW o, (o = <<>> /\ Empty(x)) \/ Full(x, o), NEW k \in DOMAIN Hash,
           NEW r, r = HASH_FIND(x, k)
    PROVE  IF \E j : Has(o, j) /\ Key[j] = k THEN Has(o, r) /\ Key[r] = k ELSE r = NULL
<1>1. CASE o = <<>> /\ Empty(x)
  <2>1. \A j : ~Has(o, j)
    BY <1>1 DEF Has
  <2>2. r = NULL
    BY <1>1 DEF HASH_FIND, Empty
  <2>3. QED
    BY <2>1, <2>2
<1>2. CASE Full(x, o)
  <2>1. PICK N : N = x.tbl.num_buckets
    OBVIOUS
  <2>2. PICK S : /\ x.head # NULL /\ TableOK(x.tbl) /\ N \in Nat \ {0}
                 /\ BucketsOK(x.hh, x.tbl.buckets, N, S) /\ \A j : j \in S <=> Has(o, j)
    BY <1>2, <2>1, FullFacts DEF Full, Lists, TableOK
  <2>3. PICK b \in 0..(N - 1) : b = HASH_TO_BKT(Hash[k], N)
    BY <2>2, HashAssumption DEF HASH_TO_BKT
  <2>4. PICK c : Filled(x.hh, x.tbl.buckets[b], c) /\ \A j : Has(c, j) <=> j \in S /\ BucketOf(j, N) = b
    BY <2>2 DEF BucketsOK
  <2>5. Linked(x.hh, "hh_prev", "hh_next", c) /\ x.tbl.buckets[b].hh_head = Start(c) /\ c \in Seq(Item)
    BY <2>4 DEF Filled, Linked
  <2>6. Chain(x, b) = c
    BY <2>5, LinkedWalk DEF Chain
  <2>7. PICK I : I = {m \in 1..Len(c) : Key[c[m]] = k}
    OBVIOUS
  <2>8. PICK found : found = IF I # {} THEN Min(I) ELSE 0
    OBVIOUS
  <2>9. r = IF found = 0 THEN NULL ELSE c[found]
    <3>1. SelectInSeq(c, LAMBDA i : Key[i] = k) = found
      BY <2>7, <2>8, Zenon DEF SelectInSeq
    <3>2. r = IF x.head = NULL \/ SelectInSeq(c, LAMBDA i : Key[i] = k) = 0 THEN NULL
              ELSE c[SelectInSeq(c, LAMBDA i : Key[i] = k)]
      BY <2>1, <2>3, <2>6, Zenon DEF HASH_FIND
    <3>3. r = IF x.head = NULL \/ found = 0 THEN NULL ELSE c[found]
      BY <3>1, <3>2, Zenon
    <3>4. QED
      BY <2>2, <3>3
  <2>10. \A j : Has(o, j) /\ Key[j] = k => Has(c, j)
    BY <2>2, <2>3, <2>4 DEF BucketOf
  <2>11. Len(c) \in Nat
    BY <2>5
  <2>12. CASE I = {}
    <3>1. \A j : Has(c, j) => Key[j] # k
      BY <2>7, <2>12 DEF Has
    <3>2. r = NULL
      BY <2>8, <2>9, <2>12
    <3>3. QED
      BY <2>10, <3>1, <3>2
  <2>13. CASE I # {}
    <3>1. found \in I
      BY <2>7, <2>8, <2>11, <2>13, SelectIndex
    <3>2. found \in 1..Len(c) /\ Key[c[found]] = k /\ found # 0
      BY <2>7, <2>11, <3>1
    <3>3. r = c[found] /\ Has(c, r) /\ Key[r] = k
      BY <2>9, <3>2 DEF Has
    <3>4. Has(o, r)
      BY <2>2, <2>4, <3>3
    <3>5. QED
      BY <3>3, <3>4
  <2>14. QED
    BY <2>12, <2>13
<1>3. QED
  BY <1>1, <1>2

-----------------------------------------------------------------------------
(* The sort *)

\* x comes before y in o.
Earlier(o, x, y) == \E i, j \in 1..Len(o) : i < j /\ o[i] = x /\ o[j] = y

\* x comes before y when o is sorted and items that compare equal stay in order.
Before(o, x, y) == Rank[x] < Rank[y] \/ (Rank[x] = Rank[y] /\ Earlier(o, x, y))

Ordered(o, s) == \A m, n \in 1..Len(s) : m < n => Before(o, s[m], s[n])

LEMMA EarlierOrder ==
    ASSUME NEW o \in Seq(Item), Injective(o)
    PROVE  /\ \A x : ~Earlier(o, x, x)
           /\ \A x, y, z : Earlier(o, x, y) /\ Earlier(o, y, z) => Earlier(o, x, z)
<1>1. ASSUME NEW x, Earlier(o, x, x) PROVE FALSE
  BY <1>1 DEF Earlier, Injective
<1>2. ASSUME NEW x, NEW y, NEW z, Earlier(o, x, y), Earlier(o, y, z)
      PROVE  Earlier(o, x, z)
  <2>1. PICK i, j \in 1..Len(o) : i < j /\ o[i] = x /\ o[j] = y
    BY <1>2 DEF Earlier
  <2>2. PICK m, n \in 1..Len(o) : m < n /\ o[m] = y /\ o[n] = z
    BY <1>2 DEF Earlier
  <2>3. j = m
    BY <2>1, <2>2 DEF Injective
  <2>4. i < n
    BY <2>1, <2>2, <2>3
  <2>5. QED
    BY <2>1, <2>2, <2>4 DEF Earlier
<1>3. QED
  BY <1>1, <1>2

LEMMA BeforeOrder ==
    ASSUME NEW o \in Seq(Item), Injective(o)
    PROVE  /\ \A x \in Item : ~Before(o, x, x)
           /\ \A x, y, z \in Item : Before(o, x, y) /\ Before(o, y, z) => Before(o, x, z)
<1>1. /\ \A x : ~Earlier(o, x, x)
      /\ \A x, y, z : Earlier(o, x, y) /\ Earlier(o, y, z) => Earlier(o, x, z)
  BY EarlierOrder
<1>2. \A x \in Item : ~Before(o, x, x)
  BY <1>1, HashAssumption DEF Before
<1>3. ASSUME NEW x \in Item, NEW y \in Item, NEW z \in Item, Before(o, x, y), Before(o, y, z)
      PROVE  Before(o, x, z)
  <2>1. Rank[x] \in Int /\ Rank[y] \in Int /\ Rank[z] \in Int
    BY HashAssumption
  <2>2. CASE Rank[x] < Rank[z]
    BY <2>2 DEF Before
  <2>3. CASE ~(Rank[x] < Rank[z])
    <3>1. Rank[x] = Rank[y] /\ Rank[y] = Rank[z] /\ Earlier(o, x, y) /\ Earlier(o, y, z)
      BY <1>3, <2>1, <2>3 DEF Before
    <3>2. QED
      BY <1>1, <3>1 DEF Before
  <2>4. QED
    BY <2>2, <2>3
<1>4. QED
  BY <1>2, <1>3

\* It is enough that neighbours are in order.
LEMMA NeighboursOrdered ==
    ASSUME NEW o \in Seq(Item), Injective(o), NEW s \in Seq(Item),
           \A n \in 1..(Len(s) - 1) : Before(o, s[n], s[n + 1])
    PROVE  Ordered(o, s) /\ Injective(s)
<1>1. PICK l : l = Len(s)
  OBVIOUS
<1>2. l \in Nat /\ \A n \in 1..l : s[n] \in Item
  BY <1>1
<1>3. PICK T : T = {n \in Nat : \A m \in 1..l : m < n /\ n =< l => Before(o, s[m], s[n])}
  OBVIOUS
<1>4. 0 \in T
  BY <1>2, <1>3
<1>5. \A n \in Nat : n \in T => n + 1 \in T
  <2> SUFFICES ASSUME NEW n \in Nat, n \in T, n + 1 =< l, NEW m \in 1..l, m < n + 1
               PROVE  Before(o, s[m], s[n + 1])
    BY <1>3
  <2>1. m \in Nat /\ n \in 1..(l - 1) /\ n \in 1..l /\ n + 1 \in 1..l
    BY <1>2
  <2>2. Before(o, s[n], s[n + 1])
    BY <1>1, <2>1
  <2>3. CASE m = n
    BY <2>2, <2>3
  <2>4. CASE m # n
    <3>1. m < n /\ n =< l
      BY <2>1, <2>4
    <3>2. Before(o, s[m], s[n])
      BY <1>3, <3>1
    <3>3. s[m] \in Item /\ s[n] \in Item /\ s[n + 1] \in Item
      BY <1>2, <2>1
    <3>4. QED
      BY <2>2, <3>2, <3>3, BeforeOrder
  <2>5. QED
    BY <2>3, <2>4
<1>6. \A n \in Nat : n \in T
  BY <1>4, <1>5, Induction
<1>7. Ordered(o, s)
  <2>1. \A m, n \in 1..l : m < n => Before(o, s[m], s[n])
    BY <1>2, <1>3, <1>6
  <2>2. QED
    BY <1>1, <2>1 DEF Ordered
<1>8. Injective(s)
  <2>1. ASSUME NEW m \in 1..l, NEW n \in 1..l, s[m] = s[n], m # n PROVE FALSE
    <3>1. m < n \/ n < m
      BY <1>2, <2>1
    <3>2. Before(o, s[m], s[m])
      BY <1>1, <1>7, <2>1, <3>1 DEF Ordered
    <3>3. QED
      BY <1>2, <3>2, BeforeOrder
  <2>2. QED
    BY <1>1, <2>1 DEF Injective
<1>9. QED
  BY <1>7, <1>8

\* How many items of p are among the first k of the merge.
Taking(f, p, q) ==
    f = [k \in 0..(Len(p) + Len(q)) |->
            IF k = 0 THEN 0
            ELSE IF /\ f[k - 1] + 1 =< Len(p)
                    /\ k - f[k - 1] =< Len(q) => Rank[p[f[k - 1] + 1]] =< Rank[q[k - f[k - 1]]]
                 THEN f[k - 1] + 1 ELSE f[k - 1]]

LEMMA MergeDefined ==
    ASSUME NEW p \in Seq(Item), NEW q \in Seq(Item)
    PROVE  \E f : /\ Taking(f, p, q)
                  /\ Merge(p, q) = [k \in 1..(Len(p) + Len(q)) |->
                                       IF f[k] > f[k - 1] THEN p[f[k]] ELSE q[k - f[k]]]
<1>1. PICK l : l = Len(p) + Len(q)
  OBVIOUS
<1>2. l \in Nat
  BY <1>1
<1>3. PICK T : T = {m \in Nat : \E f : f = [k \in 0..m |->
            IF k = 0 THEN 0
            ELSE IF /\ f[k - 1] + 1 =< Len(p)
                    /\ k - f[k - 1] =< Len(q) => Rank[p[f[k - 1] + 1]] =< Rank[q[k - f[k - 1]]]
                 THEN f[k - 1] + 1 ELSE f[k - 1]]}
  OBVIOUS
<1>4. 0 \in T
  <2>1. PICK f : f = [k \in 0..0 |-> 0]
    OBVIOUS
  <2>2. f = [k \in 0..0 |->
            IF k = 0 THEN 0
            ELSE IF /\ f[k - 1] + 1 =< Len(p)
                    /\ k - f[k - 1] =< Len(q) => Rank[p[f[k - 1] + 1]] =< Rank[q[k - f[k - 1]]]
                 THEN f[k - 1] + 1 ELSE f[k - 1]]
    BY <2>1
  <2>3. QED
    BY <1>3, <2>2
<1>5. \A m \in Nat : m \in T => m + 1 \in T
  <2> SUFFICES ASSUME NEW m \in Nat, m \in T PROVE m + 1 \in T
    OBVIOUS
  <2>1. PICK f : f = [k \in 0..m |->
            IF k = 0 THEN 0
            ELSE IF /\ f[k - 1] + 1 =< Len(p)
                    /\ k - f[k - 1] =< Len(q) => Rank[p[f[k - 1] + 1]] =< Rank[q[k - f[k - 1]]]
                 THEN f[k - 1] + 1 ELSE f[k - 1]]
    BY <1>3
  <2>2. PICK g : g = [k \in 0..(m + 1) |->
            IF k = 0 THEN 0
            ELSE IF /\ f[k - 1] + 1 =< Len(p)
                    /\ k - f[k - 1] =< Len(q) => Rank[p[f[k - 1] + 1]] =< Rank[q[k - f[k - 1]]]
                 THEN f[k - 1] + 1 ELSE f[k - 1]]
    OBVIOUS
  <2>3. \A k \in 0..m : g[k] = f[k]
    <3>1. \A k \in 0..m : f[k] =
            IF k = 0 THEN 0
            ELSE IF /\ f[k - 1] + 1 =< Len(p)
                    /\ k - f[k - 1] =< Len(q) => Rank[p[f[k - 1] + 1]] =< Rank[q[k - f[k - 1]]]
                 THEN f[k - 1] + 1 ELSE f[k - 1]
      BY <2>1, Zenon
    <3>2. \A k \in 0..(m + 1) : g[k] =
            IF k = 0 THEN 0
            ELSE IF /\ f[k - 1] + 1 =< Len(p)
                    /\ k - f[k - 1] =< Len(q) => Rank[p[f[k - 1] + 1]] =< Rank[q[k - f[k - 1]]]
                 THEN f[k - 1] + 1 ELSE f[k - 1]
      BY <2>2, Zenon
    <3>3. \A k \in 0..m : k \in 0..(m + 1)
      OBVIOUS
    <3>4. QED
      BY <3>1, <3>2, <3>3, Zenon
  <2>4. \A k \in 0..(m + 1) : k # 0 => g[k - 1] = f[k - 1]
    BY <2>3
  <2>5. g = [k \in 0..(m + 1) |->
            IF k = 0 THEN 0
            ELSE IF /\ g[k - 1] + 1 =< Len(p)
                    /\ k - g[k - 1] =< Len(q) => Rank[p[g[k - 1] + 1]] =< Rank[q[k - g[k - 1]]]
                 THEN g[k - 1] + 1 ELSE g[k - 1]]
    BY <2>2, <2>4
  <2>6. m + 1 \in Nat
    OBVIOUS
  <2>7. QED
    BY <1>3, <2>5, <2>6, Zenon
<1>6. l \in T
  BY <1>2, <1>4, <1>5, Induction
<1> DEFINE taken == CHOOSE f : f = [k \in 0..(Len(p) + Len(q)) |->
            IF k = 0 THEN 0
            ELSE IF /\ f[k - 1] + 1 =< Len(p)
                    /\ k - f[k - 1] =< Len(q) => Rank[p[f[k - 1] + 1]] =< Rank[q[k - f[k - 1]]]
                 THEN f[k - 1] + 1 ELSE f[k - 1]]
<1>7. Taking(taken, p, q)
  BY <1>1, <1>3, <1>6, Zenon DEF Taking
<1>8. Merge(p, q) = [k \in 1..(Len(p) + Len(q)) |->
                        IF taken[k] > taken[k - 1] THEN p[taken[k]] ELSE q[k - taken[k]]]
  BY DEF Merge
<1> HIDE DEF taken
<1>9. QED
  BY <1>7, <1>8

\* The merge takes its k-th item from p or from q, each time the one that is due.
Takes(f, p, q, k) ==
    /\ f[k] \in 0..Len(p) /\ k - f[k] \in 0..Len(q)
    /\ k # 0 => /\ f[k - 1] \in 0..Len(p) /\ (k - 1) - f[k - 1] \in 0..Len(q)
                /\ \/ /\ f[k] = f[k - 1] + 1
                      /\ k - f[k - 1] =< Len(q) => Rank[p[f[k]]] =< Rank[q[k - f[k - 1]]]
                   \/ /\ f[k] = f[k - 1]
                      /\ f[k] < Len(p) => Rank[p[f[k] + 1]] > Rank[q[k - f[k]]]

LEMMA TakingOK ==
    ASSUME NEW p \in Seq(Item), NEW q \in Seq(Item), NEW f, Taking(f, p, q)
    PROVE  \A k \in 0..(Len(p) + Len(q)) : Takes(f, p, q, k)
<1>1. PICK a : a = Len(p)
  OBVIOUS
<1>2. PICK b : b = Len(q)
  OBVIOUS
<1> PICK N : N = a + b
  OBVIOUS
<1>3. /\ a \in Nat /\ b \in Nat /\ N \in Nat /\ N = a + b
      /\ \A n \in 1..a : Rank[p[n]] \in Int
      /\ \A n \in 1..b : Rank[q[n]] \in Int
  BY <1>1, <1>2, HashAssumption
<1>4. \A k \in 0..N : f[k] =
            IF k = 0 THEN 0
            ELSE IF /\ f[k - 1] + 1 =< a
                    /\ k - f[k - 1] =< b => Rank[p[f[k - 1] + 1]] =< Rank[q[k - f[k - 1]]]
                 THEN f[k - 1] + 1 ELSE f[k - 1]
  BY <1>1, <1>2, Zenon DEF Taking
<1>5. PICK T : T = {k \in Nat : Takes(f, p, q, k)}
  OBVIOUS
<1>6. 0 \in T
  <2>1. f[0] = 0
    <3>1. 0 \in 0..N
      BY <1>3
    <3>2. QED
      BY <1>4, <3>1
  <2>2. QED
    BY <1>1, <1>2, <1>3, <1>5, <2>1 DEF Takes
<1>7. \A k \in 0..(N - 1) : k \in T => k + 1 \in T
  <2> SUFFICES ASSUME NEW k \in 0..(N - 1), k \in T PROVE k + 1 \in T
    OBVIOUS
  <2>1. /\ k \in Nat /\ k + 1 \in Nat /\ k + 1 \in 0..N /\ k + 1 # 0 /\ (k + 1) - 1 = k
    BY <1>3
  <2>2. PICK t : t = f[k]
    OBVIOUS
  <2>3. t \in 0..a /\ k - t \in 0..b
    BY <1>1, <1>2, <1>5, <2>2 DEF Takes
  <2>4. f[k + 1] = IF /\ t + 1 =< a
                      /\ (k + 1) - t =< b => Rank[p[t + 1]] =< Rank[q[(k + 1) - t]]
                   THEN t + 1 ELSE t
    BY <1>4, <2>1, <2>2
  <2>5. CASE /\ t + 1 =< a
             /\ (k + 1) - t =< b => Rank[p[t + 1]] =< Rank[q[(k + 1) - t]]
    <3>1. f[k + 1] = t + 1
      BY <2>4, <2>5
    <3>2. t + 1 =< a
      BY <2>5
    <3>3. t + 1 \in 0..a /\ (k + 1) - (t + 1) = k - t
      BY <1>3, <2>1, <2>3, <3>2
    <3>4. QED
      BY <1>1, <1>2, <1>5, <2>1, <2>2, <2>3, <2>5, <3>1, <3>3 DEF Takes
  <2>6. CASE ~(/\ t + 1 =< a
               /\ (k + 1) - t =< b => Rank[p[t + 1]] =< Rank[q[(k + 1) - t]])
    <3>1. f[k + 1] = t
      BY <2>4, <2>6
    <3>2. (k + 1) - t \in 0..b
      BY <1>3, <2>1, <2>3, <2>6
    <3>3. t < a => Rank[p[t + 1]] > Rank[q[(k + 1) - t]]
      <4>1. t < a => t + 1 \in 1..a /\ (k + 1) - t \in 1..b
        BY <1>3, <2>1, <2>3, <3>2
      <4>2. QED
        BY <1>3, <2>3, <2>6, <4>1
    <3>4. QED
      BY <1>1, <1>2, <1>5, <2>1, <2>2, <2>3, <3>1, <3>2, <3>3 DEF Takes
  <2>7. QED
    BY <2>5, <2>6
<1>8. \A k \in 0..N : k \in T
  BY <1>3, <1>6, <1>7, InductionTo
<1>9. QED
  BY <1>1, <1>2, <1>5, <1>8

\* The merge of two ordered sequences, of which the first was before the second.
LEMMA MergeOK ==
    ASSUME NEW o \in Seq(Item), Injective(o), NEW p \in Seq(Item), NEW q \in Seq(Item),
           Ordered(o, p), Ordered(o, q),
           \A m \in 1..Len(p), n \in 1..Len(q) : Earlier(o, p[m], q[n]),
           NEW r, r = Merge(p, q)
    PROVE  /\ r \in Seq(Item) /\ Len(r) = Len(p) + Len(q) /\ Ordered(o, r)
           /\ \A y : Has(r, y) <=> Has(p, y) \/ Has(q, y)
<1>1. PICK a : a = Len(p)
  OBVIOUS
<1>2. PICK b : b = Len(q)
  OBVIOUS
<1> PICK N : N = a + b
  OBVIOUS
<1>3. /\ a \in Nat /\ b \in Nat /\ N \in Nat /\ N = a + b
      /\ \A n \in 1..a : p[n] \in Item /\ Rank[p[n]] \in Int
      /\ \A n \in 1..b : q[n] \in Item /\ Rank[q[n]] \in Int
  BY <1>1, <1>2, HashAssumption
<1>4. PICK f : /\ Taking(f, p, q)
               /\ Merge(p, q) = [k \in 1..(Len(p) + Len(q)) |->
                                    IF f[k] > f[k - 1] THEN p[f[k]] ELSE q[k - f[k]]]
  BY MergeDefined
<1>5. \A k \in 0..N :
         /\ f[k] \in 0..a /\ k - f[k] \in 0..b
         /\ k # 0 => /\ f[k - 1] \in 0..a /\ (k - 1) - f[k - 1] \in 0..b
                     /\ \/ /\ f[k] = f[k - 1] + 1
                           /\ k - f[k - 1] =< b => Rank[p[f[k]]] =< Rank[q[k - f[k - 1]]]
                        \/ /\ f[k] = f[k - 1]
                           /\ f[k] < a => Rank[p[f[k] + 1]] > Rank[q[k - f[k]]]
  <2>1. \A k \in 0..N : Takes(f, p, q, k)
    BY <1>1, <1>2, <1>4, TakingOK
  <2>2. QED
    BY <1>1, <1>2, <2>1 DEF Takes
<1>6. r = [k \in 1..N |-> IF f[k] > f[k - 1] THEN p[f[k]] ELSE q[k - f[k]]]
  BY <1>1, <1>2, <1>4, Zenon
\* What one step takes.
<1>7. ASSUME NEW k \in 1..N
      PROVE  \/ /\ f[k] = f[k - 1] + 1 /\ f[k] \in 1..a /\ k - f[k] \in 0..b /\ r[k] = p[f[k]]
                /\ k - f[k] + 1 =< b => Rank[p[f[k]]] =< Rank[q[k - f[k] + 1]]
             \/ /\ f[k] = f[k - 1] /\ f[k] \in 0..a /\ k - f[k] \in 1..b /\ r[k] = q[k - f[k]]
                /\ f[k] < a => Rank[p[f[k] + 1]] > Rank[q[k - f[k]]]
  <2>1. k \in 0..N /\ k # 0
    BY <1>3
  <2>2. r[k] = IF f[k] > f[k - 1] THEN p[f[k]] ELSE q[k - f[k]]
    BY <1>6
  <2>3. /\ f[k] \in 0..a /\ k - f[k] \in 0..b /\ f[k - 1] \in 0..a /\ (k - 1) - f[k - 1] \in 0..b
        /\ \/ /\ f[k] = f[k - 1] + 1
              /\ k - f[k - 1] =< b => Rank[p[f[k]]] =< Rank[q[k - f[k - 1]]]
           \/ /\ f[k] = f[k - 1]
              /\ f[k] < a => Rank[p[f[k] + 1]] > Rank[q[k - f[k]]]
    BY <1>5, <2>1
  <2>4. CASE /\ f[k] = f[k - 1] + 1
             /\ k - f[k - 1] =< b => Rank[p[f[k]]] =< Rank[q[k - f[k - 1]]]
    <3>1. PICK g : g = f[k] /\ g \in 0..a /\ k - g \in 0..b /\ f[k - 1] = g - 1 /\ g - 1 \in 0..a
      <4>1. f[k - 1] = f[k] - 1
        BY <1>3, <2>3, <2>4
      <4>2. QED
        BY <2>3, <4>1
    <3>2. g > g - 1 /\ g \in 1..a /\ k - (g - 1) = k - g + 1
      BY <1>3, <3>1
    <3>3. r[k] = p[g]
      BY <2>2, <3>1, <3>2
    <3>4. k - g + 1 =< b => Rank[p[g]] =< Rank[q[k - g + 1]]
      BY <2>4, <3>1, <3>2
    <3>5. QED
      BY <2>4, <3>1, <3>2, <3>3, <3>4
  <2>5. CASE /\ f[k] = f[k - 1]
             /\ f[k] < a => Rank[p[f[k] + 1]] > Rank[q[k - f[k]]]
    <3>1. ~(f[k] > f[k - 1]) /\ k - f[k] \in 1..b
      BY <1>3, <2>3, <2>5
    <3>2. QED
      BY <2>2, <2>3, <2>5, <3>1
  <2>6. QED
    BY <2>3, <2>4, <2>5
<1>8. r \in Seq(Item) /\ Len(r) = N
  <2>1. \A k \in 1..N : r[k] \in Item
    BY <1>3, <1>7
  <2>2. r \in [1..N -> Item]
    BY <1>6, <2>1
  <2>3. N \in Nat
    BY <1>3
  <2>4. QED
    BY <2>2, <2>3
<1>9. ASSUME NEW k \in 1..(N - 1)
      PROVE  Before(o, r[k], r[k + 1])
  <2>1. k \in 1..N /\ k + 1 \in 1..N /\ (k + 1) - 1 = k
    BY <1>3
  <2>2. \/ /\ f[k] \in 1..a /\ k - f[k] \in 0..b /\ r[k] = p[f[k]]
           /\ k - f[k] + 1 =< b => Rank[p[f[k]]] =< Rank[q[k - f[k] + 1]]
        \/ /\ f[k] \in 0..a /\ k - f[k] \in 1..b /\ r[k] = q[k - f[k]]
           /\ f[k] < a => Rank[p[f[k] + 1]] > Rank[q[k - f[k]]]
    BY <1>7, <2>1
  <2>3. \/ f[k + 1] = f[k] + 1 /\ f[k] + 1 \in 1..a /\ r[k + 1] = p[f[k] + 1]
        \/ f[k + 1] = f[k] /\ (k + 1) - f[k] \in 1..b /\ r[k + 1] = q[(k + 1) - f[k]]
    BY <1>7, <2>1
  <2>4. f[k] \in Int /\ (k + 1) - f[k] = k - f[k] + 1
    <3>1. f[k] \in 0..a \/ f[k] \in 1..a
      BY <2>2
    <3>2. PICK g : g = f[k]
      OBVIOUS
    <3>3. g \in Int /\ k \in Int
      BY <1>3, <3>1, <3>2
    <3>4. (k + 1) - g = k - g + 1
      BY <3>3
    <3>5. QED
      BY <3>2, <3>3, <3>4
  <2>5. CASE /\ f[k] \in 1..a /\ k - f[k] \in 0..b /\ r[k] = p[f[k]]
             /\ k - f[k] + 1 =< b => Rank[p[f[k]]] =< Rank[q[k - f[k] + 1]]
    <3>1. CASE f[k] + 1 \in 1..a /\ r[k + 1] = p[f[k] + 1]
      <4>1. f[k] < f[k] + 1
        BY <2>4
      <4>2. Before(o, p[f[k]], p[f[k] + 1])
        BY <1>1, <2>5, <3>1, <4>1 DEF Ordered
      <4>3. QED
        BY <2>5, <3>1, <4>2
    <3>2. CASE (k + 1) - f[k] \in 1..b /\ r[k + 1] = q[(k + 1) - f[k]]
      <4>1. PICK n \in 1..b : n = k - f[k] + 1
        BY <2>4, <3>2
      <4>2. Rank[p[f[k]]] =< Rank[q[n]]
        BY <1>3, <2>5, <4>1
      <4>3. Earlier(o, p[f[k]], q[n])
        BY <1>1, <1>2, <2>5
      <4>4. Rank[p[f[k]]] \in Int /\ Rank[q[n]] \in Int
        BY <1>3, <2>5
      <4>5. QED
        <5>1. r[k + 1] = q[n]
          BY <2>4, <3>2, <4>1
        <5>2. Rank[p[f[k]]] < Rank[q[n]] \/ Rank[p[f[k]]] = Rank[q[n]]
          BY <4>2, <4>4
        <5>3. Before(o, p[f[k]], q[n])
          BY <4>3, <5>2 DEF Before
        <5>4. QED
          BY <2>5, <5>1, <5>3
    <3>3. QED
      BY <2>3, <3>1, <3>2
  <2>6. CASE /\ f[k] \in 0..a /\ k - f[k] \in 1..b /\ r[k] = q[k - f[k]]
             /\ f[k] < a => Rank[p[f[k] + 1]] > Rank[q[k - f[k]]]
    <3>1. CASE f[k] + 1 \in 1..a /\ r[k + 1] = p[f[k] + 1]
      <4>1. Rank[p[f[k] + 1]] > Rank[q[k - f[k]]]
        BY <1>3, <2>6, <3>1
      <4>2. Rank[p[f[k] + 1]] \in Int /\ Rank[q[k - f[k]]] \in Int
        BY <1>3, <2>6, <3>1
      <4>3. QED
        BY <2>6, <3>1, <4>1, <4>2 DEF Before
    <3>2. CASE (k + 1) - f[k] \in 1..b /\ r[k + 1] = q[(k + 1) - f[k]]
      <4>1. PICK n \in 1..b : n = k - f[k]
        BY <2>6
      <4>2. n + 1 \in 1..b /\ n < n + 1 /\ r[k + 1] = q[n + 1]
        BY <2>4, <3>2, <4>1
      <4>3. Before(o, q[n], q[n + 1])
        BY <1>2, <4>2 DEF Ordered
      <4>4. QED
        BY <2>6, <4>1, <4>2, <4>3
    <3>3. QED
      BY <2>3, <3>1, <3>2
  <2>7. QED
    BY <2>2, <2>5, <2>6
<1>10. Ordered(o, r)
  <2>1. \A n \in 1..(Len(r) - 1) : Before(o, r[n], r[n + 1])
    BY <1>8, <1>9
  <2>2. QED
    BY <1>8, <2>1, NeighboursOrdered
<1>11. ASSUME NEW y, Has(r, y) PROVE Has(p, y) \/ Has(q, y)
  <2>1. PICK k \in 1..N : r[k] = y
    BY <1>8, <1>11 DEF Has
  <2>2. QED
    BY <1>1, <1>2, <1>7, <2>1 DEF Has
<1>12. f[0] = 0 /\ f[N] = a
  <2>1. 0 \in 0..N /\ N \in 0..N
    BY <1>3
  <2>2. f[0] \in 0..a /\ 0 - f[0] \in 0..b /\ f[N] \in 0..a /\ N - f[N] \in 0..b
    BY <1>5, <2>1
  <2>3. QED
    BY <1>3, <2>2
<1>13. ASSUME NEW n \in 1..a PROVE Has(r, p[n])
  <2>1. PICK K : K = {k \in 1..N : f[k] >= n}
    OBVIOUS
  <2>2. K \in SUBSET Nat /\ N \in K
    BY <1>3, <1>12, <2>1
  <2>3. PICK k \in K : \A m \in K : k =< m
    BY <2>2, LeastNumber
  <2>4. k \in 1..N /\ f[k] >= n
    BY <2>1, <2>3
  <2>5. ~(f[k - 1] >= n)
    <3>1. CASE k = 1
      BY <1>12, <3>1
    <3>2. CASE k # 1
      <4>1. k - 1 \in 1..N /\ ~(k =< k - 1)
        BY <1>3, <2>4, <3>2
      <4>2. k - 1 \notin K
        BY <2>3, <4>1
      <4>3. QED
        BY <2>1, <4>1, <4>2
    <3>3. QED
      BY <3>1, <3>2
  <2>6. f[k] = n /\ r[k] = p[f[k]]
    <3>1. \/ f[k] = f[k - 1] + 1 /\ f[k] \in 1..a /\ r[k] = p[f[k]]
          \/ f[k] = f[k - 1]
      BY <1>7, <2>4
    <3>2. f[k] = f[k - 1] + 1 /\ f[k] \in 1..a /\ r[k] = p[f[k]]
      BY <2>4, <2>5, <3>1
    <3>3. f[k - 1] \in Int
      <4>1. k \in 0..N /\ k # 0
        BY <1>3, <2>4
      <4>2. QED
        BY <1>3, <1>5, <4>1
    <3>4. QED
      BY <2>4, <2>5, <3>2, <3>3
  <2>7. QED
    BY <1>8, <2>4, <2>6 DEF Has
<1>14. ASSUME NEW n \in 1..b PROVE Has(r, q[n])
  <2>1. PICK K : K = {k \in 1..N : k - f[k] >= n}
    OBVIOUS
  <2>2. K \in SUBSET Nat /\ N \in K
    BY <1>3, <1>12, <2>1
  <2>3. PICK k \in K : \A m \in K : k =< m
    BY <2>2, LeastNumber
  <2>4. k \in 1..N /\ k - f[k] >= n
    BY <2>1, <2>3
  <2>5. ~((k - 1) - f[k - 1] >= n)
    <3>1. CASE k = 1
      BY <1>12, <3>1
    <3>2. CASE k # 1
      <4>1. k - 1 \in 1..N /\ ~(k =< k - 1)
        BY <1>3, <2>4, <3>2
      <4>2. k - 1 \notin K
        BY <2>3, <4>1
      <4>3. QED
        BY <2>1, <4>1, <4>2
    <3>3. QED
      BY <3>1, <3>2
  <2>6. k - f[k] = n /\ r[k] = q[k - f[k]]
    <3>1. f[k - 1] \in Int /\ f[k] \in Int /\ k \in Int
      <4>1. k \in 0..N /\ k # 0
        BY <1>3, <2>4
      <4>2. QED
        BY <1>3, <1>5, <4>1
    <3>2. \/ f[k] = f[k - 1] + 1
          \/ f[k] = f[k - 1] /\ r[k] = q[k - f[k]]
      BY <1>7, <2>4
    <3>3. f[k] # f[k - 1] + 1
      BY <2>4, <2>5, <3>1
    <3>4. f[k] = f[k - 1] /\ r[k] = q[k - f[k]]
      BY <3>2, <3>3
    <3>5. QED
      BY <2>4, <2>5, <3>1, <3>4
  <2>7. QED
    BY <1>8, <2>4, <2>6 DEF Has
<1>15. \A y : Has(r, y) <=> Has(p, y) \/ Has(q, y)
  <2> TAKE y
  <2>1. ASSUME Has(p, y) PROVE Has(r, y)
    BY <1>1, <1>13, <2>1 DEF Has
  <2>2. ASSUME Has(q, y) PROVE Has(r, y)
    BY <1>2, <1>14, <2>2 DEF Has
  <2>3. QED
    BY <1>11, <2>1, <2>2
<1>16. QED
  BY <1>1, <1>2, <1>8, <1>10, <1>15

\* p is what there is of n items of a list behind the first ones.
Cut(p, list, from, n) ==
    /\ p \in Seq(Item)
    /\ Len(p) = IF from + n =< Len(list) THEN n
                ELSE IF from =< Len(list) THEN Len(list) - from ELSE 0
    /\ \A k \in 1..Len(p) : from + k \in 1..Len(list) /\ p[k] = list[from + k]

LEMMA PieceOK ==
    ASSUME NEW list \in Seq(Item), NEW from \in Nat, NEW n \in Nat, NEW p, p = Piece(list, from, n)
    PROVE  Cut(p, list, from, n)
<1>1. PICK l : l = Len(list)
  OBVIOUS
<1>2. PICK e : e = IF from + n =< l THEN from + n ELSE l
  OBVIOUS
<1>3. l \in Nat /\ e \in Nat /\ e =< l /\ p = SubSeq(list, from + 1, e)
  BY <1>1, <1>2 DEF Piece
<1>4. PICK c : c = IF from =< e THEN e - from ELSE 0
  OBVIOUS
<1>5. c \in Nat /\ \A k \in 1..c : from + k \in 1..l /\ list[from + k] \in Item
  BY <1>1, <1>3, <1>4
<1>6. p = [k \in 1..c |-> list[from + k]]
  BY <1>1, <1>3, <1>4, <1>5
<1>7. p \in Seq(Item) /\ Len(p) = c
  <2>1. p \in [1..c -> Item]
    BY <1>5, <1>6
  <2>2. QED
    BY <1>5, <2>1
<1>8. c = IF from + n =< l THEN n ELSE IF from =< l THEN l - from ELSE 0
  BY <1>2, <1>3, <1>4
<1>9. QED
  BY <1>1, <1>5, <1>6, <1>7, <1>8 DEF Cut

\* The items of o, ordered within each block of n, the blocks as they were.
Runs(o, list, n) ==
    /\ list \in Seq(Item) /\ Len(list) = Len(o) /\ \A y : Has(list, y) <=> Has(o, y)
    /\ \A a, b \in 1..Len(list) :
           a < b => IF (a - 1) \div n = (b - 1) \div n THEN Before(o, list[a], list[b])
                    ELSE Earlier(o, list[a], list[b])

\* The block that the c-th merge of a pass makes.
Block(list, c, w) == Merge(Piece(list, 2 * w * c, w), Piece(list, 2 * w * c + w, w))

\* r is the block c of v items of the list, ordered.
Blocked(r, o, list, c, v) ==
    /\ r \in Seq(Item) /\ Ordered(o, r)
    /\ Len(r) = IF v * c + v =< Len(list) THEN v ELSE Len(list) - v * c
    /\ \A k \in 1..Len(r) : \E n \in 1..Len(list) : (n - 1) \div v = c /\ list[n] = r[k]
    /\ \A n \in 1..Len(list) : (n - 1) \div v = c => Has(r, list[n])

LEMMA BlockOK ==
    ASSUME NEW o \in Seq(Item), Injective(o), NEW w \in Nat \ {0}, NEW list, Runs(o, list, w),
           NEW c \in Nat, NEW from \in Nat, from = 2 * w * c, from =< Len(list),
           NEW r, r = Block(list, c, w), NEW v, v = 2 * w
    PROVE  Blocked(r, o, list, c, v)
<1>1. PICK l : l = Len(list)
  OBVIOUS
<1>2. /\ l \in Nat /\ list \in Seq(Item) /\ from =< l /\ from + w \in Nat
      /\ \A a, b \in 1..l :
             a < b => IF (a - 1) \div w = (b - 1) \div w THEN Before(o, list[a], list[b])
                      ELSE Earlier(o, list[a], list[b])
  BY <1>1 DEF Runs
<1>3. PICK p : p = Piece(list, from, w)
  OBVIOUS
<1>4. PICK q : q = Piece(list, from + w, w)
  OBVIOUS
<1>5. PICK a : a = Len(p)
  OBVIOUS
<1>6. PICK b : b = Len(q)
  OBVIOUS
<1>7. /\ p \in Seq(Item) /\ a = IF from + w =< l THEN w ELSE l - from
      /\ \A k \in 1..a : from + k \in 1..l /\ p[k] = list[from + k]
  <2>1. Cut(p, list, from, w)
    BY <1>2, <1>3, PieceOK
  <2>2. QED
    BY <1>1, <1>2, <1>5, <2>1 DEF Cut
<1>8. /\ q \in Seq(Item)
      /\ b = IF (from + w) + w =< l THEN w ELSE IF from + w =< l THEN l - (from + w) ELSE 0
      /\ \A k \in 1..b : (from + w) + k \in 1..l /\ q[k] = list[(from + w) + k]
  <2>1. Cut(q, list, from + w, w)
    BY <1>2, <1>4, PieceOK
  <2>2. QED
    BY <1>1, <1>2, <1>6, <2>1 DEF Cut
<1>9. r = Merge(p, q)
  BY <1>3, <1>4 DEF Block
<1>10. a \in 0..w /\ b \in 0..w
  BY <1>2, <1>7, <1>8
<1>11. /\ \A k \in 1..a : (from + k - 1) \div w = 2 * c
       /\ \A k \in 1..b : ((from + w) + k - 1) \div w = 2 * c + 1
  <2> PICK d : d = 2 * c
    OBVIOUS
  <2>1. d \in Nat /\ d + 1 \in Nat /\ w * d = from /\ w * (d + 1) = from + w
    OBVIOUS
  <2>2. ASSUME NEW k \in 1..a PROVE (from + k - 1) \div w = 2 * c
    <3>1. PICK n : n = from + k - 1
      OBVIOUS
    <3>2. n \in Nat /\ from =< n /\ n < from + w
      BY <1>10, <3>1
    <3>3. n \div w = d
      <4>1. w * d =< n /\ n < w * d + w
        BY <2>1, <3>2
      <4>2. QED
        BY <2>1, <3>2, <4>1, BlockUnique
    <3>4. QED
      BY <3>1, <3>3
  <2>3. ASSUME NEW k \in 1..b PROVE ((from + w) + k - 1) \div w = 2 * c + 1
    <3>1. PICK n : n = (from + w) + k - 1
      OBVIOUS
    <3>2. n \in Nat /\ from + w =< n /\ n < (from + w) + w
      BY <1>10, <3>1
    <3>3. n \div w = d + 1
      <4>1. w * (d + 1) =< n /\ n < w * (d + 1) + w
        BY <2>1, <3>2
      <4>2. QED
        BY <2>1, <3>2, <4>1, BlockUnique
    <3>4. QED
      BY <3>1, <3>3
  <2>4. QED
    BY <2>2, <2>3
<1>12. Ordered(o, p)
  <2>1. ASSUME NEW m \in 1..a, NEW n \in 1..a, m < n PROVE Before(o, p[m], p[n])
    <3>1. from + m \in 1..l /\ from + n \in 1..l /\ from + m < from + n
      <4>1. from + m \in 1..l /\ from + n \in 1..l
        BY <1>7
      <4>2. m \in Int /\ n \in Int
        BY <1>10
      <4>3. QED
        BY <2>1, <4>1, <4>2
    <3>2. ((from + m) - 1) \div w = ((from + n) - 1) \div w
      BY <1>11
    <3>3. Before(o, list[from + m], list[from + n])
      BY <1>2, <3>1, <3>2
    <3>4. QED
      BY <1>7, <3>3
  <2>2. QED
    BY <1>5, <2>1 DEF Ordered
<1>13. Ordered(o, q)
  <2>1. ASSUME NEW m \in 1..b, NEW n \in 1..b, m < n PROVE Before(o, q[m], q[n])
    <3>1. (from + w) + m \in 1..l /\ (from + w) + n \in 1..l /\ (from + w) + m < (from + w) + n
      <4>1. (from + w) + m \in 1..l /\ (from + w) + n \in 1..l
        BY <1>8
      <4>2. m \in Int /\ n \in Int
        BY <1>10
      <4>3. QED
        BY <2>1, <4>1, <4>2
    <3>2. (((from + w) + m) - 1) \div w = (((from + w) + n) - 1) \div w
      BY <1>11
    <3>3. Before(o, list[(from + w) + m], list[(from + w) + n])
      BY <1>2, <3>1, <3>2
    <3>4. QED
      BY <1>8, <3>3
  <2>2. QED
    BY <1>6, <2>1 DEF Ordered
<1>14. \A m \in 1..a, n \in 1..b : Earlier(o, p[m], q[n])
  <2> TAKE m \in 1..a, n \in 1..b
  <2>1. from + m \in 1..l /\ (from + w) + n \in 1..l /\ from + m < (from + w) + n
    <3>1. from + m \in 1..l /\ (from + w) + n \in 1..l
      BY <1>7, <1>8
    <3>2. m \in 1..w /\ n \in Nat \ {0}
      BY <1>10
    <3>3. QED
      BY <3>1, <3>2
  <2>2. ((from + m) - 1) \div w = 2 * c /\ (((from + w) + n) - 1) \div w = 2 * c + 1
    BY <1>11
  <2>3. ((from + m) - 1) \div w # (((from + w) + n) - 1) \div w
    <3>1. 2 * c # 2 * c + 1
      OBVIOUS
    <3>2. QED
      BY <2>2, <3>1
  <2>4. Earlier(o, list[from + m], list[(from + w) + n])
    BY <1>2, <2>1, <2>3
  <2>5. QED
    BY <1>7, <1>8, <2>4
<1>15. /\ r \in Seq(Item) /\ Len(r) = Len(p) + Len(q) /\ Ordered(o, r)
       /\ \A y : Has(r, y) <=> Has(p, y) \/ Has(q, y)
  <2>1. \A m \in 1..Len(p), n \in 1..Len(q) : Earlier(o, p[m], q[n])
    BY <1>5, <1>6, <1>14
  <2>2. QED
    BY <1>7, <1>8, <1>9, <1>12, <1>13, <2>1, MergeOK
<1>16. Len(r) = IF from + 2 * w =< l THEN 2 * w ELSE l - from
  <2>1. Len(r) = a + b
    BY <1>5, <1>6, <1>15
  <2>2. a = IF from + w =< l THEN w ELSE l - from
    BY <1>7
  <2>3. b = IF (from + w) + w =< l THEN w ELSE IF from + w =< l THEN l - (from + w) ELSE 0
    BY <1>8
  <2>4. QED
    BY <1>2, <2>1, <2>2, <2>3
<1>18. v \in Nat \ {0} /\ v * c = from /\ w < v /\ v = w + w
  OBVIOUS
<1>19. ASSUME NEW n \in 1..l, from =< n - 1, n - 1 < from + v
       PROVE  (n - 1) \div v = c
  <2>1. n - 1 \in Nat
    BY <1>2
  <2>2. QED
    BY <1>18, <1>19, <2>1, BlockUnique
<1>20. ASSUME NEW k \in 1..Len(r)
       PROVE  \E n \in 1..l : (n - 1) \div v = c /\ list[n] = r[k]
  <2>1. Has(p, r[k]) \/ Has(q, r[k])
    BY <1>15 DEF Has
  <2>2. CASE Has(p, r[k])
    <3>1. PICK m \in 1..a : p[m] = r[k]
      BY <1>5, <2>2 DEF Has
    <3>2. PICK n : n = from + m
      OBVIOUS
    <3>3. n \in 1..l /\ list[n] = r[k] /\ from =< n - 1 /\ n - 1 < from + v
      BY <1>7, <1>10, <1>18, <3>1, <3>2
    <3>4. QED
      BY <1>19, <3>3
  <2>3. CASE Has(q, r[k])
    <3>1. PICK m \in 1..b : q[m] = r[k]
      BY <1>6, <2>3 DEF Has
    <3>2. PICK n : n = (from + w) + m
      OBVIOUS
    <3>3. n \in 1..l /\ list[n] = r[k] /\ from =< n - 1 /\ n - 1 < from + v
      BY <1>8, <1>10, <1>18, <3>1, <3>2
    <3>4. QED
      BY <1>19, <3>3
  <2>4. QED
    BY <2>1, <2>2, <2>3
<1>21. ASSUME NEW n \in 1..l, (n - 1) \div v = c
       PROVE  Has(r, list[n])
  <2>1. PICK m : m = n - 1
    OBVIOUS
  <2>2. m \in Nat /\ m < l /\ n = m + 1
    BY <1>2, <2>1
  <2>3. from =< m /\ m < from + v
    <3>1. v * (m \div v) =< m /\ m < v * (m \div v) + v
      BY <1>18, <2>2, BlockBounds
    <3>2. QED
      BY <1>18, <1>21, <2>1, <3>1
  <2>4. CASE m < from + w
    <3>1. PICK k : k = n - from
      OBVIOUS
    <3>2. k \in 1..a /\ n = from + k
      BY <1>2, <1>7, <2>2, <2>3, <2>4, <3>1
    <3>3. Has(p, list[n])
      BY <1>5, <1>7, <3>2 DEF Has
    <3>4. QED
      BY <1>15, <3>3
  <2>5. CASE ~(m < from + w)
    <3>1. PICK k : k = n - (from + w)
      OBVIOUS
    <3>2. k \in 1..b /\ n = (from + w) + k
      BY <1>2, <1>8, <1>18, <2>2, <2>3, <2>5, <3>1
    <3>3. Has(q, list[n])
      BY <1>6, <1>8, <3>2 DEF Has
    <3>4. QED
      BY <1>15, <3>3
  <2>6. QED
    BY <2>4, <2>5
<1>22. QED
  <2>1. Len(r) = IF v * c + v =< Len(list) THEN v ELSE Len(list) - v * c
    BY <1>1, <1>16, <1>18
  <2>2. QED
    BY <1>1, <1>15, <1>20, <1>21, <2>1 DEF Blocked

LEMMA PassOK ==
    ASSUME NEW o \in Seq(Item), Injective(o), NEW w \in Nat \ {0}, NEW list, Runs(o, list, w),
           NEW t, t = Pass(list, w)
    PROVE  Runs(o, t, 2 * w)
<1>1. PICK l : l = Len(list)
  OBVIOUS
<1>2. PICK v : v = 2 * w
  OBVIOUS
<1>3. /\ l \in Nat /\ v \in Nat \ {0} /\ list \in Seq(Item) /\ l = Len(o)
      /\ \A y : Has(list, y) <=> Has(o, y)
      /\ \A a, b \in 1..l :
             a < b => IF (a - 1) \div w = (b - 1) \div w THEN Before(o, list[a], list[b])
                      ELSE Earlier(o, list[a], list[b])
  BY <1>1, <1>2 DEF Runs
\* The place n belongs to the block c, as its k-th.
<1> DEFINE Lies(n, c, r) ==
       /\ c \in Nat /\ r \in Seq(Item) /\ Ordered(o, r) /\ n - v * c \in 1..Len(r)
       /\ t[n] = r[n - v * c]
       /\ \A k \in 1..Len(r) : v * c + k \in 1..l /\ ((v * c + k) - 1) \div v = c
       /\ \A k \in 1..Len(r) : \E m \in 1..l : (m - 1) \div v = c /\ list[m] = r[k]
       /\ \A m \in 1..l : (m - 1) \div v = c => Has(r, list[m])
<1> HIDE DEF Lies
<1>4. ASSUME NEW n \in 1..l, NEW c, c = (n - 1) \div v, NEW r, r = Block(list, c, w)
      PROVE  Lies(n, c, r)
  <2>1. PICK from : from = v * c
    OBVIOUS
  <2>2. n - 1 \in Nat
    BY <1>3
  <2>3. c \in Nat /\ from \in Nat /\ from =< n - 1 /\ n - 1 < from + v
    BY <1>3, <1>4, <2>1, <2>2, BlockBounds
  <2>4. from = 2 * w * c /\ from =< l
    BY <1>2, <1>3, <2>1, <2>3
  <2>5. /\ r \in Seq(Item) /\ Ordered(o, r)
        /\ \A k \in 1..Len(r) : \E m \in 1..l : (m - 1) \div v = c /\ list[m] = r[k]
        /\ \A m \in 1..l : (m - 1) \div v = c => Has(r, list[m])
    <3>1. Blocked(r, o, list, c, v)
      BY <1>1, <1>2, <1>4, <2>3, <2>4, BlockOK
    <3>2. QED
      BY <1>1, <3>1 DEF Blocked
  <2>6. Len(r) = IF from + v =< l THEN v ELSE l - from
    <3>1. Blocked(r, o, list, c, v)
      BY <1>1, <1>2, <1>4, <2>3, <2>4, BlockOK
    <3>2. QED
      BY <1>1, <2>1, <3>1 DEF Blocked
  <2>7. n - from \in 1..Len(r)
    BY <1>3, <2>3, <2>6
  <2>8. t[n] = r[n - from]
    <3>1. t[n] = Merge(Piece(list, 2 * w * ((n - 1) \div (2 * w)), w),
                       Piece(list, 2 * w * ((n - 1) \div (2 * w)) + w, w))[n - 2 * w * ((n - 1) \div (2 * w))]
      BY <1>1 DEF Pass
    <3>2. (n - 1) \div (2 * w) = c
      BY <1>2, <1>4
    <3>3. t[n] = Merge(Piece(list, 2 * w * c, w), Piece(list, 2 * w * c + w, w))[n - 2 * w * c]
      BY <3>1, <3>2, Zenon
    <3>4. t[n] = r[n - 2 * w * c]
      BY <1>4, <3>3, Zenon DEF Block
    <3>5. QED
      BY <2>4, <3>4
  <2>9. ASSUME NEW k \in 1..Len(r)
        PROVE  from + k \in 1..l /\ ((from + k) - 1) \div v = c
    <3>1. PICK m : m = (from + k) - 1
      OBVIOUS
    <3>2. from + k \in 1..l /\ m \in Nat /\ from =< m /\ m < from + v
      BY <1>3, <2>3, <2>6, <3>1
    <3>3. m \div v = c
      BY <1>3, <2>1, <2>3, <3>2, BlockUnique
    <3>4. QED
      BY <3>1, <3>2, <3>3
  <2>10. QED
    BY <2>1, <2>3, <2>5, <2>7, <2>8, <2>9 DEF Lies
<1>5. t = [n \in 1..l |-> t[n]]
  BY <1>1 DEF Pass
<1>6. \A n \in 1..l : t[n] \in Item
  <2> TAKE n \in 1..l
  <2>1. PICK c : c = (n - 1) \div v
    OBVIOUS
  <2>2. PICK r : r = Block(list, c, w)
    OBVIOUS
  <2>3. r \in Seq(Item) /\ n - v * c \in 1..Len(r) /\ t[n] = r[n - v * c]
    BY <1>4, <2>1, <2>2 DEF Lies
  <2>4. QED
    BY <2>3
<1>7. t \in Seq(Item) /\ Len(t) = l
  <2>1. t \in [1..l -> Item]
    BY <1>5, <1>6
  <2>2. QED
    BY <1>3, <2>1
\* Each item of t comes from the same block of the list, and the other way round.
<1>8. ASSUME NEW n \in 1..l
      PROVE  \E m \in 1..l : (m - 1) \div v = (n - 1) \div v /\ list[m] = t[n]
  <2>1. PICK c : c = (n - 1) \div v
    OBVIOUS
  <2>2. PICK r : r = Block(list, c, w)
    OBVIOUS
  <2>3. /\ n - v * c \in 1..Len(r) /\ t[n] = r[n - v * c]
        /\ \A k \in 1..Len(r) : \E m \in 1..l : (m - 1) \div v = c /\ list[m] = r[k]
    <3>1. Lies(n, c, r)
      BY <1>4, <2>1, <2>2
    <3>2. QED
      BY <3>1 DEF Lies
  <2>4. QED
    BY <2>1, <2>3
<1>9. ASSUME NEW m \in 1..l PROVE \E n \in 1..l : t[n] = list[m]
  <2>1. PICK c : c = (m - 1) \div v
    OBVIOUS
  <2>2. PICK r : r = Block(list, c, w)
    OBVIOUS
  <2>3. /\ c \in Nat /\ Has(r, list[m])
        /\ \A k \in 1..Len(r) : v * c + k \in 1..l /\ ((v * c + k) - 1) \div v = c
    BY <1>4, <2>1, <2>2 DEF Lies
  <2>4. PICK k \in 1..Len(r) : r[k] = list[m]
    BY <2>3 DEF Has
  <2>5. PICK n \in 1..l : n = v * c + k
    BY <2>3
  <2>6. (n - 1) \div v = c
    BY <2>3, <2>5
  <2>7. t[n] = r[n - v * c]
    <3>1. Lies(n, c, r)
      BY <1>4, <2>2, <2>6
    <3>2. QED
      BY <3>1 DEF Lies
  <2>8. n - v * c = k
    <3>1. v * c \in Nat /\ k \in Int
      BY <1>3, <2>3
    <3>2. QED
      BY <2>5, <3>1
  <2>9. QED
    BY <2>4, <2>7, <2>8
<1>10. \A y : Has(t, y) <=> Has(o, y)
  <2>1. \A y : Has(t, y) <=> Has(list, y)
    <3> TAKE y
    <3>1. ASSUME Has(t, y) PROVE Has(list, y)
      BY <1>1, <1>7, <1>8, <3>1 DEF Has
    <3>2. ASSUME Has(list, y) PROVE Has(t, y)
      BY <1>1, <1>7, <1>9, <3>2 DEF Has
    <3>3. QED
      BY <3>1, <3>2
  <2>2. QED
    BY <1>3, <2>1
<1>11. ASSUME NEW a \in 1..l, NEW b \in 1..l, a < b
       PROVE  IF (a - 1) \div v = (b - 1) \div v THEN Before(o, t[a], t[b])
              ELSE Earlier(o, t[a], t[b])
  <2>1. PICK c : c = (a - 1) \div v
    OBVIOUS
  <2>2. PICK d : d = (b - 1) \div v
    OBVIOUS
  <2>3. a - 1 \in Nat /\ b - 1 \in Nat /\ a \in Int /\ b \in Int
    BY <1>3
  <2>4. c \in Nat /\ v * c \in Nat /\ v * c =< a - 1 /\ a - 1 < v * c + v
    BY <1>3, <2>1, <2>3, BlockBounds
  <2>5. d \in Nat /\ v * d \in Nat /\ v * d =< b - 1 /\ b - 1 < v * d + v
    BY <1>3, <2>2, <2>3, BlockBounds
  <2>6. CASE c = d
    <3>1. PICK r : r = Block(list, c, w)
      OBVIOUS
    <3>2. Ordered(o, r) /\ a - v * c \in 1..Len(r) /\ t[a] = r[a - v * c]
      <4>1. Lies(a, c, r)
        BY <1>4, <2>1, <3>1
      <4>2. QED
        BY <4>1 DEF Lies
    <3>3. b - v * c \in 1..Len(r) /\ t[b] = r[b - v * c]
      <4>1. Lies(b, c, r)
        BY <1>4, <2>2, <2>6, <3>1
      <4>2. QED
        BY <4>1 DEF Lies
    <3>4. a - v * c < b - v * c
      BY <1>11, <2>3, <2>4
    <3>5. Before(o, t[a], t[b])
      BY <3>2, <3>3, <3>4 DEF Ordered
    <3>6. QED
      BY <2>1, <2>2, <2>6, <3>5
  <2>7. CASE c # d
    <3>1. c < d
      <4>1. ~(d < c)
        <5> SUFFICES ASSUME d < c PROVE FALSE
          OBVIOUS
        <5>1. v * d + v =< v * c
          BY <1>3, <2>4, <2>5, BlockApart
        <5>2. QED
          <6>1. PICK x, y : x = v * c /\ y = v * d
            OBVIOUS
          <6>2. x \in Nat /\ y \in Nat /\ v \in Nat /\ x =< a - 1 /\ b - 1 < y + v /\ y + v =< x
            BY <1>3, <2>4, <2>5, <5>1, <6>1
          <6>3. QED
            BY <1>11, <2>3, <6>2
      <4>2. QED
        BY <2>4, <2>5, <2>7, <4>1
    <3>2. PICK m \in 1..l : (m - 1) \div v = c /\ list[m] = t[a]
      BY <1>8, <2>1
    <3>3. PICK n \in 1..l : (n - 1) \div v = d /\ list[n] = t[b]
      BY <1>8, <2>2
    <3>4. m - 1 \in Nat /\ n - 1 \in Nat /\ m \in Int /\ n \in Int
      BY <1>3
    <3>5. v * c =< m - 1 /\ m - 1 < v * c + v /\ v * d =< n - 1
      BY <1>3, <3>2, <3>3, <3>4, BlockBounds
    <3>6. v * c + v =< v * d
      BY <1>3, <2>4, <2>5, <3>1, BlockApart
    <3>7. m < n
      <4>1. PICK x, y : x = v * c /\ y = v * d
        OBVIOUS
      <4>2. x \in Nat /\ y \in Nat /\ v \in Nat /\ m - 1 < x + v /\ x + v =< y /\ y =< n - 1
        BY <1>3, <2>4, <2>5, <3>5, <3>6, <4>1
      <4>3. QED
        BY <3>4, <4>2
    <3>8. (m - 1) \div w # (n - 1) \div w
      <4>1. c = ((m - 1) \div w) \div 2
        BY <1>2, <3>2, <3>4, BlockHalf
      <4>2. d = ((n - 1) \div w) \div 2
        BY <1>2, <3>3, <3>4, BlockHalf
      <4>3. QED
        BY <2>7, <4>1, <4>2
    <3>9. Earlier(o, list[m], list[n])
      BY <1>3, <3>7, <3>8
    <3>10. QED
      BY <2>1, <2>2, <2>7, <3>2, <3>3, <3>9
  <2>8. QED
    BY <2>6, <2>7
<1>12. QED
  BY <1>2, <1>3, <1>7, <1>10, <1>11 DEF Runs

-----------------------------------------------------------------------------

LEMMA MergesOnce ==
    ASSUME NEW list \in Seq(Item), NEW w \in Nat \ {0}
    PROVE  Merges(list, w) =< 1 <=> Len(list) =< 2 * w
<1>1. PICK v : v = 2 * w
  OBVIOUS
<1>2. PICK a : a = Len(list) + v - 1
  OBVIOUS
<1>3. v \in Nat \ {0} /\ a \in Nat /\ Len(list) \in Nat
  BY <1>1, <1>2
<1>4. PICK m : m = a \div v
  OBVIOUS
<1>5. m = Merges(list, w)
  BY <1>1, <1>2, <1>4 DEF Merges
<1>6. m \in Nat /\ v * m \in Nat /\ v * m =< a /\ a < v * m + v
  BY <1>3, <1>4, BlockBounds
<1>7. CASE m =< 1
  <2>1. v * m =< v
    <3>1. m = 0 \/ m = 1
      BY <1>6, <1>7
    <3>2. QED
      BY <1>3, <3>1
  <2>2. Len(list) =< v
    BY <1>2, <1>3, <1>6, <2>1
  <2>3. QED
    BY <1>1, <1>5, <1>7, <2>2
<1>8. CASE 1 < m
  <2>1. v * 1 + v =< v * m
    BY <1>3, <1>6, <1>8, BlockApart
  <2>2. v * 1 = v
    BY <1>3
  <2>3. ~(Len(list) =< v)
    BY <1>2, <1>3, <1>6, <2>1, <2>2
  <2>4. QED
    BY <1>1, <1>5, <1>6, <1>8, <2>3
<1>9. QED
  BY <1>6, <1>7, <1>8

\* The sizes of the runs, which double from pass to pass, and the lists they leave.
Doubling(f, n) == f = [k \in 0..n |-> IF k = 0 THEN 1 ELSE 2 * f[k - 1]]

Passing(g, f, list, n) == g = [k \in 0..n |-> IF k = 0 THEN list ELSE Pass(g[k - 1], f[k - 1])]

LEMMA DoublingDefined ==
    ASSUME NEW n \in Nat
    PROVE  \E f : Doubling(f, n)
<1>1. PICK T : T = {m \in Nat : \E f : f = [k \in 0..m |-> IF k = 0 THEN 1 ELSE 2 * f[k - 1]]}
  OBVIOUS
<1>2. 0 \in T
  <2>1. PICK f : f = [k \in 0..0 |-> 1]
    OBVIOUS
  <2>2. f = [k \in 0..0 |-> IF k = 0 THEN 1 ELSE 2 * f[k - 1]]
    BY <2>1
  <2>3. QED
    BY <1>1, <2>2
<1>3. \A m \in Nat : m \in T => m + 1 \in T
  <2> SUFFICES ASSUME NEW m \in Nat, m \in T PROVE m + 1 \in T
    OBVIOUS
  <2>1. PICK f : f = [k \in 0..m |-> IF k = 0 THEN 1 ELSE 2 * f[k - 1]]
    BY <1>1
  <2>2. PICK g : g = [k \in 0..(m + 1) |-> IF k = 0 THEN 1 ELSE 2 * f[k - 1]]
    OBVIOUS
  <2>3. \A k \in 0..m : g[k] = f[k]
    <3>1. \A k \in 0..m : f[k] = IF k = 0 THEN 1 ELSE 2 * f[k - 1]
      BY <2>1, Zenon
    <3>2. \A k \in 0..(m + 1) : g[k] = IF k = 0 THEN 1 ELSE 2 * f[k - 1]
      BY <2>2, Zenon
    <3>3. \A k \in 0..m : k \in 0..(m + 1)
      OBVIOUS
    <3>4. QED
      BY <3>1, <3>2, <3>3, Zenon
  <2>4. \A k \in 0..(m + 1) : k # 0 => g[k - 1] = f[k - 1]
    BY <2>3
  <2>5. g = [k \in 0..(m + 1) |-> IF k = 0 THEN 1 ELSE 2 * g[k - 1]]
    BY <2>2, <2>4
  <2>6. m + 1 \in Nat
    OBVIOUS
  <2>7. QED
    BY <1>1, <2>5, <2>6, Zenon
<1>4. n \in T
  BY <1>2, <1>3, Induction
<1>5. QED
  BY <1>1, <1>4, Zenon DEF Doubling

LEMMA PassingDefined ==
    ASSUME NEW n \in Nat, NEW f, NEW list
    PROVE  \E g : Passing(g, f, list, n)
<1>1. PICK T : T = {m \in Nat : \E g : g = [k \in 0..m |-> IF k = 0 THEN list ELSE Pass(g[k - 1], f[k - 1])]}
  OBVIOUS
<1>2. 0 \in T
  <2>1. PICK g : g = [k \in 0..0 |-> list]
    OBVIOUS
  <2>2. g = [k \in 0..0 |-> IF k = 0 THEN list ELSE Pass(g[k - 1], f[k - 1])]
    BY <2>1
  <2>3. QED
    BY <1>1, <2>2
<1>3. \A m \in Nat : m \in T => m + 1 \in T
  <2> SUFFICES ASSUME NEW m \in Nat, m \in T PROVE m + 1 \in T
    OBVIOUS
  <2>1. PICK e : e = [k \in 0..m |-> IF k = 0 THEN list ELSE Pass(e[k - 1], f[k - 1])]
    BY <1>1
  <2>2. PICK g : g = [k \in 0..(m + 1) |-> IF k = 0 THEN list ELSE Pass(e[k - 1], f[k - 1])]
    OBVIOUS
  <2>3. \A k \in 0..m : g[k] = e[k]
    <3>1. \A k \in 0..m : e[k] = IF k = 0 THEN list ELSE Pass(e[k - 1], f[k - 1])
      BY <2>1, Zenon
    <3>2. \A k \in 0..(m + 1) : g[k] = IF k = 0 THEN list ELSE Pass(e[k - 1], f[k - 1])
      BY <2>2, Zenon
    <3>3. \A k \in 0..m : k \in 0..(m + 1)
      OBVIOUS
    <3>4. QED
      BY <3>1, <3>2, <3>3, Zenon
  <2>4. \A k \in 0..(m + 1) : k # 0 => g[k - 1] = e[k - 1]
    BY <2>3
  <2>5. g = [k \in 0..(m + 1) |-> IF k = 0 THEN list ELSE Pass(g[k - 1], f[k - 1])]
    BY <2>2, <2>4
  <2>6. m + 1 \in Nat
    OBVIOUS
  <2>7. QED
    BY <1>1, <2>5, <2>6, Zenon
<1>4. n \in T
  BY <1>2, <1>3, Induction
<1>5. QED
  BY <1>1, <1>4, Zenon DEF Passing

LEMMA DoublingOK ==
    ASSUME NEW n \in Nat, NEW f, Doubling(f, n)
    PROVE  /\ f[0] = 1
           /\ \A k \in 0..n : f[k] \in Nat \ {0} /\ k < f[k] /\ (k # 0 => f[k] = 2 * f[k - 1])
<1>1. \A k \in 0..n : f[k] = IF k = 0 THEN 1 ELSE 2 * f[k - 1]
  BY Zenon DEF Doubling
<1>2. PICK T : T = {k \in Nat : f[k] \in Nat \ {0} /\ k < f[k] /\ (k # 0 => f[k] = 2 * f[k - 1])}
  OBVIOUS
<1>3. f[0] = 1
  BY <1>1
<1>4. 0 \in T
  BY <1>2, <1>3
<1>5. \A k \in 0..(n - 1) : k \in T => k + 1 \in T
  <2> SUFFICES ASSUME NEW k \in 0..(n - 1), k \in T PROVE k + 1 \in T
    OBVIOUS
  <2>1. k + 1 \in 0..n /\ k \in Nat /\ (k + 1) - 1 = k /\ k + 1 # 0
    OBVIOUS
  <2>2. f[k + 1] = 2 * f[k]
    BY <1>1, <2>1
  <2>3. f[k] \in Nat \ {0} /\ k < f[k]
    BY <1>2
  <2>4. f[k + 1] \in Nat \ {0} /\ k + 1 < f[k + 1]
    BY <2>1, <2>2, <2>3
  <2>5. QED
    BY <1>2, <2>1, <2>2, <2>4
<1>6. \A k \in 0..n : k \in T
  BY <1>4, <1>5, InductionTo
<1>7. QED
  BY <1>2, <1>3, <1>6

LEMMA MergeSortedOK ==
    ASSUME NEW o \in Seq(Item), Injective(o), NEW r, r = MergeSorted(o)
    PROVE  /\ r \in Seq(Item) /\ Len(r) = Len(o) /\ \A y : Has(r, y) <=> Has(o, y)
           /\ Ordered(o, r) /\ Injective(r)
<1>1. PICK l : l = Len(o)
  OBVIOUS
<1>2. l \in Nat
  BY <1>1
<1> DEFINE insize == CHOOSE f : f = [k \in 0..Len(o) |-> IF k = 0 THEN 1 ELSE 2 * f[k - 1]]
           last == Min({k \in 0..Len(o) : Merges(o, insize[k]) =< 1})
           passed == CHOOSE g : g = [k \in 0..(last + 1) |->
                                        IF k = 0 THEN o ELSE Pass(g[k - 1], insize[k - 1])]
<1>3. r = passed[last + 1]
  BY DEF MergeSorted
<1>4. Doubling(insize, l)
  <2>1. \E f : Doubling(f, l)
    BY <1>2, DoublingDefined
  <2>2. QED
    BY <1>1, <2>1, Zenon DEF Doubling
<1> HIDE DEF insize
<1>5. PICK I : I = {k \in 0..l : Merges(o, insize[k]) =< 1}
  OBVIOUS
<1>6. \A k \in 0..l : insize[k] \in Nat \ {0} /\ k < insize[k] /\ (k # 0 => insize[k] = 2 * insize[k - 1])
  BY <1>2, <1>4, DoublingOK
<1>7. insize[0] = 1
  BY <1>2, <1>4, DoublingOK
<1>8. l \in I
  <2>1. l \in 0..l /\ l < insize[l] /\ insize[l] \in Nat \ {0}
    BY <1>2, <1>6
  <2>2. l =< 2 * insize[l]
    BY <1>2, <2>1
  <2>3. Merges(o, insize[l]) =< 1
    BY <1>1, <2>1, <2>2, MergesOnce
  <2>4. QED
    BY <1>5, <2>1, <2>3
<1>9. last \in I
  <2>1. last = Min(I)
    BY <1>1, <1>5
  <2>2. I \in SUBSET Nat /\ I # {}
    BY <1>2, <1>5, <1>8
  <2>3. QED
    BY <2>1, <2>2, MinNat
<1> PICK n : n = last
  OBVIOUS
<1>10. n \in 0..l /\ Merges(o, insize[n]) =< 1 /\ n + 1 \in Nat
  BY <1>2, <1>5, <1>9
<1>11. Passing(passed, insize, o, n + 1)
  <2>1. \E g : Passing(g, insize, o, n + 1)
    BY <1>10, PassingDefined
  <2>2. QED
    BY <2>1, Zenon DEF Passing
<1> HIDE DEF passed, last
<1>12. \A k \in 0..(n + 1) : passed[k] = IF k = 0 THEN o ELSE Pass(passed[k - 1], insize[k - 1])
  BY <1>11, Zenon DEF Passing
<1>13. PICK T : T = {k \in Nat : Runs(o, passed[k], insize[k])}
  OBVIOUS
<1>14. 0 \in T
  <2>1. passed[0] = o
    BY <1>10, <1>12
  <2>2. ASSUME NEW a \in 1..l, NEW b \in 1..l, a < b
        PROVE  Earlier(o, o[a], o[b]) /\ (a - 1) \div 1 # (b - 1) \div 1
    <3>1. Earlier(o, o[a], o[b])
      BY <1>1, <2>2 DEF Earlier
    <3>2. a - 1 \in Nat /\ b - 1 \in Nat /\ 1 * (a - 1) = a - 1 /\ 1 * (b - 1) = b - 1 /\ a - 1 # b - 1
      BY <1>2, <2>2
    <3>3. (a - 1) \div 1 = a - 1 /\ (b - 1) \div 1 = b - 1
      BY <3>2
    <3>4. QED
      BY <3>1, <3>2, <3>3
  <2>3. Runs(o, o, 1)
    BY <1>1, <2>2 DEF Runs
  <2>4. QED
    BY <1>7, <1>13, <2>1, <2>3
<1>15. \A k \in 0..(n - 1) : k \in T => k + 1 \in T
  <2> SUFFICES ASSUME NEW k \in 0..(n - 1), k \in T PROVE k + 1 \in T
    OBVIOUS
  <2>1. /\ k \in Nat /\ k + 1 \in Nat /\ k + 1 \in 0..(n + 1) /\ k + 1 \in 0..l /\ k \in 0..l
        /\ k + 1 # 0 /\ (k + 1) - 1 = k
    BY <1>2, <1>10
  <2>2. passed[k + 1] = Pass(passed[k], insize[k])
    BY <1>12, <2>1
  <2>3. insize[k + 1] = 2 * insize[k] /\ insize[k] \in Nat \ {0}
    BY <1>6, <2>1
  <2>4. Runs(o, passed[k], insize[k])
    BY <1>13
  <2>5. Runs(o, passed[k + 1], 2 * insize[k])
    BY <2>2, <2>3, <2>4, PassOK
  <2>6. QED
    BY <1>13, <2>1, <2>3, <2>5
<1>16. \A k \in 0..n : k \in T
  <2>1. n \in Nat
    BY <1>10
  <2>2. QED
    BY <1>14, <1>15, <2>1, InductionTo
<1>17. PICK w : w = insize[n]
  OBVIOUS
<1>18. w \in Nat \ {0} /\ l =< 2 * w
  <2>1. w \in Nat \ {0} /\ Merges(o, w) =< 1
    BY <1>6, <1>10, <1>17
  <2>2. QED
    BY <1>1, <2>1, MergesOnce
<1>19. Runs(o, r, 2 * w)
  <2>1. n \in 0..n /\ n + 1 \in 0..(n + 1) /\ n + 1 # 0 /\ (n + 1) - 1 = n
    BY <1>10
  <2>2. r = Pass(passed[n], insize[n])
    BY <1>3, <1>12, <2>1
  <2>3. Runs(o, passed[n], w)
    BY <1>13, <1>16, <1>17, <2>1
  <2>4. QED
    BY <1>17, <1>18, <2>2, <2>3, PassOK
<1>20. r \in Seq(Item) /\ Len(r) = l /\ \A y : Has(r, y) <=> Has(o, y)
  BY <1>1, <1>19 DEF Runs
<1>21. PICK v : v = 2 * w
  OBVIOUS
<1>22. v \in Nat \ {0} /\ l =< v
  BY <1>18, <1>21
<1>23. \A a \in 1..l : (a - 1) \div v = 0
  <2> TAKE a \in 1..l
  <2>1. a - 1 \in Nat /\ v * 0 =< a - 1 /\ a - 1 < v * 0 + v
    BY <1>2, <1>22
  <2>2. QED
    BY <1>22, <2>1, BlockUnique
<1>24. \A a, b \in 1..l : a < b => Before(o, r[a], r[b])
  BY <1>1, <1>19, <1>20, <1>21, <1>23 DEF Runs
<1>25. Ordered(o, r)
  BY <1>20, <1>24 DEF Ordered
<1>26. Injective(r)
  <2>1. \A m \in 1..(Len(r) - 1) : Before(o, r[m], r[m + 1])
    <3> TAKE m \in 1..(Len(r) - 1)
    <3>1. m \in 1..l /\ m + 1 \in 1..l /\ m < m + 1
      BY <1>2, <1>20
    <3>2. QED
      BY <1>24, <3>1
  <2>2. QED
    BY <1>20, <2>1, NeighboursOrdered
<1>27. QED
  BY <1>1, <1>20, <1>25, <1>26

-----------------------------------------------------------------------------
(* Calls *)

\* The place of an item in a list without repetitions.
LEMMA SelectedPlace ==
    ASSUME NEW list \in Seq(Item), Injective(list), NEW i,
           NEW at, at = SelectInSeq(list, LAMBDA j : j = i)
    PROVE  /\ \A n \in 1..Len(list) : list[n] = i => at = n
           /\ ~Has(list, i) => at = 0
<1>1. PICK I : I = {n \in 1..Len(list) : list[n] = i}
  OBVIOUS
<1>2. at = IF I # {} THEN Min(I) ELSE 0
  BY <1>1, Zenon DEF SelectInSeq
<1>3. ASSUME NEW n \in 1..Len(list), list[n] = i PROVE at = n
  <2>1. n \in I /\ Len(list) \in Nat
    BY <1>1, <1>3
  <2>2. Min(I) \in I
    BY <1>1, <2>1, SelectIndex
  <2>3. Min(I) = n
    BY <1>1, <1>3, <2>2 DEF Injective
  <2>4. QED
    BY <1>2, <2>1, <2>3
<1>4. ASSUME ~Has(list, i) PROVE at = 0
  <2>1. I = {}
    BY <1>1, <1>4 DEF Has
  <2>2. QED
    BY <1>2, <2>1
<1>5. QED
  BY <1>3, <1>4

LEMMA SortOK ==
    ASSUME NEW x, NEW o, Full(x, o), NEW y, y = HASH_SRT(x), NEW list, list = MergeSorted(o)
    PROVE  Becomes(y, x, o, list)
<1>1. PICK S : Lists(x, o, S, Len(o)) /\ \A j : j \in S <=> Has(o, j)
  BY DEF Full
<1>2. PICK l : l = Len(list)
  OBVIOUS
<1>3. /\ o \in Seq(Item) /\ Injective(o) /\ o # <<>> /\ x.head # NULL /\ AppOrder(x) = o /\ HashOK(x)
      /\ Len(o) \in Nat \ {0} /\ Linked(x.hh, "prev", "next", o)
  BY FullFacts
<1>4. list \in Seq(Item) /\ l = Len(o) /\ Injective(list) /\ \A j : Has(list, j) <=> Has(o, j)
  BY <1>2, <1>3, MergeSortedOK
<1>5. l \in Nat \ {0} /\ list # <<>> /\ \A n \in 1..l : list[n] \in Item
  <2>1. l \in Nat \ {0}
    BY <1>3, <1>4
  <2>2. list # <<>>
    BY <1>2, <2>1
  <2>3. list \in Seq(Item)
    BY <1>4
  <2>4. \A n \in 1..l : list[n] \in Item
    BY <1>2, <2>3
  <2>5. QED
    BY <2>1, <2>2, <2>4
<1> DEFINE At(i) == SelectInSeq(list, LAMBDA j : j = i)
<1>6. PICK g : g = [i \in Item |->
                      IF At(i) = 0 THEN x.hh[i]
                      ELSE [x.hh[i] EXCEPT
                               !.prev = IF At(i) = 1 THEN NULL ELSE list[At(i) - 1],
                               !.next = IF At(i) = Len(list) THEN NULL ELSE list[At(i) + 1]]]
  OBVIOUS
<1>7. PICK tbl : tbl = [x.tbl EXCEPT !.tail = list[l]]
  OBVIOUS
<1>8. y = [head |-> list[1], tbl |-> tbl, hh |-> g]
  <2>1. Last(list) = list[l]
    BY <1>2 DEF Last
  <2>2. y = [head |-> list[1], tbl |-> [x.tbl EXCEPT !.tail = Last(list)], hh |-> g]
    BY <1>3, <1>6, Zenon DEF HASH_SRT
  <2>3. QED
    BY <1>7, <2>1, <2>2
<1>9. /\ \A n \in 1..l : At(list[n]) = n
      /\ \A i : ~Has(list, i) => At(i) = 0
  <2>1. ASSUME NEW n \in 1..l PROVE At(list[n]) = n
    <3>1. PICK at : at = At(list[n])
      OBVIOUS
    <3>2. \A m \in 1..Len(list) : list[m] = list[n] => at = m
      BY <1>4, <3>1, SelectedPlace
    <3>3. at = n
      BY <1>2, <3>2
    <3>4. QED
      BY <3>1, <3>3
  <2>2. ASSUME NEW i, ~Has(list, i) PROVE At(i) = 0
    <3>1. PICK at : at = At(i)
      OBVIOUS
    <3>2. at = 0
      BY <1>4, <2>2, <3>1, SelectedPlace
    <3>3. QED
      BY <3>1, <3>2
  <2>3. QED
    BY <2>1, <2>2
<1> HIDE DEF At
<1>10. x.hh \in [Item -> {Freed} \union Handle] /\ \A i : Has(o, i) => i \in Item /\ x.hh[i] \in Handle
  BY <1>3 DEF HashOK, Linked, Has
<1>11. ASSUME NEW n \in 1..l
       PROVE  /\ g[list[n]] \in Handle
              /\ g[list[n]].prev = IF n = 1 THEN NULL ELSE list[n - 1]
              /\ g[list[n]].next = IF n = l THEN NULL ELSE list[n + 1]
              /\ g[list[n]].hh_prev = x.hh[list[n]].hh_prev
              /\ g[list[n]].hh_next = x.hh[list[n]].hh_next
  <2>1. list[n] \in Item /\ At(list[n]) = n /\ n # 0
    BY <1>5, <1>9
  <2>2. x.hh[list[n]] \in Handle
    BY <1>2, <1>4, <1>10 DEF Has
  <2>3. PICK p : p = IF n = 1 THEN NULL ELSE list[n - 1]
    OBVIOUS
  <2>4. PICK q : q = IF n = l THEN NULL ELSE list[n + 1]
    OBVIOUS
  <2>5. p \in Ref /\ q \in Ref
    <3>1. n # 1 => n - 1 \in 1..l
      BY <1>5
    <3>2. n # l => n + 1 \in 1..l
      BY <1>5
    <3>3. QED
      BY <1>5, <2>3, <2>4, <3>1, <3>2 DEF Ref
  <2>6. g[list[n]] = [x.hh[list[n]] EXCEPT !.prev = p, !.next = q]
    BY <1>2, <1>6, <2>1, <2>3, <2>4
  <2>7. PICK H : H = [x.hh[list[n]] EXCEPT !.prev = p, !.next = q]
    OBVIOUS
  <2>8. /\ H \in Handle /\ H.prev = p /\ H.next = q
        /\ H.hh_prev = x.hh[list[n]].hh_prev /\ H.hh_next = x.hh[list[n]].hh_next
    BY <2>2, <2>5, <2>7 DEF Handle
  <2>9. QED
    BY <2>3, <2>4, <2>6, <2>7, <2>8
<1>12. \A j \in Item : ~Has(o, j) => g[j] = x.hh[j]
  BY <1>4, <1>6, <1>9
<1>13. g \in [Item -> {Freed} \union Handle]
  <2>1. ASSUME NEW j \in Item PROVE g[j] \in {Freed} \union Handle
    <3>1. CASE Has(o, j)
      <4>1. PICK n \in 1..l : list[n] = j
        BY <1>2, <1>4, <3>1 DEF Has
      <4>2. QED
        BY <1>11, <4>1
    <3>2. CASE ~Has(o, j)
      BY <1>10, <1>12, <3>2
    <3>3. QED
      BY <3>1, <3>2
  <2>2. DOMAIN g = Item /\ g = [j \in Item |-> g[j]]
    BY <1>6
  <2>3. QED
    BY <2>1, <2>2
<1>14. Linked(g, "prev", "next", list)
  BY <1>2, <1>4, <1>11 DEF Linked
<1>15. /\ TableOK(x.tbl) /\ Bounded(x.tbl) /\ x.tbl.num_items = Len(o)
       /\ BucketsOK(x.hh, x.tbl.buckets, x.tbl.num_buckets, S)
  BY <1>1 DEF Lists
<1>16. /\ TableOK(tbl) /\ Bounded(tbl) /\ tbl.tail = list[l] /\ tbl.num_items = Len(o)
       /\ tbl.buckets = x.tbl.buckets /\ tbl.num_buckets = x.tbl.num_buckets
  BY <1>7, <1>15, TailOK
<1>17. BucketsOK(g, tbl.buckets, tbl.num_buckets, S)
  <2>1. \A j \in S : /\ g[j] \in Handle
                     /\ g[j].hh_prev = x.hh[j].hh_prev /\ g[j].hh_next = x.hh[j].hh_next
    <3> TAKE j \in S
    <3>1. PICK n \in 1..l : list[n] = j
      BY <1>1, <1>2, <1>4 DEF Has
    <3>2. QED
      BY <1>11, <3>1
  <2>2. BucketsOK(g, x.tbl.buckets, x.tbl.num_buckets, S)
    BY <1>15, <2>1, BucketsKeep
  <2>3. QED
    BY <1>16, <2>2
<1>18. HashOK(y) /\ y.head = Start(list) /\ y.hh = g /\ y.tbl = tbl
  BY <1>5, <1>8, <1>13 DEF HashOK, Start
<1>19. Lists(y, list, S, Len(list))
  BY <1>2, <1>4, <1>5, <1>14, <1>16, <1>17, <1>18 DEF Lists
<1>20. Full(y, list)
  BY <1>1, <1>4, <1>19 DEF Full
<1>21. QED
  BY <1>12, <1>18, <1>20 DEF Becomes

-----------------------------------------------------------------------------
(* What each call makes of the list *)

\* The first item goes to no other place, an item that is added goes to the end.
LEMMA HoldsFacts ==
    ASSUME NEW x, NEW o, Holds(x, o)
    PROVE  /\ HashOK(x) /\ o \in Seq(Item) /\ Injective(o) /\ Len(o) \in Nat
           /\ Leads(x.hh, "next", o) /\ AppOrder(x) = o /\ x.head = Start(o)
           /\ \A n \in 1..Len(o) : o[n] \in Item /\ o[n] # NULL /\ x.hh[o[n]] \in Handle
           /\ \A i : Has(o, i) => i \in Item /\ i # NULL /\ x.hh[i] # Freed
<1>1. CASE o = <<>> /\ Empty(x)
  <2>1. o \in Seq(Item) /\ Len(o) = 0 /\ x.head = NULL /\ HashOK(x)
    BY <1>1 DEF Empty
  <2>2. Injective(o) /\ \A i : ~Has(o, i)
    BY <2>1 DEF Injective, Has
  <2>3. Leads(x.hh, "next", o)
    BY <2>1, <2>2 DEF Leads
  <2>4. x.head = Start(o)
    BY <1>1, <2>1 DEF Start
  <2>5. AppOrder(x) = o
    BY <2>3, <2>4, WalkLeads DEF AppOrder
  <2>6. QED
    BY <2>1, <2>2, <2>3, <2>4, <2>5
<1>2. CASE Full(x, o)
  <2>1. /\ HashOK(x) /\ o \in Seq(Item) /\ Injective(o) /\ Len(o) \in Nat \ {0} /\ o # <<>>
        /\ Linked(x.hh, "prev", "next", o) /\ AppOrder(x) = o /\ x.head = o[1]
    BY <1>2, FullFacts
  <2>2. Leads(x.hh, "next", o) /\ x.head = Start(o)
    BY <2>1 DEF Linked, Leads, Start
  <2>3. \A n \in 1..Len(o) : o[n] \in Item /\ o[n] # NULL /\ x.hh[o[n]] \in Handle
    BY <2>1, HashAssumption DEF Linked
  <2>4. \A i : Has(o, i) => i \in Item /\ i # NULL /\ x.hh[i] # Freed
    BY <2>3 DEF Has, Holds, Owned
  <2>5. QED
    BY <2>1, <2>2, <2>3, <2>4
<1>3. QED
  BY <1>1, <1>2 DEF Holds

LEMMA HandleNotFreed ==
    \A y \in Handle : y # Freed
  BY HashAssumption

\* A list that has only grown is all that the users have not freed.
LEMMA GrownHolds ==
    ASSUME NEW x, NEW o, Holds(x, o), NEW y, NEW e, Becomes(y, x, o, e), \A j : Has(o, j) => Has(e, j)
    PROVE  Holds(y, e)
<1>1. Full(y, e)
  BY DEF Becomes
<1>2. Linked(y.hh, "prev", "next", e)
  BY <1>1, FullFacts
<1>3. \A j \in Item : Has(e, j) => y.hh[j] # Freed
  BY <1>2, HandleNotFreed DEF Linked, Has
<1>4. \A j \in Item : ~Has(e, j) => y.hh[j] = Freed
  BY DEF Becomes, Holds, Owned
<1>5. QED
  BY <1>1, <1>3, <1>4 DEF Holds, Owned

LEMMA AddHolds ==
    ASSUME NEW x, NEW o, Holds(x, o), NEW i \in Item, x.hh[i] = Freed, NEW y, y = HASH_ADD(x, i)
    PROVE  ~Has(o, i) /\ Holds(y, Inserted(o, Len(o) + 1, i))
<1>1. ~Has(o, i)
  BY DEF Holds, Owned
<1>2. PICK e : e = Inserted(o, Len(o) + 1, i)
  OBVIOUS
<1>3. Becomes(y, x, o, e)
  BY <1>1, <1>2, AddOK DEF Holds
<1>4. o \in Seq(Item) /\ Len(o) + 1 \in 1..(Len(o) + 1)
  BY HoldsFacts
<1> PICK d : d = Len(o) + 1
  OBVIOUS
<1>5. \A j : Has(e, j) <=> Has(o, j) \/ j = i
  <2>1. d \in 1..(Len(o) + 1) /\ e = Inserted(o, d, i)
    BY <1>2, <1>4
  <2>2. QED
    BY <1>4, <2>1, InsertedSeq
<1>6. QED
  BY <1>1, <1>2, <1>3, <1>5, GrownHolds

LEMMA InsertHolds ==
    ASSUME NEW x, NEW o, Holds(x, o), NEW i \in Item, x.hh[i] = Freed, NEW y, y = HASH_ADD_INORDER(x, i)
    PROVE  ~Has(o, i) /\ \E d : Place(o, i, d) /\ Holds(y, Inserted(o, d, i))
<1>1. ~Has(o, i)
  BY DEF Holds, Owned
<1>2. PICK d : Place(o, i, d) /\ Becomes(y, x, o, Inserted(o, d, i))
  BY <1>1, AddInorderOK DEF Holds
<1>3. PICK e : e = Inserted(o, d, i)
  OBVIOUS
<1>4. o \in Seq(Item) /\ d \in 1..(Len(o) + 1)
  BY <1>2, HoldsFacts DEF Place
<1>5. \A j : Has(e, j) <=> Has(o, j) \/ j = i
  BY <1>3, <1>4, InsertedSeq
<1>6. QED
  BY <1>1, <1>2, <1>3, <1>5, GrownHolds

\* A list from which an item has been deleted, before its user frees it.
LEMMA DeleteLeaves ==
    ASSUME NEW x, NEW o, Holds(x, o), NEW d \in 1..Len(o), NEW y, y = HASH_DELETE(x, o[d]),
           NEW e, e = Dropped(o, d)
    PROVE  /\ (e = <<>> /\ Empty(y)) \/ Full(y, e)
           /\ HashOK(y) /\ \A j \in Item : ~Has(o, j) => y.hh[j] = x.hh[j]
           /\ e \in Seq(Item) /\ Injective(e) /\ \A j : Has(e, j) <=> Has(o, j) /\ j # o[d]
<1>1. o \in Seq(Item) /\ Injective(o) /\ Len(o) \in Nat
  BY HoldsFacts
<1>2. Full(x, o)
  <2>1. o # <<>>
    BY <1>1
  <2>2. QED
    BY <2>1 DEF Holds
<1>3. e \in Seq(Item) /\ Len(e) = Len(o) - 1
  BY <1>1, DroppedSeq
<1>4. Injective(e) /\ \A j : Has(e, j) <=> Has(o, j) /\ j # o[d]
  BY <1>1, DroppedSeq
<1>5. CASE Len(o) = 1
  <2>1. Empty(y) /\ y.hh = x.hh
    BY <1>2, <1>5, DeleteOK
  <2>2. e = <<>>
    BY <1>3, <1>5
  <2>3. QED
    BY <1>3, <1>4, <2>1, <2>2 DEF Empty
<1>6. CASE Len(o) # 1
  <2>1. Becomes(y, x, o, Dropped(o, d))
    BY <1>2, <1>6, DeleteOK
  <2>2. Becomes(y, x, o, e)
    BY <2>1
  <2>3. Full(y, e) /\ \A j \in Item : ~Has(o, j) => y.hh[j] = x.hh[j]
    BY <1>4, <2>2 DEF Becomes
  <2>4. HashOK(y)
    BY <2>3, FullFacts
  <2>5. QED
    BY <1>3, <1>4, <2>3, <2>4
<1>7. QED
  BY <1>5, <1>6

\* Freeing what has left a list makes it again all that has not been freed.
LEMMA FreeHolds ==
    ASSUME NEW x, HashOK(x), NEW e, (e = <<>> /\ Empty(x)) \/ Full(x, e), NEW gone, ~Has(e, gone),
           \A j \in Item : ~Has(e, j) /\ j # gone => x.hh[j] = Freed,
           NEW y, y = Free(x, {gone})
    PROVE  Holds(y, e)
<1>1. /\ HashOK(y) /\ y.head = x.head /\ y.tbl = x.tbl
      /\ \A j \in Item : y.hh[j] = IF j \in {gone} THEN Freed ELSE x.hh[j]
  BY FreeOK
<1>2. \A j \in Item : ~Has(e, j) => y.hh[j] = Freed
  BY <1>1
<1>3. CASE e = <<>> /\ Empty(x)
  <2>1. Empty(y)
    BY <1>1, <1>3 DEF Empty
  <2>2. \A j : ~Has(e, j)
    BY <1>3 DEF Has
  <2>3. QED
    BY <1>2, <1>3, <2>1, <2>2 DEF Holds, Owned
<1>4. CASE Full(x, e)
  <2>1. \A j \in {gone} : ~Has(e, j)
    OBVIOUS
  <2>2. Full(y, e)
    BY <1>4, <2>1, FreeOK
  <2>3. Linked(y.hh, "prev", "next", e)
    BY <2>2, FullFacts
  <2>4. \A j \in Item : Has(e, j) => y.hh[j] # Freed
    BY <2>3, HandleNotFreed DEF Linked, Has
  <2>5. QED
    BY <1>2, <2>2, <2>4 DEF Holds, Owned
<1>5. QED
  BY <1>3, <1>4

LEMMA DeleteHolds ==
    ASSUME NEW x, NEW o, Holds(x, o), NEW d \in 1..Len(o), NEW y,
           y = Free(HASH_DELETE(x, o[d]), {o[d]})
    PROVE  Holds(y, Dropped(o, d))
<1>1. PICK e : e = Dropped(o, d)
  OBVIOUS
<1>2. PICK z : z = HASH_DELETE(x, o[d])
  OBVIOUS
<1>3. /\ (e = <<>> /\ Empty(z)) \/ Full(z, e)
      /\ HashOK(z) /\ \A j \in Item : ~Has(o, j) => z.hh[j] = x.hh[j]
      /\ \A j : Has(e, j) <=> Has(o, j) /\ j # o[d]
  BY <1>1, <1>2, DeleteLeaves
<1>4. ~Has(e, o[d])
  BY <1>3
<1>5. \A j \in Item : ~Has(e, j) /\ j # o[d] => z.hh[j] = Freed
  BY <1>3 DEF Holds, Owned
<1>6. y = Free(z, {o[d]})
  BY <1>2
<1>7. Holds(y, e)
  BY <1>3, <1>4, <1>5, <1>6, FreeHolds
<1>8. QED
  BY <1>1, <1>7

LEMMA ReplaceHolds ==
    ASSUME NEW x, NEW o, Holds(x, o), NEW i \in Item, x.hh[i] = Freed, NEW y, y = HASH_REPLACE(x, i)
    PROVE  /\ ~Has(o, i)
           /\ \/ (\A j : Has(o, j) => Key[j] # Key[i]) /\ Holds(y, Inserted(o, Len(o) + 1, i))
              \/ \E d \in 1..Len(o) : /\ Key[o[d]] = Key[i]
                                      /\ Holds(y, Inserted(Dropped(o, d), Len(Dropped(o, d)) + 1, i))
<1>1. ~Has(o, i)
  BY DEF Holds, Owned
<1>2. PICK r : r = HASH_FIND(x, Key[i])
  OBVIOUS
<1>3. Key[i] \in DOMAIN Hash
  BY HashAssumption
<1>4. IF \E j : Has(o, j) /\ Key[j] = Key[i] THEN Has(o, r) /\ Key[r] = Key[i] ELSE r = NULL
  BY <1>2, <1>3, FindOK DEF Holds
<1>5. CASE ~\E j : Has(o, j) /\ Key[j] = Key[i]
  <2>1. y = HASH_ADD(x, i)
    BY <1>2, <1>4, <1>5 DEF HASH_REPLACE
  <2>2. Holds(y, Inserted(o, Len(o) + 1, i))
    BY <2>1, AddHolds
  <2>3. QED
    BY <1>1, <1>5, <2>2
<1>6. CASE \E j : Has(o, j) /\ Key[j] = Key[i]
  <2>1. PICK d \in 1..Len(o) : o[d] = r /\ Key[o[d]] = Key[i]
    BY <1>4, <1>6 DEF Has
  <2>2. r # NULL
    BY <2>1, HoldsFacts
  <2>3. PICK z : z = HASH_DELETE(x, o[d])
    OBVIOUS
  <2>4. PICK w : w = HASH_ADD(z, i)
    OBVIOUS
  <2>5. y = Free(w, {r})
    BY <1>2, <2>1, <2>2, <2>3, <2>4 DEF HASH_REPLACE
  <2>6. PICK e : e = Dropped(o, d)
    OBVIOUS
  <2>7. /\ (e = <<>> /\ Empty(z)) \/ Full(z, e)
        /\ HashOK(z) /\ \A j \in Item : ~Has(o, j) => z.hh[j] = x.hh[j]
        /\ e \in Seq(Item) /\ \A j : Has(e, j) <=> Has(o, j) /\ j # o[d]
    BY <2>3, <2>6, DeleteLeaves
  <2>8. ~Has(e, i)
    BY <1>1, <2>7
  <2>9. PICK a : a = Len(e) + 1
    OBVIOUS
  <2>10. PICK e2 : e2 = Inserted(e, a, i)
    OBVIOUS
  <2>11. Becomes(w, z, e, e2)
    BY <2>4, <2>7, <2>8, <2>9, <2>10, AddOK
  <2>12. \A j : Has(e2, j) <=> Has(e, j) \/ j = i
    <3>1. a \in 1..(Len(e) + 1) /\ e \in Seq(Item)
      BY <2>7, <2>9
    <3>2. QED
      BY <2>10, <3>1, InsertedSeq
  <2>13. Full(w, e2) /\ \A j \in Item : ~Has(e2, j) => w.hh[j] = z.hh[j]
    BY <2>11, <2>12 DEF Becomes
  <2>14. HashOK(w)
    BY <2>13, FullFacts
  <2>15. ~Has(e2, r)
    <3>1. Has(o, r) /\ ~Has(e, r)
      BY <1>4, <1>6, <2>1, <2>7
    <3>2. QED
      BY <1>1, <2>12, <3>1
  <2>16. \A j \in Item : ~Has(e2, j) /\ j # r => w.hh[j] = Freed
    <3> SUFFICES ASSUME NEW j \in Item, ~Has(e2, j), j # r PROVE w.hh[j] = Freed
      OBVIOUS
    <3>1. ~Has(o, j)
      BY <2>1, <2>7, <2>12
    <3>2. w.hh[j] = z.hh[j] /\ z.hh[j] = x.hh[j]
      BY <2>7, <2>13, <3>1
    <3>3. QED
      BY <3>1, <3>2 DEF Holds, Owned
  <2>17. Holds(y, e2)
    BY <2>5, <2>13, <2>14, <2>15, <2>16, FreeHolds
  <2>18. QED
    BY <1>1, <2>1, <2>6, <2>9, <2>10, <2>17
<1>7. QED
  BY <1>5, <1>6

LEMMA ClearHolds ==
    ASSUME NEW x, NEW o, Holds(x, o), NEW y,
           y = Free(HASH_CLEAR(x), {i \in Item : x.hh[i] # Freed})
    PROVE  Holds(y, <<>>)
<1>1. HashOK(x)
  BY HoldsFacts
<1>2. PICK z : z = HASH_CLEAR(x)
  OBVIOUS
<1>3. HashOK(z) /\ z.head = NULL /\ z.tbl = NULL /\ z.hh = x.hh
  BY <1>1, <1>2 DEF HASH_CLEAR, HashOK
<1>4. PICK gone : gone = {i \in Item : x.hh[i] # Freed}
  OBVIOUS
<1>5. y = Free(z, gone)
  BY <1>2, <1>4
<1>6. /\ HashOK(y) /\ y.head = z.head /\ y.tbl = z.tbl
      /\ \A j \in Item : y.hh[j] = IF j \in gone THEN Freed ELSE z.hh[j]
  <2>1. HashOK(z)
    BY <1>3
  <2>2. HashOK(y) /\ y.head = z.head /\ y.tbl = z.tbl
    BY <1>5, <2>1, FreeOK
  <2>3. \A j \in Item : y.hh[j] = IF j \in gone THEN Freed ELSE z.hh[j]
    BY <1>5, <2>1, FreeOK
  <2>4. QED
    BY <2>2, <2>3
<1>7. \A j \in Item : y.hh[j] = Freed
  BY <1>3, <1>4, <1>6
<1>8. \A j : ~Has(<<>>, j)
  BY DEF Has
<1>9. Empty(y)
  BY <1>3, <1>6 DEF Empty
<1>10. QED
  BY <1>7, <1>8, <1>9 DEF Holds, Owned

LEMMA SortHolds ==
    ASSUME NEW x, NEW o, Holds(x, o), NEW y, y = HASH_SRT(x)
    PROVE  \E e : /\ Holds(y, e) /\ e \in Seq(Item) /\ Len(e) = Len(o) /\ Ordered(o, e)
                  /\ \A j : Has(e, j) <=> Has(o, j)
<1>1. CASE o = <<>> /\ Empty(x)
  <2>1. y = x
    BY <1>1 DEF HASH_SRT, Empty
  <2>2. o \in Seq(Item) /\ Len(o) = 0
    BY <1>1
  <2>3. Ordered(o, o)
    BY <2>2 DEF Ordered
  <2>4. QED
    BY <2>1, <2>2, <2>3
<1>2. CASE Full(x, o)
  <2>1. PICK e : e = MergeSorted(o)
    OBVIOUS
  <2>2. o \in Seq(Item) /\ Injective(o)
    BY HoldsFacts
  <2>3. e \in Seq(Item) /\ Len(e) = Len(o) /\ Ordered(o, e) /\ \A j : Has(e, j) <=> Has(o, j)
    BY <2>1, <2>2, MergeSortedOK
  <2>4. Becomes(y, x, o, e)
    BY <1>2, <2>1, SortOK
  <2>5. Holds(y, e)
    BY <2>3, <2>4, GrownHolds
  <2>6. QED
    BY <2>3, <2>5
<1>3. QED
  BY <1>1, <1>2 DEF Holds

-----------------------------------------------------------------------------
(* Steps *)

LEMMA AddStep ==
    ASSUME NEW o, Holds(h, o), Add
    PROVE  \E i \in Item : ~Has(o, i) /\ Holds(h', Inserted(o, Len(o) + 1, i))
<1>1. PICK i \in Item : h.hh[i] = Freed /\ h' = HASH_ADD(h, i)
  BY DEF Add, Absent
<1>2. QED
  BY <1>1, AddHolds

LEMMA InsertStep ==
    ASSUME NEW o, Holds(h, o), Insert
    PROVE  \E i \in Item : ~Has(o, i) /\ \E d : Place(o, i, d) /\ Holds(h', Inserted(o, d, i))
<1>1. PICK i \in Item : h.hh[i] = Freed /\ h' = HASH_ADD_INORDER(h, i)
  BY DEF Insert, Absent
<1>2. QED
  BY <1>1, InsertHolds

LEMMA ReplaceStep ==
    ASSUME NEW o, Holds(h, o), Replace
    PROVE  \E i \in Item :
               /\ ~Has(o, i)
               /\ \/ (\A j : Has(o, j) => Key[j] # Key[i]) /\ Holds(h', Inserted(o, Len(o) + 1, i))
                  \/ \E d \in 1..Len(o) :
                         /\ Key[o[d]] = Key[i]
                         /\ Holds(h', Inserted(Dropped(o, d), Len(Dropped(o, d)) + 1, i))
<1>1. PICK i \in Item : h.hh[i] = Freed /\ h' = HASH_REPLACE(h, i)
  BY DEF Replace, Absent
<1>2. QED
  BY <1>1, ReplaceHolds

LEMMA DeleteStep ==
    ASSUME NEW o, Holds(h, o), Delete
    PROVE  \E d \in 1..Len(o) : Holds(h', Dropped(o, d))
<1>1. PICK i \in Item : h.hh[i] # Freed /\ h' = Free(HASH_DELETE(h, i), {i})
  BY DEF Delete, Present
<1>2. PICK d \in 1..Len(o) : o[d] = i
  BY <1>1 DEF Holds, Owned, Has
<1>3. QED
  BY <1>1, <1>2, DeleteHolds

LEMMA ClearStep ==
    ASSUME NEW o, Holds(h, o), Clear
    PROVE  Holds(h', <<>>)
<1>1. h' = Free(HASH_CLEAR(h), {i \in Item : h.hh[i] # Freed})
  BY DEF Clear, Present
<1>2. QED
  BY <1>1, ClearHolds

LEMMA SortStep ==
    ASSUME NEW o, Holds(h, o), Sort
    PROVE  \E e : /\ Holds(h', e) /\ e \in Seq(Item) /\ Len(e) = Len(o) /\ Ordered(o, e)
                  /\ \A j : Has(e, j) <=> Has(o, j)
<1>1. h' = HASH_SRT(h)
  BY DEF Sort
<1>2. QED
  BY <1>1, SortHolds

\* What a loop deletes is the item it is at; the one it goes to next stays.
LEMMA IterDeleteStep ==
    ASSUME NEW o, Holds(h, o), IterInv, IterDelete
    PROVE  /\ el # NULL
           /\ \E d \in 1..Len(o) : /\ o[d] = el /\ Holds(h', Dropped(o, d))
                                   /\ tmp = IF d = Len(o) THEN NULL ELSE o[d + 1]
<1>1. el \in Item /\ h.hh[el] # Freed /\ h' = Free(HASH_DELETE(h, el), {el})
  BY DEF IterDelete, Present
<1>2. PICK d \in 1..Len(o) : o[d] = el
  BY <1>1 DEF Holds, Owned, Has
<1>3. Holds(h', Dropped(o, d))
  BY <1>1, <1>2, DeleteHolds
<1>4. el # NULL
  BY <1>1, HashAssumption
<1>5. tmp = h.hh[el].next
  BY <1>1, <1>4 DEF IterInv
<1>6. Leads(h.hh, "next", o)
  BY HoldsFacts
<1>7. h.hh[o[d]]["next"] = IF d = Len(o) THEN NULL ELSE o[d + 1]
  BY <1>6 DEF Leads
<1>8. QED
  BY <1>2, <1>3, <1>4, <1>5, <1>7

\* The link of an item leads to another one of the hash.
LEMMA NextHolds ==
    ASSUME NEW o, Holds(h, o), NEW d \in 1..Len(o)
    PROVE  /\ h.hh[o[d]].next = IF d = Len(o) THEN NULL ELSE o[d + 1]
           /\ h.hh[o[d]].next \in Ref
           /\ h.hh[o[d]].next # NULL => h.hh[h.hh[o[d]].next] # Freed
<1>1. /\ Leads(h.hh, "next", o) /\ Len(o) \in Nat
      /\ \A n \in 1..Len(o) : o[n] \in Item /\ o[n] # NULL
      /\ \A i : Has(o, i) => i \in Item /\ i # NULL /\ h.hh[i] # Freed
  BY HoldsFacts
<1>2. h.hh[o[d]]["next"] = IF d = Len(o) THEN NULL ELSE o[d + 1]
  BY <1>1 DEF Leads
<1>3. d # Len(o) => d + 1 \in 1..Len(o)
  BY <1>1
<1>4. d # Len(o) => o[d + 1] \in Item /\ h.hh[o[d + 1]] # Freed
  BY <1>1, <1>3 DEF Has
<1>5. QED
  BY <1>2, <1>4 DEF Ref

LEMMA InvInit ==
    ASSUME Init
    PROVE  Inv
<1>1. h = [head |-> NULL, tbl |-> NULL, hh |-> [i \in Item |-> Freed]] /\ el = NULL /\ tmp = NULL
  BY DEF Init, NoHash
<1>2. Empty(h) /\ \A i \in Item : h.hh[i] = Freed
  BY <1>1 DEF Empty, HashOK
<1>3. Holds(h, <<>>)
  BY <1>2 DEF Holds, Owned, Has
<1>4. IterInv
  BY <1>1 DEF IterInv, Ref
<1>5. QED
  BY <1>3, <1>4 DEF Inv, HashInv

LEMMA InvNext ==
    ASSUME Inv, [Next]_vars
    PROVE  Inv'
<1>1. PICK o : Holds(h, o)
  BY DEF Inv, HashInv
<1>2. IterInv
  BY DEF Inv
<1>3. ASSUME NEW e, Holds(h', e), IterInv'
      PROVE  Inv'
  BY <1>3 DEF Inv, HashInv
<1>4. ASSUME Outside
      PROVE  IterInv'
  BY <1>2, <1>4 DEF Outside, IterInv
<1>5. CASE Add
  <2>1. Outside
    BY <1>5 DEF Add
  <2>2. QED
    BY <1>1, <1>3, <1>4, <1>5, <2>1, AddStep
<1>6. CASE Insert
  <2>1. Outside
    BY <1>6 DEF Insert
  <2>2. QED
    BY <1>1, <1>3, <1>4, <1>6, <2>1, InsertStep
<1>7. CASE Replace
  <2>1. Outside
    BY <1>7 DEF Replace
  <2>2. QED
    BY <1>1, <1>3, <1>4, <1>7, <2>1, ReplaceStep
<1>8. CASE Delete
  <2>1. Outside
    BY <1>8 DEF Delete
  <2>2. QED
    BY <1>1, <1>3, <1>4, <1>8, <2>1, DeleteStep
<1>9. CASE Clear
  <2>1. Outside
    BY <1>9 DEF Clear
  <2>2. QED
    BY <1>1, <1>3, <1>4, <1>9, <2>1, ClearStep
<1>10. CASE Sort
  <2>1. Outside
    BY <1>10 DEF Sort
  <2>2. QED
    BY <1>1, <1>3, <1>4, <1>10, <2>1, SortStep
<1>11. CASE IterStart
  <2>1. h' = h /\ h.head # NULL /\ el' = h.head /\ tmp' = h.hh[h.head].next
    BY <1>11 DEF IterStart
  <2>2. 1 \in 1..Len(o) /\ h.head = o[1] /\ o[1] \in Item
    <3>1. /\ h.head = Start(o) /\ o \in Seq(Item) /\ Len(o) \in Nat
          /\ \A n \in 1..Len(o) : o[n] \in Item
      BY <1>1, HoldsFacts
    <3>2. o # <<>>
      BY <2>1, <3>1 DEF Start
    <3>3. 1 \in 1..Len(o)
      BY <3>1, <3>2
    <3>4. QED
      BY <3>1, <3>2, <3>3 DEF Start
  <2>3. tmp' \in Ref /\ (tmp' # NULL => h.hh[tmp'] # Freed)
    BY <1>1, <2>1, <2>2, NextHolds
  <2>4. IterInv'
    BY <2>1, <2>2, <2>3 DEF IterInv, Ref
  <2>5. QED
    BY <1>1, <1>3, <2>1, <2>4
<1>12. CASE IterDelete
  <2>1. PICK d \in 1..Len(o) : /\ o[d] = el /\ Holds(h', Dropped(o, d))
                               /\ tmp = IF d = Len(o) THEN NULL ELSE o[d + 1]
    BY <1>1, <1>2, <1>12, IterDeleteStep
  <2>2. el' = el /\ tmp' = tmp
    BY <1>12 DEF IterDelete
  <2>3. o \in Seq(Item) /\ Injective(o) /\ Len(o) \in Nat /\ \A n \in 1..Len(o) : o[n] \in Item
    BY <1>1, HoldsFacts
  <2>4. PICK e : e = Dropped(o, d)
    OBVIOUS
  <2>5. \A j : Has(e, j) <=> Has(o, j) /\ j # o[d]
    BY <2>3, <2>4, DroppedSeq
  <2>6. h'.hh[el] = Freed
    <3>1. Owned(h', e)
      BY <2>1, <2>4 DEF Holds
    <3>2. QED
      BY <2>1, <2>3, <2>5, <3>1 DEF Owned
  <2>7. tmp # NULL => h'.hh[tmp] # Freed
    <3>1. tmp # NULL => d + 1 \in 1..Len(o) /\ tmp = o[d + 1] /\ o[d + 1] # o[d]
      BY <2>1, <2>3 DEF Injective
    <3>2. tmp # NULL => Has(e, tmp)
      BY <2>5, <3>1 DEF Has
    <3>3. \A i : Has(e, i) => h'.hh[i] # Freed
      BY <2>1, <2>4, HoldsFacts
    <3>4. QED
      BY <3>2, <3>3
  <2>8. IterInv'
    BY <1>2, <2>2, <2>6, <2>7 DEF IterInv
  <2>9. QED
    BY <1>3, <2>1, <2>8
<1>13. CASE IterNext
  <2>1. h' = h /\ el # NULL /\ el' = tmp /\ tmp' = IF tmp = NULL THEN NULL ELSE h.hh[tmp].next
    BY <1>13 DEF IterNext
  <2>2. CASE tmp = NULL
    BY <1>1, <1>3, <2>1, <2>2 DEF IterInv, Ref
  <2>3. CASE tmp # NULL
    <3>1. tmp \in Item /\ h.hh[tmp] # Freed
      BY <1>2, <2>1, <2>3 DEF IterInv, Ref
    <3>2. PICK d \in 1..Len(o) : o[d] = tmp
      BY <1>1, <3>1 DEF Holds, Owned, Has
    <3>3. tmp' \in Ref /\ (tmp' # NULL => h.hh[tmp'] # Freed)
      BY <1>1, <2>1, <2>3, <3>2, NextHolds
    <3>4. IterInv'
      BY <2>1, <2>3, <3>1, <3>3 DEF IterInv, Ref
    <3>5. QED
      BY <1>1, <1>3, <2>1, <3>4
  <2>4. QED
    BY <2>2, <2>3
<1>14. CASE UNCHANGED vars
  <2>1. h' = h /\ el' = el /\ tmp' = tmp
    BY <1>14 DEF vars
  <2>2. IterInv'
    BY <1>2, <2>1 DEF IterInv
  <2>3. QED
    BY <1>1, <1>3, <2>1, <2>2
<1>15. QED
  BY <1>5, <1>6, <1>7, <1>8, <1>9, <1>10, <1>11, <1>12, <1>13, <1>14 DEF Next

LEMMA InvAlways ==
    Spec => []Inv
<1>1. Init => Inv
  BY InvInit
<1>2. Inv /\ [Next]_vars => Inv'
  BY InvNext
<1>3. QED
  BY <1>1, <1>2, PTL DEF Spec

-----------------------------------------------------------------------------
(* Theorems *)

LEMMA ChainOf ==
    ASSUME NEW o, Full(h, o), NEW b \in 0..(h.tbl.num_buckets - 1)
    PROVE  /\ Linked(h.hh, "hh_prev", "hh_next", Chain(h, b))
           /\ h.tbl.buckets[b].count = Len(Chain(h, b))
           /\ \A i : Has(Chain(h, b), i) <=> Has(o, i) /\ BucketOf(i, h.tbl.num_buckets) = b
<1>1. PICK S : /\ BucketsOK(h.hh, h.tbl.buckets, h.tbl.num_buckets, S)
               /\ \A i : i \in S <=> Has(o, i)
  BY DEF Full, Lists
<1>2. PICK c : /\ Filled(h.hh, h.tbl.buckets[b], c)
               /\ \A i : Has(c, i) <=> i \in S /\ BucketOf(i, h.tbl.num_buckets) = b
  BY <1>1 DEF BucketsOK
<1>3. Linked(h.hh, "hh_prev", "hh_next", c) /\ h.tbl.buckets[b].hh_head = Start(c)
  BY <1>2 DEF Filled
<1>4. Chain(h, b) = c
  BY <1>3, LinkedWalk DEF Chain
<1>5. QED
  BY <1>1, <1>2, <1>3, <1>4 DEF Filled

LEMMA PresentItems ==
    ASSUME NEW o, Holds(h, o)
    PROVE  /\ \A i : i \in Present <=> Has(o, i)
           /\ ToSet(o) = Present /\ Cardinality(Present) = Len(o)
<1>1. o \in Seq(Item) /\ Injective(o) /\ \A i : Has(o, i) => i \in Item
  BY HoldsFacts
<1>2. \A i : i \in Present <=> Has(o, i)
  BY <1>1 DEF Present, Holds, Owned
<1>3. \A i : i \in ToSet(o) <=> Has(o, i)
  BY <1>1, HasToSet
<1>4. Cardinality(Present) = Len(o)
  BY <1>1, <1>2, InjectiveCount
<1>5. QED
  BY <1>2, <1>3, <1>4

LEMMA LinkedPrevs ==
    ASSUME NEW hh, NEW back, NEW forth, NEW s, Linked(hh, back, forth, s)
    PROVE  Prevs(hh, s, back)
  BY DEF Linked, Prevs

LEMMA InvTypeOK ==
    ASSUME Inv
    PROVE  TypeOK
<1>1. PICK o : Holds(h, o)
  BY DEF Inv, HashInv
<1>2. el \in Ref /\ tmp \in Ref
  BY DEF Inv, IterInv
<1>3. /\ HashOK(h) /\ h.head = Start(o) /\ o \in Seq(Item) /\ Len(o) \in Nat
      /\ \A n \in 1..Len(o) : o[n] \in Item /\ o[n] # NULL
  BY <1>1, HoldsFacts
<1>4. h.hh \in [Item -> {Freed} \union Handle]
  BY <1>3 DEF HashOK
<1>5. h.head \in Ref
  <2>1. o # <<>> => 1 \in 1..Len(o)
    BY <1>3
  <2>2. QED
    BY <1>3, <2>1 DEF Start, Ref
<1>6. CASE Empty(h)
  BY <1>2, <1>4, <1>5, <1>6 DEF TypeOK, Empty
<1>7. CASE Full(h, o)
  <2>1. PICK S : /\ TableOK(h.tbl) /\ h.tbl.tail = o[Len(o)]
                 /\ BucketsOK(h.hh, h.tbl.buckets, h.tbl.num_buckets, S)
    BY <1>7 DEF Full, Lists
  <2>2. h.head # NULL /\ Len(o) \in 1..Len(o)
    BY <1>7, FullFacts
  <2>3. h.tbl.tail \in Item
    BY <1>3, <2>1, <2>2
  <2>4. h.tbl.buckets \in [0..(h.tbl.num_buckets - 1) -> [hh_head : Ref, count : Nat, expand_mult : Nat]]
    BY <2>1 DEF BucketsOK, Bucket
  <2>5. h.tbl.num_buckets \in Nat \ {0} /\ h.tbl.num_items \in Nat /\ h.tbl.noexpand \in BOOLEAN
    BY <2>1 DEF TableOK
  <2>6. QED
    BY <1>2, <1>4, <1>5, <2>2, <2>3, <2>4, <2>5 DEF TypeOK
<1>8. QED
  BY <1>1, <1>6, <1>7 DEF Holds

LEMMA InvFsck ==
    ASSUME Inv
    PROVE  Fsck
<1> SUFFICES ASSUME h.head # NULL PROVE Fsck
  BY DEF Fsck
<1>1. PICK o : Holds(h, o)
  BY DEF Inv, HashInv
<1>2. Full(h, o)
  BY <1>1 DEF Holds, Empty
<1>3. AppOrder(h) = o /\ Linked(h.hh, "prev", "next", o)
  BY <1>2, FullFacts
<1>4. PICK N : N = h.tbl.num_buckets
  OBVIOUS
<1>5. h.tbl.num_items = Len(o) /\ h.tbl.tail = o[Len(o)] /\ DOMAIN h.tbl.buckets = 0..(N - 1)
  BY <1>2, <1>4 DEF Full, Lists, BucketsOK
<1>6. ToSet(o) = Present /\ \A i : i \in Present <=> Has(o, i)
  BY <1>1, PresentItems
<1>7. Prevs(h.hh, o, "prev")
  BY <1>3, LinkedPrevs
<1>8. h.tbl.tail = Last(o)
  BY <1>5 DEF Last
<1>9. ASSUME NEW b \in 0..(N - 1)
      PROVE  /\ ToSet(Chain(h, b)) = {i \in Present : BucketOf(i, h.tbl.num_buckets) = b}
             /\ Len(Chain(h, b)) = h.tbl.buckets[b].count
             /\ Len(Chain(h, b)) = Cardinality(ToSet(Chain(h, b)))
             /\ Prevs(h.hh, Chain(h, b), "hh_prev")
  <2>1. PICK c : c = Chain(h, b)
    OBVIOUS
  <2>2. /\ Linked(h.hh, "hh_prev", "hh_next", c) /\ h.tbl.buckets[b].count = Len(c)
        /\ \A i : Has(c, i) <=> Has(o, i) /\ BucketOf(i, N) = b
    BY <1>2, <1>4, <2>1, ChainOf
  <2>3. c \in Seq(Item) /\ Injective(c)
    BY <2>2 DEF Linked
  <2>4. \A i : i \in ToSet(c) <=> Has(c, i)
    BY <2>3, HasToSet
  <2>5. Cardinality(ToSet(c)) = Len(c)
    BY <2>3, <2>4, InjectiveCount
  <2>6. ToSet(c) = {i \in Present : BucketOf(i, N) = b}
    BY <1>6, <2>2, <2>4
  <2>7. Prevs(h.hh, c, "hh_prev")
    BY <2>2, LinkedPrevs
  <2>8. QED
    BY <1>4, <2>1, <2>2, <2>5, <2>6, <2>7
<1>10. QED
  BY <1>3, <1>5, <1>6, <1>7, <1>8, <1>9 DEF Fsck

LEMMA InvAnswers ==
    ASSUME Inv
    PROVE  Answers
<1>1. PICK o : Holds(h, o)
  BY DEF Inv, HashInv
<1>2. \A i : i \in Present <=> Has(o, i)
  BY <1>1, PresentItems
<1>3. HASH_COUNT(h) = Cardinality(Present)
  <2>1. Cardinality(Present) = Len(o)
    BY <1>1, PresentItems
  <2>2. CASE o = <<>> /\ Empty(h)
    BY <2>1, <2>2 DEF HASH_COUNT, Empty
  <2>3. CASE Full(h, o)
    <3>1. h.head # NULL /\ h.tbl.num_items = Len(o)
      BY <2>3, FullFacts DEF Full, Lists
    <3>2. QED
      BY <2>1, <3>1 DEF HASH_COUNT
  <2>4. QED
    BY <1>1, <2>2, <2>3 DEF Holds
<1>4. ASSUME NEW k \in DOMAIN Hash, NEW found, found = IF h.head = NULL THEN NULL ELSE HASH_FIND(h, k)
      PROVE  IF \E i \in Present : Key[i] = k THEN found \in Present /\ Key[found] = k ELSE found = NULL
  <2>1. found = HASH_FIND(h, k)
    BY <1>4 DEF HASH_FIND
  <2>2. IF \E j : Has(o, j) /\ Key[j] = k THEN Has(o, found) /\ Key[found] = k ELSE found = NULL
    BY <1>1, <2>1, FindOK DEF Holds
  <2>3. QED
    BY <1>2, <2>2
<1>5. QED
  BY <1>3, <1>4 DEF Answers

LEMMA InvChainsBounded ==
    ASSUME Inv
    PROVE  ChainsBounded
<1> SUFFICES ASSUME h.head # NULL PROVE ChainsBounded
  BY DEF ChainsBounded
<1>1. PICK o : Full(h, o)
  BY DEF Inv, HashInv, Holds, Empty
<1>2. Bounded(h.tbl) /\ DOMAIN h.tbl.buckets = 0..(h.tbl.num_buckets - 1)
  BY <1>1 DEF Full, Lists, BucketsOK
<1>3. QED
  BY <1>2 DEF Bounded, Short, ChainsBounded

\* The head, the table, the buckets and the handles keep their shapes (HASH_ADD,
\* HASH_DELETE and the macros below them).
THEOREM HashTypes == Spec => []TypeOK
  BY InvAlways, InvTypeOK, PTL

\* However many items a hash has, however they collide and in whatever order it is
\* added to, sorted, iterated over and deleted from, what HASH_FSCK checks holds.
THEOREM HashFsck == Spec => []Fsck
  BY InvAlways, InvFsck, PTL

\* A search finds an item with the key if and only if there is one (HASH_FIND).
THEOREM HashAnswers == Spec => []Answers
  BY InvAlways, InvAnswers, PTL

\* Expanding buckets keeps the documented bound on chains, for every threshold and
\* every number of buckets (HASH_EXPAND_BUCKETS, uthash.h 814-816).
THEOREM HashChains == Spec => []ChainsBounded
  BY InvAlways, InvChainsBounded, PTL

-----------------------------------------------------------------------------
(* Refinement *)

\* What an iteration has still to visit, in the terms of OrderedItems.
RestOf(hh, e, t) == IF e = NULL THEN <<>> ELSE <<e>> \o Walk(hh, "next", t)

\* The item at the place d, or NULL behind the last one.
At(o, d) == IF d = Len(o) + 1 THEN NULL ELSE o[d]

LEMMA SuffixLeads ==
    ASSUME NEW hh, NEW o, Leads(hh, "next", o), NEW d \in 1..(Len(o) + 1)
    PROVE  Walk(hh, "next", At(o, d)) = Suffix(o, d)
<1>1. PICK l : l = Len(o)
  OBVIOUS
<1>2. /\ o \in Seq(Item) /\ Injective(o) /\ l \in Nat /\ d \in 1..(l + 1)
      /\ \A n \in 1..l : hh[o[n]]["next"] = IF n = l THEN NULL ELSE o[n + 1]
  BY <1>1 DEF Leads
<1>3. PICK t : t = Suffix(o, d)
  OBVIOUS
<1>4. PICK k : k = l + 1 - d
  OBVIOUS
<1>5. k \in Nat /\ \A n \in 1..k : n + d - 1 \in 1..l
  BY <1>2, <1>4
<1>6. t \in Seq(Item) /\ Len(t) = k /\ \A n \in 1..k : t[n] = o[n + d - 1]
  <2>1. t = [n \in 1..k |-> o[n + d - 1]]
    BY <1>1, <1>3, <1>4 DEF Suffix
  <2>2. \A n \in 1..k : o[n + d - 1] \in Item
    BY <1>1, <1>2, <1>5
  <2>3. t \in [1..k -> Item]
    BY <2>1, <2>2
  <2>4. k \in Nat
    BY <1>5
  <2>5. t \in Seq(Item) /\ Len(t) = k
    BY <2>3, <2>4
  <2>6. QED
    BY <2>1, <2>5
<1>7. Injective(t)
  <2> SUFFICES ASSUME NEW i \in 1..k, NEW j \in 1..k, t[i] = t[j] PROVE i = j
    BY <1>6 DEF Injective
  <2>1. o[i + d - 1] = o[j + d - 1]
    BY <1>6
  <2>2. i + d - 1 = j + d - 1
    BY <1>1, <1>2, <1>5, <2>1 DEF Injective
  <2>3. QED
    BY <1>2, <2>2
<1>8. \A n \in 1..k : hh[t[n]]["next"] = IF n = k THEN NULL ELSE t[n + 1]
  <2> TAKE n \in 1..k
  <2>1. hh[o[n + d - 1]]["next"] = IF n + d - 1 = l THEN NULL ELSE o[(n + d - 1) + 1]
    BY <1>2, <1>5
  <2>2. n + d - 1 = l <=> n = k
    BY <1>2, <1>4
  <2>3. n # k => t[n + 1] = o[(n + d - 1) + 1]
    <3>1. n # k => n + 1 \in 1..k /\ (n + 1) + d - 1 = (n + d - 1) + 1
      BY <1>2, <1>5
    <3>2. QED
      BY <1>6, <3>1
  <2>4. QED
    BY <1>6, <2>1, <2>2, <2>3
<1>9. Leads(hh, "next", t)
  BY <1>6, <1>7, <1>8 DEF Leads
<1>10. At(o, d) = Start(t)
  <2>1. CASE d = l + 1
    <3>1. Len(t) = 0 /\ t \in Seq(Item)
      BY <1>2, <1>4, <1>6, <2>1
    <3>2. t = <<>>
      BY <3>1
    <3>3. QED
      BY <1>1, <2>1, <3>2 DEF At, Start
  <2>2. CASE d # l + 1
    <3>1. 1 \in 1..k /\ 1 + d - 1 = d
      BY <1>2, <1>4, <2>2
    <3>2. t[1] = o[d] /\ t # <<>>
      BY <1>6, <3>1
    <3>3. QED
      BY <1>1, <2>2, <3>2 DEF At, Start
  <2>3. QED
    BY <2>1, <2>2
<1>11. QED
  BY <1>3, <1>9, <1>10, WalkLeads

\* An iteration at the place d has the items from there on to visit.
LEMMA RestAt ==
    ASSUME NEW x, NEW o, Holds(x, o), NEW d \in 1..Len(o), NEW t, t = At(o, d + 1)
    PROVE  RestOf(x.hh, o[d], t) = Suffix(o, d)
<1>1. /\ o \in Seq(Item) /\ Len(o) \in Nat /\ Leads(x.hh, "next", o)
      /\ \A n \in 1..Len(o) : o[n] \in Item /\ o[n] # NULL
  BY HoldsFacts
<1>2. PICK e : e = d + 1
  OBVIOUS
<1>3. e \in 1..(Len(o) + 1) /\ d \in 1..(Len(o) + 1) /\ d # Len(o) + 1
  BY <1>1, <1>2
<1>4. Walk(x.hh, "next", t) = Suffix(o, d + 1)
  BY <1>1, <1>2, <1>3, SuffixLeads
<1>5. Suffix(o, d) = <<o[d]>> \o Suffix(o, d + 1)
  BY <1>1, SuffixHead
<1>6. QED
  BY <1>1, <1>4, <1>5 DEF RestOf

LEMMA SuffixOfDropped ==
    ASSUME NEW o \in Seq(Item), NEW d \in 1..Len(o), NEW e, e = Dropped(o, d)
    PROVE  Suffix(e, d) = Suffix(o, d + 1) /\ At(e, d) = At(o, d + 1) /\ d \in 1..(Len(e) + 1)
<1>1. PICK l : l = Len(o)
  OBVIOUS
<1>2. l \in Nat /\ d \in 1..l
  BY <1>1
<1>3. Len(e) = l - 1 /\ e \in Seq(Item)
  BY <1>1, DroppedSeq
<1>4. \A n \in 1..(l - 1) : e[n] = IF n < d THEN o[n] ELSE o[n + 1]
  BY <1>1 DEF Dropped
<1>5. Suffix(e, d) = [n \in 1..(l - d) |-> e[n + d - 1]]
  <2>1. (l - 1) + 1 - d = l - d
    BY <1>2
  <2>2. QED
    BY <1>3, <2>1 DEF Suffix
<1>6. Suffix(o, d + 1) = [n \in 1..(l - d) |-> o[n + (d + 1) - 1]]
  <2>1. l + 1 - (d + 1) = l - d
    BY <1>2
  <2>2. QED
    BY <1>1, <2>1 DEF Suffix
<1>7. \A n \in 1..(l - d) : e[n + d - 1] = o[n + (d + 1) - 1]
  <2> TAKE n \in 1..(l - d)
  <2>1. n + d - 1 \in 1..(l - 1) /\ ~(n + d - 1 < d) /\ (n + d - 1) + 1 = n + (d + 1) - 1
    BY <1>2
  <2>2. QED
    BY <1>4, <2>1
<1>8. Suffix(e, d) = Suffix(o, d + 1)
  BY <1>5, <1>6, <1>7
<1>9. At(e, d) = At(o, d + 1)
  <2>1. d = (l - 1) + 1 <=> d + 1 = l + 1
    BY <1>2
  <2>2. d # l => d \in 1..(l - 1) /\ ~(d < d)
    BY <1>2
  <2>3. QED
    BY <1>1, <1>2, <1>3, <1>4, <2>1, <2>2 DEF At
<1>10. d \in 1..(Len(e) + 1)
  BY <1>2, <1>3
<1>11. QED
  BY <1>8, <1>9, <1>10

\* The library's operators are the same ones in OrderedItems.
LEMMA SameOperators ==
    /\ \A s : Items!ToSet(s) = ToSet(s)
    /\ \A s, x : Items!RemoveFirst(s, x) = RemoveFirst(s, x)
<1>1. \A s : Items!ToSet(s) = ToSet(s)
  BY DEF Items!ToSet, ToSet
<1>2. ASSUME NEW s, NEW x PROVE Items!RemoveFirst(s, x) = RemoveFirst(s, x)
  BY DEF Items!RemoveFirst, Items!RemoveAt, Items!SelectInSeq, Items!Min,
         RemoveFirst, RemoveAt, SelectInSeq, Min
<1>3. QED
  BY <1>1, <1>2

\* What the two lists are in the terms of OrderedItems.
LEMMA Mapped ==
    ASSUME NEW o, Holds(h, o), NEW e, Holds(h', e), Outside
    PROVE  /\ AppOrder(h) = o /\ AppOrder(h)' = e
           /\ RestOf(h.hh, el, tmp) = <<>> /\ RestOf(h.hh, el, tmp)' = <<>>
<1>1. AppOrder(h) = o /\ AppOrder(h') = e
  BY HoldsFacts
<1>2. el = NULL /\ el' = NULL
  BY DEF Outside
<1>3. QED
  BY <1>1, <1>2 DEF RestOf

LEMMA HasMember ==
    ASSUME NEW x, NEW o, Holds(x, o)
    PROVE  \A i : i \in Items!ToSet(o) <=> Has(o, i)
<1>1. o \in Seq(Item)
  BY HoldsFacts
<1>2. \A i : i \in ToSet(o) <=> Has(o, i)
  BY <1>1, HasToSet
<1>3. QED
  BY <1>2, SameOperators

LEMMA AddAbstract ==
    ASSUME NEW o, Holds(h, o), Add
    PROVE  Items!Add
<1>1. PICK i \in Item : ~Has(o, i) /\ Holds(h', Inserted(o, Len(o) + 1, i))
  BY AddStep
<1>2. o \in Seq(Item)
  BY HoldsFacts
<1>3. PICK e : e = Append(o, i)
  OBVIOUS
<1>4. Holds(h', e)
  BY <1>1, <1>2, <1>3, AppendedSeq
<1>5. Outside
  BY DEF Add
<1>6. /\ AppOrder(h) = o /\ AppOrder(h)' = e
      /\ RestOf(h.hh, el, tmp) = <<>> /\ RestOf(h.hh, el, tmp)' = <<>>
  BY <1>4, <1>5, Mapped
<1>7. i \in Item \ Items!ToSet(o)
  BY <1>1, HasMember
<1>8. QED
  BY <1>3, <1>6, <1>7 DEF Items!Add, Items!Outside, RestOf

LEMMA InsertAbstract ==
    ASSUME NEW o, Holds(h, o), Insert
    PROVE  Items!Insert
<1>1. PICK i \in Item : ~Has(o, i) /\ \E d : Place(o, i, d) /\ Holds(h', Inserted(o, d, i))
  BY InsertStep
<1>2. PICK d : Place(o, i, d) /\ Holds(h', Inserted(o, d, i))
  BY <1>1
<1>3. o \in Seq(Item) /\ Len(o) \in Nat /\ \A m \in 1..Len(o) : o[m] \in Item
  BY HoldsFacts
<1>4. d \in 1..(Len(o) + 1)
  BY <1>2 DEF Place
<1>5. PICK n \in 0..Len(o) : n + 1 = d
  <2>1. d - 1 \in 0..Len(o) /\ (d - 1) + 1 = d
    BY <1>3, <1>4
  <2>2. QED
    BY <2>1
<1>6. PICK e : e = SubSeq(o, 1, n) \o <<i>> \o SubSeq(o, n + 1, Len(o))
  OBVIOUS
<1>7. e = Inserted(o, d, i)
  <2>1. e = Inserted(o, n + 1, i)
    BY <1>3, <1>6, InsertedParts
  <2>2. QED
    BY <1>5, <2>1
<1>8. Outside
  BY DEF Insert
<1>9. /\ AppOrder(h) = o /\ AppOrder(h)' = e
      /\ RestOf(h.hh, el, tmp) = <<>> /\ RestOf(h.hh, el, tmp)' = <<>>
  BY <1>2, <1>7, <1>8, Mapped
<1>10. i \in Item \ Items!ToSet(o)
  BY <1>1, HasMember
<1>11. \A j \in 1..n : Rank[o[j]] =< Rank[i]
  <2> TAKE j \in 1..n
  <2>1. j \in 1..(d - 1) /\ j \in 1..Len(o)
    BY <1>3, <1>5
  <2>2. Rank[o[j]] \in Int /\ Rank[i] \in Int
    BY <1>3, <2>1, HashAssumption
  <2>3. ~(Rank[o[j]] > Rank[i])
    BY <1>2, <2>1 DEF Place
  <2>4. QED
    BY <2>2, <2>3
<1>12. n < Len(o) => Rank[o[n + 1]] > Rank[i]
  <2>1. n < Len(o) => d =< Len(o)
    BY <1>3, <1>5
  <2>2. QED
    BY <1>2, <1>5, <2>1 DEF Place
<1>13. QED
  BY <1>6, <1>9, <1>10, <1>11, <1>12 DEF Items!Insert, Items!Outside, RestOf

LEMMA DeleteAbstract ==
    ASSUME NEW o, Holds(h, o), Delete
    PROVE  Items!Delete
<1>1. PICK d \in 1..Len(o) : Holds(h', Dropped(o, d))
  BY DeleteStep
<1>2. o \in Seq(Item) /\ Injective(o)
  BY HoldsFacts
<1>3. PICK e : e = Items!RemoveFirst(o, o[d])
  OBVIOUS
<1>4. e = Dropped(o, d)
  BY <1>2, <1>3, RemovedSeq, SameOperators
<1>5. Outside
  BY DEF Delete
<1>6. /\ AppOrder(h) = o /\ AppOrder(h)' = e
      /\ RestOf(h.hh, el, tmp) = <<>> /\ RestOf(h.hh, el, tmp)' = <<>>
  BY <1>1, <1>4, <1>5, Mapped
<1>7. o[d] \in Items!ToSet(o)
  BY HasMember DEF Has
<1>8. QED
  BY <1>3, <1>6, <1>7 DEF Items!Delete, Items!Without, Items!Outside, RestOf

LEMMA ReplaceAbstract ==
    ASSUME NEW o, Holds(h, o), Replace
    PROVE  Items!Replace
<1>1. PICK i \in Item :
          /\ ~Has(o, i)
          /\ \/ (\A j : Has(o, j) => Key[j] # Key[i]) /\ Holds(h', Inserted(o, Len(o) + 1, i))
             \/ \E d \in 1..Len(o) :
                    /\ Key[o[d]] = Key[i]
                    /\ Holds(h', Inserted(Dropped(o, d), Len(Dropped(o, d)) + 1, i))
  BY ReplaceStep
<1>2. o \in Seq(Item) /\ Injective(o)
  BY HoldsFacts
<1>3. Outside
  BY DEF Replace
<1>4. i \in Item \ Items!ToSet(o) /\ \A j : j \in Items!ToSet(o) <=> Has(o, j)
  BY <1>1, HasMember
<1>5. CASE (\A j : Has(o, j) => Key[j] # Key[i]) /\ Holds(h', Inserted(o, Len(o) + 1, i))
  <2>1. PICK e : e = Append(o, i)
    OBVIOUS
  <2>2. Holds(h', e)
    BY <1>2, <1>5, <2>1, AppendedSeq
  <2>3. /\ AppOrder(h) = o /\ AppOrder(h)' = e
        /\ RestOf(h.hh, el, tmp) = <<>> /\ RestOf(h.hh, el, tmp)' = <<>>
    BY <1>3, <2>2, Mapped
  <2>4. Items!KeyHolders(Key[i]) = {}
    BY <1>4, <1>5, <2>3 DEF Items!KeyHolders
  <2>5. QED
    BY <1>4, <2>1, <2>3, <2>4 DEF Items!Replace, Items!Outside, RestOf
<1>6. CASE \E d \in 1..Len(o) : /\ Key[o[d]] = Key[i]
                                /\ Holds(h', Inserted(Dropped(o, d), Len(Dropped(o, d)) + 1, i))
  <2>1. PICK d \in 1..Len(o) : /\ Key[o[d]] = Key[i]
                               /\ Holds(h', Inserted(Dropped(o, d), Len(Dropped(o, d)) + 1, i))
    BY <1>6
  <2>2. PICK c : c = Items!RemoveFirst(o, o[d])
    OBVIOUS
  <2>3. c = Dropped(o, d)
    BY <1>2, <2>2, RemovedSeq, SameOperators
  <2>4. c \in Seq(Item)
    BY <1>2, <2>3, DroppedSeq
  <2>5. PICK e : e = Append(c, i)
    OBVIOUS
  <2>6. Holds(h', e)
    BY <2>1, <2>3, <2>4, <2>5, AppendedSeq
  <2>7. /\ AppOrder(h) = o /\ AppOrder(h)' = e
        /\ RestOf(h.hh, el, tmp) = <<>> /\ RestOf(h.hh, el, tmp)' = <<>>
    BY <1>3, <2>6, Mapped
  <2>8. o[d] \in Items!KeyHolders(Key[i])
    BY <1>4, <2>1, <2>7 DEF Items!KeyHolders, Has
  <2>9. AppOrder(h)' = Append(Items!Without(o[d]), i)
    BY <2>2, <2>5, <2>7 DEF Items!Without
  <2>10. Items!KeyHolders(Key[i]) # {}
    BY <2>8
  <2>11. i \in Item \ Items!ToSet(AppOrder(h))
    BY <1>4, <2>7
  <2>12. Items!Outside
    BY <2>7 DEF Items!Outside, RestOf
  <2>13. QED
    BY <2>8, <2>9, <2>10, <2>11, <2>12 DEF Items!Replace
<1>7. QED
  BY <1>1, <1>5, <1>6

LEMMA ClearAbstract ==
    ASSUME NEW o, Holds(h, o), Clear
    PROVE  Items!Clear
<1>1. Holds(h', <<>>)
  BY ClearStep
<1>2. Outside
  BY DEF Clear
<1>3. /\ AppOrder(h) = o /\ AppOrder(h)' = <<>>
      /\ RestOf(h.hh, el, tmp) = <<>> /\ RestOf(h.hh, el, tmp)' = <<>>
  BY <1>1, <1>2, Mapped
<1>4. QED
  BY <1>3 DEF Items!Clear, Items!Outside, RestOf

LEMMA SortAbstract ==
    ASSUME NEW o, Holds(h, o), Sort
    PROVE  Items!Sort
<1>1. PICK e : /\ Holds(h', e) /\ e \in Seq(Item) /\ Len(e) = Len(o) /\ Ordered(o, e)
               /\ \A j : Has(e, j) <=> Has(o, j)
  BY SortStep
<1>2. Outside
  BY DEF Sort
<1>3. /\ AppOrder(h) = o /\ AppOrder(h)' = e
      /\ RestOf(h.hh, el, tmp) = <<>> /\ RestOf(h.hh, el, tmp)' = <<>>
  BY <1>1, <1>2, Mapped
<1>4. Items!ToSet(e) = Items!ToSet(o)
  <2>1. \A j : j \in Items!ToSet(o) <=> Has(o, j)
    BY HasMember
  <2>2. \A j : j \in Items!ToSet(e) <=> Has(e, j)
    BY <1>1, HasMember
  <2>3. QED
    BY <1>1, <2>1, <2>2
<1>5. \A m, n \in 1..Len(o) :
         m < n => \/ Rank[e[m]] < Rank[e[n]]
                  \/ /\ Rank[e[m]] = Rank[e[n]]
                     /\ \E a, b \in 1..Len(o) : a < b /\ o[a] = e[m] /\ o[b] = e[n]
  BY <1>1 DEF Ordered, Before, Earlier
<1>6. QED
  BY <1>1, <1>3, <1>4, <1>5 DEF Items!Sort, Items!Outside, RestOf

\* The walk from an item of the hash, or from none, finds the items from its place on.
LEMMA WalkFrom ==
    ASSUME NEW x, NEW o, Holds(x, o), NEW t \in Ref, t # NULL => x.hh[t] # Freed
    PROVE  \E d \in 1..(Len(o) + 1) :
               /\ t = At(o, d) /\ Walk(x.hh, "next", t) = Suffix(o, d)
               /\ d = Len(o) + 1 <=> t = NULL
<1>1. /\ o \in Seq(Item) /\ Len(o) \in Nat /\ Leads(x.hh, "next", o)
      /\ \A n \in 1..Len(o) : o[n] \in Item /\ o[n] # NULL
  BY HoldsFacts
<1>2. CASE t = NULL
  <2>1. PICK d : d = Len(o) + 1
    OBVIOUS
  <2>2. d \in 1..(Len(o) + 1) /\ t = At(o, d)
    BY <1>1, <1>2, <2>1 DEF At
  <2>3. Walk(x.hh, "next", t) = Suffix(o, d)
    BY <1>1, <2>2, SuffixLeads
  <2>4. QED
    BY <1>2, <2>1, <2>2, <2>3
<1>3. CASE t # NULL
  <2>1. t \in Item /\ x.hh[t] # Freed
    BY <1>3 DEF Ref
  <2>2. PICK d \in 1..Len(o) : o[d] = t
    BY <2>1 DEF Holds, Owned, Has
  <2>3. d \in 1..(Len(o) + 1) /\ d # Len(o) + 1
    BY <1>1
  <2>4. t = At(o, d)
    BY <2>2, <2>3 DEF At
  <2>5. Walk(x.hh, "next", t) = Suffix(o, d)
    BY <1>1, <2>3, <2>4, SuffixLeads
  <2>6. QED
    BY <1>3, <2>3, <2>4, <2>5
<1>4. QED
  BY <1>2, <1>3

\* At its first item an iteration has all of them to visit.
LEMMA IterStartAbstract ==
    ASSUME NEW o, Holds(h, o), IterStart
    PROVE  Items!Visit
<1>1. el = NULL /\ h.head # NULL /\ el' = h.head /\ tmp' = h.hh[h.head].next /\ h' = h
  BY DEF IterStart
<1>2. /\ h.head = Start(o) /\ o \in Seq(Item) /\ Len(o) \in Nat /\ AppOrder(h) = o
      /\ Leads(h.hh, "next", o)
  BY HoldsFacts
<1>3. o # <<>>
  BY <1>1, <1>2 DEF Start
<1>4. 1 \in 1..Len(o) /\ h.head = o[1]
  BY <1>2, <1>3 DEF Start
<1>5. tmp' = At(o, 1 + 1)
  <2>1. h.hh[o[1]].next = IF 1 = Len(o) THEN NULL ELSE o[1 + 1]
    BY <1>4, NextHolds
  <2>2. Len(o) \in Nat
    BY <1>2
  <2>3. \A l \in Nat : 1 = l <=> 1 + 1 = l + 1
    OBVIOUS
  <2>4. QED
    BY <1>1, <1>4, <2>1, <2>2, <2>3 DEF At
<1>6. RestOf(h.hh, o[1], tmp') = Suffix(o, 1)
  BY <1>4, <1>5, RestAt
<1>7. Suffix(o, 1) = o
  <2>1. Suffix(o, 1) = [n \in 1..(Len(o) + 1 - 1) |-> o[n + 1 - 1]]
    BY DEF Suffix
  <2>2. Len(o) + 1 - 1 = Len(o) /\ \A n \in 1..Len(o) : n + 1 - 1 = n
    BY <1>2
  <2>3. o = [n \in 1..Len(o) |-> o[n]]
    BY <1>2
  <2>4. QED
    BY <2>1, <2>2, <2>3
<1>8. RestOf(h.hh, el, tmp) = <<>> /\ RestOf(h.hh, el, tmp)' = o
  BY <1>1, <1>4, <1>6, <1>7 DEF RestOf
<1>9. AppOrder(h) = o /\ AppOrder(h)' = o
  BY <1>1, <1>2
<1>10. QED
  BY <1>3, <1>8, <1>9 DEF Items!Visit, RestOf

\* The body of an iteration deletes the item it is at, and it goes on as before.
LEMMA IterDeleteAbstract ==
    ASSUME NEW o, Holds(h, o), IterInv, IterDelete
    PROVE  Items!DeleteVisited
<1>1. el # NULL
  BY IterDeleteStep
<1>2. PICK d \in 1..Len(o) : /\ o[d] = el /\ Holds(h', Dropped(o, d))
                             /\ tmp = IF d = Len(o) THEN NULL ELSE o[d + 1]
  BY IterDeleteStep
<1>3. o \in Seq(Item) /\ Injective(o) /\ Len(o) \in Nat /\ AppOrder(h) = o
  BY HoldsFacts
<1>4. tmp = At(o, d + 1) /\ d \in 1..(Len(o) + 1) /\ d # Len(o) + 1
  <2>1. d = Len(o) <=> d + 1 = Len(o) + 1
    BY <1>3
  <2>2. tmp = At(o, d + 1)
    BY <1>2, <2>1 DEF At
  <2>3. QED
    BY <1>3, <2>2
<1>5. RestOf(h.hh, el, tmp) = Suffix(o, d)
  BY <1>2, <1>4, RestAt
<1>6. PICK t : t = Suffix(o, d)
  OBVIOUS
<1>7. t # <<>> /\ t = <<o[d]>> \o Suffix(o, d + 1) /\ Head(t) = o[d]
  <2>1. o \in Seq(Item) /\ d \in 1..Len(o)
    BY <1>3
  <2>2. QED
    BY <1>6, <2>1, SuffixHead
<1>8. PICK e : e = Dropped(o, d)
  OBVIOUS
<1>9. /\ Suffix(e, d) = Suffix(o, d + 1) /\ At(e, d) = At(o, d + 1)
      /\ d \in 1..(Len(e) + 1)
  BY <1>3, <1>8, SuffixOfDropped
<1>10. Holds(h', e)
  BY <1>2, <1>8
<1>11. Leads(h'.hh, "next", e) /\ AppOrder(h') = e
  BY <1>10, HoldsFacts
<1>12. Walk(h'.hh, "next", tmp) = Suffix(o, d + 1)
  BY <1>4, <1>9, <1>11, SuffixLeads
<1>13. h'.hh = h.hh' /\ el' = el /\ tmp' = tmp
  BY DEF IterDelete
<1>14. RestOf(h.hh, el, tmp)' = t
  BY <1>1, <1>2, <1>7, <1>12, <1>13 DEF RestOf
<1>15. Items!RemoveFirst(o, o[d]) = e
  BY <1>3, <1>8, RemovedSeq, SameOperators
<1>16. o[d] \in Items!ToSet(o)
  BY HasMember DEF Has
<1>17. AppOrder(h)' = e
  BY <1>11
<1>18. /\ RestOf(h.hh, el, tmp) # <<>>
       /\ Head(RestOf(h.hh, el, tmp)) \in Items!ToSet(AppOrder(h))
       /\ AppOrder(h)' = Items!RemoveFirst(AppOrder(h), Head(RestOf(h.hh, el, tmp)))
       /\ RestOf(h.hh, el, tmp)' = RestOf(h.hh, el, tmp)
  BY <1>3, <1>5, <1>6, <1>7, <1>14, <1>15, <1>16, <1>17
<1>19. QED
  BY <1>18 DEF Items!DeleteVisited, Items!Without, RestOf

\* The next item comes from what was remembered, whether or not the last one is left.
LEMMA IterNextAbstract ==
    ASSUME NEW o, Holds(h, o), IterInv, IterNext
    PROVE  Items!VisitNext
<1>1. h' = h /\ el # NULL /\ el' = tmp /\ tmp' = IF tmp = NULL THEN NULL ELSE h.hh[tmp].next
  BY DEF IterNext
<1>2. tmp \in Ref /\ (tmp # NULL => h.hh[tmp] # Freed)
  BY <1>1 DEF IterInv
<1>3. PICK d \in 1..(Len(o) + 1) :
          /\ tmp = At(o, d) /\ Walk(h.hh, "next", tmp) = Suffix(o, d)
          /\ d = Len(o) + 1 <=> tmp = NULL
  BY <1>2, WalkFrom
<1>4. o \in Seq(Item) /\ Len(o) \in Nat
  BY HoldsFacts
<1>5. PICK t : t = Suffix(o, d)
  OBVIOUS
<1>6. t \in Seq(Item)
  BY <1>4, <1>5, SuffixParts
<1>7. RestOf(h.hh, el, tmp) = <<el>> \o t
  BY <1>1, <1>3, <1>5 DEF RestOf
<1>8. PICK r : r = <<el>> \o t
  OBVIOUS
<1>9. r # <<>> /\ Tail(r) = t
  <2>1. el \in Ref
    BY DEF IterInv
  <2>2. t \in Seq(Ref)
    BY <1>6 DEF Ref
  <2>3. QED
    BY <1>8, <2>1, <2>2
<1>10. RestOf(h.hh, tmp, tmp') = t
  <2>1. CASE tmp = NULL
    <3>1. Len(o) + 1 - d = 0
      BY <1>3, <1>4, <2>1
    <3>2. t = <<>>
      BY <1>5, <3>1 DEF Suffix
    <3>3. QED
      BY <2>1, <3>2 DEF RestOf
  <2>2. CASE tmp # NULL
    <3>1. d \in 1..Len(o) /\ d # Len(o) + 1 /\ (d = Len(o) <=> d + 1 = Len(o) + 1)
      BY <1>3, <1>4, <2>2
    <3>2. tmp = o[d]
      BY <1>3, <3>1 DEF At
    <3>3. h.hh[o[d]].next = IF d = Len(o) THEN NULL ELSE o[d + 1]
      BY <3>1, NextHolds
    <3>4. tmp' = At(o, d + 1)
      BY <1>1, <2>2, <3>1, <3>2, <3>3 DEF At
    <3>5. QED
      BY <1>5, <3>1, <3>2, <3>4, RestAt
  <2>3. QED
    BY <2>1, <2>2
<1>11. RestOf(h.hh, el, tmp)' = t
  BY <1>1, <1>10
<1>12. AppOrder(h)' = AppOrder(h)
  BY <1>1
<1>13. RestOf(h.hh, el, tmp) # <<>> /\ RestOf(h.hh, el, tmp)' = Tail(RestOf(h.hh, el, tmp))
  BY <1>7, <1>8, <1>9, <1>11
<1>14. QED
  BY <1>12, <1>13 DEF Items!VisitNext, RestOf

LEMMA ItemsInit ==
    ASSUME Init
    PROVE  Items!Init
<1>1. h = [head |-> NULL, tbl |-> NULL, hh |-> [i \in Item |-> Freed]] /\ el = NULL /\ tmp = NULL
  BY DEF Init, NoHash
<1>2. Empty(h) /\ \A i \in Item : h.hh[i] = Freed
  BY <1>1 DEF Empty, HashOK
<1>3. Holds(h, <<>>)
  BY <1>2 DEF Holds, Owned, Has
<1>4. AppOrder(h) = <<>>
  BY <1>3, HoldsFacts
<1>5. QED
  BY <1>1, <1>4 DEF Items!Init

LEMMA ItemsNext ==
    ASSUME Inv, [Next]_vars
    PROVE  [Items!Next]_(Items!vars)
<1>1. PICK o : Holds(h, o)
  BY DEF Inv, HashInv
<1>2. IterInv
  BY DEF Inv
<1>3. CASE Add
  BY <1>1, <1>3, AddAbstract DEF Items!Next
<1>4. CASE Insert
  BY <1>1, <1>4, InsertAbstract DEF Items!Next
<1>5. CASE Replace
  BY <1>1, <1>5, ReplaceAbstract DEF Items!Next
<1>6. CASE Delete
  BY <1>1, <1>6, DeleteAbstract DEF Items!Next
<1>7. CASE Clear
  BY <1>1, <1>7, ClearAbstract DEF Items!Next
<1>8. CASE Sort
  BY <1>1, <1>8, SortAbstract DEF Items!Next
<1>9. CASE IterStart
  BY <1>1, <1>9, IterStartAbstract DEF Items!Next
<1>10. CASE IterDelete
  BY <1>1, <1>2, <1>10, IterDeleteAbstract DEF Items!Next
<1>11. CASE IterNext
  BY <1>1, <1>2, <1>11, IterNextAbstract DEF Items!Next
<1>12. CASE UNCHANGED vars
  <2>1. h' = h /\ el' = el /\ tmp' = tmp
    BY <1>12 DEF vars
  <2>2. QED
    BY <2>1 DEF Items!vars
<1>13. QED
  BY <1>3, <1>4, <1>5, <1>6, <1>7, <1>8, <1>9, <1>10, <1>11, <1>12 DEF Next

\* What uthash promises, for every set of items, hash and order: calls of it do to the
\* list of items what the calls of OrderedItems do, so that an iteration visits each
\* item once although its body deletes and frees the item it is at (uthash.h 1057-1066,
\* as free_context relies on).
THEOREM HashImplementsItems == Spec => ImplementsOrderedItems
<1>1. Init => Items!Init
  BY ItemsInit
<1>2. Inv /\ [Next]_vars => [Items!Next]_(Items!vars)
  BY ItemsNext
<1>3. QED
  BY <1>1, <1>2, InvAlways, PTL DEF Spec, ImplementsOrderedItems, Items!Spec

=============================================================================
