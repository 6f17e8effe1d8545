------------------------------ MODULE HashTable ------------------------------
(***************************************************************************)
(* A hash of uthash (lib/uthash/include/uthash.h): items that carry a hash *)
(* handle, linked through it in two ways, in application order and in the  *)
(* chain of their bucket.  The table, which hangs on the first item, lives *)
(* from the first addition to the deletion of the last item; a bucket that *)
(* becomes too full makes it double its buckets, until doubling has shown  *)
(* itself useless twice in a row.                                          *)
(*                                                                         *)
(* A hash h is a record: its head, its table and the handles of the items. *)
(* Users free an item once they have deleted it, as chirc does: its handle *)
(* is then Freed and has no fields to read.  Left out are HASH_SELECT, the *)
(* Bloom filter, and allocations that fail.                                *)
(***************************************************************************)
EXTENDS Integers, Sequences, FiniteSets, SequencesExt

CONSTANTS
    Item,                     \* the structures that may be added
    NULL,
    Freed,                    \* the handle of an item that is not in the hash
    Key,                      \* the key in each item
    Hash,                     \* HASH_FUNCTION: the hash value of each key
    Rank,                     \* users' comparison function compares ranks
    HASH_INITIAL_NUM_BUCKETS, \* 32 in the code
    HASH_BKT_CAPACITY_THRESH, \* 10 in the code
    MaxBuckets                \* bound: additions stop at so many buckets

Ref == Item \union {NULL}

\* UT_hash_handle: the links of an item.
Handle == [prev : Ref, next : Ref, hh_prev : Ref, hh_next : Ref]

ASSUME HashAssumption ==
    /\ IsFiniteSet(Item) /\ NULL \notin Item /\ Freed \notin Handle
    /\ \A i \in Item : Key[i] \in DOMAIN Hash /\ Rank[i] \in Int
    /\ \A k \in DOMAIN Hash : Hash[k] \in Nat
    /\ HASH_INITIAL_NUM_BUCKETS \in Nat \ {0}
    /\ HASH_BKT_CAPACITY_THRESH \in Nat \ {0}

VARIABLES
    h,  \* the hash
    el, \* where a HASH_ITER loop is, or NULL
    tmp \* where it goes next

vars == <<h, el, tmp>>

NoHash == [head |-> NULL, tbl |-> NULL, hh |-> [i \in Item |-> Freed]]

HASH_TO_BKT(hashv, num_bkts) == hashv % num_bkts
BucketOf(i, n) == HASH_TO_BKT(Hash[Key[i]], n)

EmptyBuckets(n) == [b \in 0..(n - 1) |-> [hh_head |-> NULL, count |-> 0, expand_mult |-> 0]]

-----------------------------------------------------------------------------
(* Walks along links; a walk longer than there are items goes in a circle. *)

Walk(hh, link, start) ==
    LET at[n \in 0..Cardinality(Item)] ==
            IF n = 0 THEN start ELSE IF at[n - 1] = NULL THEN NULL ELSE hh[at[n - 1]][link]
        visits == {n \in 0..Cardinality(Item) : at[n] # NULL}
    IN  [n \in 1..Cardinality(visits) |-> at[n - 1]]

\* the items in application order, as HASH_ITER goes
AppOrder(x) == Walk(x.hh, "next", x.head)

Chain(x, b) == Walk(x.hh, "hh_next", x.tbl.buckets[b].hh_head)

HASH_FIND(x, k) ==
    LET chain == Chain(x, HASH_TO_BKT(Hash[k], x.tbl.num_buckets))
        found == SelectInSeq(chain, LAMBDA i : Key[i] = k)
    IN  IF x.head = NULL \/ found = 0 THEN NULL ELSE chain[found]

HASH_COUNT(x) == IF x.head = NULL THEN 0 ELSE x.tbl.num_items

-----------------------------------------------------------------------------
(* Buckets *)

\* i becomes the first of the chain of bucket b; t has the fields buckets and hh.
Push(t, b, i) ==
    LET first == t.buckets[b].hh_head
        hh1 == [t.hh EXCEPT ![i].hh_prev = NULL, ![i].hh_next = first]
        hh2 == IF first = NULL THEN hh1 ELSE [hh1 EXCEPT ![first].hh_prev = i]
    IN  [t EXCEPT !.hh = hh2, !.buckets[b].hh_head = i, !.buckets[b].count = @ + 1]

\* Mutant: items stay in the bucket they had among half as many.
HASH_EXPAND_BUCKETSSame(x) ==
    LET n == 2 * x.tbl.num_buckets
        ideal == x.tbl.num_items \div n + (IF x.tbl.num_items % n # 0 THEN 1 ELSE 0)
        items == FlattenSeq([b \in 1..x.tbl.num_buckets |-> Chain(x, b - 1)])
        moved[k \in 0..Len(items)] ==
            IF k = 0 THEN [buckets |-> EmptyBuckets(n), hh |-> x.hh]
            ELSE Push(moved[k - 1], BucketOf(items[k], x.tbl.num_buckets), items[k])
        all == moved[Len(items)]
    IN  [x EXCEPT !.hh = all.hh,
                  !.tbl = [@ EXCEPT !.buckets = all.buckets, !.num_buckets = n,
                                    !.ideal_chain_maxlen = ideal]]

\* One item goes to bucket b of the new ones.  Items beyond the ideal length of a
\* chain are counted, and a bucket that is longer than a multiple of it may grow
\* to a larger multiple of the threshold.
Move(t, b, i, ideal) ==
    LET p == Push(t, b, i)
        B == p.buckets[b]
    IN  IF B.count =< ideal THEN p
        ELSE [p EXCEPT !.nonideal = @ + 1,
                       !.buckets[b].expand_mult =
                           IF B.count > B.expand_mult * ideal THEN @ + 1 ELSE @]

\* Twice the buckets, filled chain by chain.  Two expansions in a row that leave more
\* than half of the items beyond the ideal are the last.
HASH_EXPAND_BUCKETS(x) ==
    LET n == 2 * x.tbl.num_buckets
        ideal == x.tbl.num_items \div n + (IF x.tbl.num_items % n # 0 THEN 1 ELSE 0)
        items == FlattenSeq([b \in 1..x.tbl.num_buckets |-> Chain(x, b - 1)])
        moved[k \in 0..Len(items)] ==
            IF k = 0 THEN [buckets |-> EmptyBuckets(n), hh |-> x.hh, nonideal |-> 0]
            ELSE Move(moved[k - 1], BucketOf(items[k], n), items[k], ideal)
        all == moved[Len(items)]
        ineff == IF all.nonideal > x.tbl.num_items \div 2 THEN x.tbl.ineff_expands + 1 ELSE 0
        tbl == [x.tbl EXCEPT !.buckets = all.buckets, !.num_buckets = n,
                             !.ideal_chain_maxlen = ideal, !.nonideal_items = all.nonideal,
                             !.ineff_expands = ineff, !.noexpand = @ \/ ineff > 1]
    IN  [x EXCEPT !.hh = all.hh, !.tbl = tbl]

\* Mutant: a bucket is expanded one item too late.
HASH_ADD_TO_BKTLate(x, b, i) ==
    LET p == Push([buckets |-> x.tbl.buckets, hh |-> x.hh], b, i)
        B == p.buckets[b]
        added == [x EXCEPT !.hh = p.hh, !.tbl.buckets = p.buckets]
    IN  IF B.count > (B.expand_mult + 1) * HASH_BKT_CAPACITY_THRESH /\ ~x.tbl.noexpand
        THEN HASH_EXPAND_BUCKETS(added) ELSE added

HASH_ADD_TO_BKT(x, b, i) ==
    LET p == Push([buckets |-> x.tbl.buckets, hh |-> x.hh], b, i)
        B == p.buckets[b]
        added == [x EXCEPT !.hh = p.hh, !.tbl.buckets = p.buckets]
    IN  IF B.count >= (B.expand_mult + 1) * HASH_BKT_CAPACITY_THRESH /\ ~x.tbl.noexpand
        THEN HASH_EXPAND_BUCKETS(added) ELSE added

HASH_DEL_IN_BKT(x, b, i) ==
    LET del == x.hh[i]
        hh1 == IF del.hh_prev = NULL THEN x.hh
               ELSE [x.hh EXCEPT ![del.hh_prev].hh_next = del.hh_next]
        hh2 == IF del.hh_next = NULL THEN hh1
               ELSE [hh1 EXCEPT ![del.hh_next].hh_prev = del.hh_prev]
        bucket == [x.tbl.buckets[b] EXCEPT !.count = @ - 1,
                                           !.hh_head = IF @ = i THEN del.hh_next ELSE @]
    IN  [x EXCEPT !.hh = hh2, !.tbl.buckets[b] = bucket]

-----------------------------------------------------------------------------
(* Additions *)

HASH_MAKE_TABLE(i) ==
    [num_buckets |-> HASH_INITIAL_NUM_BUCKETS, buckets |-> EmptyBuckets(HASH_INITIAL_NUM_BUCKETS),
     num_items |-> 0, tail |-> i, ideal_chain_maxlen |-> 0, nonideal_items |-> 0,
     ineff_expands |-> 0, noexpand |-> FALSE]

Unlinked == [prev |-> NULL, next |-> NULL, hh_prev |-> NULL, hh_next |-> NULL]

HASH_APPEND_LIST(x, i) ==
    [x EXCEPT !.hh = [@ EXCEPT ![i] = [Unlinked EXCEPT !.prev = x.tbl.tail],
                               ![x.tbl.tail].next = i],
              !.tbl.tail = i]

\* Mutant: the items are not counted.
HASH_ADD_TO_TABLEUncounted(x, i) == HASH_ADD_TO_BKT(x, BucketOf(i, x.tbl.num_buckets), i)

HASH_ADD_TO_TABLE(x, i) ==
    HASH_ADD_TO_BKT([x EXCEPT !.tbl.num_items = @ + 1], BucketOf(i, x.tbl.num_buckets), i)

\* The first item of a hash, which gets the table.
First(x, i) ==
    [head |-> i, tbl |-> HASH_MAKE_TABLE(i), hh |-> [x.hh EXCEPT ![i] = Unlinked]]

HASH_ADD(x, i) ==
    HASH_ADD_TO_TABLE(IF x.head = NULL THEN First(x, i) ELSE HASH_APPEND_LIST(x, i), i)

\* i goes before `next`, which has the handle's prev before it.
InsertBefore(x, i, next) ==
    LET prev == x.hh[next].prev
        hh1 == [x.hh EXCEPT ![i] = [Unlinked EXCEPT !.prev = prev, !.next = next],
                            ![next].prev = i]
    IN  IF prev = NULL THEN [x EXCEPT !.hh = hh1, !.head = i]
        ELSE [x EXCEPT !.hh = [hh1 EXCEPT ![prev].next = i]]

\* Mutant: the loop stops at the first item that does not compare less.
HASH_ADD_INORDEREqual(x, i) ==
    LET order == AppOrder(x)
        at == SelectInSeq(order, LAMBDA j : Rank[j] >= Rank[i])
        linked == IF x.head = NULL THEN First(x, i)
                  ELSE IF at = 0 THEN HASH_APPEND_LIST(x, i)
                  ELSE InsertBefore(x, i, order[at])
    IN  HASH_ADD_TO_TABLE(linked, i)

\* HASH_AKBI_INNER_LOOP stops at the first item that compares greater.
HASH_ADD_INORDER(x, i) ==
    LET order == AppOrder(x)
        at == SelectInSeq(order, LAMBDA j : Rank[j] > Rank[i])
        linked == IF x.head = NULL THEN First(x, i)
                  ELSE IF at = 0 THEN HASH_APPEND_LIST(x, i)
                  ELSE InsertBefore(x, i, order[at])
    IN  HASH_ADD_TO_TABLE(linked, i)

-----------------------------------------------------------------------------
(* Deletions *)

\* Mutant: the tail stays at the item that goes.
HASH_DELETETail(x, i) ==
    LET del == x.hh[i]
        hh1 == IF del.prev = NULL THEN x.hh ELSE [x.hh EXCEPT ![del.prev].next = del.next]
        hh2 == IF del.next = NULL THEN hh1 ELSE [hh1 EXCEPT ![del.next].prev = del.prev]
        unlinked == [head |-> IF del.prev = NULL THEN del.next ELSE x.head, hh |-> hh2,
                     tbl |-> [x.tbl EXCEPT !.num_items = @ - 1]]
    IN  IF del.prev = NULL /\ del.next = NULL THEN [x EXCEPT !.head = NULL, !.tbl = NULL]
        ELSE HASH_DEL_IN_BKT(unlinked, BucketOf(i, x.tbl.num_buckets), i)

HASH_DELETE(x, i) ==
    LET del == x.hh[i]
        hh1 == IF del.prev = NULL THEN x.hh ELSE [x.hh EXCEPT ![del.prev].next = del.next]
        hh2 == IF del.next = NULL THEN hh1 ELSE [hh1 EXCEPT ![del.next].prev = del.prev]
        unlinked == [head |-> IF del.prev = NULL THEN del.next ELSE x.head, hh |-> hh2,
                     tbl |-> [x.tbl EXCEPT !.num_items = @ - 1,
                                           !.tail = IF @ = i THEN del.prev ELSE @]]
    IN  IF del.prev = NULL /\ del.next = NULL THEN [x EXCEPT !.head = NULL, !.tbl = NULL]
        ELSE HASH_DEL_IN_BKT(unlinked, BucketOf(i, x.tbl.num_buckets), i)

HASH_CLEAR(x) == [x EXCEPT !.head = NULL, !.tbl = NULL]

\* Users free what is no longer in the hash.
Free(x, gone) == [x EXCEPT !.hh = [i \in Item |-> IF i \in gone THEN Freed ELSE @[i]]]

HASH_REPLACE(x, i) ==
    LET replaced == HASH_FIND(x, Key[i])
    IN  IF replaced = NULL THEN HASH_ADD(x, i)
        ELSE Free(HASH_ADD(HASH_DELETE(x, replaced), i), {replaced})

-----------------------------------------------------------------------------
(* HASH_SRT: a merge sort of the application order from the bottom up *)

\* The items of p and q, at equal rank those of p first: taken counts those of p
\* among the first k.
Merge(p, q) ==
    LET taken[k \in 0..(Len(p) + Len(q))] ==
            IF k = 0 THEN 0
            ELSE LET i == taken[k - 1] + 1
                     j == k - taken[k - 1]
                 IN  IF i =< Len(p) /\ (j =< Len(q) => Rank[p[i]] =< Rank[q[j]]) THEN i
                     ELSE taken[k - 1]
    IN  [k \in 1..(Len(p) + Len(q)) |->
            IF taken[k] > taken[k - 1] THEN p[taken[k]] ELSE q[k - taken[k]]]

Piece(list, from, n) ==
    SubSeq(list, from + 1, IF from + n =< Len(list) THEN from + n ELSE Len(list))

Merges(list, insize) == (Len(list) + 2 * insize - 1) \div (2 * insize)

\* One pass: runs of insize items are merged by twos.
Pass(list, insize) ==
    [n \in 1..Len(list) |->
        LET from == 2 * insize * ((n - 1) \div (2 * insize))
        IN  Merge(Piece(list, from, insize), Piece(list, from + insize, insize))[n - from]]

\* Passes until one of them has merged at most once.
MergeSorted(list) ==
    LET insize[k \in 0..Len(list)] == IF k = 0 THEN 1 ELSE 2 * insize[k - 1]
        last == Min({k \in 0..Len(list) : Merges(list, insize[k]) =< 1})
        passed[k \in 0..(last + 1)] ==
            IF k = 0 THEN list ELSE Pass(passed[k - 1], insize[k - 1])
    IN  passed[last + 1]

HASH_SRT(x) ==
    LET list == MergeSorted(AppOrder(x))
        At(i) == SelectInSeq(list, LAMBDA j : j = i)
    IN  IF x.head = NULL THEN x
        ELSE [head |-> list[1],
              tbl |-> [x.tbl EXCEPT !.tail = Last(list)],
              hh |-> [i \in Item |->
                         IF At(i) = 0 THEN x.hh[i]
                         ELSE [x.hh[i] EXCEPT
                                  !.prev = IF At(i) = 1 THEN NULL ELSE list[At(i) - 1],
                                  !.next = IF At(i) = Len(list) THEN NULL ELSE list[At(i) + 1]]]]

-----------------------------------------------------------------------------
(* Users *)

Present == {i \in Item : h.hh[i] # Freed}
Absent == {i \in Item : h.hh[i] = Freed}
Roomy == h.head # NULL => h.tbl.num_buckets < MaxBuckets

\* Outside of a HASH_ITER loop anything may be done, and inside it the item it is
\* at may be deleted.
Outside == el = NULL /\ UNCHANGED <<el, tmp>>

Add == Outside /\ Roomy /\ \E i \in Absent : h' = HASH_ADD(h, i)
Insert == Outside /\ Roomy /\ \E i \in Absent : h' = HASH_ADD_INORDER(h, i)
Replace == Outside /\ Roomy /\ \E i \in Absent : h' = HASH_REPLACE(h, i)
Delete == Outside /\ \E i \in Present : h' = Free(HASH_DELETE(h, i), {i})
Clear == Outside /\ h' = Free(HASH_CLEAR(h), Present)
Sort == Outside /\ h' = HASH_SRT(h)

\* HASH_ITER remembers the next item before its body runs.
IterStart ==
    /\ el = NULL
    /\ h.head # NULL
    /\ el' = h.head
    /\ tmp' = h.hh[h.head].next
    /\ UNCHANGED h

IterDelete ==
    /\ el \in Present
    /\ h' = Free(HASH_DELETE(h, el), {el})
    /\ UNCHANGED <<el, tmp>>

IterNext ==
    /\ el # NULL
    /\ el' = tmp
    /\ tmp' = IF tmp = NULL THEN NULL ELSE h.hh[tmp].next
    /\ UNCHANGED h

Init == h = NoHash /\ el = NULL /\ tmp = NULL

Next ==
    \/ Add \/ Insert \/ Replace \/ Delete \/ Clear \/ Sort
    \/ IterStart \/ IterDelete \/ IterNext

Spec == Init /\ [][Next]_vars

-----------------------------------------------------------------------------
(* Properties *)

TypeOK ==
    /\ h.head \in Ref /\ el \in Ref /\ tmp \in Ref
    /\ h.hh \in [Item -> {Freed} \union Handle]
    /\ \/ h.head = NULL /\ h.tbl = NULL
       \/ /\ h.head # NULL
          /\ h.tbl.num_buckets \in Nat \ {0} /\ h.tbl.num_items \in Nat
          /\ h.tbl.tail \in Item /\ h.tbl.noexpand \in BOOLEAN
          /\ h.tbl.buckets \in [0..(h.tbl.num_buckets - 1) ->
                                   [hh_head : Ref, count : Nat, expand_mult : Nat]]

Prevs(hh, seq, link) ==
    \A n \in 1..Len(seq) : hh[seq[n]][link] = IF n = 1 THEN NULL ELSE seq[n - 1]

\* What HASH_FSCK (uthash.h 513-566) checks when it is compiled in, after any
\* sequence of calls: both ways through the items visit them all and agree with
\* their back links and counters.  And what it does not check: the tail is the last
\* item, and an item lies in the bucket of its hash value.
Fsck ==
    h.head # NULL =>
        /\ ToSet(AppOrder(h)) = Present
        /\ Len(AppOrder(h)) = h.tbl.num_items
        /\ Prevs(h.hh, AppOrder(h), "prev")
        /\ h.tbl.tail = Last(AppOrder(h))
        /\ \A b \in DOMAIN h.tbl.buckets :
               /\ ToSet(Chain(h, b)) = {i \in Present : BucketOf(i, h.tbl.num_buckets) = b}
               /\ Len(Chain(h, b)) = h.tbl.buckets[b].count
               /\ Len(Chain(h, b)) = Cardinality(ToSet(Chain(h, b)))
               /\ Prevs(h.hh, Chain(h, b), "hh_prev")

\* A search finds an item with the key if and only if there is one, also after
\* expansions, between keys whose hash values collide and after an addition of a
\* key that was there, and the count counts (HASH_FIND, HASH_COUNT).
Answers ==
    /\ HASH_COUNT(h) = Cardinality(Present)
    /\ \A k \in DOMAIN Hash :
           LET found == IF h.head = NULL THEN NULL ELSE HASH_FIND(h, k)
           IN  IF \E i \in Present : Key[i] = k
               THEN found \in Present /\ Key[found] = k
               ELSE found = NULL

\* "By expanding buckets the hash keeps a bound on the chain length" (uthash.h
\* 814-816): whatever the keys hash to, a chain is below the multiple of the threshold
\* that its bucket may reach, or within the same multiple of the length that was
\* ideal at the last expansion, unless expansion has been given up.
ChainsBounded ==
    h.head # NULL =>
        \/ h.tbl.noexpand
        \/ \A b \in DOMAIN h.tbl.buckets :
               LET B == h.tbl.buckets[b]
               IN  \/ B.count < (B.expand_mult + 1) * HASH_BKT_CAPACITY_THRESH
                   \/ B.count =< (B.expand_mult + 1) * h.tbl.ideal_chain_maxlen

\* Links, buckets and expansions are invisible: users see a list of items, and an
\* iteration that visits each item once although its body deletes and frees them.
Items == INSTANCE OrderedItems WITH
    items <- AppOrder(h),
    rest <- IF el = NULL THEN <<>> ELSE <<el>> \o Walk(h.hh, "next", tmp)

ImplementsOrderedItems == Items!Spec

=============================================================================
