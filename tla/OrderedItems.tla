----------------------------- MODULE OrderedItems -----------------------------
(***************************************************************************)
(* What a hash of uthash promises its users: the items in the order in     *)
(* which they were added, or sorted, and an iteration that visits each of  *)
(* them once although its body deletes the item it is at.                  *)
(***************************************************************************)
EXTENDS Integers, Sequences, SequencesExt

CONSTANTS Item, Key, Rank

VARIABLES
    items, \* the items in application order
    rest   \* the items an iteration has still to visit, the one it is at first

vars == <<items, rest>>

KeyHolders(k) == {i \in ToSet(items) : Key[i] = k}

Without(i) == RemoveFirst(items, i)

\* Only the body of an iteration runs while it is under way.
Outside == rest = <<>> /\ UNCHANGED rest

Add == Outside /\ \E i \in Item \ ToSet(items) : items' = Append(items, i)

\* An item goes behind those that are not greater, if the items were sorted.
Insert == Outside /\ \E i \in Item \ ToSet(items), n \in 0..Len(items) :
    /\ \A j \in 1..n : Rank[items[j]] =< Rank[i]
    /\ n < Len(items) => Rank[items[n + 1]] > Rank[i]
    /\ items' = SubSeq(items, 1, n) \o <<i>> \o SubSeq(items, n + 1, Len(items))

Delete == Outside /\ \E i \in ToSet(items) : items' = Without(i)

\* An item takes the place of one with its key, if there is one.
Replace == Outside /\ \E i \in Item \ ToSet(items) :
    IF KeyHolders(Key[i]) = {} THEN items' = Append(items, i)
    ELSE \E old \in KeyHolders(Key[i]) : items' = Append(Without(old), i)

Clear == Outside /\ items' = <<>>

\* The sort keeps the order of items that compare equal.
Sort ==
    /\ Outside
    /\ ToSet(items') = ToSet(items) /\ Len(items') = Len(items)
    /\ \A m, n \in 1..Len(items) :
           m < n => \/ Rank[items'[m]] < Rank[items'[n]]
                    \/ /\ Rank[items'[m]] = Rank[items'[n]]
                       /\ \E a, b \in 1..Len(items) :
                              a < b /\ items[a] = items'[m] /\ items[b] = items'[n]

Visit == rest = <<>> /\ items # <<>> /\ rest' = items /\ UNCHANGED items

DeleteVisited ==
    /\ rest # <<>>
    /\ Head(rest) \in ToSet(items)
    /\ items' = Without(Head(rest))
    /\ UNCHANGED rest

VisitNext == rest # <<>> /\ rest' = Tail(rest) /\ UNCHANGED items

Init == items = <<>> /\ rest = <<>>

Next == Add \/ Insert \/ Delete \/ Replace \/ Clear \/ Sort \/ Visit \/ DeleteVisited \/ VisitNext

Spec == Init /\ [][Next]_vars

=============================================================================
