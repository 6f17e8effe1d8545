----------------------------- MODULE MCHashTable -----------------------------
(***************************************************************************)
(* An instance of HashTable for TLC: four items, two of them with one key, *)
(* three keys of which two have the same hash value.                       *)
(***************************************************************************)
EXTENDS HashTable

CONSTANTS item_a, item_b, item_c, item_d

MCItem == {item_a, item_b, item_c, item_d}
MCKey == [i \in MCItem |-> CASE i \in {item_a, item_b} -> "k" [] i = item_c -> "l" [] i = item_d -> "m"]
MCHash == [k |-> 1, l |-> 1, m |-> 5]
MCRank == [i \in MCItem |-> IF i \in {item_a, item_c} THEN 2 ELSE 1]

=============================================================================
