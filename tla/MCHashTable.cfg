\* Four items, keys that collide; a bucket is expanded at its first item.
SPECIFICATION Spec
CONSTANTS
    NULL = NULL
    Freed = Freed
    item_a = item_a
    item_b = item_b
    item_c = item_c
    item_d = item_d
    Item <- MCItem
    Key <- MCKey
    Hash <- MCHash
    Rank <- MCRank
    HASH_INITIAL_NUM_BUCKETS = 2
    HASH_BKT_CAPACITY_THRESH = 1
    MaxBuckets = 64
INVARIANTS
    TypeOK
    Fsck
    Answers
    ChainsBounded
PROPERTY ImplementsOrderedItems
