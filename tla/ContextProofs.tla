---------------------------- MODULE ContextProofs ----------------------------
(***************************************************************************)
(* TablesAgree, the implementation of Directory and NetworkLoads, for any  *)
(* places, names and letters of modes, any command lines and network       *)
(* files, and any bounds.                                                  *)
(***************************************************************************)
EXTENDS Context, SequenceLemmas

-----------------------------------------------------------------------------
(* The inductive invariant *)

\* Is x in the table, and is nothing in it twice?
InTable(table, x) == \E i \in DOMAIN table : table[i] = x
Once(table) == \A i, j \in DOMAIN table : table[i] = table[j] => i = j

\* What lies at the places is a struct or nothing.
HeapTypes ==
    /\ user \in [User -> chirc_user_t \union {NULL}]
    /\ channel \in [Channel -> chirc_channel_t \union {NULL}]
    /\ channeluser \in [Channel \X User -> chirc_channeluser_t \union {NULL}]

\* Each channeluser is in two tables, of two structs that are there.
MembersOK ==
    /\ \A p \in Members : channel[p[1]] # NULL /\ user[p[2]] # NULL
    /\ \A u \in UserPlaces :
          /\ Once(user[u].channels)
          /\ \A p \in Channel \X User : InTable(user[u].channels, p) <=> p \in Members /\ p[2] = u
    /\ \A k \in ChannelPlaces :
          /\ Once(channel[k].users)
          /\ \A p \in Channel \X User : InTable(channel[k].users, p) <=> p \in Members /\ p[1] = k

\* The context lists structs that are there, each once and under a name of its own.
ListsOK ==
    /\ users \in Seq(User) /\ Once(users) /\ channels \in Seq(Channel) /\ Once(channels)
    /\ \A u \in User : InTable(users, u) => user[u] # NULL
    /\ \A k \in Channel : InTable(channels, k) => channel[k] # NULL
    /\ \A u, v \in User : InTable(users, u) /\ InTable(users, v) /\ user[u].nick = user[v].nick => u = v
    /\ \A k, l \in Channel :
          InTable(channels, k) /\ InTable(channels, l) /\ channel[k].name = channel[l].name => k = l

ContextInv == HeapTypes /\ MembersOK /\ ListsOK

-----------------------------------------------------------------------------
(* Tables *)

LEMMA EmptyOnce == Once(<<>>) /\ \A x : ~InTable(<<>>, x)
  BY DEF Once, InTable

LEMMA AppendOnce ==
    ASSUME NEW S, NEW s \in Seq(S), NEW x \in S, ~InTable(s, x), Once(s), NEW t, t = Append(s, x)
    PROVE  t \in Seq(S) /\ Once(t) /\ \A y : InTable(t, y) <=> InTable(s, y) \/ y = x
<1>1. /\ t \in Seq(S) /\ Len(s) \in Nat /\ DOMAIN s = 1..Len(s) /\ DOMAIN t = 1..Len(s) + 1
      /\ t[Len(s) + 1] = x /\ \A i \in 1..Len(s) : t[i] = s[i]
  OBVIOUS
<1>2. \A i \in DOMAIN t : (i \in DOMAIN s /\ t[i] = s[i]) \/ (i = Len(s) + 1 /\ t[i] = x)
  <2> TAKE i \in DOMAIN t
  <2>1. i \in 1..Len(s) \/ i = Len(s) + 1
    BY <1>1
  <2>2. QED
    BY <1>1, <2>1
<1>3. Once(t)
  BY <1>1, <1>2 DEF Once, InTable
<1>4. \A y : InTable(t, y) <=> InTable(s, y) \/ y = x
  BY <1>1, <1>2 DEF InTable
<1>5. QED
  BY <1>1, <1>3, <1>4

LEMMA RemoveAtSeq ==
    ASSUME NEW S, NEW s \in Seq(S), NEW k \in 1..Len(s), NEW t, t = RemoveAt(s, k)
    PROVE  /\ t \in Seq(S) /\ Len(t) = Len(s) - 1 /\ DOMAIN t = 1..Len(t)
           /\ \A i \in DOMAIN t : t[i] = IF i =< k - 1 THEN s[i] ELSE s[i + 1]
<1>1. s \in Seq(S)
  OBVIOUS
<1>2. Len(s) \in Nat /\ DOMAIN s = 1..Len(s) /\ \A i \in 1..Len(s) : s[i] \in S
  BY <1>1
<1> DEFINE a == SubSeq(s, 1, k - 1)
           b == SubSeq(s, k + 1, Len(s))
<1>3. a \in Seq(S) /\ Len(a) = k - 1 /\ \A i \in 1..k - 1 : a[i] = s[i]
  BY <1>1, <1>2
<1>4. b \in Seq(S) /\ Len(b) = Len(s) - k /\ \A i \in 1..Len(s) - k : b[i] = s[k + i]
  <2>1. \A i \in k + 1..Len(s) : s[i] \in S
    BY <1>2
  <2>2. k + 1 \in Int /\ Len(s) \in Int
    BY <1>2
  <2>3. /\ b \in Seq(S) /\ Len(b) = IF k + 1 =< Len(s) THEN Len(s) - (k + 1) + 1 ELSE 0
        /\ \A i \in 1..Len(s) - (k + 1) + 1 : b[i] = s[(k + 1) + i - 1]
    BY <2>1, <2>2, SubSeqProperties
  <2> HIDE DEF b
  <2>4. \A i \in 1..Len(s) - k : b[i] = s[k + i]
    <3> TAKE i \in 1..Len(s) - k
    <3>1. i \in 1..Len(s) - (k + 1) + 1 /\ (k + 1) + i - 1 = k + i
      BY <1>2
    <3>2. QED
      BY <2>3, <3>1
  <2>5. Len(b) = Len(s) - k
    <3>1. PICK l : l = Len(s)
      OBVIOUS
    <3>2. l \in Nat /\ k \in 1..l /\ Len(b) = IF k + 1 =< l THEN l - (k + 1) + 1 ELSE 0
      BY <1>2, <2>3, <3>1
    <3>3. (k + 1 =< l => l - (k + 1) + 1 = l - k) /\ (~(k + 1 =< l) => l - k = 0)
      BY <3>2
    <3>4. QED
      BY <3>1, <3>2, <3>3, Zenon
  <2>6. QED
    BY <2>3, <2>4, <2>5
<1>5. t = a \o b
  BY DEF RemoveAt
<1> HIDE DEF a, b
<1>6. /\ t \in Seq(S) /\ Len(t) = Len(a) + Len(b) /\ DOMAIN t = 1..Len(t)
      /\ \A i \in 1..Len(t) : t[i] = IF i =< Len(a) THEN a[i] ELSE b[i - Len(a)]
  <2>0. a \in Seq(S) /\ b \in Seq(S)
    BY <1>3, <1>4
  <2>1. /\ t \in Seq(S) /\ Len(t) = Len(a) + Len(b)
        /\ \A i \in 1..Len(a) + Len(b) : t[i] = IF i <= Len(a) THEN a[i] ELSE b[i - Len(a)]
    BY <1>5, <2>0, ConcatProperties, Zenon
  <2>2. DOMAIN t = 1..Len(t)
    BY <2>1
  <2>3. QED
    BY <2>1, <2>2, Zenon
<1>7. Len(t) = Len(s) - 1
  BY <1>2, <1>3, <1>4, <1>6
<1>8. \A i \in DOMAIN t : t[i] = IF i =< k - 1 THEN s[i] ELSE s[i + 1]
  <2> TAKE i \in DOMAIN t
  <2>1. CASE i =< k - 1
    BY <1>2, <1>3, <1>6, <2>1, SMTT(30)
  <2>2. CASE ~(i =< k - 1)
    <3>1. i - (k - 1) \in 1..Len(s) - k /\ k + (i - (k - 1)) = i + 1
      BY <1>2, <1>6, <1>7, <2>2
    <3>2. t[i] = b[i - (k - 1)]
      BY <1>3, <1>6, <2>2
    <3>3. QED
      BY <1>4, <2>2, <3>1, <3>2
  <2>3. QED
    BY <2>1, <2>2
<1>9. QED
  BY <1>6, <1>7, <1>8

LEMMA DeleteOnce ==
    ASSUME NEW S, NEW s \in Seq(S), NEW x, InTable(s, x), Once(s), NEW t, t = HASH_DELETE(s, x)
    PROVE  t \in Seq(S) /\ Once(t) /\ \A y : InTable(t, y) <=> InTable(s, y) /\ y # x
<1>1. PICK k : k \in 1..Len(s) /\ s[k] = x /\ t = RemoveAt(s, k)
  <2>1. PICK k : k = CHOOSE i \in DOMAIN s : s[i] = x
    OBVIOUS
  <2>2. k \in DOMAIN s /\ s[k] = x
    BY <2>1 DEF InTable
  <2>3. t = RemoveAt(s, k)
    BY <2>1, Zenon DEF HASH_DELETE
  <2>4. DOMAIN s = 1..Len(s)
    OBVIOUS
  <2>5. QED
    BY <2>2, <2>3, <2>4, Zenon
<1>2. /\ t \in Seq(S) /\ Len(t) = Len(s) - 1 /\ DOMAIN t = 1..Len(t)
      /\ \A i \in DOMAIN t : t[i] = IF i =< k - 1 THEN s[i] ELSE s[i + 1]
  BY <1>1, RemoveAtSeq
<1>3. Len(s) \in Nat /\ DOMAIN s = 1..Len(s)
  OBVIOUS
<1>4. \A i \in DOMAIN t : \E j \in DOMAIN s \ {k} :
          /\ j = IF i =< k - 1 THEN i ELSE i + 1
          /\ t[i] = s[j]
  BY <1>1, <1>2, <1>3
<1>5. \A j \in DOMAIN s \ {k} : \E i \in DOMAIN t : t[i] = s[j]
  <2> TAKE j \in DOMAIN s \ {k}
  <2>1. CASE j =< k - 1
    <3>1. j \in DOMAIN t /\ t[j] = s[j]
      BY <1>1, <1>2, <1>3, <2>1
    <3>2. QED
      BY <3>1
  <2>2. CASE ~(j =< k - 1)
    <3>1. j - 1 \in DOMAIN t /\ ~(j - 1 =< k - 1) /\ (j - 1) + 1 = j
      BY <1>1, <1>2, <1>3, <2>2
    <3>2. t[j - 1] = s[j]
      BY <1>2, <3>1
    <3>3. QED
      BY <3>1, <3>2
  <2>3. QED
    BY <2>1, <2>2
<1>6. Once(t)
  <2> SUFFICES ASSUME NEW i \in DOMAIN t, NEW j \in DOMAIN t, t[i] = t[j] PROVE i = j
    BY DEF Once
  <2>1. PICK a, b \in DOMAIN s \ {k} :
            /\ a = (IF i =< k - 1 THEN i ELSE i + 1) /\ b = (IF j =< k - 1 THEN j ELSE j + 1)
            /\ s[a] = s[b]
    BY <1>4
  <2>2. a = b
    BY <2>1 DEF Once
  <2>3. QED
    BY <1>1, <1>2, <1>3, <2>1, <2>2
<1>7. \A y : InTable(t, y) <=> InTable(s, y) /\ y # x
  <2>1. ASSUME NEW y, InTable(t, y) PROVE InTable(s, y) /\ y # x
    <3>1. PICK j \in DOMAIN s \ {k} : s[j] = y
      BY <1>4, <2>1 DEF InTable
    <3>2. QED
      BY <1>1, <1>3, <3>1 DEF InTable, Once
  <2>2. ASSUME NEW y, InTable(s, y), y # x PROVE InTable(t, y)
    BY <1>1, <1>5, <2>2 DEF InTable
  <2>3. QED
    BY <2>1, <2>2
<1>8. QED
  BY <1>2, <1>6, <1>7

LEMMA ContainsHas ==
    ASSUME NEW S, NEW s \in Seq(S)
    PROVE  /\ \A x : Contains(s, x) <=> InTable(s, x)
           /\ \A x : x \in ToSet(s) <=> InTable(s, x)
<1>1. DOMAIN s = 1..Len(s)
  OBVIOUS
<1>2. QED
  BY <1>1 DEF Contains, ToSet, InTable

LEMMA OnceDistinct ==
    ASSUME NEW S, NEW s \in Seq(S), Once(s)
    PROVE  Distinct(s)
<1>1. Len(s) \in Nat /\ DOMAIN s = 1..Len(s)
  OBVIOUS
<1>2. PICK n : n = Len(s)
  OBVIOUS
<1>3. n \in Nat /\ IsFiniteSet(1..n) /\ Cardinality(1..n) = n
  <2>1. n \in Nat /\ 1 \in Int /\ n \in Int
    BY <1>1, <1>2
  <2>2. IsFiniteSet(1..n) /\ Cardinality(1..n) = IF 1 > n THEN 0 ELSE n - 1 + 1
    BY <2>1, FS_Interval, Zenon
  <2>3. QED
    BY <2>1, <2>2
<1>4. s \in Surjection(1..n, ToSet(s)) /\ s \in Injection(1..n, ToSet(s))
  <2>1. s \in [1..n -> ToSet(s)]
    BY <1>1, <1>2 DEF ToSet
  <2>2. \A y \in ToSet(s) : \E i \in 1..n : s[i] = y
    BY <1>1, <1>2 DEF ToSet
  <2>3. \A i, j \in 1..n : s[i] = s[j] => i = j
    BY <1>1, <1>2 DEF Once
  <2>4. QED
    BY <2>1, <2>2, <2>3 DEF Surjection, Injection, IsInjective
<1>5. Cardinality(ToSet(s)) = Cardinality(1..n)
  BY <1>3, <1>4, FS_Surjection
<1>6. QED
  BY <1>2, <1>3, <1>5 DEF Distinct

\* A search that returns NULL has found nothing.
LEMMA NoUser ==
    ASSUME ListsOK, NEW n, chirc_ctx_get_user(n) = NULL
    PROVE  \A v \in User : InTable(users, v) => user[v].nick # n
<1> DEFINE I == {i \in 1..Len(users) : user[users[i]].nick = n}
<1>1. Len(users) \in Nat /\ DOMAIN users = 1..Len(users) /\ \A i \in DOMAIN users : users[i] \in User
  BY DEF ListsOK
<1>2. chirc_ctx_get_user(n) =
          LET at == IF I # {} THEN Min(I) ELSE 0 IN IF at = 0 THEN NULL ELSE users[at]
  BY DEF chirc_ctx_get_user, Found, SelectInSeq
<1>3. I # {} => Min(I) \in I
  <2> HIDE DEF I
  <2>1. I \subseteq 1..Len(users)
    BY DEF I
  <2>2. QED
    BY <1>1, <2>1, SelectIndex
<1>4. I = {}
  <2> SUFFICES ASSUME I # {} PROVE FALSE
    OBVIOUS
  <2>1. PICK j : j = Min(I)
    OBVIOUS
  <2>2. j \in 1..Len(users)
    BY <1>3, <2>1
  <2>3. j # 0 /\ users[j] \in User
    BY <1>1, <2>2
  <2> HIDE DEF I
  <2>4. chirc_ctx_get_user(n) = users[j]
    BY <1>2, <2>1, <2>3
  <2>5. QED
    BY <2>3, <2>4, PlacesAssumption
<1>5. QED
  BY <1>1, <1>4 DEF InTable

LEMMA NoChannel ==
    ASSUME ListsOK, NEW n, chirc_ctx_get_channel(n) = NULL
    PROVE  \A l \in Channel : InTable(channels, l) => channel[l].name # n
<1> DEFINE I == {i \in 1..Len(channels) : channel[channels[i]].name = n}
<1>1. /\ Len(channels) \in Nat /\ DOMAIN channels = 1..Len(channels)
      /\ \A i \in DOMAIN channels : channels[i] \in Channel
  BY DEF ListsOK
<1>2. chirc_ctx_get_channel(n) =
          LET at == IF I # {} THEN Min(I) ELSE 0 IN IF at = 0 THEN NULL ELSE channels[at]
  BY DEF chirc_ctx_get_channel, Found, SelectInSeq
<1>3. I # {} => Min(I) \in I
  <2> HIDE DEF I
  <2>1. I \subseteq 1..Len(channels)
    BY DEF I
  <2>2. QED
    BY <1>1, <2>1, SelectIndex
<1>4. I = {}
  <2> SUFFICES ASSUME I # {} PROVE FALSE
    OBVIOUS
  <2>1. PICK j : j = Min(I)
    OBVIOUS
  <2>2. j \in 1..Len(channels)
    BY <1>3, <2>1
  <2>3. j # 0 /\ channels[j] \in Channel
    BY <1>1, <2>2
  <2> HIDE DEF I
  <2>4. chirc_ctx_get_channel(n) = channels[j]
    BY <1>2, <2>1, <2>3
  <2>5. QED
    BY <2>3, <2>4, PlacesAssumption
<1>5. QED
  BY <1>1, <1>4 DEF InTable

LEMMA NoChanneluser ==
    ASSUME NEW k \in Channel, NEW u \in User, channel[k].users \in Seq(Channel \X User),
           chirc_channeluser_get(k, u) = NULL
    PROVE  ~InTable(channel[k].users, <<k, u>>)
<1> DEFINE I == {i \in 1..Len(channel[k].users) : channel[k].users[i][2] = u}
<1>1. PICK s : s = channel[k].users
  OBVIOUS
<1>2. /\ s \in Seq(Channel \X User) /\ Len(s) \in Nat /\ DOMAIN s = 1..Len(s)
      /\ \A i \in DOMAIN s : s[i] \in Channel \X User
  BY <1>1
<1>3. chirc_channeluser_get(k, u) =
          LET at == IF I # {} THEN Min(I) ELSE 0 IN IF at = 0 THEN NULL ELSE channel[k].users[at]
  BY DEF chirc_channeluser_get, Found, SelectInSeq
<1>4. I # {} => Min(I) \in I
  <2> HIDE DEF I
  <2>1. I \subseteq 1..Len(s)
    BY <1>1 DEF I
  <2>2. QED
    BY <1>2, <2>1, SelectIndex
<1>5. I = {}
  <2> SUFFICES ASSUME I # {} PROVE FALSE
    OBVIOUS
  <2>1. PICK j : j = Min(I)
    OBVIOUS
  <2>2. j \in 1..Len(s)
    BY <1>1, <1>4, <2>1
  <2>3. j # 0 /\ channel[k].users[j] \in Channel \X User
    BY <1>1, <1>2, <2>2
  <2> HIDE DEF I
  <2>4. chirc_channeluser_get(k, u) = channel[k].users[j]
    BY <1>3, <2>1, <2>3
  <2>5. QED
    BY <2>3, <2>4, StructsAssumption
<1>6. QED
  BY <1>1, <1>2, <1>5 DEF InTable

LEMMA SetModeSeq ==
    ASSUME NEW s \in Seq(Mode), NEW m \in Mode
    PROVE  set_mode(s, m) \in Seq(Mode) /\ remove_mode(s, m) \in Seq(Mode)
<1>1. set_mode(s, m) \in Seq(Mode)
  BY DEF set_mode
<1>2. CASE ~has_mode(s, m)
  BY <1>1, <1>2 DEF remove_mode
<1>3. CASE has_mode(s, m)
  <2> DEFINE I == {i \in 1..Len(s) : s[i] = m}
  <2>1. Len(s) \in Nat /\ I \subseteq 1..Len(s) /\ I # {}
    BY <1>3 DEF has_mode, Contains
  <2>2. SelectInSeq(s, LAMBDA x : x = m) = Min(I)
    BY <2>1 DEF SelectInSeq
  <2>3. remove_mode(s, m) = RemoveAt(s, Min(I))
    BY <1>3, <2>2, Zenon DEF remove_mode
  <2> HIDE DEF I
  <2>4. Min(I) \in 1..Len(s)
    BY <2>1, SelectIndex
  <2>5. PICK k : k = Min(I)
    OBVIOUS
  <2>6. k \in 1..Len(s) /\ remove_mode(s, m) = RemoveAt(s, k)
    BY <2>3, <2>4, <2>5, Zenon
  <2>7. remove_mode(s, m) \in Seq(Mode)
    BY <2>6, RemoveAtSeq
  <2>8. QED
    BY <1>1, <2>7
<1>4. QED
  BY <1>2, <1>3

-----------------------------------------------------------------------------
(* What leaves a part of the invariant alone *)

LEMMA ListsStay ==
    ASSUME ListsOK, users' = users, channels' = channels,
           \A u \in User :
               InTable(users, u) => user'[u] # NULL /\ user'[u].nick = user[u].nick,
           \A k \in Channel :
               InTable(channels, k) => channel'[k] # NULL /\ channel'[k].name = channel[k].name
    PROVE  ListsOK'
  BY DEF ListsOK

LEMMA MembersStay ==
    ASSUME MembersOK, channeluser' = channeluser \/ Members' = Members,
           \A u \in User : /\ user'[u] = NULL <=> user[u] = NULL
                           /\ user[u] # NULL => user'[u].channels = user[u].channels,
           \A k \in Channel : /\ channel'[k] = NULL <=> channel[k] = NULL
                              /\ channel[k] # NULL => channel'[k].users = channel[k].users
    PROVE  MembersOK'
<1>1. Members' = Members /\ Members \subseteq Channel \X User
  BY DEF Members
<1>2. \A p \in Members' : channel'[p[1]] # NULL /\ user'[p[2]] # NULL
  BY <1>1 DEF MembersOK
<1>3. \A u \in UserPlaces' :
          /\ Once(user'[u].channels)
          /\ \A p \in Channel \X User : InTable(user'[u].channels, p) <=> p \in Members' /\ p[2] = u
  BY <1>1 DEF MembersOK, UserPlaces
<1>4. \A k \in ChannelPlaces' :
          /\ Once(channel'[k].users)
          /\ \A p \in Channel \X User : InTable(channel'[k].users, p) <=> p \in Members' /\ p[1] = k
  BY <1>1 DEF MembersOK, ChannelPlaces
<1>5. QED
  BY <1>2, <1>3, <1>4 DEF MembersOK

LEMMA SameContext ==
    ASSUME ContextInv, UNCHANGED <<users, channels, heap>>
    PROVE  ContextInv'
<1>1. user' = user /\ channel' = channel /\ channeluser' = channeluser
  BY DEF heap
<1>2. users' = users /\ channels' = channels
  OBVIOUS
<1>3. HeapTypes'
  BY <1>1 DEF ContextInv, HeapTypes
<1>4. MembersOK'
  BY <1>1, MembersStay DEF ContextInv
<1>5. ListsOK'
  BY <1>1, <1>2, ListsStay DEF ContextInv, ListsOK
<1>6. QED
  BY <1>3, <1>4, <1>5 DEF ContextInv

-----------------------------------------------------------------------------
(* One lemma for each action that changes what the invariant is about *)

LEMMA InitInv == Init => ContextInv
<1> SUFFICES ASSUME Init PROVE ContextInv
  OBVIOUS
<1>1. HeapTypes
  BY DEF Init, HeapTypes
<1>2. Members = {} /\ UserPlaces = {} /\ ChannelPlaces = {}
  BY DEF Init, Members, UserPlaces, ChannelPlaces
<1>3. MembersOK
  BY <1>2 DEF MembersOK
<1>4. users = <<>> /\ channels = <<>>
  BY DEF Init
<1>5. ListsOK
  BY <1>4, EmptyOnce DEF ListsOK
<1>6. QED
  BY <1>1, <1>3, <1>5 DEF ContextInv

LEMMA AddUserInv ==
    ASSUME ContextInv, NEW u \in User, NEW n \in Nick, AddUser(u, n)
    PROVE  ContextInv'
<1>1. /\ user[u] = NULL /\ chirc_ctx_get_user(n) = NULL /\ users' = Append(users, u)
      /\ channels' = channels /\ channel' = channel /\ channeluser' = channeluser
      /\ user' = [user EXCEPT ![u] = [chirc_user_init EXCEPT !.nick = n]]
  BY DEF AddUser, chirc_ctx_add_user
<1>2. PICK r : r = [chirc_user_init EXCEPT !.nick = n]
  OBVIOUS
<1>3. r \in chirc_user_t /\ r.nick = n /\ r.channels = <<>> /\ r # NULL
  <2>1. r = [nick |-> n, registered |-> FALSE, modes |-> <<>>, channels |-> <<>>]
    BY <1>2 DEF chirc_user_init
  <2>2. <<>> \in Seq(Mode) /\ <<>> \in Seq(Channel \X User)
    OBVIOUS
  <2>3. r \in chirc_user_t
    BY <2>1, <2>2 DEF chirc_user_t
  <2>4. r # NULL
    BY <2>3, StructsAssumption
  <2>5. QED
    BY <2>1, <2>3, <2>4
<1>4. user' = [user EXCEPT ![u] = r]
  BY <1>1, <1>2, Zenon
<1>5. \A v \in User : user'[v] = IF v = u THEN r ELSE user[v]
  BY <1>4 DEF ContextInv, HeapTypes
<1>6. HeapTypes'
  BY <1>1, <1>3, <1>4 DEF ContextInv, HeapTypes
<1>7. MembersOK'
  <2>1. Members' = Members /\ ChannelPlaces' = ChannelPlaces /\ UserPlaces' = UserPlaces \union {u}
    BY <1>1, <1>3, <1>5 DEF Members, ChannelPlaces, UserPlaces
  <2>2. \A p \in Members : p[2] # u /\ p \in Channel \X User
    BY <1>1 DEF ContextInv, MembersOK, Members
  <2>3. \A p \in Members' : channel'[p[1]] # NULL /\ user'[p[2]] # NULL
    BY <1>1, <1>5, <2>1, <2>2 DEF ContextInv, MembersOK
  <2>4. \A v \in UserPlaces' :
            /\ Once(user'[v].channels)
            /\ \A p \in Channel \X User : InTable(user'[v].channels, p) <=> p \in Members' /\ p[2] = v
    <3> TAKE v \in UserPlaces'
    <3>1. CASE v = u
      BY <1>3, <1>5, <2>1, <2>2, <3>1, EmptyOnce
    <3>2. CASE v # u
      BY <1>5, <2>1, <3>2 DEF ContextInv, MembersOK, UserPlaces
    <3>3. QED
      BY <3>1, <3>2
  <2>5. \A k \in ChannelPlaces' :
            /\ Once(channel'[k].users)
            /\ \A p \in Channel \X User : InTable(channel'[k].users, p) <=> p \in Members' /\ p[1] = k
    BY <1>1, <2>1 DEF ContextInv, MembersOK
  <2>6. QED
    BY <2>3, <2>4, <2>5 DEF MembersOK
<1>8. ListsOK'
  <2>0. ListsOK
    BY DEF ContextInv
  <2>1. users \in Seq(User) /\ Once(users) /\ ~InTable(users, u)
    BY <1>1 DEF ContextInv, ListsOK
  <2>2. users' \in Seq(User) /\ Once(users') /\ \A v : InTable(users', v) <=> InTable(users, v) \/ v = u
    BY <1>1, <2>1, AppendOnce
  <2>3. \A v \in User : InTable(users, v) => user[v].nick # n
    BY <1>1, <2>0, NoUser
  <2>4. \A v \in User : InTable(users', v) => user'[v] # NULL
    BY <1>3, <1>5, <2>2 DEF ContextInv, ListsOK
  <2>5. \A v, w \in User :
            InTable(users', v) /\ InTable(users', w) /\ user'[v].nick = user'[w].nick => v = w
    BY <1>3, <1>5, <2>2, <2>3 DEF ContextInv, ListsOK
  <2>6. QED
    BY <1>1, <2>2, <2>4, <2>5 DEF ContextInv, ListsOK
<1>9. QED
  BY <1>6, <1>7, <1>8 DEF ContextInv

LEMMA AddChannelInv ==
    ASSUME ContextInv, NEW k \in Channel, NEW n \in Name, AddChannel(k, n)
    PROVE  ContextInv'
<1>1. /\ channel[k] = NULL /\ chirc_ctx_get_channel(n) = NULL /\ channels' = Append(channels, k)
      /\ users' = users /\ user' = user /\ channeluser' = channeluser
      /\ channel' = [channel EXCEPT ![k] = [chirc_channel_init EXCEPT !.name = n]]
  BY DEF AddChannel, chirc_ctx_add_channel
<1>2. PICK r : r = [chirc_channel_init EXCEPT !.name = n]
  OBVIOUS
<1>3. r \in chirc_channel_t /\ r.name = n /\ r.users = <<>> /\ r # NULL
  <2>1. r = [name |-> n, modes |-> <<>>, users |-> <<>>]
    BY <1>2 DEF chirc_channel_init
  <2>2. <<>> \in Seq(Mode) /\ <<>> \in Seq(Channel \X User)
    OBVIOUS
  <2>3. r \in chirc_channel_t
    BY <2>1, <2>2 DEF chirc_channel_t
  <2>4. r # NULL
    BY <2>3, StructsAssumption
  <2>5. QED
    BY <2>1, <2>3, <2>4
<1>4. channel' = [channel EXCEPT ![k] = r]
  BY <1>1, <1>2, Zenon
<1>5. \A l \in Channel : channel'[l] = IF l = k THEN r ELSE channel[l]
  BY <1>4 DEF ContextInv, HeapTypes
<1>6. HeapTypes'
  BY <1>1, <1>3, <1>4 DEF ContextInv, HeapTypes
<1>7. MembersOK'
  <2>1. /\ Members' = Members /\ UserPlaces' = UserPlaces
        /\ ChannelPlaces' = ChannelPlaces \union {k}
    BY <1>1, <1>3, <1>5 DEF Members, ChannelPlaces, UserPlaces
  <2>2. \A p \in Members : p[1] # k /\ p \in Channel \X User
    BY <1>1 DEF ContextInv, MembersOK, Members
  <2>3. \A p \in Members' : channel'[p[1]] # NULL /\ user'[p[2]] # NULL
    BY <1>1, <1>5, <2>1, <2>2 DEF ContextInv, MembersOK
  <2>4. \A l \in ChannelPlaces' :
            /\ Once(channel'[l].users)
            /\ \A p \in Channel \X User : InTable(channel'[l].users, p) <=> p \in Members' /\ p[1] = l
    <3> TAKE l \in ChannelPlaces'
    <3>1. CASE l = k
      BY <1>3, <1>5, <2>1, <2>2, <3>1, EmptyOnce
    <3>2. CASE l # k
      BY <1>5, <2>1, <3>2 DEF ContextInv, MembersOK, ChannelPlaces
    <3>3. QED
      BY <3>1, <3>2
  <2>5. \A u \in UserPlaces' :
            /\ Once(user'[u].channels)
            /\ \A p \in Channel \X User : InTable(user'[u].channels, p) <=> p \in Members' /\ p[2] = u
    BY <1>1, <2>1 DEF ContextInv, MembersOK
  <2>6. QED
    BY <2>3, <2>4, <2>5 DEF MembersOK
<1>8. ListsOK'
  <2>0. ListsOK
    BY DEF ContextInv
  <2>1. channels \in Seq(Channel) /\ Once(channels) /\ ~InTable(channels, k)
    BY <1>1 DEF ContextInv, ListsOK
  <2>2. /\ channels' \in Seq(Channel) /\ Once(channels')
        /\ \A l : InTable(channels', l) <=> InTable(channels, l) \/ l = k
    BY <1>1, <2>1, AppendOnce
  <2>3. \A l \in Channel : InTable(channels, l) => channel[l].name # n
    BY <1>1, <2>0, NoChannel
  <2>4. \A l \in Channel : InTable(channels', l) => channel'[l] # NULL
    BY <1>3, <1>5, <2>2 DEF ContextInv, ListsOK
  <2>5. \A l, j \in Channel :
            InTable(channels', l) /\ InTable(channels', j) /\ channel'[l].name = channel'[j].name => l = j
    BY <1>3, <1>5, <2>2, <2>3 DEF ContextInv, ListsOK
  <2>6. QED
    BY <1>1, <2>2, <2>4, <2>5 DEF ContextInv, ListsOK
<1>9. QED
  BY <1>6, <1>7, <1>8 DEF ContextInv

LEMMA RemoveUserInv ==
    ASSUME ContextInv, NEW u \in User, RemoveUser(u)
    PROVE  ContextInv'
<1>1. /\ Contains(users, u) /\ users' = HASH_DELETE(users, u) /\ channels' = channels
      /\ user' = user /\ channel' = channel /\ channeluser' = channeluser
  BY DEF RemoveUser, heap
<1>2. HeapTypes' /\ MembersOK'
  BY <1>1, MembersStay DEF ContextInv, HeapTypes
<1>3. users \in Seq(User) /\ Once(users) /\ InTable(users, u)
  BY <1>1, ContainsHas DEF ContextInv, ListsOK
<1>4. users' \in Seq(User) /\ Once(users') /\ \A v : InTable(users', v) <=> InTable(users, v) /\ v # u
  BY <1>1, <1>3, DeleteOnce
<1>5. ListsOK'
  BY <1>1, <1>4 DEF ContextInv, ListsOK
<1>6. QED
  BY <1>2, <1>5 DEF ContextInv

LEMMA RemoveChannelInv ==
    ASSUME ContextInv, NEW k \in Channel, RemoveChannel(k)
    PROVE  ContextInv'
<1>1. /\ Contains(channels, k) /\ channels' = HASH_DELETE(channels, k) /\ users' = users
      /\ user' = user /\ channel' = channel /\ channeluser' = channeluser
  BY DEF RemoveChannel, heap
<1>2. HeapTypes' /\ MembersOK'
  BY <1>1, MembersStay DEF ContextInv, HeapTypes
<1>3. channels \in Seq(Channel) /\ Once(channels) /\ InTable(channels, k)
  BY <1>1, ContainsHas DEF ContextInv, ListsOK
<1>4. /\ channels' \in Seq(Channel) /\ Once(channels')
      /\ \A l : InTable(channels', l) <=> InTable(channels, l) /\ l # k
  BY <1>1, <1>3, DeleteOnce
<1>5. ListsOK'
  BY <1>1, <1>4 DEF ContextInv, ListsOK
<1>6. QED
  BY <1>2, <1>5 DEF ContextInv

LEMMA FreeUserInv ==
    ASSUME ContextInv, NEW u \in User, FreeUser(u)
    PROVE  ContextInv'
<1>1. CASE Abort
  BY <1>1, SameContext DEF Abort, tables
<1>2. CASE /\ user[u].channels = <<>> /\ UNCHANGED <<startVars, tables, channel, channeluser>>
           /\ user' = [user EXCEPT ![u] = NULL]
  <2>1. /\ user[u] # NULL /\ ~Contains(users, u) /\ users' = users /\ channels' = channels
        /\ channel' = channel /\ channeluser' = channeluser
        /\ \A v \in User : user'[v] = IF v = u THEN NULL ELSE user[v]
    BY <1>2 DEF FreeUser, tables, ContextInv, HeapTypes
  <2>2. HeapTypes'
    BY <1>2, <2>1 DEF ContextInv, HeapTypes
  <2>3. MembersOK'
    <3>1. /\ Members' = Members /\ ChannelPlaces' = ChannelPlaces
          /\ UserPlaces' = UserPlaces \ {u} /\ u \in UserPlaces
      BY <2>1 DEF Members, ChannelPlaces, UserPlaces
    <3>2. \A p \in Members : p[2] # u /\ p \in Channel \X User
      BY <1>2, <3>1, EmptyOnce DEF ContextInv, MembersOK, Members
    <3>3. \A p \in Members' : channel'[p[1]] # NULL /\ user'[p[2]] # NULL
      BY <2>1, <3>1, <3>2 DEF ContextInv, MembersOK
    <3>4. \A v \in UserPlaces' :
              /\ Once(user'[v].channels)
              /\ \A p \in Channel \X User :
                     InTable(user'[v].channels, p) <=> p \in Members' /\ p[2] = v
      BY <2>1, <3>1 DEF ContextInv, MembersOK, UserPlaces
    <3>5. \A k \in ChannelPlaces' :
              /\ Once(channel'[k].users)
              /\ \A p \in Channel \X User : InTable(channel'[k].users, p) <=> p \in Members' /\ p[1] = k
      BY <2>1, <3>1 DEF ContextInv, MembersOK
    <3>6. QED
      BY <3>3, <3>4, <3>5 DEF MembersOK
  <2>4. ~InTable(users, u)
    BY <2>1, ContainsHas DEF ContextInv, ListsOK
  <2>5. ListsOK'
    BY <2>1, <2>4, ListsStay DEF ContextInv, ListsOK
  <2>6. QED
    BY <2>2, <2>3, <2>5 DEF ContextInv
<1>3. QED
  BY <1>1, <1>2 DEF FreeUser

LEMMA FreeChannelInv ==
    ASSUME ContextInv, NEW k \in Channel, FreeChannel(k)
    PROVE  ContextInv'
<1>1. CASE Abort
  BY <1>1, SameContext DEF Abort, tables
<1>2. CASE /\ channel[k].users = <<>> /\ UNCHANGED <<startVars, tables, user, channeluser>>
           /\ channel' = [channel EXCEPT ![k] = NULL]
  <2>1. /\ channel[k] # NULL /\ ~Contains(channels, k) /\ users' = users /\ channels' = channels
        /\ user' = user /\ channeluser' = channeluser
        /\ \A l \in Channel : channel'[l] = IF l = k THEN NULL ELSE channel[l]
    BY <1>2 DEF FreeChannel, tables, ContextInv, HeapTypes
  <2>2. HeapTypes'
    BY <1>2, <2>1 DEF ContextInv, HeapTypes
  <2>3. MembersOK'
    <3>1. /\ Members' = Members /\ UserPlaces' = UserPlaces
          /\ ChannelPlaces' = ChannelPlaces \ {k} /\ k \in ChannelPlaces
      BY <2>1 DEF Members, ChannelPlaces, UserPlaces
    <3>2. \A p \in Members : p[1] # k /\ p \in Channel \X User
      BY <1>2, <3>1, EmptyOnce DEF ContextInv, MembersOK, Members
    <3>3. \A p \in Members' : channel'[p[1]] # NULL /\ user'[p[2]] # NULL
      BY <2>1, <3>1, <3>2 DEF ContextInv, MembersOK
    <3>4. \A l \in ChannelPlaces' :
              /\ Once(channel'[l].users)
              /\ \A p \in Channel \X User : InTable(channel'[l].users, p) <=> p \in Members' /\ p[1] = l
      BY <2>1, <3>1 DEF ContextInv, MembersOK, ChannelPlaces
    <3>5. \A u \in UserPlaces' :
              /\ Once(user'[u].channels)
              /\ \A p \in Channel \X User :
                     InTable(user'[u].channels, p) <=> p \in Members' /\ p[2] = u
      BY <2>1, <3>1 DEF ContextInv, MembersOK
    <3>6. QED
      BY <3>3, <3>4, <3>5 DEF MembersOK
  <2>4. ~InTable(channels, k)
    BY <2>1, ContainsHas DEF ContextInv, ListsOK
  <2>5. ListsOK'
    BY <2>1, <2>4, ListsStay DEF ContextInv, ListsOK
  <2>6. QED
    BY <2>2, <2>3, <2>5 DEF ContextInv
<1>3. QED
  BY <1>1, <1>2 DEF FreeChannel

LEMMA RegisterInv ==
    ASSUME ContextInv, NEW u \in User, Register(u)
    PROVE  ContextInv'
<1>1. /\ Contains(users, u) /\ users' = users /\ channels' = channels
      /\ channel' = channel /\ channeluser' = channeluser
      /\ user' = [user EXCEPT ![u].registered = TRUE]
  BY DEF Register, tables
<1>2. user[u] # NULL /\ user[u] \in chirc_user_t
  BY <1>1, ContainsHas DEF ContextInv, ListsOK, HeapTypes
<1>3. PICK r : r = [user[u] EXCEPT !.registered = TRUE]
  OBVIOUS
<1>4. r \in chirc_user_t /\ r.nick = user[u].nick /\ r.channels = user[u].channels
  BY <1>2, <1>3 DEF chirc_user_t
<1>5. r # NULL
  BY <1>4, StructsAssumption
<1>6. user' = [user EXCEPT ![u] = r]
  BY <1>1, <1>3
<1>7. \A v \in User : user'[v] = IF v = u THEN r ELSE user[v]
  BY <1>6 DEF ContextInv, HeapTypes
<1>8. HeapTypes'
  BY <1>1, <1>4, <1>6 DEF ContextInv, HeapTypes
<1>9. MembersOK'
  BY <1>1, <1>2, <1>4, <1>5, <1>7, MembersStay DEF ContextInv
<1>10. ListsOK'
  <2>1. \A v \in User : InTable(users, v) => user'[v] # NULL /\ user'[v].nick = user[v].nick
    BY <1>4, <1>5, <1>7 DEF ContextInv, ListsOK
  <2>2. \A k \in Channel : InTable(channels, k) => channel'[k] # NULL /\ channel'[k].name = channel[k].name
    BY <1>1 DEF ContextInv, ListsOK
  <2>3. ListsOK
    BY DEF ContextInv
  <2>4. QED
    BY <1>1, <2>1, <2>2, <2>3, ListsStay
<1>11. QED
  BY <1>8, <1>9, <1>10 DEF ContextInv

LEMMA FreeInv ==
    ASSUME ContextInv, chirc_ctx_free
    PROVE  ContextInv'
<1>1. CASE Abort
  BY <1>1, SameContext DEF Abort, tables
<1>2. CASE users' = <<>> /\ channels' = <<>> /\ UNCHANGED heap
  <2>1. user' = user /\ channel' = channel /\ channeluser' = channeluser
    BY <1>2 DEF heap
  <2>2. HeapTypes' /\ MembersOK'
    BY <2>1, MembersStay DEF ContextInv, HeapTypes
  <2>3. ListsOK'
    BY <1>2, EmptyOnce DEF ListsOK
  <2>4. QED
    BY <2>2, <2>3 DEF ContextInv
<1>3. QED
  BY <1>1, <1>2 DEF chirc_ctx_free

LEMMA JoinInv ==
    ASSUME ContextInv, NEW k \in Channel, NEW u \in User, chirc_channeluser_get_or_create(k, u)
    PROVE  ContextInv'
<1>1. users' = users /\ channels' = channels /\ Contains(channels, k) /\ Contains(users, u)
  BY DEF chirc_channeluser_get_or_create, tables
<1>2. CASE UNCHANGED heap
  BY <1>1, <1>2, SameContext
<1>3. CASE /\ chirc_channeluser_get(k, u) = NULL
           /\ channeluser' = [channeluser EXCEPT ![<<k, u>>] = <<>>]
           /\ user' = [user EXCEPT ![u].channels = Append(@, <<k, u>>)]
           /\ channel' = [channel EXCEPT ![k].users = Append(@, <<k, u>>)]
  <2>1. PICK q : q = <<k, u>>
    OBVIOUS
  <2>2. q \in Channel \X User /\ q[1] = k /\ q[2] = u
    BY <2>1
  <2>3. user[u] # NULL /\ user[u] \in chirc_user_t /\ channel[k] # NULL /\ channel[k] \in chirc_channel_t
    BY <1>1, ContainsHas DEF ContextInv, ListsOK, HeapTypes
  <2>4. user[u].channels \in Seq(Channel \X User) /\ channel[k].users \in Seq(Channel \X User)
    BY <2>3 DEF chirc_user_t, chirc_channel_t
  <2>5. ~InTable(channel[k].users, q)
    BY <1>3, <2>1, <2>4, NoChanneluser
  <2>6. q \notin Members /\ ~InTable(user[u].channels, q)
    BY <2>2, <2>3, <2>5 DEF ContextInv, MembersOK, UserPlaces, ChannelPlaces
  <2>7. PICK a, b : a = Append(user[u].channels, q) /\ b = Append(channel[k].users, q)
    OBVIOUS
  <2>8. /\ a \in Seq(Channel \X User) /\ Once(a)
        /\ \A p : InTable(a, p) <=> InTable(user[u].channels, p) \/ p = q
    <3>1. Once(user[u].channels)
      BY <2>3 DEF ContextInv, MembersOK, UserPlaces
    <3>2. PICK S, x : S = Channel \X User /\ x = user[u].channels
      OBVIOUS
    <3>3. x \in Seq(S) /\ q \in S /\ ~InTable(x, q) /\ Once(x) /\ a = Append(x, q)
      BY <2>2, <2>4, <2>6, <2>7, <3>1, <3>2
    <3>4. a \in Seq(S) /\ Once(a) /\ \A p : InTable(a, p) <=> InTable(x, p) \/ p = q
      BY <3>3, AppendOnce
    <3>5. QED
      BY <3>2, <3>4
  <2>9. /\ b \in Seq(Channel \X User) /\ Once(b)
        /\ \A p : InTable(b, p) <=> InTable(channel[k].users, p) \/ p = q
    <3>1. Once(channel[k].users)
      BY <2>3 DEF ContextInv, MembersOK, ChannelPlaces
    <3>2. PICK S, x : S = Channel \X User /\ x = channel[k].users
      OBVIOUS
    <3>3. x \in Seq(S) /\ q \in S /\ ~InTable(x, q) /\ Once(x) /\ b = Append(x, q)
      BY <2>2, <2>4, <2>5, <2>7, <3>1, <3>2
    <3>4. b \in Seq(S) /\ Once(b) /\ \A p : InTable(b, p) <=> InTable(x, p) \/ p = q
      BY <3>3, AppendOnce
    <3>5. QED
      BY <3>2, <3>4
  <2>10. PICK r, s : r = [user[u] EXCEPT !.channels = a] /\ s = [channel[k] EXCEPT !.users = b]
    OBVIOUS
  <2>11. r \in chirc_user_t /\ r.nick = user[u].nick /\ r.channels = a
    BY <2>3, <2>8, <2>10 DEF chirc_user_t
  <2>12. s \in chirc_channel_t /\ s.name = channel[k].name /\ s.users = b
    BY <2>3, <2>9, <2>10 DEF chirc_channel_t
  <2>13. r # NULL /\ s # NULL
    BY <2>11, <2>12, StructsAssumption
  <2>14. /\ user' = [user EXCEPT ![u] = r] /\ channel' = [channel EXCEPT ![k] = s]
         /\ channeluser' = [channeluser EXCEPT ![q] = <<>>]
    BY <1>3, <2>1, <2>7, <2>10
  <2>15. <<>> \in chirc_channeluser_t /\ <<>> # NULL
    <3>1. <<>> \in Seq(Mode)
      OBVIOUS
    <3>2. QED
      BY <3>1, StructsAssumption DEF chirc_channeluser_t
  <2>16. /\ \A v \in User : user'[v] = IF v = u THEN r ELSE user[v]
         /\ \A l \in Channel : channel'[l] = IF l = k THEN s ELSE channel[l]
         /\ \A p \in Channel \X User : channeluser'[p] = IF p = q THEN <<>> ELSE channeluser[p]
    BY <2>14 DEF ContextInv, HeapTypes
  <2>17. HeapTypes'
    BY <2>2, <2>11, <2>12, <2>14, <2>15 DEF ContextInv, HeapTypes
  <2>18. /\ Members' = Members \union {q}
         /\ UserPlaces' = UserPlaces /\ ChannelPlaces' = ChannelPlaces
    BY <2>2, <2>3, <2>13, <2>15, <2>16 DEF Members, UserPlaces, ChannelPlaces
  <2>19. MembersOK'
    <3>1. \A p \in Members' : channel'[p[1]] # NULL /\ user'[p[2]] # NULL
      <4> TAKE p \in Members'
      <4>1. p \in Channel \X User /\ (p \in Members \/ p = q)
        BY <2>2, <2>18 DEF Members
      <4>2. p[1] \in Channel /\ p[2] \in User
        BY <4>1
      <4>3. channel'[p[1]] # NULL
        BY <2>2, <2>13, <2>16, <4>1, <4>2 DEF ContextInv, MembersOK
      <4>4. user'[p[2]] # NULL
        BY <2>2, <2>13, <2>16, <4>1, <4>2 DEF ContextInv, MembersOK
      <4>5. QED
        BY <4>3, <4>4
    <3>2. ASSUME NEW v \in UserPlaces'
          PROVE  /\ Once(user'[v].channels)
                 /\ \A p \in Channel \X User :
                        InTable(user'[v].channels, p) <=> p \in Members' /\ p[2] = v
      <4>1. v \in UserPlaces /\ v \in User
        BY <2>18, <3>2 DEF UserPlaces
      <4>2. /\ Once(user[v].channels)
            /\ \A p \in Channel \X User : InTable(user[v].channels, p) <=> p \in Members /\ p[2] = v
        BY <4>1 DEF ContextInv, MembersOK
      <4>3. CASE v = u
        <5>1. user'[v].channels = a
          BY <2>11, <2>16, <4>1, <4>3
        <5>2. QED
          BY <2>2, <2>8, <2>18, <4>2, <4>3, <5>1
      <4>4. CASE v # u
        <5>1. user'[v] = user[v]
          BY <2>16, <4>1, <4>4
        <5>2. QED
          BY <2>2, <2>18, <4>2, <4>4, <5>1
      <4>5. QED
        BY <4>3, <4>4
    <3>3. ASSUME NEW l \in ChannelPlaces'
          PROVE  /\ Once(channel'[l].users)
                 /\ \A p \in Channel \X User :
                        InTable(channel'[l].users, p) <=> p \in Members' /\ p[1] = l
      <4>1. l \in ChannelPlaces /\ l \in Channel
        BY <2>18, <3>3 DEF ChannelPlaces
      <4>2. /\ Once(channel[l].users)
            /\ \A p \in Channel \X User : InTable(channel[l].users, p) <=> p \in Members /\ p[1] = l
        BY <4>1 DEF ContextInv, MembersOK
      <4>3. CASE l = k
        <5>1. channel'[l].users = b
          BY <2>12, <2>16, <4>1, <4>3
        <5>2. QED
          BY <2>2, <2>9, <2>18, <4>2, <4>3, <5>1
      <4>4. CASE l # k
        <5>1. channel'[l] = channel[l]
          BY <2>16, <4>1, <4>4
        <5>2. QED
          BY <2>2, <2>18, <4>2, <4>4, <5>1
      <4>5. QED
        BY <4>3, <4>4
    <3>4. QED
      BY <3>1, <3>2, <3>3 DEF MembersOK
  <2>20. ListsOK'
    <3>1. \A v \in User : InTable(users, v) => user'[v] # NULL /\ user'[v].nick = user[v].nick
      BY <2>11, <2>13, <2>16 DEF ContextInv, ListsOK
    <3>2. \A l \in Channel :
              InTable(channels, l) => channel'[l] # NULL /\ channel'[l].name = channel[l].name
      BY <2>12, <2>13, <2>16 DEF ContextInv, ListsOK
    <3>3. ListsOK
      BY DEF ContextInv
    <3>4. QED
      BY <1>1, <3>1, <3>2, <3>3, ListsStay
  <2>21. QED
    BY <2>17, <2>19, <2>20 DEF ContextInv
<1>4. QED
  BY <1>2, <1>3 DEF chirc_channeluser_get_or_create

LEMMA LeaveInv ==
    ASSUME ContextInv, NEW k \in Channel, NEW u \in User, Leave(k, u)
    PROVE  ContextInv'
<1>1. /\ users' = users /\ channels' = channels /\ channeluser[<<k, u>>] # NULL
      /\ channeluser' = [channeluser EXCEPT ![<<k, u>>] = NULL]
      /\ user' = [user EXCEPT ![u].channels = HASH_DELETE(@, <<k, u>>)]
      /\ channel' = [channel EXCEPT ![k].users = HASH_DELETE(@, <<k, u>>)]
  BY DEF Leave, tables, chirc_channeluser_remove
<1>2. PICK q : q = <<k, u>>
  OBVIOUS
<1>3. q \in Channel \X User /\ q[1] = k /\ q[2] = u /\ q \in Members
  BY <1>1, <1>2 DEF Members
<1>4. user[u] # NULL /\ user[u] \in chirc_user_t /\ channel[k] # NULL /\ channel[k] \in chirc_channel_t
  BY <1>3 DEF ContextInv, HeapTypes, MembersOK
<1>5. user[u].channels \in Seq(Channel \X User) /\ channel[k].users \in Seq(Channel \X User)
  BY <1>4 DEF chirc_user_t, chirc_channel_t
<1>6. Once(user[u].channels) /\ InTable(user[u].channels, q)
  BY <1>3, <1>4 DEF ContextInv, MembersOK, UserPlaces
<1>7. Once(channel[k].users) /\ InTable(channel[k].users, q)
  BY <1>3, <1>4 DEF ContextInv, MembersOK, ChannelPlaces
<1>8. PICK a, b : a = HASH_DELETE(user[u].channels, q) /\ b = HASH_DELETE(channel[k].users, q)
  OBVIOUS
<1>9. /\ a \in Seq(Channel \X User) /\ Once(a)
      /\ \A p : InTable(a, p) <=> InTable(user[u].channels, p) /\ p # q
  <2>1. PICK S, x : S = Channel \X User /\ x = user[u].channels
    OBVIOUS
  <2>2. x \in Seq(S) /\ InTable(x, q) /\ Once(x) /\ a = HASH_DELETE(x, q)
    BY <1>5, <1>6, <1>8, <2>1
  <2>3. a \in Seq(S) /\ Once(a) /\ \A p : InTable(a, p) <=> InTable(x, p) /\ p # q
    BY <2>2, DeleteOnce
  <2>4. QED
    BY <2>1, <2>3
<1>10. /\ b \in Seq(Channel \X User) /\ Once(b)
       /\ \A p : InTable(b, p) <=> InTable(channel[k].users, p) /\ p # q
  <2>1. PICK S, x : S = Channel \X User /\ x = channel[k].users
    OBVIOUS
  <2>2. x \in Seq(S) /\ InTable(x, q) /\ Once(x) /\ b = HASH_DELETE(x, q)
    BY <1>5, <1>7, <1>8, <2>1
  <2>3. b \in Seq(S) /\ Once(b) /\ \A p : InTable(b, p) <=> InTable(x, p) /\ p # q
    BY <2>2, DeleteOnce
  <2>4. QED
    BY <2>1, <2>3
<1>11. PICK r, s : r = [user[u] EXCEPT !.channels = a] /\ s = [channel[k] EXCEPT !.users = b]
  OBVIOUS
<1>12. r \in chirc_user_t /\ r.nick = user[u].nick /\ r.channels = a
  BY <1>4, <1>9, <1>11 DEF chirc_user_t
<1>13. s \in chirc_channel_t /\ s.name = channel[k].name /\ s.users = b
  BY <1>4, <1>10, <1>11 DEF chirc_channel_t
<1>14. r # NULL /\ s # NULL
  BY <1>12, <1>13, StructsAssumption
<1>15. /\ user' = [user EXCEPT ![u] = r] /\ channel' = [channel EXCEPT ![k] = s]
       /\ channeluser' = [channeluser EXCEPT ![q] = NULL]
  BY <1>1, <1>2, <1>8, <1>11
<1>16. /\ \A v \in User : user'[v] = IF v = u THEN r ELSE user[v]
       /\ \A l \in Channel : channel'[l] = IF l = k THEN s ELSE channel[l]
       /\ \A p \in Channel \X User : channeluser'[p] = IF p = q THEN NULL ELSE channeluser[p]
  BY <1>15 DEF ContextInv, HeapTypes
<1>17. HeapTypes'
  BY <1>3, <1>12, <1>13, <1>15 DEF ContextInv, HeapTypes
<1>18. /\ Members' = Members \ {q}
       /\ UserPlaces' = UserPlaces /\ ChannelPlaces' = ChannelPlaces
  BY <1>3, <1>4, <1>14, <1>16 DEF Members, UserPlaces, ChannelPlaces
<1>19. MembersOK'
  <2>1. \A p \in Members' : channel'[p[1]] # NULL /\ user'[p[2]] # NULL
    <3> TAKE p \in Members'
    <3>1. p \in Channel \X User /\ p \in Members
      BY <1>18 DEF Members
    <3>2. p[1] \in Channel /\ p[2] \in User
      BY <3>1
    <3>3. channel'[p[1]] # NULL
      BY <1>14, <1>16, <3>1, <3>2 DEF ContextInv, MembersOK
    <3>4. user'[p[2]] # NULL
      BY <1>14, <1>16, <3>1, <3>2 DEF ContextInv, MembersOK
    <3>5. QED
      BY <3>3, <3>4
  <2>2. ASSUME NEW v \in UserPlaces'
        PROVE  /\ Once(user'[v].channels)
               /\ \A p \in Channel \X User : InTable(user'[v].channels, p) <=> p \in Members' /\ p[2] = v
    <3>1. v \in UserPlaces /\ v \in User
      BY <1>18, <2>2 DEF UserPlaces
    <3>2. /\ Once(user[v].channels)
          /\ \A p \in Channel \X User : InTable(user[v].channels, p) <=> p \in Members /\ p[2] = v
      BY <3>1 DEF ContextInv, MembersOK
    <3>3. CASE v = u
      <4>1. user'[v].channels = a
        BY <1>12, <1>16, <3>1, <3>3
      <4>2. QED
        BY <1>3, <1>9, <1>18, <3>2, <3>3, <4>1
    <3>4. CASE v # u
      <4>1. user'[v] = user[v]
        BY <1>16, <3>1, <3>4
      <4>2. QED
        BY <1>3, <1>18, <3>2, <3>4, <4>1
    <3>5. QED
      BY <3>3, <3>4
  <2>3. ASSUME NEW l \in ChannelPlaces'
        PROVE  /\ Once(channel'[l].users)
               /\ \A p \in Channel \X User : InTable(channel'[l].users, p) <=> p \in Members' /\ p[1] = l
    <3>1. l \in ChannelPlaces /\ l \in Channel
      BY <1>18, <2>3 DEF ChannelPlaces
    <3>2. /\ Once(channel[l].users)
          /\ \A p \in Channel \X User : InTable(channel[l].users, p) <=> p \in Members /\ p[1] = l
      BY <3>1 DEF ContextInv, MembersOK
    <3>3. CASE l = k
      <4>1. channel'[l].users = b
        BY <1>13, <1>16, <3>1, <3>3
      <4>2. QED
        BY <1>3, <1>10, <1>18, <3>2, <3>3, <4>1
    <3>4. CASE l # k
      <4>1. channel'[l] = channel[l]
        BY <1>16, <3>1, <3>4
      <4>2. QED
        BY <1>3, <1>18, <3>2, <3>4, <4>1
    <3>5. QED
      BY <3>3, <3>4
  <2>4. QED
    BY <2>1, <2>2, <2>3 DEF MembersOK
<1>20. ListsOK'
  <2>1. \A v \in User : InTable(users, v) => user'[v] # NULL /\ user'[v].nick = user[v].nick
    BY <1>12, <1>14, <1>16 DEF ContextInv, ListsOK
  <2>2. \A l \in Channel : InTable(channels, l) => channel'[l] # NULL /\ channel'[l].name = channel[l].name
    BY <1>13, <1>14, <1>16 DEF ContextInv, ListsOK
  <2>3. ListsOK
    BY DEF ContextInv
  <2>4. QED
    BY <1>1, <2>1, <2>2, <2>3, ListsStay
<1>21. QED
  BY <1>17, <1>19, <1>20 DEF ContextInv

\* A struct whose modes change keeps its name and its tables.
LEMMA ModesInv ==
    ASSUME ContextInv, UNCHANGED tables, NEW s \in Seq(Mode),
           \/ /\ \E u \in UserPlaces : user' = [user EXCEPT ![u].modes = s]
              /\ UNCHANGED <<channel, channeluser>>
           \/ /\ \E k \in ChannelPlaces : channel' = [channel EXCEPT ![k].modes = s]
              /\ UNCHANGED <<user, channeluser>>
           \/ /\ \E p \in Members : channeluser' = [channeluser EXCEPT ![p] = s]
              /\ UNCHANGED <<user, channel>>
    PROVE  ContextInv'
<1>0. users' = users /\ channels' = channels /\ ListsOK
  BY DEF tables, ContextInv
<1>1. ASSUME NEW u \in UserPlaces, user' = [user EXCEPT ![u].modes = s],
             UNCHANGED <<channel, channeluser>>
      PROVE  ContextInv'
  <2>1. u \in User /\ user[u] # NULL /\ user[u] \in chirc_user_t
    BY DEF UserPlaces, ContextInv, HeapTypes
  <2>2. PICK r : r = [user[u] EXCEPT !.modes = s]
    OBVIOUS
  <2>3. r \in chirc_user_t /\ r.nick = user[u].nick /\ r.channels = user[u].channels
    BY <2>1, <2>2 DEF chirc_user_t
  <2>4. r # NULL /\ user' = [user EXCEPT ![u] = r]
    BY <1>1, <2>2, <2>3, StructsAssumption
  <2>5. \A v \in User : user'[v] = IF v = u THEN r ELSE user[v]
    BY <2>4 DEF ContextInv, HeapTypes
  <2>6. HeapTypes'
    BY <1>1, <2>1, <2>3, <2>4 DEF ContextInv, HeapTypes
  <2>7. MembersOK'
    BY <1>1, <2>1, <2>3, <2>4, <2>5, MembersStay DEF ContextInv
  <2>8. \A v \in User : InTable(users, v) => user'[v] # NULL /\ user'[v].nick = user[v].nick
    BY <1>0, <2>3, <2>4, <2>5 DEF ListsOK
  <2>9. \A k \in Channel : InTable(channels, k) => channel'[k] # NULL /\ channel'[k].name = channel[k].name
    BY <1>0, <1>1 DEF ListsOK
  <2>10. ListsOK'
    BY <1>0, <2>8, <2>9, ListsStay
  <2>11. QED
    BY <2>6, <2>7, <2>10 DEF ContextInv
<1>2. ASSUME NEW k \in ChannelPlaces, channel' = [channel EXCEPT ![k].modes = s],
             UNCHANGED <<user, channeluser>>
      PROVE  ContextInv'
  <2>1. k \in Channel /\ channel[k] # NULL /\ channel[k] \in chirc_channel_t
    BY DEF ChannelPlaces, ContextInv, HeapTypes
  <2>2. PICK r : r = [channel[k] EXCEPT !.modes = s]
    OBVIOUS
  <2>3. r \in chirc_channel_t /\ r.name = channel[k].name /\ r.users = channel[k].users
    BY <2>1, <2>2 DEF chirc_channel_t
  <2>4. r # NULL /\ channel' = [channel EXCEPT ![k] = r]
    BY <1>2, <2>2, <2>3, StructsAssumption
  <2>5. \A l \in Channel : channel'[l] = IF l = k THEN r ELSE channel[l]
    BY <2>4 DEF ContextInv, HeapTypes
  <2>6. HeapTypes'
    BY <1>2, <2>1, <2>3, <2>4 DEF ContextInv, HeapTypes
  <2>7. MembersOK'
    BY <1>2, <2>1, <2>3, <2>4, <2>5, MembersStay DEF ContextInv
  <2>8. \A v \in User : InTable(users, v) => user'[v] # NULL /\ user'[v].nick = user[v].nick
    BY <1>0, <1>2 DEF ListsOK
  <2>9. \A l \in Channel : InTable(channels, l) => channel'[l] # NULL /\ channel'[l].name = channel[l].name
    BY <1>0, <2>3, <2>4, <2>5 DEF ListsOK
  <2>10. ListsOK'
    BY <1>0, <2>8, <2>9, ListsStay
  <2>11. QED
    BY <2>6, <2>7, <2>10 DEF ContextInv
<1>3. ASSUME NEW p \in Members, channeluser' = [channeluser EXCEPT ![p] = s],
             UNCHANGED <<user, channel>>
      PROVE  ContextInv'
  <2>1. p \in Channel \X User /\ channeluser[p] # NULL
    BY DEF Members
  <2>2. s \in chirc_channeluser_t /\ s # NULL
    BY StructsAssumption DEF chirc_channeluser_t
  <2>3. \A q \in Channel \X User : channeluser'[q] = IF q = p THEN s ELSE channeluser[q]
    BY <1>3 DEF ContextInv, HeapTypes
  <2>4. HeapTypes'
    BY <1>3, <2>1, <2>2 DEF ContextInv, HeapTypes
  <2>5. Members' = Members
    BY <2>1, <2>2, <2>3 DEF Members
  <2>6. MembersOK'
    BY <1>3, <2>5, MembersStay DEF ContextInv
  <2>7. ListsOK'
    BY <1>0, <1>3, ListsStay DEF ListsOK
  <2>8. QED
    BY <2>4, <2>6, <2>7 DEF ContextInv
<1>4. QED
  BY <1>1, <1>2, <1>3

LEMMA SetModeInv ==
    ASSUME ContextInv, NEW m \in Mode, SetMode(m) \/ RemoveMode(m)
    PROVE  ContextInv'
<1>1. PICK f \in [Seq(Mode) -> Seq(Mode)] :
          \A s \in Seq(Mode) : f[s] = IF SetMode(m) THEN set_mode(s, m) ELSE remove_mode(s, m)
  <2>1. [s \in Seq(Mode) |-> IF SetMode(m) THEN set_mode(s, m) ELSE remove_mode(s, m)]
            \in [Seq(Mode) -> Seq(Mode)]
    BY SetModeSeq
  <2>2. QED
    BY <2>1
<1>2. /\ \A u \in UserPlaces : user[u].modes \in Seq(Mode)
      /\ \A k \in ChannelPlaces : channel[k].modes \in Seq(Mode)
      /\ \A p \in Members : channeluser[p] \in Seq(Mode)
  BY DEF ContextInv, HeapTypes, UserPlaces, ChannelPlaces, Members, chirc_user_t, chirc_channel_t,
         chirc_channeluser_t
<1>3. UNCHANGED tables
  BY DEF SetMode, RemoveMode
<1>4. \/ /\ \E u \in UserPlaces : user' = [user EXCEPT ![u].modes = f[user[u].modes]]
         /\ UNCHANGED <<channel, channeluser>>
      \/ /\ \E k \in ChannelPlaces : channel' = [channel EXCEPT ![k].modes = f[channel[k].modes]]
         /\ UNCHANGED <<user, channeluser>>
      \/ /\ \E p \in Members : channeluser' = [channeluser EXCEPT ![p] = f[channeluser[p]]]
         /\ UNCHANGED <<user, channel>>
  <2>1. CASE SetMode(m)
    BY <1>1, <1>2, <2>1 DEF SetMode
  <2>2. CASE ~SetMode(m)
    BY <1>1, <1>2, <2>2 DEF RemoveMode
  <2>3. QED
    BY <2>1, <2>2
<1>5. PICK t \in Seq(Mode) :
         \/ /\ \E u \in UserPlaces : user' = [user EXCEPT ![u].modes = t]
            /\ UNCHANGED <<channel, channeluser>>
         \/ /\ \E k \in ChannelPlaces : channel' = [channel EXCEPT ![k].modes = t]
            /\ UNCHANGED <<user, channeluser>>
         \/ /\ \E p \in Members : channeluser' = [channeluser EXCEPT ![p] = t]
            /\ UNCHANGED <<user, channel>>
  BY <1>1, <1>2, <1>4
<1>6. QED
  BY <1>3, <1>5, ModesInv

LEMMA NextInv == ContextInv /\ [Next]_vars => ContextInv'
<1> SUFFICES ASSUME ContextInv, [Next]_vars PROVE ContextInv'
  OBVIOUS
<1>1. CASE Start
  BY <1>1, SameContext DEF Start, tables
<1>2. ASSUME NEW s \in Socket, AddConnection(s) PROVE ContextInv'
  BY <1>2, SameContext DEF AddConnection
<1>3. ASSUME NEW i \in DOMAIN connections, RemoveConnection(i) \/ Identify(i) PROVE ContextInv'
  BY <1>3, SameContext DEF RemoveConnection, Identify
<1>4. CASE UNCHANGED vars
  BY <1>4, SameContext DEF vars, tables
<1>5. QED
  BY <1>1, <1>2, <1>3, <1>4, AddUserInv, RemoveUserInv, FreeUserInv, RegisterInv, AddChannelInv,
     RemoveChannelInv, FreeChannelInv, JoinInv, LeaveInv, SetModeInv, FreeInv DEF Next

-----------------------------------------------------------------------------
(* The theorem *)

LEMMA InvAgrees == ContextInv => TablesAgree
<1> SUFFICES ASSUME ContextInv PROVE TablesAgree
  OBVIOUS
<1>1. /\ \A u \in UserPlaces : user[u].channels \in Seq(Channel \X User)
      /\ \A k \in ChannelPlaces : channel[k].users \in Seq(Channel \X User)
  BY DEF ContextInv, HeapTypes, UserPlaces, ChannelPlaces, chirc_user_t, chirc_channel_t
<1>2. \A k \in ChannelPlaces :
          /\ Distinct(channel[k].users)
          /\ \A p \in ToSet(channel[k].users) : p[1] = k /\ channeluser[p] # NULL
  <2> TAKE k \in ChannelPlaces
  <2>1. channel[k].users \in Seq(Channel \X User) /\ Once(channel[k].users)
    BY <1>1 DEF ContextInv, MembersOK
  <2>2. Distinct(channel[k].users)
    BY <2>1, OnceDistinct
  <2>3. ASSUME NEW p \in ToSet(channel[k].users) PROVE p[1] = k /\ channeluser[p] # NULL
    <3>1. InTable(channel[k].users, p)
      BY <2>1, ContainsHas
    <3>2. p \in Channel \X User
      BY <2>1, <3>1 DEF InTable
    <3>3. QED
      BY <3>1, <3>2 DEF ContextInv, MembersOK, Members
  <2>4. QED
    BY <2>2, <2>3
<1>3. \A u \in UserPlaces :
          /\ Distinct(user[u].channels)
          /\ \A p \in ToSet(user[u].channels) : p[2] = u /\ channeluser[p] # NULL
  <2> TAKE u \in UserPlaces
  <2>1. user[u].channels \in Seq(Channel \X User) /\ Once(user[u].channels)
    BY <1>1 DEF ContextInv, MembersOK
  <2>2. Distinct(user[u].channels)
    BY <2>1, OnceDistinct
  <2>3. ASSUME NEW p \in ToSet(user[u].channels) PROVE p[2] = u /\ channeluser[p] # NULL
    <3>1. InTable(user[u].channels, p)
      BY <2>1, ContainsHas
    <3>2. p \in Channel \X User
      BY <2>1, <3>1 DEF InTable
    <3>3. QED
      BY <3>1, <3>2 DEF ContextInv, MembersOK, Members
  <2>4. QED
    BY <2>2, <2>3
<1>4. ASSUME NEW k \in Channel, NEW u \in User
      PROVE  channeluser[<<k, u>>] # NULL <=>
                 /\ channel[k] # NULL /\ Contains(channel[k].users, <<k, u>>)
                 /\ user[u] # NULL /\ Contains(user[u].channels, <<k, u>>)
  <2>1. PICK q : q = <<k, u>>
    OBVIOUS
  <2>2. q \in Channel \X User /\ q[1] = k /\ q[2] = u /\ (q \in Members <=> channeluser[<<k, u>>] # NULL)
    BY <2>1 DEF Members
  <2>3. channel[k] # NULL => (Contains(channel[k].users, q) <=> q \in Members)
    BY <1>1, <2>2, ContainsHas DEF ContextInv, MembersOK, ChannelPlaces
  <2>4. user[u] # NULL => (Contains(user[u].channels, q) <=> q \in Members)
    BY <1>1, <2>2, ContainsHas DEF ContextInv, MembersOK, UserPlaces
  <2>5. q \in Members => channel[k] # NULL /\ user[u] # NULL
    BY <2>2 DEF ContextInv, MembersOK
  <2>6. QED
    BY <2>1, <2>2, <2>3, <2>4, <2>5
<1>5. ToSet(users) \subseteq UserPlaces /\ ToSet(channels) \subseteq ChannelPlaces
  <2>1. \A u \in ToSet(users) : u \in User /\ InTable(users, u)
    BY ContainsHas DEF ContextInv, ListsOK, InTable
  <2>2. \A k \in ToSet(channels) : k \in Channel /\ InTable(channels, k)
    BY ContainsHas DEF ContextInv, ListsOK, InTable
  <2>3. QED
    BY <2>1, <2>2 DEF ContextInv, ListsOK, UserPlaces, ChannelPlaces
<1>6. Distinct([i \in DOMAIN users |-> user[users[i]].nick])
  <2>1. PICK s : s = [i \in DOMAIN users |-> user[users[i]].nick]
    OBVIOUS
  <2>2. users \in Seq(User) /\ \A i \in DOMAIN users : users[i] \in User /\ InTable(users, users[i])
    BY DEF ContextInv, ListsOK, InTable
  <2>3. \A i \in DOMAIN users : user[users[i]].nick \in Nick
    BY <2>2 DEF ContextInv, ListsOK, HeapTypes, chirc_user_t
  <2>4. s \in Seq(Nick) /\ DOMAIN s = DOMAIN users
    BY <2>1, <2>2, <2>3
  <2>5. Once(s)
    BY <2>1, <2>2, <2>4 DEF ContextInv, ListsOK, Once
  <2>6. QED
    BY <2>1, <2>4, <2>5, OnceDistinct
<1>7. Distinct([i \in DOMAIN channels |-> channel[channels[i]].name])
  <2>1. PICK s : s = [i \in DOMAIN channels |-> channel[channels[i]].name]
    OBVIOUS
  <2>2. /\ channels \in Seq(Channel)
        /\ \A i \in DOMAIN channels : channels[i] \in Channel /\ InTable(channels, channels[i])
    BY DEF ContextInv, ListsOK, InTable
  <2>3. \A i \in DOMAIN channels : channel[channels[i]].name \in Name
    BY <2>2 DEF ContextInv, ListsOK, HeapTypes, chirc_channel_t
  <2>4. s \in Seq(Name) /\ DOMAIN s = DOMAIN channels
    BY <2>1, <2>2, <2>3
  <2>5. Once(s)
    BY <2>1, <2>2, <2>4 DEF ContextInv, ListsOK, Once
  <2>6. QED
    BY <2>1, <2>4, <2>5, OnceDistinct
<1>8. QED
  BY <1>2, <1>3, <1>4, <1>5, <1>6, <1>7 DEF TablesAgree

\* Whatever is called in whatever order, each channeluser is once in the table of its channel
\* and once in that of its user and nothing else is, nothing a table leads to has been freed,
\* and no nick and no name is taken twice (channeluser.c:71-104, ctx.c:157-261).
THEOREM TablesAgreeCorrect == Spec => []TablesAgree
<1>1. Init => ContextInv
  BY InitInv
<1>2. ContextInv /\ [Next]_vars => ContextInv'
  BY NextInv
<1>3. ContextInv => TablesAgree
  BY InvAgrees
<1>4. QED
  BY <1>1, <1>2, <1>3, PTL DEF Spec

-----------------------------------------------------------------------------
(* What the refinement needs in addition *)

\* No letter of a mode is kept twice, or taking it away would leave one.
ModesOK ==
    /\ \A u \in UserPlaces : Once(user[u].modes)
    /\ \A k \in ChannelPlaces : Once(channel[k].modes)
    /\ \A p \in Members : Once(channeluser[p])

\* A table of connections in which no socket occurs twice.
Connections(table) ==
    /\ table \in Seq(chirc_connection_t)
    /\ \A i, j \in DOMAIN table : table[i].socket = table[j].socket => i = j

DirectoryInv == ContextInv /\ ModesOK /\ Connections(connections)

LEMMA ModesAsSets ==
    ASSUME NEW s \in Seq(Mode), Once(s), NEW m \in Mode
    PROVE  /\ Once(set_mode(s, m)) /\ ToSet(set_mode(s, m)) = ToSet(s) \union {m}
           /\ Once(remove_mode(s, m)) /\ ToSet(remove_mode(s, m)) = ToSet(s) \ {m}
<1>1. has_mode(s, m) <=> InTable(s, m)
  BY ContainsHas DEF has_mode
<1>2. \A t \in Seq(Mode) : \A x : x \in ToSet(t) <=> InTable(t, x)
  BY ContainsHas
<1>3. CASE ~has_mode(s, m)
  <2>1. PICK t : t = Append(s, m)
    OBVIOUS
  <2>2. set_mode(s, m) = t /\ remove_mode(s, m) = s
    BY <1>3, <2>1 DEF set_mode, remove_mode
  <2>3. t \in Seq(Mode) /\ Once(t) /\ \A y : InTable(t, y) <=> InTable(s, y) \/ y = m
    BY <1>1, <1>3, <2>1, AppendOnce
  <2>4. \A y : y \in ToSet(t) <=> y \in ToSet(s) \union {m}
    BY <1>2, <2>3
  <2>5. \A y : y \in ToSet(s) <=> y \in ToSet(s) \ {m}
    BY <1>1, <1>2, <1>3
  <2>6. QED
    BY <2>2, <2>3, <2>4, <2>5
<1>4. CASE has_mode(s, m)
  <2> DEFINE I == {i \in 1..Len(s) : s[i] = m}
  <2>1. Len(s) \in Nat /\ DOMAIN s = 1..Len(s) /\ I \subseteq 1..Len(s) /\ I # {}
    BY <1>4 DEF has_mode, Contains
  <2>2. SelectInSeq(s, LAMBDA x : x = m) = Min(I)
    BY <2>1 DEF SelectInSeq
  <2>3. Min(I) \in I
    <3> HIDE DEF I
    <3>1. QED
      BY <2>1, SelectIndex
  <2>4. PICK k : k = Min(I)
    OBVIOUS
  <2>5. k \in DOMAIN s /\ s[k] = m
    BY <2>1, <2>3, <2>4
  <2>6. k = CHOOSE i \in DOMAIN s : s[i] = m
    BY <2>5 DEF Once
  <2>7. remove_mode(s, m) = HASH_DELETE(s, m)
    BY <1>4, <2>2, <2>4, <2>6, Zenon DEF remove_mode, HASH_DELETE
  <2>8. PICK t : t = HASH_DELETE(s, m)
    OBVIOUS
  <2>9. t \in Seq(Mode) /\ Once(t) /\ \A y : InTable(t, y) <=> InTable(s, y) /\ y # m
    BY <1>1, <1>4, <2>8, DeleteOnce
  <2>10. \A y : y \in ToSet(t) <=> y \in ToSet(s) \ {m}
    BY <1>2, <2>9
  <2>11. \A y : y \in ToSet(s) <=> y \in ToSet(s) \union {m}
    BY <1>1, <1>2, <1>4
  <2>12. set_mode(s, m) = s
    BY <1>4 DEF set_mode
  <2>13. QED
    BY <2>7, <2>8, <2>9, <2>10, <2>11, <2>12
<1>5. QED
  BY <1>3, <1>4

\* What is at a place is not touched by what happens at others.
LEMMA ModesStay ==
    ASSUME ModesOK,
           \A u \in User : user'[u] # NULL =>
               \/ user[u] # NULL /\ user'[u].modes = user[u].modes
               \/ Once(user'[u].modes),
           \A k \in Channel : channel'[k] # NULL =>
               \/ channel[k] # NULL /\ channel'[k].modes = channel[k].modes
               \/ Once(channel'[k].modes),
           \A p \in Channel \X User : channeluser'[p] # NULL =>
               \/ channeluser[p] # NULL /\ channeluser'[p] = channeluser[p]
               \/ Once(channeluser'[p])
    PROVE  ModesOK'
<1>1. \A u \in User : user'[u] # NULL => Once(user'[u].modes)
  BY DEF ModesOK, UserPlaces
<1>2. \A k \in Channel : channel'[k] # NULL => Once(channel'[k].modes)
  BY DEF ModesOK, ChannelPlaces
<1>3. \A p \in Channel \X User : channeluser'[p] # NULL => Once(channeluser'[p])
  BY DEF ModesOK, Members
<1>4. QED
  BY <1>1, <1>2, <1>3 DEF ModesOK, UserPlaces, ChannelPlaces, Members

-----------------------------------------------------------------------------
(* Connections *)

LEMMA FoundConnection ==
    ASSUME NEW table, Connections(table), NEW s
    PROVE  /\ \A i \in DOMAIN table : table[i].socket = s =>
                  Found(table, LAMBDA x : x.socket = s) = table[i] /\ TypeIn(table, s) = table[i].type
           /\ (\A i \in DOMAIN table : table[i].socket # s) =>
                  Found(table, LAMBDA x : x.socket = s) = NULL /\ TypeIn(table, s) = NULL
<1> DEFINE I == {i \in 1..Len(table) : table[i].socket = s}
<1>1. /\ Len(table) \in Nat /\ DOMAIN table = 1..Len(table)
      /\ \A i \in DOMAIN table : table[i] \in chirc_connection_t
  BY DEF Connections
<1>2. PICK f : f = Found(table, LAMBDA x : x.socket = s)
  OBVIOUS
<1>3. f = LET at == IF I # {} THEN Min(I) ELSE 0 IN IF at = 0 THEN NULL ELSE table[at]
  BY <1>2 DEF Found, SelectInSeq
<1>4. TypeIn(table, s) = IF f = NULL THEN NULL ELSE f.type
  BY <1>2 DEF TypeIn
<1>5. ASSUME NEW i \in DOMAIN table, table[i].socket = s
      PROVE  f = table[i] /\ TypeIn(table, s) = table[i].type
  <2>1. I = {i}
    BY <1>1, <1>5 DEF Connections
  <2>2. Min(I) = i
    <3> HIDE DEF I
    <3>1. I \subseteq 1..Len(table) /\ I # {}
      BY <1>1, <2>1
    <3>2. Min(I) \in I
      BY <1>1, <3>1, SelectIndex
    <3>3. QED
      BY <2>1, <3>2
  <2>3. i # 0 /\ table[i] # NULL /\ I # {}
    BY <1>1, <2>1, StructsAssumption
  <2> HIDE DEF I
  <2>4. f = table[i]
    BY <1>3, <2>2, <2>3
  <2>5. QED
    BY <1>4, <2>3, <2>4
<1>6. ASSUME \A i \in DOMAIN table : table[i].socket # s
      PROVE  f = NULL /\ TypeIn(table, s) = NULL
  <2>1. I = {}
    BY <1>1, <1>6
  <2>2. f = NULL
    BY <1>3, <2>1
  <2>3. QED
    BY <1>4, <2>2
<1>7. QED
  BY <1>2, <1>5, <1>6

-----------------------------------------------------------------------------
(* Counting *)

\* Directory has its Cardinality from its own copy of FiniteSets.
LEMMA SameCardinality == \A S : Abstract!Cardinality(S) = Cardinality(S)
  BY DEF Abstract!Cardinality, Cardinality

LEMMA CountImage ==
    ASSUME NEW n \in Nat, NEW I \in SUBSET (1..n), NEW T, NEW f \in [I -> T],
           \A i, j \in I : f[i] = f[j] => i = j,
           \A y \in T : \E i \in I : f[i] = y
    PROVE  Cardinality(I) = Cardinality(T)
<1>1. IsFiniteSet(1..n)
  <2>1. 1 \in Int /\ n \in Int
    OBVIOUS
  <2>2. QED
    BY <2>1, FS_Interval
<1>2. IsFiniteSet(I)
  BY <1>1, FS_Subset
<1>3. f \in Surjection(I, T) /\ f \in Injection(I, T)
  BY DEF Surjection, Injection, IsInjective
<1>4. QED
  BY <1>2, <1>3, FS_Surjection

\* The items of a table that pass a test, counted in the table and as a set.
LEMMA CountItems ==
    ASSUME NEW S, NEW s \in Seq(S), Once(s), NEW I \in SUBSET DOMAIN s,
           NEW T, \A x : x \in T <=> \E i \in I : s[i] = x
    PROVE  Cardinality(I) = Cardinality(T)
<1>1. Len(s) \in Nat /\ DOMAIN s = 1..Len(s)
  OBVIOUS
<1>2. PICK n : n = Len(s)
  OBVIOUS
<1>3. n \in Nat /\ I \in SUBSET (1..n)
  BY <1>1, <1>2
<1>4. PICK f : f = [i \in I |-> s[i]]
  OBVIOUS
<1>5. f \in [I -> T]
  BY <1>4
<1>6. \A i, j \in I : f[i] = f[j] => i = j
  BY <1>4 DEF Once
<1>7. \A y \in T : \E i \in I : f[i] = y
  BY <1>4
<1>8. QED
  BY <1>3, <1>5, <1>6, <1>7, CountImage

LEMMA FullCount ==
    ASSUME NEW S, NEW s \in Seq(S)
    PROVE  Len(s) = Cardinality(1..Len(s)) /\ DOMAIN s = 1..Len(s) /\ Len(s) \in Nat
<1>1. Len(s) \in Nat /\ DOMAIN s = 1..Len(s)
  OBVIOUS
<1>2. PICK n : n = Len(s)
  OBVIOUS
<1>3. n \in Nat /\ 1 \in Int /\ n \in Int
  BY <1>1, <1>2
<1>4. Cardinality(1..n) = IF 1 > n THEN 0 ELSE n - 1 + 1
  BY <1>3, FS_Interval, Zenon
<1>5. Cardinality(1..n) = n
  BY <1>3, <1>4
<1>6. QED
  BY <1>1, <1>2, <1>5

\* The counts are those of the sets.
LEMMA PeopleFacts ==
    ASSUME ContextInv, NEW u \in User
    PROVE  /\ people[u] = NULL <=> user[u] = NULL
           /\ user[u] # NULL =>
                  /\ people[u].nick = user[u].nick /\ people[u].registered = user[u].registered
                  /\ people[u].modes = ToSet(user[u].modes)
                  /\ people[u].listed = InTable(users, u) /\ people[u].listed \in BOOLEAN
                  /\ people[u] = [nick |-> user[u].nick, registered |-> user[u].registered,
                                  modes |-> ToSet(user[u].modes), listed |-> Contains(users, u)]
           /\ DOMAIN people = User
<1>1. people[u] = IF user[u] = NULL THEN NULL
                  ELSE [nick |-> user[u].nick, registered |-> user[u].registered,
                        modes |-> ToSet(user[u].modes), listed |-> Contains(users, u)]
  BY DEF people
<1>2. user[u] # NULL => user[u].nick \in Nick /\ user[u].registered \in BOOLEAN
                        /\ user[u].modes \in Seq(Mode)
  BY DEF ContextInv, HeapTypes, chirc_user_t
<1>3. Contains(users, u) = InTable(users, u) /\ Contains(users, u) \in BOOLEAN
  <2>1. Contains(users, u) <=> InTable(users, u)
    BY ContainsHas DEF ContextInv, ListsOK
  <2>2. Contains(users, u) \in BOOLEAN /\ InTable(users, u) \in BOOLEAN
    BY DEF Contains, InTable
  <2>3. QED
    BY <2>1, <2>2
<1>4. user[u] # NULL => ToSet(user[u].modes) \in SUBSET Mode
  BY <1>2 DEF ToSet
<1>5. DOMAIN people = User
  BY DEF people
<1>6. CASE user[u] = NULL
  BY <1>1, <1>5, <1>6
<1>7. CASE user[u] # NULL
  <2>1. people[u] \in [nick : Nick, registered : BOOLEAN, modes : SUBSET Mode, listed : BOOLEAN]
    BY <1>1, <1>2, <1>3, <1>4, <1>7
  <2>2. people[u] # NULL
    BY <2>1, DirectoryAssumption
  <2>3. QED
    BY <1>1, <1>3, <1>5, <1>7, <2>2
<1>8. QED
  BY <1>6, <1>7

LEMMA RoomFacts ==
    ASSUME ContextInv, NEW k \in Channel
    PROVE  /\ rooms[k] = NULL <=> channel[k] = NULL
           /\ channel[k] # NULL =>
                  /\ rooms[k].name = channel[k].name /\ rooms[k].modes = ToSet(channel[k].modes)
                  /\ rooms[k].listed = InTable(channels, k) /\ rooms[k].listed \in BOOLEAN
                  /\ rooms[k] = [name |-> channel[k].name, modes |-> ToSet(channel[k].modes),
                                 listed |-> Contains(channels, k)]
           /\ DOMAIN rooms = Channel
<1>1. rooms[k] = IF channel[k] = NULL THEN NULL
                 ELSE [name |-> channel[k].name, modes |-> ToSet(channel[k].modes),
                       listed |-> Contains(channels, k)]
  BY DEF rooms
<1>2. channel[k] # NULL => channel[k].name \in Name /\ channel[k].modes \in Seq(Mode)
  BY DEF ContextInv, HeapTypes, chirc_channel_t
<1>3. Contains(channels, k) = InTable(channels, k) /\ Contains(channels, k) \in BOOLEAN
  <2>1. Contains(channels, k) <=> InTable(channels, k)
    BY ContainsHas DEF ContextInv, ListsOK
  <2>2. Contains(channels, k) \in BOOLEAN /\ InTable(channels, k) \in BOOLEAN
    BY DEF Contains, InTable
  <2>3. QED
    BY <2>1, <2>2
<1>4. channel[k] # NULL => ToSet(channel[k].modes) \in SUBSET Mode
  BY <1>2 DEF ToSet
<1>5. DOMAIN rooms = Channel
  BY DEF rooms
<1>6. CASE channel[k] = NULL
  BY <1>1, <1>5, <1>6
<1>7. CASE channel[k] # NULL
  <2>1. rooms[k] \in [name : Name, modes : SUBSET Mode, listed : BOOLEAN]
    BY <1>1, <1>2, <1>3, <1>4, <1>7
  <2>2. rooms[k] # NULL
    BY <2>1, DirectoryAssumption
  <2>3. QED
    BY <1>1, <1>3, <1>5, <1>7, <2>2
<1>8. QED
  BY <1>6, <1>7

LEMMA MemberFacts ==
    ASSUME ContextInv, NEW p \in Channel \X User
    PROVE  /\ members[p] = NULL <=> p \notin Members
           /\ p \in Members => members[p] = ToSet(channeluser[p]) /\ channeluser[p] \in Seq(Mode)
           /\ DOMAIN members = Channel \X User
<1>1. members[p] = IF channeluser[p] = NULL THEN NULL ELSE ToSet(channeluser[p])
  BY DEF members
<1>2. p \in Members <=> channeluser[p] # NULL
  BY DEF Members
<1>3. p \in Members => channeluser[p] \in Seq(Mode)
  BY <1>2 DEF ContextInv, HeapTypes, chirc_channeluser_t
<1>4. p \in Members => ToSet(channeluser[p]) \in SUBSET Mode
  BY <1>3 DEF ToSet
<1>5. p \in Members => ToSet(channeluser[p]) # NULL
  BY <1>4, DirectoryAssumption
<1>6. DOMAIN members = Channel \X User
  BY DEF members
<1>7. QED
  BY <1>1, <1>2, <1>3, <1>5, <1>6

LEMMA ListedFacts ==
    ASSUME ContextInv
    PROVE  /\ \A u : u \in Abstract!Listed(people) <=> u \in User /\ InTable(users, u)
           /\ \A k : k \in Abstract!Listed(rooms) <=> k \in Channel /\ InTable(channels, k)
<1>1. \A u \in User : InTable(users, u) => user[u] # NULL
  BY DEF ContextInv, ListsOK
<1>2. \A k \in Channel : InTable(channels, k) => channel[k] # NULL
  BY DEF ContextInv, ListsOK
<1>3. \A u \in User : (people[u] # NULL /\ people[u].listed) <=> InTable(users, u)
  BY <1>1, PeopleFacts
<1>4. \A k \in Channel : (rooms[k] # NULL /\ rooms[k].listed) <=> InTable(channels, k)
  BY <1>2, RoomFacts
<1>5. DOMAIN people = User /\ DOMAIN rooms = Channel
  BY DEF people, rooms
<1>6. QED
  BY <1>3, <1>4, <1>5 DEF Abstract!Listed

LEMMA UserCounts ==
    ASSUME ContextInv
    PROVE  /\ chirc_ctx_numusers =
                  Cardinality({u \in Abstract!Listed(people) : people[u].registered})
           /\ chirc_ctx_numops =
                  Cardinality({u \in Abstract!Listed(people) : OPER \in people[u].modes})
<1>1. /\ users \in Seq(User) /\ Once(users)
      /\ \A i \in DOMAIN users :
             /\ users[i] \in User /\ InTable(users, users[i]) /\ user[users[i]] # NULL
             /\ user[users[i]].modes \in Seq(Mode)
  BY DEF ContextInv, ListsOK, HeapTypes, chirc_user_t, InTable
<1>2. \A u : u \in Abstract!Listed(people) <=> \E i \in DOMAIN users : users[i] = u
  BY <1>1, ListedFacts DEF InTable
<1>3. \A i \in DOMAIN users :
          /\ people[users[i]].registered = user[users[i]].registered
          /\ people[users[i]].modes = ToSet(user[users[i]].modes)
  BY <1>1, PeopleFacts
<1>4. chirc_ctx_numusers =
          Cardinality({u \in Abstract!Listed(people) : people[u].registered})
  <2> DEFINE I == {i \in DOMAIN users : user[users[i]].registered}
             T == {u \in Abstract!Listed(people) : people[u].registered}
  <2>1. \A u : u \in T <=> \E i \in I : users[i] = u
    BY <1>2, <1>3
  <2>2. I \in SUBSET DOMAIN users
    OBVIOUS
  <2>3. chirc_ctx_numusers = Cardinality(I)
    BY DEF chirc_ctx_numusers, Count
  <2> HIDE DEF I, T
  <2>4. Cardinality(I) = Cardinality(T)
    BY <1>1, <2>1, <2>2, CountItems
  <2>5. QED
    BY <2>3, <2>4 DEF T
<1>5. chirc_ctx_numops =
          Cardinality({u \in Abstract!Listed(people) : OPER \in people[u].modes})
  <2> DEFINE I == {i \in DOMAIN users : chirc_user_is_oper(users[i])}
             T == {u \in Abstract!Listed(people) : OPER \in people[u].modes}
  <2>1. \A i \in DOMAIN users : chirc_user_is_oper(users[i]) <=> OPER \in people[users[i]].modes
    BY <1>1, <1>3, ContainsHas DEF chirc_user_is_oper, has_mode
  <2>2. \A u : u \in T <=> \E i \in I : users[i] = u
    BY <1>2, <2>1
  <2>3. I \in SUBSET DOMAIN users
    OBVIOUS
  <2>4. chirc_ctx_numops = Cardinality(I)
    BY DEF chirc_ctx_numops, Count
  <2> HIDE DEF I, T
  <2>5. Cardinality(I) = Cardinality(T)
    BY <1>1, <2>2, <2>3, CountItems
  <2>6. QED
    BY <2>4, <2>5 DEF T
<1>6. QED
  BY <1>4, <1>5

LEMMA ChannelCount ==
    ASSUME ContextInv
    PROVE  chirc_ctx_numchannels = Cardinality(Abstract!Listed(rooms))
<1>1. channels \in Seq(Channel) /\ Once(channels) /\ \A i \in DOMAIN channels : channels[i] \in Channel
  BY DEF ContextInv, ListsOK
<1>2. \A k : k \in Abstract!Listed(rooms) <=> \E i \in DOMAIN channels : channels[i] = k
  BY <1>1, ListedFacts DEF InTable
<1>3. Cardinality(DOMAIN channels) = Cardinality(Abstract!Listed(rooms))
  BY <1>1, <1>2, CountItems
<1>4. Len(channels) = Cardinality(DOMAIN channels)
  BY <1>1, FullCount
<1>5. QED
  BY <1>3, <1>4 DEF chirc_ctx_numchannels

LEMMA UnknownCount ==
    ASSUME Connections(connections)
    PROVE  chirc_ctx_unknown_connections = Cardinality({s \in Socket : open[s] = "unknown"})
<1> DEFINE I == {i \in DOMAIN connections : connections[i].type = "unknown"}
           T == {s \in Socket : open[s] = "unknown"}
<1>1. PICK n : n = Len(connections)
  OBVIOUS
<1>2. /\ n \in Nat /\ DOMAIN connections = 1..n
      /\ \A i \in DOMAIN connections : connections[i].socket \in Socket
  <2>1. connections \in Seq(chirc_connection_t)
    BY DEF Connections
  <2>2. /\ n \in Nat /\ DOMAIN connections = 1..n
        /\ \A i \in DOMAIN connections : connections[i] \in chirc_connection_t
    BY <1>1, <2>1
  <2>3. QED
    BY <2>2 DEF chirc_connection_t
<1>3. \A i \in DOMAIN connections : open[connections[i].socket] = connections[i].type
  BY <1>2, FoundConnection DEF open
<1>4. \A s \in Socket : open[s] = "unknown" =>
          \E i \in DOMAIN connections : connections[i].socket = s
  <2> SUFFICES ASSUME NEW s \in Socket, \A i \in DOMAIN connections : connections[i].socket # s
               PROVE  open[s] # "unknown"
    OBVIOUS
  <2>1. TypeIn(connections, s) = NULL
    BY FoundConnection
  <2>2. open[s] = NULL
    BY <2>1 DEF open
  <2>3. QED
    BY <2>2, DirectoryAssumption
<1>5. PICK f : f = [i \in I |-> connections[i].socket]
  OBVIOUS
<1>6. f \in [I -> T]
  BY <1>2, <1>3, <1>5
<1>7. \A i, j \in I : f[i] = f[j] => i = j
  BY <1>5 DEF Connections
<1>8. \A s \in T : \E i \in I : f[i] = s
  BY <1>3, <1>4, <1>5
<1>9. I \in SUBSET (1..n)
  BY <1>2
<1>10. chirc_ctx_unknown_connections = Cardinality(I)
  BY DEF chirc_ctx_unknown_connections, Count
<1> HIDE DEF I, T
<1>11. Cardinality(I) = Cardinality(T)
  BY <1>2, <1>6, <1>7, <1>8, <1>9, CountImage
<1>12. QED
  BY <1>10, <1>11 DEF T

LEMMA InCount ==
    ASSUME ContextInv, NEW k \in Channel
    PROVE  (IF channel[k] = NULL THEN 0 ELSE chirc_channel_num_users(k)) = Cardinality(Abstract!In(k))
<1>0. \A u \in User : u \in Abstract!In(k) <=> <<k, u>> \in Members
  BY MemberFacts DEF Abstract!In
<1>1. CASE channel[k] = NULL
  <2>1. \A u \in User : <<k, u>> \notin Members
    BY <1>1 DEF ContextInv, MembersOK
  <2>2. Abstract!In(k) = {}
    BY <1>0, <2>1 DEF Abstract!In
  <2>3. QED
    BY <1>1, <2>2, FS_EmptySet
<1>2. CASE channel[k] # NULL
  <2>1. PICK s : s = channel[k].users
    OBVIOUS
  <2>2. /\ s \in Seq(Channel \X User) /\ Once(s)
        /\ \A p \in Channel \X User : InTable(s, p) <=> p \in Members /\ p[1] = k
    BY <1>2, <2>1 DEF ContextInv, HeapTypes, MembersOK, ChannelPlaces, chirc_channel_t
  <2>3. PICK n : n = Len(s)
    OBVIOUS
  <2>4. n \in Nat /\ DOMAIN s = 1..n /\ n = Cardinality(1..n)
    BY <2>2, <2>3, FullCount
  <2>5. \A i \in 1..n : s[i] \in Members /\ s[i] = <<k, s[i][2]>> /\ s[i][2] \in User
    <3> TAKE i \in 1..n
    <3>1. s[i] \in Channel \X User /\ InTable(s, s[i])
      BY <2>2, <2>4, SMTT(30) DEF InTable
    <3>2. s[i] \in Members /\ s[i][1] = k
      BY <2>2, <3>1
    <3>3. QED
      BY <3>1, <3>2
  <2>6. PICK f : f = [i \in 1..n |-> s[i][2]]
    OBVIOUS
  <2>7. f \in [1..n -> Abstract!In(k)]
    BY <1>0, <2>5, <2>6
  <2>8. \A i, j \in 1..n : f[i] = f[j] => i = j
    <3> SUFFICES ASSUME NEW i \in 1..n, NEW j \in 1..n, f[i] = f[j] PROVE i = j
      OBVIOUS
    <3>1. s[i][2] = s[j][2]
      BY <2>6
    <3>2. s[i] = s[j]
      BY <2>5, <3>1
    <3>3. QED
      BY <2>2, <2>4, <3>2 DEF Once
  <2>9. \A u \in Abstract!In(k) : \E i \in 1..n : f[i] = u
    <3> TAKE u \in Abstract!In(k)
    <3>1. u \in User
      BY DEF Abstract!In
    <3>2. PICK p : p = <<k, u>>
      OBVIOUS
    <3>3. p \in Channel \X User /\ p \in Members /\ p[1] = k /\ p[2] = u
      BY <1>0, <3>1, <3>2
    <3>4. PICK i \in 1..n : s[i] = p
      BY <2>2, <2>4, <3>3 DEF InTable
    <3>5. QED
      BY <2>6, <3>3, <3>4
  <2>10. Cardinality(1..n) = Cardinality(Abstract!In(k))
    <3>1. PICK T, I : T = Abstract!In(k) /\ I = 1..n
      OBVIOUS
    <3>2. n \in Nat /\ I \in SUBSET (1..n) /\ f \in [I -> T]
      BY <2>4, <2>7, <3>1
    <3>3. \A i, j \in I : f[i] = f[j] => i = j
      BY <2>8, <3>1
    <3>4. \A y \in T : \E i \in I : f[i] = y
      BY <2>9, <3>1
    <3>5. Cardinality(I) = Cardinality(T)
      BY <3>2, <3>3, <3>4, CountImage
    <3>6. QED
      BY <3>1, <3>5
  <2>11. QED
    BY <1>2, <2>1, <2>3, <2>4, <2>10 DEF chirc_channel_num_users
<1>3. QED
  BY <1>1, <1>2

LEMMA OfCount ==
    ASSUME ContextInv, NEW u \in User
    PROVE  (IF user[u] = NULL THEN 0 ELSE chirc_user_num_channels(u)) = Cardinality(Abstract!Of(u))
<1>0. \A k \in Channel : k \in Abstract!Of(u) <=> <<k, u>> \in Members
  BY MemberFacts DEF Abstract!Of
<1>1. CASE user[u] = NULL
  <2>1. \A k \in Channel : <<k, u>> \notin Members
    BY <1>1 DEF ContextInv, MembersOK
  <2>2. Abstract!Of(u) = {}
    BY <1>0, <2>1 DEF Abstract!Of
  <2>3. QED
    BY <1>1, <2>2, FS_EmptySet
<1>2. CASE user[u] # NULL
  <2>1. PICK s : s = user[u].channels
    OBVIOUS
  <2>2. /\ s \in Seq(Channel \X User) /\ Once(s)
        /\ \A p \in Channel \X User : InTable(s, p) <=> p \in Members /\ p[2] = u
    BY <1>2, <2>1 DEF ContextInv, HeapTypes, MembersOK, UserPlaces, chirc_user_t
  <2>3. PICK n : n = Len(s)
    OBVIOUS
  <2>4. n \in Nat /\ DOMAIN s = 1..n /\ n = Cardinality(1..n)
    BY <2>2, <2>3, FullCount
  <2>5. \A i \in 1..n : s[i] \in Members /\ s[i] = <<s[i][1], u>> /\ s[i][1] \in Channel
    <3> TAKE i \in 1..n
    <3>1. s[i] \in Channel \X User
      BY <2>2, <2>4
    <3>2. InTable(s, s[i])
      BY <2>4 DEF InTable
    <3>3. s[i] \in Members /\ s[i][2] = u
      BY <2>2, <3>1, <3>2
    <3>4. QED
      BY <3>1, <3>3
  <2>6. PICK f : f = [i \in 1..n |-> s[i][1]]
    OBVIOUS
  <2>7. f \in [1..n -> Abstract!Of(u)]
    BY <1>0, <2>5, <2>6
  <2>8. \A i, j \in 1..n : f[i] = f[j] => i = j
    <3> SUFFICES ASSUME NEW i \in 1..n, NEW j \in 1..n, f[i] = f[j] PROVE i = j
      OBVIOUS
    <3>1. s[i][1] = s[j][1]
      BY <2>6
    <3>2. s[i] = s[j]
      BY <2>5, <3>1
    <3>3. QED
      BY <2>2, <2>4, <3>2 DEF Once
  <2>9. \A k \in Abstract!Of(u) : \E i \in 1..n : f[i] = k
    <3> TAKE k \in Abstract!Of(u)
    <3>1. k \in Channel
      BY DEF Abstract!Of
    <3>2. PICK p : p = <<k, u>>
      OBVIOUS
    <3>3. p \in Channel \X User /\ p \in Members /\ p[1] = k /\ p[2] = u
      BY <1>0, <3>1, <3>2
    <3>4. PICK i \in 1..n : s[i] = p
      BY <2>2, <2>4, <3>3 DEF InTable
    <3>5. QED
      BY <2>6, <3>3, <3>4
  <2>10. Cardinality(1..n) = Cardinality(Abstract!Of(u))
    <3>1. PICK T, I : T = Abstract!Of(u) /\ I = 1..n
      OBVIOUS
    <3>2. n \in Nat /\ I \in SUBSET (1..n) /\ f \in [I -> T]
      BY <2>4, <2>7, <3>1
    <3>3. \A i, j \in I : f[i] = f[j] => i = j
      BY <2>8, <3>1
    <3>4. \A y \in T : \E i \in I : f[i] = y
      BY <2>9, <3>1
    <3>5. Cardinality(I) = Cardinality(T)
      BY <3>2, <3>3, <3>4, CountImage
    <3>6. QED
      BY <3>1, <3>5
  <2>11. QED
    BY <1>2, <2>1, <2>3, <2>4, <2>10 DEF chirc_user_num_channels
<1>3. QED
  BY <1>1, <1>2

LEMMA CountsRight == DirectoryInv => counts = Abstract!Tally
<1> SUFFICES ASSUME DirectoryInv PROVE counts = Abstract!Tally
  OBVIOUS
<1>0. ContextInv /\ Connections(connections)
  BY DEF DirectoryInv
<1>1. [k \in Channel |-> IF channel[k] = NULL THEN 0 ELSE chirc_channel_num_users(k)]
      = [k \in Channel |-> Cardinality(Abstract!In(k))]
  BY <1>0, InCount
<1>2. [u \in User |-> IF user[u] = NULL THEN 0 ELSE chirc_user_num_channels(u)]
      = [u \in User |-> Cardinality(Abstract!Of(u))]
  BY <1>0, OfCount
<1>3. /\ chirc_ctx_numusers = Cardinality({u \in Abstract!Listed(people) : people[u].registered})
      /\ chirc_ctx_numops = Cardinality({u \in Abstract!Listed(people) : OPER \in people[u].modes})
      /\ chirc_ctx_numchannels = Cardinality(Abstract!Listed(rooms))
      /\ chirc_ctx_unknown_connections = Cardinality({s \in Socket : open[s] = "unknown"})
  BY <1>0, UserCounts, ChannelCount, UnknownCount
<1>4. QED
  BY <1>1, <1>2, <1>3, SameCardinality, Zenon DEF counts, Abstract!Tally

-----------------------------------------------------------------------------
(* The additional invariants are kept *)

LEMMA ModesKept == ASSUME DirectoryInv, [Next]_vars PROVE ModesOK'
<1>0. ModesOK /\ HeapTypes
  BY DEF DirectoryInv, ContextInv
<1>1. CASE UNCHANGED heap
  BY <1>0, <1>1, ModesStay DEF heap
<1>2. ASSUME NEW u \in User, NEW n \in Nick, AddUser(u, n) PROVE ModesOK'
  <2>1. PICK r : r = [chirc_user_init EXCEPT !.nick = n]
    OBVIOUS
  <2>2. r.modes = <<>> /\ Once(r.modes)
    BY <2>1, EmptyOnce DEF chirc_user_init
  <2>3. user' = [user EXCEPT ![u] = r] /\ channel' = channel /\ channeluser' = channeluser
    BY <1>2, <2>1 DEF AddUser, chirc_ctx_add_user
  <2>4. \A v \in User : user'[v] = user[v] \/ Once(user'[v].modes)
    BY <1>0, <2>2, <2>3 DEF HeapTypes
  <2>5. QED
    BY <1>0, <2>3, <2>4, ModesStay
<1>3. ASSUME NEW u \in User, FreeUser(u) PROVE ModesOK'
  <2>1. CASE Abort
    BY <1>1, <2>1 DEF Abort
  <2>2. CASE user' = [user EXCEPT ![u] = NULL] /\ channel' = channel /\ channeluser' = channeluser
    <3>1. \A v \in User : user'[v] = user[v] \/ user'[v] = NULL
      BY <1>0, <2>2 DEF HeapTypes
    <3>2. QED
      BY <1>0, <2>2, <3>1, ModesStay
  <2>3. QED
    BY <1>3, <2>1, <2>2 DEF FreeUser
<1>4. ASSUME NEW u \in User, Register(u) PROVE ModesOK'
  <2>1. user' = [user EXCEPT ![u].registered = TRUE] /\ channel' = channel /\ channeluser' = channeluser
    BY <1>4 DEF Register
  <2>2. InTable(users, u) /\ user[u] # NULL
    BY <1>4, ContainsHas DEF Register, DirectoryInv, ContextInv, ListsOK
  <2>3. \A v \in User : user'[v] # NULL => user[v] # NULL /\ user'[v].modes = user[v].modes
    BY <1>0, <2>1, <2>2 DEF HeapTypes, chirc_user_t
  <2>4. QED
    BY <1>0, <2>1, <2>3, ModesStay
<1>5. ASSUME NEW k \in Channel, NEW n \in Name, AddChannel(k, n) PROVE ModesOK'
  <2>1. PICK r : r = [chirc_channel_init EXCEPT !.name = n]
    OBVIOUS
  <2>2. r.modes = <<>> /\ Once(r.modes)
    BY <2>1, EmptyOnce DEF chirc_channel_init
  <2>3. channel' = [channel EXCEPT ![k] = r] /\ user' = user /\ channeluser' = channeluser
    BY <1>5, <2>1 DEF AddChannel, chirc_ctx_add_channel
  <2>4. \A l \in Channel : channel'[l] = channel[l] \/ Once(channel'[l].modes)
    BY <1>0, <2>2, <2>3 DEF HeapTypes
  <2>5. QED
    BY <1>0, <2>3, <2>4, ModesStay
<1>6. ASSUME NEW k \in Channel, FreeChannel(k) PROVE ModesOK'
  <2>1. CASE Abort
    BY <1>1, <2>1 DEF Abort
  <2>2. CASE channel' = [channel EXCEPT ![k] = NULL] /\ user' = user /\ channeluser' = channeluser
    <3>1. \A l \in Channel : channel'[l] = channel[l] \/ channel'[l] = NULL
      BY <1>0, <2>2 DEF HeapTypes
    <3>2. QED
      BY <1>0, <2>2, <3>1, ModesStay
  <2>3. QED
    BY <1>6, <2>1, <2>2 DEF FreeChannel
<1>7. ASSUME NEW k \in Channel, NEW u \in User, chirc_channeluser_get_or_create(k, u)
      PROVE  ModesOK'
  <2>1. CASE channeluser' = [channeluser EXCEPT ![<<k, u>>] = <<>>]
             /\ user' = [user EXCEPT ![u].channels = Append(@, <<k, u>>)]
             /\ channel' = [channel EXCEPT ![k].users = Append(@, <<k, u>>)]
    <3>1. user[u] # NULL /\ channel[k] # NULL
      BY <1>7, ContainsHas DEF chirc_channeluser_get_or_create, DirectoryInv, ContextInv, ListsOK
    <3>2. \A v \in User : user'[v] # NULL => user[v] # NULL /\ user'[v].modes = user[v].modes
      BY <1>0, <2>1, <3>1 DEF HeapTypes, chirc_user_t
    <3>3. \A l \in Channel :
              channel'[l] # NULL => channel[l] # NULL /\ channel'[l].modes = channel[l].modes
      BY <1>0, <2>1, <3>1 DEF HeapTypes, chirc_channel_t
    <3>4. \A p \in Channel \X User : channeluser'[p] = channeluser[p] \/ Once(channeluser'[p])
      BY <1>0, <2>1, EmptyOnce DEF HeapTypes
    <3>5. QED
      BY <1>0, <3>2, <3>3, <3>4, ModesStay
  <2>2. QED
    BY <1>1, <1>7, <2>1 DEF chirc_channeluser_get_or_create
<1>8. ASSUME NEW k \in Channel, NEW u \in User, Leave(k, u) PROVE ModesOK'
  <2>1. /\ channeluser' = [channeluser EXCEPT ![<<k, u>>] = NULL]
        /\ channel' = [channel EXCEPT ![k].users = HASH_DELETE(@, <<k, u>>)]
        /\ user' = [user EXCEPT ![u].channels = HASH_DELETE(@, <<k, u>>)]
        /\ channeluser[<<k, u>>] # NULL
    BY <1>8 DEF Leave, chirc_channeluser_remove
  <2>2. user[u] # NULL /\ channel[k] # NULL
    <3>1. PICK p : p = <<k, u>>
      OBVIOUS
    <3>2. p \in Members /\ p[1] = k /\ p[2] = u
      BY <2>1, <3>1 DEF Members
    <3>3. QED
      BY <3>2 DEF DirectoryInv, ContextInv, MembersOK
  <2>3. \A v \in User : user'[v] # NULL => user[v] # NULL /\ user'[v].modes = user[v].modes
    BY <1>0, <2>1, <2>2 DEF HeapTypes, chirc_user_t
  <2>4. \A l \in Channel :
            channel'[l] # NULL => channel[l] # NULL /\ channel'[l].modes = channel[l].modes
    BY <1>0, <2>1, <2>2 DEF HeapTypes, chirc_channel_t
  <2>5. \A p \in Channel \X User : channeluser'[p] = channeluser[p] \/ channeluser'[p] = NULL
    BY <1>0, <2>1 DEF HeapTypes
  <2>6. QED
    BY <1>0, <2>3, <2>4, <2>5, ModesStay
<1>9. ASSUME NEW m \in Mode, SetMode(m) \/ RemoveMode(m) PROVE ModesOK'
  <2>1. ASSUME NEW u \in UserPlaces, UNCHANGED <<channel, channeluser>>,
               NEW s, s \in {set_mode(user[u].modes, m), remove_mode(user[u].modes, m)},
               user' = [user EXCEPT ![u].modes = s]
        PROVE  ModesOK'
    <3>1. user[u].modes \in Seq(Mode) /\ Once(user[u].modes) /\ u \in User
      BY <1>0 DEF HeapTypes, ModesOK, UserPlaces, chirc_user_t
    <3>2. Once(s)
      BY <2>1, <3>1, ModesAsSets
    <3>3. \A v \in User : user'[v] = user[v] \/ Once(user'[v].modes)
      BY <1>0, <2>1, <3>1, <3>2 DEF HeapTypes, UserPlaces, chirc_user_t
    <3>4. QED
      BY <1>0, <2>1, <3>3, ModesStay
  <2>2. ASSUME NEW k \in ChannelPlaces, UNCHANGED <<user, channeluser>>,
               NEW s, s \in {set_mode(channel[k].modes, m), remove_mode(channel[k].modes, m)},
               channel' = [channel EXCEPT ![k].modes = s]
        PROVE  ModesOK'
    <3>1. channel[k].modes \in Seq(Mode) /\ Once(channel[k].modes) /\ k \in Channel
      BY <1>0 DEF HeapTypes, ModesOK, ChannelPlaces, chirc_channel_t
    <3>2. Once(s)
      BY <2>2, <3>1, ModesAsSets
    <3>3. \A l \in Channel : channel'[l] = channel[l] \/ Once(channel'[l].modes)
      BY <1>0, <2>2, <3>1, <3>2 DEF HeapTypes, ChannelPlaces, chirc_channel_t
    <3>4. QED
      BY <1>0, <2>2, <3>3, ModesStay
  <2>3. ASSUME NEW p \in Members, UNCHANGED <<user, channel>>,
               NEW s, s \in {set_mode(channeluser[p], m), remove_mode(channeluser[p], m)},
               channeluser' = [channeluser EXCEPT ![p] = s]
        PROVE  ModesOK'
    <3>1. channeluser[p] \in Seq(Mode) /\ Once(channeluser[p]) /\ p \in Channel \X User
      BY <1>0 DEF HeapTypes, ModesOK, Members, chirc_channeluser_t
    <3>2. Once(s)
      BY <2>3, <3>1, ModesAsSets
    <3>3. \A q \in Channel \X User : channeluser'[q] = channeluser[q] \/ Once(channeluser'[q])
      BY <1>0, <2>3, <3>1, <3>2 DEF HeapTypes
    <3>4. QED
      BY <1>0, <2>3, <3>3, ModesStay
  <2>4. CASE SetMode(m)
    BY <2>1, <2>2, <2>3, <2>4 DEF SetMode
  <2>5. CASE RemoveMode(m)
    BY <2>1, <2>2, <2>3, <2>5 DEF RemoveMode
  <2>6. QED
    BY <1>9, <2>4, <2>5
<1>10. CASE UNCHANGED vars
  BY <1>1, <1>10 DEF vars, heap
<1>11. CASE Start \/ chirc_ctx_free
  BY <1>1, <1>11 DEF Start, chirc_ctx_free, Abort
<1>12. ASSUME NEW u \in User, RemoveUser(u) PROVE ModesOK'
  BY <1>1, <1>12 DEF RemoveUser
<1>13. ASSUME NEW k \in Channel, RemoveChannel(k) PROVE ModesOK'
  BY <1>1, <1>13 DEF RemoveChannel
<1>14. ASSUME NEW s \in Socket, AddConnection(s) PROVE ModesOK'
  BY <1>1, <1>14 DEF AddConnection
<1>15. ASSUME NEW i \in DOMAIN connections, RemoveConnection(i) \/ Identify(i) PROVE ModesOK'
  BY <1>1, <1>15 DEF RemoveConnection, Identify
<1>16. QED
  BY <1>2, <1>3, <1>4, <1>5, <1>6, <1>7, <1>8, <1>9, <1>10, <1>11, <1>12, <1>13, <1>14, <1>15
     DEF Next

\* The items of a table of connections, without their places.
LEMMA ConnectionItems ==
    ASSUME NEW table \in Seq(chirc_connection_t)
    PROVE  Connections(table) <=>
               /\ Once(table)
               /\ \A c, d : InTable(table, c) /\ InTable(table, d) /\ c.socket = d.socket => c = d
<1>1. ASSUME Connections(table)
      PROVE  /\ Once(table)
             /\ \A c, d : InTable(table, c) /\ InTable(table, d) /\ c.socket = d.socket => c = d
  BY <1>1 DEF Connections, Once, InTable
<1>2. ASSUME Once(table), \A c, d : InTable(table, c) /\ InTable(table, d) /\ c.socket = d.socket => c = d
      PROVE  Connections(table)
  BY <1>2 DEF Connections, Once, InTable
<1>3. QED
  BY <1>1, <1>2

LEMMA TypeOfItem ==
    ASSUME NEW table, Connections(table)
    PROVE  /\ \A c : InTable(table, c) => TypeIn(table, c.socket) = c.type
           /\ \A s : (\A c : InTable(table, c) => c.socket # s) => TypeIn(table, s) = NULL
<1>1. \A c : InTable(table, c) => TypeIn(table, c.socket) = c.type
  BY FoundConnection DEF InTable
<1>2. \A s : (\A c : InTable(table, c) => c.socket # s) => TypeIn(table, s) = NULL
  <2> SUFFICES ASSUME NEW s, \A c : InTable(table, c) => c.socket # s PROVE TypeIn(table, s) = NULL
    OBVIOUS
  <2>1. \A i \in DOMAIN table : table[i].socket # s
    BY DEF InTable
  <2>2. QED
    BY <2>1, FoundConnection
<1>3. QED
  BY <1>1, <1>2

\* What the four functions do to the table: a connection more, one less, one of another
\* type, none.
\* In t, s is the socket of a connection of type r, or of none when r is NULL; for other
\* sockets t is like table.
Retyped(table, t, s, r) ==
    Connections(t) /\ TypeIn(t, s) = r /\ \A x \in Socket \ {s} : TypeIn(t, x) = TypeIn(table, x)

LEMMA AddedConnection ==
    ASSUME NEW table, Connections(table), NEW s \in Socket,
           Found(table, LAMBDA x : x.socket = s) = NULL,
           NEW t, t = Append(table, [chirc_connection_init EXCEPT !.socket = s])
    PROVE  TypeIn(table, s) = NULL /\ Retyped(table, t, s, "unknown")
<1>1. PICK c : c = [chirc_connection_init EXCEPT !.socket = s]
  OBVIOUS
<1>2. c \in chirc_connection_t /\ c.type = "unknown" /\ c.socket = s /\ t = Append(table, c)
  BY <1>1 DEF chirc_connection_init, chirc_connection_t
<1>3. table \in Seq(chirc_connection_t)
  BY DEF Connections
<1>4. \A i \in DOMAIN table : table[i].socket # s
  <2> SUFFICES ASSUME NEW i \in DOMAIN table, table[i].socket = s PROVE FALSE
    OBVIOUS
  <2>1. table[i].type \in {"unknown", "user", "server"}
    <3>1. table[i] \in chirc_connection_t
      BY <1>3
    <3>2. QED
      BY <3>1 DEF chirc_connection_t
  <2>2. TypeIn(table, s) = NULL
    BY DEF TypeIn
  <2>3. TypeIn(table, s) = table[i].type
    BY FoundConnection
  <2>4. QED
    BY <2>1, <2>2, <2>3, DirectoryAssumption
<1>5. \A d : InTable(table, d) => d.socket # s
  BY <1>4 DEF InTable
<1>6. /\ t \in Seq(chirc_connection_t) /\ Once(t)
      /\ \A y : InTable(t, y) <=> InTable(table, y) \/ y = c
  <2>1. Once(table) /\ ~InTable(table, c)
    BY <1>2, <1>3, <1>5, ConnectionItems
  <2>2. QED
    BY <1>2, <1>3, <2>1, AppendOnce
<1>7. Connections(t)
  <2>1. \A d, e : InTable(table, d) /\ InTable(table, e) /\ d.socket = e.socket => d = e
    BY <1>3, ConnectionItems
  <2>2. \A d, e : InTable(t, d) /\ InTable(t, e) /\ d.socket = e.socket => d = e
    BY <1>2, <1>5, <1>6, <2>1
  <2>3. QED
    BY <1>6, <2>2, ConnectionItems
<1>8. TypeIn(table, s) = NULL /\ TypeIn(t, s) = "unknown"
  BY <1>2, <1>5, <1>6, <1>7, TypeOfItem
<1>9. ASSUME NEW x \in Socket \ {s} PROVE TypeIn(t, x) = TypeIn(table, x)
  <2>1. CASE \E d : InTable(table, d) /\ d.socket = x
    BY <1>6, <1>7, <2>1, TypeOfItem
  <2>2. CASE ~(\E d : InTable(table, d) /\ d.socket = x)
    <3>1. \A d : InTable(t, d) => d.socket # x
      BY <1>2, <1>6, <1>9, <2>2
    <3>2. TypeIn(t, x) = NULL
      BY <1>7, <3>1, TypeOfItem
    <3>3. TypeIn(table, x) = NULL
      BY <2>2, TypeOfItem
    <3>4. QED
      BY <3>2, <3>3
  <2>3. QED
    BY <2>1, <2>2
<1>10. QED
  BY <1>7, <1>8, <1>9 DEF Retyped

LEMMA RemovedConnection ==
    ASSUME NEW table, Connections(table), NEW i \in DOMAIN table, NEW t, t = RemoveAt(table, i)
    PROVE  Retyped(table, t, table[i].socket, NULL)
<1>1. table \in Seq(chirc_connection_t) /\ Once(table)
  BY ConnectionItems DEF Connections
<1>2. PICK c : c = table[i]
  OBVIOUS
<1>3. i = CHOOSE j \in DOMAIN table : table[j] = c
  BY <1>1, <1>2 DEF Once
<1>4. t = HASH_DELETE(table, c) /\ InTable(table, c)
  BY <1>2, <1>3 DEF HASH_DELETE, InTable
<1>5. /\ t \in Seq(chirc_connection_t) /\ Once(t)
      /\ \A y : InTable(t, y) <=> InTable(table, y) /\ y # c
  BY <1>1, <1>4, DeleteOnce
<1>6. \A d, e : InTable(table, d) /\ InTable(table, e) /\ d.socket = e.socket => d = e
  BY <1>1, ConnectionItems
<1>7. Connections(t)
  BY <1>5, <1>6, ConnectionItems
<1>8. TypeIn(t, c.socket) = NULL
  BY <1>4, <1>5, <1>6, <1>7, TypeOfItem
<1>9. ASSUME NEW x \in Socket \ {c.socket} PROVE TypeIn(t, x) = TypeIn(table, x)
  <2>1. CASE \E d : InTable(table, d) /\ d.socket = x
    BY <1>5, <1>7, <1>9, <2>1, TypeOfItem
  <2>2. CASE ~(\E d : InTable(table, d) /\ d.socket = x)
    <3>1. TypeIn(t, x) = NULL
      BY <1>5, <1>7, <2>2, TypeOfItem
    <3>2. TypeIn(table, x) = NULL
      BY <2>2, TypeOfItem
    <3>3. QED
      BY <3>1, <3>2
  <2>3. QED
    BY <2>1, <2>2
<1>10. QED
  BY <1>2, <1>7, <1>8, <1>9 DEF Retyped

LEMMA IdentifiedConnection ==
    ASSUME NEW table, Connections(table), NEW i \in DOMAIN table, NEW r \in {"user", "server"},
           NEW t, t = [table EXCEPT ![i].type = r]
    PROVE  Retyped(table, t, table[i].socket, r)
<1>1. table \in Seq(chirc_connection_t) /\ \A j \in DOMAIN table : table[j] \in chirc_connection_t
  BY DEF Connections
<1>2. PICK c : c = [table[i] EXCEPT !.type = r]
  OBVIOUS
<1>3. c \in chirc_connection_t /\ c.socket = table[i].socket /\ c.type = r
  BY <1>1, <1>2 DEF chirc_connection_t
<1>4. /\ t \in Seq(chirc_connection_t) /\ DOMAIN t = DOMAIN table
      /\ t[i] = c /\ \A j \in DOMAIN table \ {i} : t[j] = table[j]
  BY <1>1, <1>2, <1>3
<1>5. \A j \in DOMAIN table : t[j].socket = table[j].socket
  BY <1>3, <1>4
<1>6. Connections(t)
  BY <1>4, <1>5 DEF Connections
<1>7. TypeIn(t, table[i].socket) = r
  <2>1. i \in DOMAIN t /\ t[i].socket = table[i].socket /\ t[i].type = r
    BY <1>3, <1>4
  <2>2. TypeIn(t, t[i].socket) = t[i].type
    BY <1>6, <2>1, FoundConnection
  <2>3. QED
    BY <2>1, <2>2
<1>8. ASSUME NEW x \in Socket \ {table[i].socket} PROVE TypeIn(t, x) = TypeIn(table, x)
  <2>1. ASSUME NEW j \in DOMAIN table, table[j].socket = x PROVE TypeIn(t, x) = TypeIn(table, x)
    <3>1. t[j] = table[j] /\ j \in DOMAIN t
      BY <1>4, <1>8, <2>1
    <3>2. TypeIn(table, table[j].socket) = table[j].type
      BY FoundConnection
    <3>3. TypeIn(t, x) = t[j].type
      <4>1. j \in DOMAIN t /\ t[j].socket = x
        BY <2>1, <3>1
      <4>2. QED
        BY <1>6, <4>1, TypeOfItem DEF InTable
    <3>4. QED
      BY <2>1, <3>1, <3>2, <3>3
  <2>2. CASE \A j \in DOMAIN table : table[j].socket # x
    <3>1. \A j \in DOMAIN t : t[j].socket # x
      BY <1>4, <1>5, <2>2
    <3>2. TypeIn(t, x) = NULL /\ TypeIn(table, x) = NULL
      BY <1>6, <2>2, <3>1, FoundConnection
    <3>3. QED
      BY <3>2
  <2>3. QED
    BY <2>1, <2>2
<1>9. QED
  BY <1>6, <1>7, <1>8 DEF Retyped

LEMMA ClearedConnections ==
    ASSUME NEW t, t = <<>>
    PROVE  Connections(t) /\ \A s : TypeIn(t, s) = NULL
<1>1. t \in Seq(chirc_connection_t) /\ DOMAIN t = {}
  OBVIOUS
<1>2. Connections(t)
  BY <1>1 DEF Connections
<1>3. QED
  BY <1>1, <1>2, FoundConnection

LEMMA ConnectionsKept == ASSUME DirectoryInv, [Next]_vars PROVE Connections(connections')
<1>0. Connections(connections)
  BY DEF DirectoryInv
<1>1. CASE connections' = connections
  BY <1>0, <1>1
<1>2. CASE connections' = <<>>
  BY <1>2, ClearedConnections
<1>3. ASSUME NEW s \in Socket, AddConnection(s) PROVE Connections(connections')
  <2>1. PICK t : t = connections'
    OBVIOUS
  <2>2. Connections(t)
    BY <1>0, <1>3, <2>1, AddedConnection DEF AddConnection, Retyped
  <2>3. QED
    BY <2>1, <2>2
<1>4. ASSUME NEW i \in DOMAIN connections, RemoveConnection(i) PROVE Connections(connections')
  BY <1>0, <1>4, RemovedConnection DEF RemoveConnection, Retyped
<1>5. ASSUME NEW i \in DOMAIN connections, Identify(i) PROVE Connections(connections')
  <2>1. PICK r \in {"user", "server"} : connections' = [connections EXCEPT ![i].type = r]
    BY <1>5 DEF Identify
  <2>2. QED
    BY <1>0, <2>1, IdentifiedConnection DEF Retyped
<1>6. CASE UNCHANGED vars
  BY <1>1, <1>6 DEF vars, tables
<1>7. CASE Start
  BY <1>1, <1>7 DEF Start, tables
<1>8. CASE chirc_ctx_free
  BY <1>1, <1>2, <1>8 DEF chirc_ctx_free, Abort, tables
<1>9. ASSUME NEW u \in User, FreeUser(u) \/ Register(u) \/ RemoveUser(u)
      PROVE  Connections(connections')
  BY <1>1, <1>9 DEF FreeUser, Abort, Register, RemoveUser, tables
<1>10. ASSUME NEW k \in Channel, FreeChannel(k) \/ RemoveChannel(k)
       PROVE  Connections(connections')
  BY <1>1, <1>10 DEF FreeChannel, Abort, RemoveChannel, tables
<1>11. ASSUME NEW u \in User, NEW n \in Nick, AddUser(u, n) PROVE Connections(connections')
  BY <1>1, <1>11 DEF AddUser, chirc_ctx_add_user
<1>12. ASSUME NEW k \in Channel, NEW n \in Name, AddChannel(k, n) PROVE Connections(connections')
  BY <1>1, <1>12 DEF AddChannel, chirc_ctx_add_channel
<1>13. ASSUME NEW k \in Channel, NEW u \in User, chirc_channeluser_get_or_create(k, u) \/ Leave(k, u)
       PROVE  Connections(connections')
  BY <1>1, <1>13 DEF chirc_channeluser_get_or_create, Leave, tables
<1>14. ASSUME NEW m \in Mode, SetMode(m) \/ RemoveMode(m) PROVE Connections(connections')
  BY <1>1, <1>14 DEF SetMode, RemoveMode, tables
<1>15. QED
  BY <1>3, <1>4, <1>5, <1>6, <1>7, <1>8, <1>9, <1>10, <1>11, <1>12, <1>13, <1>14 DEF Next

LEMMA InitDirectory == Init => DirectoryInv
<1> SUFFICES ASSUME Init PROVE DirectoryInv
  OBVIOUS
<1>1. ContextInv
  BY InitInv
<1>2. ModesOK
  BY DEF Init, ModesOK, UserPlaces, ChannelPlaces, Members
<1>3. Connections(connections)
  BY ClearedConnections DEF Init
<1>4. QED
  BY <1>1, <1>2, <1>3 DEF DirectoryInv

LEMMA NextDirectory == DirectoryInv /\ [Next]_vars => DirectoryInv'
<1> SUFFICES ASSUME DirectoryInv, [Next]_vars PROVE DirectoryInv'
  OBVIOUS
<1>1. ContextInv'
  BY NextInv DEF DirectoryInv
<1>2. ModesOK'
  BY ModesKept
<1>3. Connections(connections')
  BY ConnectionsKept
<1>4. QED
  BY <1>1, <1>2, <1>3 DEF DirectoryInv

-----------------------------------------------------------------------------
(* How a step changes what Directory sees *)

\* What Directory sees of a struct that is in the list of the context or not.
PersonOf(s, b) ==
    IF s = NULL THEN NULL
    ELSE [nick |-> s.nick, registered |-> s.registered, modes |-> ToSet(s.modes), listed |-> b]

RoomOf(s, b) ==
    IF s = NULL THEN NULL ELSE [name |-> s.name, modes |-> ToSet(s.modes), listed |-> b]

LEMMA PersonAt == \A u \in User : people[u] = PersonOf(user[u], Contains(users, u))
  BY DEF people, PersonOf

LEMMA RoomAt == \A k \in Channel : rooms[k] = RoomOf(channel[k], Contains(channels, k))
  BY DEF rooms, RoomOf

LEMMA PersonFields ==
    ASSUME NEW s, s # NULL, NEW b, NEW x
    PROVE  [PersonOf(s, b) EXCEPT !.listed = x] = PersonOf(s, x)
<1>1. PersonOf(s, b)
      = [nick |-> s.nick, registered |-> s.registered, modes |-> ToSet(s.modes), listed |-> b]
  BY DEF PersonOf
<1>2. PersonOf(s, x)
      = [nick |-> s.nick, registered |-> s.registered, modes |-> ToSet(s.modes), listed |-> x]
  BY DEF PersonOf
<1>3. QED
  BY <1>1, <1>2

LEMMA RoomFields ==
    ASSUME NEW s, s # NULL, NEW b, NEW x
    PROVE  /\ RoomOf(s, b).modes = ToSet(s.modes)
           /\ [RoomOf(s, b) EXCEPT !.listed = x] = RoomOf(s, x)
           /\ [RoomOf(s, b) EXCEPT !.modes = x] = [name |-> s.name, modes |-> x, listed |-> b]
<1>1. RoomOf(s, b) = [name |-> s.name, modes |-> ToSet(s.modes), listed |-> b]
  BY DEF RoomOf
<1>2. RoomOf(s, x) = [name |-> s.name, modes |-> ToSet(s.modes), listed |-> x]
  BY DEF RoomOf
<1>3. QED
  BY <1>1, <1>2

LEMMA PeopleStay ==
    ASSUME \A u \in User : Contains(users', u) = Contains(users, u),
           \A u \in User :
               /\ user'[u] = NULL <=> user[u] = NULL
               /\ user[u] # NULL => /\ user'[u].nick = user[u].nick
                                    /\ user'[u].registered = user[u].registered
                                    /\ user'[u].modes = user[u].modes
    PROVE  people' = people
<1>1. \A u \in User : people'[u] = people[u]
  BY DEF people
<1>2. people' = [u \in User |-> people'[u]] /\ people = [u \in User |-> people[u]]
  BY DEF people
<1>3. QED
  BY <1>1, <1>2

LEMMA PeopleChange ==
    ASSUME NEW u \in User,
           \A v \in User \ {u} : user'[v] = user[v] /\ Contains(users', v) = Contains(users, v)
    PROVE  people' = [people EXCEPT ![u] = PersonOf(user'[u], Contains(users', u))]
<1>1. people'[u] = PersonOf(user'[u], Contains(users', u))
  BY DEF people, PersonOf
<1>2. \A v \in User \ {u} : people'[v] = people[v]
  BY DEF people
<1>3. people' = [v \in User |-> people'[v]] /\ people = [v \in User |-> people[v]]
  BY DEF people
<1>4. QED
  BY <1>1, <1>2, <1>3

LEMMA RoomsStay ==
    ASSUME \A k \in Channel : Contains(channels', k) = Contains(channels, k),
           \A k \in Channel :
               /\ channel'[k] = NULL <=> channel[k] = NULL
               /\ channel[k] # NULL => /\ channel'[k].name = channel[k].name
                                       /\ channel'[k].modes = channel[k].modes
    PROVE  rooms' = rooms
<1>1. \A k \in Channel : rooms'[k] = rooms[k]
  BY DEF rooms
<1>2. rooms' = [k \in Channel |-> rooms'[k]] /\ rooms = [k \in Channel |-> rooms[k]]
  BY DEF rooms
<1>3. QED
  BY <1>1, <1>2

LEMMA RoomsChange ==
    ASSUME NEW k \in Channel,
           \A l \in Channel \ {k} :
               channel'[l] = channel[l] /\ Contains(channels', l) = Contains(channels, l)
    PROVE  rooms' = [rooms EXCEPT ![k] = RoomOf(channel'[k], Contains(channels', k))]
<1>1. rooms'[k] = RoomOf(channel'[k], Contains(channels', k))
  BY DEF rooms, RoomOf
<1>2. \A l \in Channel \ {k} : rooms'[l] = rooms[l]
  BY DEF rooms
<1>3. rooms' = [l \in Channel |-> rooms'[l]] /\ rooms = [l \in Channel |-> rooms[l]]
  BY DEF rooms
<1>4. QED
  BY <1>1, <1>2, <1>3

LEMMA MembersChange ==
    ASSUME NEW p \in Channel \X User, NEW r,
           \A q \in (Channel \X User) \ {p} : channeluser'[q] = channeluser[q],
           r = IF channeluser'[p] = NULL THEN NULL ELSE ToSet(channeluser'[p])
    PROVE  members' = [members EXCEPT ![p] = r]
<1>1. members'[p] = r
  BY DEF members
<1>2. \A q \in (Channel \X User) \ {p} : members'[q] = members[q]
  BY DEF members
<1>3. members' = [q \in Channel \X User |-> members'[q]]
      /\ members = [q \in Channel \X User |-> members[q]]
  BY DEF members
<1>4. QED
  BY <1>1, <1>2, <1>3

LEMMA OpenChange ==
    ASSUME NEW s \in Socket, NEW r, Retyped(connections, connections', s, r)
    PROVE  open' = [open EXCEPT ![s] = r]
<1>1. open' = [x \in Socket |-> TypeIn(connections', x)] /\ open = [x \in Socket |-> TypeIn(connections, x)]
  BY DEF open
<1>2. TypeIn(connections', s) = r /\ \A x \in Socket \ {s} : TypeIn(connections', x) = TypeIn(connections, x)
  BY DEF Retyped
<1>3. QED
  BY <1>1, <1>2

LEMMA SameMembers == ASSUME channeluser' = channeluser PROVE members' = members
  BY DEF members

LEMMA SameOpen == ASSUME connections' = connections PROVE open' = open
  BY DEF open

LEMMA SamePeople == ASSUME user' = user, users' = users PROVE people' = people
  BY DEF people

LEMMA SameRooms == ASSUME channel' = channel, channels' = channels PROVE rooms' = rooms
  BY DEF rooms

LEMMA SameState ==
    ASSUME UNCHANGED startVars, phase = "running"
    PROVE  state = "up" /\ state' = state
  BY DEF startVars, state

\* A step of a running context that leaves it up counts right again.
LEMMA UpStep ==
    ASSUME DirectoryInv', state = "up"
    PROVE  Abstract!Up
<1>1. DirectoryInv' => (counts = Abstract!Tally)'
  BY CountsRight, PTL
<1>2. QED
  BY <1>1 DEF Abstract!Up

LEMMA Unseen ==
    ASSUME UNCHANGED <<users, channels, connections, heap>>, state' = state
    PROVE  UNCHANGED Abstract!vars
<1>1. /\ users' = users /\ channels' = channels /\ connections' = connections
      /\ user' = user /\ channel' = channel /\ channeluser' = channeluser
  BY DEF heap
<1>2. people' = people /\ rooms' = rooms /\ members' = members /\ open' = open
  BY <1>1, SamePeople, SameRooms, SameMembers, SameOpen
<1>3. /\ chirc_ctx_numusers' = chirc_ctx_numusers /\ chirc_ctx_numops' = chirc_ctx_numops
      /\ chirc_ctx_numchannels' = chirc_ctx_numchannels
      /\ chirc_ctx_unknown_connections' = chirc_ctx_unknown_connections
  BY <1>1 DEF chirc_ctx_numusers, chirc_ctx_numops, chirc_ctx_numchannels,
              chirc_ctx_unknown_connections, chirc_user_is_oper, Count
<1>4. [k \in Channel |-> IF channel[k] = NULL THEN 0 ELSE chirc_channel_num_users(k)]'
      = [k \in Channel |-> IF channel[k] = NULL THEN 0 ELSE chirc_channel_num_users(k)]
  BY <1>1 DEF chirc_channel_num_users
<1>5. [u \in User |-> IF user[u] = NULL THEN 0 ELSE chirc_user_num_channels(u)]'
      = [u \in User |-> IF user[u] = NULL THEN 0 ELSE chirc_user_num_channels(u)]
  BY <1>1 DEF chirc_user_num_channels
<1>6. counts' = counts
  BY <1>3, <1>4, <1>5 DEF counts
<1>7. QED
  BY <1>2, <1>6 DEF Abstract!vars

\* What the lists say of one place.
LEMMA ListFacts ==
    ASSUME ContextInv
    PROVE  /\ \A u : Contains(users, u) <=> InTable(users, u)
           /\ \A k : Contains(channels, k) <=> InTable(channels, k)
           /\ \A u : Contains(users, u) \in BOOLEAN
           /\ \A k : Contains(channels, k) \in BOOLEAN
           /\ \A u : InTable(users, u) => u \in User /\ user[u] # NULL
           /\ \A k : InTable(channels, k) => k \in Channel /\ channel[k] # NULL
<1>1. users \in Seq(User) /\ channels \in Seq(Channel)
  BY DEF ContextInv, ListsOK
<1>2. /\ \A u : Contains(users, u) <=> InTable(users, u)
      /\ \A k : Contains(channels, k) <=> InTable(channels, k)
  BY <1>1, ContainsHas
<1>3. (\A u : Contains(users, u) \in BOOLEAN) /\ \A k : Contains(channels, k) \in BOOLEAN
  BY DEF Contains
<1>4. /\ \A u : InTable(users, u) => u \in User /\ user[u] # NULL
      /\ \A k : InTable(channels, k) => k \in Channel /\ channel[k] # NULL
  BY <1>1 DEF ContextInv, ListsOK, InTable
<1>5. QED
  BY <1>2, <1>3, <1>4

LEMMA UserTypes ==
    ASSUME ContextInv, NEW u \in User, user[u] # NULL
    PROVE  /\ user[u] \in chirc_user_t /\ user \in [User -> chirc_user_t \union {NULL}]
           /\ user[u].modes \in Seq(Mode) /\ user[u].registered \in BOOLEAN
           /\ user[u].nick \in Nick
  BY DEF ContextInv, HeapTypes, chirc_user_t

-----------------------------------------------------------------------------
(* Each step is one of Directory, or none *)

\* A function of ctx.h that changes the users changes the people.
LEMMA PeopleStep ==
    ASSUME Call, DirectoryInv', UNCHANGED <<channels, connections, channel, channeluser>>
    PROVE  Abstract!ChangePeople
<1>1. state = "up" /\ state' = state
  BY SameState DEF Call, Running
<1>2. rooms' = rooms /\ members' = members /\ open' = open
  BY SameRooms, SameMembers, SameOpen
<1>3. QED
  BY <1>1, <1>2, UpStep DEF Abstract!ChangePeople

LEMMA RoomsStep ==
    ASSUME Call, DirectoryInv', UNCHANGED <<users, connections, user, channeluser>>
    PROVE  Abstract!ChangeRooms
<1>1. state = "up" /\ state' = state
  BY SameState DEF Call, Running
<1>2. people' = people /\ members' = members /\ open' = open
  BY SamePeople, SameMembers, SameOpen
<1>3. QED
  BY <1>1, <1>2, UpStep DEF Abstract!ChangeRooms

LEMMA MembersStep ==
    ASSUME Call, DirectoryInv', UNCHANGED tables, people' = people, rooms' = rooms
    PROVE  Abstract!ChangeMembers
<1>1. state = "up" /\ state' = state
  BY SameState DEF Call, Running
<1>2. open' = open
  BY SameOpen DEF tables
<1>3. QED
  BY <1>1, <1>2, UpStep DEF Abstract!ChangeMembers

LEMMA OpenStep ==
    ASSUME Call, DirectoryInv', UNCHANGED <<users, channels, heap>>
    PROVE  Abstract!ChangeOpen
<1>1. state = "up" /\ state' = state
  BY SameState DEF Call, Running
<1>2. people' = people /\ rooms' = rooms /\ members' = members
  BY SamePeople, SameRooms, SameMembers DEF heap
<1>3. QED
  BY <1>1, <1>2, UpStep DEF Abstract!ChangeOpen

LEMMA AddUserStep ==
    ASSUME DirectoryInv, DirectoryInv', NEW u \in User, NEW n \in Nick, AddUser(u, n)
    PROVE  Abstract!Next
<1>0. ContextInv /\ ListsOK
  BY DEF DirectoryInv, ContextInv
<1>1. /\ Call /\ chirc_ctx_get_user(n) = NULL /\ user[u] = NULL /\ users' = Append(users, u)
      /\ user' = [user EXCEPT ![u] = [chirc_user_init EXCEPT !.nick = n]]
      /\ UNCHANGED <<channels, connections, channel, channeluser>>
  BY DEF AddUser, chirc_ctx_add_user
<1>2. Abstract!ChangePeople
  BY <1>1, PeopleStep
<1>3. people[u] = NULL
  BY <1>0, <1>1, PeopleFacts
<1>4. \A v \in Abstract!Listed(people) : people[v].nick # n
  <2> TAKE v \in Abstract!Listed(people)
  <2>1. v \in User /\ InTable(users, v)
    BY <1>0, ListedFacts
  <2>2. user[v] # NULL /\ user[v].nick # n
    BY <1>0, <1>1, <2>1, NoUser DEF ListsOK
  <2>3. QED
    BY <1>0, <2>1, <2>2, PeopleFacts
<1>5. PICK t : t = Append(users, u)
  OBVIOUS
<1>6. t \in Seq(User) /\ \A v : InTable(t, v) <=> InTable(users, v) \/ v = u
  <2>1. users \in Seq(User) /\ Once(users) /\ ~InTable(users, u)
    BY <1>0, <1>1 DEF ListsOK
  <2>2. QED
    BY <1>5, <2>1, AppendOnce
<1>7. Contains(t, u) = TRUE /\ \A v \in User \ {u} : Contains(t, v) = Contains(users, v)
  <2>1. \A v : Contains(t, v) <=> InTable(t, v)
    BY <1>6, ContainsHas
  <2>2. \A v : Contains(t, v) \in BOOLEAN
    BY DEF Contains
  <2>3. QED
    BY <1>0, <1>6, <2>1, <2>2, ListFacts
<1>8. PICK s : s = [nick |-> n, registered |-> FALSE, modes |-> <<>>, channels |-> <<>>]
  OBVIOUS
<1>9. people' = [people EXCEPT ![u] = PersonOf(s, TRUE)]
  <2>1. user'[u] = s /\ \A v \in User \ {u} : user'[v] = user[v]
    BY <1>0, <1>1, <1>8 DEF ContextInv, HeapTypes, chirc_user_init
  <2>2. Contains(users', u) = TRUE
    BY <1>1, <1>5, <1>7, Zenon
  <2>3. \A v \in User \ {u} : Contains(users', v) = Contains(users, v)
    BY <1>1, <1>5, <1>7, Zenon
  <2>4. \A v \in User \ {u} : user'[v] = user[v] /\ Contains(users', v) = Contains(users, v)
    BY <2>1, <2>3
  <2>5. people' = [people EXCEPT ![u] = PersonOf(user'[u], Contains(users', u))]
    BY <2>4, PeopleChange
  <2>6. QED
    BY <2>1, <2>2, <2>5, Zenon
<1>12. PersonOf(s, TRUE) = [nick |-> n, registered |-> FALSE, modes |-> {}, listed |-> TRUE]
  <2>1. s # NULL
    <3>1. s \in chirc_user_t
      BY <1>8 DEF chirc_user_t
    <3>2. QED
      BY <3>1, StructsAssumption
  <2>2. ToSet(<<>>) = {}
    BY DEF ToSet
  <2>3. QED
    BY <1>8, <2>1, <2>2 DEF PersonOf
<1>10. Abstract!AddUser(u, n)
  BY <1>3, <1>4, <1>9, <1>12 DEF Abstract!AddUser
<1>11. QED
  BY <1>2, <1>10 DEF Abstract!Next

LEMMA RemoveUserStep ==
    ASSUME DirectoryInv, DirectoryInv', NEW u \in User, RemoveUser(u)
    PROVE  Abstract!Next
<1>0. ContextInv /\ ListsOK
  BY DEF DirectoryInv, ContextInv
<1>1. /\ Call /\ InTable(users, u) /\ users' = HASH_DELETE(users, u)
      /\ user' = user /\ UNCHANGED <<channels, connections, channel, channeluser>>
  BY <1>0, ListFacts DEF RemoveUser, heap
<1>2. Abstract!ChangePeople
  BY <1>1, PeopleStep
<1>3. u \in Abstract!Listed(people) /\ user[u] # NULL
  BY <1>0, <1>1, ListedFacts DEF ListsOK
<1>4. PICK t : t = HASH_DELETE(users, u)
  OBVIOUS
<1>5. t \in Seq(User) /\ \A v : InTable(t, v) <=> InTable(users, v) /\ v # u
  <2>1. users \in Seq(User) /\ Once(users)
    BY <1>0 DEF ListsOK
  <2>2. QED
    BY <1>1, <1>4, <2>1, DeleteOnce
<1>6. Contains(t, u) = FALSE /\ \A v \in User \ {u} : Contains(t, v) = Contains(users, v)
  <2>1. \A v : Contains(t, v) <=> InTable(t, v)
    BY <1>5, ContainsHas
  <2>2. \A v : Contains(t, v) \in BOOLEAN
    BY DEF Contains
  <2>3. QED
    BY <1>0, <1>5, <2>1, <2>2, ListFacts
<1>7. [people[u] EXCEPT !.listed = FALSE] = PersonOf(user[u], FALSE)
  <2>1. PICK s, b, no : s = user[u] /\ b = Contains(users, u) /\ no = FALSE
    OBVIOUS
  <2>2. people[u] = PersonOf(s, b)
    BY <2>1, PersonAt
  <2>3. s # NULL
    BY <1>3, <2>1
  <2>4. [PersonOf(s, b) EXCEPT !.listed = no] = PersonOf(s, no)
    BY <2>3, PersonFields
  <2>5. QED
    BY <2>1, <2>2, <2>4, Zenon
<1>9. people' = [people EXCEPT ![u] = PersonOf(user[u], FALSE)]
  <2>1. users' = t
    BY <1>1, <1>4
  <2>2. Contains(users', u) = FALSE
    BY <1>6, <2>1, Zenon
  <2>3. \A v \in User \ {u} : Contains(users', v) = Contains(users, v)
    BY <1>6, <2>1, Zenon
  <2>4. user'[u] = user[u] /\ \A v \in User \ {u} : user'[v] = user[v]
    BY <1>1
  <2>5. \A v \in User \ {u} : user'[v] = user[v] /\ Contains(users', v) = Contains(users, v)
    BY <2>3, <2>4
  <2>6. people' = [people EXCEPT ![u] = PersonOf(user'[u], Contains(users', u))]
    BY <2>5, PeopleChange
  <2>7. QED
    BY <2>2, <2>4, <2>6, Zenon
<1>10. Abstract!RemoveUser(u)
  BY <1>3, <1>7, <1>9 DEF Abstract!RemoveUser
<1>11. QED
  BY <1>2, <1>10 DEF Abstract!Next

LEMMA RegisterStep ==
    ASSUME DirectoryInv, DirectoryInv', NEW u \in User, Register(u)
    PROVE  Abstract!Next
<1>0. ContextInv /\ ListsOK
  BY DEF DirectoryInv, ContextInv
<1>1. /\ Call /\ InTable(users, u) /\ users' = users
      /\ user' = [user EXCEPT ![u].registered = TRUE]
      /\ UNCHANGED <<channels, connections, channel, channeluser>>
  BY <1>0, ListFacts DEF Register, tables
<1>2. Abstract!ChangePeople
  BY <1>1, PeopleStep
<1>3. u \in Abstract!Listed(people) /\ user[u] # NULL
  BY <1>0, <1>1, ListedFacts DEF ListsOK
<1>4. PICK b : b = Contains(users, u)
  OBVIOUS
<1>5. [people[u] EXCEPT !.registered = TRUE]
      = [nick |-> user[u].nick, registered |-> TRUE, modes |-> ToSet(user[u].modes), listed |-> b]
  <2>1. people[u] = PersonOf(user[u], b)
    BY <1>4, PersonAt
  <2>2. PICK s, yes : s = user[u] /\ yes = TRUE
    OBVIOUS
  <2>3. s # NULL
    BY <1>3, <2>2
  <2>4. PersonOf(s, b)
        = [nick |-> s.nick, registered |-> s.registered, modes |-> ToSet(s.modes), listed |-> b]
    BY <2>3 DEF PersonOf
  <2>5. [PersonOf(s, b) EXCEPT !.registered = yes]
        = [nick |-> s.nick, registered |-> yes, modes |-> ToSet(s.modes), listed |-> b]
    BY <2>4
  <2>6. QED
    BY <2>1, <2>2, <2>5, Zenon
<1>6. people' = [people EXCEPT ![u] = [people[u] EXCEPT !.registered = TRUE]]
  <2>1. /\ user'[u] # NULL /\ user'[u].nick = user[u].nick /\ user'[u].registered = TRUE
        /\ user'[u].modes = user[u].modes /\ \A v \in User \ {u} : user'[v] = user[v]
    <3>1. user[u] \in chirc_user_t /\ user \in [User -> chirc_user_t \union {NULL}]
      BY <1>0, <1>3, UserTypes
    <3>2. user'[u] \in chirc_user_t
      BY <1>1, <3>1 DEF chirc_user_t
    <3>3. QED
      BY <1>1, <3>1, <3>2, StructsAssumption DEF chirc_user_t
  <2>2. PICK s : s = user'[u]
    OBVIOUS
  <2>3. PersonOf(s, b) = [people[u] EXCEPT !.registered = TRUE]
    BY <1>5, <2>1, <2>2 DEF PersonOf
  <2>4. Contains(users', u) = b
    BY <1>1, <1>4
  <2>5. \A v \in User \ {u} : user'[v] = user[v] /\ Contains(users', v) = Contains(users, v)
    BY <1>1, <2>1
  <2>6. people' = [people EXCEPT ![u] = PersonOf(user'[u], Contains(users', u))]
    BY <2>5, PeopleChange
  <2>7. QED
    BY <2>2, <2>3, <2>4, <2>6, Zenon
<1>7. Abstract!Register(u)
  BY <1>3, <1>6 DEF Abstract!Register
<1>8. QED
  BY <1>2, <1>7 DEF Abstract!Next

\* A failed assertion stops the program and changes nothing else.
LEMMA AbortStep ==
    ASSUME phase = "running", Abort,
           \/ \E u \in User : people[u] # NULL /\ Abstract!Of(u) # {}
           \/ \E k \in Channel : /\ rooms[k] # NULL /\ k \notin Abstract!Listed(rooms)
                                 /\ Abstract!In(k) # {}
    PROVE  Abstract!Next
<1>1. state = "up" /\ state' = "aborted"
  BY DEF Abort, state
<1>2. /\ users' = users /\ channels' = channels /\ connections' = connections
      /\ user' = user /\ channel' = channel /\ channeluser' = channeluser
  BY DEF Abort, tables, heap
<1>3. people' = people /\ rooms' = rooms /\ members' = members /\ open' = open
  BY <1>2, SamePeople, SameRooms, SameMembers, SameOpen
<1>4. /\ chirc_ctx_numusers' = chirc_ctx_numusers /\ chirc_ctx_numops' = chirc_ctx_numops
      /\ chirc_ctx_numchannels' = chirc_ctx_numchannels
      /\ chirc_ctx_unknown_connections' = chirc_ctx_unknown_connections
  BY <1>2 DEF chirc_ctx_numusers, chirc_ctx_numops, chirc_ctx_numchannels,
              chirc_ctx_unknown_connections, chirc_user_is_oper, Count
<1>5. counts' = counts
  BY <1>2, <1>4 DEF counts, chirc_channel_num_users, chirc_user_num_channels
<1>6. Abstract!Abort
  BY <1>1, <1>3, <1>5 DEF Abstract!Abort
<1>7. QED
  BY <1>6 DEF Abstract!Next

\* A user's table is empty just when the user is in no channel, and a channel's likewise.
LEMMA TableEmpty ==
    ASSUME ContextInv
    PROVE  /\ \A u \in User : user[u] # NULL => (user[u].channels = <<>> <=> Abstract!Of(u) = {})
           /\ \A k \in Channel :
                  channel[k] # NULL => (channel[k].users = <<>> <=> Abstract!In(k) = {})
<1>1. ASSUME NEW u \in User, user[u] # NULL
      PROVE  user[u].channels = <<>> <=> Abstract!Of(u) = {}
  <2>1. PICK s : s = user[u].channels
    OBVIOUS
  <2>2. /\ s \in Seq(Channel \X User)
        /\ \A p \in Channel \X User : InTable(s, p) <=> p \in Members /\ p[2] = u
    BY <1>1, <2>1 DEF ContextInv, HeapTypes, MembersOK, UserPlaces, chirc_user_t
  <2>3. \A k \in Channel : k \in Abstract!Of(u) <=> <<k, u>> \in Members
    BY MemberFacts DEF Abstract!Of
  <2>4. ASSUME s = <<>> PROVE Abstract!Of(u) = {}
    <3>1. \A k \in Channel : <<k, u>> \notin Members
      BY <2>2, <2>4, EmptyOnce
    <3>2. QED
      BY <2>3, <3>1 DEF Abstract!Of
  <2>5. ASSUME s # <<>> PROVE Abstract!Of(u) # {}
    <3>1. Len(s) # 0 /\ Len(s) \in Nat /\ DOMAIN s = 1..Len(s)
      BY <2>2, <2>5, EmptySeq
    <3>2. 1 \in DOMAIN s
      BY <3>1
    <3>3. PICK p \in Channel \X User : p = s[1]
      BY <2>2, <3>2
    <3>4. p \in Members /\ p[2] = u
      BY <2>2, <3>2, <3>3 DEF InTable
    <3>5. p[1] \in Channel /\ p = <<p[1], u>>
      BY <3>4
    <3>6. p[1] \in Abstract!Of(u)
      BY <2>3, <3>4, <3>5
    <3>7. QED
      BY <3>6
  <2>6. QED
    BY <2>1, <2>4, <2>5
<1>2. ASSUME NEW k \in Channel, channel[k] # NULL
      PROVE  channel[k].users = <<>> <=> Abstract!In(k) = {}
  <2>1. PICK s : s = channel[k].users
    OBVIOUS
  <2>2. /\ s \in Seq(Channel \X User)
        /\ \A p \in Channel \X User : InTable(s, p) <=> p \in Members /\ p[1] = k
    BY <1>2, <2>1 DEF ContextInv, HeapTypes, MembersOK, ChannelPlaces, chirc_channel_t
  <2>3. \A u \in User : u \in Abstract!In(k) <=> <<k, u>> \in Members
    BY MemberFacts DEF Abstract!In
  <2>4. ASSUME s = <<>> PROVE Abstract!In(k) = {}
    <3>1. \A u \in User : <<k, u>> \notin Members
      BY <2>2, <2>4, EmptyOnce
    <3>2. QED
      BY <2>3, <3>1 DEF Abstract!In
  <2>5. ASSUME s # <<>> PROVE Abstract!In(k) # {}
    <3>1. Len(s) # 0 /\ Len(s) \in Nat /\ DOMAIN s = 1..Len(s)
      BY <2>2, <2>5, EmptySeq
    <3>2. 1 \in DOMAIN s
      BY <3>1
    <3>3. PICK p \in Channel \X User : p = s[1]
      BY <2>2, <3>2
    <3>4. p \in Members /\ p[1] = k
      BY <2>2, <3>2, <3>3 DEF InTable
    <3>5. p[2] \in User /\ p = <<k, p[2]>>
      BY <3>4
    <3>6. p[2] \in Abstract!In(k)
      BY <2>3, <3>4, <3>5
    <3>7. QED
      BY <3>6
  <2>6. QED
    BY <2>1, <2>4, <2>5
<1>3. QED
  BY <1>1, <1>2

LEMMA FreeUserStep ==
    ASSUME DirectoryInv, DirectoryInv', NEW u \in User, FreeUser(u)
    PROVE  Abstract!Next
<1>0. ContextInv
  BY DEF DirectoryInv
<1>1. Running /\ phase = "running" /\ user[u] # NULL /\ ~Contains(users, u)
  BY DEF FreeUser, Running
<1>2. people[u] # NULL /\ u \notin Abstract!Listed(people)
  <2>1. people[u] # NULL
    BY <1>0, <1>1, PeopleFacts
  <2>2. ~InTable(users, u)
    BY <1>0, <1>1, ListFacts
  <2>3. QED
    BY <1>0, <2>1, <2>2, ListedFacts
<1>3. CASE user[u].channels # <<>> /\ Abort
  <2>1. Abstract!Of(u) # {}
    BY <1>0, <1>1, <1>3, TableEmpty
  <2>2. QED
    BY <1>1, <1>2, <1>3, <2>1, AbortStep
<1>4. CASE /\ user[u].channels = <<>> /\ UNCHANGED <<startVars, tables, channel, channeluser>>
           /\ user' = [user EXCEPT ![u] = NULL]
  <2>1. Call /\ users' = users /\ UNCHANGED <<channels, connections, channel, channeluser>>
    BY <1>1, <1>4 DEF Call, tables
  <2>2. Abstract!ChangePeople
    BY <2>1, PeopleStep
  <2>3. Abstract!Of(u) = {}
    BY <1>0, <1>1, <1>4, TableEmpty
  <2>4. user'[u] = NULL /\ \A v \in User \ {u} : user'[v] = user[v]
    BY <1>0, <1>4 DEF ContextInv, HeapTypes
  <2>5. people' = [people EXCEPT ![u] = PersonOf(user'[u], Contains(users', u))]
    BY <2>1, <2>4, PeopleChange
  <2>6. people' = [people EXCEPT ![u] = NULL]
    BY <2>4, <2>5 DEF PersonOf
  <2>7. Abstract!FreeUser(u)
    BY <1>2, <2>3, <2>6 DEF Abstract!FreeUser
  <2>8. QED
    BY <2>2, <2>7 DEF Abstract!Next
<1>5. QED
  BY <1>3, <1>4 DEF FreeUser

LEMMA AddChannelStep ==
    ASSUME DirectoryInv, DirectoryInv', NEW k \in Channel, NEW n \in Name, AddChannel(k, n)
    PROVE  Abstract!Next
<1>0. ContextInv /\ ListsOK
  BY DEF DirectoryInv, ContextInv
<1>1. /\ Call /\ chirc_ctx_get_channel(n) = NULL /\ channel[k] = NULL
      /\ channels' = Append(channels, k)
      /\ channel' = [channel EXCEPT ![k] = [chirc_channel_init EXCEPT !.name = n]]
      /\ UNCHANGED <<users, connections, user, channeluser>>
  BY DEF AddChannel, chirc_ctx_add_channel
<1>2. Abstract!ChangeRooms
  BY <1>1, RoomsStep
<1>3. rooms[k] = NULL
  BY <1>0, <1>1, RoomFacts
<1>4. \A l \in Abstract!Listed(rooms) : rooms[l].name # n
  <2> TAKE l \in Abstract!Listed(rooms)
  <2>1. l \in Channel /\ InTable(channels, l)
    BY <1>0, ListedFacts
  <2>2. channel[l] # NULL /\ channel[l].name # n
    BY <1>0, <1>1, <2>1, NoChannel DEF ListsOK
  <2>3. QED
    BY <1>0, <2>1, <2>2, RoomFacts
<1>5. PICK t : t = Append(channels, k)
  OBVIOUS
<1>6. t \in Seq(Channel) /\ \A l : InTable(t, l) <=> InTable(channels, l) \/ l = k
  <2>1. channels \in Seq(Channel) /\ Once(channels) /\ ~InTable(channels, k)
    BY <1>0, <1>1 DEF ListsOK
  <2>2. QED
    BY <1>5, <2>1, AppendOnce
<1>7. Contains(t, k) = TRUE /\ \A l \in Channel \ {k} : Contains(t, l) = Contains(channels, l)
  <2>1. \A l : Contains(t, l) <=> InTable(t, l)
    BY <1>6, ContainsHas
  <2>2. \A l : Contains(t, l) \in BOOLEAN
    BY DEF Contains
  <2>3. QED
    BY <1>0, <1>6, <2>1, <2>2, ListFacts
<1>8. PICK s : s = [name |-> n, modes |-> <<>>, users |-> <<>>]
  OBVIOUS
<1>9. rooms' = [rooms EXCEPT ![k] = RoomOf(s, TRUE)]
  <2>1. channel'[k] = s /\ \A l \in Channel \ {k} : channel'[l] = channel[l]
    BY <1>0, <1>1, <1>8 DEF ContextInv, HeapTypes, chirc_channel_init
  <2>2. Contains(channels', k) = TRUE
    BY <1>1, <1>5, <1>7, Zenon
  <2>3. \A l \in Channel \ {k} : Contains(channels', l) = Contains(channels, l)
    BY <1>1, <1>5, <1>7, Zenon
  <2>4. \A l \in Channel \ {k} : /\ channel'[l] = channel[l]
                                 /\ Contains(channels', l) = Contains(channels, l)
    BY <2>1, <2>3
  <2>5. rooms' = [rooms EXCEPT ![k] = RoomOf(channel'[k], Contains(channels', k))]
    BY <2>4, RoomsChange
  <2>6. QED
    BY <2>1, <2>2, <2>5, Zenon
<1>10. RoomOf(s, TRUE) = [name |-> n, modes |-> {}, listed |-> TRUE]
  <2>1. s # NULL
    <3>1. s \in chirc_channel_t
      BY <1>8 DEF chirc_channel_t
    <3>2. QED
      BY <3>1, StructsAssumption
  <2>2. ToSet(<<>>) = {}
    BY DEF ToSet
  <2>3. QED
    BY <1>8, <2>1, <2>2 DEF RoomOf
<1>11. Abstract!AddChannel(k, n)
  BY <1>3, <1>4, <1>9, <1>10 DEF Abstract!AddChannel
<1>12. QED
  BY <1>2, <1>11 DEF Abstract!Next

LEMMA RemoveChannelStep ==
    ASSUME DirectoryInv, DirectoryInv', NEW k \in Channel, RemoveChannel(k)
    PROVE  Abstract!Next
<1>0. ContextInv /\ ListsOK
  BY DEF DirectoryInv, ContextInv
<1>1. /\ Call /\ InTable(channels, k) /\ channels' = HASH_DELETE(channels, k)
      /\ channel' = channel /\ UNCHANGED <<users, connections, user, channeluser>>
  BY <1>0, ListFacts DEF RemoveChannel, heap
<1>2. Abstract!ChangeRooms
  BY <1>1, RoomsStep
<1>3. k \in Abstract!Listed(rooms) /\ channel[k] # NULL
  BY <1>0, <1>1, ListedFacts DEF ListsOK
<1>4. PICK t : t = HASH_DELETE(channels, k)
  OBVIOUS
<1>5. t \in Seq(Channel) /\ \A l : InTable(t, l) <=> InTable(channels, l) /\ l # k
  <2>1. channels \in Seq(Channel) /\ Once(channels)
    BY <1>0 DEF ListsOK
  <2>2. QED
    BY <1>1, <1>4, <2>1, DeleteOnce
<1>6. Contains(t, k) = FALSE /\ \A l \in Channel \ {k} : Contains(t, l) = Contains(channels, l)
  <2>1. \A l : Contains(t, l) <=> InTable(t, l)
    BY <1>5, ContainsHas
  <2>2. \A l : Contains(t, l) \in BOOLEAN
    BY DEF Contains
  <2>3. QED
    BY <1>0, <1>5, <2>1, <2>2, ListFacts
<1>7. [rooms[k] EXCEPT !.listed = FALSE] = RoomOf(channel[k], FALSE)
  <2>1. PICK s, b, no : s = channel[k] /\ b = Contains(channels, k) /\ no = FALSE
    OBVIOUS
  <2>2. rooms[k] = RoomOf(s, b)
    BY <2>1, RoomAt
  <2>3. s # NULL
    BY <1>3, <2>1
  <2>4. [RoomOf(s, b) EXCEPT !.listed = no] = RoomOf(s, no)
    BY <2>3, RoomFields
  <2>5. QED
    BY <2>1, <2>2, <2>4, Zenon
<1>8. rooms' = [rooms EXCEPT ![k] = RoomOf(channel[k], FALSE)]
  <2>1. channels' = t
    BY <1>1, <1>4
  <2>2. Contains(channels', k) = FALSE
    BY <1>6, <2>1, Zenon
  <2>3. \A l \in Channel \ {k} : Contains(channels', l) = Contains(channels, l)
    BY <1>6, <2>1, Zenon
  <2>4. channel'[k] = channel[k] /\ \A l \in Channel \ {k} : channel'[l] = channel[l]
    BY <1>1
  <2>5. \A l \in Channel \ {k} : /\ channel'[l] = channel[l]
                                 /\ Contains(channels', l) = Contains(channels, l)
    BY <2>3, <2>4
  <2>6. rooms' = [rooms EXCEPT ![k] = RoomOf(channel'[k], Contains(channels', k))]
    BY <2>5, RoomsChange
  <2>7. QED
    BY <2>2, <2>4, <2>6, Zenon
<1>9. Abstract!RemoveChannel(k)
  BY <1>3, <1>7, <1>8 DEF Abstract!RemoveChannel
<1>10. QED
  BY <1>2, <1>9 DEF Abstract!Next

LEMMA FreeChannelStep ==
    ASSUME DirectoryInv, DirectoryInv', NEW k \in Channel, FreeChannel(k)
    PROVE  Abstract!Next
<1>0. ContextInv
  BY DEF DirectoryInv
<1>1. Running /\ phase = "running" /\ channel[k] # NULL /\ ~Contains(channels, k)
  BY DEF FreeChannel, Running
<1>2. rooms[k] # NULL /\ k \notin Abstract!Listed(rooms)
  <2>1. rooms[k] # NULL
    BY <1>0, <1>1, RoomFacts
  <2>2. ~InTable(channels, k)
    BY <1>0, <1>1, ListFacts
  <2>3. QED
    BY <1>0, <2>1, <2>2, ListedFacts
<1>3. CASE channel[k].users # <<>> /\ Abort
  <2>1. Abstract!In(k) # {}
    BY <1>0, <1>1, <1>3, TableEmpty
  <2>2. QED
    BY <1>1, <1>2, <1>3, <2>1, AbortStep
<1>4. CASE /\ channel[k].users = <<>> /\ UNCHANGED <<startVars, tables, user, channeluser>>
           /\ channel' = [channel EXCEPT ![k] = NULL]
  <2>1. Call /\ channels' = channels /\ UNCHANGED <<users, connections, user, channeluser>>
    BY <1>1, <1>4 DEF Call, tables
  <2>2. Abstract!ChangeRooms
    BY <2>1, RoomsStep
  <2>3. Abstract!In(k) = {}
    BY <1>0, <1>1, <1>4, TableEmpty
  <2>4. channel'[k] = NULL /\ \A l \in Channel \ {k} : channel'[l] = channel[l]
    BY <1>0, <1>4 DEF ContextInv, HeapTypes
  <2>5. rooms' = [rooms EXCEPT ![k] = RoomOf(channel'[k], Contains(channels', k))]
    BY <2>1, <2>4, RoomsChange
  <2>6. rooms' = [rooms EXCEPT ![k] = NULL]
    BY <2>4, <2>5 DEF RoomOf
  <2>7. Abstract!FreeChannel(k)
    BY <1>2, <2>3, <2>6 DEF Abstract!FreeChannel
  <2>8. QED
    BY <2>2, <2>7 DEF Abstract!Next
<1>5. QED
  BY <1>3, <1>4 DEF FreeChannel

\* Directory does not see the tables of channelusers.
LEMMA OtherChannels ==
    ASSUME ContextInv, users' = users, NEW u \in User, user[u] # NULL,
           NEW a \in Seq(Channel \X User), user' = [user EXCEPT ![u].channels = a]
    PROVE  people' = people
<1>1. PICK r : r = [user[u] EXCEPT !.channels = a]
  OBVIOUS
<1>2. /\ r \in chirc_user_t /\ r.nick = user[u].nick /\ r.registered = user[u].registered
      /\ r.modes = user[u].modes
  BY <1>1, UserTypes DEF chirc_user_t
<1>3. user' = [user EXCEPT ![u] = r]
  BY <1>1
<1>4. \A v \in User : user'[v] = IF v = u THEN r ELSE user[v]
  BY <1>3 DEF ContextInv, HeapTypes
<1>5. r # NULL
  BY <1>2, StructsAssumption
<1>6. \A v \in User : Contains(users', v) = Contains(users, v)
  OBVIOUS
<1>7. \A v \in User :
          /\ user'[v] = NULL <=> user[v] = NULL
          /\ user[v] # NULL => /\ user'[v].nick = user[v].nick
                               /\ user'[v].registered = user[v].registered
                               /\ user'[v].modes = user[v].modes
  BY <1>2, <1>4, <1>5
<1>8. QED
  BY <1>6, <1>7, PeopleStay

LEMMA OtherUsers ==
    ASSUME ContextInv, channels' = channels, NEW k \in Channel, channel[k] # NULL,
           NEW a \in Seq(Channel \X User), channel' = [channel EXCEPT ![k].users = a]
    PROVE  rooms' = rooms
<1>1. PICK r : r = [channel[k] EXCEPT !.users = a]
  OBVIOUS
<1>2. r \in chirc_channel_t /\ r.name = channel[k].name /\ r.modes = channel[k].modes
  BY <1>1 DEF ContextInv, HeapTypes, chirc_channel_t
<1>3. channel' = [channel EXCEPT ![k] = r]
  BY <1>1
<1>4. \A l \in Channel : channel'[l] = IF l = k THEN r ELSE channel[l]
  BY <1>3 DEF ContextInv, HeapTypes
<1>5. r # NULL
  BY <1>2, StructsAssumption
<1>6. \A l \in Channel : Contains(channels', l) = Contains(channels, l)
  OBVIOUS
<1>7. \A l \in Channel :
          /\ channel'[l] = NULL <=> channel[l] = NULL
          /\ channel[l] # NULL => /\ channel'[l].name = channel[l].name
                                  /\ channel'[l].modes = channel[l].modes
  BY <1>2, <1>4, <1>5
<1>8. QED
  BY <1>6, <1>7, RoomsStay

LEMMA JoinStep ==
    ASSUME DirectoryInv, DirectoryInv', NEW k \in Channel, NEW u \in User,
           chirc_channeluser_get_or_create(k, u)
    PROVE  Abstract!Next \/ UNCHANGED Abstract!vars
<1>0. ContextInv /\ ListsOK
  BY DEF DirectoryInv, ContextInv
<1>1. /\ Call /\ InTable(channels, k) /\ InTable(users, u) /\ UNCHANGED tables
      /\ users' = users /\ channels' = channels /\ connections' = connections
  BY <1>0, ListFacts DEF chirc_channeluser_get_or_create, tables
<1>2. CASE UNCHANGED heap
  <2>1. state' = state
    BY <1>1, SameState DEF Call, Running
  <2>2. QED
    BY <1>1, <1>2, <2>1, Unseen
<1>3. CASE /\ chirc_channeluser_get(k, u) = NULL
           /\ channeluser' = [channeluser EXCEPT ![<<k, u>>] = <<>>]
           /\ user' = [user EXCEPT ![u].channels = Append(@, <<k, u>>)]
           /\ channel' = [channel EXCEPT ![k].users = Append(@, <<k, u>>)]
  <2>1. /\ user[u] # NULL /\ user[u] \in chirc_user_t
        /\ channel[k] # NULL /\ channel[k] \in chirc_channel_t
    BY <1>0, <1>1, ListFacts DEF ContextInv, HeapTypes
  <2>2. user[u].channels \in Seq(Channel \X User) /\ channel[k].users \in Seq(Channel \X User)
    BY <2>1 DEF chirc_user_t, chirc_channel_t
  <2>3. PICK p \in Channel \X User : p = <<k, u>>
    OBVIOUS
  <2>4. p \notin Members
    <3>1. ~InTable(channel[k].users, p)
      BY <1>3, <2>2, <2>3, NoChanneluser
    <3>2. QED
      BY <1>0, <2>1, <2>3, <3>1 DEF ContextInv, MembersOK, ChannelPlaces
  <2>5. people' = people
    <3>1. PICK a : a = Append(user[u].channels, p)
      OBVIOUS
    <3>2. a \in Seq(Channel \X User) /\ user' = [user EXCEPT ![u].channels = a]
      BY <1>3, <2>2, <2>3, <3>1
    <3>3. QED
      BY <1>0, <1>1, <2>1, <3>2, OtherChannels
  <2>6. rooms' = rooms
    <3>1. PICK a : a = Append(channel[k].users, p)
      OBVIOUS
    <3>2. a \in Seq(Channel \X User) /\ channel' = [channel EXCEPT ![k].users = a]
      BY <1>3, <2>2, <2>3, <3>1
    <3>3. QED
      BY <1>0, <1>1, <2>1, <3>2, OtherUsers
  <2>7. Abstract!ChangeMembers
    BY <1>1, <2>5, <2>6, MembersStep
  <2>8. members' = [members EXCEPT ![p] = {}]
    <3>1. channeluser'[p] = <<>> /\ \A q \in (Channel \X User) \ {p} : channeluser'[q] = channeluser[q]
      BY <1>0, <1>3, <2>3 DEF ContextInv, HeapTypes
    <3>2. <<>> # NULL
      <4>1. <<>> \in Seq(Mode)
        OBVIOUS
      <4>2. QED
        BY <4>1, StructsAssumption DEF chirc_channeluser_t
    <3>3. ToSet(<<>>) = {}
      BY DEF ToSet
    <3>4. {} = IF channeluser'[p] = NULL THEN NULL ELSE ToSet(channeluser'[p])
      BY <3>1, <3>2, <3>3
    <3>5. QED
      BY <3>1, <3>4, MembersChange
  <2>9. members[p] = NULL /\ k \in Abstract!Listed(rooms) /\ u \in Abstract!Listed(people)
    BY <1>0, <1>1, <2>4, MemberFacts, ListedFacts
  <2>10. Abstract!Join(k, u)
    BY <2>3, <2>8, <2>9 DEF Abstract!Join
  <2>11. QED
    BY <2>7, <2>10 DEF Abstract!Next
<1>4. QED
  BY <1>2, <1>3 DEF chirc_channeluser_get_or_create

LEMMA LeaveStep ==
    ASSUME DirectoryInv, DirectoryInv', NEW k \in Channel, NEW u \in User, Leave(k, u)
    PROVE  Abstract!Next
<1>0. ContextInv
  BY DEF DirectoryInv
<1>1. /\ Call /\ UNCHANGED tables /\ users' = users /\ channels' = channels
      /\ channeluser[<<k, u>>] # NULL
      /\ channel' = [channel EXCEPT ![k].users = HASH_DELETE(@, <<k, u>>)]
      /\ user' = [user EXCEPT ![u].channels = HASH_DELETE(@, <<k, u>>)]
      /\ channeluser' = [channeluser EXCEPT ![<<k, u>>] = NULL]
  BY DEF Leave, chirc_channeluser_remove, tables
<1>2. PICK p \in Channel \X User : p = <<k, u>>
  OBVIOUS
<1>3. p \in Members /\ p[1] = k /\ p[2] = u
  BY <1>1, <1>2 DEF Members
<1>4. user[u] # NULL /\ user[u] \in chirc_user_t /\ channel[k] # NULL /\ channel[k] \in chirc_channel_t
  BY <1>0, <1>3 DEF ContextInv, HeapTypes, MembersOK
<1>5. PICK S, x, y : S = Channel \X User /\ x = user[u].channels /\ y = channel[k].users
  OBVIOUS
<1>6. x \in Seq(S) /\ Once(x) /\ InTable(x, p)
  BY <1>0, <1>3, <1>4, <1>5 DEF ContextInv, MembersOK, UserPlaces, chirc_user_t
<1>7. y \in Seq(S) /\ Once(y) /\ InTable(y, p)
  BY <1>0, <1>3, <1>4, <1>5 DEF ContextInv, MembersOK, ChannelPlaces, chirc_channel_t
<1>8. people' = people
  <2>1. PICK a : a = HASH_DELETE(x, p)
    OBVIOUS
  <2>2. a \in Seq(S)
    BY <1>6, <2>1, DeleteOnce
  <2>3. user' = [user EXCEPT ![u].channels = a]
    BY <1>1, <1>2, <1>5, <2>1
  <2>4. QED
    BY <1>0, <1>1, <1>4, <1>5, <2>2, <2>3, OtherChannels
<1>9. rooms' = rooms
  <2>1. PICK a : a = HASH_DELETE(y, p)
    OBVIOUS
  <2>2. a \in Seq(S)
    BY <1>7, <2>1, DeleteOnce
  <2>3. channel' = [channel EXCEPT ![k].users = a]
    BY <1>1, <1>2, <1>5, <2>1
  <2>4. QED
    BY <1>0, <1>1, <1>4, <1>5, <2>2, <2>3, OtherUsers
<1>10. Abstract!ChangeMembers
  BY <1>1, <1>8, <1>9, MembersStep
<1>11. members' = [members EXCEPT ![p] = NULL]
  <2>1. channeluser'[p] = NULL /\ \A q \in (Channel \X User) \ {p} : channeluser'[q] = channeluser[q]
    BY <1>0, <1>1, <1>2 DEF ContextInv, HeapTypes
  <2>2. NULL = IF channeluser'[p] = NULL THEN NULL ELSE ToSet(channeluser'[p])
    BY <2>1
  <2>3. QED
    BY <2>1, <2>2, MembersChange
<1>12. members[p] # NULL
  BY <1>0, <1>3, MemberFacts
<1>13. Abstract!Leave(k, u)
  BY <1>2, <1>11, <1>12 DEF Abstract!Leave
<1>14. QED
  BY <1>10, <1>13 DEF Abstract!Next

\* One more mode or one less.
LEMMA UserModeStep ==
    ASSUME DirectoryInv, DirectoryInv', NEW u \in User, user[u] # NULL, NEW m \in Mode, Call,
           NEW s \in Seq(Mode), ToSet(s) \in Abstract!Changed(ToSet(user[u].modes), m),
           user' = [user EXCEPT ![u].modes = s], UNCHANGED <<tables, channel, channeluser>>
    PROVE  Abstract!Next
<1>0. ContextInv
  BY DEF DirectoryInv
<1>1. users' = users /\ UNCHANGED <<channels, connections, channel, channeluser>>
  BY DEF tables
<1>2. Abstract!ChangePeople
  BY <1>1, PeopleStep
<1>3. PICK r, o, b : r = [user[u] EXCEPT !.modes = s] /\ o = user[u] /\ b = Contains(users, u)
  OBVIOUS
<1>4. /\ r \in chirc_user_t /\ r.nick = o.nick /\ r.registered = o.registered
      /\ r.modes = s /\ o # NULL
  BY <1>0, <1>3, UserTypes DEF chirc_user_t
<1>5. user'[u] = r /\ \A v \in User \ {u} : user'[v] = user[v]
  BY <1>0, <1>3 DEF ContextInv, HeapTypes
<1>6. r # NULL
  BY <1>4, StructsAssumption
<1>7. people' = [people EXCEPT ![u] = PersonOf(user'[u], Contains(users', u))]
  BY <1>1, <1>5, PeopleChange
<1>8. people[u] = PersonOf(o, b) /\ people' = [people EXCEPT ![u] = PersonOf(r, b)]
  BY <1>1, <1>3, <1>5, <1>7, PersonAt
<1>9. PICK x : x = ToSet(s)
  OBVIOUS
<1>10. /\ people[u].modes = ToSet(o.modes)
       /\ [people[u] EXCEPT !.modes = x]
          = [nick |-> o.nick, registered |-> o.registered, modes |-> x, listed |-> b]
  <2>1. people[u]
        = [nick |-> o.nick, registered |-> o.registered, modes |-> ToSet(o.modes), listed |-> b]
    BY <1>4, <1>8 DEF PersonOf
  <2>2. QED
    BY <2>1
<1>11. PersonOf(r, b)
       = [nick |-> o.nick, registered |-> o.registered, modes |-> x, listed |-> b]
  BY <1>4, <1>6, <1>9 DEF PersonOf
<1>12. people' = [people EXCEPT ![u] = [people[u] EXCEPT !.modes = x]]
  BY <1>8, <1>10, <1>11
<1>13. people[u] # NULL
  BY <1>0, PeopleFacts
<1>14. x \in Abstract!Changed(people[u].modes, m)
  BY <1>3, <1>9, <1>10
<1>15. Abstract!UserMode(u, m)
  BY <1>12, <1>13, <1>14 DEF Abstract!UserMode
<1>16. QED
  BY <1>2, <1>15 DEF Abstract!Next

LEMMA ChannelModeStep ==
    ASSUME DirectoryInv, DirectoryInv', NEW k \in Channel, channel[k] # NULL, NEW m \in Mode, Call,
           NEW s \in Seq(Mode), ToSet(s) \in Abstract!Changed(ToSet(channel[k].modes), m),
           channel' = [channel EXCEPT ![k].modes = s], UNCHANGED <<tables, user, channeluser>>
    PROVE  Abstract!Next
<1>0. ContextInv
  BY DEF DirectoryInv
<1>1. channels' = channels /\ UNCHANGED <<users, connections, user, channeluser>>
  BY DEF tables
<1>2. Abstract!ChangeRooms
  BY <1>1, RoomsStep
<1>3. PICK r, o, b : r = [channel[k] EXCEPT !.modes = s] /\ o = channel[k] /\ b = Contains(channels, k)
  OBVIOUS
<1>4. r \in chirc_channel_t /\ r.name = o.name /\ r.modes = s /\ o # NULL
  BY <1>0, <1>3 DEF ContextInv, HeapTypes, chirc_channel_t
<1>5. channel'[k] = r /\ \A l \in Channel \ {k} : channel'[l] = channel[l]
  BY <1>0, <1>3 DEF ContextInv, HeapTypes
<1>6. r # NULL
  BY <1>4, StructsAssumption
<1>7. rooms' = [rooms EXCEPT ![k] = RoomOf(channel'[k], Contains(channels', k))]
  BY <1>1, <1>5, RoomsChange
<1>8. rooms[k] = RoomOf(o, b) /\ rooms' = [rooms EXCEPT ![k] = RoomOf(r, b)]
  BY <1>1, <1>3, <1>5, <1>7, RoomAt
<1>9. PICK x : x = ToSet(s)
  OBVIOUS
<1>10. /\ rooms[k].modes = ToSet(o.modes)
       /\ [rooms[k] EXCEPT !.modes = x] = [name |-> o.name, modes |-> x, listed |-> b]
  BY <1>4, <1>8, RoomFields
<1>11. RoomOf(r, b) = [name |-> o.name, modes |-> x, listed |-> b]
  BY <1>4, <1>6, <1>9 DEF RoomOf
<1>12. rooms' = [rooms EXCEPT ![k] = [rooms[k] EXCEPT !.modes = x]]
  BY <1>8, <1>10, <1>11
<1>13. rooms[k] # NULL
  BY <1>0, RoomFacts
<1>14. x \in Abstract!Changed(rooms[k].modes, m)
  BY <1>3, <1>9, <1>10
<1>15. Abstract!ChannelMode(k, m)
  BY <1>12, <1>13, <1>14 DEF Abstract!ChannelMode
<1>16. QED
  BY <1>2, <1>15 DEF Abstract!Next

LEMMA MemberModeStep ==
    ASSUME DirectoryInv, DirectoryInv', NEW p \in Members, NEW m \in Mode, Call,
           NEW s \in Seq(Mode), ToSet(s) \in Abstract!Changed(ToSet(channeluser[p]), m),
           channeluser' = [channeluser EXCEPT ![p] = s], UNCHANGED <<tables, user, channel>>
    PROVE  Abstract!Next
<1>0. ContextInv
  BY DEF DirectoryInv
<1>1. PICK k \in Channel, u \in User : p = <<k, u>>
  BY DEF Members
<1>2. people' = people /\ rooms' = rooms
  BY SamePeople, SameRooms DEF tables
<1>3. Abstract!ChangeMembers
  BY <1>2, MembersStep
<1>4. p \in Channel \X User
  BY DEF Members
<1>5. channeluser'[p] = s /\ \A q \in (Channel \X User) \ {p} : channeluser'[q] = channeluser[q]
  BY <1>0, <1>4 DEF ContextInv, HeapTypes
<1>6. s # NULL
  BY StructsAssumption DEF chirc_channeluser_t
<1>7. members' = [members EXCEPT ![p] = ToSet(s)]
  <2>1. ToSet(s) = IF channeluser'[p] = NULL THEN NULL ELSE ToSet(channeluser'[p])
    BY <1>5, <1>6
  <2>2. QED
    BY <1>4, <1>5, <2>1, MembersChange
<1>8. members[p] # NULL /\ members[p] = ToSet(channeluser[p])
  BY <1>0, <1>4, MemberFacts
<1>9. Abstract!MemberMode(k, u, m)
  BY <1>1, <1>7, <1>8 DEF Abstract!MemberMode
<1>10. QED
  BY <1>3, <1>9 DEF Abstract!Next

LEMMA ModesStep ==
    ASSUME DirectoryInv, DirectoryInv', NEW m \in Mode, SetMode(m) \/ RemoveMode(m)
    PROVE  Abstract!Next
<1>0. ContextInv /\ ModesOK
  BY DEF DirectoryInv
<1>1. Call /\ UNCHANGED tables
  BY DEF SetMode, RemoveMode
<1>2. PICK f \in [Seq(Mode) -> Seq(Mode)] :
          \A s \in Seq(Mode) : f[s] = IF SetMode(m) THEN set_mode(s, m) ELSE remove_mode(s, m)
  <2>1. [s \in Seq(Mode) |-> IF SetMode(m) THEN set_mode(s, m) ELSE remove_mode(s, m)]
            \in [Seq(Mode) -> Seq(Mode)]
    BY SetModeSeq
  <2>2. QED
    BY <2>1
<1>3. ASSUME NEW s \in Seq(Mode), Once(s)
      PROVE  f[s] \in Seq(Mode) /\ ToSet(f[s]) \in Abstract!Changed(ToSet(s), m)
  <2>1. ToSet(f[s]) = ToSet(s) \union {m} \/ ToSet(f[s]) = ToSet(s) \ {m}
    BY <1>2, <1>3, ModesAsSets
  <2>2. QED
    BY <2>1 DEF Abstract!Changed
<1>4. /\ \A u \in UserPlaces : u \in User /\ user[u] # NULL /\ user[u].modes \in Seq(Mode)
                               /\ Once(user[u].modes)
      /\ \A k \in ChannelPlaces : k \in Channel /\ channel[k] # NULL /\ channel[k].modes \in Seq(Mode)
                                  /\ Once(channel[k].modes)
      /\ \A p \in Members : channeluser[p] \in Seq(Mode) /\ Once(channeluser[p])
  BY <1>0 DEF ContextInv, HeapTypes, ModesOK, UserPlaces, ChannelPlaces, Members, chirc_user_t,
              chirc_channel_t, chirc_channeluser_t
<1>5. \/ /\ \E u \in UserPlaces : user' = [user EXCEPT ![u].modes = f[user[u].modes]]
         /\ UNCHANGED <<channel, channeluser>>
      \/ /\ \E k \in ChannelPlaces : channel' = [channel EXCEPT ![k].modes = f[channel[k].modes]]
         /\ UNCHANGED <<user, channeluser>>
      \/ /\ \E p \in Members : channeluser' = [channeluser EXCEPT ![p] = f[channeluser[p]]]
         /\ UNCHANGED <<user, channel>>
  <2>1. CASE SetMode(m)
    BY <1>2, <1>4, <2>1 DEF SetMode
  <2>2. CASE ~SetMode(m)
    BY <1>2, <1>4, <2>2 DEF RemoveMode
  <2>3. QED
    BY <2>1, <2>2
<1>6. ASSUME NEW u \in UserPlaces, user' = [user EXCEPT ![u].modes = f[user[u].modes]],
             UNCHANGED <<channel, channeluser>>
      PROVE  Abstract!Next
  <2>1. PICK s \in Seq(Mode) : s = f[user[u].modes]
    BY <1>3, <1>4
  <2>2. ToSet(s) \in Abstract!Changed(ToSet(user[u].modes), m)
    BY <1>3, <1>4, <2>1
  <2>3. u \in User /\ user[u] # NULL /\ user' = [user EXCEPT ![u].modes = s]
    BY <1>4, <1>6, <2>1
  <2>4. UNCHANGED <<tables, channel, channeluser>>
    BY <1>1, <1>6
  <2>5. QED
    BY <1>1, <2>2, <2>3, <2>4, UserModeStep
<1>7. ASSUME NEW k \in ChannelPlaces, channel' = [channel EXCEPT ![k].modes = f[channel[k].modes]],
             UNCHANGED <<user, channeluser>>
      PROVE  Abstract!Next
  <2>1. PICK s \in Seq(Mode) : s = f[channel[k].modes]
    BY <1>3, <1>4
  <2>2. ToSet(s) \in Abstract!Changed(ToSet(channel[k].modes), m)
    BY <1>3, <1>4, <2>1
  <2>3. k \in Channel /\ channel[k] # NULL /\ channel' = [channel EXCEPT ![k].modes = s]
    BY <1>4, <1>7, <2>1
  <2>4. UNCHANGED <<tables, user, channeluser>>
    BY <1>1, <1>7
  <2>5. QED
    BY <1>1, <2>2, <2>3, <2>4, ChannelModeStep
<1>8. ASSUME NEW p \in Members, channeluser' = [channeluser EXCEPT ![p] = f[channeluser[p]]],
             UNCHANGED <<user, channel>>
      PROVE  Abstract!Next
  <2>1. PICK s \in Seq(Mode) : s = f[channeluser[p]]
    BY <1>3, <1>4
  <2>2. ToSet(s) \in Abstract!Changed(ToSet(channeluser[p]), m)
    BY <1>3, <1>4, <2>1
  <2>3. channeluser' = [channeluser EXCEPT ![p] = s] /\ UNCHANGED <<tables, user, channel>>
    BY <1>1, <1>8, <2>1
  <2>4. QED
    BY <1>1, <2>2, <2>3, MemberModeStep
<1>9. QED
  BY <1>5, <1>6, <1>7, <1>8

LEMMA AddConnectionStep ==
    ASSUME DirectoryInv, DirectoryInv', NEW s \in Socket, AddConnection(s)
    PROVE  Abstract!Next
<1>1. Connections(connections)
  BY DEF DirectoryInv
<1>2. PICK t : t = connections'
  OBVIOUS
<1>3. /\ Call /\ UNCHANGED <<users, channels, heap>>
      /\ Found(connections, LAMBDA x : x.socket = s) = NULL
      /\ t = Append(connections, [chirc_connection_init EXCEPT !.socket = s])
  BY <1>2 DEF AddConnection
<1>4. Abstract!ChangeOpen
  BY <1>3, OpenStep
<1>5. TypeIn(connections, s) = NULL /\ Retyped(connections, t, s, "unknown")
  BY <1>1, <1>2, AddedConnection DEF AddConnection
<1>6. open' = [open EXCEPT ![s] = "unknown"]
  BY <1>2, <1>5, OpenChange
<1>7. Abstract!AddConnection(s)
  BY <1>5, <1>6 DEF Abstract!AddConnection, open
<1>8. QED
  BY <1>4, <1>7 DEF Abstract!Next

LEMMA RemoveConnectionStep ==
    ASSUME DirectoryInv, DirectoryInv', NEW i \in DOMAIN connections, RemoveConnection(i)
    PROVE  Abstract!Next
<1>1. Connections(connections)
  BY DEF DirectoryInv
<1>2. PICK t : t = connections'
  OBVIOUS
<1>3. Call /\ UNCHANGED <<users, channels, heap>> /\ t = RemoveAt(connections, i)
  BY <1>2 DEF RemoveConnection
<1>4. Abstract!ChangeOpen
  BY <1>3, OpenStep
<1>5. connections[i] \in chirc_connection_t
  BY <1>1 DEF Connections
<1>6. PICK s \in Socket : s = connections[i].socket
  BY <1>5 DEF chirc_connection_t
<1>7. Retyped(connections, t, s, NULL)
  BY <1>1, <1>3, <1>6, RemovedConnection
<1>8. open' = [open EXCEPT ![s] = NULL]
  BY <1>2, <1>7, OpenChange
<1>9. open[s] # NULL
  <2>1. TypeIn(connections, s) = connections[i].type
    BY <1>1, <1>6, FoundConnection
  <2>2. connections[i].type # NULL
    BY <1>5, DirectoryAssumption DEF chirc_connection_t
  <2>3. QED
    BY <2>1, <2>2 DEF open
<1>10. Abstract!RemoveConnection(s)
  BY <1>8, <1>9 DEF Abstract!RemoveConnection
<1>11. QED
  BY <1>4, <1>10 DEF Abstract!Next

LEMMA IdentifyStep ==
    ASSUME DirectoryInv, DirectoryInv', NEW i \in DOMAIN connections, Identify(i)
    PROVE  Abstract!Next
<1>1. Connections(connections)
  BY DEF DirectoryInv
<1>2. PICK t : t = connections'
  OBVIOUS
<1>3. PICK r \in {"user", "server"} : t = [connections EXCEPT ![i].type = r]
  BY <1>2 DEF Identify
<1>4. Call /\ UNCHANGED <<users, channels, heap>> /\ connections[i].type = "unknown"
  BY DEF Identify
<1>5. Abstract!ChangeOpen
  BY <1>4, OpenStep
<1>6. PICK s \in Socket : s = connections[i].socket
  <2>1. connections[i] \in chirc_connection_t
    BY <1>1 DEF Connections
  <2>2. QED
    BY <2>1 DEF chirc_connection_t
<1>7. Retyped(connections, t, s, r)
  BY <1>1, <1>3, <1>6, IdentifiedConnection
<1>8. open' = [open EXCEPT ![s] = r]
  BY <1>2, <1>7, OpenChange
<1>9. open[s] = "unknown"
  <2>1. TypeIn(connections, s) = connections[i].type
    BY <1>1, <1>6, FoundConnection
  <2>2. QED
    BY <1>4, <2>1 DEF open
<1>10. Abstract!Identify(s)
  BY <1>8, <1>9 DEF Abstract!Identify
<1>11. QED
  BY <1>5, <1>10 DEF Abstract!Next

LEMMA FreeStep ==
    ASSUME DirectoryInv, DirectoryInv', chirc_ctx_free
    PROVE  Abstract!Next
<1>0. ContextInv /\ ListsOK
  BY DEF DirectoryInv, ContextInv
<1>1. phase = "running"
  BY DEF chirc_ctx_free
<1>2. \A u : u \in ToSet(users) <=> InTable(users, u)
  BY <1>0, ListFacts DEF Contains, ToSet, InTable
<1>3. CASE (\E u \in ToSet(users) : user[u].channels # <<>>) /\ Abort
  <2>1. PICK u \in User : user[u] # NULL /\ user[u].channels # <<>>
    BY <1>0, <1>2, <1>3, ListFacts
  <2>2. people[u] # NULL /\ Abstract!Of(u) # {}
    BY <1>0, <2>1, PeopleFacts, TableEmpty
  <2>3. QED
    BY <1>1, <1>3, <2>2, AbortStep
<1>4. CASE /\ \A u \in ToSet(users) : user[u].channels = <<>>
           /\ phase' = "freed"
           /\ users' = <<>> /\ channels' = <<>> /\ connections' = <<>>
           /\ UNCHANGED <<args, opts, lines, servers, this_server, heap>>
  <2>1. state = "up" /\ state' = "freed" /\ Abstract!Up
    BY <1>1, <1>4, UpStep DEF state
  <2>2. \A u \in Abstract!Listed(people) : Abstract!Of(u) = {}
    BY <1>0, <1>2, <1>4, ListedFacts, ListFacts, TableEmpty
  <2>3. user' = user /\ channel' = channel /\ channeluser' = channeluser
    BY <1>4 DEF heap
  <2>4. PICK t : t = <<>> /\ t = users' /\ t = channels' /\ t = connections'
    BY <1>4
  <2>5. PICK no : no = FALSE
    OBVIOUS
  <2>6. \A x : Contains(t, x) = no
    <3>1. \A x : ~Contains(t, x)
      BY <2>4 DEF Contains
    <3>2. \A x : Contains(t, x) \in BOOLEAN
      BY DEF Contains
    <3>3. QED
      BY <2>5, <3>1, <3>2
  <2>7. people' = [u \in User |-> IF people[u] = NULL THEN NULL ELSE [people[u] EXCEPT !.listed = no]]
    <3>1. people' = [u \in User |-> PersonOf(user[u], no)]
      <4>1. people' = [u \in User |-> PersonOf(user'[u], Contains(users', u))]
        BY DEF people, PersonOf
      <4>2. \A u \in User : PersonOf(user'[u], Contains(users', u)) = PersonOf(user[u], no)
        BY <2>3, <2>4, <2>6
      <4>3. QED
        BY <4>1, <4>2
    <3>2. ASSUME NEW u \in User
          PROVE  PersonOf(user[u], no)
                 = IF people[u] = NULL THEN NULL ELSE [people[u] EXCEPT !.listed = no]
      <4>1. PICK s, b : s = user[u] /\ b = Contains(users, u)
        OBVIOUS
      <4>2. people[u] = PersonOf(s, b)
        BY <4>1, PersonAt
      <4>3. CASE s = NULL
        BY <4>1, <4>2, <4>3 DEF PersonOf
      <4>4. CASE s # NULL
        <5>1. people[u] # NULL
          BY <1>0, <4>1, <4>4, PeopleFacts
        <5>2. [PersonOf(s, b) EXCEPT !.listed = no] = PersonOf(s, no)
          BY <4>4, PersonFields
        <5>3. QED
          BY <4>1, <4>2, <5>1, <5>2
      <4>5. QED
        BY <4>3, <4>4
    <3>3. QED
      BY <3>1, <3>2
  <2>8. rooms' = [k \in Channel |-> IF rooms[k] = NULL THEN NULL ELSE [rooms[k] EXCEPT !.listed = no]]
    <3>1. rooms' = [k \in Channel |-> RoomOf(channel[k], no)]
      <4>1. rooms' = [k \in Channel |-> RoomOf(channel'[k], Contains(channels', k))]
        BY DEF rooms, RoomOf
      <4>2. \A k \in Channel : RoomOf(channel'[k], Contains(channels', k)) = RoomOf(channel[k], no)
        BY <2>3, <2>4, <2>6
      <4>3. QED
        BY <4>1, <4>2
    <3>2. ASSUME NEW k \in Channel
          PROVE  RoomOf(channel[k], no)
                 = IF rooms[k] = NULL THEN NULL ELSE [rooms[k] EXCEPT !.listed = no]
      <4>1. PICK s, b : s = channel[k] /\ b = Contains(channels, k)
        OBVIOUS
      <4>2. rooms[k] = RoomOf(s, b)
        BY <4>1, RoomAt
      <4>3. CASE s = NULL
        BY <4>1, <4>2, <4>3 DEF RoomOf
      <4>4. CASE s # NULL
        <5>1. rooms[k] # NULL
          BY <1>0, <4>1, <4>4, RoomFacts
        <5>2. [RoomOf(s, b) EXCEPT !.listed = no] = RoomOf(s, no)
          BY <4>4, RoomFields
        <5>3. QED
          BY <4>1, <4>2, <5>1, <5>2
      <4>5. QED
        BY <4>3, <4>4
    <3>3. QED
      BY <3>1, <3>2
  <2>9. open' = [s \in Socket |-> NULL]
    <3>1. \A x : TypeIn(t, x) = NULL
      BY <2>4, ClearedConnections
    <3>2. open' = [s \in Socket |-> TypeIn(connections', s)]
      BY DEF open
    <3>3. QED
      BY <2>4, <3>1, <3>2
  <2>10. members' = members
    BY <2>3, SameMembers
  <2>11. Abstract!End
    BY <2>1, <2>2, <2>5, <2>7, <2>8, <2>9, <2>10 DEF Abstract!End
  <2>12. QED
    BY <2>11 DEF Abstract!Next
<1>5. QED
  BY <1>3, <1>4 DEF chirc_ctx_free

LEMMA StartStep == ASSUME Start PROVE UNCHANGED Abstract!vars
<1>1. state' = state
  BY DEF Start, StartNext, ReadOption, ExitOption, EndOfOptions, Incomplete, Standalone, Open,
         LoadLine, LoadFails, Loaded, Run, state
<1>2. UNCHANGED <<users, channels, connections, heap>>
  BY DEF Start, tables
<1>3. QED
  BY <1>1, <1>2, Unseen

LEMMA InitMaps == Init => Abstract!Init
<1> SUFFICES ASSUME Init PROVE Abstract!Init
  OBVIOUS
<1>1. DirectoryInv
  BY InitDirectory
<1>2. counts = Abstract!Tally
  BY <1>1, CountsRight
<1>3. people = [u \in User |-> NULL] /\ rooms = [k \in Channel |-> NULL]
  BY DEF Init, people, rooms
<1>4. members = [p \in Channel \X User |-> NULL]
  BY DEF Init, members
<1>5. open = [s \in Socket |-> NULL]
  <2>1. \A s : TypeIn(connections, s) = NULL
    BY ClearedConnections DEF Init
  <2>2. QED
    BY <2>1 DEF open
<1>6. state = "up"
  BY DEF Init, StartInit, state
<1>7. QED
  BY <1>2, <1>3, <1>4, <1>5, <1>6 DEF Abstract!Init

LEMMA NextMaps ==
    DirectoryInv /\ DirectoryInv' /\ [Next]_vars => [Abstract!Next]_Abstract!vars
<1> SUFFICES ASSUME DirectoryInv, DirectoryInv', [Next]_vars
             PROVE  Abstract!Next \/ UNCHANGED Abstract!vars
  OBVIOUS
<1>1. CASE UNCHANGED vars
  <2>1. UNCHANGED <<users, channels, connections, heap>> /\ state' = state
    BY <1>1 DEF vars, tables, startVars, state
  <2>2. QED
    BY <2>1, Unseen
<1>2. QED
  BY <1>1, StartStep, AddUserStep, RemoveUserStep, FreeUserStep, RegisterStep, AddChannelStep,
     RemoveChannelStep, FreeChannelStep, JoinStep, LeaveStep, AddConnectionStep,
     RemoveConnectionStep, IdentifyStep, ModesStep, FreeStep DEF Next

\* The context keeps the promises of its headers: whatever order its functions are called in,
\* each call changes what a user of the context sees as Directory says or not at all, and
\* the counts (ctx.c:103-154, user.c, channel.c) are those of what is there.
THEOREM DirectoryCorrect == Spec => ImplementsDirectory
<1>1. Init => DirectoryInv
  BY InitDirectory
<1>2. DirectoryInv /\ [Next]_vars => DirectoryInv'
  BY NextDirectory
<1>3. Init => Abstract!Init
  BY InitMaps
<1>4. DirectoryInv /\ DirectoryInv' /\ [Next]_vars => [Abstract!Next]_Abstract!vars
  BY NextMaps
<1>5. QED
  BY <1>1, <1>2, <1>3, <1>4, PTL DEF Spec, ImplementsDirectory, Abstract!Spec

-----------------------------------------------------------------------------
(* The fields of a line *)

LEMMA GreatestNumber ==
    ASSUME NEW n \in Nat, NEW I, I \subseteq 1..n, I # {}
    PROVE  \E m \in I : \A i \in I : i =< m
<1>1. PICK T : T = {k \in Nat : \E i \in I : k = n - i}
  OBVIOUS
<1>2. T \in SUBSET Nat /\ T # {}
  <2>1. PICK i \in I : TRUE
    OBVIOUS
  <2>2. i \in 1..n
    OBVIOUS
  <2>3. n - i \in Nat
    BY <2>2
  <2>4. n - i \in T
    BY <1>1, <2>3
  <2>5. QED
    BY <1>1, <2>4
<1>3. PICK k \in T : \A j \in T : k =< j
  BY <1>2, LeastNumber
<1>4. PICK m \in I : k = n - m
  BY <1>1
<1>5. ASSUME NEW i \in I PROVE i =< m
  <2>1. i \in 1..n /\ m \in 1..n
    OBVIOUS
  <2>2. n - i \in Nat
    BY <2>1
  <2>3. n - i \in T
    BY <1>1, <2>2
  <2>4. k =< n - i
    BY <1>3, <2>3
  <2>5. QED
    BY <1>4, <2>1, <2>4
<1>6. QED
  BY <1>5

\* c is what l has from place x + 1 to place y.
Part(l, x, y, c) ==
    /\ x \in 0..Len(l) /\ y \in x..Len(l) /\ c \in Seq(Byte) /\ Len(c) = y - x
    /\ \A i \in 1..(y - x) : c[i] = l[x + i]

LEMMA SubSeqPart ==
    ASSUME NEW l \in Seq(Byte), NEW x \in 0..Len(l), NEW y \in x..Len(l)
    PROVE  Part(l, x, y, SubSeq(l, x + 1, y))
<1>1. PICK n \in Nat : n = Len(l)
  OBVIOUS
<1>2. x \in 0..n /\ y \in x..n /\ x + 1 \in Int /\ y \in Int /\ y - x \in Nat
  BY <1>1
<1>3. \A i \in (x + 1)..y : i \in 1..n
  BY <1>2
<1>4. \A i \in (x + 1)..y : l[i] \in Byte
  BY <1>1, <1>3
<1>5. PICK c : c = SubSeq(l, x + 1, y)
  OBVIOUS
<1>6. /\ c \in Seq(Byte) /\ Len(c) = IF x + 1 =< y THEN y - (x + 1) + 1 ELSE 0
      /\ \A i \in 1..(y - (x + 1) + 1) : c[i] = l[(x + 1) + i - 1]
  BY <1>2, <1>4, <1>5, SubSeqProperties
<1>7. Len(c) = y - x /\ y - (x + 1) + 1 = y - x /\ \A i \in 1..(y - x) : (x + 1) + i - 1 = x + i
  <2>1. x \in Int /\ y \in Int /\ x =< y
    BY <1>2
  <2>2. y - (x + 1) + 1 = y - x /\ (IF x + 1 =< y THEN y - (x + 1) + 1 ELSE 0) = y - x
    BY <2>1
  <2>3. \A i \in Int : (x + 1) + i - 1 = x + i
    BY <2>1
  <2>4. \A i \in 1..(y - x) : i \in Int
    OBVIOUS
  <2>5. QED
    BY <1>6, <2>2, <2>3, <2>4, Zenon
<1>8. \A i \in 1..(y - x) : c[i] = l[x + i]
  BY <1>6, <1>7
<1>9. QED
  BY <1>1, <1>2, <1>5, <1>6, <1>7, <1>8 DEF Part

LEMMA PartUnique ==
    ASSUME NEW l, NEW x, NEW y, NEW c, NEW d, Part(l, x, y, c), Part(l, x, y, d)
    PROVE  c = d
<1>1. PICK n : n = y - x
  OBVIOUS
<1>2. /\ c \in Seq(Byte) /\ Len(c) = n /\ d \in Seq(Byte) /\ Len(d) = n
      /\ \A i \in 1..n : c[i] = l[x + i] /\ d[i] = l[x + i]
  BY <1>1 DEF Part
<1>3. c = [i \in 1..n |-> c[i]] /\ d = [i \in 1..n |-> d[i]]
  BY <1>2
<1>4. QED
  BY <1>2, <1>3

\* A part of a part.
LEMMA PartOfPart ==
    ASSUME NEW l, NEW x, NEW y, NEW c, Part(l, x, y, c), Len(l) \in Nat,
           NEW a, NEW b, NEW d, Part(c, a, b, d)
    PROVE  Part(l, x + a, x + b, d)
<1>1. PICK n \in Nat : n = Len(l)
  OBVIOUS
<1>2. x \in 0..n /\ y \in x..n /\ Len(c) = y - x
  BY <1>1 DEF Part
<1>3. a \in 0..(y - x) /\ b \in a..(y - x) /\ d \in Seq(Byte) /\ Len(d) = b - a
  BY <1>2 DEF Part
<1>4. x + a \in 0..n /\ x + b \in (x + a)..n /\ (x + b) - (x + a) = b - a
  BY <1>2, <1>3
<1>5. ASSUME NEW i \in 1..(b - a) PROVE d[i] = l[(x + a) + i]
  <2>1. a + i \in 1..(y - x) /\ x + (a + i) = (x + a) + i
    BY <1>2, <1>3
  <2>2. d[i] = c[a + i]
    BY DEF Part
  <2>3. c[a + i] = l[x + (a + i)]
    BY <2>1 DEF Part
  <2>4. QED
    BY <2>1, <2>2, <2>3
<1>6. QED
  BY <1>1, <1>3, <1>4, <1>5 DEF Part

LEMMA CStringPart ==
    ASSUME NEW l \in Seq(Byte)
    PROVE  \E k \in 0..Len(l) : /\ Part(l, 0, k, CString(l))
                                /\ \A i \in 1..k : l[i] # NUL
                                /\ k # Len(l) => l[k + 1] = NUL
<1>1. PICK n \in Nat : n = Len(l)
  OBVIOUS
<1>2. PICK I : I = {i \in 1..n : l[i] = NUL}
  OBVIOUS
<1>3. CASE I = {}
  <2>1. CString(l) = l /\ \A i \in 1..n : l[i] # NUL
    BY <1>1, <1>2, <1>3 DEF CString
  <2>2. 0 \in 0..n /\ n \in 0..n /\ n - 0 = n /\ \A i \in 1..n : 0 + i = i
    OBVIOUS
  <2>3. Part(l, 0, n, l)
    BY <1>1, <2>2 DEF Part
  <2>4. QED
    BY <1>1, <2>1, <2>2, <2>3
<1>4. CASE I # {}
  <2>1. I \in SUBSET Nat
    BY <1>2
  <2>2. \E m \in I : \A i \in I : m =< i
    BY <1>4, <2>1, LeastNumber
  <2>3. \E m \in 1..n : l[m] = NUL /\ \A j \in 1..(m - 1) : l[j] # NUL
    <3>1. PICK m \in I : \A i \in I : m =< i
      BY <2>2
    <3>2. ASSUME NEW j \in 1..(m - 1), l[j] = NUL PROVE FALSE
      <4>1. m \in 1..n
        BY <1>2
      <4>2. j \in 1..n /\ ~(m =< j)
        BY <4>1
      <4>3. QED
        BY <1>2, <3>1, <3>2, <4>2
    <3>3. QED
      BY <1>2, <3>2
  <2>4. PICK m : m = CHOOSE i \in 1..n : l[i] = NUL /\ \A j \in 1..(i - 1) : l[j] # NUL
    OBVIOUS
  <2>5. m \in 1..n /\ l[m] = NUL /\ \A j \in 1..(m - 1) : l[j] # NUL
    BY <2>3, <2>4
  <2>6. PICK k : k = m - 1
    OBVIOUS
  <2>7. k \in 0..n /\ k + 1 = m
    BY <2>5, <2>6
  <2>8. CString(l) = SubSeq(l, 1, k)
    BY <1>1, <2>4, <2>5, <2>6 DEF CString
  <2>9. 0 \in 0..n /\ 0 + 1 = 1 /\ k \in 0..n
    BY <2>7
  <2>10. Part(l, 0, k, SubSeq(l, 1, k))
    BY <1>1, <2>9, SubSeqPart
  <2>11. QED
    BY <1>1, <2>5, <2>6, <2>7, <2>8, <2>10
<1>5. QED
  BY <1>3, <1>4

LEMMA StrchrBlank ==
    \A c : strchr(<<SPACE, CR, LF>>, c) <=> c \in {NUL, SPACE, CR, LF}
<1> TAKE c
<1>1. PICK set : set = <<SPACE, CR, LF>>
  OBVIOUS
<1>2. Len(set) = 3 /\ set[1] = SPACE /\ set[2] = CR /\ set[3] = LF
  BY <1>1
<1>3. \A i : i \in 1..3 <=> i = 1 \/ i = 2 \/ i = 3
  OBVIOUS
<1>4. strchr(set, c) <=> c = NUL \/ \E i \in 1..3 : set[i] = c
  BY <1>2 DEF strchr
<1>5. QED
  BY <1>1, <1>2, <1>3, <1>4

\* What sdstrim leaves of a line is its row.
LEMMA RowPart ==
    ASSUME NEW l \in Seq(Byte), NEW c, c = Trimmed(CString(l))
    PROVE  \E x, y : Part(l, x, y, c) /\ Row(l) = (x + 1)..y
<1>1. PICK n \in Nat : n = Len(l)
  OBVIOUS
<1>2. PICK k \in 0..n : /\ Part(l, 0, k, CString(l))
                        /\ \A i \in 1..k : l[i] # NUL
                        /\ k # n => l[k + 1] = NUL
  BY <1>1, CStringPart
<1>3. PICK d \in Seq(Byte) : d = CString(l)
  BY <1>2 DEF Part
<1>4. Len(d) = k /\ \A i \in 1..k : d[i] = l[i]
  <2>1. k - 0 = k /\ \A i \in 1..k : 0 + i = i
    OBVIOUS
  <2>2. QED
    BY <1>2, <1>3, <2>1 DEF Part
<1>5. PICK kept : kept = {i \in 1..k : ~strchr(<<SPACE, CR, LF>>, d[i])}
  OBVIOUS
<1>6. c = IF kept = {} THEN <<>>
          ELSE SubSeq(d, CHOOSE i \in kept : \A j \in kept : i =< j,
                         CHOOSE i \in kept : \A j \in kept : j =< i)
  <2>1. kept = {i \in 1..Len(d) : ~strchr(<<SPACE, CR, LF>>, d[i])}
    BY <1>4, <1>5
  <2>2. c = Trimmed(d)
    BY <1>3
  <2>3. QED
    BY <2>1, <2>2, Zenon DEF Trimmed
<1>7. kept = {i \in 1..n : l[i] \notin {SPACE, CR, LF} /\ \A j \in 1..i : l[j] # NUL}
  <2>1. ASSUME NEW i \in kept
        PROVE  i \in 1..n /\ l[i] \notin {SPACE, CR, LF} /\ \A j \in 1..i : l[j] # NUL
    <3>1. i \in 1..k /\ i \in 1..n /\ \A j \in 1..i : j \in 1..k
      BY <1>5
    <3>2. QED
      BY <1>2, <1>4, <1>5, <3>1, StrchrBlank
  <2>2. ASSUME NEW i \in 1..n, l[i] \notin {SPACE, CR, LF}, \A j \in 1..i : l[j] # NUL
        PROVE  i \in kept
    <3>1. i \in 1..k
      <4> SUFFICES ASSUME ~(i =< k) PROVE FALSE
        OBVIOUS
      <4>1. k # n /\ k + 1 \in 1..i
        OBVIOUS
      <4>2. QED
        BY <1>2, <2>2, <4>1
    <3>2. i \in 1..i
      OBVIOUS
    <3>3. d[i] \notin {NUL, SPACE, CR, LF}
      BY <1>4, <2>2, <3>1, <3>2
    <3>4. QED
      BY <1>5, <3>1, <3>3, StrchrBlank
  <2>3. QED
    BY <2>1, <2>2
<1>8. Row(l) = {i \in 1..n : \E a, b \in kept : a =< i /\ i =< b}
  BY <1>1, <1>7, Zenon DEF Row
<1>9. CASE kept = {}
  <2>1. c = <<>> /\ Row(l) = {} /\ (0 + 1)..0 = {} /\ 0 \in 0..n /\ 0 - 0 = 0
    BY <1>6, <1>8, <1>9
  <2>2. Part(l, 0, 0, <<>>)
    BY <1>1, <2>1 DEF Part
  <2>3. QED
    BY <2>1, <2>2
<1>10. CASE kept # {}
  <2>1. kept \subseteq 1..k /\ kept \in SUBSET Nat
    BY <1>5
  <2>2. \E m \in kept : \A i \in kept : m =< i
    BY <1>10, <2>1, LeastNumber
  <2>3. \E m \in kept : \A i \in kept : i =< m
    <3>1. k \in Nat
      OBVIOUS
    <3>2. QED
      BY <1>10, <2>1, <3>1, GreatestNumber
  <2>4. PICK lo : lo = CHOOSE i \in kept : \A j \in kept : i =< j
    OBVIOUS
  <2>5. PICK hi : hi = CHOOSE i \in kept : \A j \in kept : j =< i
    OBVIOUS
  <2>6. lo \in kept /\ (\A j \in kept : lo =< j) /\ hi \in kept /\ (\A j \in kept : j =< hi)
    BY <2>2, <2>3, <2>4, <2>5
  <2>7. c = SubSeq(d, lo, hi)
    BY <1>6, <1>10, <2>4, <2>5, Zenon
  <2>8. PICK x : x = lo - 1
    OBVIOUS
  <2>9. lo \in 1..k /\ hi \in 1..k /\ lo =< hi
    BY <2>1, <2>6
  <2>10. x \in 0..k /\ hi \in x..k /\ x + 1 = lo
    BY <2>8, <2>9
  <2>11. Part(d, x, hi, c)
    BY <1>4, <2>7, <2>10, SubSeqPart
  <2>12. Part(l, 0 + x, 0 + hi, c)
    BY <1>1, <1>2, <1>3, <2>11, PartOfPart
  <2>13. 0 + x = x /\ 0 + hi = hi
    BY <2>9, <2>10
  <2>14. Row(l) = lo..hi
    <3>1. ASSUME NEW i \in lo..hi PROVE i \in 1..n
      BY <2>9
    <3>2. ASSUME NEW i \in 1..n, NEW a \in kept, NEW b \in kept, a =< i, i =< b PROVE i \in lo..hi
      <4>1. lo =< a /\ b =< hi /\ a \in 1..k /\ b \in 1..k
        BY <2>1, <2>6
      <4>2. QED
        BY <2>9, <3>2, <4>1
    <3>3. ASSUME NEW i \in lo..hi PROVE lo =< i /\ i =< hi
      BY <2>9
    <3>4. QED
      BY <1>8, <2>6, <3>1, <3>2, <3>3
  <2>15. QED
    BY <2>10, <2>12, <2>13, <2>14
<1>11. QED
  BY <1>9, <1>10

-----------------------------------------------------------------------------
(* Commas are counted *)

\* How many commas are before place k of c, and at it.
Counted(C, c) ==
    /\ C \in [0..Len(c) -> Nat] /\ C[0] = 0
    /\ \A k \in 1..Len(c) : C[k] = IF c[k] = COMMA THEN C[k - 1] + 1 ELSE C[k - 1]

LEMMA CountedGrows ==
    ASSUME NEW c \in Seq(Byte), NEW C, Counted(C, c), NEW i \in 0..Len(c), NEW j \in i..Len(c)
    PROVE  C[i] \in Nat /\ C[j] \in Nat /\ C[i] =< C[j]
<1>1. PICK n \in Nat : n = Len(c)
  OBVIOUS
<1>2. /\ \A k \in 0..n : C[k] \in Nat
      /\ \A k \in 1..n : C[k] = IF c[k] = COMMA THEN C[k - 1] + 1 ELSE C[k - 1]
  BY <1>1 DEF Counted
<1>3. i \in 0..n /\ j \in i..n
  BY <1>1
<1>4. PICK T : T = {k \in 0..n : i =< k => C[i] =< C[k]}
  OBVIOUS
<1>5. 0 \in T
  <2>1. 0 \in 0..n /\ (i =< 0 => i = 0)
    BY <1>3
  <2>2. C[i] \in Nat
    BY <1>2, <1>3
  <2>3. QED
    BY <1>4, <2>1, <2>2
<1>6. \A k \in 0..(n - 1) : k \in T => k + 1 \in T
  <2> SUFFICES ASSUME NEW k \in 0..(n - 1), k \in T PROVE k + 1 \in T
    OBVIOUS
  <2>1. k \in 0..n /\ k + 1 \in 0..n /\ k + 1 \in 1..n /\ (k + 1) - 1 = k
    OBVIOUS
  <2>2. C[k] \in Nat /\ C[k + 1] \in Nat /\ C[i] \in Nat
    BY <1>2, <1>3, <2>1
  <2>3. C[k + 1] = IF c[k + 1] = COMMA THEN C[k] + 1 ELSE C[k]
    BY <1>2, <2>1
  <2>4. C[k] =< C[k + 1]
    BY <2>2, <2>3
  <2>5. ASSUME i =< k + 1 PROVE C[i] =< C[k + 1]
    <3>1. CASE i = k + 1
      BY <2>2, <3>1
    <3>2. CASE i # k + 1
      <4>1. i =< k
        BY <1>3, <2>1, <2>5, <3>2
      <4>2. C[i] =< C[k]
        BY <1>4, <4>1
      <4>3. QED
        BY <2>2, <2>4, <4>2
    <3>3. QED
      BY <3>1, <3>2
  <2>6. QED
    BY <1>4, <2>1, <2>5
<1>7. j \in T
  <2>1. \A k \in 0..n : k \in T
    BY <1>5, <1>6, InductionTo
  <2>2. j \in 0..n
    BY <1>3
  <2>3. QED
    BY <2>1, <2>2
<1>8. QED
  <2>1. i =< j /\ j \in 0..n
    BY <1>3
  <2>2. QED
    BY <1>2, <1>3, <1>4, <1>7, <2>1

\* The commas of a line, counted up to each place of its row.
LEMMA CommasCounted ==
    ASSUME NEW l \in Seq(Byte), NEW x, NEW y, NEW c, Part(l, x, y, c), Row(l) = (x + 1)..y,
           NEW C, C = [k \in 0..(y - x) |-> Cardinality({i \in Commas(l) : i =< x + k})]
    PROVE  Counted(C, c) /\ C[y - x] = Cardinality(Commas(l))
<1>1. PICK n \in Nat : n = y - x
  BY DEF Part
<1>2. x \in Nat /\ y \in Nat /\ y = x + n /\ Len(c) = n /\ \A k \in 1..n : c[k] = l[x + k]
  <2>1. Len(l) \in Nat /\ x \in 0..Len(l) /\ y \in x..Len(l) /\ Len(c) = y - x
        /\ \A i \in 1..(y - x) : c[i] = l[x + i]
    BY DEF Part
  <2>2. QED
    BY <1>1, <2>1
<1>3. PICK S : S = Commas(l)
  OBVIOUS
<1>4. S = {i \in (x + 1)..y : l[i] = COMMA}
  BY <1>3 DEF Commas
<1>5. IsFiniteSet((x + 1)..y)
  <2>1. x + 1 \in Int /\ y \in Int
    BY <1>2
  <2>2. QED
    BY <2>1, FS_Interval
<1>6. \A T \in SUBSET S : IsFiniteSet(T) /\ Cardinality(T) \in Nat
  <2> TAKE T \in SUBSET S
  <2>1. T \in SUBSET ((x + 1)..y)
    BY <1>4
  <2>2. IsFiniteSet(T)
    BY <1>5, <2>1, FS_Subset
  <2>3. QED
    BY <2>2, FS_CardinalityType
<1>7. PICK B : B = [k \in 0..n |-> {i \in S : i =< x + k}]
  OBVIOUS
<1>8. \A k \in 0..n : B[k] = {i \in S : i =< x + k} /\ B[k] \in SUBSET S
  BY <1>7
<1>9. C = [k \in 0..n |-> Cardinality({i \in S : i =< x + k})]
  BY <1>1, <1>3
<1>10. \A k \in 0..n : C[k] = Cardinality(B[k])
  BY <1>8, <1>9
<1>11. \A k \in 0..n : C[k] \in Nat
  BY <1>6, <1>8, <1>10
<1>12. C[0] = 0
  <2>1. 0 \in 0..n /\ x + 0 = x /\ \A i \in S : ~(i =< x)
    BY <1>2, <1>4
  <2>2. B[0] = {}
    BY <1>8, <2>1
  <2>3. QED
    BY <1>10, <2>1, <2>2, FS_EmptySet
<1>13. ASSUME NEW k \in 1..n PROVE C[k] = IF c[k] = COMMA THEN C[k - 1] + 1 ELSE C[k - 1]
  <2>1. k \in 0..n /\ k - 1 \in 0..n /\ x + k \in (x + 1)..y /\ x + (k - 1) = (x + k) - 1
    BY <1>2
  <2>2. c[k] = l[x + k]
    BY <1>2
  <2>3. \A i \in S : i =< x + k <=> i =< x + (k - 1) \/ i = x + k
    <3>1. \A i \in S : i \in Int
      BY <1>2, <1>4
    <3>2. x + k \in Int /\ x + (k - 1) = (x + k) - 1
      BY <1>2, <2>1
    <3>3. \A i \in Int : i =< x + k <=> i =< (x + k) - 1 \/ i = x + k
      BY <3>2
    <3>4. QED
      BY <3>1, <3>2, <3>3
  <2>4. x + k \notin B[k - 1]
    BY <1>2, <1>8, <2>1
  <2>5. CASE c[k] = COMMA
    <3>1. x + k \in S
      BY <1>4, <2>1, <2>2, <2>5
    <3>2. B[k] = B[k - 1] \union {x + k}
      BY <1>8, <2>1, <2>3, <3>1
    <3>3. IsFiniteSet(B[k - 1])
      BY <1>6, <1>8, <2>1
    <3>4. Cardinality(B[k]) = Cardinality(B[k - 1]) + 1
      BY <2>4, <3>2, <3>3, FS_AddElement
    <3>5. QED
      BY <1>10, <2>1, <2>5, <3>4
  <2>6. CASE c[k] # COMMA
    <3>1. x + k \notin S
      BY <1>4, <2>2, <2>6
    <3>2. B[k] = B[k - 1]
      BY <1>8, <2>1, <2>3, <3>1
    <3>3. QED
      BY <1>10, <2>1, <2>6, <3>2
  <2>7. QED
    BY <2>5, <2>6
<1>14. C \in [0..n -> Nat]
  BY <1>9, <1>11
<1>15. Counted(C, c)
  BY <1>2, <1>12, <1>13, <1>14 DEF Counted
<1>16. B[n] = S
  <2>1. n \in 0..n /\ \A i \in S : i =< x + n
    BY <1>2, <1>4
  <2>2. QED
    BY <1>8, <2>1
<1>17. QED
  <2>1. n \in 0..n
    OBVIOUS
  <2>2. C[n] = Cardinality(S)
    BY <1>10, <1>16, <2>1
  <2>3. QED
    BY <1>1, <1>3, <1>15, <2>2

-----------------------------------------------------------------------------
(* A line is split at its commas *)

\* p is what c has where n commas are before.
Cut(C, c, n, p) ==
    \E a, b : /\ Part(c, a, b, p)
              /\ \A i \in 1..Len(c) : c[i] # COMMA /\ C[i] = n <=> a < i /\ i =< b

SplitState == [j : Nat, start : Nat, tokens : Seq(Seq(Byte))]

\* The loop of sdssplitlen after k rounds: a place of c is in a token, if it is no comma, by the
\* number of commas before.
SplitAt(C, c, k, r) ==
    /\ k \in 0..Len(c) /\ r \in SplitState /\ r.j = k /\ r.start \in 0..k
    /\ Len(r.tokens) = C[k] /\ C[r.start] = C[k]
    /\ r.start # 0 => c[r.start] = COMMA
    /\ \A n \in 1..Len(r.tokens) : Cut(C, c, n - 1, r.tokens[n])

LEMMA TokenCut ==
    ASSUME NEW c \in Seq(Byte), NEW C, Counted(C, c), NEW k, NEW r, SplitAt(C, c, k, r),
           k = Len(c) \/ (k + 1 \in 1..Len(c) /\ c[k + 1] = COMMA)
    PROVE  /\ Part(c, r.start, k, SubSeq(c, r.start + 1, k))
           /\ Cut(C, c, C[k], SubSeq(c, r.start + 1, k))
<1>1. PICK l \in Nat : l = Len(c)
  OBVIOUS
<1>2. PICK a : a = r.start
  OBVIOUS
<1>3. k \in 0..l /\ a \in 0..k /\ C[a] = C[k] /\ (a # 0 => c[a] = COMMA)
  BY <1>1, <1>2 DEF SplitAt
<1>4. a \in 0..l /\ k \in a..l
  BY <1>3
<1>5. Part(c, a, k, SubSeq(c, a + 1, k))
  BY <1>1, <1>4, SubSeqPart
<1>6. \A i \in 1..l : C[i] = IF c[i] = COMMA THEN C[i - 1] + 1 ELSE C[i - 1]
  BY <1>1 DEF Counted
<1>7. \A i \in 0..l : \A j \in i..l : C[i] \in Nat /\ C[j] \in Nat /\ C[i] =< C[j]
  BY <1>1, CountedGrows
<1>8. ASSUME NEW i \in 1..l, a < i, i =< k PROVE c[i] # COMMA /\ C[i] = C[k]
  <2>1. i - 1 \in 0..l /\ i \in 0..l /\ k \in i..l /\ i - 1 \in a..l /\ a \in 0..l
    BY <1>3, <1>8
  <2>2. C[a] =< C[i - 1] /\ C[i] =< C[k] /\ C[i - 1] \in Nat /\ C[i] \in Nat /\ C[a] \in Nat
    BY <1>7, <2>1
  <2>3. C[i] = IF c[i] = COMMA THEN C[i - 1] + 1 ELSE C[i - 1]
    BY <1>6
  <2>4. QED
    BY <1>3, <2>2, <2>3
<1>9. ASSUME NEW i \in 1..l, i =< a, c[i] # COMMA PROVE C[i] # C[k]
  <2>1. a # 0 /\ c[a] = COMMA /\ i # a /\ a \in 1..l
    BY <1>3, <1>9
  <2>2. i \in 0..l /\ a - 1 \in i..l /\ a \in 0..l
    BY <1>4, <1>9, <2>1
  <2>3. C[i] =< C[a - 1] /\ C[i] \in Nat /\ C[a - 1] \in Nat
    BY <1>7, <2>2
  <2>4. C[a] = C[a - 1] + 1
    BY <1>6, <2>1
  <2>5. QED
    BY <1>3, <2>3, <2>4
<1>10. ASSUME NEW i \in 1..l, k < i, c[i] # COMMA PROVE C[i] # C[k]
  <2>1. k + 1 \in 1..l /\ c[k + 1] = COMMA
    BY <1>1, <1>3, <1>10
  <2>2. k + 1 \in 0..l /\ i \in (k + 1)..l /\ (k + 1) - 1 = k /\ k \in 0..l /\ k \in k..l
    BY <1>3, <1>10, <2>1
  <2>3. C[k + 1] =< C[i] /\ C[k + 1] \in Nat /\ C[i] \in Nat /\ C[k] \in Nat
    BY <1>7, <2>2
  <2>4. C[k + 1] = C[k] + 1
    BY <1>6, <2>1, <2>2
  <2>5. QED
    BY <2>3, <2>4
<1>11. \A i \in 1..l : c[i] # COMMA /\ C[i] = C[k] <=> a < i /\ i =< k
  <2> TAKE i \in 1..l
  <2>1. (a < i /\ i =< k) \/ i =< a \/ k < i
    BY <1>3
  <2>2. a < i /\ i =< k => ~(i =< a) /\ ~(k < i)
    BY <1>3
  <2>3. i =< a => ~(a < i)
    BY <1>3
  <2>4. k < i => ~(i =< k)
    BY <1>3
  <2>5. QED
    BY <1>8, <1>9, <1>10, <2>1, <2>2, <2>3, <2>4
<1>12. Cut(C, c, C[k], SubSeq(c, a + 1, k))
  BY <1>1, <1>5, <1>11 DEF Cut
<1>13. QED
  BY <1>2, <1>5, <1>12

LEMMA SplitNext ==
    ASSUME NEW c \in Seq(Byte), NEW C, Counted(C, c), NEW k, k \in 0..(Len(c) - 1), NEW r, SplitAt(C, c, k, r)
    PROVE  SplitAt(C, c, k + 1, SplitRound(c, <<COMMA>>, r))
<1>1. PICK l \in Nat : l = Len(c)
  OBVIOUS
<1>2. k \in 0..(l - 1) /\ k + 1 \in 1..l /\ k + 1 \in 0..l /\ (k + 1) - 1 = k /\ k \in Nat /\ k + 1 \in Nat
  BY <1>1
<1>3. PICK q : q = SplitRound(c, <<COMMA>>, r)
  OBVIOUS
<1>4. PICK a : a = r.start
  OBVIOUS
<1>5. PICK t : t = r.tokens
  OBVIOUS
<1>6. /\ r \in SplitState /\ r.j = k /\ a \in 0..k /\ t \in Seq(Seq(Byte)) /\ Len(t) = C[k] /\ C[a] = C[k]
      /\ (a # 0 => c[a] = COMMA) /\ \A n \in 1..Len(t) : Cut(C, c, n - 1, t[n])
  BY <1>4, <1>5 DEF SplitAt, SplitState
<1>7. Len(<<COMMA>>) = 1 /\ ~(k >= l - (1 - 1))
  BY <1>2
<1>8. SubSeq(c, k + 1, k + 1) = <<c[k + 1]>>
  <2>1. k + 1 \in 1..l /\ c[k + 1] \in Byte
    BY <1>1, <1>2
  <2>2. PICK d : d = SubSeq(c, k + 1, k + 1)
    OBVIOUS
  <2>3. k \in 0..l /\ k + 1 \in k..l
    BY <1>2
  <2>4. Part(c, k, k + 1, d)
    BY <1>1, <2>2, <2>3, SubSeqPart
  <2>5. d \in Seq(Byte) /\ Len(d) = 1 /\ d[1] = c[k + 1]
    <3>1. (k + 1) - k = 1 /\ 1 \in 1..1
      BY <1>2
    <3>2. QED
      BY <2>4, <3>1 DEF Part
  <2>6. d = <<d[1]>>
    <3>1. 1..Len(d) = {1} /\ DOMAIN d = 1..Len(d)
      BY <2>5
    <3>2. d = [i \in 1..Len(d) |-> d[i]]
      BY <2>5
    <3>3. QED
      BY <2>5, <3>1, <3>2
  <2>7. QED
    BY <2>2, <2>5, <2>6
<1>9. <<c[k + 1]>> = <<COMMA>> <=> c[k + 1] = COMMA
  OBVIOUS
<1>10. C[k + 1] = IF c[k + 1] = COMMA THEN C[k] + 1 ELSE C[k]
  BY <1>1, <1>2 DEF Counted
<1>11. C[k] \in Nat
  <2>1. k \in 0..l
    BY <1>2
  <2>2. QED
    BY <1>1, <2>1 DEF Counted
<1>12. CASE c[k + 1] # COMMA
  <2>1. q = [r EXCEPT !.j = @ + 1]
    BY <1>1, <1>3, <1>6, <1>7, <1>8, <1>9, <1>12 DEF SplitRound
  <2>2. q \in SplitState /\ q.j = k + 1 /\ q.start = a /\ q.tokens = t
    BY <1>2, <1>4, <1>5, <1>6, <2>1 DEF SplitState
  <2>3. a \in 0..(k + 1) /\ C[k + 1] = C[k]
    BY <1>2, <1>6, <1>10, <1>12
  <2>4. QED
    BY <1>1, <1>2, <1>3, <1>6, <2>2, <2>3 DEF SplitAt
<1>13. CASE c[k + 1] = COMMA
  <2>1. PICK p : p = SubSeq(c, a + 1, k)
    OBVIOUS
  <2>2. k + 1 \in 1..Len(c) /\ c[k + 1] = COMMA
    BY <1>1, <1>2, <1>13
  <2>3. Part(c, a, k, p) /\ Cut(C, c, C[k], p)
    BY <1>4, <2>1, <2>2, TokenCut
  <2>4. PICK u : u = Append(t, p)
    OBVIOUS
  <2>5. PICK m \in Nat : m = Len(t)
    BY <1>6
  <2>6. u \in Seq(Seq(Byte)) /\ Len(u) = m + 1 /\ u[m + 1] = p /\ \A n \in 1..m : u[n] = t[n]
    <3>1. PICK A : A = Seq(Byte)
      OBVIOUS
    <3>2. t \in Seq(A) /\ p \in A
      BY <1>6, <2>3, <3>1 DEF Part
    <3>3. u \in Seq(A) /\ Len(u) = m + 1 /\ u[m + 1] = p /\ \A n \in 1..m : u[n] = t[n]
      BY <2>4, <2>5, <3>2
    <3>4. QED
      BY <3>1, <3>3
  <2>7. q = [j |-> k + 1, start |-> k + 1, tokens |-> u]
    BY <1>1, <1>3, <1>4, <1>5, <1>6, <1>7, <1>8, <1>9, <1>13, <2>1, <2>4 DEF SplitRound
  <2>8. q \in SplitState /\ q.j = k + 1 /\ q.start = k + 1 /\ q.tokens = u
    BY <1>2, <2>6, <2>7 DEF SplitState
  <2>9. \A n \in 1..(m + 1) : Cut(C, c, n - 1, u[n])
    <3> TAKE n \in 1..(m + 1)
    <3>1. CASE n = m + 1
      <4>1. n - 1 = C[k] /\ u[n] = p
        BY <1>6, <2>5, <2>6, <3>1
      <4>2. QED
        BY <2>3, <4>1, Zenon
    <3>2. CASE n # m + 1
      <4>1. n \in 1..m
        BY <3>2
      <4>2. u[n] = t[n] /\ Cut(C, c, n - 1, t[n])
        BY <1>6, <2>5, <2>6, <4>1
      <4>3. QED
        BY <4>2, Zenon
    <3>3. QED
      BY <3>1, <3>2
  <2>10. C[k + 1] = m + 1 /\ k + 1 \in 0..(k + 1)
    BY <1>2, <1>6, <1>10, <1>13, <2>5
  <2>11. QED
    BY <1>1, <1>2, <1>3, <1>13, <2>6, <2>8, <2>9, <2>10 DEF SplitAt
<1>14. QED
  BY <1>12, <1>13

CommaRounds(c, f) ==
    f = [k \in 0..Len(c) |-> IF k = 0 THEN [j |-> 0, start |-> 0, tokens |-> <<>>]
                             ELSE SplitRound(c, <<COMMA>>, f[k - 1])]

LEMMA CommaSplit ==
    ASSUME NEW c \in Seq(Byte), c # <<>>, NEW C, Counted(C, c), NEW t, t = sdssplitlen(c, <<COMMA>>)
    PROVE  /\ t \in Seq(Seq(Byte)) /\ Len(t) = C[Len(c)] + 1
           /\ \A n \in 1..Len(t) : Cut(C, c, n - 1, t[n])
<1>1. PICK l \in Nat : l = Len(c)
  OBVIOUS
<1>2. PICK a : a = [j |-> 0, start |-> 0, tokens |-> <<>>]
  OBVIOUS
<1>3. SplitAt(C, c, 0, a)
  <2>1. <<>> \in Seq(Seq(Byte)) /\ Len(<<>>) = 0 /\ 0 \in 0..l /\ 0 \in 0..0
    OBVIOUS
  <2>2. a \in SplitState /\ a.j = 0 /\ a.start = 0 /\ a.tokens = <<>>
    BY <1>2, <2>1 DEF SplitState
  <2>3. C[0] = 0
    BY DEF Counted
  <2>4. \A n \in 1..0 : Cut(C, c, n - 1, a.tokens[n])
    OBVIOUS
  <2>5. QED
    BY <1>1, <2>1, <2>2, <2>3, <2>4 DEF SplitAt
<1>4. PICK X : X = {r \in SplitState : \E k \in 0..l : SplitAt(C, c, k, r)}
  OBVIOUS
<1>5. a \in X
  BY <1>1, <1>3, <1>4 DEF SplitAt
<1>6. ASSUME NEW r \in X PROVE SplitRound(c, <<COMMA>>, r) \in X
  <2>1. PICK k \in 0..l : SplitAt(C, c, k, r)
    BY <1>4
  <2>2. CASE k = l
    <3>1. r.j = l /\ Len(<<COMMA>>) = 1 /\ l >= l - (1 - 1)
      BY <2>1, <2>2 DEF SplitAt
    <3>2. SplitRound(c, <<COMMA>>, r) = r
      BY <1>1, <3>1 DEF SplitRound
    <3>3. QED
      BY <3>2
  <2>3. CASE k # l
    <3>1. k \in 0..(l - 1) /\ k + 1 \in 0..l
      BY <2>3
    <3>2. SplitAt(C, c, k + 1, SplitRound(c, <<COMMA>>, r))
      BY <1>1, <2>1, <3>1, SplitNext
    <3>3. SplitRound(c, <<COMMA>>, r) \in SplitState
      BY <3>2 DEF SplitAt
    <3>4. QED
      BY <1>4, <3>1, <3>2, <3>3
  <2>4. QED
    BY <2>2, <2>3
<1>7. PICK G : G = [x \in (1..l) \X X |-> SplitRound(c, <<COMMA>>, x[2])]
  OBVIOUS
<1>8. G \in [(1..l) \X X -> X]
  BY <1>6, <1>7
<1>9. PICK g \in [0..l -> X] : \A k \in 0..l : g[k] = IF k = 0 THEN a ELSE G[<<k, g[k - 1]>>]
  <2>1. \E g : RoundsOf(g, l, X, a, G)
    BY <1>5, <1>8, RoundsExist
  <2>2. QED
    BY <2>1 DEF RoundsOf
<1>10. \A k \in 0..l : g[k] = IF k = 0 THEN a ELSE SplitRound(c, <<COMMA>>, g[k - 1])
  <2> SUFFICES ASSUME NEW k \in 0..l, k # 0 PROVE g[k] = SplitRound(c, <<COMMA>>, g[k - 1])
    BY <1>9
  <2>1. k \in 1..l /\ k - 1 \in 0..l
    OBVIOUS
  <2>2. <<k, g[k - 1]>> \in (1..l) \X X
    BY <1>9, <2>1
  <2>3. QED
    BY <1>7, <1>9, <2>2
<1>11. g = [k \in 0..l |-> g[k]]
  BY <1>9
<1>12. g = [k \in 0..l |-> IF k = 0 THEN a ELSE SplitRound(c, <<COMMA>>, g[k - 1])]
  BY <1>10, <1>11
<1>13. CommaRounds(c, g)
  BY <1>1, <1>2, <1>12, Zenon DEF CommaRounds
<1>14. PICK f : f = CHOOSE h : CommaRounds(c, h)
  OBVIOUS
<1>15. CommaRounds(c, f)
  BY <1>13, <1>14, Zenon
<1>16. t = Append(f[Len(c)].tokens, SubSeq(c, f[Len(c)].start + 1, Len(c)))
  BY <1>14, Zenon DEF sdssplitlen, CommaRounds
<1>17. \A k \in 0..l : f[k] = IF k = 0 THEN a ELSE SplitRound(c, <<COMMA>>, f[k - 1])
  BY <1>1, <1>2, <1>15, Zenon DEF CommaRounds
<1>18. PICK T : T = {k \in 0..l : SplitAt(C, c, k, f[k])}
  OBVIOUS
<1>19. 0 \in T
  <2>1. 0 \in 0..l
    OBVIOUS
  <2>2. f[0] = a
    BY <1>17, <2>1
  <2>3. QED
    BY <1>3, <1>18, <2>1, <2>2
<1>20. \A k \in 0..(l - 1) : k \in T => k + 1 \in T
  <2> SUFFICES ASSUME NEW k \in 0..(l - 1), k \in T PROVE k + 1 \in T
    OBVIOUS
  <2>1. k + 1 \in 0..l /\ k + 1 # 0 /\ (k + 1) - 1 = k
    OBVIOUS
  <2>2. PICK r : r = f[k]
    OBVIOUS
  <2>3. SplitAt(C, c, k, r)
    BY <1>18, <2>2
  <2>4. SplitAt(C, c, k + 1, SplitRound(c, <<COMMA>>, r))
    BY <1>1, <2>3, SplitNext
  <2>5. f[k + 1] = SplitRound(c, <<COMMA>>, r)
    BY <1>17, <2>1, <2>2
  <2>6. QED
    BY <1>18, <2>1, <2>4, <2>5
<1>21. l \in T
  <2>1. \A k \in 0..l : k \in T
    BY <1>19, <1>20, InductionTo
  <2>2. l \in 0..l
    OBVIOUS
  <2>3. QED
    BY <2>1, <2>2
<1>22. PICK r : r = f[l]
  OBVIOUS
<1>23. SplitAt(C, c, l, r)
  BY <1>18, <1>21, <1>22
<1>24. PICK u : u = r.tokens
  OBVIOUS
<1>25. u \in Seq(Seq(Byte)) /\ Len(u) = C[l] /\ \A n \in 1..Len(u) : Cut(C, c, n - 1, u[n])
  BY <1>23, <1>24 DEF SplitAt, SplitState
<1>26. PICK p : p = SubSeq(c, r.start + 1, l)
  OBVIOUS
<1>27. Part(c, r.start, l, p) /\ Cut(C, c, C[l], p)
  BY <1>1, <1>23, <1>26, TokenCut
<1>28. t = Append(u, p)
  BY <1>1, <1>16, <1>22, <1>24, <1>26
<1>29. PICK m \in Nat : m = Len(u)
  BY <1>25
<1>30. t \in Seq(Seq(Byte)) /\ Len(t) = m + 1 /\ t[m + 1] = p /\ \A n \in 1..m : t[n] = u[n]
  <2>1. PICK A : A = Seq(Byte)
    OBVIOUS
  <2>2. u \in Seq(A) /\ p \in A
    BY <1>25, <1>27, <2>1 DEF Part
  <2>3. t \in Seq(A) /\ Len(t) = m + 1 /\ t[m + 1] = p /\ \A n \in 1..m : t[n] = u[n]
    <3>1. Append(u, p) \in Seq(A) /\ Len(Append(u, p)) = m + 1 /\ Append(u, p)[m + 1] = p
          /\ \A n \in 1..m : Append(u, p)[n] = u[n]
      BY <1>29, <2>2
    <3>2. QED
      BY <1>28, <3>1
  <2>4. QED
    BY <2>1, <2>3
<1>31. \A n \in 1..(m + 1) : Cut(C, c, n - 1, t[n])
  <2> TAKE n \in 1..(m + 1)
  <2>1. CASE n = m + 1
    <3>1. n - 1 = C[l] /\ t[n] = p
      BY <1>25, <1>29, <1>30, <2>1
    <3>2. QED
      BY <1>27, <3>1, Zenon
  <2>2. CASE n # m + 1
    <3>1. n \in 1..m
      BY <2>2
    <3>2. t[n] = u[n] /\ Cut(C, c, n - 1, u[n])
      BY <1>25, <1>29, <1>30, <3>1
    <3>3. QED
      BY <3>2, Zenon
  <2>3. QED
    BY <2>1, <2>2
<1>32. QED
  BY <1>1, <1>25, <1>29, <1>30, <1>31

FieldIs(l, n, p) == \E a, b : Part(l, a, b, p) /\ FieldAt(l, n) = (a + 1)..b

\* A cut of the row of a line is the field with as many commas before it.
LEMMA CutField ==
    ASSUME NEW l \in Seq(Byte), NEW x, NEW y, NEW c, Part(l, x, y, c), Row(l) = (x + 1)..y,
           NEW C, C = [k \in 0..(y - x) |-> Cardinality({i \in Commas(l) : i =< x + k})],
           NEW n, NEW p, Cut(C, c, n, p)
    PROVE  FieldIs(l, n, p)
<1>1. PICK m \in Nat : m = y - x
  BY DEF Part
<1>2. x \in Nat /\ y \in Nat /\ y = x + m /\ Len(c) = m /\ \A k \in 1..m : c[k] = l[x + k]
  <2>1. Len(l) \in Nat /\ x \in 0..Len(l) /\ y \in x..Len(l) /\ Len(c) = y - x
        /\ \A i \in 1..(y - x) : c[i] = l[x + i]
    BY DEF Part
  <2>2. QED
    <3>1. x \in Nat /\ y \in Nat /\ m = y - x
      BY <1>1, <2>1
    <3>2. y = x + m
      BY <3>1
    <3>3. QED
      BY <1>1, <2>1, <3>1, <3>2
<1>3. PICK a, b : /\ Part(c, a, b, p)
                  /\ \A k \in 1..m : c[k] # COMMA /\ C[k] = n <=> a < k /\ k =< b
  BY <1>2 DEF Cut
<1>4. a \in 0..m /\ b \in a..m
  BY <1>2, <1>3 DEF Part
<1>5. Part(l, x + a, x + b, p)
  BY <1>3, PartOfPart
<1>6. ASSUME NEW i \in (x + 1)..y
      PROVE  l[i] # COMMA /\ Cardinality({d \in Commas(l) : d < i}) = n <=> x + a < i /\ i =< x + b
  <2>1. PICK k : k = i - x
    OBVIOUS
  <2>2. k \in 1..m /\ k \in 0..(y - x) /\ x + k = i /\ (a < k <=> x + a < i) /\ (k =< b <=> i =< x + b)
    BY <1>1, <1>2, <1>4, <2>1
  <2>3. c[k] = l[i]
    BY <1>2, <2>2
  <2>4. C[k] = Cardinality({d \in Commas(l) : d =< i})
    BY <2>2
  <2>5. ASSUME l[i] # COMMA PROVE {d \in Commas(l) : d =< i} = {d \in Commas(l) : d < i}
    <3>1. ASSUME NEW d \in Commas(l) PROVE d =< i <=> d < i
      <4>1. d \in (x + 1)..y /\ l[d] = COMMA
        BY DEF Commas
      <4>2. d # i /\ d \in Int /\ i \in Int
        BY <1>2, <2>5, <4>1
      <4>3. QED
        BY <4>2
    <3>2. QED
      BY <3>1
  <2>6. c[k] # COMMA /\ C[k] = n <=> a < k /\ k =< b
    BY <1>3, <2>2
  <2>7. QED
    BY <2>2, <2>3, <2>4, <2>5, <2>6
<1>7. FieldAt(l, n) = {i \in (x + 1)..y : x + a < i /\ i =< x + b}
  BY <1>6 DEF FieldAt
<1>8. {i \in (x + 1)..y : x + a < i /\ i =< x + b} = ((x + a) + 1)..(x + b)
  BY <1>2, <1>4
<1>9. QED
  BY <1>5, <1>7, <1>8 DEF FieldIs

\* Its places are counted from its first.
LEMMA IntervalPlaces ==
    ASSUME NEW a \in Nat, NEW b \in Nat, a =< b
    PROVE  /\ Cardinality((a + 1)..b) = b - a
           /\ \A i \in (a + 1)..b : Cardinality({j \in (a + 1)..b : j =< i}) = i - a
<1>1. \A d \in Nat : a =< d => Cardinality((a + 1)..d) = d - a
  <2> SUFFICES ASSUME NEW d \in Nat, a =< d PROVE Cardinality((a + 1)..d) = d - a
    OBVIOUS
  <2>1. a + 1 \in Int /\ d \in Int
    OBVIOUS
  <2>2. Cardinality((a + 1)..d) = IF a + 1 > d THEN 0 ELSE d - (a + 1) + 1
    BY <2>1, FS_Interval
  <2>3. QED
    BY <2>2
<1>2. ASSUME NEW i \in (a + 1)..b PROVE Cardinality({j \in (a + 1)..b : j =< i}) = i - a
  <2>1. {j \in (a + 1)..b : j =< i} = (a + 1)..i
    OBVIOUS
  <2>2. i \in Nat /\ a =< i
    OBVIOUS
  <2>3. QED
    BY <1>1, <2>1, <2>2
<1>3. QED
  BY <1>1, <1>2

LEMMA FieldRead ==
    ASSUME NEW l \in Seq(Byte), NEW n, NEW p, FieldIs(l, n, p), NEW s \in Seq(Byte)
    PROVE  IsField(s, l, n) <=> s = p
<1>1. PICK a, b : Part(l, a, b, p) /\ FieldAt(l, n) = (a + 1)..b
  BY DEF FieldIs
<1>2. PICK at : at = FieldAt(l, n)
  OBVIOUS
<1>3. a \in Nat /\ b \in Nat /\ a =< b /\ p \in Seq(Byte) /\ Len(p) = b - a /\ \A i \in 1..(b - a) : p[i] = l[a + i]
  BY <1>1 DEF Part
<1>4. Cardinality(at) = b - a /\ \A i \in at : Cardinality({j \in at : j =< i}) = i - a
  BY <1>1, <1>2, <1>3, IntervalPlaces
<1>5. IsField(s, l, n) <=> Len(s) = b - a /\ \A i \in at : s[i - a] = l[i]
  BY <1>2, <1>4 DEF IsField
<1>6. (\A i \in at : s[i - a] = l[i]) <=> \A i \in 1..(b - a) : s[i] = l[a + i]
  <2>1. ASSUME \A i \in at : s[i - a] = l[i], NEW i \in 1..(b - a) PROVE s[i] = l[a + i]
    <3>1. a + i \in at /\ (a + i) - a = i
      BY <1>1, <1>2, <1>3
    <3>2. QED
      BY <2>1, <3>1
  <2>2. ASSUME \A i \in 1..(b - a) : s[i] = l[a + i], NEW i \in at PROVE s[i - a] = l[i]
    <3>1. i - a \in 1..(b - a) /\ a + (i - a) = i
      BY <1>1, <1>2, <1>3
    <3>2. QED
      BY <2>2, <3>1
  <2>3. QED
    BY <2>1, <2>2
<1>7. ASSUME Len(s) = b - a, \A i \in 1..(b - a) : s[i] = l[a + i] PROVE s = p
  <2>1. s = [i \in 1..(b - a) |-> s[i]] /\ p = [i \in 1..(b - a) |-> p[i]]
    BY <1>3, <1>7
  <2>2. QED
    BY <1>3, <1>7, <2>1
<1>8. QED
  BY <1>3, <1>5, <1>6, <1>7

LEMMA SameRead ==
    ASSUME NEW l \in Seq(Byte), NEW p, FieldIs(l, 0, p), NEW m \in Seq(Byte), NEW q, FieldIs(m, 0, q)
    PROVE  SameName(l, m) <=> p = q
<1>1. PICK a, b : Part(l, a, b, p) /\ FieldAt(l, 0) = (a + 1)..b
  BY DEF FieldIs
<1>2. PICK d, e : Part(m, d, e, q) /\ FieldAt(m, 0) = (d + 1)..e
  BY DEF FieldIs
<1>3. a \in Nat /\ b \in Nat /\ a =< b /\ p \in Seq(Byte) /\ Len(p) = b - a /\ \A i \in 1..(b - a) : p[i] = l[a + i]
  BY <1>1 DEF Part
<1>4. d \in Nat /\ e \in Nat /\ d =< e /\ q \in Seq(Byte) /\ Len(q) = e - d /\ \A i \in 1..(e - d) : q[i] = m[d + i]
  BY <1>2 DEF Part
<1>5. PICK F : F = FieldAt(l, 0)
  OBVIOUS
<1>6. PICK G : G = FieldAt(m, 0)
  OBVIOUS
<1>7. Cardinality(F) = b - a /\ \A i \in F : Cardinality({j \in F : j =< i}) = i - a
  BY <1>1, <1>3, <1>5, IntervalPlaces
<1>8. Cardinality(G) = e - d /\ \A i \in G : Cardinality({j \in G : j =< i}) = i - d
  BY <1>2, <1>4, <1>6, IntervalPlaces
<1>9. SameName(l, m) <=> b - a = e - d /\ \A i \in F, j \in G : i - a = j - d => l[i] = m[j]
  <2>1. SameName(l, m) <=>
        /\ Cardinality(F) = Cardinality(G)
        /\ \A i \in F, j \in G : Cardinality({k \in F : k =< i}) = Cardinality({k \in G : k =< j}) => l[i] = m[j]
    BY <1>5, <1>6, Zenon DEF SameName
  <2>2. QED
    BY <1>7, <1>8, <2>1
<1>10. ASSUME SameName(l, m) PROVE p = q
  <2>1. PICK n \in Nat : n = b - a /\ n = e - d
    BY <1>3, <1>9, <1>10
  <2>2. ASSUME NEW i \in 1..n PROVE p[i] = q[i]
    <3>1. a + i \in F /\ d + i \in G /\ (a + i) - a = (d + i) - d
      BY <1>1, <1>2, <1>3, <1>4, <1>5, <1>6, <2>1
    <3>2. l[a + i] = m[d + i]
      BY <1>9, <1>10, <3>1
    <3>3. p[i] = l[a + i] /\ q[i] = m[d + i]
      BY <1>3, <1>4, <2>1
    <3>4. QED
      BY <3>2, <3>3
  <2>3. p = [i \in 1..n |-> p[i]] /\ q = [i \in 1..n |-> q[i]]
    BY <1>3, <1>4, <2>1
  <2>4. QED
    BY <2>2, <2>3
<1>11. ASSUME p = q PROVE SameName(l, m)
  <2>1. b - a = e - d
    BY <1>3, <1>4, <1>11
  <2>2. ASSUME NEW i \in F, NEW j \in G, i - a = j - d PROVE l[i] = m[j]
    <3>1. i \in (a + 1)..b /\ j \in (d + 1)..e
      BY <1>1, <1>2, <1>5, <1>6
    <3>2. i - a \in 1..(b - a) /\ a + (i - a) = i
      BY <1>3, <3>1
    <3>3. j - d \in 1..(e - d) /\ d + (j - d) = j
      BY <1>4, <3>1
    <3>4. p[i - a] = l[i] /\ q[j - d] = m[j]
      BY <1>3, <1>4, <3>2, <3>3
    <3>5. QED
      BY <1>11, <2>2, <3>4
  <2>3. QED
    BY <1>9, <2>1, <2>2
<1>12. QED
  BY <1>10, <1>11

\* What the loader makes of a line.
LEMMA LineRead ==
    ASSUME NEW l \in Seq(Byte), NEW t, t = tokens(l)
    PROVE  /\ t \in Seq(Seq(Byte))
           /\ Len(t) = 4 <=> Cardinality(Commas(l)) = 3
           /\ Len(t) = 4 => \A n \in 0..3 : FieldIs(l, n, t[n + 1])
<1>1. PICK c : c = Trimmed(CString(l))
  OBVIOUS
<1>2. PICK x, y : Part(l, x, y, c) /\ Row(l) = (x + 1)..y
  BY <1>1, RowPart
<1>3. t = sdssplitlen(c, <<COMMA>>)
  BY <1>1 DEF tokens
<1>4. c \in Seq(Byte) /\ Len(c) = y - x /\ x \in Int /\ y \in Int
  BY <1>2 DEF Part
<1>5. CASE c = <<>>
  <2>1. t = <<>>
    BY <1>3, <1>5 DEF sdssplitlen
  <2>2. (x + 1)..y = {}
    BY <1>4, <1>5
  <2>3. Commas(l) = {}
    BY <1>2, <2>2 DEF Commas
  <2>4. Cardinality(Commas(l)) = 0
    BY <2>3, FS_EmptySet
  <2>5. t \in Seq(Seq(Byte)) /\ Len(t) = 0
    BY <2>1
  <2>6. QED
    BY <2>4, <2>5
<1>6. CASE c # <<>>
  <2>1. PICK C : C = [k \in 0..(y - x) |-> Cardinality({i \in Commas(l) : i =< x + k})]
    OBVIOUS
  <2>2. Counted(C, c) /\ C[y - x] = Cardinality(Commas(l))
    BY <1>2, <2>1, CommasCounted
  <2>3. /\ t \in Seq(Seq(Byte)) /\ Len(t) = C[Len(c)] + 1
        /\ \A n \in 1..Len(t) : Cut(C, c, n - 1, t[n])
    BY <1>3, <1>4, <1>6, <2>2, CommaSplit
  <2>4. PICK N : N = Cardinality(Commas(l))
    OBVIOUS
  <2>5. Len(t) = N + 1 /\ N \in Int
    <3>1. Len(c) \in 0..Len(c) /\ C[Len(c)] = N
      BY <1>4, <2>2, <2>4
    <3>2. N \in Nat
      BY <2>2, <3>1 DEF Counted
    <3>3. QED
      BY <2>3, <3>1, <3>2
  <2>6. Len(t) = 4 <=> N = 3
    BY <2>5
  <2>7. ASSUME Len(t) = 4, NEW n \in 0..3 PROVE FieldIs(l, n, t[n + 1])
    <3>1. n + 1 \in 1..Len(t) /\ (n + 1) - 1 = n
      BY <2>7
    <3>2. PICK k : k = n + 1
      OBVIOUS
    <3>3. Cut(C, c, k - 1, t[k]) /\ k - 1 = n
      BY <2>3, <3>1, <3>2
    <3>4. Cut(C, c, n, t[k])
      BY <3>3, Zenon
    <3>5. FieldIs(l, n, t[k])
      BY <1>2, <2>1, <3>4, CutField
    <3>6. QED
      BY <3>2, <3>5
  <2>8. QED
    BY <2>3, <2>4, <2>6, <2>7
<1>7. QED
  BY <1>5, <1>6

-----------------------------------------------------------------------------
(* The network file is loaded *)

Fields(l) == [servername |-> tokens(l)[1], hostname |-> tokens(l)[2],
              port |-> tokens(l)[3], passwd |-> tokens(l)[4]]

\* What the first k lines of the file have made.
ReadSoFar(file, name, k, table, own) ==
    /\ k \in 0..Len(file) /\ table \in Seq(chirc_server_t) /\ Len(table) = k
    /\ \A i \in 1..k : Len(tokens(file[i])) = 4 /\ table[i] = Fields(file[i])
    /\ \A i, j \in 1..k : table[i].servername = table[j].servername => i = j
    /\ own = NULL => \A i \in 1..k : table[i].servername # name
    /\ own # NULL => \E i \in 1..k : own = table[i] /\ table[i].servername = name

LEMMA FourItems ==
    ASSUME NEW A, NEW t \in Seq(A), Len(t) = 4
    PROVE  t[1] \in A /\ t[2] \in A /\ t[3] \in A /\ t[4] \in A
<1>1. \A n \in 1..Len(t) : t[n] \in A
  OBVIOUS
<1>2. 1 \in 1..4 /\ 2 \in 1..4 /\ 3 \in 1..4 /\ 4 \in 1..4
  OBVIOUS
<1>3. QED
  BY <1>1, <1>2

LEMMA FieldsType ==
    ASSUME NEW l \in Seq(Byte), Len(tokens(l)) = 4
    PROVE  Fields(l) \in chirc_server_t
<1>1. PICK t : t = tokens(l)
  OBVIOUS
<1>2. t \in Seq(Seq(Byte)) /\ Len(t) = 4
  BY <1>1, LineRead
<1>3. PICK A : A = Seq(Byte)
  OBVIOUS
<1>4. t[1] \in A /\ t[2] \in A /\ t[3] \in A /\ t[4] \in A
  BY <1>2, <1>3, FourItems
<1>5. QED
  BY <1>1, <1>3, <1>4 DEF Fields, chirc_server_t

\* The line behind them is read.
LEMMA ReadNext ==
    ASSUME NEW file \in Seq(Seq(Byte)), NEW name, NEW k, NEW table, NEW own,
           ReadSoFar(file, name, k, table, own), k # Len(file),
           Len(tokens(file[k + 1])) = 4,
           \A i \in 1..k : table[i].servername # tokens(file[k + 1])[1],
           NEW ns, ns = Fields(file[k + 1]),
           NEW other, other = IF tokens(file[k + 1])[1] = name THEN ns ELSE own
    PROVE  ReadSoFar(file, name, k + 1, Append(table, ns), other)
<1>1. PICK n \in Nat : n = Len(file)
  OBVIOUS
<1>2. /\ k \in 0..n /\ table \in Seq(chirc_server_t) /\ Len(table) = k
      /\ \A i \in 1..k : Len(tokens(file[i])) = 4 /\ table[i] = Fields(file[i])
      /\ \A i, j \in 1..k : table[i].servername = table[j].servername => i = j
      /\ own = NULL => \A i \in 1..k : table[i].servername # name
      /\ own # NULL => \E i \in 1..k : own = table[i] /\ table[i].servername = name
  BY <1>1 DEF ReadSoFar
<1>3. k \in Nat /\ k + 1 \in 1..n /\ k + 1 \in 0..n /\ \A i \in 1..(k + 1) : i \in 1..k \/ i = k + 1
  BY <1>1, <1>2
<1>4. PICK l \in Seq(Byte) : l = file[k + 1]
  <2>1. PICK A : A = Seq(Byte)
    OBVIOUS
  <2>2. file[k + 1] \in A
    BY <1>1, <1>3, <2>1
  <2>3. QED
    BY <2>1, <2>2
<1>5. ns \in chirc_server_t
  BY <1>4, FieldsType
<1>6. ns.servername = tokens(l)[1] /\ ns # NULL
  BY <1>4, <1>5, ServerAssumption DEF Fields
<1>7. PICK u : u = Append(table, ns)
  OBVIOUS
<1>8. u \in Seq(chirc_server_t) /\ Len(u) = k + 1 /\ u[k + 1] = ns /\ \A i \in 1..k : u[i] = table[i]
  BY <1>2, <1>5, <1>7
<1>9. \A i \in 1..(k + 1) : Len(tokens(file[i])) = 4 /\ u[i] = Fields(file[i])
  BY <1>2, <1>3, <1>8
<1>10. \A i, j \in 1..(k + 1) : u[i].servername = u[j].servername => i = j
  <2> SUFFICES ASSUME NEW i \in 1..(k + 1), NEW j \in 1..(k + 1), u[i].servername = u[j].servername
               PROVE  i = j
    OBVIOUS
  <2>1. \A h \in 1..k : u[h].servername # u[k + 1].servername
    BY <1>4, <1>6, <1>8
  <2>2. QED
    BY <1>2, <1>3, <1>8, <2>1
<1>11. CASE tokens(l)[1] = name
  <2>1. other = ns /\ other # NULL /\ k + 1 \in 1..(k + 1) /\ u[k + 1].servername = name
    BY <1>3, <1>4, <1>6, <1>8, <1>11
  <2>2. QED
    BY <1>1, <1>3, <1>7, <1>8, <1>9, <1>10, <2>1 DEF ReadSoFar
<1>12. CASE tokens(l)[1] # name
  <2>1. other = own /\ u[k + 1].servername # name
    BY <1>4, <1>6, <1>8, <1>12
  <2>2. own = NULL => \A i \in 1..(k + 1) : u[i].servername # name
    BY <1>2, <1>3, <1>8, <2>1
  <2>3. own # NULL => \E i \in 1..(k + 1) : own = u[i] /\ u[i].servername = name
    BY <1>2, <1>3, <1>8
  <2>4. QED
    BY <1>1, <1>3, <1>7, <1>8, <1>9, <1>10, <2>1, <2>2, <2>3 DEF ReadSoFar
<1>13. QED
  BY <1>11, <1>12

\* What has been read says of the file what WellFormed asks.
LEMMA ReadFields ==
    ASSUME NEW file \in Seq(Seq(Byte)), NEW name \in Seq(Byte), NEW k, NEW table, NEW own,
           ReadSoFar(file, name, k, table, own)
    PROVE  /\ \A i \in 1..k : /\ Cardinality(Commas(file[i])) = 3
                              /\ IsField(table[i].servername, file[i], 0)
                              /\ IsField(table[i].hostname, file[i], 1)
                              /\ IsField(table[i].port, file[i], 2)
                              /\ IsField(table[i].passwd, file[i], 3)
                              /\ IsField(name, file[i], 0) <=> table[i].servername = name
           /\ \A i, j \in 1..k : i # j => ~SameName(file[i], file[j])
<1>1. PICK A : A = Seq(Byte)
  OBVIOUS
<1>2. k \in 0..Len(file) /\ \A i \in 1..k : Len(tokens(file[i])) = 4 /\ table[i] = Fields(file[i])
  BY DEF ReadSoFar
<1>3. \A i \in 1..k : file[i] \in A
  <2>1. Len(file) \in Nat /\ \A i \in 1..Len(file) : file[i] \in A
    BY <1>1
  <2>2. QED
    BY <1>2, <2>1
<1>4. ASSUME NEW i \in 1..k
      PROVE  /\ Cardinality(Commas(file[i])) = 3
             /\ FieldIs(file[i], 0, table[i].servername)
             /\ IsField(table[i].servername, file[i], 0)
             /\ IsField(table[i].hostname, file[i], 1)
             /\ IsField(table[i].port, file[i], 2)
             /\ IsField(table[i].passwd, file[i], 3)
             /\ IsField(name, file[i], 0) <=> table[i].servername = name
  <2>1. PICK l : l = file[i]
    OBVIOUS
  <2>2. l \in Seq(Byte)
    BY <1>1, <1>3, <2>1
  <2>3. PICK t : t = tokens(l)
    OBVIOUS
  <2>4. Len(t) = 4
    BY <1>2, <2>1, <2>3
  <2>5. t \in Seq(Seq(Byte)) /\ Cardinality(Commas(l)) = 3 /\ \A n \in 0..3 : FieldIs(l, n, t[n + 1])
    BY <2>2, <2>3, <2>4, LineRead
  <2>6. FieldIs(l, 0, t[1]) /\ FieldIs(l, 1, t[2]) /\ FieldIs(l, 2, t[3]) /\ FieldIs(l, 3, t[4])
    <3>1. 0 \in 0..3 /\ 1 \in 0..3 /\ 2 \in 0..3 /\ 3 \in 0..3 /\ 0 + 1 = 1 /\ 1 + 1 = 2 /\ 2 + 1 = 3 /\ 3 + 1 = 4
      OBVIOUS
    <3>2. QED
      BY <2>5, <3>1
  <2>7. t[1] \in A /\ t[2] \in A /\ t[3] \in A /\ t[4] \in A
    <3>1. t \in Seq(A)
      BY <1>1, <2>5
    <3>2. QED
      BY <2>4, <3>1, FourItems
  <2>8. /\ IsField(t[1], l, 0) /\ IsField(t[2], l, 1) /\ IsField(t[3], l, 2) /\ IsField(t[4], l, 3)
        /\ IsField(name, l, 0) <=> name = t[1]
    BY <1>1, <2>2, <2>6, <2>7, FieldRead
  <2>9. /\ table[i].servername = t[1] /\ table[i].hostname = t[2]
        /\ table[i].port = t[3] /\ table[i].passwd = t[4]
    <3>1. table[i] = Fields(l)
      BY <1>2, <2>1
    <3>2. QED
      BY <2>3, <3>1 DEF Fields
  <2>10. QED
    BY <2>1, <2>5, <2>6, <2>8, <2>9
<1>5. ASSUME NEW i \in 1..k, NEW j \in 1..k, SameName(file[i], file[j]) PROVE i = j
  <2>1. table[i].servername = table[j].servername
    <3>1. PICK l : l = file[i]
      OBVIOUS
    <3>2. PICK m : m = file[j]
      OBVIOUS
    <3>3. l \in Seq(Byte) /\ m \in Seq(Byte)
      BY <1>1, <1>3, <3>1, <3>2
    <3>4. FieldIs(l, 0, table[i].servername) /\ FieldIs(m, 0, table[j].servername)
      BY <1>4, <3>1, <3>2
    <3>5. SameName(l, m)
      BY <1>5, <3>1, <3>2
    <3>6. QED
      BY <3>3, <3>4, <3>5, SameRead
  <2>2. QED
    BY <2>1 DEF ReadSoFar
<1>6. QED
  BY <1>4, <1>5

\* The whole file is read.
LEMMA ReadAll ==
    ASSUME NEW file \in Seq(Seq(Byte)), NEW name \in Seq(Byte), NEW table, NEW own,
           ReadSoFar(file, name, Len(file), table, own), own # NULL
    PROVE  /\ WellFormed(file, name)
           /\ Len(table) = Len(file)
           /\ \A i \in 1..Len(file) :
                  /\ IsField(table[i].servername, file[i], 0)
                  /\ IsField(table[i].hostname, file[i], 1)
                  /\ IsField(table[i].port, file[i], 2)
                  /\ IsField(table[i].passwd, file[i], 3)
           /\ own \in ToSet(table) /\ own.servername = name
<1>1. PICK n \in Nat : n = Len(file)
  OBVIOUS
<1>2. ReadSoFar(file, name, n, table, own)
  BY <1>1
<1>3. /\ \A i \in 1..n : /\ Cardinality(Commas(file[i])) = 3
                         /\ IsField(table[i].servername, file[i], 0)
                         /\ IsField(table[i].hostname, file[i], 1)
                         /\ IsField(table[i].port, file[i], 2)
                         /\ IsField(table[i].passwd, file[i], 3)
                         /\ IsField(name, file[i], 0) <=> table[i].servername = name
      /\ \A i, j \in 1..n : i # j => ~SameName(file[i], file[j])
  BY <1>2, ReadFields
<1>4. /\ table \in Seq(chirc_server_t) /\ Len(table) = n
      /\ \E i \in 1..n : own = table[i] /\ table[i].servername = name
  BY <1>2 DEF ReadSoFar
<1>5. own \in ToSet(table) /\ own.servername = name
  BY <1>4 DEF ToSet
<1>6. WellFormed(file, name)
  BY <1>1, <1>3, <1>4, Zenon DEF WellFormed
<1>7. QED
  BY <1>1, <1>3, <1>4, <1>5, <1>6

\* Nothing is wrong with a file without a reason.
LEMMA ReadStops ==
    ASSUME NEW file \in Seq(Seq(Byte)), NEW name \in Seq(Byte), NEW k, NEW table, NEW own,
           ReadSoFar(file, name, k, table, own),
           IF k = Len(file) THEN own = NULL
           ELSE \/ Len(tokens(file[k + 1])) # 4
                \/ \E i \in 1..k : table[i].servername = tokens(file[k + 1])[1]
    PROVE  ~WellFormed(file, name)
<1>1. PICK n \in Nat : n = Len(file)
  OBVIOUS
<1>2. /\ \A i \in 1..k : /\ Cardinality(Commas(file[i])) = 3
                         /\ IsField(table[i].servername, file[i], 0)
                         /\ IsField(table[i].hostname, file[i], 1)
                         /\ IsField(table[i].port, file[i], 2)
                         /\ IsField(table[i].passwd, file[i], 3)
                         /\ IsField(name, file[i], 0) <=> table[i].servername = name
      /\ \A i, j \in 1..k : i # j => ~SameName(file[i], file[j])
  BY ReadFields
<1>3. /\ k \in 0..n /\ own = NULL => \A i \in 1..k : table[i].servername # name
      /\ \A i \in 1..k : Len(tokens(file[i])) = 4 /\ table[i] = Fields(file[i])
  BY <1>1 DEF ReadSoFar
<1>4. k \in 0..n
  BY <1>1 DEF ReadSoFar
<1>5. SUFFICES ASSUME WellFormed(file, name) PROVE FALSE
  OBVIOUS
<1>6. /\ \A i \in 1..n : Cardinality(Commas(file[i])) = 3
      /\ \A i, j \in 1..n : i # j => ~SameName(file[i], file[j])
      /\ \E i \in 1..n : IsField(name, file[i], 0)
  BY <1>1, <1>5, Zenon DEF WellFormed
<1>7. CASE k = n
  <2>1. own = NULL
    BY <1>1, <1>7
  <2>2. \A i \in 1..k : table[i].servername # name
    BY <2>1 DEF ReadSoFar
  <2>3. QED
    BY <1>2, <1>6, <1>7, <2>2
<1>8. CASE k # n
  <2>1. k + 1 \in 1..n /\ \A i \in 1..k : i \in 1..n /\ i # k + 1
    BY <1>4, <1>8
  <2>2. PICK A : A = Seq(Byte)
    OBVIOUS
  <2>3. \A i \in 1..n : file[i] \in A
    BY <1>1, <2>2
  <2>4. PICK l : l = file[k + 1]
    OBVIOUS
  <2>5. l \in Seq(Byte)
    BY <2>1, <2>2, <2>3, <2>4
  <2>6. Cardinality(Commas(l)) = 3
    BY <1>6, <2>1, <2>4
  <2>7. Len(tokens(l)) = 4
    BY <2>5, <2>6, LineRead
  <2>8. PICK i \in 1..k : table[i].servername = tokens(l)[1]
    BY <1>1, <1>8, <2>4, <2>7
  <2>9. PICK m : m = file[i]
    OBVIOUS
  <2>10. m \in Seq(Byte)
    BY <2>1, <2>2, <2>3, <2>9
  <2>11. Len(tokens(m)) = 4 /\ tokens(m)[1] = tokens(l)[1]
    <3>1. Len(tokens(m)) = 4 /\ table[i] = Fields(m)
      BY <1>3, <2>9
    <3>2. table[i].servername = tokens(m)[1]
      BY <3>1 DEF Fields
    <3>3. QED
      BY <2>8, <3>1, <3>2
  <2>12. 0 \in 0..3 /\ 0 + 1 = 1
    OBVIOUS
  <2>13. FieldIs(l, 0, tokens(l)[1])
    BY <2>5, <2>7, <2>12, LineRead
  <2>14. FieldIs(m, 0, tokens(m)[1])
    BY <2>10, <2>11, <2>12, LineRead
  <2>15. SameName(m, l)
    BY <2>5, <2>10, <2>11, <2>13, <2>14, SameRead
  <2>16. QED
    BY <1>6, <2>1, <2>4, <2>9, <2>15
<1>9. QED
  BY <1>7, <1>8

ProgramSettings ==
    [port : {NULL} \union Seq(Byte), passwd : {NULL} \union Seq(Byte),
     servername : {NULL} \union Seq(Byte), network_file : {NULL} \union Seq(Seq(Byte))]

\* What is still to be read after k lines.
Unread(file, k, rest) ==
    /\ rest \in Seq(Seq(Byte)) /\ Len(rest) = Len(file) - k
    /\ \A i \in 1..Len(rest) : rest[i] = file[k + i]

NetworkMode ==
    /\ opts.network_file \in Seq(Seq(Byte)) /\ opts.network_file # NULL
    /\ opts.servername \in Seq(Byte)

\* Where the loader is in the file, what it has made of it, and why it stops.
LoadInv ==
    /\ args \in Seq(ProgramOption) /\ opts \in ProgramSettings
    /\ phase \in {"options", "check"} => servers = <<>> /\ this_server = NULL
    /\ phase = "load" =>
           /\ NetworkMode
           /\ \E k \in 0..Len(opts.network_file) :
                  /\ Unread(opts.network_file, k, lines)
                  /\ ReadSoFar(opts.network_file, opts.servername, k, servers, this_server)
    /\ phase = "exit_load" => NetworkMode /\ ~WellFormed(opts.network_file, opts.servername)
    /\ phase = "ready" /\ opts.network_file # NULL =>
           /\ NetworkMode /\ this_server # NULL
           /\ ReadSoFar(opts.network_file, opts.servername, Len(opts.network_file), servers, this_server)

LEMMA LoadInit == StartInit => LoadInv
<1> SUFFICES ASSUME StartInit PROVE LoadInv
  OBVIOUS
<1>1. args \in Seq(ProgramOption)
  BY ArgsAssumption DEF StartInit
<1>2. opts \in ProgramSettings
  BY DEF StartInit, NoOptions, ProgramSettings
<1>3. phase = "options" /\ servers = <<>> /\ this_server = NULL
  BY DEF StartInit
<1>4. QED
  BY <1>1, <1>2, <1>3 DEF LoadInv

LEMMA InvLoads == LoadInv => NetworkLoads
<1> SUFFICES ASSUME LoadInv PROVE NetworkLoads
  OBVIOUS
<1>1. PICK file : file = opts.network_file
  OBVIOUS
<1>2. phase = "exit_load" => ~WellFormed(file, opts.servername)
  BY <1>1 DEF LoadInv
<1>3. ASSUME phase = "ready", file # NULL
      PROVE  /\ WellFormed(file, opts.servername)
             /\ Len(servers) = Len(file)
             /\ \A i \in 1..Len(file) :
                    /\ IsField(servers[i].servername, file[i], 0)
                    /\ IsField(servers[i].hostname, file[i], 1)
                    /\ IsField(servers[i].port, file[i], 2)
                    /\ IsField(servers[i].passwd, file[i], 3)
             /\ this_server \in ToSet(servers)
             /\ this_server.servername = opts.servername
  <2>1. file \in Seq(Seq(Byte)) /\ opts.servername \in Seq(Byte) /\ this_server # NULL
    BY <1>1, <1>3 DEF LoadInv, NetworkMode
  <2>2. ReadSoFar(file, opts.servername, Len(file), servers, this_server)
    BY <1>1, <1>3 DEF LoadInv
  <2>3. PICK name : name = opts.servername
    OBVIOUS
  <2>4. name \in Seq(Byte) /\ ReadSoFar(file, name, Len(file), servers, this_server)
    BY <2>1, <2>2, <2>3
  <2>5. QED
    BY <2>1, <2>3, <2>4, ReadAll
<1>4. QED
  BY <1>1, <1>2, <1>3, Zenon DEF NetworkLoads

\* The table of servers is searched from its first item.
LEMMA ServerFound ==
    ASSUME servers \in Seq(chirc_server_t), NEW name
    PROVE  chirc_ctx_get_server(name) = NULL <=> \A i \in 1..Len(servers) : servers[i].servername # name
<1>1. PICK s \in Seq(chirc_server_t) : s = servers
  OBVIOUS
<1>2. PICK n \in Nat : n = Len(s)
  OBVIOUS
<1>3. \A i \in 1..n : s[i] \in chirc_server_t
  BY <1>2
<1>4. PICK I : I = {i \in 1..n : s[i].servername = name}
  OBVIOUS
<1>5. chirc_ctx_get_server(name) = IF (IF I # {} THEN Min(I) ELSE 0) = 0 THEN NULL
                                   ELSE s[IF I # {} THEN Min(I) ELSE 0]
  BY <1>1, <1>2, <1>4 DEF chirc_ctx_get_server, SelectInSeq
<1>6. CASE I = {}
  BY <1>1, <1>2, <1>4, <1>5, <1>6
<1>7. CASE I # {}
  <2>1. Min(I) \in I
    <3>1. I \subseteq 1..n
      BY <1>4
    <3>2. QED
      BY <1>2, <1>7, <3>1, SelectIndex
  <2>2. Min(I) \in 1..n /\ s[Min(I)].servername = name
    BY <1>4, <2>1
  <2>3. Min(I) # 0 /\ s[Min(I)] # NULL
    BY <1>3, <2>2, ServerAssumption
  <2>4. chirc_ctx_get_server(name) = s[Min(I)]
    BY <1>5, <1>7, <2>3
  <2>5. QED
    BY <1>1, <1>2, <2>2, <2>3, <2>4
<1>8. QED
  BY <1>6, <1>7

LEMMA LoadReadOption ==
    ASSUME LoadInv, ReadOption
    PROVE  LoadInv'
<1>1. phase = "options" /\ args # <<>> /\ args' = Tail(args)
      /\ UNCHANGED <<phase, lines, servers, this_server>>
  BY DEF ReadOption
<1>2. args \in Seq(ProgramOption) /\ opts \in ProgramSettings /\ servers = <<>> /\ this_server = NULL
  BY <1>1 DEF LoadInv
<1>3. args' \in Seq(ProgramOption)
  BY <1>1, <1>2
<1>4. PICK h : h = Head(args)
  OBVIOUS
<1>5. h \in ProgramOption
  <2>1. PICK A : A = ProgramOption
    OBVIOUS
  <2>2. args \in Seq(A) /\ args # <<>>
    BY <1>1, <1>2, <2>1
  <2>3. h \in A
    BY <1>4, <2>2
  <2>4. QED
    BY <2>1, <2>3
<1>6. opts' \in ProgramSettings
  <2>1. CASE UNCHANGED opts
    BY <1>2, <2>1
  <2>2. CASE h.opt \in DOMAIN opts /\ h.arg # NULL /\ opts' = [opts EXCEPT ![h.opt] = h.arg]
    <3>1. PICK A : A = Seq(Byte)
      OBVIOUS
    <3>2. PICK F : F = Seq(A)
      OBVIOUS
    <3>3. opts \in [port : {NULL} \union A, passwd : {NULL} \union A,
                    servername : {NULL} \union A, network_file : {NULL} \union F]
      BY <1>2, <3>1, <3>2 DEF ProgramSettings
    <3>4. \/ h \in [opt : {"passwd", "port", "servername"}, arg : A]
          \/ h \in [opt : {"network_file"}, arg : {NULL} \union F]
          \/ h \in [opt : {"verbosity", "help", "unknown"}, arg : {NULL}]
      BY <1>5, <3>1, <3>2 DEF ProgramOption
    <3>5. opts' \in [port : {NULL} \union A, passwd : {NULL} \union A,
                     servername : {NULL} \union A, network_file : {NULL} \union F]
      BY <2>2, <3>3, <3>4
    <3>6. QED
      BY <3>1, <3>2, <3>5 DEF ProgramSettings
  <2>3. QED
    BY <1>4, <2>1, <2>2 DEF ReadOption
<1>7. QED
  BY <1>1, <1>2, <1>3, <1>6 DEF LoadInv

\* The file may be opened: nothing of it is read yet.
LEMMA LoadOpen ==
    ASSUME LoadInv, Open
    PROVE  LoadInv'
<1>1. /\ phase = "check" /\ Complete /\ opts.network_file # NULL
      /\ UNCHANGED <<args, opts, servers, this_server>>
      /\ \/ phase' = "load" /\ lines' = opts.network_file
         \/ phase' = "exit"
  BY DEF Open
<1>2. args \in Seq(ProgramOption) /\ opts \in ProgramSettings /\ servers = <<>> /\ this_server = NULL
  BY <1>1 DEF LoadInv
<1>3. CASE phase' = "exit"
  BY <1>1, <1>2, <1>3 DEF LoadInv
<1>4. CASE phase' = "load" /\ lines' = opts.network_file
  <2>1. PICK A : A = Seq(Byte)
    OBVIOUS
  <2>2. PICK F : F = Seq(A)
    OBVIOUS
  <2>3. opts \in [port : {NULL} \union A, passwd : {NULL} \union A,
                  servername : {NULL} \union A, network_file : {NULL} \union F]
    BY <1>2, <2>1, <2>2 DEF ProgramSettings
  <2>4. opts.network_file \in F /\ opts.servername \in A
    BY <1>1, <2>3 DEF Complete
  <2>5. PICK file : file = opts.network_file
    OBVIOUS
  <2>6. file \in Seq(A)
    BY <2>2, <2>4, <2>5
  <2>7. Len(file) \in Nat /\ 0 \in 0..Len(file) /\ Len(file) = Len(file) - 0
        /\ \A i \in 1..Len(file) : file[i] = file[0 + i]
    BY <2>6
  <2>8. Unread(file, 0, file)
    BY <2>1, <2>6, <2>7 DEF Unread
  <2>9. ReadSoFar(file, opts.servername, 0, servers, this_server)
    <3>1. <<>> \in Seq(chirc_server_t) /\ Len(<<>>) = 0 /\ 1..0 = {}
      OBVIOUS
    <3>2. QED
      BY <1>2, <2>7, <3>1 DEF ReadSoFar
  <2>10. NetworkMode
    BY <1>1, <2>1, <2>2, <2>4 DEF NetworkMode
  <2>11. opts' = opts /\ servers' = servers /\ this_server' = this_server /\ args' = args
    BY <1>1
  <2>12. NetworkMode'
    BY <2>10, <2>11 DEF NetworkMode
  <2>13. \E k \in 0..Len(opts'.network_file) :
            /\ Unread(opts'.network_file, k, lines')
            /\ ReadSoFar(opts'.network_file, opts'.servername, k, servers', this_server')
    BY <1>4, <2>5, <2>7, <2>8, <2>9, <2>11
  <2>14. QED
    BY <1>2, <1>4, <2>11, <2>12, <2>13 DEF LoadInv
<1>5. QED
  BY <1>1, <1>3, <1>4

\* What the loader has in hand.
LEMMA Loading ==
    ASSUME LoadInv, phase = "load"
    PROVE  /\ args \in Seq(ProgramOption) /\ opts \in ProgramSettings /\ NetworkMode
           /\ servers \in Seq(chirc_server_t)
           /\ \E k \in 0..Len(opts.network_file) :
                  /\ ReadSoFar(opts.network_file, opts.servername, k, servers, this_server)
                  /\ Len(servers) = k
                  /\ Unread(opts.network_file, k, lines)
                  /\ lines = <<>> <=> k = Len(opts.network_file)
                  /\ k # Len(opts.network_file) => /\ Head(lines) = opts.network_file[k + 1]
                                                   /\ k + 1 \in 0..Len(opts.network_file)
                                                   /\ Unread(opts.network_file, k + 1, Tail(lines))
<1>1. /\ args \in Seq(ProgramOption) /\ opts \in ProgramSettings /\ NetworkMode
      /\ \E k \in 0..Len(opts.network_file) :
                  /\ Unread(opts.network_file, k, lines)
                  /\ ReadSoFar(opts.network_file, opts.servername, k, servers, this_server)
  BY DEF LoadInv
<1>2. PICK file : file = opts.network_file
  OBVIOUS
<1>3. PICK n \in Nat : n = Len(file)
  BY <1>1, <1>2 DEF NetworkMode
<1>4. PICK k \in 0..n : Unread(file, k, lines) /\ ReadSoFar(file, opts.servername, k, servers, this_server)
  BY <1>1, <1>2, <1>3
<1>5. servers \in Seq(chirc_server_t) /\ Len(servers) = k
  BY <1>4 DEF ReadSoFar
<1>6. PICK A : A = Seq(Byte)
  OBVIOUS
<1>7. lines \in Seq(A) /\ Len(lines) = n - k /\ \A i \in 1..Len(lines) : lines[i] = file[k + i]
  BY <1>3, <1>4, <1>6 DEF Unread
<1>8. lines = <<>> <=> k = n
  BY <1>7
<1>9. ASSUME k # n PROVE Head(lines) = file[k + 1] /\ k + 1 \in 0..n /\ Unread(file, k + 1, Tail(lines))
  <2>1. lines # <<>> /\ 1 \in 1..Len(lines) /\ k + 1 \in 0..n
    BY <1>7, <1>8, <1>9
  <2>2. Head(lines) = file[k + 1]
    BY <1>7, <2>1
  <2>3. PICK t : t = Tail(lines)
    OBVIOUS
  <2>4. t \in Seq(A) /\ Len(t) = Len(lines) - 1 /\ \A i \in 1..Len(t) : t[i] = lines[i + 1]
    BY <1>7, <2>1, <2>3
  <2>5. Len(t) = n - (k + 1)
    BY <1>7, <2>4
  <2>6. \A i \in 1..Len(t) : i + 1 \in 1..Len(lines) /\ k + (i + 1) = (k + 1) + i
    BY <1>7, <2>4, <2>5
  <2>7. \A i \in 1..Len(t) : t[i] = file[(k + 1) + i]
    BY <1>7, <2>4, <2>6
  <2>8. Unread(file, k + 1, t)
    BY <1>3, <1>6, <2>4, <2>5, <2>7 DEF Unread
  <2>9. QED
    BY <2>1, <2>2, <2>3, <2>8
<1>10. QED
  BY <1>1, <1>2, <1>3, <1>4, <1>5, <1>8, <1>9

LEMMA LoadLoadLine ==
    ASSUME LoadInv, LoadLine
    PROVE  LoadInv'
<1>1. phase = "load" /\ lines # <<>> /\ Loadable(Head(lines)) /\ lines' = Tail(lines)
      /\ UNCHANGED <<phase, args, opts>>
  BY DEF LoadLine
<1>2. PICK file : file = opts.network_file
  OBVIOUS
<1>3. PICK name : name = opts.servername
  OBVIOUS
<1>4. PICK table : table = servers
  OBVIOUS
<1>5. PICK own : own = this_server
  OBVIOUS
<1>6. args \in Seq(ProgramOption) /\ opts \in ProgramSettings /\ NetworkMode /\ table \in Seq(chirc_server_t)
      /\ file \in Seq(Seq(Byte))
  BY <1>1, <1>2, <1>4, Loading DEF NetworkMode
<1>7. PICK k \in 0..Len(file) :
                  /\ ReadSoFar(file, name, k, table, own) /\ Len(table) = k
                  /\ k # Len(file) /\ Head(lines) = file[k + 1]
                  /\ k + 1 \in 0..Len(file)
                  /\ Unread(file, k + 1, Tail(lines))
  BY <1>1, <1>2, <1>3, <1>4, <1>5, Loading
<1>8. PICK t : t = tokens(file[k + 1])
  OBVIOUS
<1>9. Len(t) = 4 /\ chirc_ctx_get_server(t[1]) = NULL
  BY <1>1, <1>7, <1>8 DEF Loadable
<1>10. \A i \in 1..k : table[i].servername # t[1]
  BY <1>4, <1>6, <1>7, <1>9, ServerFound
<1>11. PICK ns : ns = Fields(file[k + 1])
  OBVIOUS
<1>12. ns = [servername |-> t[1], hostname |-> t[2], port |-> t[3], passwd |-> t[4]]
  BY <1>8, <1>11 DEF Fields
<1>13. PICK other : other = IF t[1] = name THEN ns ELSE own
  OBVIOUS
<1>14. servers' = Append(table, ns) /\ this_server' = other
  BY <1>3, <1>4, <1>5, <1>7, <1>8, <1>12, <1>13 DEF LoadLine, chirc_ctx_add_server
<1>15. ReadSoFar(file, name, k + 1, Append(table, ns), other)
  BY <1>6, <1>7, <1>8, <1>9, <1>10, <1>11, <1>13, ReadNext
<1>16. NetworkMode'
  BY <1>1, <1>6 DEF NetworkMode
<1>17. \E j \in 0..Len(opts'.network_file) :
            /\ Unread(opts'.network_file, j, lines')
            /\ ReadSoFar(opts'.network_file, opts'.servername, j, servers', this_server')
  BY <1>1, <1>2, <1>3, <1>7, <1>14, <1>15
<1>18. QED
  BY <1>1, <1>6, <1>16, <1>17 DEF LoadInv

LEMMA LoadLoadFails ==
    ASSUME LoadInv, LoadFails
    PROVE  LoadInv'
<1>1. phase = "load" /\ (IF lines = <<>> THEN this_server = NULL ELSE ~Loadable(Head(lines)))
      /\ phase' = "exit_load" /\ UNCHANGED <<args, opts, lines, servers, this_server>>
  BY DEF LoadFails
<1>2. PICK file : file = opts.network_file
  OBVIOUS
<1>3. PICK name : name = opts.servername
  OBVIOUS
<1>4. PICK table : table = servers
  OBVIOUS
<1>5. PICK own : own = this_server
  OBVIOUS
<1>6. args \in Seq(ProgramOption) /\ opts \in ProgramSettings /\ NetworkMode /\ table \in Seq(chirc_server_t)
      /\ file \in Seq(Seq(Byte)) /\ name \in Seq(Byte)
  BY <1>1, <1>2, <1>3, <1>4, Loading DEF NetworkMode
<1>7. PICK k \in 0..Len(file) :
                  /\ ReadSoFar(file, name, k, table, own) /\ Len(table) = k
                  /\ lines = <<>> <=> k = Len(file)
                  /\ k # Len(file) => Head(lines) = file[k + 1]
  BY <1>1, <1>2, <1>3, <1>4, <1>5, Loading
<1>8. IF k = Len(file) THEN own = NULL
      ELSE \/ Len(tokens(file[k + 1])) # 4
           \/ \E i \in 1..k : table[i].servername = tokens(file[k + 1])[1]
  <2>1. CASE k = Len(file)
    BY <1>1, <1>5, <1>7, <2>1
  <2>2. CASE k # Len(file)
    <3>1. ~Loadable(file[k + 1])
      BY <1>1, <1>7, <2>2
    <3>2. PICK t : t = tokens(file[k + 1])
      OBVIOUS
    <3>3. Len(t) # 4 \/ chirc_ctx_get_server(t[1]) # NULL
      BY <3>1, <3>2 DEF Loadable
    <3>4. chirc_ctx_get_server(t[1]) # NULL => \E i \in 1..k : table[i].servername = t[1]
      BY <1>4, <1>6, <1>7, ServerFound
    <3>5. QED
      BY <2>2, <3>2, <3>3, <3>4
  <2>3. QED
    BY <2>1, <2>2
<1>9. ~WellFormed(file, name)
  BY <1>6, <1>7, <1>8, ReadStops
<1>10. NetworkMode'
  BY <1>1, <1>6 DEF NetworkMode
<1>11. QED
  BY <1>1, <1>2, <1>3, <1>6, <1>9, <1>10 DEF LoadInv

LEMMA LoadLoaded ==
    ASSUME LoadInv, Loaded
    PROVE  LoadInv'
<1>1. phase = "load" /\ lines = <<>> /\ this_server # NULL
      /\ phase' = "ready" /\ UNCHANGED <<args, opts, lines, servers, this_server>>
  BY DEF Loaded
<1>2. args \in Seq(ProgramOption) /\ opts \in ProgramSettings /\ NetworkMode
  BY <1>1, Loading
<1>3. ReadSoFar(opts.network_file, opts.servername, Len(opts.network_file), servers, this_server)
  BY <1>1, Loading
<1>4. NetworkMode'
  BY <1>1, <1>2 DEF NetworkMode
<1>5. QED
  BY <1>1, <1>2, <1>3, <1>4 DEF LoadInv

\* The other steps of the start say little to the invariant.
LEMMA LoadNext ==
    ASSUME LoadInv, StartNext
    PROVE  LoadInv'
<1>1. CASE ReadOption
  BY <1>1, LoadReadOption
<1>2. CASE ExitOption
  BY <1>2 DEF ExitOption, LoadInv
<1>3. CASE EndOfOptions
  BY <1>3 DEF EndOfOptions, LoadInv
<1>4. CASE Incomplete
  BY <1>4 DEF Incomplete, LoadInv
<1>5. CASE Standalone
  BY <1>5 DEF Standalone, LoadInv
<1>6. CASE Open
  BY <1>6, LoadOpen
<1>7. CASE LoadLine
  BY <1>7, LoadLoadLine
<1>8. CASE LoadFails
  BY <1>8, LoadLoadFails
<1>9. CASE Loaded
  BY <1>9, LoadLoaded
<1>10. CASE Run
  <2>1. opts' \in ProgramSettings
    BY <1>10 DEF Run, NoOptions, ProgramSettings
  <2>2. QED
    BY <1>10, <2>1 DEF Run, LoadInv
<1>11. QED
  BY <1>1, <1>2, <1>3, <1>4, <1>5, <1>6, <1>7, <1>8, <1>9, <1>10 DEF StartNext

LEMMA LoadUnchanged ==
    ASSUME LoadInv, UNCHANGED <<args, opts, lines, servers, this_server>>,
           phase' = phase \/ phase' \in {"aborted", "freed"}
    PROVE  LoadInv'
<1>1. CASE phase' = phase
  BY <1>1 DEF LoadInv, NetworkMode
<1>2. CASE phase' \in {"aborted", "freed"}
  BY <1>2 DEF LoadInv
<1>3. QED
  BY <1>1, <1>2

LEMMA LoadStep ==
    ASSUME LoadInv, [Next]_vars
    PROVE  LoadInv'
<1>1. CASE Start
  BY <1>1, LoadNext DEF Start
<1>2. CASE UNCHANGED startVars
  BY <1>2, LoadUnchanged DEF startVars
<1>3. CASE Abort
  BY <1>3, LoadUnchanged DEF Abort
<1>4. CASE chirc_ctx_free
  <2>1. CASE Abort
    BY <1>3, <2>1
  <2>2. CASE phase' = "freed" /\ UNCHANGED <<args, opts, lines, servers, this_server>>
    BY <2>2, LoadUnchanged
  <2>3. QED
    BY <1>4, <2>1, <2>2 DEF chirc_ctx_free
<1>5. ASSUME NEW u \in User, FreeUser(u) PROVE Abort \/ UNCHANGED startVars
  BY <1>5 DEF FreeUser
<1>6. ASSUME NEW k \in Channel, FreeChannel(k) PROVE Abort \/ UNCHANGED startVars
  BY <1>6 DEF FreeChannel
<1>7. CASE UNCHANGED vars
  BY <1>2, <1>7 DEF vars
<1>8. CASE Call
  BY <1>2, <1>8 DEF Call
<1>9. CASE Next
  <2>1. CASE \E u \in User, n \in Nick : AddUser(u, n)
    BY <1>8, <2>1 DEF AddUser
  <2>2. CASE \E u \in User : RemoveUser(u)
    BY <1>8, <2>2 DEF RemoveUser
  <2>3. CASE \E u \in User : FreeUser(u)
    BY <1>2, <1>3, <1>5, <2>3
  <2>4. CASE \E u \in User : Register(u)
    BY <1>8, <2>4 DEF Register
  <2>5. CASE \E k \in Channel, n \in Name : AddChannel(k, n)
    BY <1>8, <2>5 DEF AddChannel
  <2>6. CASE \E k \in Channel : RemoveChannel(k)
    BY <1>8, <2>6 DEF RemoveChannel
  <2>7. CASE \E k \in Channel : FreeChannel(k)
    BY <1>2, <1>3, <1>6, <2>7
  <2>8. CASE \E k \in Channel, u \in User : chirc_channeluser_get_or_create(k, u)
    BY <1>8, <2>8 DEF chirc_channeluser_get_or_create
  <2>9. CASE \E k \in Channel, u \in User : Leave(k, u)
    BY <1>8, <2>9 DEF Leave
  <2>10. CASE \E s \in Socket : AddConnection(s)
    BY <1>8, <2>10 DEF AddConnection
  <2>11. CASE \E i \in DOMAIN connections : RemoveConnection(i)
    BY <1>8, <2>11 DEF RemoveConnection
  <2>12. CASE \E i \in DOMAIN connections : Identify(i)
    BY <1>8, <2>12 DEF Identify
  <2>13. CASE \E m \in Mode : SetMode(m)
    BY <1>8, <2>13 DEF SetMode
  <2>14. CASE \E m \in Mode : RemoveMode(m)
    BY <1>8, <2>14 DEF RemoveMode
  <2>15. QED
    BY <1>1, <1>4, <1>9, <2>1, <2>2, <2>3, <2>4, <2>5, <2>6, <2>7, <2>8, <2>9, <2>10, <2>11, <2>12,
       <2>13, <2>14 DEF Next
<1>10. QED
  BY <1>7, <1>9

\* A network file is loaded exactly when each of its lines has four fields, no name occurs
\* twice and this server is among them, and then the table has them (ctx.c:286-350), for
\* any command lines and any bytes in the files.
THEOREM NetworkLoadsCorrect == Spec => []NetworkLoads
<1>1. Init => LoadInv
  BY LoadInit DEF Init
<1>2. LoadInv /\ [Next]_vars => LoadInv'
  BY LoadStep
<1>3. LoadInv => NetworkLoads
  BY InvLoads
<1>4. QED
  BY <1>1, <1>2, <1>3, PTL DEF Spec

=============================================================================
