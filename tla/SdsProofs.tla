------------------------------- MODULE SdsProofs -------------------------------
(***************************************************************************)
(* The header of a string tells the truth about its memory, users see a    *)
(* sequence of bytes, and what is cut or quoted is put together or read    *)
(* again: for any limits of the five headers, any preallocation, texts,    *)
(* formats and bounds.                                                     *)
(***************************************************************************)
EXTENDS Sds, SequenceLemmas, SequenceTheorems, WellFoundedInduction, TLAPS

-----------------------------------------------------------------------------
(* The inductive invariant *)

\* A string as it is between two steps of a call, with or without its terminator: its
\* length and its capacity fit into the header, and its bytes into the allocation.
String(x) ==
    /\ DOMAIN x = {"type", "len", "alloc", "size", "buf"}
    /\ x.type \in Type /\ x.len \in Nat /\ x.alloc \in Nat /\ x.size \in Nat
    /\ DOMAIN x.buf = 0..(x.size - 1)
    /\ \A i \in 0..(x.size - 1) : x.buf[i] \in Byte \union {Junk}
    /\ \A i \in 0..(x.len - 1) : x.buf[i] \in Byte
    /\ x.len < x.size /\ x.len < Limit[x.type]
    /\ x.type # SDS_TYPE_5 => x.size = x.alloc + 1 /\ x.alloc < Limit[x.type]

Ended(x) == x.buf[x.len] = NUL

\* y has the bytes t from offset at on, and elsewhere those of x.
Overwrites(y, x, at, t) ==
    \A i \in 0..(x.size - 1) :
        y.buf[i] = IF i \in at..(at + Len(t) - 1) THEN t[i - at + 1] ELSE x.buf[i]

SdsInv ==
    /\ String(s) /\ s.len =< MaxLen
    /\ call \in [name : {"none", "sdscatfmt", "sdscatrepr"}, pieces : Seq(Seq(Byte)), from : Nat]
    /\ call.from =< s.len
    /\ call.name # "sdscatfmt" => Ended(s)

-----------------------------------------------------------------------------
(* Numbers *)

\* What fits into a field is stored as it is.
LEMMA ModSmall ==
    ASSUME NEW n \in Nat, NEW m \in Nat, n < m
    PROVE  n % m = n
  OBVIOUS

LEMMA LimitFacts ==
    /\ \A t \in Type : Limit[t] \in Nat /\ Limit[t] > 0
    /\ Limit[0] =< Limit[1] /\ Limit[4] \in Nat
    /\ MaxLen \in Nat /\ MaxLen > 0 /\ MaxPrealloc \in Nat /\ 8 * MaxLen + MaxPrealloc < Limit[4]
  BY LimitAssumption, MaxLenAssumption, MaxPreallocAssumption DEF Type

\* A set of natural numbers with a member has a least one.
LEMMA LeastExists ==
    ASSUME NEW I, I \subseteq Nat, I # {}
    PROVE  \E x \in I : \A y \in I : x =< y
<1>1. PICK x \in I : \A y \in I : ~ (<<y, x>> \in OpToRel(<, Nat))
  BY NatLessThanWellFounded, WFMin, Zenon
<1>2. \A y \in I : x =< y
  <2> TAKE y \in I
  <2>1. ~ (<<y, x>> \in OpToRel(<, Nat))
    BY <1>1
  <2>2. x \in Nat /\ y \in Nat
    OBVIOUS
  <2>3. ~ (y < x)
    BY <2>1, <2>2 DEF OpToRel
  <2>4. QED
    BY <2>2, <2>3
<1>3. QED
  BY <1>2

-----------------------------------------------------------------------------
(* Memory *)

LEMMA WrittenString ==
    ASSUME NEW x, String(x), NEW at \in Nat, NEW t \in Seq(Byte), at + Len(t) =< x.size,
           NEW y, y = Written(x, at, t)
    PROVE  /\ String(y)
           /\ y.type = x.type /\ y.len = x.len /\ y.alloc = x.alloc /\ y.size = x.size
           /\ Overwrites(y, x, at, t)
<1>1. /\ Len(t) \in Nat /\ DOMAIN x.buf = 0..(x.size - 1) /\ x.size \in Nat
      /\ \A i \in 1..Len(t) : t[i] \in Byte
  BY DEF String
<1>2. PICK n : n = Len(t)
  OBVIOUS
<1>3. (DOMAIN x.buf) \union (at..(at + n - 1)) = 0..(x.size - 1)
  BY <1>1, <1>2
<1>4. PICK b : b = [i \in 0..(x.size - 1) |->
                       IF i \in at..(at + Len(t) - 1) THEN t[i - at + 1] ELSE x.buf[i]]
  OBVIOUS
<1>5. y = [x EXCEPT !.buf = b]
  BY <1>2, <1>3, <1>4 DEF Written
<1>6. /\ DOMAIN y = DOMAIN x /\ y.buf = b
      /\ y.type = x.type /\ y.len = x.len /\ y.alloc = x.alloc /\ y.size = x.size
  BY <1>5 DEF String
<1>7. \A i \in 0..(x.size - 1) :
          /\ b[i] = IF i \in at..(at + Len(t) - 1) THEN t[i - at + 1] ELSE x.buf[i]
          /\ i \in at..(at + Len(t) - 1) => i - at + 1 \in 1..Len(t)
  BY <1>1, <1>4
<1>8. \A i \in 0..(x.size - 1) : b[i] \in Byte \/ b[i] = x.buf[i]
  BY <1>1, <1>7
<1>9. String(y)
  BY <1>4, <1>6, <1>8 DEF String
<1>10. Overwrites(y, x, at, t)
  BY <1>6, <1>7 DEF Overwrites
<1>11. QED
  BY <1>6, <1>9, <1>10

LEMMA SetLenString ==
    ASSUME NEW x, String(x), NEW n \in Nat, n < x.size, n < Limit[x.type],
           \A i \in 0..(n - 1) : x.buf[i] \in Byte,
           NEW y, y = sdssetlen(x, n) \/ y = sdsinclen(x, n - x.len)
    PROVE  /\ String(y) /\ y.len = n
           /\ y.type = x.type /\ y.alloc = x.alloc /\ y.size = x.size /\ y.buf = x.buf
<1>1. n % Limit[x.type] = n
  BY ModSmall, LimitFacts DEF String
<1>2. x.len \in Nat /\ x.len + (n - x.len) = n
  BY DEF String
<1>3. y = [x EXCEPT !.len = n]
  BY <1>1, <1>2 DEF sdssetlen, sdsinclen
<1>4. QED
  BY <1>3 DEF String

LEMMA TypeFits ==
    ASSUME NEW n \in Nat, n < Limit[4], NEW t, t = sdsReqType(n)
    PROVE  t \in Type /\ n < Limit[t]
  BY DEF sdsReqType, Type, SDS_TYPE_5, SDS_TYPE_8, SDS_TYPE_16, SDS_TYPE_32, SDS_TYPE_64

\* A header other than type 5 that is large enough.
LEMMA RoomTypeFits ==
    ASSUME NEW n \in Nat, n < Limit[4],
           NEW t, t = IF sdsReqType(n) = SDS_TYPE_5 THEN SDS_TYPE_8 ELSE sdsReqType(n)
    PROVE  t \in Type /\ t # SDS_TYPE_5 /\ n < Limit[t]
<1>1. sdsReqType(n) \in Type /\ n < Limit[sdsReqType(n)]
  BY TypeFits
<1>2. CASE sdsReqType(n) = SDS_TYPE_5
  BY <1>1, <1>2, LimitFacts DEF Type, SDS_TYPE_5, SDS_TYPE_8
<1>3. CASE sdsReqType(n) # SDS_TYPE_5
  BY <1>1, <1>3
<1>4. QED
  BY <1>2, <1>3

\* What a user reads of a string.
LEMMA ContentSeq ==
    ASSUME NEW x, String(x)
    PROVE  Content(x) \in Seq(Byte) /\ Len(Content(x)) = x.len
<1>1. PICK n : n = x.len
  OBVIOUS
<1>2. n \in Nat /\ \A i \in 1..n : i - 1 \in 0..(n - 1)
  BY <1>1 DEF String
<1>3. \A i \in 1..n : x.buf[i - 1] \in Byte
  BY <1>1, <1>2 DEF String
<1>4. [i \in 1..n |-> x.buf[i - 1]] \in Seq(Byte) /\ Len([i \in 1..n |-> x.buf[i - 1]]) = n
  BY <1>2, <1>3
<1>5. QED
  BY <1>1, <1>4 DEF Content

LEMMA ContentIs ==
    ASSUME NEW x, String(x), NEW t \in Seq(Byte), x.len = Len(t),
           \A i \in 0..(Len(t) - 1) : x.buf[i] = t[i + 1]
    PROVE  Content(x) = t
<1>1. PICK n : n = Len(t)
  OBVIOUS
<1>2. n \in Nat /\ \A i \in 1..n : i - 1 \in 0..(n - 1) /\ (i - 1) + 1 = i
  BY <1>1
<1>3. \A i \in 1..n : x.buf[i - 1] = t[i]
  BY <1>1, <1>2
<1>4. t = [i \in 1..n |-> t[i]]
  BY <1>1
<1>5. QED
  BY <1>1, <1>3, <1>4 DEF Content

\* The same bytes are the same text.
LEMMA ContentSame ==
    ASSUME NEW x, String(x), NEW y, y.len = x.len, \A i \in 0..(x.len - 1) : y.buf[i] = x.buf[i]
    PROVE  Content(y) = Content(x)
<1>1. x.len \in Nat /\ \A i \in 1..x.len : i - 1 \in 0..(x.len - 1)
  BY DEF String
<1>2. \A i \in 1..x.len : y.buf[i - 1] = x.buf[i - 1]
  BY <1>1
<1>3. QED
  BY <1>2 DEF Content

\* The bytes of x and then those of t.
\* y has the bytes of x and then those of t; l and n are their lengths.
Continues(y, x, t, l, n) ==
    /\ l = x.len /\ n = Len(t) /\ y.len = l + n
    /\ \A i \in 0..(l - 1) : y.buf[i] = x.buf[i]
    /\ \A i \in l..(l + n - 1) : y.buf[i] = t[i - l + 1]

LEMMA ContentJoined ==
    ASSUME NEW x, String(x), NEW y, String(y), NEW t \in Seq(Byte), NEW l, NEW n,
           Continues(y, x, t, l, n)
    PROVE  Content(y) = Content(x) \o t
<1>1. PICK c : c = Content(x)
  OBVIOUS
<1>2. /\ l = x.len /\ n = Len(t) /\ y.len = l + n
      /\ \A i \in 0..(l - 1) : y.buf[i] = x.buf[i]
      /\ \A i \in l..(l + n - 1) : y.buf[i] = t[i - l + 1]
  BY DEF Continues
<1>3. l \in Nat /\ n \in Nat /\ c \in Seq(Byte) /\ Len(c) = l
  <2>1. x.len \in Nat /\ Len(t) \in Nat
    BY DEF String
  <2>2. l \in Nat /\ n \in Nat
    BY <1>2, <2>1
  <2>3. QED
    BY <1>1, <1>2, <2>2, ContentSeq
<1>4. PICK u : u = c \o t
  OBVIOUS
<1>5. /\ u \in Seq(Byte) /\ Len(u) = l + n
      /\ \A i \in 1..(l + n) : u[i] = IF i =< l THEN c[i] ELSE t[i - l]
  <2>1. PICK S : S = Byte
    OBVIOUS
  <2>2. c \in Seq(S) /\ t \in Seq(S)
    BY <1>3, <2>1
  <2>3. /\ u \in Seq(S) /\ Len(u) = Len(c) + Len(t)
        /\ \A i \in 1..(Len(c) + Len(t)) : u[i] = IF i =< Len(c) THEN c[i] ELSE t[i - Len(c)]
    BY <1>4, <2>2, ConcatProperties
  <2>4. QED
    BY <1>2, <1>3, <2>1, <2>3
<1>6. \A i \in 1..l : c[i] = x.buf[i - 1]
  BY <1>1, <1>2 DEF Content
<1>7. \A i \in 0..(Len(u) - 1) : y.buf[i] = u[i + 1]
  <2>0. 0..(Len(u) - 1) = 0..(l + n - 1)
    <3>1. Len(u) = l + n
      BY <1>5
    <3>2. Len(u) - 1 = l + n - 1
      BY <1>3, <3>1
    <3>3. QED
      BY <3>2, Zenon
  <2> SUFFICES ASSUME NEW i \in 0..(l + n - 1) PROVE y.buf[i] = u[i + 1]
    BY <2>0, Zenon
  <2>1. i + 1 \in 1..(l + n) /\ (i + 1) - 1 = i /\ (i + 1) - l = i - l + 1
    BY <1>3
  <2>2. CASE i \in 0..(l - 1)
    <3>1. i + 1 \in 1..l /\ i + 1 =< l
      BY <1>3, <2>2
    <3>2. QED
      BY <1>2, <1>5, <1>6, <2>1, <2>2, <3>1
  <2>3. CASE i \in l..(l + n - 1)
    <3>1. ~(i + 1 =< l)
      BY <1>3, <2>3
    <3>2. QED
      BY <1>2, <1>5, <2>1, <2>3, <3>1
  <2>4. QED
    BY <1>3, <2>2, <2>3
<1>8. y.len = Len(u)
  BY <1>2, <1>5
<1>9. Content(y) = u
  BY <1>5, <1>7, <1>8, ContentIs
<1>10. QED
  BY <1>1, <1>4, <1>9

LEMMA NewString ==
    ASSUME NEW t \in Seq(Byte), Len(t) =< MaxLen, NEW y, y = sdsnewlen(t)
    PROVE  String(y) /\ y.len = Len(t) /\ Ended(y) /\ Content(y) = t
<1>1. PICK n : n = Len(t)
  OBVIOUS
<1>2. n \in Nat /\ n =< MaxLen /\ n < Limit[4] /\ \A i \in 1..n : t[i] \in Byte
  BY <1>1, LimitFacts
<1>3. PICK k : k = IF sdsReqType(n) = SDS_TYPE_5 /\ n = 0 THEN SDS_TYPE_8 ELSE sdsReqType(n)
  OBVIOUS
<1>4. k \in Type /\ n < Limit[k]
  BY <1>2, <1>3, TypeFits, RoomTypeFits
<1>5. n % Limit[k] = n
  BY <1>2, <1>4, ModSmall, LimitFacts
<1>6. y = [type |-> k, len |-> n, alloc |-> IF k = SDS_TYPE_5 THEN 0 ELSE n, size |-> n + 1,
           buf |-> [i \in 0..n |-> IF i < n THEN t[i + 1] ELSE NUL]]
  BY <1>1, <1>3, <1>5 DEF sdsnewlen
<1>7. \A i \in 0..n : y.buf[i] = IF i < n THEN t[i + 1] ELSE NUL
  BY <1>6
<1>8. \A i \in 0..n : i < n => i + 1 \in 1..n
  BY <1>2
<1>9. \A i \in 0..n : y.buf[i] \in Byte
  <2>1. NUL \in Byte
    BY DEF NUL, Byte
  <2>2. QED
    BY <1>2, <1>7, <1>8, <2>1
<1>10. DOMAIN y.buf = 0..(n + 1 - 1) /\ 0..(n + 1 - 1) = 0..n
  BY <1>2, <1>6
<1>11. String(y)
  BY <1>2, <1>4, <1>6, <1>9, <1>10 DEF String
<1>12. Ended(y)
  BY <1>2, <1>6, <1>7 DEF Ended
<1>13. Content(y) = t
  <2>1. \A i \in 0..(Len(t) - 1) : y.buf[i] = t[i + 1]
    BY <1>1, <1>2, <1>7
  <2>2. y.len = Len(t)
    BY <1>1, <1>6
  <2>3. QED
    BY <1>11, <2>1, <2>2, ContentIs
<1>14. QED
  BY <1>1, <1>6, <1>11, <1>12, <1>13

\* What sdsavail says is there, is there.
LEMMA AvailString ==
    ASSUME NEW x, String(x), NEW n \in Int, x.len + n >= 0, sdsavail(x) >= n
    PROVE  x.len + n < x.size /\ x.len + n < Limit[x.type]
<1>1. Limit[x.type] \in Nat /\ x.len \in Nat /\ x.alloc \in Nat /\ x.size \in Nat
  BY LimitFacts DEF String
<1>2. CASE x.type = SDS_TYPE_5
  BY <1>1, <1>2 DEF String, sdsavail
<1>3. CASE x.type # SDS_TYPE_5
  BY <1>1, <1>3 DEF String, sdsavail
<1>4. QED
  BY <1>2, <1>3

\* A block of n + 1 bytes under a header of type k that keeps the string.
LEMMA MovedString ==
    ASSUME NEW x, String(x), NEW k \in Type, NEW n \in Nat, n < Limit[k], x.len =< n,
           NEW kept \in Nat, x.len < kept, kept =< x.size,
           NEW y, y = sdssetalloc(sdssetlen(Moved(x, k, kept, n + 1), x.len), n)
                    \/ (k = x.type /\ y = sdssetalloc(Moved(x, k, kept, n + 1), n))
    PROVE  /\ String(y) /\ y.len = x.len /\ y.type = k /\ y.size = n + 1
           /\ \A i \in 0..(x.len - 1) : y.buf[i] = x.buf[i]
           /\ Ended(x) => Ended(y)
<1>1. PICK b : b = [i \in 0..(n + 1 - 1) |-> IF i < kept THEN x.buf[i] ELSE Junk]
  OBVIOUS
<1>2. x.len % Limit[k] = x.len /\ n % Limit[k] = n /\ x.len \in Nat /\ x.size \in Nat
  <2>1. x.len \in Nat /\ x.size \in Nat /\ Limit[k] \in Nat
    BY LimitFacts DEF String
  <2>2. PICK a, m : a = x.len /\ m = Limit[k]
    OBVIOUS
  <2>3. a \in Nat /\ m \in Nat /\ a < m /\ n < m
    BY <2>1, <2>2
  <2>4. a % m = a /\ n % m = n
    BY <2>3, ModSmall
  <2>5. QED
    BY <2>1, <2>2, <2>4
<1>3. PICK m : m = Moved(x, k, kept, n + 1)
  OBVIOUS
<1>4. /\ DOMAIN m = DOMAIN x /\ m.type = k /\ m.size = n + 1 /\ m.buf = b
      /\ m.len = x.len /\ m.alloc = x.alloc
  BY <1>1, <1>3 DEF Moved, String
<1>5. PICK l : l = sdssetlen(m, x.len)
  OBVIOUS
<1>6. /\ DOMAIN l = DOMAIN x /\ l.type = k /\ l.size = n + 1 /\ l.buf = b
      /\ l.len = x.len /\ l.alloc = x.alloc
  BY <1>2, <1>4, <1>5 DEF sdssetlen, String
<1>7. PICK z : (z = l \/ z = m) /\ y = sdssetalloc(z, n)
  BY <1>3, <1>5
<1>8. /\ DOMAIN z = DOMAIN x /\ z.type = k /\ z.size = n + 1 /\ z.buf = b
      /\ z.len = x.len /\ z.alloc = x.alloc
  BY <1>4, <1>6, <1>7
<1>9. /\ DOMAIN y = DOMAIN x /\ y.type = k /\ y.size = n + 1 /\ y.buf = b /\ y.len = x.len
      /\ y.alloc = IF k = SDS_TYPE_5 THEN x.alloc ELSE n
  BY <1>2, <1>7, <1>8 DEF sdssetalloc, String
<1>10. /\ DOMAIN b = 0..(n + 1 - 1)
       /\ \A i \in 0..(n + 1 - 1) : b[i] = IF i < kept THEN x.buf[i] ELSE Junk
  BY <1>1
<1>11. \A i \in 0..(n + 1 - 1) : b[i] \in Byte \union {Junk}
  BY <1>2, <1>10 DEF String
<1>12. \A i \in 0..x.len : b[i] = x.buf[i]
  BY <1>2, <1>10
<1>13. String(y)
  <2>1. \A i \in 0..(x.len - 1) : b[i] \in Byte
    BY <1>2, <1>12 DEF String
  <2>2. x.len < n + 1 /\ x.len < Limit[k]
    BY <1>2, LimitFacts
  <2>3. x.alloc \in Nat
    BY DEF String
  <2>4. DOMAIN y = {"type", "len", "alloc", "size", "buf"}
    BY <1>9 DEF String
  <2>5. QED
    BY <1>2, <1>9, <1>10, <1>11, <2>1, <2>2, <2>3, <2>4 DEF String
<1>14. Ended(x) => Ended(y)
  BY <1>2, <1>9, <1>12 DEF Ended
<1>15. QED
  BY <1>2, <1>9, <1>12, <1>13, <1>14

LEMMA RoomString ==
    ASSUME NEW x, String(x), NEW n \in Int, x.len + n >= 0, x.len + n =< 4 * MaxLen,
           NEW y, y = sdsMakeRoomFor(x, n)
    PROVE  /\ String(y) /\ y.len = x.len /\ x.len + n < y.size /\ x.len + n < Limit[y.type]
           /\ \A i \in 0..(x.len - 1) : y.buf[i] = x.buf[i]
           /\ Ended(x) => Ended(y)
           /\ sdsavail(y) >= n
<1>0. x.len \in Nat /\ x.size \in Nat /\ x.alloc \in Nat
  BY DEF String
<1>1. CASE sdsavail(x) >= n
  <2>1. y = x
    BY <1>1 DEF sdsMakeRoomFor
  <2>2. QED
    BY <1>1, <2>1, AvailString
<1>2. CASE ~(sdsavail(x) >= n)
  <2>1. PICK need : need = x.len + n
    OBVIOUS
  <2>2. PICK newlen : newlen = IF need < MaxPrealloc THEN need * 2 ELSE need + MaxPrealloc
    OBVIOUS
  <2>3. n > 0
    BY <1>0, <1>2 DEF sdsavail, String
  <2>4. newlen \in Nat /\ need =< newlen /\ newlen < Limit[4] /\ x.len < need
    BY <1>0, <2>1, <2>2, <2>3, LimitFacts
  <2>5. PICK k : k = IF sdsReqType(newlen) = SDS_TYPE_5 THEN SDS_TYPE_8 ELSE sdsReqType(newlen)
    OBVIOUS
  <2>6. k \in Type /\ k # SDS_TYPE_5 /\ newlen < Limit[k]
    BY <2>4, <2>5, RoomTypeFits
  <2>7. y = IF k = x.type THEN sdssetalloc(Moved(x, k, x.size, newlen + 1), newlen)
            ELSE sdssetalloc(sdssetlen(Moved(x, k, x.len + 1, newlen + 1), x.len), newlen)
    BY <1>2, <2>1, <2>2, <2>5 DEF sdsMakeRoomFor
  <2>8. PICK kept \in {x.size, x.len + 1} :
            \/ y = sdssetalloc(sdssetlen(Moved(x, k, kept, newlen + 1), x.len), newlen)
            \/ k = x.type /\ y = sdssetalloc(Moved(x, k, kept, newlen + 1), newlen)
    BY <2>7
  <2>9. kept \in Nat /\ x.len < kept /\ kept =< x.size
    BY <1>0, <2>8 DEF String
  <2>10. x.len =< newlen
    BY <1>0, <2>1, <2>4, <2>3
  <2>11. /\ String(y) /\ y.len = x.len /\ y.type = k /\ y.size = newlen + 1
         /\ \A i \in 0..(x.len - 1) : y.buf[i] = x.buf[i]
         /\ Ended(x) => Ended(y)
    BY <2>4, <2>6, <2>8, <2>9, <2>10, MovedString
  <2>12. x.len + n < y.size /\ x.len + n < Limit[y.type]
    BY <1>0, <2>1, <2>4, <2>6, <2>11, LimitFacts
  <2>13. sdsavail(y) >= n
    BY <1>0, <2>1, <2>4, <2>6, <2>11 DEF sdsavail, String
  <2>14. QED
    BY <2>11, <2>12, <2>13
<1>3. QED
  BY <1>1, <1>2

LEMMA ShrinkString ==
    ASSUME NEW x, String(x), x.len =< MaxLen, NEW y, y = sdsRemoveFreeSpace(x)
    PROVE  /\ String(y) /\ y.len = x.len /\ (Ended(x) => Ended(y))
           /\ \A i \in 0..(x.len - 1) : y.buf[i] = x.buf[i]
<1>0. x.len \in Nat /\ x.size \in Nat /\ x.len < Limit[4]
  BY LimitFacts DEF String
<1>1. CASE sdsavail(x) = 0
  BY <1>1 DEF sdsRemoveFreeSpace
<1>2. CASE sdsavail(x) # 0
  <2>1. PICK k : k = sdsReqType(x.len)
    OBVIOUS
  <2>2. k \in Type /\ x.len < Limit[k]
    BY <1>0, <2>1, TypeFits
  <2>3. CASE x.type = k \/ k > SDS_TYPE_8
    <3>1. y = sdssetalloc(Moved(x, x.type, x.len + 1, x.len + 1), x.len)
      BY <1>2, <2>1, <2>3 DEF sdsRemoveFreeSpace
    <3>2. x.type \in Type /\ x.len < Limit[x.type] /\ x.len + 1 =< x.size
      BY <1>0 DEF String
    <3>3. QED
      BY <1>0, <3>1, <3>2, MovedString
  <2>4. CASE ~(x.type = k \/ k > SDS_TYPE_8)
    <3>1. y = sdssetalloc(sdssetlen(Moved(x, k, x.len + 1, x.len + 1), x.len), x.len)
      BY <1>2, <2>1, <2>4 DEF sdsRemoveFreeSpace
    <3>2. x.len + 1 =< x.size
      BY <1>0 DEF String
    <3>3. QED
      BY <1>0, <2>2, <3>1, <3>2, MovedString
  <2>5. QED
    BY <2>3, <2>4
<1>3. QED
  BY <1>1, <1>2

\* A terminator at a place inside the allocation.
LEMMA TerminatedString ==
    ASSUME NEW x, String(x), NEW at \in Nat, at < x.size, NEW y, y = Terminated(x, at)
    PROVE  /\ String(y)
           /\ y.type = x.type /\ y.len = x.len /\ y.alloc = x.alloc /\ y.size = x.size
           /\ \A i \in 0..(x.size - 1) : y.buf[i] = IF i = at THEN NUL ELSE x.buf[i]
<1>1. PICK t : t = <<NUL>>
  OBVIOUS
<1>2. t \in Seq(Byte) /\ Len(t) = 1 /\ t[1] = NUL
  BY <1>1 DEF NUL, Byte
<1>3. x.size \in Nat
  BY DEF String
<1>4. y = Written(x, at, t)
  BY <1>1 DEF Terminated
<1>5. /\ String(y)
      /\ y.type = x.type /\ y.len = x.len /\ y.alloc = x.alloc /\ y.size = x.size
      /\ \A i \in 0..(x.size - 1) :
             y.buf[i] = IF i \in at..(at + Len(t) - 1) THEN t[i - at + 1] ELSE x.buf[i]
  <2>1. at + Len(t) =< x.size /\ t \in Seq(Byte)
    BY <1>2, <1>3
  <2>2. /\ String(y) /\ y.type = x.type /\ y.len = x.len /\ y.alloc = x.alloc /\ y.size = x.size
        /\ Overwrites(y, x, at, t)
    BY <1>4, <2>1, WrittenString
  <2>3. QED
    BY <2>2 DEF Overwrites
<1>6. \A i \in 0..(x.size - 1) : i \in at..(at + Len(t) - 1) <=> i = at
  BY <1>2, <1>3
<1>7. \A i \in 0..(x.size - 1) : i = at => i - at + 1 = 1
  BY <1>3
<1>8. \A i \in 0..(x.size - 1) : y.buf[i] = IF i = at THEN NUL ELSE x.buf[i]
  BY <1>2, <1>5, <1>6, <1>7
<1>9. QED
  BY <1>5, <1>8

\* t from the first byte on, its terminator and its length.
LEMMA FilledString ==
    ASSUME NEW x, String(x), NEW t \in Seq(Byte), Len(t) < x.size, Len(t) < Limit[x.type],
           NEW y, y = sdssetlen(Terminated(Written(x, 0, t), Len(t)), Len(t))
    PROVE  String(y) /\ y.len = Len(t) /\ Ended(y) /\ Content(y) = t
<1>1. PICK n : n = Len(t)
  OBVIOUS
<1>2. /\ n \in Nat /\ n < x.size /\ x.size \in Nat /\ n < Limit[x.type]
      /\ \A i \in 1..n : t[i] \in Byte
  BY <1>1 DEF String
<1>3. PICK w : w = Written(x, 0, t)
  OBVIOUS
<1>4. /\ String(w) /\ w.type = x.type /\ w.size = x.size
      /\ \A i \in 0..(x.size - 1) :
             w.buf[i] = IF i \in 0..(0 + Len(t) - 1) THEN t[i - 0 + 1] ELSE x.buf[i]
  <2>1. PICK at \in Nat : at = 0
    OBVIOUS
  <2>2. at + Len(t) =< x.size /\ w = Written(x, at, t)
    BY <1>1, <1>2, <1>3, <2>1
  <2>3. /\ String(w) /\ w.type = x.type /\ w.size = x.size
        /\ Overwrites(w, x, at, t)
    BY <2>2, WrittenString
  <2>4. QED
    BY <2>1, <2>3, Zenon DEF Overwrites
<1>5. PICK v : v = Terminated(w, n)
  OBVIOUS
<1>6. /\ String(v) /\ v.type = x.type /\ v.size = x.size
      /\ \A i \in 0..(x.size - 1) : v.buf[i] = IF i = n THEN NUL ELSE w.buf[i]
  BY <1>2, <1>4, <1>5, TerminatedString
<1>7. \A i \in 0..(n - 1) : v.buf[i] \in Byte
  <2> TAKE i \in 0..(n - 1)
  <2>1. i \in 0..(x.size - 1) /\ i # n /\ i \in 0..(0 + n - 1) /\ i - 0 + 1 \in 1..n
    BY <1>2
  <2>2. QED
    BY <1>1, <1>2, <1>4, <1>6, <2>1
<1>8. y = sdssetlen(v, n)
  BY <1>1, <1>3, <1>5
<1>9. String(y) /\ y.len = n /\ y.buf = v.buf
  BY <1>2, <1>6, <1>7, <1>8, SetLenString
<1>10. n \in 0..(x.size - 1)
  BY <1>2
<1>11. Ended(y)
  BY <1>6, <1>9, <1>10 DEF Ended
<1>12. \A i \in 0..(Len(t) - 1) : y.buf[i] = t[i + 1]
  <2> SUFFICES ASSUME NEW i \in 0..(n - 1) PROVE y.buf[i] = t[i + 1]
    BY <1>1
  <2>1. i \in 0..(x.size - 1) /\ i # n /\ i \in 0..(0 + n - 1) /\ i - 0 + 1 = i + 1
    BY <1>2
  <2>2. QED
    BY <1>1, <1>4, <1>6, <1>9, <2>1
<1>13. Content(y) = t
  BY <1>1, <1>9, <1>12, ContentIs
<1>14. QED
  BY <1>1, <1>9, <1>11, <1>13

LEMMA KeptString ==
    ASSUME NEW x, String(x), NEW at \in Nat, NEW n \in Nat, at + n =< x.len,
           NEW y, y = Kept(x, at, n)
    PROVE  String(y) /\ y.len = n /\ Ended(y) /\ Content(y) = SubSeq(Content(x), at + 1, at + n)
<1>1. PICK c : c = Content(x)
  OBVIOUS
<1>2. c \in Seq(Byte) /\ Len(c) = x.len /\ x.len \in Nat /\ x.size \in Nat
  BY <1>1, ContentSeq DEF String
<1>3. PICK t : t = SubSeq(c, at + 1, at + n)
  OBVIOUS
<1>4. t \in Seq(Byte) /\ Len(t) = n
  <2>1. \A i \in at + 1..at + n : c[i] \in Byte
    BY <1>2
  <2>2. at + 1 \in Int /\ at + n \in Int
    OBVIOUS
  <2>3. t \in Seq(Byte) /\ Len(t) = IF at + 1 =< at + n THEN at + n - (at + 1) + 1 ELSE 0
    BY <1>3, <2>1, <2>2, SubSeqProperties
  <2>4. (at + 1 =< at + n => at + n - (at + 1) + 1 = n) /\ (~(at + 1 =< at + n) => n = 0)
    OBVIOUS
  <2>5. QED
    BY <2>3, <2>4, Zenon
<1>5. Len(t) < x.size /\ Len(t) < Limit[x.type]
  BY <1>2, <1>4, LimitFacts DEF String
<1>6. y = sdssetlen(Terminated(Written(x, 0, t), Len(t)), Len(t))
  BY <1>1, <1>3, <1>4 DEF Kept
<1>7. String(y) /\ y.len = Len(t) /\ Ended(y) /\ Content(y) = t
  BY <1>4, <1>5, <1>6, FilledString
<1>8. QED
  BY <1>1, <1>3, <1>4, <1>7

LEMMA CatString ==
    ASSUME NEW x, String(x), NEW t \in Seq(Byte), x.len + Len(t) =< MaxLen,
           NEW y, y = sdscatlen(x, t)
    PROVE  /\ String(y) /\ y.len = x.len + Len(t) /\ Ended(y)
           /\ Content(y) = Content(x) \o t
<1>1. PICK n, l : n = Len(t) /\ l = x.len
  OBVIOUS
<1>2. n \in Nat /\ l \in Nat /\ l + n =< MaxLen /\ l + n =< 4 * MaxLen /\ \A i \in 1..n : t[i] \in Byte
  <2>1. n \in Nat /\ l \in Nat /\ l + n =< MaxLen
    BY <1>1 DEF String
  <2>2. MaxLen \in Nat
    BY LimitFacts
  <2>3. l + n =< 4 * MaxLen
    BY <2>1, <2>2
  <2>4. \A i \in 1..n : t[i] \in Byte
    BY <1>1
  <2>5. QED
    BY <2>1, <2>3, <2>4
<1>3. PICK r : r = sdsMakeRoomFor(x, n)
  OBVIOUS
<1>4. /\ String(r) /\ r.len = l /\ l + n < r.size /\ l + n < Limit[r.type]
      /\ r.size \in Nat /\ \A i \in 0..(l - 1) : r.buf[i] \in Byte /\ r.buf[i] = x.buf[i]
  <2>1. n \in Int /\ x.len + n >= 0 /\ x.len + n =< 4 * MaxLen
    BY <1>1, <1>2
  <2>2. /\ String(r) /\ r.len = x.len /\ x.len + n < r.size /\ x.len + n < Limit[r.type]
        /\ \A i \in 0..(x.len - 1) : r.buf[i] = x.buf[i]
    BY <1>3, <2>1, RoomString
  <2>3. QED
    BY <1>1, <2>2 DEF String
<1>5. PICK w : w = Written(r, l, t)
  OBVIOUS
<1>6. /\ String(w) /\ w.type = r.type /\ w.size = r.size
      /\ \A i \in 0..(r.size - 1) :
             w.buf[i] = IF i \in l..(l + Len(t) - 1) THEN t[i - l + 1] ELSE r.buf[i]
  <2>1. l + Len(t) =< r.size
    BY <1>1, <1>2, <1>4
  <2>2. String(w) /\ w.type = r.type /\ w.size = r.size /\ Overwrites(w, r, l, t)
    BY <1>2, <1>4, <1>5, <2>1, WrittenString
  <2>3. QED
    BY <2>2 DEF Overwrites
<1>7. \A i \in 0..(l + n - 1) : w.buf[i] \in Byte
  <2> TAKE i \in 0..(l + n - 1)
  <2>1. i \in 0..(r.size - 1)
    BY <1>2, <1>4
  <2>2. CASE i \in l..(l + n - 1)
    <3>1. i - l + 1 \in 1..n
      BY <1>2, <2>2
    <3>2. QED
      BY <1>1, <1>2, <1>6, <2>1, <2>2, <3>1
  <2>3. CASE i \notin l..(l + n - 1)
    <3>1. i \in 0..(l - 1)
      BY <1>2, <2>3
    <3>2. QED
      BY <1>1, <1>4, <1>6, <2>1, <2>3, <3>1
  <2>4. QED
    BY <2>2, <2>3
<1>8. PICK v : v = sdssetlen(w, l + n)
  OBVIOUS
<1>9. String(v) /\ v.len = l + n /\ v.size = r.size /\ v.buf = w.buf
  <2>1. PICK m : m = l + n
    OBVIOUS
  <2>2. /\ m \in Nat /\ m < w.size /\ m < Limit[w.type] /\ v = sdssetlen(w, m)
        /\ \A i \in 0..(m - 1) : w.buf[i] \in Byte
    BY <1>2, <1>4, <1>6, <1>7, <1>8, <2>1
  <2>3. String(v) /\ v.len = m /\ v.size = w.size /\ v.buf = w.buf
    BY <1>6, <2>2, SetLenString
  <2>4. QED
    BY <1>6, <2>1, <2>3
<1>10. y = Terminated(v, l + n)
  BY <1>1, <1>3, <1>5, <1>8 DEF sdscatlen
<1>11. /\ String(y) /\ y.len = l + n
       /\ \A i \in 0..(r.size - 1) : y.buf[i] = IF i = l + n THEN NUL ELSE v.buf[i]
  <2>1. l + n \in Nat
    BY <1>2
  <2>2. QED
    BY <1>4, <1>9, <1>10, <2>1, TerminatedString
<1>12. l + n \in 0..(r.size - 1)
  BY <1>2, <1>4
<1>13. Ended(y)
  BY <1>11, <1>12 DEF Ended
<1>14. \A i \in 0..(l - 1) : y.buf[i] = x.buf[i]
  <2> TAKE i \in 0..(l - 1)
  <2>1. i \in 0..(r.size - 1) /\ i # l + n /\ i \notin l..(l + Len(t) - 1)
    BY <1>2, <1>4
  <2>2. QED
    BY <1>4, <1>6, <1>9, <1>11, <2>1
<1>15. \A i \in l..(l + n - 1) : y.buf[i] = t[i - l + 1]
  <2> TAKE i \in l..(l + n - 1)
  <2>1. i \in 0..(r.size - 1) /\ i # l + n
    BY <1>2, <1>4
  <2>2. QED
    BY <1>1, <1>6, <1>9, <1>11, <2>1
<1>16. Content(y) = Content(x) \o t
  <2>1. Continues(y, x, t, l, n)
    BY <1>1, <1>11, <1>14, <1>15 DEF Continues
  <2>2. QED
    BY <1>11, <2>1, ContentJoined
<1>17. QED
  BY <1>1, <1>11, <1>13, <1>16

LEMMA CopyString ==
    ASSUME NEW x, String(x), NEW t \in Seq(Byte), Len(t) =< MaxLen, NEW y, y = sdscpylen(x, t)
    PROVE  String(y) /\ y.len = Len(t) /\ Ended(y) /\ Content(y) = t
<1>1. PICK n : n = Len(t)
  OBVIOUS
<1>2. n \in Nat /\ n =< MaxLen /\ x.len \in Nat /\ x.alloc \in Nat
  BY <1>1 DEF String
<1>3. PICK r : r = IF sdsalloc(x) < n THEN sdsMakeRoomFor(x, n - x.len) ELSE x
  OBVIOUS
<1>4. String(r) /\ n < r.size /\ n < Limit[r.type]
  <2>1. CASE sdsalloc(x) < n
    <3>1. n - x.len \in Int /\ x.len + (n - x.len) = n /\ n >= 0 /\ n =< 4 * MaxLen
      BY <1>2, LimitFacts
    <3>2. r = sdsMakeRoomFor(x, n - x.len)
      BY <1>3, <2>1
    <3>3. QED
      BY <3>1, <3>2, RoomString
  <2>2. CASE ~(sdsalloc(x) < n)
    <3>1. r = x
      BY <1>3, <2>2
    <3>2. Limit[x.type] \in Nat /\ x.size \in Nat
      BY LimitFacts DEF String
    <3>3. CASE x.type = SDS_TYPE_5
      BY <1>2, <2>2, <3>1, <3>2, <3>3 DEF sdsalloc, String
    <3>4. CASE x.type # SDS_TYPE_5
      BY <1>2, <2>2, <3>1, <3>2, <3>4 DEF sdsalloc, String
    <3>5. QED
      BY <3>3, <3>4
  <2>3. QED
    BY <2>1, <2>2
<1>5. y = sdssetlen(Terminated(Written(r, 0, t), Len(t)), Len(t))
  BY <1>1, <1>3 DEF sdscpylen
<1>6. QED
  BY <1>1, <1>4, <1>5, FilledString

LEMMA GrowString ==
    ASSUME NEW x, String(x), Ended(x), NEW n \in 0..MaxLen, NEW y, y = sdsgrowzero(x, n)
    PROVE  /\ String(y) /\ (y.len = x.len \/ y.len = n) /\ Ended(y)
           /\ n =< x.len => y = x
           /\ x.len < n => Content(y) = Content(x) \o [i \in 1..(n - x.len) |-> NUL]
<1>1. PICK l : l = x.len
  OBVIOUS
<1>2. n \in Nat /\ l \in Nat /\ MaxLen \in Nat
  BY <1>1, LimitFacts DEF String
<1>3. CASE n =< l
  BY <1>1, <1>2, <1>3 DEF sdsgrowzero
<1>4. CASE ~(n =< l)
  <2>1. PICK r : r = sdsMakeRoomFor(x, n - l)
    OBVIOUS
  <2>2. n - l \in Int /\ x.len + (n - l) = n /\ n >= 0 /\ n =< 4 * MaxLen /\ l < n
    BY <1>1, <1>2, <1>4
  <2>3. /\ String(r) /\ r.len = l /\ n < r.size /\ n < Limit[r.type]
        /\ \A i \in 0..(l - 1) : r.buf[i] = x.buf[i]
    BY <1>1, <2>1, <2>2, RoomString
  <2>4. r.size \in Nat /\ \A i \in 0..(l - 1) : r.buf[i] \in Byte
    BY <2>3 DEF String
  <2>5. PICK t : t = [i \in 1..(n - l + 1) |-> NUL]
    OBVIOUS
  <2>6. t \in Seq(Byte) /\ Len(t) = n - l + 1 /\ \A i \in 1..(n - l + 1) : t[i] = NUL
    <3>1. NUL \in Byte /\ n - l + 1 \in Nat
      BY <1>2, <2>2 DEF NUL, Byte
    <3>2. QED
      BY <2>5, <3>1
  <2>7. PICK w : w = Written(r, l, t)
    OBVIOUS
  <2>8. /\ String(w) /\ w.type = r.type /\ w.size = r.size
        /\ \A i \in 0..(r.size - 1) :
               w.buf[i] = IF i \in l..(l + Len(t) - 1) THEN t[i - l + 1] ELSE r.buf[i]
    <3>1. l + Len(t) =< r.size /\ t \in Seq(Byte)
      BY <1>2, <2>3, <2>4, <2>6
    <3>2. String(w) /\ w.type = r.type /\ w.size = r.size /\ Overwrites(w, r, l, t)
      BY <1>2, <2>3, <2>7, <3>1, WrittenString
    <3>3. QED
      BY <3>2 DEF Overwrites
  <2>9. \A i \in l..n : w.buf[i] = NUL
    <3> TAKE i \in l..n
    <3>1. i \in 0..(r.size - 1) /\ i \in l..(l + (n - l + 1) - 1) /\ i - l + 1 \in 1..(n - l + 1)
      BY <1>2, <2>2, <2>3, <2>4
    <3>2. QED
      BY <2>6, <2>8, <3>1
  <2>10. \A i \in 0..(n - 1) : w.buf[i] \in Byte
    <3> TAKE i \in 0..(n - 1)
    <3>1. CASE i \in l..n
      BY <2>9, <3>1 DEF NUL, Byte
    <3>2. CASE i \notin l..n
      <4>1. i \in 0..(l - 1) /\ i \in 0..(r.size - 1) /\ i \notin l..(l + (n - l + 1) - 1)
        BY <1>2, <2>2, <2>3, <2>4, <3>2
      <4>2. QED
        BY <2>4, <2>6, <2>8, <4>1
    <3>3. QED
      BY <3>1, <3>2
  <2>11. y = sdssetlen(w, n)
    BY <1>1, <1>4, <2>1, <2>5, <2>7 DEF sdsgrowzero
  <2>12. String(y) /\ y.len = n /\ y.buf = w.buf
    BY <1>2, <2>3, <2>8, <2>10, <2>11, SetLenString
  <2>13. n \in l..n
    BY <1>2, <2>2
  <2>14. Ended(y)
    BY <2>9, <2>12, <2>13 DEF Ended
  <2>15. PICK z : z = [i \in 1..(n - l) |-> NUL]
    OBVIOUS
  <2>16. z \in Seq(Byte) /\ Len(z) = n - l /\ \A i \in 1..(n - l) : z[i] = NUL
    <3>1. NUL \in Byte /\ n - l \in Nat
      BY <1>2, <2>2 DEF NUL, Byte
    <3>2. QED
      BY <2>15, <3>1
  <2>17. y.len = x.len + Len(z)
    BY <1>1, <1>2, <2>12, <2>16
  <2>18. \A i \in 0..(x.len - 1) : y.buf[i] = x.buf[i]
    <3> SUFFICES ASSUME NEW i \in 0..(l - 1) PROVE y.buf[i] = x.buf[i]
      BY <1>1
    <3>1. i \in 0..(r.size - 1) /\ i \notin l..(l + (n - l + 1) - 1)
      BY <1>2, <2>2, <2>3, <2>4
    <3>2. QED
      BY <2>3, <2>6, <2>8, <2>12, <3>1
  <2>19. \A i \in x.len..(x.len + Len(z) - 1) : y.buf[i] = z[i - x.len + 1]
    <3> SUFFICES ASSUME NEW i \in l..(l + (n - l) - 1) PROVE y.buf[i] = z[i - l + 1]
      BY <1>1, <2>16
    <3>1. i \in l..n /\ i - l + 1 \in 1..(n - l)
      BY <1>2, <2>2
    <3>2. QED
      BY <2>9, <2>12, <2>16, <3>1
  <2>20. Content(y) = Content(x) \o z
    <3>1. PICK k, e : k = x.len /\ e = Len(z)
      OBVIOUS
    <3>2. Continues(y, x, z, k, e)
      BY <2>17, <2>18, <2>19, <3>1 DEF Continues
    <3>3. QED
      BY <2>12, <2>16, <3>2, ContentJoined
  <2>21. Content(y) = Content(x) \o [i \in 1..(n - x.len) |-> NUL]
    BY <1>1, <2>15, <2>20
  <2>22. ~(n =< x.len)
    BY <1>1, <1>4
  <2>23. QED
    BY <2>12, <2>14, <2>21, <2>22
<1>5. QED
  BY <1>3, <1>4

LEMMA IncrString ==
    ASSUME NEW x, String(x), NEW n \in Int, x.len + n >= 0, x.len + n < x.size,
           x.len + n < Limit[x.type], \A i \in 0..(x.len + n - 1) : x.buf[i] \in Byte,
           NEW y, y = sdsIncrLen(x, n)
    PROVE  /\ String(y) /\ y.len = x.len + n /\ Ended(y)
           /\ \A i \in 0..(x.len + n - 1) : y.buf[i] = x.buf[i]
<1>1. PICK m : m = x.len + n
  OBVIOUS
<1>2. m \in Nat /\ x.len \in Nat /\ n = m - x.len /\ m < x.size /\ m < Limit[x.type]
  BY <1>1 DEF String
<1>3. m % Limit[x.type] = m
  BY <1>2, ModSmall, LimitFacts DEF String
<1>4. PICK v : v = sdsinclen(x, m - x.len)
  OBVIOUS
<1>5. /\ String(v) /\ v.len = m /\ v.size = x.size /\ v.buf = x.buf
  <2>1. \A i \in 0..(m - 1) : x.buf[i] \in Byte
    BY <1>1, <1>2
  <2>2. QED
    BY <1>2, <1>4, <2>1, SetLenString
<1>6. y = Terminated(v, m)
  BY <1>1, <1>2, <1>3, <1>4 DEF sdsIncrLen
<1>7. /\ String(y) /\ y.len = m
      /\ \A i \in 0..(v.size - 1) : y.buf[i] = IF i = m THEN NUL ELSE v.buf[i]
  BY <1>2, <1>5, <1>6, TerminatedString
<1>8. m \in 0..(v.size - 1)
  BY <1>2, <1>5 DEF String
<1>9. Ended(y)
  BY <1>7, <1>8 DEF Ended
<1>10. \A i \in 0..(m - 1) : y.buf[i] = x.buf[i]
  <2> TAKE i \in 0..(m - 1)
  <2>1. i \in 0..(v.size - 1) /\ i # m
    BY <1>2, <1>5 DEF String
  <2>2. QED
    BY <1>5, <1>7, <2>1
<1>11. \A i \in 0..(x.len + n - 1) : y.buf[i] = x.buf[i]
  <2> TAKE i \in 0..(x.len + n - 1)
  <2>1. i \in 0..(m - 1)
    BY <1>1, <1>2
  <2>2. QED
    BY <1>10, <2>1
<1>12. y.len = x.len + n
  BY <1>1, <1>7
<1>13. QED
  BY <1>7, <1>9, <1>11, <1>12

\* A round of sdscatfmt, without a terminator.
LEMMA PutString ==
    ASSUME NEW x, String(x), NEW t \in Seq(Byte), x.len + Len(t) =< MaxLen, NEW y, y = Put(x, t)
    PROVE  /\ String(y) /\ y.len = x.len + Len(t)
           /\ Content(y) = Content(x) \o t
<1>1. PICK n, l : n = Len(t) /\ l = x.len
  OBVIOUS
<1>2. /\ n \in Nat /\ l \in Nat /\ l + n =< MaxLen /\ l + n =< 4 * MaxLen /\ l + 1 =< 4 * MaxLen
      /\ \A i \in 1..n : t[i] \in Byte
  <2>1. n \in Nat /\ l \in Nat /\ l + n =< MaxLen
    BY <1>1 DEF String
  <2>2. MaxLen \in Nat /\ MaxLen > 0
    BY LimitFacts
  <2>3. l + n =< 4 * MaxLen /\ l + 1 =< 4 * MaxLen
    BY <2>1, <2>2
  <2>4. \A i \in 1..n : t[i] \in Byte
    BY <1>1
  <2>5. QED
    BY <2>1, <2>3, <2>4
<1>3. PICK r : r = IF sdsavail(x) = 0 THEN sdsMakeRoomFor(x, 1) ELSE x
  OBVIOUS
<1>4. String(r) /\ r.len = l /\ \A i \in 0..(l - 1) : r.buf[i] = x.buf[i]
  <2>1. x.len + 1 >= 0 /\ x.len + 1 =< 4 * MaxLen /\ 1 \in Int
    BY <1>1, <1>2
  <2>2. CASE sdsavail(x) = 0
    BY <1>1, <1>3, <2>1, <2>2, RoomString
  <2>3. CASE sdsavail(x) # 0
    BY <1>1, <1>3, <2>3
  <2>4. QED
    BY <2>2, <2>3
<1>5. PICK z : z = IF sdsavail(r) < n THEN sdsMakeRoomFor(r, n) ELSE r
  OBVIOUS
<1>6. /\ String(z) /\ z.len = l /\ l + n < z.size /\ l + n < Limit[z.type]
      /\ \A i \in 0..(l - 1) : z.buf[i] = x.buf[i]
  <2>1. n \in Int /\ r.len + n >= 0 /\ r.len + n =< 4 * MaxLen
    BY <1>2, <1>4
  <2>2. CASE sdsavail(r) < n
    <3>1. z = sdsMakeRoomFor(r, n)
      BY <1>5, <2>2
    <3>2. /\ String(z) /\ z.len = r.len /\ r.len + n < z.size /\ r.len + n < Limit[z.type]
          /\ \A i \in 0..(r.len - 1) : z.buf[i] = r.buf[i]
      BY <1>4, <2>1, <3>1, RoomString
    <3>3. QED
      BY <1>4, <3>2
  <2>3. CASE ~(sdsavail(r) < n)
    <3>1. sdsavail(r) >= n
      BY <1>4, <2>1, <2>3 DEF sdsavail, String
    <3>2. r.len + n < r.size /\ r.len + n < Limit[r.type]
      BY <1>4, <2>1, <3>1, AvailString
    <3>3. QED
      BY <1>4, <1>5, <2>3, <3>2
  <2>4. QED
    BY <2>2, <2>3
<1>7. z.size \in Nat /\ \A i \in 0..(l - 1) : z.buf[i] \in Byte
  BY <1>6 DEF String
<1>8. PICK w : w = Written(z, l, t)
  OBVIOUS
<1>9. /\ String(w) /\ w.type = z.type /\ w.size = z.size /\ w.len = l
      /\ \A i \in 0..(z.size - 1) :
             w.buf[i] = IF i \in l..(l + Len(t) - 1) THEN t[i - l + 1] ELSE z.buf[i]
  <2>1. String(z) /\ l \in Nat /\ l + Len(t) =< z.size
    BY <1>1, <1>2, <1>6, <1>7
  <2>2. /\ String(w) /\ w.type = z.type /\ w.size = z.size /\ w.len = z.len
        /\ Overwrites(w, z, l, t)
    BY <1>8, <2>1, WrittenString
  <2>3. QED
    BY <1>6, <2>2, Zenon DEF Overwrites
<1>10. PICK m : m = l + n
  OBVIOUS
<1>11. \A i \in 0..(m - 1) : w.buf[i] \in Byte
  <2> TAKE i \in 0..(m - 1)
  <2>1. i \in 0..(z.size - 1)
    BY <1>2, <1>6, <1>7, <1>10
  <2>2. CASE i \in l..(l + n - 1)
    <3>1. i - l + 1 \in 1..n
      BY <1>2, <2>2
    <3>2. QED
      BY <1>1, <1>2, <1>9, <2>1, <2>2, <3>1
  <2>3. CASE i \notin l..(l + n - 1)
    <3>1. i \in 0..(l - 1)
      BY <1>2, <1>10, <2>3
    <3>2. QED
      BY <1>1, <1>7, <1>9, <2>1, <2>3, <3>1
  <2>4. QED
    BY <2>2, <2>3
<1>12. y = sdsinclen(w, m - w.len)
  <2>1. y = sdsinclen(w, n)
    BY <1>1, <1>3, <1>5, <1>6, <1>8 DEF Put
  <2>2. m - w.len = n
    BY <1>2, <1>9, <1>10
  <2>3. QED
    BY <2>1, <2>2
<1>13. String(y) /\ y.len = m /\ y.buf = w.buf
  <2>1. m \in Nat /\ m < w.size /\ m < Limit[w.type]
    BY <1>2, <1>6, <1>9, <1>10
  <2>2. QED
    BY <1>9, <1>11, <1>12, <2>1, SetLenString
<1>14. \A i \in 0..(l - 1) : y.buf[i] = x.buf[i]
  <2> TAKE i \in 0..(l - 1)
  <2>1. i \in 0..(z.size - 1) /\ i \notin l..(l + Len(t) - 1)
    BY <1>2, <1>6, <1>7
  <2>2. QED
    BY <1>6, <1>9, <1>13, <2>1
<1>15. \A i \in l..(l + n - 1) : y.buf[i] = t[i - l + 1]
  <2> TAKE i \in l..(l + n - 1)
  <2>1. i \in 0..(z.size - 1)
    BY <1>2, <1>6, <1>7
  <2>2. QED
    BY <1>1, <1>9, <1>13, <2>1
<1>16. Content(y) = Content(x) \o t
  <2>1. Continues(y, x, t, l, n)
    BY <1>1, <1>10, <1>13, <1>14, <1>15 DEF Continues
  <2>2. QED
    BY <1>10, <1>13, <2>1, ContentJoined
<1>17. QED
  BY <1>1, <1>10, <1>13, <1>16

\* The bytes of y are the first n of b, which is counted from 0.
Reads(y, n, b) == Content(y) = [i \in 1..n |-> b[i - 1]]

\* The bytes of the string are replaced by others.
LEMMA BytesString ==
    ASSUME NEW x, String(x), NEW b, DOMAIN b = DOMAIN x.buf,
           \A i \in DOMAIN x.buf : IF i < x.len THEN b[i] \in Byte ELSE b[i] = x.buf[i],
           NEW y, y = [x EXCEPT !.buf = b]
    PROVE  /\ String(y) /\ y.len = x.len /\ (Ended(x) => Ended(y))
           /\ Reads(y, x.len, b)
<1>1. /\ DOMAIN y = DOMAIN x /\ y.buf = b
      /\ y.type = x.type /\ y.len = x.len /\ y.alloc = x.alloc /\ y.size = x.size
  BY DEF String
<1>2. x.len \in Nat /\ x.size \in Nat /\ x.len < x.size /\ DOMAIN x.buf = 0..(x.size - 1)
  BY DEF String
<1>3. \A i \in 0..(x.size - 1) : b[i] \in Byte \union {Junk}
  BY <1>2 DEF String
<1>4. \A i \in 0..(x.len - 1) : b[i] \in Byte
  BY <1>2
<1>5. String(y)
  BY <1>1, <1>3, <1>4 DEF String
<1>6. b[x.len] = x.buf[x.len]
  BY <1>2
<1>7. QED
  BY <1>1, <1>5, <1>6 DEF Ended, Content, Reads

-----------------------------------------------------------------------------
(* Texts *)

\* The first place in 1..n or 0..n that passes a test, as CHOOSE finds it.
LEMMA FirstPlace ==
    ASSUME NEW I, I \subseteq Nat, I # {}
    PROVE  \E x \in I : \A y \in Nat : y < x => y \notin I
<1>1. PICK x \in I : \A y \in I : x =< y
  BY LeastExists
<1>2. \A y \in Nat : y < x => y \notin I
  BY <1>1
<1>3. QED
  BY <1>2

\* The first n items of a sequence.
LEMMA FirstItems ==
    ASSUME NEW S, NEW t \in Seq(S), NEW n \in Nat, n =< Len(t)
    PROVE  SubSeq(t, 1, n) = [i \in 1..n |-> t[i]]
<1>1. PICK u : u = SubSeq(t, 1, n)
  OBVIOUS
<1>2. /\ u \in Seq(S) /\ Len(u) = IF 1 =< n THEN n - 1 + 1 ELSE 0
      /\ \A i \in 1..(n - 1 + 1) : u[i] = t[1 + i - 1]
  <2>1. \A i \in 1..n : t[i] \in S
    OBVIOUS
  <2>2. 1 \in Int /\ n \in Int
    OBVIOUS
  <2>3. QED
    BY <1>1, <2>1, <2>2, SubSeqProperties
<1>3. Len(u) = n
  BY <1>2
<1>4. \A i \in 1..n : u[i] = t[i]
  <2> TAKE i \in 1..n
  <2>1. i \in 1..(n - 1 + 1) /\ 1 + i - 1 = i
    OBVIOUS
  <2>2. QED
    BY <1>2, <2>1
<1>5. u = [i \in 1..n |-> u[i]]
  BY <1>2, <1>3
<1>6. QED
  BY <1>1, <1>4, <1>5

\* Nothing is cut out of a text when the cut ends before it begins.
LEMMA NothingCut ==
    ASSUME NEW t, NEW a \in Int, NEW b \in Int, b < a
    PROVE  SubSeq(t, a, b) = <<>>
  BY SubSeqEmpty

LEMMA CStringSeq ==
    ASSUME NEW t \in Seq(Byte)
    PROVE  CString(t) \in Seq(Byte) /\ Len(CString(t)) =< Len(t)
<1>1. CASE ~(\E i \in 1..Len(t) : t[i] = NUL)
  BY <1>1 DEF CString
<1>2. CASE \E i \in 1..Len(t) : t[i] = NUL
  <2>1. Len(t) \in Nat /\ \A i \in 1..Len(t) : t[i] \in Byte
    OBVIOUS
  <2>2. \E i \in 1..Len(t) : t[i] = NUL /\ \A j \in 1..(i - 1) : t[j] # NUL
    <3> DEFINE I == {i \in 1..Len(t) : t[i] = NUL}
    <3>1. I \subseteq Nat /\ I # {}
      BY <1>2
    <3> HIDE DEF I
    <3>2. PICK x \in I : \A y \in Nat : y < x => y \notin I
      BY <3>1, FirstPlace
    <3>3. QED
      BY <2>1, <3>2 DEF I
  <2>3. PICK k : k = CHOOSE i \in 1..Len(t) : t[i] = NUL /\ \A j \in 1..(i - 1) : t[j] # NUL
    OBVIOUS
  <2>4. k \in 1..Len(t)
    BY <2>2, <2>3
  <2>5. CString(t) = SubSeq(t, 1, k - 1)
    BY <1>2, <2>3 DEF CString
  <2>6. /\ \A i \in 1..(k - 1) : t[i] \in Byte
        /\ 1 \in Int /\ k - 1 \in Int
    BY <2>1, <2>4
  <2>7. /\ SubSeq(t, 1, k - 1) \in Seq(Byte)
        /\ Len(SubSeq(t, 1, k - 1)) = IF 1 =< k - 1 THEN k - 1 - 1 + 1 ELSE 0
    BY <2>6, SubSeqProperties
  <2>8. QED
    BY <2>1, <2>4, <2>5, <2>7
<1>3. QED
  BY <1>1, <1>2

LEMMA EscapedSeq ==
    ASSUME NEW c \in Byte
    PROVE  Escaped(c) \in Seq(Byte)
<1>1. CASE c \in {BSL, DQ}
  BY <1>1 DEF Escaped, BSL, Byte
<1>2. CASE c \notin {BSL, DQ} /\ c \in DOMAIN Letter
  <2>1. Letter[c] \in Byte
    BY <1>2 DEF Letter, Byte
  <2>2. BSL \in Byte
    BY DEF BSL, Byte
  <2>3. QED
    BY <1>2, <2>1, <2>2 DEF Escaped
<1>3. CASE c \notin {BSL, DQ} /\ c \notin DOMAIN Letter /\ isprint(c)
  BY <1>3 DEF Escaped
<1>4. CASE c \notin {BSL, DQ} /\ c \notin DOMAIN Letter /\ ~isprint(c)
  <2>1. c \div 16 \in 0..15 /\ c % 16 \in 0..15
    BY DEF Byte
  <2>2. HexDigit(c \div 16) \in Byte /\ HexDigit(c % 16) \in Byte
    BY <2>1 DEF HexDigit, Byte
  <2>3. BSL \in Byte /\ 120 \in Byte
    BY DEF BSL, Byte
  <2>4. QED
    BY <1>4, <2>2, <2>3 DEF Escaped
<1>5. QED
  BY <1>1, <1>2, <1>3, <1>4

LEMMA ReprSeq ==
    ASSUME NEW t \in Seq(Byte)
    PROVE  sdscatrepr(t) \in Seq(Seq(Byte))
<1>1. <<<<DQ>>>> \in Seq(Seq(Byte))
  BY DEF DQ, Byte
<1>2. [i \in 1..Len(t) |-> Escaped(t[i])] \in Seq(Seq(Byte))
  <2>1. \A i \in 1..Len(t) : Escaped(t[i]) \in Seq(Byte)
    BY EscapedSeq
  <2>2. Len(t) \in Nat
    OBVIOUS
  <2>3. QED
    BY <2>1, <2>2
<1>3. QED
  BY <1>1, <1>2 DEF sdscatrepr

-----------------------------------------------------------------------------
(* What sdssplitlen cuts, sdsjoin puts together *)

\* A state of the loop of sdssplitlen.
SplitState(txt) == [j : 0..Len(txt), start : 0..Len(txt), tokens : Seq(Seq(Byte))]

\* What the loop has passed is its tokens, each with a separator behind it: g puts them
\* together again.
Glues(g, t, sep, n) ==
    /\ g[0] = <<>>
    /\ \A i \in 1..n : g[i] = (g[i - 1] \o t[i]) \o sep

Glued(g, t, sep, n, y, u, p, z) ==
    n = Len(t) /\ Glues(g, t, sep, n) /\ y = g[n] /\ u = Append(t, p) /\ z = y \o p

Passed(txt, sep, r) ==
    /\ r \in SplitState(txt) /\ r.start =< r.j
    /\ \E g : Glues(g, r.tokens, sep, Len(r.tokens)) /\ g[Len(r.tokens)] = SubSeq(txt, 1, r.start)

\* Two pieces of txt and the separator behind them.
LEMMA PiecesJoin ==
    ASSUME NEW S, NEW txt \in Seq(S), NEW m \in 0..Len(txt), NEW a \in 0..m
    PROVE  /\ SubSeq(txt, 1, a) \in Seq(S) /\ SubSeq(txt, a + 1, m) \in Seq(S)
           /\ SubSeq(txt, 1, a) \o SubSeq(txt, a + 1, m) = SubSeq(txt, 1, m)
<1>1. PICK l : l = Len(txt)
  OBVIOUS
<1>2. l \in Nat /\ m \in 0..l /\ a \in 0..m
  BY <1>1
<1>3. 1 \in 1..(l + 1) /\ a \in (1 - 1)..l /\ m \in a..l
  BY <1>2
<1>4. SubSeq(txt, 1, a) \o SubSeq(txt, a + 1, m) = SubSeq(txt, 1, m)
  BY <1>1, <1>3, ConcatAdjacentSubSeq
<1>5. (\A i \in 1..a : i \in 1..l) /\ (\A i \in (a + 1)..m : i \in 1..l)
  BY <1>2
<1>6. (\A i \in 1..a : txt[i] \in S) /\ (\A i \in (a + 1)..m : txt[i] \in S)
  BY <1>1, <1>5
<1>7. SubSeq(txt, 1, a) \in Seq(S) /\ SubSeq(txt, a + 1, m) \in Seq(S)
  BY <1>2, <1>6, SubSeqProperties
<1>8. QED
  BY <1>4, <1>7

LEMMA RoundPasses ==
    ASSUME NEW txt \in Seq(Byte), NEW sep \in Seq(Byte), sep # <<>>, NEW r, Passed(txt, sep, r)
    PROVE  Passed(txt, sep, SplitRound(txt, sep, r))
<1>1. PICK l : l = Len(txt)
  OBVIOUS
<1>2. PICK w : w = Len(sep)
  OBVIOUS
<1>3. l \in Nat /\ w \in Nat /\ w # 0
  BY <1>1, <1>2
<1>4. PICK q : q = SplitRound(txt, sep, r)
  OBVIOUS
<1>5. r \in [j : 0..l, start : 0..l, tokens : Seq(Seq(Byte))] /\ r.start =< r.j
  BY <1>1 DEF Passed, SplitState
<1>6. PICK t \in Seq(Seq(Byte)) : t = r.tokens
  BY <1>5
<1>7. PICK a \in 0..l : a = r.start
  BY <1>5
<1>8. PICK j \in 0..l : j = r.j /\ a =< j
  BY <1>5, <1>7
<1>9. PICK n \in Nat : n = Len(t)
  OBVIOUS
<1>10. PICK g : Glues(g, t, sep, n) /\ g[n] = SubSeq(txt, 1, a)
  BY <1>6, <1>7, <1>9 DEF Passed
<1>11. CASE j >= l - (w - 1)
  <2>1. q = r
    BY <1>1, <1>2, <1>4, <1>8, <1>11 DEF SplitRound
  <2>2. QED
    BY <1>4, <2>1
<1>12. CASE ~(j >= l - (w - 1)) /\ SubSeq(txt, j + 1, j + w) # sep
  <2>1. q = [r EXCEPT !.j = @ + 1]
    BY <1>1, <1>2, <1>4, <1>8, <1>12 DEF SplitRound
  <2>2. j + 1 \in 0..l /\ a =< j + 1
    <3>1. j \in 0..l /\ a \in 0..l /\ a =< j /\ ~(j >= l - (w - 1))
      BY <1>7, <1>8, <1>12
    <3>2. QED
      BY <1>3, <3>1
  <2>3. q \in [j : 0..l, start : 0..l, tokens : Seq(Seq(Byte))] /\ q.j = j + 1 /\ q.start = a /\ q.tokens = t
    BY <1>5, <1>6, <1>7, <1>8, <2>1, <2>2
  <2>4. QED
    BY <1>1, <1>4, <1>9, <1>10, <2>2, <2>3, Zenon DEF Passed, SplitState
<1>13. CASE ~(j >= l - (w - 1)) /\ SubSeq(txt, j + 1, j + w) = sep
  <2>1. q = [j |-> j + w, start |-> j + w, tokens |-> Append(t, SubSeq(txt, a + 1, j))]
    BY <1>1, <1>2, <1>4, <1>6, <1>7, <1>8, <1>13 DEF SplitRound
  <2>2. j + w \in 0..l /\ a \in 0..j /\ j \in 0..(j + w) /\ n + 1 \in Nat
    <3>1. j \in 0..l /\ a \in 0..l /\ a =< j /\ ~(j >= l - (w - 1))
      BY <1>7, <1>8, <1>13
    <3>2. QED
      BY <1>3, <1>9, <3>1
  <2>3. PICK p : p = SubSeq(txt, a + 1, j)
    OBVIOUS
  <2>4. p \in Seq(Byte) /\ SubSeq(txt, 1, a) \o p = SubSeq(txt, 1, j)
    BY <1>1, <2>2, <2>3, PiecesJoin
  <2>5. SubSeq(txt, 1, j) \o sep = SubSeq(txt, 1, j + w)
    BY <1>1, <1>13, <2>2, PiecesJoin
  <2>6. PICK u : u = Append(t, p)
    OBVIOUS
  <2>7. u \in Seq(Seq(Byte)) /\ Len(u) = n + 1 /\ u[n + 1] = p /\ \A i \in 1..n : u[i] = t[i]
    <3>1. PICK S : S = Seq(Byte)
      OBVIOUS
    <3>2. t \in Seq(S) /\ p \in S
      BY <2>4, <3>1
    <3>3. u \in Seq(S) /\ Len(u) = n + 1 /\ u[n + 1] = p /\ \A i \in 1..n : u[i] = t[i]
      BY <1>9, <2>6, <3>2
    <3>4. QED
      BY <3>1, <3>3
  <2>8. q \in [j : 0..l, start : 0..l, tokens : Seq(Seq(Byte))] /\ q.start =< q.j /\ q.start = j + w /\ q.tokens = u
    <3>1. q = [j |-> j + w, start |-> j + w, tokens |-> u]
      BY <2>1, <2>3, <2>6
    <3>2. QED
      BY <2>2, <2>7, <3>1
  <2>9. PICK h : h = [i \in 0..(n + 1) |-> IF i = n + 1 THEN SubSeq(txt, 1, j + w) ELSE g[i]]
    OBVIOUS
  <2>10. \A i \in 0..(n + 1) : h[i] = IF i = n + 1 THEN SubSeq(txt, 1, j + w) ELSE g[i]
    BY <2>9, Zenon
  <2>11. Glues(h, u, sep, n + 1)
    <3>1. 0 \in 0..(n + 1) /\ 0 # n + 1
      BY <1>9
    <3>2. h[0] = <<>>
      BY <1>10, <2>10, <3>1, Zenon DEF Glues
    <3>3. ASSUME NEW i \in 1..(n + 1) PROVE h[i] = (h[i - 1] \o u[i]) \o sep
      <4>1. CASE i = n + 1
        <5>1. i \in 0..(n + 1) /\ i - 1 = n /\ n \in 0..(n + 1) /\ n # n + 1
          BY <1>9, <4>1
        <5>2. h[i - 1] = SubSeq(txt, 1, a) /\ u[i] = p /\ h[i] = SubSeq(txt, 1, j + w)
          <6>1. h[n] = g[n]
            BY <2>10, <5>1, Zenon
          <6>2. QED
            BY <1>10, <2>7, <2>10, <4>1, <5>1, <6>1
        <5>3. QED
          BY <2>4, <2>5, <5>2, Zenon
      <4>2. CASE i # n + 1
        <5>1. i \in 1..n /\ i \in 0..(n + 1) /\ i - 1 \in 0..(n + 1) /\ i - 1 # n + 1
          <6>1. i \in 1..(n + 1) /\ n \in Nat /\ i # n + 1
            BY <1>9, <4>2
          <6>2. QED
            BY <6>1
        <5>2. h[i] = g[i] /\ h[i - 1] = g[i - 1] /\ u[i] = t[i]
          BY <2>7, <2>10, <4>2, <5>1, Zenon
        <5>3. QED
          BY <1>10, <5>1, <5>2, Zenon DEF Glues
      <4>3. QED
        BY <4>1, <4>2
    <3>4. QED
      BY <3>2, <3>3, Zenon DEF Glues
  <2>12. h[n + 1] = SubSeq(txt, 1, j + w)
    <3>1. n + 1 \in 0..(n + 1)
      BY <1>9
    <3>2. QED
      BY <2>10, <3>1, Zenon
  <2>13. Len(q.tokens) = n + 1
    BY <2>7, <2>8
  <2>14. QED
    BY <1>1, <1>4, <2>8, <2>11, <2>12, <2>13, Zenon DEF Passed, SplitState
<1>14. QED
  BY <1>11, <1>12, <1>13

LEMMA RoundState ==
    ASSUME NEW txt \in Seq(Byte), NEW sep \in Seq(Byte), sep # <<>>, NEW r \in SplitState(txt)
    PROVE  SplitRound(txt, sep, r) \in SplitState(txt)
<1>1. PICK l : l = Len(txt)
  OBVIOUS
<1>2. PICK w : w = Len(sep)
  OBVIOUS
<1>3. l \in Nat /\ w \in Nat /\ w # 0
  BY <1>1, <1>2
<1>4. PICK q : q = SplitRound(txt, sep, r)
  OBVIOUS
<1>5. r \in [j : 0..l, start : 0..l, tokens : Seq(Seq(Byte))]
  BY <1>1 DEF SplitState
<1>6. PICK t \in Seq(Seq(Byte)) : t = r.tokens
  BY <1>5
<1>7. PICK a \in 0..l : a = r.start
  BY <1>5
<1>8. PICK j \in 0..l : j = r.j
  BY <1>5
<1>11. CASE j >= l - (w - 1)
  <2>1. q = r
    BY <1>1, <1>2, <1>4, <1>8, <1>11 DEF SplitRound
  <2>2. QED
    BY <1>4, <2>1
<1>12. CASE ~(j >= l - (w - 1)) /\ SubSeq(txt, j + 1, j + w) # sep
  <2>1. q = [r EXCEPT !.j = @ + 1]
    BY <1>1, <1>2, <1>4, <1>8, <1>12 DEF SplitRound
  <2>2. j + 1 \in 0..l
    BY <1>3, <1>8, <1>12
  <2>3. q \in [j : 0..l, start : 0..l, tokens : Seq(Seq(Byte))]
    BY <1>5, <1>8, <2>1, <2>2
  <2>4. QED
    BY <1>1, <1>4, <2>3 DEF SplitState
<1>13. CASE ~(j >= l - (w - 1)) /\ SubSeq(txt, j + 1, j + w) = sep
  <2>2. j + w \in 0..l
    <3>1. j \in 0..l /\ ~(j >= l - (w - 1))
      BY <1>8, <1>13
    <3>2. QED
      BY <1>3, <3>1
  <2>3. PICK p : p = SubSeq(txt, a + 1, j)
    OBVIOUS
  <2>4. p \in Seq(Byte)
    <3>1. \A i \in (a + 1)..j : i \in 1..l
      BY <1>3, <1>7, <1>8
    <3>2. \A i \in (a + 1)..j : txt[i] \in Byte
      BY <1>1, <3>1
    <3>3. a + 1 \in Int /\ j \in Int
      BY <1>7, <1>8
    <3>4. QED
      BY <2>3, <3>2, <3>3, SubSeqProperties
  <2>5. q = [j |-> j + w, start |-> j + w, tokens |-> Append(t, p)]
    BY <1>1, <1>2, <1>4, <1>6, <1>7, <1>8, <1>13, <2>3 DEF SplitRound
  <2>6. Append(t, p) \in Seq(Seq(Byte))
    <3>1. PICK S : S = Seq(Byte)
      OBVIOUS
    <3>2. t \in Seq(S) /\ p \in S
      BY <2>4, <3>1
    <3>3. QED
      BY <3>1, <3>2
  <2>7. q \in [j : 0..l, start : 0..l, tokens : Seq(Seq(Byte))]
    BY <2>2, <2>5, <2>6
  <2>8. QED
    BY <1>1, <1>4, <2>7 DEF SplitState
<1>14. QED
  BY <1>11, <1>12, <1>13

SplitRounds(txt, sep, f) ==
    f = [k \in 0..Len(txt) |-> IF k = 0 THEN [j |-> 0, start |-> 0, tokens |-> <<>>]
                             ELSE SplitRound(txt, sep, f[k - 1])]

LEMMA SplitDefined ==
    ASSUME NEW txt \in Seq(Byte), NEW sep \in Seq(Byte), sep # <<>>, txt # <<>>
    PROVE  \E f : /\ SplitRounds(txt, sep, f)
                  /\ sdssplitlen(txt, sep) = Append(f[Len(txt)].tokens, SubSeq(txt, f[Len(txt)].start + 1, Len(txt)))
<1>1. PICK l \in Nat : l = Len(txt)
  OBVIOUS
<1>2. PICK X : X = SplitState(txt)
  OBVIOUS
<1>3. PICK a : a = [j |-> 0, start |-> 0, tokens |-> <<>>]
  OBVIOUS
<1>4. a \in X
  <2>1. 0 \in 0..l /\ <<>> \in Seq(Seq(Byte))
    OBVIOUS
  <2>2. QED
    BY <1>1, <1>2, <1>3, <2>1 DEF SplitState
<1>5. PICK G : G = [x \in (1..l) \X X |-> SplitRound(txt, sep, x[2])]
  OBVIOUS
<1>6. G \in [(1..l) \X X -> X]
  <2>1. \A r \in X : SplitRound(txt, sep, r) \in X
    BY <1>2, RoundState
  <2>2. QED
    BY <1>5, <2>1
<1>7. PICK f \in [0..l -> X] : \A k \in 0..l : f[k] = IF k = 0 THEN a ELSE G[<<k, f[k - 1]>>]
  <2>1. \E f : RoundsOf(f, l, X, a, G)
    BY <1>1, <1>4, <1>6, RoundsExist
  <2>2. QED
    BY <2>1 DEF RoundsOf
<1>8. \A k \in 0..l : f[k] = IF k = 0 THEN a ELSE SplitRound(txt, sep, f[k - 1])
  <2> SUFFICES ASSUME NEW k \in 0..l, k # 0 PROVE f[k] = SplitRound(txt, sep, f[k - 1])
    BY <1>7
  <2>1. k \in 1..l /\ k - 1 \in 0..l
    OBVIOUS
  <2>2. <<k, f[k - 1]>> \in (1..l) \X X
    BY <1>7, <2>1
  <2>3. QED
    BY <1>5, <1>7, <2>2
<1>9. f = [k \in 0..l |-> f[k]]
  BY <1>7
<1>10. f = [k \in 0..l |-> IF k = 0 THEN a ELSE SplitRound(txt, sep, f[k - 1])]
  BY <1>8, <1>9
<1>11. SplitRounds(txt, sep, f)
  BY <1>1, <1>3, <1>10, Zenon DEF SplitRounds
<1>12. PICK h : h = CHOOSE g : SplitRounds(txt, sep, g)
  OBVIOUS
<1>13. SplitRounds(txt, sep, h)
  BY <1>11, <1>12, Zenon
<1>14. sdssplitlen(txt, sep) = Append(h[Len(txt)].tokens, SubSeq(txt, h[Len(txt)].start + 1, Len(txt)))
  BY <1>12, Zenon DEF sdssplitlen, SplitRounds
<1>15. QED
  BY <1>13, <1>14

\* The loop ends with all but the last token passed.
LEMMA SplitPasses ==
    ASSUME NEW txt \in Seq(Byte), NEW sep \in Seq(Byte), sep # <<>>, txt # <<>>
    PROVE  \E r : /\ Passed(txt, sep, r)
                  /\ sdssplitlen(txt, sep) = Append(r.tokens, SubSeq(txt, r.start + 1, Len(txt)))
<1>1. PICK l \in Nat : l = Len(txt)
  OBVIOUS
<1>2. PICK f : /\ SplitRounds(txt, sep, f)
               /\ sdssplitlen(txt, sep) = Append(f[Len(txt)].tokens, SubSeq(txt, f[Len(txt)].start + 1, Len(txt)))
  BY SplitDefined
<1>3. \A k \in 0..l : f[k] = IF k = 0 THEN [j |-> 0, start |-> 0, tokens |-> <<>>]
                             ELSE SplitRound(txt, sep, f[k - 1])
  BY <1>1, <1>2, Zenon DEF SplitRounds
<1>4. PICK T : T = {k \in 0..l : Passed(txt, sep, f[k])}
  OBVIOUS
<1>5. 0 \in T
  <2>1. 0 \in 0..l /\ f[0] = [j |-> 0, start |-> 0, tokens |-> <<>>]
    BY <1>3
  <2>2. PICK r : r = f[0]
    OBVIOUS
  <2>3. r.j = 0 /\ r.start = 0 /\ r.tokens = <<>>
    BY <2>1, <2>2
  <2>4. r \in SplitState(txt)
    <3>1. <<>> \in Seq(Seq(Byte))
      OBVIOUS
    <3>2. QED
      BY <1>1, <2>1, <2>2, <3>1 DEF SplitState
  <2>5. PICK g : g = [i \in 0..0 |-> <<>>]
    OBVIOUS
  <2>6. g[0] = <<>> /\ SubSeq(txt, 1, 0) = <<>> /\ Len(<<>>) = 0
    <3>1. SubSeq(txt, 1, 0) = <<>>
      <4>1. 1 \in Int /\ 0 \in Int /\ 0 < 1
        OBVIOUS
      <4>2. QED
        BY <4>1, SubSeqEmpty
    <3>2. QED
      BY <2>5, <3>1
  <2>7. Glues(g, <<>>, sep, 0)
    BY <2>6 DEF Glues
  <2>8. r.start =< r.j
    BY <2>3
  <2>9. Passed(txt, sep, r)
    BY <2>3, <2>4, <2>6, <2>7, <2>8, Zenon DEF Passed
  <2>10. QED
    BY <1>4, <2>1, <2>2, <2>9
<1>6. \A k \in 0..(l - 1) : k \in T => k + 1 \in T
  <2> SUFFICES ASSUME NEW k \in 0..(l - 1), k \in T PROVE k + 1 \in T
    OBVIOUS
  <2>1. k + 1 \in 0..l /\ k + 1 # 0 /\ (k + 1) - 1 = k
    BY <1>1
  <2>2. PICK r : r = f[k]
    OBVIOUS
  <2>3. Passed(txt, sep, r)
    BY <1>4, <2>2
  <2>4. Passed(txt, sep, SplitRound(txt, sep, r))
    BY <2>3, RoundPasses
  <2>5. f[k + 1] = SplitRound(txt, sep, r)
    BY <1>3, <2>1, <2>2
  <2>6. QED
    BY <1>4, <2>1, <2>4, <2>5
<1>7. l \in T
  <2>1. \A k \in 0..l : k \in T
    BY <1>5, <1>6, InductionTo
  <2>2. l \in 0..l
    OBVIOUS
  <2>3. QED
    BY <2>1, <2>2
<1>8. QED
  BY <1>1, <1>2, <1>4, <1>7

\* The rounds of sdsjoin.
Joins(f, t, sep) ==
    f = [j \in 0..Len(t) |->
            IF j = 0 THEN <<>>
            ELSE f[j - 1] \o t[j] \o (IF j # Len(t) THEN sep ELSE <<>>)]

LEMMA JoinDefined ==
    ASSUME NEW S, NEW t \in Seq(Seq(S)), NEW sep \in Seq(S)
    PROVE  \E f : Joins(f, t, sep) /\ sdsjoin(t, sep) = f[Len(t)]
<1>1. PICK n \in Nat : n = Len(t)
  OBVIOUS
<1>2. PICK X : X = Seq(S)
  OBVIOUS
<1>3. <<>> \in X
  BY <1>2
<1>4. PICK G : G = [x \in (1..n) \X X |-> x[2] \o t[x[1]] \o (IF x[1] # n THEN sep ELSE <<>>)]
  OBVIOUS
<1>5. G \in [(1..n) \X X -> X]
  <2>1. \A i \in 1..n : \A x \in X : x \o t[i] \o (IF i # n THEN sep ELSE <<>>) \in X
    <3> TAKE i \in 1..n
    <3> TAKE x \in X
    <3>1. PICK p \in Seq(S) : p = t[i]
      BY <1>1
    <3>2. PICK q \in Seq(S) : q = IF i # n THEN sep ELSE <<>>
      BY <1>2, <1>3
    <3>3. x \o p \in Seq(S)
      BY <1>2
    <3>4. x \o p \o q \in Seq(S)
      BY <3>3
    <3>5. QED
      BY <1>2, <3>1, <3>2, <3>4
  <2>2. QED
    BY <1>4, <2>1
<1>6. PICK f \in [0..n -> X] : \A k \in 0..n : f[k] = IF k = 0 THEN <<>> ELSE G[<<k, f[k - 1]>>]
  <2>1. \E f : RoundsOf(f, n, X, <<>>, G)
    BY <1>1, <1>3, <1>5, RoundsExist
  <2>2. QED
    BY <2>1 DEF RoundsOf
<1>7. \A k \in 0..n : f[k] = IF k = 0 THEN <<>> ELSE f[k - 1] \o t[k] \o (IF k # n THEN sep ELSE <<>>)
  <2> SUFFICES ASSUME NEW k \in 0..n, k # 0
               PROVE  f[k] = f[k - 1] \o t[k] \o (IF k # n THEN sep ELSE <<>>)
    BY <1>6
  <2>1. k \in 1..n /\ k - 1 \in 0..n
    OBVIOUS
  <2>2. PICK x : x = <<k, f[k - 1]>>
    OBVIOUS
  <2>3. x \in (1..n) \X X /\ x[1] = k /\ x[2] = f[k - 1]
    BY <1>6, <2>1, <2>2
  <2>4. G[x] = x[2] \o t[x[1]] \o (IF x[1] # n THEN sep ELSE <<>>)
    BY <1>4, <2>3, Zenon
  <2>5. f[k] = G[x]
    BY <1>6, <2>2
  <2>6. QED
    BY <2>3, <2>4, <2>5, Zenon
<1>8. f = [k \in 0..n |-> f[k]]
  BY <1>6
<1>9. f = [k \in 0..n |-> IF k = 0 THEN <<>> ELSE f[k - 1] \o t[k] \o (IF k # n THEN sep ELSE <<>>)]
  BY <1>7, <1>8, Zenon
<1>10. Joins(f, t, sep)
  BY <1>1, <1>9, Zenon DEF Joins
<1>11. PICK h : h = CHOOSE g : Joins(g, t, sep)
  OBVIOUS
<1>12. Joins(h, t, sep)
  BY <1>10, <1>11, Zenon
<1>13. sdsjoin(t, sep) = h[Len(t)]
  BY <1>11, Zenon DEF sdsjoin, Joins
<1>14. QED
  BY <1>12, <1>13

\* Glueing the tokens and then the last one is joining them.
LEMMA JoinGlues ==
    ASSUME NEW t \in Seq(Seq(Byte)), NEW sep \in Seq(Byte), NEW p \in Seq(Byte),
           NEW g, NEW n \in Nat, NEW y \in Seq(Byte), NEW u, NEW z,
           Glued(g, t, sep, n, y, u, p, z)
    PROVE  sdsjoin(u, sep) = z
<1>1. n \in Nat /\ n = Len(t) /\ Glues(g, t, sep, n) /\ y = g[n]
  BY DEF Glued
<1>2. u = Append(t, p) /\ z = y \o p
  BY DEF Glued
<1>3. u \in Seq(Seq(Byte)) /\ Len(u) = n + 1 /\ u[n + 1] = p /\ \A i \in 1..n : u[i] = t[i]
  <2>1. PICK A : A = Seq(Byte)
    OBVIOUS
  <2>2. t \in Seq(A) /\ p \in A
    BY <2>1
  <2>3. u \in Seq(A) /\ Len(u) = n + 1 /\ u[n + 1] = p /\ \A i \in 1..n : u[i] = t[i]
    BY <1>1, <1>2, <2>2
  <2>4. QED
    BY <2>1, <2>3
<1>4. PICK f : Joins(f, u, sep) /\ sdsjoin(u, sep) = f[n + 1]
  BY <1>3, JoinDefined
<1>5. \A j \in 0..(n + 1) : f[j] = IF j = 0 THEN <<>>
                                   ELSE f[j - 1] \o u[j] \o (IF j # n + 1 THEN sep ELSE <<>>)
  BY <1>3, <1>4, Zenon DEF Joins
<1>6. PICK T : T = {i \in 0..n : f[i] = g[i]}
  OBVIOUS
<1>7. 0 \in T
  <2>1. 0 \in 0..n /\ 0 \in 0..(n + 1)
    OBVIOUS
  <2>2. f[0] = <<>> /\ g[0] = <<>>
    BY <1>1, <1>5, <2>1, Zenon DEF Glues
  <2>3. QED
    BY <1>6, <2>1, <2>2
<1>8. \A i \in 0..(n - 1) : i \in T => i + 1 \in T
  <2> SUFFICES ASSUME NEW i \in 0..(n - 1), i \in T PROVE i + 1 \in T
    OBVIOUS
  <2>1. i + 1 \in 0..(n + 1) /\ i + 1 # 0 /\ (i + 1) - 1 = i /\ i + 1 # n + 1 /\ i + 1 \in 1..n /\ i + 1 \in 0..n
    OBVIOUS
  <2>2. f[i + 1] = f[i] \o u[i + 1] \o sep
    BY <1>5, <2>1
  <2>3. g[i + 1] = (g[i] \o t[i + 1]) \o sep
    BY <1>1, <2>1 DEF Glues
  <2>4. f[i] = g[i] /\ u[i + 1] = t[i + 1]
    BY <1>3, <1>6, <2>1
  <2>5. f[i + 1] = g[i + 1]
    BY <2>2, <2>3, <2>4, Zenon
  <2>6. QED
    BY <1>6, <2>1, <2>5
<1>9. f[n] = g[n]
  <2>1. \A i \in 0..n : i \in T
    BY <1>7, <1>8, InductionTo
  <2>2. n \in 0..n
    OBVIOUS
  <2>3. QED
    BY <1>6, <2>1, <2>2
<1>10. f[n + 1] = f[n] \o p \o <<>>
  <2>1. n + 1 \in 0..(n + 1) /\ n + 1 # 0 /\ (n + 1) - 1 = n
    OBVIOUS
  <2>2. QED
    BY <1>3, <1>5, <2>1
<1>11. PICK x \in Seq(Byte) : x = g[n]
  BY <1>1
<1>12. (x \o p) \in Seq(Byte) /\ (x \o p) \o <<>> = x \o p
  BY ConcatProperties, ConcatEmptySeq
<1>13. QED
  BY <1>1, <1>2, <1>4, <1>9, <1>10, <1>11, <1>12

LEMMA JoinNothing ==
    ASSUME NEW sep \in Seq(Byte)
    PROVE  sdsjoin(<<>>, sep) = <<>>
<1>1. <<>> \in Seq(Seq(Byte)) /\ Len(<<>>) = 0
  OBVIOUS
<1>2. PICK f : Joins(f, <<>>, sep) /\ sdsjoin(<<>>, sep) = f[0]
  BY <1>1, JoinDefined
<1>3. \A j \in 0..0 : f[j] = IF j = 0 THEN <<>>
                             ELSE f[j - 1] \o <<>>[j] \o (IF j # 0 THEN sep ELSE <<>>)
  BY <1>1, <1>2, Zenon DEF Joins
<1>4. 0 \in 0..0
  OBVIOUS
<1>5. QED
  BY <1>2, <1>3, <1>4, Zenon

LEMMA SplitText ==
    ASSUME NEW txt \in Seq(Byte), NEW sep \in Seq(Byte), sep # <<>>
    PROVE  sdsjoin(sdssplitlen(txt, sep), sep) = txt
<1>1. CASE txt = <<>>
  BY <1>1, JoinNothing DEF sdssplitlen
<1>2. CASE txt # <<>>
  <2>1. PICK r : /\ Passed(txt, sep, r)
                 /\ sdssplitlen(txt, sep) = Append(r.tokens, SubSeq(txt, r.start + 1, Len(txt)))
    BY <1>2, SplitPasses
  <2>2. PICK l \in Nat : l = Len(txt)
    OBVIOUS
  <2>3. r \in SplitState(txt)
    BY <2>1 DEF Passed
  <2>4. PICK t \in Seq(Seq(Byte)) : t = r.tokens
    BY <2>3 DEF SplitState
  <2>5. PICK a \in 0..l : a = r.start
    BY <2>2, <2>3 DEF SplitState
  <2>6. PICK p : p = SubSeq(txt, a + 1, l)
    OBVIOUS
  <2>7. l \in 0..l
    OBVIOUS
  <2>8. SubSeq(txt, 1, a) \in Seq(Byte) /\ p \in Seq(Byte) /\ SubSeq(txt, 1, a) \o p = SubSeq(txt, 1, l)
    BY <2>2, <2>6, <2>7, PiecesJoin
  <2>9. SubSeq(txt, 1, l) = txt
    BY <2>2, SubSeqFull
  <2>10. PICK n \in Nat : n = Len(t)
    OBVIOUS
  <2>11. PICK g : Glues(g, t, sep, n) /\ g[n] = SubSeq(txt, 1, a)
    BY <2>1, <2>4, <2>5, <2>10, Zenon DEF Passed
  <2>12. PICK y \in Seq(Byte) : y = SubSeq(txt, 1, a)
    BY <2>8
  <2>13. y = g[n]
    BY <2>11, <2>12, Zenon
  <2>14. p \in Seq(Byte)
    BY <2>8
  <2>15. PICK u : u = Append(t, p)
    OBVIOUS
  <2>16. PICK z : z = y \o p
    OBVIOUS
  <2>17. Glued(g, t, sep, n, y, u, p, z)
    BY <2>10, <2>11, <2>13, <2>15, <2>16, Zenon DEF Glued
  <2>18. sdsjoin(u, sep) = z
    <3>1. t \in Seq(Seq(Byte)) /\ sep \in Seq(Byte) /\ p \in Seq(Byte) /\ n \in Nat /\ y \in Seq(Byte)
      BY <2>4, <2>10, <2>12, <2>14
    <3>2. QED
      BY <2>17, <3>1, JoinGlues
  <2>19. QED
    BY <2>1, <2>2, <2>4, <2>5, <2>6, <2>8, <2>9, <2>12, <2>15, <2>16, <2>18
<1>3. QED
  BY <1>1, <1>2

-----------------------------------------------------------------------------
(* What sdscatrepr quotes, sdssplitargs reads *)

\* A state of the loops of sdssplitargs.
ArgsAt(p, mode, v, u) == [p |-> p, mode |-> mode, vector |-> v, cur |-> u]

LEMMA PlainRound ==
    ASSUME NEW line, NEW p \in Nat, NEW v, NEW u, NEW c \in Byte, c = ByteAt(line, p),
           c \notin {BSL, DQ, NUL}
    PROVE  ArgsRound(line, ArgsAt(p, "inq", v, u)) = ArgsAt(p + 1, "inq", v, Append(u, c))
  BY DEF ArgsRound, ArgsAt

LEMMA LetterRound ==
    ASSUME NEW line, NEW p \in Nat, NEW v, NEW u, ByteAt(line, p) = BSL,
           NEW d, d = ByteAt(line, p + 1), d \notin {NUL, 120}
    PROVE  ArgsRound(line, ArgsAt(p, "inq", v, u)) = ArgsAt(p + 2, "inq", v, Append(u, Unescaped(d)))
  BY DEF ArgsRound, ArgsAt

LEMMA HexRound ==
    ASSUME NEW line, NEW p \in Nat, NEW v, NEW u, ByteAt(line, p) = BSL, ByteAt(line, p + 1) = 120,
           NEW a, a = ByteAt(line, p + 2), NEW b, b = ByteAt(line, p + 3),
           is_hex_digit(a), is_hex_digit(b)
    PROVE  ArgsRound(line, ArgsAt(p, "inq", v, u)) =
               ArgsAt(p + 4, "inq", v, Append(u, hex_digit_to_int(a) * 16 + hex_digit_to_int(b)))
  BY DEF ArgsRound, ArgsAt

Added(x, v, u) == x = Append(v, u)

LEMMA CloseRound ==
    ASSUME NEW line, NEW p \in Nat, NEW v, NEW u, ByteAt(line, p) = DQ, ByteAt(line, p + 1) = NUL,
           NEW x, Added(x, v, u)
    PROVE  ArgsRound(line, ArgsAt(p, "inq", v, u)) = ArgsAt(p + 1, "skip", x, <<>>)
  BY DEF Added, ArgsRound, ArgsAt, DQ, BSL, NUL

LEMMA OpenRounds ==
    ASSUME NEW line, NEW p \in Nat, NEW v, NEW u, ByteAt(line, p) = DQ
    PROVE  /\ ArgsRound(line, ArgsAt(p, "skip", v, u)) = ArgsAt(p, "bare", v, u)
           /\ ArgsRound(line, ArgsAt(p, "bare", v, u)) = ArgsAt(p + 1, "inq", v, u)
<1>1. DQ # NUL /\ ~isspace(DQ) /\ DQ \notin {32, 10, 13, 9, NUL} /\ p + 0 = p
  BY DEF DQ, NUL, isspace
<1>2. ArgsRound(line, ArgsAt(p, "skip", v, u)) = ArgsAt(p, "bare", v, u)
  BY <1>1 DEF ArgsRound, ArgsAt
<1>3. ArgsRound(line, ArgsAt(p, "bare", v, u)) = ArgsAt(p + 1, "inq", v, u)
  BY <1>1 DEF ArgsRound, ArgsAt
<1>4. QED
  BY <1>2, <1>3

LEMMA LastRounds ==
    ASSUME NEW line, NEW p \in Nat, NEW v, NEW u, ByteAt(line, p) = NUL
    PROVE  /\ ArgsRound(line, ArgsAt(p, "skip", v, u)) = ArgsAt(p, "ok", v, u)
           /\ ArgsRound(line, ArgsAt(p, "ok", v, u)) = ArgsAt(p, "ok", v, u)
<1>1. p + 0 = p
  OBVIOUS
<1>2. ArgsRound(line, ArgsAt(p, "skip", v, u)) = ArgsAt(p, "ok", v, u)
  BY <1>1 DEF ArgsRound, ArgsAt
<1>3. ArgsRound(line, ArgsAt(p, "ok", v, u)) = ArgsAt(p, "ok", v, u)
  BY DEF ArgsRound, ArgsAt
<1>4. QED
  BY <1>2, <1>3

LEMMA DigitRead ==
    ASSUME NEW x \in 0..15
    PROVE  is_hex_digit(HexDigit(x)) /\ hex_digit_to_int(HexDigit(x)) = x
<1>1. PICK a : a = HexDigit(x)
  OBVIOUS
<1>2. CASE x < 10
  <2>1. a = 48 + x /\ a \in 48..57 /\ a - 48 = x
    BY <1>1, <1>2 DEF HexDigit
  <2>2. QED
    BY <1>1, <2>1 DEF is_hex_digit, hex_digit_to_int
<1>3. CASE ~(x < 10)
  <2>1. a = 87 + x /\ a \in 97..102 /\ a \notin 48..57 /\ a \notin 65..90 /\ a - 87 = x
    BY <1>1, <1>3 DEF HexDigit
  <2>2. tolower(a) = a
    BY <2>1 DEF tolower
  <2>3. QED
    BY <1>1, <2>1, <2>2 DEF is_hex_digit, hex_digit_to_int
<1>4. QED
  BY <1>2, <1>3

\* e is written in the line from the place p on.
WrittenAt(line, p, e, w) ==
    w = Len(e) /\ p + w =< Len(line) + 1 /\ \A k \in 1..w : line[p + k - 1] = e[k]

\* A byte is read back from what it was written as.
LEMMA ByteRound ==
    ASSUME NEW line \in Seq(Byte), NEW p \in Nat, p # 0, NEW c \in Byte, NEW e, e = Escaped(c),
           NEW w \in Nat, WrittenAt(line, p, e, w), NEW v, NEW u
    PROVE  w # 0 /\ ArgsRound(line, ArgsAt(p, "inq", v, u)) = ArgsAt(p + w, "inq", v, Append(u, c))
<1>1. PICK l \in Nat : l = Len(line)
  OBVIOUS
<1>2. \A k \in 1..w : ByteAt(line, p + k - 1) = e[k]
  <2> TAKE k \in 1..w
  <2>1. p + w =< l + 1 /\ line[p + k - 1] = e[k]
    BY <1>1 DEF WrittenAt
  <2>2. p + k - 1 \in 1..l
    BY <2>1
  <2>3. QED
    BY <1>1, <2>1, <2>2 DEF ByteAt
<1>3. w = Len(e)
  BY DEF WrittenAt
<1>4. CASE c \in {BSL, DQ}
  <2>1. e = <<BSL, c>>
    BY <1>4 DEF Escaped
  <2>2. w = 2 /\ e[1] = BSL /\ e[2] = c
    BY <1>3, <2>1
  <2>3. 1 \in 1..w /\ 2 \in 1..w /\ p + 1 - 1 = p /\ p + 2 - 1 = p + 1
    BY <2>2
  <2>4. ByteAt(line, p) = BSL /\ ByteAt(line, p + 1) = c
    BY <1>2, <2>2, <2>3
  <2>5. c \notin {NUL, 120} /\ Unescaped(c) = c
    <3>1. c = 92 \/ c = 34
      BY <1>4 DEF BSL, DQ
    <3>2. \A d \in DOMAIN Letter : Letter[d] # c
      BY <3>1 DEF Letter
    <3>3. QED
      BY <3>1, <3>2 DEF Unescaped, NUL
  <2>6. QED
    BY <2>2, <2>4, <2>5, LetterRound
<1>5. CASE c \notin {BSL, DQ} /\ c \in DOMAIN Letter
  <2>1. e = <<BSL, Letter[c]>>
    BY <1>5 DEF Escaped
  <2>2. w = 2 /\ e[1] = BSL /\ e[2] = Letter[c]
    BY <1>3, <2>1
  <2>3. 1 \in 1..w /\ 2 \in 1..w /\ p + 1 - 1 = p /\ p + 2 - 1 = p + 1
    BY <2>2
  <2>4. ByteAt(line, p) = BSL /\ ByteAt(line, p + 1) = Letter[c]
    BY <1>2, <2>2, <2>3
  <2>5. Letter[c] \notin {NUL, 120} /\ \A d \in DOMAIN Letter : Letter[d] = Letter[c] <=> d = c
    BY <1>5 DEF Letter, NUL
  <2>6. Unescaped(Letter[c]) = c
    BY <1>5, <2>5 DEF Unescaped
  <2>7. QED
    BY <2>2, <2>4, <2>5, <2>6, LetterRound
<1>6. CASE c \notin {BSL, DQ} /\ c \notin DOMAIN Letter /\ isprint(c)
  <2>1. e = <<c>>
    BY <1>6 DEF Escaped
  <2>2. w = 1 /\ e[1] = c
    BY <1>3, <2>1
  <2>3. 1 \in 1..w /\ p + 1 - 1 = p
    BY <2>2
  <2>4. ByteAt(line, p) = c
    BY <1>2, <2>2, <2>3
  <2>5. c # NUL
    BY <1>6 DEF isprint, NUL
  <2>6. QED
    BY <1>6, <2>2, <2>4, <2>5, PlainRound
<1>7. CASE c \notin {BSL, DQ} /\ c \notin DOMAIN Letter /\ ~isprint(c)
  <2>1. PICK a, b : a = HexDigit(c \div 16) /\ b = HexDigit(c % 16)
    OBVIOUS
  <2>2. e = <<BSL, 120, a, b>>
    BY <1>7, <2>1 DEF Escaped
  <2>3. w = 4 /\ e[1] = BSL /\ e[2] = 120 /\ e[3] = a /\ e[4] = b
    BY <1>3, <2>2
  <2>4. /\ 1 \in 1..w /\ 2 \in 1..w /\ 3 \in 1..w /\ 4 \in 1..w
        /\ p + 1 - 1 = p /\ p + 2 - 1 = p + 1 /\ p + 3 - 1 = p + 2 /\ p + 4 - 1 = p + 3
    BY <2>3
  <2>5. ByteAt(line, p) = BSL /\ ByteAt(line, p + 1) = 120 /\ ByteAt(line, p + 2) = a /\ ByteAt(line, p + 3) = b
    BY <1>2, <2>3, <2>4
  <2>6. PICK x, y : x = c \div 16 /\ y = c % 16
    OBVIOUS
  <2>7. x \in 0..15 /\ y \in 0..15 /\ c = x * 16 + y
    <3>1. c \in 0..255
      BY DEF Byte
    <3>2. QED
      BY <2>6, <3>1
  <2>8. is_hex_digit(a) /\ hex_digit_to_int(a) = x
    BY <2>1, <2>6, <2>7, DigitRead
  <2>9. is_hex_digit(b) /\ hex_digit_to_int(b) = y
    BY <2>1, <2>6, <2>7, DigitRead
  <2>10. QED
    BY <2>3, <2>5, <2>7, <2>8, <2>9, HexRound
<1>8. QED
  BY <1>4, <1>5, <1>6, <1>7

ArgsRounds(line, f) ==
    f = [k \in 0..(2 * Len(line) + 3) |->
            IF k = 0 THEN [p |-> 1, mode |-> "skip", vector |-> <<>>, cur |-> <<>>]
            ELSE ArgsRound(line, f[k - 1])]

LEMMA ArgsDefined ==
    ASSUME NEW line \in Seq(Byte), NEW n \in Nat, n = 2 * Len(line) + 3
    PROVE  \E f : /\ \A k \in 0..n : f[k] = IF k = 0 THEN ArgsAt(1, "skip", <<>>, <<>>)
                                             ELSE ArgsRound(line, f[k - 1])
                  /\ f[n].mode = "ok" => sdssplitargs(line) = [ok |-> TRUE, vector |-> f[n].vector]
<1>1. PICK a : a = [p |-> 1, mode |-> "skip", vector |-> <<>>, cur |-> <<>>]
  OBVIOUS
<1>2. PICK T : T = {m \in Nat : \E f : f = [k \in 0..m |-> IF k = 0 THEN a ELSE ArgsRound(line, f[k - 1])]}
  OBVIOUS
<1>3. 0 \in T
  <2>1. PICK f : f = [k \in 0..0 |-> a]
    OBVIOUS
  <2>2. f = [k \in 0..0 |-> IF k = 0 THEN a ELSE ArgsRound(line, f[k - 1])]
    BY <2>1
  <2>3. QED
    BY <1>2, <2>2
<1>4. \A m \in Nat : m \in T => m + 1 \in T
  <2> SUFFICES ASSUME NEW m \in Nat, m \in T PROVE m + 1 \in T
    OBVIOUS
  <2>1. PICK f : f = [k \in 0..m |-> IF k = 0 THEN a ELSE ArgsRound(line, f[k - 1])]
    BY <1>2
  <2>2. PICK g : g = [k \in 0..(m + 1) |-> IF k = 0 THEN a ELSE ArgsRound(line, f[k - 1])]
    OBVIOUS
  <2>3. \A k \in 0..m : g[k] = f[k]
    <3>1. \A k \in 0..m : f[k] = IF k = 0 THEN a ELSE ArgsRound(line, f[k - 1])
      BY <2>1, Zenon
    <3>2. \A k \in 0..(m + 1) : g[k] = IF k = 0 THEN a ELSE ArgsRound(line, f[k - 1])
      BY <2>2, Zenon
    <3>3. \A k \in 0..m : k \in 0..(m + 1)
      OBVIOUS
    <3>4. QED
      BY <3>1, <3>2, <3>3, Zenon
  <2>4. \A k \in 0..(m + 1) : k # 0 => g[k - 1] = f[k - 1]
    BY <2>3
  <2>5. g = [k \in 0..(m + 1) |-> IF k = 0 THEN a ELSE ArgsRound(line, g[k - 1])]
    BY <2>2, <2>4
  <2>6. m + 1 \in Nat
    OBVIOUS
  <2>7. QED
    BY <1>2, <2>5, <2>6, Zenon
<1>5. n \in T
  BY <1>3, <1>4, Induction
<1>6. PICK f : f = CHOOSE g : ArgsRounds(line, g)
  OBVIOUS
<1>7. ArgsRounds(line, f)
  BY <1>1, <1>2, <1>5, <1>6, Zenon DEF ArgsRounds
<1>8. \A k \in 0..n : f[k] = IF k = 0 THEN ArgsAt(1, "skip", <<>>, <<>>) ELSE ArgsRound(line, f[k - 1])
  BY <1>7, Zenon DEF ArgsRounds, ArgsAt
<1>9. sdssplitargs(line) = IF f[n].mode = "ok" THEN [ok |-> TRUE, vector |-> f[n].vector]
                           ELSE [ok |-> FALSE, vector |-> <<>>]
  BY <1>6, Zenon DEF sdssplitargs, ArgsRounds
<1>10. QED
  BY <1>8, <1>9

LEMMA EscapedSome ==
    ASSUME NEW c \in Byte PROVE Escaped(c) # <<>>
<1>1. PICK a, b : a = HexDigit(c \div 16) /\ b = HexDigit(c % 16)
  OBVIOUS
<1>2. \/ Escaped(c) = <<BSL, c>> \/ Escaped(c) = <<BSL, Letter[c]>>
      \/ Escaped(c) = <<c>> \/ Escaped(c) = <<BSL, 120, a, b>>
  BY <1>1, Zenon DEF Escaped
<1>3. QED
  BY <1>2

LEMMA ReprPieces ==
    ASSUME NEW t \in Seq(Byte), NEW m \in Nat, m = Len(t), NEW ss, ss = sdscatrepr(t)
    PROVE  /\ Len(ss) = m + 2 /\ ss[1] = <<DQ>> /\ ss[m + 2] = <<DQ>>
           /\ \A i \in 1..m : ss[i + 1] = Escaped(t[i])
<1>1. PICK S : S = Seq(Byte)
  OBVIOUS
<1>2. PICK q \in S : q = <<DQ>>
  <2>1. <<DQ>> \in Seq(Byte)
    BY DEF DQ, Byte
  <2>2. QED
    BY <1>1, <2>1
<1>3. PICK e : e = [i \in 1..m |-> Escaped(t[i])]
  OBVIOUS
<1>4. e \in Seq(S) /\ Len(e) = m /\ \A i \in 1..m : e[i] = Escaped(t[i])
  <2>1. \A i \in 1..m : Escaped(t[i]) \in S
    BY <1>1, EscapedSeq
  <2>2. QED
    BY <1>3, <2>1
<1>5. PICK o : o = <<q>>
  OBVIOUS
<1>6. o \in Seq(S) /\ Len(o) = 1 /\ o[1] = q
  BY <1>2, <1>5
<1>7. ss = (o \o e) \o o
  BY <1>2, <1>3, <1>5 DEF sdscatrepr
<1>8. PICK x : x = o \o e
  OBVIOUS
<1>9. x \in Seq(S) /\ Joined(x, o, e, 1, m)
  BY <1>4, <1>6, <1>8, JoinedItems
<1>10. Len(x) = m + 1 /\ \A i \in 1..(m + 1) : x[i] = IF i =< 1 THEN o[i] ELSE e[i - 1]
  BY <1>9 DEF Joined
<1>11. ss \in Seq(S) /\ Joined(ss, x, o, m + 1, 1)
  BY <1>6, <1>7, <1>8, <1>9, <1>10, JoinedItems
<1>12. Len(ss) = m + 2 /\ \A i \in 1..(m + 2) : ss[i] = IF i =< m + 1 THEN x[i] ELSE o[i - (m + 1)]
  <2>1. (m + 1) + 1 = m + 2
    OBVIOUS
  <2>2. QED
    BY <1>11, <2>1 DEF Joined
<1>13. ss[1] = q
  <2>1. 1 \in 1..(m + 2) /\ 1 =< m + 1 /\ 1 \in 1..(m + 1)
    OBVIOUS
  <2>2. QED
    BY <1>6, <1>10, <1>12, <2>1
<1>14. ss[m + 2] = q
  <2>1. m + 2 \in 1..(m + 2) /\ ~(m + 2 =< m + 1) /\ (m + 2) - (m + 1) = 1
    OBVIOUS
  <2>2. QED
    BY <1>6, <1>12, <2>1
<1>15. \A i \in 1..m : ss[i + 1] = Escaped(t[i])
  <2> TAKE i \in 1..m
  <2>1. i + 1 \in 1..(m + 2) /\ i + 1 =< m + 1 /\ i + 1 \in 1..(m + 1) /\ ~(i + 1 =< 1) /\ (i + 1) - 1 = i
    OBVIOUS
  <2>2. QED
    BY <1>4, <1>10, <1>12, <2>1
<1>16. QED
  BY <1>2, <1>12, <1>13, <1>14, <1>15

LEMMA FirstMore ==
    ASSUME NEW t \in Seq(Byte), NEW i \in 0..(Len(t) - 1)
    PROVE  Append(SubSeq(t, 1, i), t[i + 1]) = SubSeq(t, 1, i + 1)
<1>1. PICK m \in Nat : m = Len(t)
  OBVIOUS
<1>2. 1 \in 1..m /\ i + 1 \in 1..m /\ (i + 1) - 1 = i
  BY <1>1
<1>3. SubSeq(t, 1, i + 1) = SubSeq(t, 1, i) \o <<t[i + 1]>>
  BY <1>1, <1>2, SubSeqRecursiveSecond
<1>4. SubSeq(t, 1, i) \in Seq(Byte) /\ t[i + 1] \in Byte
  <2>1. \A j \in 1..i : j \in 1..m
    BY <1>1
  <2>2. \A j \in 1..i : t[j] \in Byte
    BY <1>1, <2>1
  <2>3. 1 \in Int /\ i \in Int
    OBVIOUS
  <2>4. SubSeq(t, 1, i) \in Seq(Byte)
    BY <2>2, <2>3, SubSeqProperties
  <2>5. QED
    BY <1>1, <1>2, <2>4
<1>5. QED
  BY <1>3, <1>4, AppendIsConcat

LEMMA ReprRead ==
    ASSUME NEW t \in Seq(Byte)
    PROVE  sdssplitargs(FlattenSeq(sdscatrepr(t))) = [ok |-> TRUE, vector |-> <<t>>]
<1>1. PICK m \in Nat : m = Len(t)
  OBVIOUS
<1>2. PICK ss : ss = sdscatrepr(t)
  OBVIOUS
<1>3. /\ ss \in Seq(Seq(Byte)) /\ Len(ss) = m + 2 /\ ss[1] = <<DQ>> /\ ss[m + 2] = <<DQ>>
      /\ \A i \in 1..m : ss[i + 1] = Escaped(t[i])
  BY <1>1, <1>2, ReprPieces, ReprSeq
<1>4. PICK line : line = FlattenSeq(ss)
  OBVIOUS
<1>5. line \in Seq(Byte) /\ \E h : Places(h, ss, line, m + 2)
  <2>1. ASSUME NEW i \in 1..(m + 2) PROVE ss[i] # <<>>
    <3>1. CASE i = 1 \/ i = m + 2
      <4>1. ss[i] = <<DQ>>
        BY <1>3, <3>1, Zenon
      <4>2. <<DQ>> # <<>>
        OBVIOUS
      <4>3. QED
        BY <4>1, <4>2
    <3>2. CASE i # 1 /\ i # m + 2
      <4>1. PICK j \in 1..m : j + 1 = i
        <5>1. i - 1 \in 1..m /\ (i - 1) + 1 = i
          BY <3>2
        <5>2. QED
          BY <5>1
      <4>2. ss[j + 1] = Escaped(t[j])
        BY <1>3
      <4>3. t[j] \in Byte
        BY <1>1
      <4>4. QED
        BY <4>1, <4>2, <4>3, EscapedSome
    <3>3. QED
      BY <3>1, <3>2
  <2>2. m + 2 \in Nat /\ m + 2 # 0
    OBVIOUS
  <2>3. QED
    BY <1>3, <1>4, <2>1, <2>2, FlattenPlaces
<1>6. PICK l \in Nat : l = Len(line)
  BY <1>5
<1>7. PICK pos : Places(pos, ss, line, m + 2)
  BY <1>5
<1>8. /\ pos[1] = 1 /\ pos[m + 3] = l + 1 /\ l >= m + 2
      /\ \A i \in 1..(m + 2) :
             /\ pos[i] \in Nat /\ pos[i] >= i /\ pos[i + 1] = pos[i] + Len(ss[i]) /\ pos[i + 1] =< l + 1
             /\ \A k \in 1..Len(ss[i]) : line[pos[i] + k - 1] = ss[i][k]
  <2>1. (m + 2) + 1 = m + 3
    OBVIOUS
  <2>2. QED
    BY <1>6, <1>7, <2>1 DEF Places
<1>9. PICK n \in Nat : n = 2 * Len(line) + 3
  BY <1>5
<1>10. n >= m + 4
  BY <1>6, <1>8, <1>9
<1>11. PICK f : /\ \A k \in 0..n : f[k] = IF k = 0 THEN ArgsAt(1, "skip", <<>>, <<>>)
                                          ELSE ArgsRound(line, f[k - 1])
                /\ f[n].mode = "ok" => sdssplitargs(line) = [ok |-> TRUE, vector |-> f[n].vector]
  BY <1>5, <1>9, ArgsDefined
<1>12. PICK T : T = {i \in 0..m : f[i + 2] = ArgsAt(pos[i + 2], "inq", <<>>, SubSeq(t, 1, i))}
  OBVIOUS
<1>13. 0 \in T
  <2>1. /\ 0 \in 0..n /\ 1 \in 0..n /\ 2 \in 0..n /\ 1 # 0 /\ 2 # 0 /\ 1 - 1 = 0 /\ 2 - 1 = 1 /\ 0 + 2 = 2
        /\ 1 \in 1..(m + 2) /\ 1 + 1 = 2 /\ 0 \in 0..m
    BY <1>10
  <2>2. f[0] = ArgsAt(1, "skip", <<>>, <<>>) /\ f[1] = ArgsRound(line, f[0]) /\ f[2] = ArgsRound(line, f[1])
    BY <1>11, <2>1
  <2>3. pos[2] = 2 /\ line[1] = DQ
    <3>1. ss[1] = <<DQ>> /\ Len(<<DQ>>) = 1 /\ <<DQ>>[1] = DQ
      BY <1>3
    <3>2. pos[2] = pos[1] + Len(ss[1]) /\ \A k \in 1..Len(ss[1]) : line[pos[1] + k - 1] = ss[1][k]
      BY <1>8, <2>1
    <3>3. QED
      BY <1>8, <3>1, <3>2
  <2>4. ByteAt(line, 1) = DQ
    <3>1. 1 \in 1..l
      BY <1>8
    <3>2. QED
      BY <1>6, <2>3, <3>1 DEF ByteAt
  <2>5. f[2] = ArgsAt(2, "inq", <<>>, <<>>)
    <3>1. 1 \in Nat /\ 1 + 1 = 2
      OBVIOUS
    <3>2. f[1] = ArgsAt(1, "bare", <<>>, <<>>)
      BY <2>2, <2>4, <3>1, OpenRounds
    <3>3. QED
      BY <2>2, <2>4, <3>1, <3>2, OpenRounds
  <2>6. SubSeq(t, 1, 0) = <<>>
    <3>1. 1 \in Int /\ 0 \in Int /\ 0 < 1
      OBVIOUS
    <3>2. QED
      BY <3>1, SubSeqEmpty
  <2>7. QED
    BY <1>12, <2>1, <2>3, <2>5, <2>6
<1>14. \A i \in 0..(m - 1) : i \in T => i + 1 \in T
  <2> SUFFICES ASSUME NEW i \in 0..(m - 1), i \in T PROVE i + 1 \in T
    OBVIOUS
  <2>1. /\ i + 1 \in 1..m /\ i + 2 \in 1..(m + 2) /\ (i + 2) + 1 = (i + 1) + 2 /\ (i + 1) + 1 = i + 2
        /\ i + 1 \in 0..m
    OBVIOUS
  <2>2. (i + 1) + 2 \in 0..n /\ (i + 1) + 2 # 0 /\ ((i + 1) + 2) - 1 = i + 2
    BY <1>10
  <2>3. PICK p \in Nat : p = pos[i + 2] /\ p # 0
    <3>1. pos[i + 2] \in Nat /\ pos[i + 2] >= i + 2
      BY <1>8, <2>1, Zenon
    <3>2. i + 2 \in Nat /\ i + 2 # 0
      OBVIOUS
    <3>3. pos[i + 2] # 0
      BY <3>1, <3>2
    <3>4. QED
      BY <3>1, <3>3
  <2>4. PICK c \in Byte : c = t[i + 1]
    BY <1>1, <2>1
  <2>5. PICK e : e = Escaped(c)
    OBVIOUS
  <2>6. ss[i + 2] = e
    BY <1>3, <2>1, <2>4, <2>5
  <2>7. PICK w \in Nat : w = Len(e)
    <3>1. e \in Seq(Byte)
      BY <2>5, EscapedSeq
    <3>2. QED
      BY <3>1
  <2>8. pos[(i + 1) + 2] = p + w /\ WrittenAt(line, p, e, w)
    BY <1>6, <1>8, <2>1, <2>3, <2>6, <2>7 DEF WrittenAt
  <2>9. PICK u : u = SubSeq(t, 1, i)
    OBVIOUS
  <2>10. ArgsRound(line, ArgsAt(p, "inq", <<>>, u)) = ArgsAt(p + w, "inq", <<>>, Append(u, c))
    BY <1>5, <2>3, <2>4, <2>5, <2>7, <2>8, ByteRound
  <2>11. Append(u, c) = SubSeq(t, 1, i + 1)
    BY <1>1, <2>4, <2>9, FirstMore
  <2>12. f[i + 2] = ArgsAt(p, "inq", <<>>, u)
    BY <1>12, <2>3, <2>9
  <2>13. f[(i + 1) + 2] = ArgsRound(line, f[i + 2])
    BY <1>11, <2>2
  <2>14. QED
    BY <1>12, <2>1, <2>8, <2>10, <2>11, <2>12, <2>13
<1>15. f[m + 2] = ArgsAt(l, "inq", <<>>, t) /\ ByteAt(line, l) = DQ /\ ByteAt(line, l + 1) = NUL
  <2>1. m \in T
    <3>1. \A i \in 0..m : i \in T
      BY <1>13, <1>14, InductionTo
    <3>2. m \in 0..m
      OBVIOUS
    <3>3. QED
      BY <3>1, <3>2
  <2>2. SubSeq(t, 1, m) = t
    BY <1>1, SubSeqFull
  <2>3. m + 2 \in 1..(m + 2) /\ (m + 2) + 1 = m + 3
    OBVIOUS
  <2>4. Len(ss[m + 2]) = 1 /\ ss[m + 2][1] = DQ
    BY <1>3
  <2>5. pos[m + 2] \in Nat /\ pos[m + 3] = pos[m + 2] + 1 /\ line[pos[m + 2] + 1 - 1] = DQ
    <3>1. 1 \in 1..Len(ss[m + 2])
      BY <2>4
    <3>2. QED
      BY <1>8, <2>3, <2>4, <3>1
  <2>6. pos[m + 2] = l /\ l + 1 - 1 = l
    BY <1>8, <2>5
  <2>7. line[l] = DQ
    BY <2>5, <2>6
  <2>8. l \in 1..l /\ l + 1 \notin 1..l
    BY <1>8
  <2>9. ByteAt(line, l) = DQ /\ ByteAt(line, l + 1) = NUL
    BY <1>6, <2>7, <2>8 DEF ByteAt
  <2>10. QED
    BY <1>12, <2>1, <2>2, <2>6, <2>9
<1>16. PICK q : q = ArgsAt(l + 1, "ok", <<t>>, <<>>)
  OBVIOUS
<1>17. f[m + 4] = q /\ ArgsRound(line, q) = q
  <2>1. /\ m + 3 \in 0..n /\ m + 3 # 0 /\ (m + 3) - 1 = m + 2
        /\ m + 4 \in 0..n /\ m + 4 # 0 /\ (m + 4) - 1 = m + 3 /\ l + 1 \in Nat
    BY <1>10
  <2>2. f[m + 3] = ArgsRound(line, f[m + 2]) /\ f[m + 4] = ArgsRound(line, f[m + 3])
    BY <1>11, <2>1
  <2>3. PICK x : x = <<t>> /\ Added(x, <<>>, t)
    <3>1. Append(<<>>, t) = <<t>>
      OBVIOUS
    <3>2. QED
      BY <3>1, Zenon DEF Added
  <2>4. f[m + 3] = ArgsAt(l + 1, "skip", x, <<>>)
    BY <1>15, <2>2, <2>3, CloseRound
  <2>5. QED
    BY <1>15, <1>16, <2>1, <2>2, <2>3, <2>4, LastRounds
<1>18. f[n] = q
  <2>1. PICK d \in Nat : n = (m + 4) + d
    <3>1. n - (m + 4) \in Nat /\ n = (m + 4) + (n - (m + 4))
      BY <1>10
    <3>2. QED
      BY <3>1
  <2>2. PICK R : R = {k \in 0..d : f[(m + 4) + k] = q}
    OBVIOUS
  <2>3. 0 \in R
    <3>1. 0 \in 0..d /\ (m + 4) + 0 = m + 4
      OBVIOUS
    <3>2. QED
      BY <1>17, <2>2, <3>1
  <2>4. \A k \in 0..(d - 1) : k \in R => k + 1 \in R
    <3> SUFFICES ASSUME NEW k \in 0..(d - 1), k \in R PROVE k + 1 \in R
      OBVIOUS
    <3>1. /\ k + 1 \in 0..d /\ (m + 4) + (k + 1) \in 0..n /\ (m + 4) + (k + 1) # 0
          /\ ((m + 4) + (k + 1)) - 1 = (m + 4) + k
      BY <2>1
    <3>2. f[(m + 4) + (k + 1)] = ArgsRound(line, f[(m + 4) + k])
      BY <1>11, <3>1
    <3>3. f[(m + 4) + k] = q
      BY <2>2
    <3>4. QED
      BY <1>17, <2>2, <3>1, <3>2, <3>3
  <2>5. d \in R
    <3>1. \A k \in 0..d : k \in R
      BY <2>3, <2>4, InductionTo
    <3>2. d \in 0..d
      OBVIOUS
    <3>3. QED
      BY <3>1, <3>2
  <2>6. QED
    BY <2>1, <2>2, <2>5
<1>19. f[n].mode = "ok" /\ f[n].vector = <<t>>
  BY <1>16, <1>18 DEF ArgsAt
<1>20. QED
  BY <1>2, <1>4, <1>11, <1>19

-----------------------------------------------------------------------------
(* Changes in place *)

LEMMA TrimString ==
    ASSUME NEW x, String(x), NEW set, NEW y, y = sdstrim(x, set)
    PROVE  /\ String(y) /\ y.len =< x.len /\ Ended(y)
           /\ Content(y) = Bytes!Trimmed(Content(x), set)
<1> DEFINE In(i) == strchr(set, x.buf[i])
           Leftmost(i) == (\A j \in 0..(i - 1) : In(j)) /\ (i = x.len \/ ~In(i))
<1>1. PICK n : n = x.len
  OBVIOUS
<1>2. n \in Nat
  BY <1>1 DEF String
<1>3. PICK sp : sp = CHOOSE i \in 0..x.len : Leftmost(i)
  OBVIOUS
<1>4. sp \in 0..n /\ Leftmost(sp)
  <2> DEFINE I == {i \in 0..n : i = n \/ ~In(i)}
  <2>1. I \subseteq Nat /\ I # {}
    BY <1>2
  <2> HIDE DEF I
  <2>2. PICK k \in I : \A j \in Nat : j < k => j \notin I
    BY <2>1, FirstPlace
  <2>3. k \in 0..n /\ (k = n \/ ~In(k)) /\ \A j \in 0..(k - 1) : In(j)
    BY <1>2, <2>2 DEF I
  <2>4. k \in 0..x.len /\ Leftmost(k)
    BY <1>1, <2>3
  <2> HIDE DEF Leftmost
  <2>5. sp \in 0..x.len /\ Leftmost(sp)
    BY <1>3, <2>4
  <2>6. QED
    BY <1>1, <2>5
<1> DEFINE Rightmost(i) == (\A j \in (i + 1)..(x.len - 1) : In(j)) /\ (i = sp \/ ~In(i))
<1>5. PICK ep : ep = CHOOSE i \in sp..(x.len - 1) : Rightmost(i)
  OBVIOUS
<1>6. ASSUME sp =< n - 1 PROVE ep \in sp..(n - 1) /\ Rightmost(ep)
  <2> DEFINE I == {i \in Nat : n - 1 - i \in sp..(n - 1) /\ (n - 1 - i = sp \/ ~In(n - 1 - i))}
  <2>1. n - 1 - sp \in Nat /\ n - 1 - (n - 1 - sp) = sp /\ sp \in sp..(n - 1)
    BY <1>2, <1>4, <1>6
  <2>2. n - 1 - sp \in I /\ I \subseteq Nat
    BY <2>1
  <2> HIDE DEF I
  <2>3. PICK k \in I : \A j \in Nat : j < k => j \notin I
    BY <2>2, FirstPlace
  <2>4. PICK i : i = n - 1 - k
    OBVIOUS
  <2>5. k \in Nat /\ i \in sp..(n - 1) /\ (i = sp \/ ~In(i))
    BY <2>3, <2>4 DEF I
  <2>6. \A j \in (i + 1)..(n - 1) : In(j)
    <3> TAKE j \in (i + 1)..(n - 1)
    <3>1. /\ n - 1 - j \in Nat /\ n - 1 - j < k /\ n - 1 - (n - 1 - j) = j
          /\ j \in sp..(n - 1)
      BY <1>2, <1>4, <2>4, <2>5
    <3>2. n - 1 - j \notin I
      BY <2>3, <3>1
    <3>3. QED
      BY <3>1, <3>2 DEF I
  <2>7. i \in sp..(x.len - 1) /\ Rightmost(i)
    BY <1>1, <2>5, <2>6
  <2> HIDE DEF Rightmost
  <2>8. ep \in sp..(x.len - 1) /\ Rightmost(ep)
    BY <1>5, <2>7
  <2>9. QED
    BY <1>1, <2>8
<1>7. PICK m : m = IF sp > n - 1 THEN 0 ELSE ep - sp + 1
  OBVIOUS
<1>8. m \in Nat /\ sp \in Nat /\ sp + m =< n /\ m =< n
  <2>1. CASE sp > n - 1
    BY <1>2, <1>4, <1>7, <2>1
  <2>2. CASE ~(sp > n - 1)
    BY <1>2, <1>4, <1>6, <1>7, <2>2
  <2>3. QED
    BY <2>1, <2>2
<1>9. y = Kept(x, sp, m)
  BY <1>1, <1>3, <1>5, <1>7 DEF sdstrim
<1>10. PICK c : c = Content(x)
  OBVIOUS
<1>11. /\ String(y) /\ y.len = m /\ Ended(y) /\ Content(y) = SubSeq(c, sp + 1, sp + m)
  BY <1>1, <1>8, <1>9, <1>10, KeptString
<1>12. /\ c \in Seq(Byte) /\ Len(c) = n
       /\ \A i \in 1..n : c[i] = x.buf[i - 1]
  BY <1>1, <1>10, ContentSeq DEF Content
<1>13. PICK kept : kept = {i \in 1..Len(c) : ~Bytes!strchr(set, c[i])}
  OBVIOUS
<1>14. \A i \in 1..n : i \in kept <=> ~In(i - 1)
  <2>1. \A ch : Bytes!strchr(set, ch) <=> strchr(set, ch)
    BY Zenon DEF Bytes!strchr, strchr, Bytes!NUL, NUL
  <2>2. QED
    BY <1>12, <1>13, <2>1
<1>15. kept \subseteq 1..n
  BY <1>12, <1>13
<1>16. \A j \in 0..(sp - 1) : In(j)
  BY <1>4
<1>17. CASE sp > n - 1
  <2>1. kept = {}
    <3> SUFFICES ASSUME NEW i \in kept PROVE FALSE
      OBVIOUS
    <3>1. i \in 1..n /\ i - 1 \in 0..(sp - 1)
      BY <1>2, <1>4, <1>15, <1>17
    <3>2. QED
      BY <1>14, <1>16, <3>1
  <2>2. Bytes!Trimmed(c, set) = <<>>
    BY <1>13, <2>1, Zenon DEF Bytes!Trimmed
  <2>3. sp + m < sp + 1 /\ sp + m \in Int /\ sp + 1 \in Int
    BY <1>2, <1>4, <1>7, <1>17
  <2>4. SubSeq(c, sp + 1, sp + m) = <<>>
    BY <2>3, NothingCut
  <2>5. QED
    BY <1>1, <1>8, <1>10, <1>11, <2>2, <2>4
<1>18. CASE sp =< n - 1
  <2>1. sp \in 0..(n - 1) /\ sp + 1 \in 1..n /\ (sp + 1) - 1 = sp
    BY <1>2, <1>4, <1>18
  <2>2. ep \in sp..(n - 1) /\ (\A j \in (ep + 1)..(n - 1) : In(j)) /\ (ep = sp \/ ~In(ep))
    <3>1. ep \in sp..(n - 1) /\ Rightmost(ep)
      BY <1>6, <1>18
    <3>2. QED
      BY <1>1, <3>1
  <2>3. ~In(sp)
    <3>1. sp # n
      BY <2>1
    <3>2. QED
      BY <1>1, <1>4, <3>1
  <2>4. ~In(ep)
    BY <2>2, <2>3
  <2> HIDE DEF In
  <2>5. ep \in Nat /\ ep + 1 \in 1..n /\ (ep + 1) - 1 = ep
    BY <1>2, <2>1, <2>2
  <2>6. sp + 1 \in kept /\ ep + 1 \in kept
    BY <1>14, <2>1, <2>3, <2>4, <2>5
  <2>7. \A i \in kept : sp + 1 =< i /\ i =< ep + 1
    <3> TAKE i \in kept
    <3>1. i \in 1..n /\ ~In(i - 1)
      BY <1>14, <1>15
    <3>2. i - 1 \notin 0..(sp - 1) /\ i - 1 \notin (ep + 1)..(n - 1)
      BY <1>16, <2>2, <3>1
    <3>3. QED
      BY <1>2, <2>1, <2>5, <3>1, <3>2
  <2>8. PICK a, b : /\ a = CHOOSE i \in kept : \A j \in kept : i =< j
                    /\ b = CHOOSE i \in kept : \A j \in kept : j =< i
    OBVIOUS
  <2>9. a \in kept /\ \A j \in kept : a =< j
    <3>1. sp + 1 \in kept /\ \A j \in kept : sp + 1 =< j
      BY <2>6, <2>7
    <3>2. QED
      BY <2>8, <3>1, Zenon
  <2>10. b \in kept /\ \A j \in kept : j =< b
    <3>1. ep + 1 \in kept /\ \A j \in kept : j =< ep + 1
      BY <2>6, <2>7
    <3>2. QED
      BY <2>8, <3>1, Zenon
  <2>11. a = sp + 1
    <3>1. a \in 1..n /\ a =< sp + 1 /\ sp + 1 =< a
      BY <1>15, <2>6, <2>7, <2>9
    <3>2. QED
      BY <2>1, <3>1
  <2>12. b = ep + 1
    <3>1. b \in 1..n /\ b =< ep + 1 /\ ep + 1 =< b
      BY <1>15, <2>6, <2>7, <2>10
    <3>2. QED
      BY <2>5, <3>1
  <2>13. Bytes!Trimmed(c, set) = SubSeq(c, a, b)
    BY <1>13, <2>6, <2>8, Zenon DEF Bytes!Trimmed
  <2>14. sp + m = ep + 1
    BY <1>2, <1>7, <1>18, <2>1, <2>5
  <2>15. QED
    BY <1>1, <1>8, <1>10, <1>11, <2>11, <2>12, <2>13, <2>14
<1>19. QED
  BY <1>2, <1>4, <1>17, <1>18

LEMMA RangeString ==
    ASSUME NEW x, String(x), Ended(x), NEW start \in Int, NEW end \in Int,
           NEW y, y = sdsrange(x, start, end)
    PROVE  /\ String(y) /\ y.len =< x.len /\ Ended(y)
           /\ Content(y) = Bytes!Slice(Content(x), start, end)
<1>1. PICK n : n = x.len
  OBVIOUS
<1>2. n \in Nat
  BY <1>1 DEF String
<1> DEFINE From(i) == IF i >= 0 THEN i ELSE IF n + i < 0 THEN 0 ELSE n + i
<1>3. PICK first, e : first = From(start) /\ e = From(end)
  OBVIOUS
<1>4. first \in Nat /\ e \in Nat
  BY <1>2, <1>3
<1>5. PICK last : last = IF e >= n THEN n - 1 ELSE e
  OBVIOUS
<1>6. y = IF n = 0 THEN x ELSE IF first > e \/ first >= n THEN Kept(x, 0, 0)
          ELSE Kept(x, first, last - first + 1)
  BY <1>1, <1>3, <1>5 DEF sdsrange
<1> HIDE DEF From
<1>11. PICK c : c = Content(x)
  OBVIOUS
<1>12. c \in Seq(Byte) /\ Len(c) = n
  BY <1>1, <1>11, ContentSeq
<1>13. PICK cut : cut = IF e < n - 1 THEN e ELSE n - 1
  OBVIOUS
<1>14. Bytes!Slice(c, start, end) = SubSeq(c, first + 1, cut + 1)
  <2>1. Bytes!Place(n, start) = first /\ Bytes!Place(n, end) = e
    BY <1>3 DEF Bytes!Place, From
  <2>2. Bytes!Least(e, n - 1) = cut
    BY <1>13, Zenon DEF Bytes!Least
  <2>3. QED
    BY <1>12, <2>1, <2>2, Zenon DEF Bytes!Slice
<1>7. CASE n = 0
  <2>1. y = x
    BY <1>6, <1>7
  <2>2. x.len =< x.len
    BY <1>1, <1>2
  <2>3. cut + 1 < first + 1 /\ cut + 1 \in Int /\ first + 1 \in Int
    BY <1>4, <1>7, <1>13
  <2>4. SubSeq(c, first + 1, cut + 1) = <<>>
    BY <2>3, NothingCut
  <2>5. c = <<>>
    BY <1>7, <1>12
  <2>6. QED
    BY <1>11, <1>14, <2>1, <2>2, <2>4, <2>5
<1>8. CASE n # 0 /\ (first > e \/ first >= n)
  <2>1. y = Kept(x, 0, 0) /\ 0 + 0 =< x.len /\ 0 \in Nat
    BY <1>1, <1>2, <1>6, <1>8
  <2>2. String(y) /\ y.len = 0 /\ Ended(y) /\ Content(y) = SubSeq(c, 0 + 1, 0 + 0)
    BY <1>11, <2>1, KeptString
  <2>3. cut + 1 < first + 1 /\ cut + 1 \in Int /\ first + 1 \in Int
    BY <1>2, <1>4, <1>8, <1>13
  <2>4. SubSeq(c, first + 1, cut + 1) = <<>>
    BY <2>3, NothingCut
  <2>5. SubSeq(c, 0 + 1, 0 + 0) = <<>>
    <3>1. 0 + 0 < 0 + 1 /\ 0 + 0 \in Int /\ 0 + 1 \in Int
      OBVIOUS
    <3>2. QED
      BY <3>1, NothingCut
  <2>6. 0 =< x.len
    BY <1>1, <1>2
  <2>7. QED
    BY <1>11, <1>14, <2>2, <2>4, <2>5, <2>6
<1>9. CASE n # 0 /\ ~(first > e \/ first >= n)
  <2>1. PICK m : m = last - first + 1
    OBVIOUS
  <2>2. m \in Nat /\ first + m =< x.len /\ m =< x.len /\ y = Kept(x, first, m)
    BY <1>1, <1>2, <1>4, <1>5, <1>6, <1>9, <2>1
  <2>3. String(y) /\ y.len = m /\ Ended(y) /\ Content(y) = SubSeq(c, first + 1, first + m)
    BY <1>4, <1>11, <2>2, KeptString
  <2>4. first + m = cut + 1
    BY <1>2, <1>4, <1>5, <1>9, <1>13, <2>1
  <2>5. QED
    BY <1>11, <1>14, <2>2, <2>3, <2>4
<1>10. QED
  BY <1>7, <1>8, <1>9

LEMMA UpdateString ==
    ASSUME NEW x, String(x), Ended(x), NEW y, y = sdsupdatelen(x)
    PROVE  String(y) /\ y.len =< x.len /\ Ended(y) /\ Content(y) = CString(Content(x))
<1> DEFINE Terminates(k) == x.buf[k] = NUL /\ \A i \in 0..(k - 1) : x.buf[i] # NUL
<1>1. x.len \in Nat /\ x.size \in Nat /\ DOMAIN x.buf = 0..(x.size - 1) /\ x.len \in DOMAIN x.buf
  BY DEF String
<1>2. PICK n : n = CHOOSE i \in DOMAIN x.buf : Terminates(i)
  OBVIOUS
<1>3. n \in DOMAIN x.buf /\ Terminates(n)
  <2> DEFINE I == {i \in DOMAIN x.buf : x.buf[i] = NUL}
  <2>1. I \subseteq Nat /\ x.len \in I
    BY <1>1 DEF Ended
  <2> HIDE DEF I
  <2>2. PICK k \in I : \A j \in Nat : j < k => j \notin I
    BY <2>1, FirstPlace
  <2>3. k \in DOMAIN x.buf /\ Terminates(k)
    BY <1>1, <2>2 DEF I
  <2> HIDE DEF Terminates
  <2>4. QED
    BY <1>2, <2>3
<1>4. n \in Nat /\ n =< x.len
  BY <1>1, <1>3 DEF Ended
<1>5. \A i \in 0..(n - 1) : x.buf[i] \in Byte
  BY <1>1, <1>4 DEF String
<1>6. n < x.size /\ n < Limit[x.type]
  BY <1>4, LimitFacts DEF String
<1>7. y = sdssetlen(x, n)
  BY <1>2 DEF sdsupdatelen
<1>8. String(y) /\ y.len = n /\ y.buf = x.buf
  BY <1>4, <1>5, <1>6, <1>7, SetLenString
<1>9. PICK c : c = Content(x)
  OBVIOUS
<1>10. /\ c \in Seq(Byte) /\ Len(c) = x.len
       /\ \A i \in 1..x.len : c[i] = x.buf[i - 1]
  BY <1>9, ContentSeq DEF Content
<1>11. \A i \in 1..n : i \in 1..x.len /\ i - 1 \in 0..(n - 1)
  BY <1>1, <1>4
<1>12. \A i \in 1..n : c[i] # NUL
  BY <1>3, <1>10, <1>11
<1>13. Content(y) = [i \in 1..n |-> c[i]]
  BY <1>8, <1>10, <1>11 DEF Content
<1>14. CASE n = x.len
  <2>1. ~(\E i \in 1..Len(c) : c[i] = NUL)
    BY <1>10, <1>12, <1>14
  <2>2. CString(c) = c
    BY <2>1, Zenon DEF CString
  <2>3. c = [i \in 1..n |-> c[i]]
    BY <1>10, <1>14
  <2>4. QED
    BY <1>3, <1>4, <1>8, <1>9, <1>13, <2>2, <2>3 DEF Ended
<1>15. CASE n # x.len
  <2>1. n + 1 \in 1..x.len /\ (n + 1) - 1 = n
    BY <1>1, <1>4, <1>15
  <2>2. c[n + 1] = NUL
    BY <1>3, <1>10, <2>1
  <2>3. PICK k : k = CHOOSE i \in 1..Len(c) : c[i] = NUL /\ \A j \in 1..(i - 1) : c[j] # NUL
    OBVIOUS
  <2>4. n + 1 \in 1..Len(c) /\ c[n + 1] = NUL /\ \A j \in 1..((n + 1) - 1) : c[j] # NUL
    <3>1. (n + 1) - 1 = n
      BY <1>4
    <3>2. QED
      BY <1>10, <1>12, <2>1, <2>2, <3>1
  <2>5. k \in 1..Len(c) /\ c[k] = NUL /\ \A j \in 1..(k - 1) : c[j] # NUL
    BY <2>3, <2>4, Zenon
  <2>6. k = n + 1
    <3>1. x.len \in Nat /\ Len(c) = x.len
      BY <1>1, <1>10
    <3>2. ~(k < n + 1)
      <4>1. k < n + 1 => k \in 1..n
        BY <1>4, <2>5, <3>1
      <4>2. QED
        BY <1>12, <2>5, <4>1
    <3>3. ~(n + 1 < k)
      <4>1. n + 1 < k => n + 1 \in 1..(k - 1)
        BY <1>4, <2>5, <3>1
      <4>2. QED
        BY <2>2, <2>5, <4>1
    <3>4. QED
      BY <1>4, <2>5, <3>1, <3>2, <3>3
  <2>7. CString(c) = SubSeq(c, 1, k - 1)
    BY <2>3, <2>4, Zenon DEF CString
  <2>8. k - 1 = n
    BY <1>4, <2>6
  <2>9. SubSeq(c, 1, n) = [i \in 1..n |-> c[i]]
    BY <1>1, <1>4, <1>10, FirstItems
  <2>10. QED
    BY <1>3, <1>4, <1>8, <1>9, <1>13, <2>7, <2>8, <2>9 DEF Ended
<1>16. QED
  BY <1>14, <1>15

LEMMA EachString ==
    ASSUME NEW x, String(x), NEW b,
           b = [i \in DOMAIN x.buf |-> IF i < x.len THEN b[i] ELSE x.buf[i]],
           \A i \in 0..(x.len - 1) : b[i] \in Byte,
           NEW y, y = [x EXCEPT !.buf = b]
    PROVE  /\ String(y) /\ y.len = x.len /\ (Ended(x) => Ended(y))
           /\ Reads(y, x.len, b)
<1>1. x.len \in Nat /\ x.size \in Nat /\ DOMAIN x.buf = 0..(x.size - 1)
  BY DEF String
<1>2. DOMAIN b = DOMAIN x.buf
  OBVIOUS
<1>3. \A i \in DOMAIN x.buf : IF i < x.len THEN b[i] \in Byte ELSE b[i] = x.buf[i]
  BY <1>1, SMTT(30)
<1>4. QED
  BY <1>2, <1>3, BytesString

Raised(t) == [i \in 1..Len(t) |-> toupper(t[i])]
Lowered(t) == [i \in 1..Len(t) |-> tolower(t[i])]
Replaced(t, m) == [i \in 1..Len(t) |-> Bytes!Mapped(t[i], m[1], m[2])]

LEMMA UpperString ==
    ASSUME NEW x, String(x), NEW y, y = sdstoupper(x)
    PROVE  /\ String(y) /\ y.len = x.len /\ (Ended(x) => Ended(y))
           /\ Content(y) = Raised(Content(x))
<1>1. PICK b : b = [i \in DOMAIN x.buf |-> IF i < x.len THEN toupper(x.buf[i]) ELSE x.buf[i]]
  OBVIOUS
<1>2. x.len \in Nat /\ x.size \in Nat /\ x.len < x.size /\ DOMAIN x.buf = 0..(x.size - 1)
  BY DEF String
<1>3. \A i \in 0..(x.len - 1) : b[i] \in Byte
  <2> TAKE i \in 0..(x.len - 1)
  <2>1. b[i] = toupper(x.buf[i]) /\ x.buf[i] \in Byte
    BY <1>1, <1>2 DEF String
  <2>2. QED
    BY <2>1 DEF toupper, Byte
<1>4. y = [x EXCEPT !.buf = b]
  BY <1>1 DEF sdstoupper, Each
<1>5. b = [i \in DOMAIN x.buf |-> IF i < x.len THEN b[i] ELSE x.buf[i]]
  BY <1>1
<1>6. /\ String(y) /\ y.len = x.len /\ (Ended(x) => Ended(y))
      /\ Reads(y, x.len, b)
  BY <1>3, <1>4, <1>5, EachString
<1>7. \A i \in 1..x.len : b[i - 1] = toupper(Content(x)[i])
  <2> TAKE i \in 1..x.len
  <2>1. i - 1 \in DOMAIN x.buf /\ i - 1 < x.len
    BY <1>2
  <2>2. b[i - 1] = toupper(x.buf[i - 1])
    BY <1>1, <2>1
  <2>3. Content(x)[i] = x.buf[i - 1]
    BY DEF Content
  <2>4. QED
    BY <2>2, <2>3
<1>8. Len(Content(x)) = x.len
  BY ContentSeq
<1>9. QED
  BY <1>6, <1>7, <1>8 DEF Reads, Raised

LEMMA LowerString ==
    ASSUME NEW x, String(x), NEW y, y = sdstolower(x)
    PROVE  /\ String(y) /\ y.len = x.len /\ (Ended(x) => Ended(y))
           /\ Content(y) = Lowered(Content(x))
<1>1. PICK b : b = [i \in DOMAIN x.buf |-> IF i < x.len THEN tolower(x.buf[i]) ELSE x.buf[i]]
  OBVIOUS
<1>2. x.len \in Nat /\ x.size \in Nat /\ x.len < x.size /\ DOMAIN x.buf = 0..(x.size - 1)
  BY DEF String
<1>3. \A i \in 0..(x.len - 1) : b[i] \in Byte
  <2> TAKE i \in 0..(x.len - 1)
  <2>1. b[i] = tolower(x.buf[i]) /\ x.buf[i] \in Byte
    BY <1>1, <1>2 DEF String
  <2>2. QED
    BY <2>1 DEF tolower, Byte
<1>4. y = [x EXCEPT !.buf = b]
  BY <1>1 DEF sdstolower, Each
<1>5. b = [i \in DOMAIN x.buf |-> IF i < x.len THEN b[i] ELSE x.buf[i]]
  BY <1>1
<1>6. /\ String(y) /\ y.len = x.len /\ (Ended(x) => Ended(y))
      /\ Reads(y, x.len, b)
  BY <1>3, <1>4, <1>5, EachString
<1>7. \A i \in 1..x.len : b[i - 1] = tolower(Content(x)[i])
  <2> TAKE i \in 1..x.len
  <2>1. i - 1 \in DOMAIN x.buf /\ i - 1 < x.len
    BY <1>2
  <2>2. b[i - 1] = tolower(x.buf[i - 1])
    BY <1>1, <2>1
  <2>3. Content(x)[i] = x.buf[i - 1]
    BY DEF Content
  <2>4. QED
    BY <2>2, <2>3
<1>8. Len(Content(x)) = x.len
  BY ContentSeq
<1>9. QED
  BY <1>6, <1>7, <1>8 DEF Reads, Lowered

LEMMA MapString ==
    ASSUME NEW x, String(x), NEW m \in Maps, NEW y, y = sdsmapchars(x, m[1], m[2])
    PROVE  /\ String(y) /\ y.len = x.len /\ (Ended(x) => Ended(y))
           /\ Content(y) = Replaced(Content(x), m)
<1> DEFINE First(c, i) == c = m[1][i] /\ \A j \in 1..(i - 1) : c # m[1][j]
           Mapped(c) == IF \E i \in 1..Len(m[1]) : c = m[1][i]
                        THEN m[2][CHOOSE i \in 1..Len(m[1]) : First(c, i)] ELSE c
<1>1. m[1] \in Seq(Byte) /\ m[2] \in Seq(Byte) /\ Len(m[1]) = Len(m[2])
  BY MapsAssumption
<1>2. PICK n : n = Len(m[1])
  OBVIOUS
<1>3. n \in Nat /\ \A i \in 1..n : m[2][i] \in Byte
  BY <1>1, <1>2
<1>4. ASSUME NEW c \in Byte PROVE Mapped(c) \in Byte /\ Mapped(c) = Bytes!Mapped(c, m[1], m[2])
  <2>1. CASE ~(\E i \in 1..n : c = m[1][i])
    BY <1>2, <2>1 DEF Bytes!Mapped
  <2>2. CASE \E i \in 1..n : c = m[1][i]
    <3> DEFINE I == {i \in 1..n : c = m[1][i]}
    <3>1. I \subseteq Nat /\ I # {}
      BY <1>3, <2>2
    <3> HIDE DEF I
    <3>2. PICK k \in I : \A j \in Nat : j < k => j \notin I
      BY <3>1, FirstPlace
    <3>3. k \in 1..n /\ First(c, k)
      BY <1>3, <3>2 DEF I
    <3>4. PICK p : p = CHOOSE i \in 1..Len(m[1]) : First(c, i)
      OBVIOUS
    <3> HIDE DEF First
    <3>5. p \in 1..n /\ First(c, p)
      BY <1>2, <3>3, <3>4
    <3>6. Mapped(c) = m[2][p]
      BY <1>2, <2>2, <3>4
    <3>7. PICK q : q = CHOOSE i \in 1..Len(m[1]) : m[1][i] = c /\ \A j \in 1..(i - 1) : m[1][j] # c
      OBVIOUS
    <3>8. Bytes!Mapped(c, m[1], m[2]) = m[2][q]
      <4>1. \E i \in 1..Len(m[1]) : m[1][i] = c
        BY <1>2, <2>2
      <4>2. QED
        BY <3>7, <4>1, Zenon DEF Bytes!Mapped
    <3>9. q \in 1..n /\ m[1][q] = c /\ \A j \in 1..(q - 1) : m[1][j] # c
      <4>1. k \in 1..Len(m[1]) /\ m[1][k] = c /\ \A j \in 1..(k - 1) : m[1][j] # c
        BY <1>2, <3>3 DEF First
      <4>2. QED
        BY <1>2, <3>7, <4>1, Zenon
    <3>10. p = q
      <4>1. m[1][p] = c /\ \A j \in 1..(p - 1) : m[1][j] # c
        BY <3>5 DEF First
      <4>2. (p < q => p \in 1..(q - 1)) /\ (q < p => q \in 1..(p - 1))
        BY <1>3, <3>5, <3>9
      <4>3. ~(p < q) /\ ~(q < p)
        BY <3>9, <4>1, <4>2
      <4>4. QED
        BY <1>3, <3>5, <3>9, <4>3
    <3>11. QED
      BY <1>3, <3>5, <3>6, <3>8, <3>10
  <2>3. QED
    BY <2>1, <2>2
<1>5. PICK b : b = [i \in DOMAIN x.buf |-> IF i < x.len THEN Mapped(x.buf[i]) ELSE x.buf[i]]
  OBVIOUS
<1>6. y = [x EXCEPT !.buf = b]
  BY <1>5 DEF sdsmapchars, Each
<1> HIDE DEF Mapped
<1>7. x.len \in Nat /\ x.size \in Nat /\ x.len < x.size /\ DOMAIN x.buf = 0..(x.size - 1)
  BY DEF String
<1>8. \A i \in 0..(x.len - 1) : b[i] \in Byte
  <2> TAKE i \in 0..(x.len - 1)
  <2>1. b[i] = Mapped(x.buf[i]) /\ x.buf[i] \in Byte
    BY <1>5, <1>7 DEF String
  <2>2. QED
    BY <1>4, <2>1, Zenon
<1>9. b = [i \in DOMAIN x.buf |-> IF i < x.len THEN b[i] ELSE x.buf[i]]
  BY <1>5
<1>10. /\ String(y) /\ y.len = x.len /\ (Ended(x) => Ended(y))
       /\ Reads(y, x.len, b)
  BY <1>6, <1>8, <1>9, EachString
<1>11. \A i \in 1..x.len : b[i - 1] = Bytes!Mapped(Content(x)[i], m[1], m[2])
  <2> TAKE i \in 1..x.len
  <2>1. i - 1 \in DOMAIN x.buf /\ i - 1 < x.len /\ i - 1 \in 0..(x.len - 1)
    BY <1>7
  <2>2. b[i - 1] = Mapped(x.buf[i - 1]) /\ x.buf[i - 1] \in Byte
    BY <1>5, <2>1 DEF String
  <2>3. Content(x)[i] = x.buf[i - 1]
    BY DEF Content
  <2>4. Mapped(x.buf[i - 1]) = Bytes!Mapped(x.buf[i - 1], m[1], m[2])
    BY <1>4, <2>2, Zenon
  <2>5. QED
    BY <2>2, <2>3, <2>4
<1>12. Len(Content(x)) = x.len
  BY ContentSeq
<1>13. QED
  BY <1>10, <1>11, <1>12 DEF Reads, Replaced

LEMMA ReadString ==
    ASSUME NEW x, String(x), NEW t \in Seq(Byte), NEW n \in Nat, Len(t) =< n,
           x.len + n =< MaxLen,
           NEW z, z = Written(sdsMakeRoomFor(x, n), x.len, t),
           NEW y, y = sdsIncrLen(z, Len(t))
    PROVE  /\ String(y) /\ y.len = x.len + Len(t) /\ Ended(y)
           /\ Content(y) = Content(x) \o t
<1>1. PICK l, k : l = x.len /\ k = Len(t)
  OBVIOUS
<1>2. l \in Nat /\ k \in Nat /\ k =< n /\ l + n =< 4 * MaxLen /\ \A i \in 1..k : t[i] \in Byte
  <2>1. l \in Nat /\ k \in Nat /\ k =< n /\ l + n =< MaxLen
    BY <1>1 DEF String
  <2>2. MaxLen \in Nat
    BY LimitFacts
  <2>3. l + n =< 4 * MaxLen
    BY <2>1, <2>2
  <2>4. \A i \in 1..k : t[i] \in Byte
    BY <1>1
  <2>5. QED
    BY <2>1, <2>3, <2>4
<1>3. PICK r : r = sdsMakeRoomFor(x, n)
  OBVIOUS
<1>4. /\ String(r) /\ r.len = l /\ l + n < r.size /\ l + n < Limit[r.type]
      /\ \A i \in 0..(l - 1) : r.buf[i] = x.buf[i]
  <2>1. n \in Int /\ x.len + n >= 0 /\ x.len + n =< 4 * MaxLen
    BY <1>1, <1>2
  <2>2. QED
    BY <1>1, <1>3, <2>1, RoomString
<1>5. r.size \in Nat /\ Limit[r.type] \in Nat /\ \A i \in 0..(l - 1) : r.buf[i] \in Byte
  BY <1>4, LimitFacts DEF String
<1>6. /\ String(z) /\ z.type = r.type /\ z.size = r.size /\ z.len = r.len
      /\ \A i \in 0..(r.size - 1) :
             z.buf[i] = IF i \in l..(l + Len(t) - 1) THEN t[i - l + 1] ELSE r.buf[i]
  <2>1. l + Len(t) =< r.size
    BY <1>1, <1>2, <1>4, <1>5
  <2>2. z = Written(r, l, t)
    BY <1>1, <1>3
  <2>3. String(r) /\ l \in Nat
    BY <1>2, <1>4
  <2>4. /\ String(z) /\ z.type = r.type /\ z.size = r.size /\ z.len = r.len
        /\ Overwrites(z, r, l, t)
    BY <2>1, <2>2, <2>3, WrittenString
  <2>5. QED
    BY <2>4 DEF Overwrites
<1>7. \A i \in 0..(l + k - 1) : z.buf[i] \in Byte
  <2> TAKE i \in 0..(l + k - 1)
  <2>1. i \in 0..(r.size - 1)
    BY <1>2, <1>4, <1>5
  <2>2. CASE i \in l..(l + k - 1)
    <3>1. i - l + 1 \in 1..k
      BY <1>2, <2>2
    <3>2. QED
      BY <1>1, <1>2, <1>6, <2>1, <2>2, <3>1
  <2>3. CASE i \notin l..(l + k - 1)
    <3>1. i \in 0..(l - 1)
      BY <1>2, <2>3
    <3>2. QED
      BY <1>1, <1>5, <1>6, <2>1, <2>3, <3>1
  <2>4. QED
    BY <2>2, <2>3
<1>8. z.len = l
  BY <1>4, <1>6
<1>9. k \in Int /\ z.len + k >= 0 /\ z.len + k < z.size /\ z.len + k < Limit[z.type]
  BY <1>2, <1>4, <1>5, <1>6, <1>8
<1>10. \A i \in 0..(z.len + k - 1) : z.buf[i] \in Byte
  BY <1>7, <1>8
<1>11. y = sdsIncrLen(z, k)
  BY <1>1
<1>12. /\ String(y) /\ y.len = z.len + k /\ Ended(y)
       /\ \A i \in 0..(z.len + k - 1) : y.buf[i] = z.buf[i]
  BY <1>6, <1>9, <1>10, <1>11, IncrString
<1>13. \A i \in 0..(l - 1) : y.buf[i] = x.buf[i]
  <2> TAKE i \in 0..(l - 1)
  <2>1. /\ i \in 0..(r.size - 1) /\ i \notin l..(l + Len(t) - 1)
        /\ i \in 0..(z.len + k - 1)
    BY <1>2, <1>4, <1>5, <1>8
  <2>2. QED
    BY <1>4, <1>6, <1>12, <2>1
<1>14. \A i \in l..(l + k - 1) : y.buf[i] = t[i - l + 1]
  <2> TAKE i \in l..(l + k - 1)
  <2>1. i \in 0..(r.size - 1) /\ i \in 0..(z.len + k - 1)
    BY <1>2, <1>4, <1>5, <1>8
  <2>2. QED
    BY <1>1, <1>6, <1>12, <2>1
<1>15. Content(y) = Content(x) \o t
  <2>1. Continues(y, x, t, l, k)
    BY <1>1, <1>8, <1>12, <1>13, <1>14 DEF Continues
  <2>2. QED
    BY <1>12, <2>1, ContentJoined
<1>16. QED
  BY <1>1, <1>8, <1>12, <1>15

-----------------------------------------------------------------------------
(* Every step keeps the invariant *)

LEMMA InitSds == Init => SdsInv
<1> SUFFICES ASSUME Init PROVE SdsInv
  OBVIOUS
<1>1. PICK t \in Texts \union {<<>>} : s = sdsnewlen(t)
  BY DEF Init
<1>2. t \in Seq(Byte) /\ Len(t) =< MaxLen
  <2>1. CASE t \in Texts
    BY <2>1, TextsAssumption
  <2>2. CASE t = <<>>
    BY <2>2, LimitFacts
  <2>3. QED
    BY <2>1, <2>2
<1>3. String(s) /\ s.len = Len(t) /\ Ended(s)
  BY <1>1, <1>2, NewString
<1>4. call = NoCall /\ s.len \in Nat
  BY <1>3 DEF Init, String
<1>5. /\ call \in [name : {"none", "sdscatfmt", "sdscatrepr"}, pieces : Seq(Seq(Byte)), from : Nat]
      /\ call.from = 0
  BY <1>4 DEF NoCall
<1>6. QED
  BY <1>2, <1>3, <1>4, <1>5 DEF SdsInv

\* Between two calls a call keeps the invariant if it leaves a terminated string.
LEMMA IdleStep ==
    ASSUME SdsInv, Idle, String(s'), s'.len =< MaxLen, Ended(s)'
    PROVE  SdsInv'
<1>1. call = NoCall /\ call' = call
  BY DEF Idle
<1>2. /\ call' \in [name : {"none", "sdscatfmt", "sdscatrepr"}, pieces : Seq(Seq(Byte)), from : Nat]
      /\ call'.from = 0
  BY <1>1 DEF NoCall
<1>3. s'.len \in Nat
  BY DEF String
<1>4. QED
  BY <1>2, <1>3 DEF SdsInv

LEMMA IdleFacts ==
    ASSUME SdsInv, Idle
    PROVE  String(s) /\ s.len \in Nat /\ s.len =< MaxLen /\ MaxLen \in Nat /\ Ended(s)
  BY LimitFacts DEF SdsInv, Idle, NoCall, String

LEMMA TextFacts ==
    ASSUME NEW t \in Texts
    PROVE  /\ t \in Seq(Byte) /\ Len(t) \in Nat /\ Len(t) =< MaxLen
           /\ CString(t) \in Seq(Byte) /\ Len(CString(t)) \in Nat /\ Len(CString(t)) =< Len(t)
  BY TextsAssumption, CStringSeq

\* Calls that make, copy or append strings.
LEMMA NewStep == ASSUME SdsInv, New PROVE SdsInv'
<1>1. PICK t \in Texts : s' = sdsnewlen(t) \/ s' = sdsnewlen(CString(t))
  BY DEF New, sdsnew
<1>2. PICK u : u \in {t, CString(t)} /\ s' = sdsnewlen(u)
  BY <1>1
<1>3. u \in Seq(Byte) /\ Len(u) =< MaxLen
  BY <1>2, TextFacts, LimitFacts
<1>4. String(s') /\ s'.len = Len(u) /\ s'.buf[s'.len] = NUL
  BY <1>2, <1>3, NewString DEF Ended
<1>5. Idle
  BY DEF New
<1>6. QED
  BY <1>3, <1>4, <1>5, IdleStep DEF Ended

LEMMA DupStep == ASSUME SdsInv, Dup PROVE SdsInv'
<1>1. Idle /\ s' = sdsnewlen(Content(s))
  BY DEF Dup, sdsdup
<1>2. Content(s) \in Seq(Byte) /\ Len(Content(s)) = s.len /\ s.len =< MaxLen
  BY <1>1, IdleFacts, ContentSeq
<1>3. String(s') /\ s'.len = s.len /\ s'.buf[s'.len] = NUL
  BY <1>1, <1>2, NewString DEF Ended
<1>4. QED
  BY <1>1, <1>2, <1>3, IdleStep DEF Ended

LEMMA ClearStep == ASSUME SdsInv, Clear PROVE SdsInv'
<1>1. Idle /\ s' = Terminated(sdssetlen(s, 0), 0)
  BY DEF Clear, sdsclear
<1>2. String(s) /\ 0 < s.size /\ 0 < Limit[s.type] /\ s.len \in Nat /\ MaxLen \in Nat
  BY <1>1, IdleFacts, LimitFacts DEF String
<1>3. PICK v : v = sdssetlen(s, 0)
  OBVIOUS
<1>4. String(v) /\ v.len = 0 /\ v.size = s.size
  BY <1>2, <1>3, SetLenString
<1>5. /\ String(s') /\ s'.len = 0
      /\ \A i \in 0..(v.size - 1) : s'.buf[i] = IF i = 0 THEN NUL ELSE v.buf[i]
  BY <1>1, <1>2, <1>3, <1>4, TerminatedString
<1>6. 0 \in 0..(v.size - 1)
  BY <1>2, <1>4 DEF String
<1>7. Ended(s)'
  BY <1>5, <1>6 DEF Ended
<1>8. QED
  BY <1>1, <1>2, <1>5, <1>7, IdleStep

LEMMA ReserveStep == ASSUME SdsInv, Reserve PROVE SdsInv'
<1>1. PICK n \in 0..MaxLen : Fits(s.len + n) /\ s' = sdsMakeRoomFor(s, n)
  BY DEF Reserve
<1>2. Idle
  BY DEF Reserve
<1>3. String(s) /\ s.len \in Nat /\ s.len =< MaxLen /\ MaxLen \in Nat /\ Ended(s)
  BY <1>2, IdleFacts
<1>4. n \in Int /\ s.len + n >= 0 /\ s.len + n =< 4 * MaxLen
  BY <1>1, <1>3 DEF Fits
<1>5. String(s') /\ s'.len = s.len /\ s'.buf[s'.len] = NUL
  BY <1>1, <1>3, <1>4, RoomString DEF Ended
<1>6. QED
  BY <1>2, <1>3, <1>5, IdleStep DEF Ended

LEMMA ShrinkStep == ASSUME SdsInv, Shrink PROVE SdsInv'
<1>1. Idle /\ s' = sdsRemoveFreeSpace(s)
  BY DEF Shrink
<1>2. String(s) /\ s.len =< MaxLen /\ Ended(s)
  BY <1>1, IdleFacts
<1>3. String(s') /\ s'.len = s.len /\ s'.buf[s'.len] = NUL
  BY <1>1, <1>2, ShrinkString DEF Ended
<1>4. QED
  BY <1>1, <1>2, <1>3, IdleStep DEF Ended

\* Cat and CatPrintf: a text of Texts or its C string.
LEMMA AppendStep ==
    ASSUME SdsInv, Idle, NEW t \in Texts, Fits(s.len + Len(t)),
           s' = sdscatlen(s, t) \/ s' = sdscatlen(s, CString(t))
    PROVE  SdsInv'
<1>1. PICK u : u \in {t, CString(t)} /\ s' = sdscatlen(s, u)
  OBVIOUS
<1>2. String(s) /\ s.len \in Nat /\ MaxLen \in Nat
  BY IdleFacts
<1>3. u \in Seq(Byte) /\ Len(u) \in Nat /\ s.len + Len(u) =< MaxLen
  BY <1>1, <1>2, TextFacts DEF Fits
<1>4. String(s') /\ s'.len = s.len + Len(u) /\ s'.buf[s'.len] = NUL
  BY <1>1, <1>2, <1>3, CatString DEF Ended
<1>5. QED
  BY <1>3, <1>4, IdleStep DEF Ended

LEMMA CatStep == ASSUME SdsInv, Cat \/ CatPrintf PROVE SdsInv'
<1>1. Idle
  BY DEF Cat, CatPrintf
<1>2. PICK t \in Texts : Fits(s.len + Len(t))
                         /\ (s' = sdscatlen(s, t) \/ s' = sdscatlen(s, CString(t)))
  BY DEF Cat, CatPrintf, sdscat, sdscatvprintf
<1>3. QED
  BY <1>1, <1>2, AppendStep

LEMMA CopyStep == ASSUME SdsInv, Copy PROVE SdsInv'
<1>1. PICK t \in Texts : s' = sdscpylen(s, t)
  BY DEF Copy
<1>2. Idle
  BY DEF Copy
<1>3. String(s) /\ t \in Seq(Byte) /\ Len(t) =< MaxLen
  BY <1>2, IdleFacts, TextFacts
<1>4. String(s') /\ s'.len = Len(t) /\ s'.buf[s'.len] = NUL
  BY <1>1, <1>3, CopyString DEF Ended
<1>5. QED
  BY <1>2, <1>3, <1>4, IdleStep DEF Ended

LEMMA GrowZeroStep == ASSUME SdsInv, GrowZero PROVE SdsInv'
<1>1. PICK n \in 0..MaxLen : s' = sdsgrowzero(s, n)
  BY DEF GrowZero
<1>2. Idle
  BY DEF GrowZero
<1>3. String(s) /\ Ended(s) /\ s.len =< MaxLen /\ MaxLen \in Nat
  BY <1>2, IdleFacts
<1>4. String(s') /\ (s'.len = s.len \/ s'.len = n) /\ s'.buf[s'.len] = NUL
  BY <1>1, <1>3, GrowString DEF Ended
<1>5. QED
  BY <1>2, <1>3, <1>4, IdleStep DEF Ended

\* Calls that change the string in place leave one that is no longer.
LEMMA InPlaceStep ==
    ASSUME SdsInv, Idle, NEW y, s' = y, String(y), y.len =< s.len, Ended(y)
    PROVE  SdsInv'
<1>1. s.len \in Nat /\ s.len =< MaxLen /\ MaxLen \in Nat /\ y.len \in Nat
  BY IdleFacts DEF String
<1>2. s'.len =< MaxLen
  BY <1>1
<1>3. Ended(s)'
  BY DEF Ended
<1>4. QED
  BY <1>2, <1>3, IdleStep

LEMMA UpdateStep == ASSUME SdsInv, Update PROVE SdsInv'
<1>1. Idle /\ s' = sdsupdatelen(s)
  BY DEF Update
<1>2. PICK y : y = sdsupdatelen(s)
  OBVIOUS
<1>3. String(y) /\ y.len =< s.len /\ Ended(y)
  BY <1>1, <1>2, IdleFacts, UpdateString
<1>4. QED
  BY <1>1, <1>2, <1>3, InPlaceStep

LEMMA TrimStep == ASSUME SdsInv, Trim PROVE SdsInv'
<1>1. PICK set \in Sets : s' = sdstrim(s, set)
  BY DEF Trim
<1>2. Idle
  BY DEF Trim
<1>3. PICK y : y = sdstrim(s, set)
  OBVIOUS
<1>4. String(y) /\ y.len =< s.len /\ Ended(y)
  BY <1>2, <1>3, IdleFacts, TrimString
<1>5. QED
  BY <1>1, <1>2, <1>3, <1>4, InPlaceStep

LEMMA SubstringStep == ASSUME SdsInv, Substring PROVE SdsInv'
<1>1. PICK start \in (-MaxLen - 1)..(MaxLen + 1), end \in (-MaxLen - 1)..(MaxLen + 1) :
          s' = sdsrange(s, start, end)
  BY DEF Substring
<1>2. Idle
  BY DEF Substring
<1>3. PICK y : y = sdsrange(s, start, end)
  OBVIOUS
<1>4. start \in Int /\ end \in Int
  BY LimitFacts
<1>5. String(y) /\ y.len =< s.len /\ Ended(y)
  BY <1>2, <1>3, <1>4, IdleFacts, RangeString
<1>6. QED
  BY <1>1, <1>2, <1>3, <1>5, InPlaceStep

LEMMA BytesStep == ASSUME SdsInv, Upper \/ Lower \/ MapChars PROVE SdsInv'
<1>1. Idle
  BY DEF Upper, Lower, MapChars
<1>2. String(s) /\ Ended(s) /\ s.len \in Nat
  BY <1>1, IdleFacts
<1>3. PICK y : y = s' /\ (y = sdstoupper(s) \/ y = sdstolower(s)
                          \/ \E m \in Maps : y = sdsmapchars(s, m[1], m[2]))
  BY DEF Upper, Lower, MapChars
<1>4. String(y) /\ y.len = s.len /\ (Ended(s) => Ended(y))
  <2>1. CASE y = sdstoupper(s)
    BY <1>2, <2>1, UpperString
  <2>2. CASE y = sdstolower(s)
    BY <1>2, <2>2, LowerString
  <2>3. CASE \E m \in Maps : y = sdsmapchars(s, m[1], m[2])
    BY <1>2, <2>3, MapString
  <2>4. QED
    BY <1>3, <2>1, <2>2, <2>3
<1>5. y.len =< s.len
  BY <1>2, <1>4
<1>6. QED
  BY <1>1, <1>2, <1>3, <1>4, <1>5, InPlaceStep

LEMMA RightTrimStep == ASSUME SdsInv, RightTrim PROVE SdsInv'
<1>1. PICK n \in 1..s.len : s' = sdsIncrLen(s, -n)
  BY DEF RightTrim
<1>2. Idle
  BY DEF RightTrim
<1>3. String(s) /\ s.len \in Nat
  BY <1>2, IdleFacts
<1>4. PICK y : y = sdsIncrLen(s, -n)
  OBVIOUS
<1>5. /\ -n \in Int /\ s.len + (-n) >= 0 /\ s.len + (-n) < s.size /\ s.len + (-n) < Limit[s.type]
      /\ \A i \in 0..(s.len + (-n) - 1) : s.buf[i] \in Byte
  BY <1>3, LimitFacts DEF String
<1>6. String(y) /\ y.len = s.len + (-n) /\ Ended(y)
  BY <1>3, <1>4, <1>5, IncrString
<1>7. y.len =< s.len
  BY <1>3, <1>6
<1>8. QED
  BY <1>1, <1>2, <1>4, <1>6, <1>7, InPlaceStep

LEMMA ReadIntoStep == ASSUME SdsInv, ReadInto PROVE SdsInv'
<1>1. PICK t \in Texts : \E n \in Len(t)..MaxLen :
          /\ Idle /\ Fits(s.len + n)
          /\ s' = sdsIncrLen(Written(sdsMakeRoomFor(s, n), s.len, t), Len(t))
  BY DEF ReadInto
<1>2. PICK n \in Len(t)..MaxLen :
          /\ Idle /\ Fits(s.len + n)
          /\ s' = sdsIncrLen(Written(sdsMakeRoomFor(s, n), s.len, t), Len(t))
  BY <1>1
<1>3. /\ String(s) /\ s.len \in Nat /\ MaxLen \in Nat
      /\ t \in Seq(Byte) /\ Len(t) \in Nat
  BY <1>2, IdleFacts, TextFacts
<1>4. n \in Nat /\ Len(t) =< n /\ s.len + n =< MaxLen
  BY <1>2, <1>3 DEF Fits
<1>5. PICK y : y = sdsIncrLen(Written(sdsMakeRoomFor(s, n), s.len, t), Len(t))
  OBVIOUS
<1>6. String(y) /\ y.len = s.len + Len(t) /\ Ended(y)
  BY <1>3, <1>4, <1>5, ReadString
<1>7. s'.len =< MaxLen /\ s' = y
  BY <1>2, <1>3, <1>4, <1>5, <1>6
<1>8. Ended(s)'
  BY <1>6, <1>7 DEF Ended
<1>9. QED
  BY <1>2, <1>6, <1>7, <1>8, IdleStep

\* sdscatfmt and sdscatrepr.
LEMMA FormatStep == ASSUME SdsInv, Format PROVE SdsInv'
<1>1. PICK f \in Formats :
          /\ call = NoCall
          /\ s' = sdsMakeRoomFor(s, s.len + 2 * Len(f[1]))
          /\ call' = [name |-> "sdscatfmt", pieces |-> Directives(f[1], f[2]), from |-> s.len]
  BY DEF Format
<1>2. /\ String(s) /\ s.len \in Nat /\ s.len =< MaxLen /\ MaxLen \in Nat
  BY LimitFacts DEF SdsInv, String
<1>3. f[1] \in Seq(Byte) /\ Len(f[1]) =< MaxLen /\ Directives(f[1], f[2]) \in Seq(Seq(Byte))
  BY FormatsAssumption
<1>4. PICK k : k = Len(f[1])
  OBVIOUS
<1>5. k \in Nat /\ k =< MaxLen
  BY <1>3, <1>4
<1>6. PICK n : n = s.len + 2 * k
  OBVIOUS
<1>7. n \in Int /\ s.len + n >= 0 /\ s.len + n =< 4 * MaxLen
  BY <1>2, <1>5, <1>6
<1>8. s' = sdsMakeRoomFor(s, n)
  BY <1>1, <1>4, <1>6
<1>9. String(s') /\ s'.len = s.len
  BY <1>2, <1>7, <1>8, RoomString
<1>10. /\ call'.name = "sdscatfmt" /\ call'.from = s.len
       /\ call' \in [name : {"none", "sdscatfmt", "sdscatrepr"}, pieces : Seq(Seq(Byte)),
                     from : Nat]
  BY <1>1, <1>2, <1>3
<1>11. call'.from =< s'.len /\ s'.len =< MaxLen
  BY <1>2, <1>9, <1>10
<1>12. QED
  BY <1>9, <1>10, <1>11 DEF SdsInv

LEMMA QuoteStep == ASSUME SdsInv, Quote PROVE SdsInv'
<1>1. PICK t \in Texts :
          /\ call = NoCall /\ s' = s
          /\ call' = [name |-> "sdscatrepr", pieces |-> sdscatrepr(t), from |-> s.len]
  BY DEF Quote
<1>2. String(s) /\ s.len \in Nat /\ s.len =< MaxLen /\ Ended(s)
  BY <1>1 DEF SdsInv, String, NoCall
<1>3. sdscatrepr(t) \in Seq(Seq(Byte))
  BY TextFacts, ReprSeq
<1>4. /\ call' \in [name : {"none", "sdscatfmt", "sdscatrepr"}, pieces : Seq(Seq(Byte)),
                    from : Nat]
      /\ call'.from =< s'.len
  BY <1>1, <1>2, <1>3
<1>5. String(s') /\ s'.len =< MaxLen /\ Ended(s)'
  BY <1>1, <1>2 DEF Ended
<1>6. QED
  BY <1>4, <1>5 DEF SdsInv

LEMMA NextPieceStep == ASSUME SdsInv, NextPiece PROVE SdsInv'
<1>1. /\ call.pieces # <<>> /\ Fits(s.len + Len(Head(call.pieces)))
      /\ s' = IF call.name = "sdscatfmt" THEN Put(s, Head(call.pieces))
              ELSE sdscatlen(s, Head(call.pieces))
      /\ call' = [call EXCEPT !.pieces = Tail(@)]
  BY DEF NextPiece
<1>2. /\ call \in [name : {"none", "sdscatfmt", "sdscatrepr"}, pieces : Seq(Seq(Byte)),
                   from : Nat]
      /\ String(s) /\ s.len \in Nat /\ call.from =< s.len
  BY DEF SdsInv, String
<1>3. PICK t : t = Head(call.pieces)
  OBVIOUS
<1>4. t \in Seq(Byte) /\ Len(t) \in Nat /\ Tail(call.pieces) \in Seq(Seq(Byte))
  BY <1>1, <1>2, <1>3
<1>5. /\ call' \in [name : {"none", "sdscatfmt", "sdscatrepr"}, pieces : Seq(Seq(Byte)),
                    from : Nat]
      /\ call'.name = call.name /\ call'.from = call.from
  BY <1>1, <1>2, <1>4
<1>6. s.len + Len(t) =< MaxLen
  BY <1>1, <1>3 DEF Fits
<1>7. String(s') /\ s'.len = s.len + Len(t) /\ (call.name # "sdscatfmt" => Ended(s)')
  <2>1. CASE call.name = "sdscatfmt"
    <3>1. s' = Put(s, t)
      BY <1>1, <1>3, <2>1
    <3>2. QED
      BY <1>2, <1>4, <1>6, <2>1, <3>1, PutString
  <2>2. CASE call.name # "sdscatfmt"
    <3>1. PICK y : y = sdscatlen(s, t)
      OBVIOUS
    <3>2. String(y) /\ y.len = s.len + Len(t) /\ Ended(y)
      BY <1>2, <1>4, <1>6, <3>1, CatString
    <3>3. s' = y
      BY <1>1, <1>3, <2>2, <3>1
    <3>4. QED
      BY <3>2, <3>3 DEF Ended
  <2>3. QED
    BY <2>1, <2>2
<1>8. s'.len =< MaxLen /\ call'.from =< s'.len
  BY <1>2, <1>4, <1>5, <1>6, <1>7
<1>9. QED
  BY <1>5, <1>7, <1>8 DEF SdsInv

LEMMA ReturnStep == ASSUME SdsInv, Return PROVE SdsInv'
<1>1. /\ s' = IF call.name = "sdscatfmt" THEN Terminated(s, s.len) ELSE s
      /\ call' = NoCall
  BY DEF Return
<1>2. String(s) /\ s.len \in Nat /\ s.len < s.size /\ s.size \in Nat /\ s.len =< MaxLen
  BY DEF SdsInv, String
<1>3. String(s') /\ s'.len = s.len /\ Ended(s)'
  <2>1. CASE call.name = "sdscatfmt"
    <3>1. PICK y : y = Terminated(s, s.len)
      OBVIOUS
    <3>2. /\ String(y) /\ y.len = s.len
          /\ \A i \in 0..(s.size - 1) : y.buf[i] = IF i = s.len THEN NUL ELSE s.buf[i]
      BY <1>2, <3>1, TerminatedString
    <3>3. s.len \in 0..(s.size - 1) /\ s' = y
      BY <1>1, <1>2, <2>1, <3>1
    <3>4. QED
      BY <3>2, <3>3 DEF Ended
  <2>2. CASE call.name # "sdscatfmt"
    BY <1>1, <1>2, <2>2 DEF SdsInv, Ended
  <2>3. QED
    BY <2>1, <2>2
<1>4. /\ call' \in [name : {"none", "sdscatfmt", "sdscatrepr"}, pieces : Seq(Seq(Byte)),
                    from : Nat]
      /\ call'.from = 0
  BY <1>1 DEF NoCall
<1>5. call'.from =< s'.len
  BY <1>2, <1>3, <1>4
<1>6. QED
  BY <1>2, <1>3, <1>4, <1>5 DEF SdsInv

LEMMA SdsStep == ASSUME SdsInv, [Next]_vars PROVE SdsInv'
<1>1. CASE UNCHANGED vars
  BY <1>1 DEF vars, SdsInv, Ended
<1>2. CASE Next
  BY <1>2, NewStep, DupStep, ClearStep, ReserveStep, ShrinkStep, CatStep, CopyStep,
     GrowZeroStep, UpdateStep, TrimStep, SubstringStep, BytesStep, RightTrimStep,
     ReadIntoStep, FormatStep, QuoteStep, NextPieceStep, ReturnStep DEF Next
<1>3. QED
  BY <1>1, <1>2

LEMMA SdsInvHolds == Spec => []SdsInv
  BY InitSds, SdsStep, PTL DEF Spec

-----------------------------------------------------------------------------
(* Users see a sequence of bytes *)

Seen == IF call = NoCall THEN Content(s) ELSE SubSeq(Content(s), 1, call.from)

\* What the call under way appends when it returns.
Printed(name, t) ==
    IF name = "sdscatfmt" THEN \E f \in Formats : t = FlattenSeq(Directives(f[1], f[2]))
    ELSE \E p \in Texts : t = FlattenSeq(sdscatrepr(p))

\* Behind the string as it was the call has appended all that it appends but for the
\* pieces that are left.
Pending(name, x, from, left) ==
    \E t \in Seq(Byte) :
        /\ Printed(name, t)
        /\ Content(x) \o FlattenSeq(left) = SubSeq(Content(x), 1, from) \o t

CallInv ==
    /\ call.name = "none" => call = NoCall
    /\ call # NoCall => Pending(call.name, s, call.from, call.pieces)

LEMMA SameText ==
    /\ \A c : Bytes!toupper(c) = toupper(c) /\ Bytes!tolower(c) = tolower(c)
    /\ \A t : Bytes!CString(t) = CString(t)
    /\ \A t : Bytes!FlattenSeq(t) = FlattenSeq(t)
    /\ \A t : Bytes!sdscatrepr(t) = sdscatrepr(t)
    /\ \A t, a : Bytes!Directives(t, a) = Directives(t, a)
    /\ Bytes!NUL = NUL
<1>1. \A c : Bytes!toupper(c) = toupper(c)
  BY Zenon DEF Bytes!toupper, toupper
<1>2. \A c : Bytes!tolower(c) = tolower(c)
  BY Zenon DEF Bytes!tolower, tolower
<1>3. \A t : Bytes!CString(t) = CString(t)
  BY Zenon DEF Bytes!CString, CString, Bytes!NUL, NUL
<1>4. \A t : Bytes!FlattenSeq(t) = FlattenSeq(t)
  BY Zenon DEF Bytes!FlattenSeq, FlattenSeq
<1>5. \A t : Bytes!sdscatrepr(t) = sdscatrepr(t)
  <2>1. \A c : Bytes!Escaped(c) = Escaped(c)
    BY Zenon DEF Bytes!Escaped, Escaped, Bytes!BSL, BSL, Bytes!DQ, DQ, Bytes!Letter, Letter,
       Bytes!isprint, isprint, Bytes!HexDigit, HexDigit
  <2>2. QED
    BY <2>1, Zenon DEF Bytes!sdscatrepr, sdscatrepr, Bytes!DQ, DQ
<1>6. \A t, a : Bytes!Directives(t, a) = Directives(t, a)
  BY SMTT(60) DEF Bytes!Directives, Directives, Bytes!PCT, PCT, Bytes!sdsll2str, sdsll2str,
     Bytes!sdsull2str, sdsull2str
<1>7. Bytes!NUL = NUL
  BY Zenon DEF Bytes!NUL, NUL
<1>8. QED
  BY <1>1, <1>2, <1>3, <1>4, <1>5, <1>6, <1>7

LEMMA SeenNext ==
    Seen' = IF call' = NoCall THEN Content(s') ELSE SubSeq(Content(s'), 1, call'.from)
  BY DEF Seen, Content

\* The calls of ByteString.
LEMMA ByNew ==
    ASSUME NEW t \in Texts, Seen' = t \/ Seen' = CString(t)
    PROVE  Bytes!Next
<1>1. Bytes!CString(t) = CString(t)
  BY SameText
<1>2. Seen' \in {t, Bytes!CString(t)}
  BY <1>1
<1>3. Bytes!New
  BY <1>2, Zenon DEF Bytes!New, Seen
<1>4. QED
  BY <1>3 DEF Bytes!Next

LEMMA ByCat ==
    ASSUME NEW t \in Texts, NEW u, u = t \/ u = CString(t),
           Seen' = Seen \o u, Len(Seen \o u) =< MaxLen
    PROVE  Bytes!Next
<1>1. Bytes!CString(t) = CString(t)
  BY SameText
<1>2. u \in {t, Bytes!CString(t)}
  BY <1>1
<1>3. Bytes!Fits(Seen \o u) /\ Seen' = Seen \o u
  BY DEF Bytes!Fits
<1>4. Bytes!Cat
  BY <1>2, <1>3, Zenon DEF Bytes!Cat, Seen
<1>5. QED
  BY <1>4 DEF Bytes!Next

LEMMA ByCut ==
    ASSUME NEW n \in 1..Len(Seen), Seen' = SubSeq(Seen, 1, Len(Seen) - n)
    PROVE  Bytes!Next
<1>1. Bytes!Cut
  BY Zenon DEF Bytes!Cut, Seen
<1>2. QED
  BY <1>1 DEF Bytes!Next

LEMMA ByGrow ==
    ASSUME NEW n \in Len(Seen)..MaxLen, Seen' = Seen \o [i \in 1..(n - Len(Seen)) |-> NUL]
    PROVE  Bytes!Next
<1>1. Bytes!NUL = NUL
  BY SameText
<1>2. Bytes!Grow
  BY <1>1, Zenon DEF Bytes!Grow, Seen, Bytes!NUL, NUL
<1>3. QED
  BY <1>2 DEF Bytes!Next

LEMMA ByPrint ==
    ASSUME NEW name, NEW t, Printed(name, t), Seen' = Seen \o t, Len(Seen \o t) =< MaxLen
    PROVE  Bytes!Next
<1>1. CASE name = "sdscatfmt"
  <2>1. PICK f \in Formats : t = FlattenSeq(Directives(f[1], f[2]))
    BY <1>1 DEF Printed
  <2>2. t = Bytes!FlattenSeq(Bytes!Directives(f[1], f[2]))
    BY <2>1, SameText
  <2>3. Bytes!Fits(Seen \o t) /\ Seen' = Seen \o t
    BY DEF Bytes!Fits
  <2>4. Bytes!Format
    BY <2>2, <2>3, Zenon DEF Bytes!Format, Seen
  <2>5. QED
    BY <2>4 DEF Bytes!Next
<1>2. CASE name # "sdscatfmt"
  <2>1. PICK p \in Texts : t = FlattenSeq(sdscatrepr(p))
    BY <1>2 DEF Printed
  <2>2. t = Bytes!FlattenSeq(Bytes!sdscatrepr(p))
    BY <2>1, SameText
  <2>3. Bytes!Fits(Seen \o t) /\ Seen' = Seen \o t
    BY DEF Bytes!Fits
  <2>4. Bytes!Quote
    BY <2>2, <2>3, Zenon DEF Bytes!Quote, Seen
  <2>5. QED
    BY <2>4 DEF Bytes!Next
<1>3. QED
  BY <1>1, <1>2

LEMMA ByTrim ==
    ASSUME NEW set \in Sets, Seen' = Bytes!Trimmed(Seen, set)
    PROVE  Bytes!Next
<1>1. Bytes!Trim
  BY Zenon DEF Bytes!Trim, Seen
<1>2. QED
  BY <1>1 DEF Bytes!Next

LEMMA BySubstring ==
    ASSUME NEW start \in (-MaxLen - 1)..(MaxLen + 1), NEW end \in (-MaxLen - 1)..(MaxLen + 1),
           Seen' = Bytes!Slice(Seen, start, end)
    PROVE  Bytes!Next
<1>1. Bytes!Substring
  BY Zenon DEF Bytes!Substring, Seen
<1>2. QED
  BY <1>1 DEF Bytes!Next

LEMMA ByTerminate ==
    ASSUME Seen' = CString(Seen)
    PROVE  Bytes!Next
<1>1. Seen' = Bytes!CString(Seen)
  BY SameText
<1>2. Bytes!Terminate
  BY <1>1, Zenon DEF Bytes!Terminate, Seen
<1>3. QED
  BY <1>2 DEF Bytes!Next

LEMMA ByBytes ==
    ASSUME \/ Seen' = Raised(Seen)
           \/ Seen' = Lowered(Seen)
           \/ \E m \in Maps : Seen' = Replaced(Seen, m)
    PROVE  Bytes!Next
<1>1. CASE Seen' = Raised(Seen)
  <2>1. Bytes!Upper
    BY <1>1, Zenon DEF Bytes!Upper, Seen, Raised, Bytes!toupper, toupper
  <2>2. QED
    BY <2>1 DEF Bytes!Next
<1>2. CASE Seen' = Lowered(Seen)
  <2>1. Bytes!Lower
    BY <1>2, Zenon DEF Bytes!Lower, Seen, Lowered, Bytes!tolower, tolower
  <2>2. QED
    BY <2>1 DEF Bytes!Next
<1>3. CASE \E m \in Maps : Seen' = Replaced(Seen, m)
  <2>1. Bytes!Replace
    BY <1>3, Zenon DEF Bytes!Replace, Seen, Replaced
  <2>2. QED
    BY <2>1 DEF Bytes!Next
<1>4. QED
  BY <1>1, <1>2, <1>3

LEMMA IdleSeen ==
    ASSUME Idle
    PROVE  Seen = Content(s) /\ Seen' = Content(s') /\ CallInv'
<1>1. call = NoCall /\ call' = NoCall
  BY DEF Idle
<1>2. Seen = Content(s) /\ Seen' = Content(s')
  BY <1>1, SeenNext DEF Seen
<1>3. CallInv'
  BY <1>1 DEF CallInv
<1>4. QED
  BY <1>2, <1>3

\* What the first n bytes of a longer text are.
LEMMA JoinedPrefix ==
    ASSUME NEW c \in Seq(Byte), NEW t \in Seq(Byte), NEW n \in Nat, n =< Len(c)
    PROVE  SubSeq(c \o t, 1, n) = SubSeq(c, 1, n)
<1>1. PICK S : S = Byte
  OBVIOUS
<1>2. PICK u : u = c \o t
  OBVIOUS
<1>3. /\ u \in Seq(S) /\ Len(u) = Len(c) + Len(t)
      /\ \A i \in 1..(Len(c) + Len(t)) : u[i] = IF i =< Len(c) THEN c[i] ELSE t[i - Len(c)]
  BY <1>1, <1>2, ConcatProperties
<1>4. PICK l, m : l = Len(c) /\ m = Len(t)
  OBVIOUS
<1>5. l \in Nat /\ m \in Nat /\ n =< l
  BY <1>4
<1>6. \A i \in 1..n : i \in 1..(l + m) /\ i =< l
  BY <1>5
<1>7. \A i \in 1..n : u[i] = c[i]
  BY <1>3, <1>4, <1>6
<1>8. n =< Len(u)
  BY <1>3, <1>4, <1>5
<1>9. SubSeq(u, 1, n) = [i \in 1..n |-> u[i]]
  BY <1>3, <1>8, FirstItems
<1>10. SubSeq(c, 1, n) = [i \in 1..n |-> c[i]]
  BY FirstItems
<1>11. QED
  BY <1>2, <1>7, <1>9, <1>10

LEMMA FlattenType ==
    ASSUME NEW ss \in Seq(Seq(Byte))
    PROVE  FlattenSeq(ss) \in Seq(Byte)
<1>1. CASE ss = <<>>
  <2>1. Len(ss) = 0
    BY <1>1
  <2>2. FlattenSeq(ss) = ss
    BY <2>1, Zenon DEF FlattenSeq
  <2>3. <<>> \in Seq(Byte)
    OBVIOUS
  <2>4. QED
    BY <1>1, <2>2, <2>3, Zenon
<1>2. CASE ss # <<>>
  <2>1. PICK S : S = Byte
    OBVIOUS
  <2>2. ss \in Seq(Seq(S))
    BY <2>1
  <2>3. FlattenSeq(ss) \in Seq(S)
    BY <1>2, <2>2, FlattenHead
  <2>4. QED
    BY <2>1, <2>3
<1>3. QED
  BY <1>1, <1>2

\* A call either does what ByteString says, or changes nothing a user sees.
Seems == Bytes!Next \/ Seen' = Seen

LEMMA NewSeen == ASSUME SdsInv, New PROVE Seems /\ CallInv'
<1>1. PICK t \in Texts : s' = sdsnewlen(t) \/ s' = sdsnewlen(CString(t))
  BY DEF New, sdsnew
<1>2. Idle
  BY DEF New
<1>3. Seen = Content(s) /\ Seen' = Content(s') /\ CallInv'
  BY <1>2, IdleSeen
<1>4. /\ t \in Seq(Byte) /\ Len(t) =< MaxLen
      /\ CString(t) \in Seq(Byte) /\ Len(CString(t)) =< MaxLen
  BY TextFacts, LimitFacts
<1>5. Seen' = t \/ Seen' = CString(t)
  <2>1. CASE s' = sdsnewlen(t)
    BY <1>3, <1>4, <2>1, NewString
  <2>2. CASE s' = sdsnewlen(CString(t))
    BY <1>3, <1>4, <2>2, NewString
  <2>3. QED
    BY <1>1, <2>1, <2>2
<1>6. QED
  BY <1>3, <1>5, ByNew DEF Seems

LEMMA DupSeen == ASSUME SdsInv, Dup PROVE Seems /\ CallInv'
<1>1. Idle /\ s' = sdsnewlen(Content(s))
  BY DEF Dup, sdsdup
<1>2. Content(s) \in Seq(Byte) /\ Len(Content(s)) =< MaxLen
  BY <1>1, IdleFacts, ContentSeq
<1>3. Content(s') = Content(s)
  BY <1>1, <1>2, NewString
<1>4. QED
  BY <1>1, <1>3, IdleSeen DEF Seems

LEMMA ClearSeen == ASSUME SdsInv, Clear PROVE Seems /\ CallInv'
<1>1. Idle /\ s' = Terminated(sdssetlen(s, 0), 0)
  BY DEF Clear, sdsclear
<1>2. String(s) /\ 0 < s.size /\ 0 < Limit[s.type] /\ s.len \in Nat
  BY <1>1, IdleFacts, LimitFacts DEF String
<1>3. PICK v : v = sdssetlen(s, 0)
  OBVIOUS
<1>4. String(v) /\ v.len = 0 /\ v.size = s.size
  BY <1>2, <1>3, SetLenString
<1>5. String(s') /\ s'.len = 0
  BY <1>1, <1>2, <1>3, <1>4, TerminatedString
<1>6. Seen = Content(s) /\ Seen' = Content(s') /\ CallInv'
  BY <1>1, IdleSeen
<1>7. Seen' = <<>>
  <2>1. Content(s') \in Seq(Byte) /\ Len(Content(s')) = 0
    BY <1>5, ContentSeq
  <2>2. QED
    BY <1>6, <2>1
<1>8. PICK n : n = Len(Seen)
  OBVIOUS
<1>9. Seen \in Seq(Byte) /\ n \in Nat
  BY <1>2, <1>6, <1>8, ContentSeq
<1>10. CASE n = 0
  <2>1. Seen = <<>>
    <3>1. PICK u : u = Seen
      OBVIOUS
    <3>2. u \in Seq(Byte) /\ Len(u) = 0
      BY <1>8, <1>9, <1>10, <3>1
    <3>3. u = <<>>
      BY <3>2
    <3>4. QED
      BY <3>1, <3>3
  <2>2. QED
    BY <1>6, <1>7, <2>1, Zenon DEF Seems
<1>11. CASE n # 0
  <2>1. n \in 1..Len(Seen)
    BY <1>8, <1>9, <1>11
  <2>2. Len(Seen) - n = 0
    BY <1>8, <1>9
  <2>3. SubSeq(Seen, 1, 0) = <<>>
    BY NothingCut
  <2>4. Seen' = SubSeq(Seen, 1, Len(Seen) - n)
    BY <1>7, <2>2, <2>3
  <2>5. QED
    BY <1>6, <2>1, <2>4, ByCut DEF Seems
<1>12. QED
  BY <1>10, <1>11

LEMMA ReserveSeen == ASSUME SdsInv, Reserve PROVE Seems /\ CallInv'
<1>1. PICK n \in 0..MaxLen : Fits(s.len + n) /\ s' = sdsMakeRoomFor(s, n)
  BY DEF Reserve
<1>2. Idle
  BY DEF Reserve
<1>3. String(s) /\ s.len \in Nat /\ s.len =< MaxLen /\ MaxLen \in Nat
  BY <1>2, IdleFacts
<1>4. n \in Int /\ s.len + n >= 0 /\ s.len + n =< 4 * MaxLen
  BY <1>1, <1>3 DEF Fits
<1>5. s'.len = s.len /\ \A i \in 0..(s.len - 1) : s'.buf[i] = s.buf[i]
  BY <1>1, <1>3, <1>4, RoomString
<1>6. Content(s') = Content(s)
  BY <1>3, <1>5, ContentSame
<1>7. QED
  BY <1>2, <1>6, IdleSeen DEF Seems

LEMMA ShrinkSeen == ASSUME SdsInv, Shrink PROVE Seems /\ CallInv'
<1>1. Idle /\ s' = sdsRemoveFreeSpace(s)
  BY DEF Shrink
<1>2. String(s) /\ s.len =< MaxLen
  BY <1>1, IdleFacts
<1>3. s'.len = s.len /\ \A i \in 0..(s.len - 1) : s'.buf[i] = s.buf[i]
  BY <1>1, <1>2, ShrinkString
<1>4. Content(s') = Content(s)
  BY <1>2, <1>3, ContentSame
<1>5. QED
  BY <1>1, <1>4, IdleSeen DEF Seems

\* Bytes are appended, and fit.
LEMMA AppendSeen ==
    ASSUME SdsInv, Idle, NEW t \in Texts, NEW u, u = t \/ u = CString(t),
           Content(s') = Content(s) \o u, s.len + Len(u) =< MaxLen
    PROVE  Seems /\ CallInv'
<1>1. Seen = Content(s) /\ Seen' = Content(s') /\ CallInv'
  BY IdleSeen
<1>2. String(s) /\ u \in Seq(Byte)
  BY IdleFacts, TextFacts
<1>3. Len(Content(s) \o u) =< MaxLen
  <2>1. Content(s) \in Seq(Byte) /\ Len(Content(s)) = s.len
    BY <1>2, ContentSeq
  <2>2. PICK c : c = Content(s)
    OBVIOUS
  <2>3. Len(c \o u) = s.len + Len(u)
    BY <1>2, <2>1, <2>2
  <2>4. QED
    BY <2>2, <2>3
<1>4. Bytes!Next
  BY <1>1, <1>3, ByCat
<1>5. QED
  BY <1>1, <1>4 DEF Seems

LEMMA CatSeen == ASSUME SdsInv, Cat \/ CatPrintf PROVE Seems /\ CallInv'
<1>1. Idle
  BY DEF Cat, CatPrintf
<1>2. PICK t \in Texts : Fits(s.len + Len(t))
                         /\ (s' = sdscatlen(s, t) \/ s' = sdscatlen(s, CString(t)))
  BY DEF Cat, CatPrintf, sdscat, sdscatvprintf
<1>3. PICK u : (u = t \/ u = CString(t)) /\ s' = sdscatlen(s, u)
  BY <1>2
<1>4. String(s) /\ s.len \in Nat /\ MaxLen \in Nat
  BY <1>1, IdleFacts
<1>5. u \in Seq(Byte) /\ Len(u) \in Nat /\ s.len + Len(u) =< MaxLen
  BY <1>2, <1>3, <1>4, TextFacts DEF Fits
<1>6. Content(s') = Content(s) \o u
  BY <1>3, <1>4, <1>5, CatString
<1>7. QED
  BY <1>1, <1>3, <1>5, <1>6, AppendSeen

LEMMA CopySeen == ASSUME SdsInv, Copy PROVE Seems /\ CallInv'
<1>1. PICK t \in Texts : s' = sdscpylen(s, t)
  BY DEF Copy
<1>2. Idle
  BY DEF Copy
<1>3. String(s) /\ t \in Seq(Byte) /\ Len(t) =< MaxLen
  BY <1>2, IdleFacts, TextFacts
<1>4. Content(s') = t
  BY <1>1, <1>3, CopyString
<1>5. Seen' = t /\ CallInv'
  BY <1>2, <1>4, IdleSeen
<1>6. QED
  BY <1>5, ByNew DEF Seems

LEMMA GrowZeroSeen == ASSUME SdsInv, GrowZero PROVE Seems /\ CallInv'
<1>1. PICK n \in 0..MaxLen : s' = sdsgrowzero(s, n)
  BY DEF GrowZero
<1>2. Idle
  BY DEF GrowZero
<1>3. String(s) /\ Ended(s) /\ s.len \in Nat /\ MaxLen \in Nat
  BY <1>2, IdleFacts
<1>4. Seen = Content(s) /\ Seen' = Content(s') /\ CallInv'
  BY <1>2, IdleSeen
<1>5. Len(Seen) = s.len
  BY <1>3, <1>4, ContentSeq
<1>6. CASE n =< s.len
  <2>1. s' = s
    BY <1>1, <1>3, <1>6, GrowString
  <2>2. QED
    BY <1>4, <2>1 DEF Seems
<1>7. CASE ~(n =< s.len)
  <2>1. s.len < n /\ n \in s.len..MaxLen
    BY <1>3, <1>7
  <2>2. Content(s') = Content(s) \o [i \in 1..(n - s.len) |-> NUL]
    BY <1>1, <1>3, <2>1, GrowString
  <2>3. Bytes!Next
    BY <1>4, <1>5, <2>1, <2>2, ByGrow
  <2>4. QED
    BY <1>4, <2>3 DEF Seems
<1>8. QED
  BY <1>6, <1>7

LEMMA UpdateSeen == ASSUME SdsInv, Update PROVE Seems /\ CallInv'
<1>1. Idle /\ s' = sdsupdatelen(s)
  BY DEF Update
<1>2. String(s) /\ Ended(s)
  BY <1>1, IdleFacts
<1>3. Content(s') = CString(Content(s))
  BY <1>1, <1>2, UpdateString
<1>4. Seen = Content(s) /\ Seen' = Content(s') /\ CallInv'
  BY <1>1, IdleSeen
<1>5. QED
  BY <1>3, <1>4, ByTerminate DEF Seems

LEMMA TrimSeen == ASSUME SdsInv, Trim PROVE Seems /\ CallInv'
<1>1. PICK set \in Sets : s' = sdstrim(s, set)
  BY DEF Trim
<1>2. Idle
  BY DEF Trim
<1>3. Content(s') = Bytes!Trimmed(Content(s), set)
  BY <1>1, <1>2, IdleFacts, TrimString
<1>4. Seen = Content(s) /\ Seen' = Content(s') /\ CallInv'
  BY <1>2, IdleSeen
<1>5. QED
  BY <1>3, <1>4, ByTrim DEF Seems

LEMMA SubstringSeen == ASSUME SdsInv, Substring PROVE Seems /\ CallInv'
<1>1. PICK start \in (-MaxLen - 1)..(MaxLen + 1), end \in (-MaxLen - 1)..(MaxLen + 1) :
          s' = sdsrange(s, start, end)
  BY DEF Substring
<1>2. Idle
  BY DEF Substring
<1>3. start \in Int /\ end \in Int
  BY LimitFacts
<1>4. Content(s') = Bytes!Slice(Content(s), start, end)
  BY <1>1, <1>2, <1>3, IdleFacts, RangeString
<1>5. Seen = Content(s) /\ Seen' = Content(s') /\ CallInv'
  BY <1>2, IdleSeen
<1>6. QED
  BY <1>4, <1>5, BySubstring DEF Seems

LEMMA BytesSeen == ASSUME SdsInv, Upper \/ Lower \/ MapChars PROVE Seems /\ CallInv'
<1>1. Idle
  BY DEF Upper, Lower, MapChars
<1>2. String(s)
  BY <1>1, IdleFacts
<1>3. Seen = Content(s) /\ Seen' = Content(s') /\ CallInv'
  BY <1>1, IdleSeen
<1>4. CASE Upper
  <2>1. Content(s') = Raised(Content(s))
    BY <1>2, <1>4, UpperString DEF Upper
  <2>2. QED
    BY <1>3, <2>1, ByBytes DEF Seems
<1>5. CASE Lower
  <2>1. Content(s') = Lowered(Content(s))
    BY <1>2, <1>5, LowerString DEF Lower
  <2>2. QED
    BY <1>3, <2>1, ByBytes DEF Seems
<1>6. CASE MapChars
  <2>1. PICK m \in Maps : s' = sdsmapchars(s, m[1], m[2])
    BY <1>6 DEF MapChars
  <2>2. Content(s') = Replaced(Content(s), m)
    BY <1>2, <2>1, MapString
  <2>3. QED
    BY <1>3, <2>2, ByBytes DEF Seems
<1>7. QED
  BY <1>4, <1>5, <1>6

LEMMA RightTrimSeen == ASSUME SdsInv, RightTrim PROVE Seems /\ CallInv'
<1>1. PICK n \in 1..s.len : s' = sdsIncrLen(s, -n)
  BY DEF RightTrim
<1>2. Idle
  BY DEF RightTrim
<1>3. String(s) /\ s.len \in Nat
  BY <1>2, IdleFacts
<1>4. PICK y : y = sdsIncrLen(s, -n)
  OBVIOUS
<1>5. /\ -n \in Int /\ s.len + (-n) >= 0 /\ s.len + (-n) < s.size /\ s.len + (-n) < Limit[s.type]
      /\ \A i \in 0..(s.len + (-n) - 1) : s.buf[i] \in Byte
  BY <1>3, LimitFacts DEF String
<1>6. /\ y.len = s.len + (-n)
      /\ \A i \in 0..(s.len + (-n) - 1) : y.buf[i] = s.buf[i]
  BY <1>3, <1>4, <1>5, IncrString
<1>7. PICK c, k : c = Content(s) /\ k = s.len - n
  OBVIOUS
<1>8. k \in Nat /\ k =< s.len /\ s.len + (-n) = k /\ c \in Seq(Byte) /\ Len(c) = s.len
  BY <1>3, <1>7, ContentSeq
<1>9. \A i \in 1..k : y.buf[i - 1] = c[i]
  <2> TAKE i \in 1..k
  <2>1. i - 1 \in 0..(s.len + (-n) - 1) /\ i \in 1..s.len
    BY <1>3, <1>7, <1>8
  <2>2. QED
    BY <1>6, <1>7, <2>1 DEF Content
<1>10. Content(y) = [i \in 1..k |-> c[i]]
  BY <1>6, <1>8, <1>9 DEF Content
<1>11. SubSeq(c, 1, k) = [i \in 1..k |-> c[i]]
  BY <1>8, FirstItems
<1>12. Seen = Content(s) /\ Seen' = Content(s') /\ CallInv'
  BY <1>2, IdleSeen
<1>13. Seen' = SubSeq(Seen, 1, k)
  BY <1>1, <1>4, <1>7, <1>10, <1>11, <1>12
<1>14. Len(Seen) = s.len /\ Len(Seen) - n = k
  BY <1>7, <1>8, <1>12
<1>15. n \in 1..Len(Seen) /\ Seen' = SubSeq(Seen, 1, Len(Seen) - n)
  BY <1>13, <1>14
<1>16. QED
  BY <1>12, <1>15, ByCut DEF Seems

LEMMA ReadIntoSeen == ASSUME SdsInv, ReadInto PROVE Seems /\ CallInv'
<1>1. PICK t \in Texts : \E n \in Len(t)..MaxLen :
          /\ Idle /\ Fits(s.len + n)
          /\ s' = sdsIncrLen(Written(sdsMakeRoomFor(s, n), s.len, t), Len(t))
  BY DEF ReadInto
<1>2. PICK n \in Len(t)..MaxLen :
          /\ Idle /\ Fits(s.len + n)
          /\ s' = sdsIncrLen(Written(sdsMakeRoomFor(s, n), s.len, t), Len(t))
  BY <1>1
<1>3. /\ String(s) /\ s.len \in Nat /\ MaxLen \in Nat
      /\ t \in Seq(Byte) /\ Len(t) \in Nat
  BY <1>2, IdleFacts, TextFacts
<1>4. n \in Nat /\ Len(t) =< n /\ s.len + n =< MaxLen
  BY <1>2, <1>3 DEF Fits
<1>5. Content(s') = Content(s) \o t
  BY <1>2, <1>3, <1>4, ReadString
<1>6. s.len + Len(t) =< MaxLen
  BY <1>3, <1>4
<1>7. QED
  BY <1>2, <1>5, <1>6, AppendSeen

\* A call of sdscatfmt or sdscatrepr begins.
LEMMA BeginSeen ==
    ASSUME SdsInv, call = NoCall, String(s'), s'.len = s.len, Content(s') = Content(s),
           NEW name \in {"sdscatfmt", "sdscatrepr"}, NEW left \in Seq(Seq(Byte)),
           Printed(name, FlattenSeq(left)),
           call' = [name |-> name, pieces |-> left, from |-> s.len]
    PROVE  Seems /\ CallInv'
<1>1. PICK c : c = Content(s)
  OBVIOUS
<1>2. String(s) /\ s.len \in Nat
  BY DEF SdsInv, String
<1>3. c \in Seq(Byte) /\ Len(c) = s.len /\ SubSeq(c, 1, s.len) = c
  BY <1>1, <1>2, ContentSeq, SubSeqFull
<1>4. call'.name = name /\ call'.pieces = left /\ call'.from = s.len
  OBVIOUS
<1>5. call' # NoCall /\ call'.name # "none"
  BY <1>4 DEF NoCall
<1>6. Seen = c /\ Seen' = c
  BY <1>1, <1>3, <1>4, <1>5, SeenNext DEF Seen
<1>7. PICK t : t = FlattenSeq(left)
  OBVIOUS
<1>8. t \in Seq(Byte) /\ Printed(name, t)
  BY <1>7, FlattenType
<1>9. Content(s') \o FlattenSeq(left) = SubSeq(Content(s'), 1, s.len) \o t
  BY <1>1, <1>3, <1>7
<1>10. Pending(name, s', s.len, left)
  BY <1>8, <1>9, Zenon DEF Pending
<1>11. Pending(call'.name, s', call'.from, call'.pieces)
  BY <1>4, <1>10
<1>12. CallInv'
  BY <1>5, <1>11 DEF CallInv, Pending, Content, Printed
<1>13. QED
  BY <1>6, <1>12 DEF Seems

LEMMA FormatSeen == ASSUME SdsInv, Format PROVE Seems /\ CallInv'
<1>1. PICK f \in Formats :
          /\ call = NoCall
          /\ s' = sdsMakeRoomFor(s, s.len + 2 * Len(f[1]))
          /\ call' = [name |-> "sdscatfmt", pieces |-> Directives(f[1], f[2]), from |-> s.len]
  BY DEF Format
<1>2. /\ String(s) /\ s.len \in Nat /\ s.len =< MaxLen /\ MaxLen \in Nat
  BY LimitFacts DEF SdsInv, String
<1>3. f[1] \in Seq(Byte) /\ Len(f[1]) =< MaxLen /\ Directives(f[1], f[2]) \in Seq(Seq(Byte))
  BY FormatsAssumption
<1>4. PICK k : k = Len(f[1])
  OBVIOUS
<1>5. k \in Nat /\ k =< MaxLen
  BY <1>3, <1>4
<1>6. PICK n : n = s.len + 2 * k
  OBVIOUS
<1>7. n \in Int /\ s.len + n >= 0 /\ s.len + n =< 4 * MaxLen
  BY <1>2, <1>5, <1>6
<1>8. s' = sdsMakeRoomFor(s, n)
  BY <1>1, <1>4, <1>6
<1>9. String(s') /\ s'.len = s.len /\ \A i \in 0..(s.len - 1) : s'.buf[i] = s.buf[i]
  BY <1>2, <1>7, <1>8, RoomString
<1>10. Content(s') = Content(s)
  BY <1>2, <1>9, ContentSame
<1>11. PICK left : left = Directives(f[1], f[2])
  OBVIOUS
<1>12. Printed("sdscatfmt", FlattenSeq(left))
  BY <1>11, Zenon DEF Printed
<1>13. left \in Seq(Seq(Byte))
  BY <1>3, <1>11
<1>14. call' = [name |-> "sdscatfmt", pieces |-> left, from |-> s.len]
  BY <1>1, <1>11
<1>15. QED
  BY <1>1, <1>9, <1>10, <1>12, <1>13, <1>14, BeginSeen

LEMMA QuoteSeen == ASSUME SdsInv, Quote PROVE Seems /\ CallInv'
<1>1. PICK t \in Texts :
          /\ call = NoCall /\ s' = s
          /\ call' = [name |-> "sdscatrepr", pieces |-> sdscatrepr(t), from |-> s.len]
  BY DEF Quote
<1>2. String(s') /\ s'.len = s.len /\ Content(s') = Content(s)
  BY <1>1 DEF SdsInv
<1>3. PICK left : left = sdscatrepr(t)
  OBVIOUS
<1>4. left \in Seq(Seq(Byte))
  BY <1>3, TextFacts, ReprSeq
<1>5. Printed("sdscatrepr", FlattenSeq(left))
  BY <1>3, Zenon DEF Printed
<1>6. call' = [name |-> "sdscatrepr", pieces |-> left, from |-> s.len]
  BY <1>1, <1>3
<1>7. QED
  BY <1>1, <1>2, <1>4, <1>5, <1>6, BeginSeen

\* The next piece of the call under way.
LEMMA NextPieceSeen == ASSUME SdsInv, CallInv, NextPiece PROVE Seems /\ CallInv'
<1>1. /\ call.pieces # <<>> /\ Fits(s.len + Len(Head(call.pieces)))
      /\ s' = IF call.name = "sdscatfmt" THEN Put(s, Head(call.pieces))
              ELSE sdscatlen(s, Head(call.pieces))
      /\ call' = [call EXCEPT !.pieces = Tail(@)]
  BY DEF NextPiece
<1>2. /\ call \in [name : {"none", "sdscatfmt", "sdscatrepr"}, pieces : Seq(Seq(Byte)),
                   from : Nat]
      /\ String(s) /\ s.len \in Nat /\ call.from =< s.len
  BY DEF SdsInv, String
<1>3. PICK t, rest, from, name : /\ t = Head(call.pieces) /\ rest = Tail(call.pieces)
                                 /\ from = call.from /\ name = call.name
  OBVIOUS
<1>4. t \in Seq(Byte) /\ rest \in Seq(Seq(Byte)) /\ from \in Nat
  BY <1>1, <1>2, <1>3
<1>5. call # NoCall
  BY <1>1 DEF NoCall
<1>6. name # "none" /\ Pending(name, s, from, call.pieces)
  BY <1>3, <1>5 DEF CallInv
<1>7. call'.name = name /\ call'.from = from /\ call'.pieces = rest
  BY <1>1, <1>2, <1>3
<1>8. call' # NoCall
  BY <1>6, <1>7 DEF NoCall
<1>9. s.len + Len(t) =< MaxLen
  BY <1>1, <1>3 DEF Fits
<1>10. Content(s') = Content(s) \o t
  <2>1. CASE name = "sdscatfmt"
    <3>1. s' = Put(s, t)
      BY <1>1, <1>3, <2>1
    <3>2. QED
      BY <1>2, <1>4, <1>9, <3>1, PutString
  <2>2. CASE name # "sdscatfmt"
    <3>1. s' = sdscatlen(s, t)
      BY <1>1, <1>3, <2>2
    <3>2. QED
      BY <1>2, <1>4, <1>9, <3>1, CatString
  <2>3. QED
    BY <2>1, <2>2
<1>11. PICK c : c = Content(s)
  OBVIOUS
<1>12. c \in Seq(Byte) /\ from =< Len(c)
  BY <1>2, <1>3, <1>11, ContentSeq
<1>13. SubSeq(c \o t, 1, from) = SubSeq(c, 1, from)
  BY <1>4, <1>12, JoinedPrefix
<1>14. Seen = SubSeq(c, 1, from) /\ Seen' = SubSeq(c, 1, from)
  BY <1>3, <1>5, <1>7, <1>8, <1>10, <1>11, <1>13, SeenNext DEF Seen
<1>15. PICK w \in Seq(Byte) :
           /\ Printed(name, w)
           /\ Content(s) \o FlattenSeq(call.pieces) = SubSeq(Content(s), 1, from) \o w
  BY <1>6 DEF Pending
<1>16. PICK r : r = FlattenSeq(rest)
  OBVIOUS
<1>17. r \in Seq(Byte) /\ FlattenSeq(call.pieces) = t \o r
  <2>1. PICK S : S = Byte
    OBVIOUS
  <2>2. call.pieces \in Seq(Seq(S)) /\ call.pieces # <<>>
    BY <1>1, <1>2, <2>1
  <2>3. /\ FlattenSeq(Tail(call.pieces)) \in Seq(S)
        /\ FlattenSeq(call.pieces) = Head(call.pieces) \o FlattenSeq(Tail(call.pieces))
    BY <2>2, FlattenHead
  <2>4. QED
    BY <1>3, <1>16, <2>1, <2>3
<1>18. (c \o t) \o r = c \o (t \o r)
  BY <1>4, <1>12, <1>17, JoinAssociative
<1>19. Content(s') \o FlattenSeq(rest) = SubSeq(Content(s'), 1, from) \o w
  BY <1>10, <1>11, <1>13, <1>15, <1>16, <1>17, <1>18
<1>20. Pending(name, s', from, rest)
  BY <1>15, <1>19, Zenon DEF Pending
<1>21. Pending(call'.name, s', call'.from, call'.pieces)
  BY <1>7, <1>20
<1>22. CallInv'
  BY <1>6, <1>7, <1>8, <1>21 DEF CallInv, Pending, Content, Printed
<1>23. QED
  BY <1>14, <1>22 DEF Seems

LEMMA ReturnSeen == ASSUME SdsInv, CallInv, Return PROVE Seems /\ CallInv'
<1>1. /\ call.name # "none" /\ call.pieces = <<>>
      /\ s' = IF call.name = "sdscatfmt" THEN Terminated(s, s.len) ELSE s
      /\ call' = NoCall
  BY DEF Return
<1>2. String(s) /\ s.len \in Nat /\ s.len < s.size /\ s.size \in Nat /\ s.len =< MaxLen
  BY DEF SdsInv, String
<1>3. call # NoCall
  BY <1>1 DEF NoCall
<1>4. PICK name, from : name = call.name /\ from = call.from
  OBVIOUS
<1>5. PICK w \in Seq(Byte) :
          /\ Printed(name, w)
          /\ Content(s) \o FlattenSeq(<<>>) = SubSeq(Content(s), 1, from) \o w
  BY <1>1, <1>3, <1>4 DEF CallInv, Pending
<1>6. PICK c : c = Content(s)
  OBVIOUS
<1>7. c \in Seq(Byte) /\ Len(c) = s.len
  BY <1>2, <1>6, ContentSeq
<1>8. c \o FlattenSeq(<<>>) = c
  <2>1. Len(<<>>) = 0
    OBVIOUS
  <2>2. FlattenSeq(<<>>) = <<>>
    BY <2>1, Zenon DEF FlattenSeq
  <2>3. c \o <<>> = c
    BY <1>7
  <2>4. QED
    BY <2>2, <2>3, Zenon
<1>9. Content(s') = c
  <2>1. CASE name = "sdscatfmt"
    <3>1. PICK y : y = Terminated(s, s.len)
      OBVIOUS
    <3>2. /\ y.len = s.len
          /\ \A i \in 0..(s.size - 1) : y.buf[i] = IF i = s.len THEN NUL ELSE s.buf[i]
      BY <1>2, <3>1, TerminatedString
    <3>3. \A i \in 0..(s.len - 1) : i \in 0..(s.size - 1) /\ i # s.len
      BY <1>2
    <3>4. \A i \in 0..(s.len - 1) : y.buf[i] = s.buf[i]
      BY <3>2, <3>3
    <3>5. Content(y) = Content(s)
      BY <1>2, <3>2, <3>4, ContentSame
    <3>6. s' = y
      BY <1>1, <1>4, <2>1, <3>1
    <3>7. QED
      BY <1>6, <3>5, <3>6
  <2>2. CASE name # "sdscatfmt"
    BY <1>1, <1>4, <1>6, <2>2
  <2>3. QED
    BY <2>1, <2>2
<1>10. Seen = SubSeq(c, 1, from) /\ Seen' = c
  BY <1>1, <1>3, <1>4, <1>6, <1>9, SeenNext DEF Seen
<1>11. Seen' = Seen \o w
  BY <1>5, <1>6, <1>8, <1>10
<1>12. Len(Seen \o w) =< MaxLen
  BY <1>2, <1>7, <1>10, <1>11
<1>13. Bytes!Next
  BY <1>5, <1>11, <1>12, ByPrint
<1>14. CallInv'
  BY <1>1 DEF CallInv
<1>15. QED
  BY <1>13, <1>14 DEF Seems

LEMMA StepSeen == ASSUME SdsInv, CallInv, [Next]_vars PROVE Seems /\ CallInv'
<1>1. CASE UNCHANGED vars
  <2>1. s' = s /\ call' = call
    BY <1>1 DEF vars
  <2>2. Seen' = Seen
    BY <2>1, SeenNext DEF Seen
  <2>3. CallInv'
    BY <2>1 DEF CallInv, Pending, Content, Printed
  <2>4. QED
    BY <2>2, <2>3 DEF Seems
<1>2. CASE Next
  BY <1>2, NewSeen, DupSeen, ClearSeen, ReserveSeen, ShrinkSeen, CatSeen, CopySeen,
     GrowZeroSeen, UpdateSeen, TrimSeen, SubstringSeen, BytesSeen, RightTrimSeen,
     ReadIntoSeen, FormatSeen, QuoteSeen, NextPieceSeen, ReturnSeen DEF Next
<1>3. QED
  BY <1>1, <1>2

LEMMA InitSeen == Init => CallInv /\ Bytes!Init
<1> SUFFICES ASSUME Init PROVE CallInv /\ Bytes!Init
  OBVIOUS
<1>1. PICK t \in Texts \union {<<>>} : s = sdsnewlen(t)
  BY DEF Init
<1>2. t \in Seq(Byte) /\ Len(t) =< MaxLen
  <2>1. CASE t \in Texts
    BY <2>1, TextsAssumption
  <2>2. CASE t = <<>>
    BY <2>2, LimitFacts
  <2>3. QED
    BY <2>1, <2>2
<1>3. call = NoCall
  BY DEF Init
<1>4. Seen = t
  BY <1>1, <1>2, <1>3, NewString DEF Seen
<1>5. Bytes!Init
  BY <1>4, Zenon DEF Bytes!Init, Seen
<1>6. CallInv
  BY <1>3 DEF CallInv
<1>7. QED
  BY <1>5, <1>6

-----------------------------------------------------------------------------
(* Theorems *)

\* Type and lengths of a string's header, the bytes behind it and the call under way
\* are what sds.h 51-74 declares them to be, and a call that is under way appends
\* behind the string it was given.
THEOREM SdsTypeCorrect == Spec => []TypeOK
<1>1. SdsInv => TypeOK
  BY DEF SdsInv, String, TypeOK
<1>2. QED
  BY <1>1, SdsInvHolds, PTL

\* The header tells the truth about the memory: no call writes behind the allocation,
\* no length or capacity is cut off by the width of its field (sdsnewlen,
\* sdsMakeRoomFor, sdsRemoveFreeSpace, sds.c 85-276), the bytes of the string are all
\* written, and it is terminated except while sdscatfmt appends.
THEOREM SaneCorrect == Spec => []Sane
<1>1. SdsInv => Sane
  <2> SUFFICES ASSUME SdsInv PROVE Sane
    OBVIOUS
  <2>1. String(s) /\ (call.name # "sdscatfmt" => Ended(s))
    BY DEF SdsInv
  <2>2. s.len =< sdsalloc(s) /\ sdsalloc(s) < s.size
    BY <2>1 DEF String, sdsalloc
  <2>3. QED
    BY <2>1, <2>2 DEF Sane, String, Ended
<1>2. QED
  BY <1>1, SdsInvHolds, PTL

\* What sdstrim and sdsrange leave of a string, for every character set and every pair
\* of places, inside or outside of it, is what their comments say (sds.c 694-765).
THEOREM CutsCorrect == Spec => []CutsAsDocumented
<1>1. SdsInv => CutsAsDocumented
  <2> SUFFICES ASSUME SdsInv, call = NoCall PROVE CutsAsDocumented
    BY DEF CutsAsDocumented
  <2>1. String(s) /\ Ended(s)
    BY DEF SdsInv, NoCall
  <2>2. \A set \in Sets : Content(sdstrim(s, set)) = Bytes!Trimmed(Content(s), set)
    <3> TAKE set \in Sets
    <3>1. PICK y : y = sdstrim(s, set)
      OBVIOUS
    <3>2. QED
      BY <2>1, <3>1, TrimString
  <2>3. \A start, end \in (-MaxLen - 1)..(MaxLen + 1) :
            Content(sdsrange(s, start, end)) = Bytes!Slice(Content(s), start, end)
    <3> TAKE start, end \in (-MaxLen - 1)..(MaxLen + 1)
    <3>1. start \in Int /\ end \in Int
      BY LimitFacts
    <3>2. PICK y : y = sdsrange(s, start, end)
      OBVIOUS
    <3>3. QED
      BY <2>1, <3>1, <3>2, RangeString
  <2>4. QED
    BY <2>2, <2>3, Zenon DEF CutsAsDocumented
<1>2. QED
  BY <1>1, SdsInvHolds, PTL

\* sdssplitlen and sdsjoin undo each other (sds.c 820-868, 1094-1115) on every string and
\* for every separator, also one that overlaps itself in the string.
THEOREM SplitCorrect == Spec => []SplitJoins
<1>1. SdsInv => SplitJoins
  <2> SUFFICES ASSUME SdsInv, NEW sep \in Sets \ {<<>>}
               PROVE  sdsjoin(sdssplitlen(Content(s), sep), sep) = Content(s)
    BY DEF SplitJoins
  <2>1. Content(s) \in Seq(Byte)
    BY ContentSeq DEF SdsInv
  <2>2. sep \in Seq(Byte) /\ sep # <<>>
    BY SetsAssumption
  <2>3. QED
    BY <2>1, <2>2, SplitText
<1>2. QED
  BY <1>1, SdsInvHolds, PTL

\* Whatever bytes a string has, sdssplitargs reads what sdscatrepr prints of it (sds.c
\* 886-1066) as one argument with these bytes: quotes, backslashes, control characters,
\* NUL and the bytes beyond ASCII are escaped so that the reader undoes them.
THEOREM ReprCorrect == Spec => []ReprReads
<1>1. SdsInv => ReprReads
  <2> SUFFICES ASSUME SdsInv PROVE ReprReads
    OBVIOUS
  <2>1. Content(s) \in Seq(Byte)
    BY ContentSeq DEF SdsInv
  <2>2. QED
    BY <2>1, ReprRead DEF ReprReads
<1>2. QED
  BY <1>1, SdsInvHolds, PTL

\* However it is moved between headers, grown and shrunk, a string is to its user the
\* sequence of bytes of ByteString: each call of sds.c (85-765) changes it as documented,
\* calls about room change nothing, and sdscatfmt and sdscatrepr append once, when they
\* return, all that their directives and escapes stand for.
THEOREM SdsImplementsBytes == Spec => ImplementsByteString
<1>1. SdsInv /\ CallInv /\ [Next]_vars => CallInv'
  BY StepSeen
<1>2. SdsInv /\ CallInv /\ [Next]_vars =>
          [Bytes!Next]_(IF call = NoCall THEN Content(s) ELSE SubSeq(Content(s), 1, call.from))
  BY StepSeen DEF Seems, Seen
<1>3. QED
  BY <1>1, <1>2, InitSeen, SdsInvHolds, PTL DEF Spec, ImplementsByteString, Bytes!Spec

=============================================================================
