---------------------------------- MODULE Sds ----------------------------------
(***************************************************************************)
(* The strings of the sds library (lib/sds) as they lie in memory: a       *)
(* header of one of five types, which bounds the lengths it can hold, and  *)
(* behind it the allocated bytes.  A pointer and what it points to are one *)
(* record: the header's type, len and alloc (which type 5 has not), the    *)
(* size of the allocation behind the header and its bytes buf[0], buf[1],  *)
(* ...  Bytes written behind the allocation become part of buf's domain;   *)
(* bytes never written are Junk.                                           *)
(*                                                                         *)
(* An allocation that fails makes the call return NULL before it has       *)
(* changed the string, except in sdscatfmt and sdscatrepr, which go on     *)
(* with NULL.  Such calls are left out.                                    *)
(***************************************************************************)
EXTENDS Integers, Sequences, SdsText

CONSTANTS
    Limit,      \* Limit[t]: the lengths a header of type t can hold are below it
    MaxPrealloc, \* SDS_MAX_PREALLOC
    Texts,      \* the byte sequences users pass
    Formats,    \* pairs of a format and its arguments for sdscatfmt
    Sets,       \* character sets users trim, and separators they split at
    Maps,       \* pairs of a sequence of bytes and their substitutes
    MaxLen      \* bound: the longest string

SDS_TYPE_5 == 0
SDS_TYPE_8 == 1
SDS_TYPE_16 == 2
SDS_TYPE_32 == 3
SDS_TYPE_64 == 4
Type == 0..4

Junk == 256

ASSUME LimitAssumption ==
    /\ Limit \in [Type -> Nat \ {0}]
    /\ \A t \in 0..3 : Limit[t] =< Limit[t + 1]
ASSUME MaxPreallocAssumption == MaxPrealloc \in Nat
ASSUME MaxLenAssumption == MaxLen \in Nat \ {0} /\ 8 * MaxLen + MaxPrealloc < Limit[4]
ASSUME TextsAssumption == \A t \in Texts : t \in Seq(Byte) /\ Len(t) =< MaxLen
ASSUME FormatsAssumption ==
    \A f \in Formats : /\ f[1] \in Seq(Byte)
                        /\ Len(f[1]) =< MaxLen
                        /\ Directives(f[1], f[2]) \in Seq(Seq(Byte))
ASSUME SetsAssumption == Sets \subseteq Seq(Byte)
ASSUME MapsAssumption ==
    \A m \in Maps : m[1] \in Seq(Byte) /\ m[2] \in Seq(Byte) /\ Len(m[1]) = Len(m[2])

VARIABLES
    s,    \* the string
    call  \* the call of sdscatfmt or sdscatrepr that is under way

vars == <<s, call>>

NoCall == [name |-> "none", pieces |-> <<>>, from |-> 0]

-----------------------------------------------------------------------------
(* sds.h: the header *)

sdslen(x) == x.len
sdsalloc(x) == IF x.type = SDS_TYPE_5 THEN x.len ELSE x.alloc
sdsavail(x) == IF x.type = SDS_TYPE_5 THEN 0 ELSE x.alloc - x.len

\* A length is stored in as many bits as the header has for it.
sdssetlen(x, n) == [x EXCEPT !.len = n % Limit[x.type]]
sdsinclen(x, n) == [x EXCEPT !.len = (x.len + n) % Limit[x.type]]
sdssetalloc(x, n) == IF x.type = SDS_TYPE_5 THEN x
                     ELSE [x EXCEPT !.alloc = n % Limit[x.type]]

sdsReqType(n) ==
    IF n < Limit[SDS_TYPE_5] THEN SDS_TYPE_5
    ELSE IF n < Limit[SDS_TYPE_8] THEN SDS_TYPE_8
    ELSE IF n < Limit[SDS_TYPE_16] THEN SDS_TYPE_16
    ELSE IF n < Limit[SDS_TYPE_32] THEN SDS_TYPE_32
    ELSE SDS_TYPE_64

-----------------------------------------------------------------------------
(* Memory *)

\* memcpy(x + at, t, Len(t))
Written(x, at, t) ==
    [x EXCEPT !.buf = [i \in (DOMAIN x.buf) \union (at..(at + Len(t) - 1)) |->
                          IF i \in at..(at + Len(t) - 1) THEN t[i - at + 1]
                          ELSE x.buf[i]]]

Terminated(x, at) == Written(x, at, <<NUL>>)

\* A new block of n bytes behind the header with the first `kept` bytes of x.
Moved(x, type, kept, n) ==
    [x EXCEPT !.type = type, !.size = n,
              !.buf = [i \in 0..(n - 1) |-> IF i < kept THEN x.buf[i] ELSE Junk]]

\* The bytes of the string.
Content(x) == [i \in 1..x.len |-> x.buf[i - 1]]

-----------------------------------------------------------------------------
(* sds.c: strings *)

sdsnewlen(t) ==
    LET n == Len(t)
        type == IF sdsReqType(n) = SDS_TYPE_5 /\ n = 0 THEN SDS_TYPE_8 ELSE sdsReqType(n)
    IN  [type |-> type, len |-> n % Limit[type],
         alloc |-> IF type = SDS_TYPE_5 THEN 0 ELSE n % Limit[type],
         size |-> n + 1, buf |-> [i \in 0..n |-> IF i < n THEN t[i + 1] ELSE NUL]]

sdsempty == sdsnewlen(<<>>)
sdsnew(t) == sdsnewlen(CString(t))
sdsdup(x) == sdsnewlen(Content(x))

sdsclear(x) == Terminated(sdssetlen(x, 0), 0)

\* Mutant: the header is chosen for the bytes asked for, not for those allocated.
sdsMakeRoomForTight(x, addlen) ==
    LET need == x.len + addlen
        newlen == IF need < MaxPrealloc THEN need * 2 ELSE need + MaxPrealloc
        type == IF sdsReqType(need) = SDS_TYPE_5 THEN SDS_TYPE_8 ELSE sdsReqType(need)
    IN  IF sdsavail(x) >= addlen THEN x
        ELSE IF type = x.type THEN sdssetalloc(Moved(x, type, x.size, newlen + 1), newlen)
        ELSE sdssetalloc(sdssetlen(Moved(x, type, x.len + 1, newlen + 1), x.len), newlen)

\* Room for addlen more bytes and a terminator, and as much again for later.
\* realloc keeps the old block's bytes, a change of header copies the string.
sdsMakeRoomFor(x, addlen) ==
    LET need == x.len + addlen
        newlen == IF need < MaxPrealloc THEN need * 2 ELSE need + MaxPrealloc
        type == IF sdsReqType(newlen) = SDS_TYPE_5 THEN SDS_TYPE_8 ELSE sdsReqType(newlen)
    IN  IF sdsavail(x) >= addlen THEN x
        ELSE IF type = x.type THEN sdssetalloc(Moved(x, type, x.size, newlen + 1), newlen)
        ELSE sdssetalloc(sdssetlen(Moved(x, type, x.len + 1, newlen + 1), x.len), newlen)

\* A header that would become larger than one of type 8 is kept as it is.
sdsRemoveFreeSpace(x) ==
    LET type == sdsReqType(x.len)
    IN  IF sdsavail(x) = 0 THEN x
        ELSE IF x.type = type \/ type > SDS_TYPE_8
        THEN sdssetalloc(Moved(x, x.type, x.len + 1, x.len + 1), x.len)
        ELSE sdssetalloc(sdssetlen(Moved(x, type, x.len + 1, x.len + 1), x.len), x.len)

\* The assertion of sdsIncrLen.
IncrAllowed(x, incr) ==
    IF x.type = SDS_TYPE_5
    THEN \/ incr > 0 /\ x.len + incr < Limit[SDS_TYPE_5]
         \/ incr < 0 /\ x.len >= -incr
    ELSE \/ incr >= 0 /\ x.alloc - x.len >= incr
         \/ incr < 0 /\ x.len >= -incr

sdsIncrLen(x, incr) == Terminated(sdsinclen(x, incr), (x.len + incr) % Limit[x.type])

sdsgrowzero(x, n) ==
    LET y == sdsMakeRoomFor(x, n - x.len)
    IN  IF n =< x.len THEN x
        ELSE sdssetlen(Written(y, x.len, [i \in 1..(n - x.len + 1) |-> NUL]), n)

sdscatlen(x, t) ==
    LET y == sdssetlen(Written(sdsMakeRoomFor(x, Len(t)), x.len, t), x.len + Len(t))
    IN  Terminated(y, x.len + Len(t))

sdscat(x, t) == sdscatlen(x, CString(t))

\* vsnprintf into a buffer that is doubled until the text fits; text is what the
\* format and the arguments print as.
sdscatvprintf(x, text) == sdscat(x, text)

sdscpylen(x, t) ==
    LET y == IF sdsalloc(x) < Len(t) THEN sdsMakeRoomFor(x, Len(t) - x.len) ELSE x
    IN  sdssetlen(Terminated(Written(y, 0, t), Len(t)), Len(t))

-----------------------------------------------------------------------------
(* sds.c: changes in place *)

\* strlen: the bytes before the first NUL of the buffer
sdsupdatelen(x) ==
    sdssetlen(x, CHOOSE n \in DOMAIN x.buf : /\ x.buf[n] = NUL
                                             /\ \A i \in 0..(n - 1) : x.buf[i] # NUL)

\* The bytes from `at` on, n of them, become the string.
Kept(x, at, n) == sdssetlen(Terminated(Written(x, 0, SubSeq(Content(x), at + 1, at + n)), n), n)

\* sp moves right while it is in the set, then ep left, but not below sp.
sdstrim(x, cset) ==
    LET In(i) == strchr(cset, x.buf[i])
        sp == CHOOSE i \in 0..x.len : /\ \A j \in 0..(i - 1) : In(j)
                                      /\ i = x.len \/ ~In(i)
        ep == CHOOSE i \in sp..(x.len - 1) : /\ \A j \in (i + 1)..(x.len - 1) : In(j)
                                             /\ i = sp \/ ~In(i)
    IN  Kept(x, sp, IF sp > x.len - 1 THEN 0 ELSE ep - sp + 1)

\* Mutant: a place before the start of the string is not moved to its start.
sdsrangeUnclamped(x, start, end) ==
    LET From(i) == IF i >= 0 THEN i ELSE IF x.len + i < 0 THEN -(x.len + i) ELSE x.len + i
        first == From(start)
        last == IF From(end) >= x.len THEN x.len - 1 ELSE From(end)
    IN  IF x.len = 0 THEN x
        ELSE IF first > From(end) \/ first >= x.len THEN Kept(x, 0, 0)
        ELSE Kept(x, first, last - first + 1)

sdsrange(x, start, end) ==
    LET From(i) == IF i >= 0 THEN i ELSE IF x.len + i < 0 THEN 0 ELSE x.len + i
        first == From(start)
        last == IF From(end) >= x.len THEN x.len - 1 ELSE From(end)
    IN  IF x.len = 0 THEN x
        ELSE IF first > From(end) \/ first >= x.len THEN Kept(x, 0, 0)
        ELSE Kept(x, first, last - first + 1)

\* Each byte of the string replaced by Op of it.
Each(x, Op(_)) ==
    [x EXCEPT !.buf = [i \in DOMAIN x.buf |-> IF i < x.len THEN Op(x.buf[i]) ELSE x.buf[i]]]

sdstolower(x) == Each(x, tolower)
\* Mutant: every character is taken for a letter.
sdstoupperAny(x) == Each(x, LAMBDA c : c - 32)

sdstoupper(x) == Each(x, toupper)

\* Mutant: the loop over `from` does not stop at the first match.
sdsmapcharsOn(x, from, to) ==
    Each(x, LAMBDA c : FoldLeft(LAMBDA d, i : IF d = from[i] THEN to[i] ELSE d,
                                c, [i \in 1..Len(from) |-> i]))

sdsmapchars(x, from, to) ==
    Each(x, LAMBDA c : IF \E i \in 1..Len(from) : c = from[i]
                       THEN to[CHOOSE i \in 1..Len(from) :
                                  c = from[i] /\ \A j \in 1..(i - 1) : c # from[j]]
                       ELSE c)

-----------------------------------------------------------------------------
(* sds.c: sdscatfmt *)

\* One round of its loop: room for one byte at least, then the bytes t of a
\* directive or of a plain character, not terminated.
Put(x, t) ==
    LET y == IF sdsavail(x) = 0 THEN sdsMakeRoomFor(x, 1) ELSE x
        z == IF sdsavail(y) < Len(t) THEN sdsMakeRoomFor(y, Len(t)) ELSE y
    IN  sdsinclen(Written(z, z.len, t), Len(t))

-----------------------------------------------------------------------------
(* Users *)

Fits(n) == n =< MaxLen

\* One call at a time.
Idle == call = NoCall /\ UNCHANGED call

New == Idle /\ \E t \in Texts : s' = sdsnewlen(t) \/ s' = sdsnew(t)
Dup == Idle /\ s' = sdsdup(s)
Clear == Idle /\ s' = sdsclear(s)
Reserve == Idle /\ \E n \in 0..MaxLen : Fits(s.len + n) /\ s' = sdsMakeRoomFor(s, n)
Shrink == Idle /\ s' = sdsRemoveFreeSpace(s)
Cat == Idle /\ \E t \in Texts : Fits(s.len + Len(t)) /\ (s' = sdscatlen(s, t) \/ s' = sdscat(s, t))
CatPrintf == Idle /\ \E t \in Texts : Fits(s.len + Len(t)) /\ s' = sdscatvprintf(s, t)
Copy == Idle /\ \E t \in Texts : s' = sdscpylen(s, t)
GrowZero == Idle /\ \E n \in 0..MaxLen : s' = sdsgrowzero(s, n)
Update == Idle /\ s' = sdsupdatelen(s)
Trim == Idle /\ \E set \in Sets : s' = sdstrim(s, set)
Substring == Idle /\ \E start, end \in (-MaxLen - 1)..(MaxLen + 1) : s' = sdsrange(s, start, end)
Upper == Idle /\ s' = sdstoupper(s)
Lower == Idle /\ s' = sdstolower(s)
MapChars == Idle /\ \E m \in Maps : s' = sdsmapchars(s, m[1], m[2])
RightTrim == Idle /\ \E n \in 1..s.len : IncrAllowed(s, -n) /\ s' = sdsIncrLen(s, -n)
\* The documented way to read into a string: make room, let the kernel write
\* some bytes behind the string, and count them in.
ReadInto == \E t \in Texts : \E n \in Len(t)..MaxLen :
    LET x == Written(sdsMakeRoomFor(s, n), s.len, t)
    IN  /\ Idle
        /\ Len(t) > 0
        /\ Fits(s.len + n)
        /\ IncrAllowed(x, Len(t))
        /\ s' = sdsIncrLen(x, Len(t))

\* sdscatfmt appends the directives of its format one by one, sdscatrepr the
\* pieces of its text.
Format == \E f \in Formats :
    LET pieces == Directives(f[1], f[2])
    IN  /\ call = NoCall
        /\ Fits(s.len + Len(FlattenSeq(pieces)))
        /\ s' = sdsMakeRoomFor(s, s.len + 2 * Len(f[1]))
        /\ call' = [name |-> "sdscatfmt", pieces |-> pieces, from |-> s.len]

Quote == \E t \in Texts :
    /\ call = NoCall
    /\ Fits(s.len + Len(FlattenSeq(sdscatrepr(t))))
    /\ call' = [name |-> "sdscatrepr", pieces |-> sdscatrepr(t), from |-> s.len]
    /\ UNCHANGED s

NextPiece ==
    /\ call.pieces # <<>>
    /\ Fits(s.len + Len(Head(call.pieces)))
    /\ s' = IF call.name = "sdscatfmt" THEN Put(s, Head(call.pieces))
            ELSE sdscatlen(s, Head(call.pieces))
    /\ call' = [call EXCEPT !.pieces = Tail(@)]

Return ==
    /\ call.name # "none"
    /\ call.pieces = <<>>
    /\ s' = IF call.name = "sdscatfmt" THEN Terminated(s, s.len) ELSE s
    /\ call' = NoCall

Init ==
    /\ \E t \in Texts \union {<<>>} : s = sdsnewlen(t)
    /\ call = NoCall

Next ==
    \/ New \/ Dup \/ Clear \/ Reserve \/ Shrink \/ Cat \/ CatPrintf \/ Copy
    \/ GrowZero \/ Update \/ Trim \/ Substring \/ Upper \/ Lower \/ MapChars
    \/ RightTrim \/ ReadInto \/ Format \/ Quote \/ NextPiece \/ Return

Spec == Init /\ [][Next]_vars

-----------------------------------------------------------------------------
(* Properties *)

TypeOK ==
    /\ s.type \in Type
    /\ s.len \in Nat /\ s.alloc \in Nat /\ s.size \in Nat
    /\ \A i \in DOMAIN s.buf : s.buf[i] \in Byte \union {Junk}
    /\ call \in [name : {"none", "sdscatfmt", "sdscatrepr"}, pieces : Seq(Seq(Byte)), from : Nat]
    /\ call.from =< s.len

\* The header tells the truth about the memory: the string and its terminator lie
\* inside the allocation, no call has written behind it, a length or a capacity
\* has never been cut off by the width of the header's fields (sds.h 51-74), all
\* bytes of the string have been written, and unless sdscatfmt is at work the
\* string is terminated.
Sane ==
    /\ DOMAIN s.buf = 0..(s.size - 1)
    /\ s.len =< sdsalloc(s)
    /\ sdsalloc(s) < s.size
    /\ s.type # SDS_TYPE_5 => s.size = s.alloc + 1
    /\ \A i \in 0..(s.len - 1) : s.buf[i] \in Byte
    /\ call.name # "sdscatfmt" => s.buf[s.len] = NUL

\* However the string is moved between headers, grown and shrunk, its user sees
\* only what module ByteString says: a call of sdscatfmt or sdscatrepr appends
\* when it returns, and calls about room change nothing.
Bytes == INSTANCE ByteString WITH
    str <- IF call = NoCall THEN Content(s) ELSE SubSeq(Content(s), 1, call.from)

ImplementsByteString == Bytes!Spec

\* sdstrim and sdsrange cut what their documentation says, for every set and every
\* pair of places, in the string or outside of it, from its start or its end
\* (sds.c 694-765).
CutsAsDocumented ==
    call = NoCall =>
        /\ \A set \in Sets : Content(sdstrim(s, set)) = Bytes!Trimmed(Content(s), set)
        /\ \A start, end \in (-MaxLen - 1)..(MaxLen + 1) :
               Content(sdsrange(s, start, end)) = Bytes!Slice(Content(s), start, end)

\* sdssplitlen and sdsjoin undo each other, whatever separators overlap in the
\* string (sds.c 820-868, 1094-1115).
SplitJoins ==
    \A sep \in Sets \ {<<>>} :
        sdsjoin(sdssplitlen(Content(s), sep), sep) = Content(s)

\* What sdscatrepr quotes, sdssplitargs reads as one argument with the same bytes,
\* as the comment at sds.c 951-952 says.
ReprReads ==
    sdssplitargs(FlattenSeq(sdscatrepr(Content(s)))) = [ok |-> TRUE, vector |-> <<Content(s)>>]

=============================================================================
