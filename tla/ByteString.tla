------------------------------- MODULE ByteString -------------------------------
(***************************************************************************)
(* What a string of the sds library promises its user: a sequence of bytes *)
(* that each call changes as documented, and nothing about memory.         *)
(***************************************************************************)
EXTENDS Integers, Sequences, SdsText

CONSTANTS
    Texts,   \* the byte sequences users pass
    Formats, \* pairs of a format and its arguments for sdscatfmt
    Sets,    \* character sets users trim
    Maps,    \* pairs of a sequence of bytes and their substitutes
    MaxLen   \* bound: the longest string

VARIABLE str

Least(a, b) == IF a < b THEN a ELSE b

\* The bytes of t that are not in the set, up to the ends, which may be.
Trimmed(t, set) ==
    LET kept == {i \in 1..Len(t) : ~strchr(set, t[i])}
    IN  IF kept = {} THEN <<>>
        ELSE SubSeq(t, CHOOSE i \in kept : \A j \in kept : i =< j,
                       CHOOSE i \in kept : \A j \in kept : j =< i)

\* A place in a string of n bytes, a negative one counted from the end.
Place(n, i) == IF i >= 0 THEN i ELSE IF n + i < 0 THEN 0 ELSE n + i

Slice(t, start, end) ==
    SubSeq(t, Place(Len(t), start) + 1, Least(Place(Len(t), end), Len(t) - 1) + 1)

\* A byte's substitute: the one of its first occurrence in from, if any.
Mapped(c, from, to) ==
    IF \E i \in 1..Len(from) : from[i] = c
    THEN to[CHOOSE i \in 1..Len(from) : from[i] = c /\ \A j \in 1..(i - 1) : from[j] # c]
    ELSE c

-----------------------------------------------------------------------------
Fits(t) == Len(t) =< MaxLen

\* Some calls take all bytes of a text, others those before its first NUL.
New == \E t \in Texts : str' \in {t, CString(t)}
Cat == \E t \in Texts : \E u \in {t, CString(t)} : Fits(str \o u) /\ str' = str \o u
Cut == \E n \in 1..Len(str) : str' = SubSeq(str, 1, Len(str) - n)
Grow == \E n \in Len(str)..MaxLen :
            str' = str \o [i \in 1..(n - Len(str)) |-> NUL]
Format == \E f \in Formats :
            LET printed == FlattenSeq(Directives(f[1], f[2]))
            IN  Fits(str \o printed) /\ str' = str \o printed
Quote == \E t \in Texts :
            /\ Fits(str \o FlattenSeq(sdscatrepr(t)))
            /\ str' = str \o FlattenSeq(sdscatrepr(t))
Trim == \E set \in Sets : str' = Trimmed(str, set)
Substring == \E start, end \in (-MaxLen - 1)..(MaxLen + 1) : str' = Slice(str, start, end)
Terminate == str' = CString(str)
Upper == str' = [i \in 1..Len(str) |-> toupper(str[i])]
Lower == str' = [i \in 1..Len(str) |-> tolower(str[i])]
Replace == \E m \in Maps : str' = [i \in 1..Len(str) |-> Mapped(str[i], m[1], m[2])]

Init == str \in Texts \union {<<>>}

Next == \/ New \/ Cat \/ Cut \/ Grow \/ Format \/ Quote \/ Trim \/ Substring
        \/ Terminate \/ Upper \/ Lower \/ Replace

Spec == Init /\ [][Next]_str

=============================================================================
