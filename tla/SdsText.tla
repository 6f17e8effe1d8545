-------------------------------- MODULE SdsText --------------------------------
(***************************************************************************)
(* What the functions of the sds library (lib/sds/sds.c) that cut, join,   *)
(* quote and print strings compute, over the bytes of strings.  How a      *)
(* string is kept in memory is the subject of module Sds.  A byte is its   *)
(* code.                                                                   *)
(***************************************************************************)
EXTENDS Integers, Sequences, SequencesExt

Byte == 0..255

NUL == 0
PCT == 37  \* '%'
DQ == 34   \* the double quote
SQ == 39   \* the single quote
BSL == 92  \* the backslash

\* The C locale's isspace, isprint, tolower and toupper.
isspace(c) == c = 32 \/ c \in 9..13
isprint(c) == c \in 32..126
tolower(c) == IF c \in 65..90 THEN c + 32 ELSE c
toupper(c) == IF c \in 97..122 THEN c - 32 ELSE c

\* A C string: what strlen and %s see of the bytes that start somewhere.
CString(t) ==
    IF \E i \in 1..Len(t) : t[i] = NUL
    THEN SubSeq(t, 1, (CHOOSE i \in 1..Len(t) :
                          t[i] = NUL /\ \A j \in 1..(i - 1) : t[j] # NUL) - 1)
    ELSE t

\* strchr(set, c) # NULL: the terminator of the set is found too.
strchr(set, c) == c = NUL \/ \E i \in 1..Len(set) : set[i] = c

-----------------------------------------------------------------------------
(* Numbers *)

\* The digits of v, written from the last and then reversed.
sdsull2str(v) ==
    LET digits[n \in Nat] == IF n < 10 THEN <<48 + n>>
                             ELSE Append(digits[n \div 10], 48 + (n % 10))
    IN  digits[v]

\* The magnitude is taken as an unsigned number: the least long long has none as
\* a signed one.
sdsll2str(v) == IF v < 0 THEN <<45>> \o sdsull2str(-v) ELSE sdsull2str(v)

is_hex_digit(c) == c \in 48..57 \/ c \in 97..102 \/ c \in 65..70

hex_digit_to_int(c) ==
    IF c \in 48..57 THEN c - 48 ELSE tolower(c) - 87

-----------------------------------------------------------------------------
(* Formats *)

\* What the loop of sdscatfmt appends, round by round: %s and %S a string, %i %I
\* %u %U a number, '%' and another character that character.
Directives(fmt, args) ==
    LET from[f \in Nat, n \in Nat] ==
            IF f > Len(fmt) THEN <<>>
            ELSE IF fmt[f] # PCT THEN <<<<fmt[f]>>>> \o from[f + 1, n]
            ELSE CASE fmt[f + 1] \in {115, 83} -> <<args[n]>> \o from[f + 2, n + 1]
                   [] fmt[f + 1] \in {105, 73} -> <<sdsll2str(args[n])>> \o from[f + 2, n + 1]
                   [] fmt[f + 1] \in {117, 85} -> <<sdsull2str(args[n])>> \o from[f + 2, n + 1]
                   [] OTHER -> <<<<fmt[f + 1]>>>> \o from[f + 2, n]
    IN  from[1, 1]

-----------------------------------------------------------------------------
(* Splitting and joining *)

\* Mutant: the next token starts behind the separator's first byte.
SplitRoundFirst(s, sep, r) ==
    IF r.j >= Len(s) - (Len(sep) - 1) THEN r
    ELSE IF SubSeq(s, r.j + 1, r.j + Len(sep)) # sep THEN [r EXCEPT !.j = @ + 1]
    ELSE [j |-> r.j + Len(sep), start |-> r.j + 1,
          tokens |-> Append(r.tokens, SubSeq(s, r.start + 1, r.j))]

\* A round of the loop of sdssplitlen: at a separator the token before it ends, and the
\* next one starts behind it.  j and start count from 0.
SplitRound(s, sep, r) ==
    IF r.j >= Len(s) - (Len(sep) - 1) THEN r
    ELSE IF SubSeq(s, r.j + 1, r.j + Len(sep)) # sep THEN [r EXCEPT !.j = @ + 1]
    ELSE [j |-> r.j + Len(sep), start |-> r.j + Len(sep),
          tokens |-> Append(r.tokens, SubSeq(s, r.start + 1, r.j))]

\* The tokens between the separators, none of the empty string.
sdssplitlen(s, sep) ==
    LET round[k \in 0..Len(s)] ==
            IF k = 0 THEN [j |-> 0, start |-> 0, tokens |-> <<>>]
            ELSE SplitRound(s, sep, round[k - 1])
        last == round[Len(s)]
    IN  IF s = <<>> THEN <<>>
        ELSE Append(last.tokens, SubSeq(s, last.start + 1, Len(s)))

\* sdsjoinsds; sdsjoin is the same on C strings.
sdsjoin(tokens, sep) ==
    LET join[j \in 0..Len(tokens)] ==
            IF j = 0 THEN <<>>
            ELSE join[j - 1] \o tokens[j] \o (IF j # Len(tokens) THEN sep ELSE <<>>)
    IN  join[Len(tokens)]

-----------------------------------------------------------------------------
(* Quoting *)

\* Escapes written as a backslash and a letter.
Letter == [c \in {7, 8, 9, 10, 13} |->
              CASE c = 7 -> 97 [] c = 8 -> 98 [] c = 9 -> 116 [] c = 10 -> 110 [] c = 13 -> 114]

HexDigit(n) == IF n < 10 THEN 48 + n ELSE 87 + n

\* Mutant: the backslash is not escaped.
EscapedQuote(c) ==
    IF c = DQ THEN <<BSL, c>>
    ELSE IF c \in DOMAIN Letter THEN <<BSL, Letter[c]>>
    ELSE IF isprint(c) THEN <<c>>
    ELSE <<BSL, 120, HexDigit(c \div 16), HexDigit(c % 16)>>

\* What sdscatrepr appends for one byte.
Escaped(c) ==
    IF c \in {BSL, DQ} THEN <<BSL, c>>
    ELSE IF c \in DOMAIN Letter THEN <<BSL, Letter[c]>>
    ELSE IF isprint(c) THEN <<c>>
    ELSE <<BSL, 120, HexDigit(c \div 16), HexDigit(c % 16)>>

\* The pieces sdscatrepr appends, one call of sdscatlen each.
sdscatrepr(p) ==
    <<<<DQ>>>> \o [i \in 1..Len(p) |-> Escaped(p[i])] \o <<<<DQ>>>>

\* The byte an escape of a backslash and c stands for.
Unescaped(c) ==
    IF \E d \in DOMAIN Letter : Letter[d] = c THEN CHOOSE d \in DOMAIN Letter : Letter[d] = c
    ELSE c

\* The byte at place p of a line, whose terminator stands behind it.
ByteAt(line, p) == IF p \in 1..Len(line) THEN line[p] ELSE NUL

\* A round of the loops of sdssplitargs at position p of the line (p > Len(line): the
\* terminator), with the tokens so far, the current one and the mode: "skip" outside a
\* token, "bare" inside one, "inq" and "insq" inside quotes; "ok" and "err" are its ends.
ArgsRound(line, r) ==
    LET c == ByteAt(line, r.p)
        next == ByteAt(line, r.p + 1)
        high == ByteAt(line, r.p + 2)
        low == ByteAt(line, r.p + 3)
        Hex == c = BSL /\ next = 120 /\ is_hex_digit(high) /\ is_hex_digit(low)
        Go(mode, n) == [r EXCEPT !.mode = mode, !.p = @ + n]
        Add(b, n) == [r EXCEPT !.cur = Append(@, b), !.p = @ + n]
        Done == [p |-> IF c = NUL THEN r.p ELSE r.p + 1, mode |-> "skip",
                 vector |-> Append(r.vector, r.cur), cur |-> <<>>]
        Close == IF next = NUL \/ isspace(next) THEN Done ELSE Go("err", 0)
    IN  CASE r.mode = "skip" ->
               IF c = NUL THEN Go("ok", 0)
               ELSE IF isspace(c) THEN Go("skip", 1)
               ELSE Go("bare", 0)
          [] r.mode = "bare" ->
               IF c \in {32, 10, 13, 9, NUL} THEN Done
               ELSE IF c = DQ THEN Go("inq", 1)
               ELSE IF c = SQ THEN Go("insq", 1)
               ELSE Add(c, 1)
          [] r.mode = "inq" ->
               IF Hex THEN Add(hex_digit_to_int(high) * 16 + hex_digit_to_int(low), 4)
               ELSE IF c = BSL /\ next # NUL THEN Add(Unescaped(next), 2)
               ELSE IF c = DQ THEN Close
               ELSE IF c = NUL THEN Go("err", 0)
               ELSE Add(c, 1)
          [] r.mode = "insq" ->
               IF c = BSL /\ next = SQ THEN Add(SQ, 2)
               ELSE IF c = SQ THEN Close
               ELSE IF c = NUL THEN Go("err", 0)
               ELSE Add(c, 1)
          [] OTHER -> r

\* A round moves on, but where a token begins and at the end; "err" is the NULL result.
sdssplitargs(line) ==
    LET round[k \in 0..(2 * Len(line) + 3)] ==
            IF k = 0 THEN [p |-> 1, mode |-> "skip", vector |-> <<>>, cur |-> <<>>]
            ELSE ArgsRound(line, round[k - 1])
        last == round[2 * Len(line) + 3]
    IN  IF last.mode = "ok" THEN [ok |-> TRUE, vector |-> last.vector]
        ELSE [ok |-> FALSE, vector |-> <<>>]

=============================================================================
