-------------------------- MODULE ReceiveBufferProofs --------------------------
(***************************************************************************)
(* ReceiveBuffer for any buffer size, lines, texts and bound: the types,   *)
(* StreamIntact, DisconnectJustified, and the refinement of Framing.       *)
(***************************************************************************)
EXTENDS ReceiveBuffer, SequenceLemmas, SequenceTheorems, WellFoundedInduction, TLAPS

\* The bytes that were not read are NUL or left of a text: no line ends there.
QuietTail == \A i \in pos + 1..Size : buf[i] # "LF"

BufferTypes ==
    /\ stream \in Seq(Char)
    /\ wire \in Seq(Char)
    /\ taken \in Seq(Byte)
    /\ buf \in Seq(Byte)
    /\ Len(buf) = Size
    /\ pos \in 0..Size
    /\ spoiled \in BOOLEAN

BufferInv == BufferTypes /\ QuietTail /\ StreamIntact

-----------------------------------------------------------------------------
(* Sequences *)

LEMMA MinMember ==
    ASSUME NEW S, S \subseteq Nat, S # {}
    PROVE  Min(S) \in S /\ \A y \in S : Min(S) =< y
<1>1. PICK x \in S : \A y \in S : ~ (<<y, x>> \in OpToRel(<, Nat))
  BY NatLessThanWellFounded, WFMin, Zenon
<1>2. \A y \in S : x =< y
  <2> TAKE y \in S
  <2>1. ~ (y < x)
    BY <1>1 DEF OpToRel
  <2>2. QED
    BY <2>1
<1>3. QED
  BY <1>2 DEF Min

\* A line that is found ends with an LF of the searched bytes.
LEMMA LineFound ==
    ASSUME NEW s \in Seq(Byte), FirstLine(s) # <<>>
    PROVE  \E n \in 2..Len(s) : /\ FirstLine(s) = SubSeq(s, 1, n)
                                /\ s[n - 1] = "CR" /\ s[n] = "LF"
                                /\ \A j \in 1..n : s[j] # "NUL"
<1> DEFINE ends == {i \in 2..Len(s) : /\ s[i - 1] = "CR" /\ s[i] = "LF"
                                      /\ \A j \in 1..i : s[j] # "NUL"}
<1>1. ends # {} /\ FirstLine(s) = SubSeq(s, 1, Min(ends))
  BY DEF FirstLine
<1>2. ends \subseteq Nat
  OBVIOUS
<1> HIDE DEF ends
<1>3. Min(ends) \in ends
  BY <1>1, <1>2, MinMember
<1>4. QED
  BY <1>1, <1>3 DEF ends

LEMMA ZeroByte == "NUL" \in Byte
  BY DEF Byte, Char

LEMMA FillType ==
    ASSUME NEW b \in Byte, NEW n \in Nat
    PROVE  Fill(b, n) \in Seq(Byte) /\ Len(Fill(b, n)) = n /\ \A i \in 1..n : Fill(b, n)[i] = b
  BY DEF Fill

LEMMA Associative ==
    \A a, b, c \in Seq(Byte) : (a \o b) \o c = a \o (b \o c)
  BY ConcatAssociative

-----------------------------------------------------------------------------
(* Reading *)

LEMMA ReadStep ==
    ASSUME BufferInv, NEW n \in 1..Size, Read(n)
    PROVE  BufferInv'
<1> USE SizeAssumption
<1> DEFINE m == pos + n
<1>0. /\ BufferTypes /\ QuietTail /\ StreamIntact
      /\ n \in Nat /\ n =< Len(wire) /\ pos + n =< Size /\ wire \in Seq(Byte)
      /\ Len(wire) \in Nat
  <2>1. wire \in Seq(Char) /\ Len(wire) \in Nat /\ pos \in 0..Size
    BY DEF BufferInv, BufferTypes
  <2>2. wire \in Seq(Byte)
    BY <2>1, SeqMonotonic DEF Byte
  <2> DEFINE T == {Len(wire), Size - pos}
  <2>3. Min(T) \in T /\ n =< Min(T) /\ \A y \in T : Min(T) =< y
    <3>1. \E x \in T : \A y \in T : x =< y
      BY <2>1
    <3>2. Min(T) \in T /\ \A y \in T : Min(T) =< y
      BY <3>1 DEF Min
    <3>3. n =< Min(T)
      BY DEF Read
    <3>4. QED
      BY <3>2, <3>3
  <2>4. QED
    BY <2>1, <2>2, <2>3 DEF BufferInv
<1>1. /\ buf' = [i \in 1..Size |-> IF i \in pos + 1..pos + n THEN wire[i - pos] ELSE buf[i]]
      /\ pos' = pos + n /\ wire' = SubSeq(wire, n + 1, Len(wire))
      /\ taken' = taken /\ stream' = stream /\ spoiled' = spoiled
  BY DEF Read
<1>2. /\ buf' \in Seq(Byte) /\ Len(buf') = Size
      /\ \A i \in 1..Size : buf'[i] = IF i \in pos + 1..pos + n THEN wire[i - pos] ELSE buf[i]
  <2>1. \A i \in 1..Size : (IF i \in pos + 1..pos + n THEN wire[i - pos] ELSE buf[i]) \in Byte
    <3> TAKE i \in 1..Size
    <3>1. CASE i \in pos + 1..pos + n
      <4>1. i - pos \in 1..Len(wire)
        BY <1>0, <3>1 DEF BufferTypes
      <4>2. QED
        BY <1>0, <3>1, <4>1, ElementOfSeq
    <3>2. CASE i \notin pos + 1..pos + n
      BY <1>0, <3>2, ElementOfSeq DEF BufferTypes
    <3>3. QED
      BY <3>1, <3>2
  <2>2. QED
    BY <1>1, <2>1
<1>3. BufferTypes'
  <2>1. wire' \in Seq(Char)
    BY <1>0, <1>1 DEF BufferTypes
  <2>2. pos' \in 0..Size
    BY <1>0, <1>1 DEF BufferTypes
  <2>3. QED
    BY <1>0, <1>1, <1>2, <2>1, <2>2 DEF BufferTypes
<1>4. QuietTail'
  BY <1>0, <1>1, <1>2 DEF QuietTail, BufferTypes
<1>5. StreamIntact'
  <2>1. wire = SubSeq(wire, 1, n) \o SubSeq(wire, n + 1, Len(wire))
    <3>1. SubSeq(wire, 1, n) \o SubSeq(wire, n + 1, Len(wire)) = SubSeq(wire, 1, Len(wire))
      BY <1>0, ConcatAdjacentSubSeq
    <3>2. QED
      BY <1>0, <3>1, SubSeqFull
  <2>2. Received' = Received \o SubSeq(wire, 1, n)
    <3>1. /\ Received \in Seq(Byte) /\ Len(Received) = pos
          /\ \A i \in 1..pos : Received[i] = buf[i]
      BY <1>0, ElementOfSeq, SubSeqProperties DEF BufferTypes, Received
    <3>2. /\ SubSeq(wire, 1, n) \in Seq(Byte) /\ Len(SubSeq(wire, 1, n)) = n
          /\ \A i \in 1..n : SubSeq(wire, 1, n)[i] = wire[i]
      BY <1>0, ElementOfSeq, SubSeqProperties
    <3>3. /\ Received' \in Seq(Byte) /\ Len(Received') = pos + n
          /\ \A i \in 1..(pos + n) : Received'[i] = buf'[i]
      <4>1. Received' = SubSeq(buf', 1, pos + n)
        BY <1>1 DEF Received
      <4>2. \A i \in 1..(pos + n) : buf'[i] \in Byte
        BY <1>0, <1>2, ElementOfSeq DEF BufferTypes
      <4>3. 1 \in Int /\ pos + n \in Int /\ 1 =< pos + n
        BY <1>0 DEF BufferTypes
      <4>4. QED
        BY <4>1, <4>2, <4>3, SubSeqProperties
    <3> DEFINE both == Received \o SubSeq(wire, 1, n)
    <3>4. /\ both \in Seq(Byte) /\ Len(both) = pos + n
          /\ \A i \in 1..(pos + n) : both[i] = IF i =< pos THEN buf[i] ELSE wire[i - pos]
      <4>1. /\ both \in Seq(Byte) /\ Len(both) = pos + n
            /\ \A i \in 1..(pos + n) : both[i] = IF i =< pos THEN Received[i]
                                                 ELSE SubSeq(wire, 1, n)[i - pos]
        <5>1. /\ both \in Seq(Byte) /\ Len(both) = Len(Received) + Len(SubSeq(wire, 1, n))
              /\ \A i \in 1..Len(Received) + Len(SubSeq(wire, 1, n)) :
                    both[i] = IF i <= Len(Received) THEN Received[i]
                              ELSE SubSeq(wire, 1, n)[i - Len(Received)]
          BY <3>1, <3>2, ConcatProperties, Zenon
        <5>2. QED
          BY <3>1, <3>2, <5>1, Zenon
      <4>2. QED
        BY <1>0, <3>1, <3>2, <4>1, SMTT(30) DEF BufferTypes
    <3> HIDE DEF both
    <3>5. \A i \in 1..(pos + n) : both[i] = Received'[i]
      <4> TAKE i \in 1..(pos + n)
      <4>1. i \in 1..Size /\ (i \in pos + 1..pos + n <=> ~(i =< pos))
        BY <1>0 DEF BufferTypes
      <4>2. both[i] = IF i =< pos THEN buf[i] ELSE wire[i - pos]
        BY <3>4
      <4>3. buf'[i] = IF i \in pos + 1..pos + n THEN wire[i - pos] ELSE buf[i]
        BY <1>2, <4>1
      <4>4. Received'[i] = buf'[i]
        BY <3>3
      <4>5. QED
        BY <4>1, <4>2, <4>3, <4>4, Zenon
    <3>6. both = Received'
      BY <3>3, <3>4, <3>5, SeqEqual
    <3>7. QED
      BY <3>6 DEF both
  <2>3. /\ taken \in Seq(Byte) /\ Received \in Seq(Byte) /\ SubSeq(wire, 1, n) \in Seq(Byte)
        /\ SubSeq(wire, n + 1, Len(wire)) \in Seq(Byte)
    BY <1>0, ElementOfSeq, SubSeqProperties DEF BufferTypes, Received
  <2>4. taken \o (Received \o SubSeq(wire, 1, n)) \o SubSeq(wire, n + 1, Len(wire))
          = (taken \o Received) \o (SubSeq(wire, 1, n) \o SubSeq(wire, n + 1, Len(wire)))
    <3>1. (taken \o Received) \in Seq(Byte)
      BY <2>3, ConcatProperties
    <3>2. ((taken \o Received) \o SubSeq(wire, 1, n)) \o SubSeq(wire, n + 1, Len(wire))
            = (taken \o Received) \o (SubSeq(wire, 1, n) \o SubSeq(wire, n + 1, Len(wire)))
      BY <2>3, <3>1, Associative, Zenon
    <3>3. (taken \o Received) \o SubSeq(wire, 1, n) = taken \o (Received \o SubSeq(wire, 1, n))
      BY <2>3, Associative, Zenon
    <3>4. QED
      BY <3>2, <3>3, Zenon
  <2>5. QED
    BY <1>0, <1>1, <2>1, <2>2, <2>4 DEF StreamIntact
<1>6. QED
  BY <1>3, <1>4, <1>5 DEF BufferInv

-----------------------------------------------------------------------------
(* Cutting a line *)

\* The line cut off ends within the bytes that were read.
LEMMA LineTaken ==
    ASSUME BufferInv, NEW line, TakeLine(line)
    PROVE  \E n \in 2..pos : /\ line = SubSeq(buf, 1, n) /\ Len(line) = n
                             /\ pos' = pos - n /\ taken' = taken \o SubSeq(buf, 1, n)
                             /\ stream' = stream /\ wire' = wire
<1>1. BufferTypes /\ QuietTail /\ buf \in Seq(Byte) /\ Len(buf) = Size /\ pos \in 0..Size
  BY DEF BufferInv, BufferTypes
<1>2. PICK n \in 2..Size : line = SubSeq(buf, 1, n) /\ buf[n] = "LF"
  BY <1>1, LineFound DEF TakeLine
<1>3. n =< pos
  BY <1>1, <1>2, SizeAssumption DEF QuietTail
<1>4. Len(line) = n
  <2>1. \A i \in 1..n : buf[i] \in Byte
    BY <1>1, <1>2, ElementOfSeq, SizeAssumption
  <2>2. 1 \in Int /\ n \in Int /\ 1 =< n
    BY <1>2
  <2>3. QED
    BY <1>2, <2>1, <2>2, SubSeqProperties
<1>5. QED
  <2>1. /\ pos' = pos - Len(line) /\ taken' = taken \o line
        /\ stream' = stream /\ wire' = wire
    BY DEF TakeLine
  <2>2. n \in 2..pos
    BY <1>1, <1>2, <1>3
  <2>3. QED
    BY <1>2, <1>4, <2>1, <2>2, Zenon

\* What was behind the line is at the front afterwards, and nothing else is read.
LEMMA ShiftedBuf ==
    ASSUME BufferInv, NEW line, NEW n \in 2..pos, Len(line) = n
    PROVE  /\ Shifted(line) \in Seq(Byte) /\ Len(Shifted(line)) = Size
           /\ \A i \in (pos - n) + 1..Size : Shifted(line)[i] # "LF"
           /\ SubSeq(Shifted(line), 1, pos - n) = SubSeq(buf, n + 1, pos)
<1>1. /\ buf \in Seq(Byte) /\ Len(buf) = Size /\ pos \in 0..Size /\ Size \in Nat
      /\ QuietTail
  BY SizeAssumption DEF BufferInv, BufferTypes
<1> DEFINE rest == SubSeq(buf, n + 1, Size)
           zero == Fill("NUL", n)
           new == Shifted(line)
<1>2. /\ rest \in Seq(Byte) /\ Len(rest) = Size - n
      /\ \A i \in 1..Size - n : rest[i] = buf[n + i]
  <2>1. \A i \in n + 1..Size : buf[i] \in Byte
    BY <1>1, ElementOfSeq
  <2>2. n + 1 \in Int /\ Size \in Int
    BY <1>1
  <2>3. /\ rest \in Seq(Byte) /\ Len(rest) = IF n + 1 =< Size THEN Size - (n + 1) + 1 ELSE 0
        /\ \A i \in 1..Size - (n + 1) + 1 : rest[i] = buf[(n + 1) + i - 1]
    BY <2>1, <2>2, SubSeqProperties
  <2>4. QED
    BY <1>1, <2>3
<1>3. zero \in Seq(Byte) /\ Len(zero) = n /\ \A i \in 1..n : zero[i] = "NUL"
  BY ZeroByte, FillType
<1>4. new = rest \o zero
  BY <1>1 DEF Shifted
<1> HIDE DEF rest, zero, new
<1>5. /\ new \in Seq(Byte) /\ Len(new) = Size
      /\ \A i \in 1..Size : new[i] = IF i =< Size - n THEN rest[i] ELSE zero[i - (Size - n)]
  <2>1. /\ new \in Seq(Byte) /\ Len(new) = Len(rest) + Len(zero)
        /\ \A i \in 1..Len(rest) + Len(zero) :
              new[i] = IF i <= Len(rest) THEN rest[i] ELSE zero[i - Len(rest)]
    BY <1>2, <1>3, <1>4, ConcatProperties, Zenon
  <2>2. Len(rest) + Len(zero) = Size
    BY <1>1, <1>2, <1>3
  <2>3. QED
    BY <1>2, <2>1, <2>2, Zenon
<1>6. \A i \in 1..Size : new[i] = IF i =< Size - n THEN buf[n + i] ELSE "NUL"
  <2> TAKE i \in 1..Size
  <2>1. CASE i =< Size - n
    BY <1>1, <1>2, <1>5, <2>1
  <2>2. CASE ~ (i =< Size - n)
    <3>1. i - (Size - n) \in 1..n
      BY <1>1, <2>2
    <3>2. QED
      BY <1>3, <1>5, <2>2, <3>1
  <2>3. QED
    BY <2>1, <2>2
<1>7. \A i \in (pos - n) + 1..Size : new[i] # "LF"
  <2> TAKE i \in (pos - n) + 1..Size
  <2>1. i \in 1..Size /\ (i =< Size - n => n + i \in pos + 1..Size)
    BY <1>1
  <2>2. QED
    BY <1>1, <1>6, <2>1 DEF QuietTail
<1>8. SubSeq(new, 1, pos - n) = SubSeq(buf, n + 1, pos)
  <2>1. /\ SubSeq(new, 1, pos - n) \in Seq(Byte) /\ Len(SubSeq(new, 1, pos - n)) = pos - n
        /\ \A i \in 1..pos - n : SubSeq(new, 1, pos - n)[i] = new[i]
    <3>1. \A i \in 1..pos - n : new[i] \in Byte
      BY <1>1, <1>5, ElementOfSeq
    <3>2. 1 \in Int /\ pos - n \in Int
      BY <1>1
    <3>3. /\ SubSeq(new, 1, pos - n) \in Seq(Byte)
          /\ Len(SubSeq(new, 1, pos - n)) = IF 1 =< pos - n THEN (pos - n) - 1 + 1 ELSE 0
          /\ \A i \in 1..(pos - n) - 1 + 1 : SubSeq(new, 1, pos - n)[i] = new[1 + i - 1]
      BY <3>1, <3>2, SubSeqProperties
    <3>4. QED
      BY <1>1, <3>3
  <2>2. /\ SubSeq(buf, n + 1, pos) \in Seq(Byte) /\ Len(SubSeq(buf, n + 1, pos)) = pos - n
        /\ \A i \in 1..pos - n : SubSeq(buf, n + 1, pos)[i] = buf[n + i]
    <3>1. \A i \in n + 1..pos : buf[i] \in Byte
      BY <1>1, ElementOfSeq
    <3>2. n + 1 \in Int /\ pos \in Int
      BY <1>1
    <3>3. /\ SubSeq(buf, n + 1, pos) \in Seq(Byte)
          /\ Len(SubSeq(buf, n + 1, pos)) = IF n + 1 =< pos THEN pos - (n + 1) + 1 ELSE 0
          /\ \A i \in 1..pos - (n + 1) + 1 : SubSeq(buf, n + 1, pos)[i] = buf[(n + 1) + i - 1]
      BY <3>1, <3>2, SubSeqProperties
    <3>4. QED
      BY <1>1, <3>3
  <2>3. \A i \in 1..pos - n : new[i] = buf[n + i]
    BY <1>1, <1>6
  <2>4. QED
    BY <1>1, <2>1, <2>2, <2>3, SeqEqual
<1>9. QED
  BY <1>5, <1>7, <1>8 DEF new

\* Cutting a line and moving the rest keeps the stream.
LEMMA CutShift ==
    ASSUME BufferInv, NEW line, TakeLine(line), buf' = Shifted(line), spoiled' = spoiled
    PROVE  BufferInv'
<1>1. PICK n \in 2..pos : /\ line = SubSeq(buf, 1, n) /\ Len(line) = n
                          /\ pos' = pos - n /\ taken' = taken \o SubSeq(buf, 1, n)
                          /\ stream' = stream /\ wire' = wire
  BY LineTaken
<1>2. /\ buf' \in Seq(Byte) /\ Len(buf') = Size
      /\ \A i \in (pos - n) + 1..Size : buf'[i] # "LF"
      /\ SubSeq(buf', 1, pos - n) = SubSeq(buf, n + 1, pos)
  BY <1>1, ShiftedBuf
<1>3. /\ buf \in Seq(Byte) /\ Len(buf) = Size /\ pos \in 0..Size /\ Size \in Nat
      /\ wire \in Seq(Byte) /\ taken \in Seq(Byte) /\ StreamIntact /\ BufferTypes
  <2>1. wire \in Seq(Byte)
    BY SeqMonotonic DEF BufferInv, BufferTypes, Byte
  <2>2. QED
    BY <2>1, SizeAssumption DEF BufferInv, BufferTypes
<1>4. /\ SubSeq(buf, 1, n) \in Seq(Byte) /\ SubSeq(buf, n + 1, pos) \in Seq(Byte)
  <2>1. (\A i \in 1..n : buf[i] \in Byte) /\ \A i \in n + 1..pos : buf[i] \in Byte
    BY <1>3, ElementOfSeq
  <2>2. 1 \in Int /\ n \in Int /\ n + 1 \in Int /\ pos \in Int
    BY <1>3
  <2>3. QED
    BY <2>1, <2>2, SubSeqProperties
<1>5. BufferTypes'
  <2>1. taken' \in Seq(Byte)
    BY <1>1, <1>3, <1>4, ConcatProperties
  <2>2. pos' \in 0..Size
    BY <1>1, <1>3
  <2>3. QED
    BY <1>1, <1>2, <1>3, <2>1, <2>2 DEF BufferTypes
<1>6. QuietTail'
  BY <1>1, <1>2 DEF QuietTail
<1>7. StreamIntact'
  <2>1. Received' = SubSeq(buf, n + 1, pos)
    BY <1>1, <1>2 DEF Received
  <2>2. Received = SubSeq(buf, 1, n) \o SubSeq(buf, n + 1, pos)
    <3>1. 1 \in 1..Len(buf) + 1 /\ n \in 1 - 1..Len(buf) /\ pos \in n..Len(buf)
      BY <1>3
    <3>2. QED
      BY <1>3, <3>1, ConcatAdjacentSubSeq DEF Received
  <2>3. (taken \o SubSeq(buf, 1, n)) \o SubSeq(buf, n + 1, pos) = taken \o Received
    BY <1>3, <1>4, <2>2, Associative, Zenon
  <2>4. QED
    BY <1>1, <1>3, <2>1, <2>3 DEF StreamIntact
<1>8. QED
  BY <1>5, <1>6, <1>7 DEF BufferInv

\* Printing over the buffer keeps it too, when nothing was waiting there.
LEMMA CutPrint ==
    ASSUME BufferInv, NEW line, TakeLine(line), NEW k \in 1..(Size - 1),
           buf' = Fill("text", k) \o Fill("NUL", Size - k),
           spoiled' = (spoiled \/ (k > 0 /\ pos' > 0))
    PROVE  BufferInv'
<1>1. PICK n \in 2..pos : /\ line = SubSeq(buf, 1, n) /\ Len(line) = n
                          /\ pos' = pos - n /\ taken' = taken \o SubSeq(buf, 1, n)
                          /\ stream' = stream /\ wire' = wire
  BY LineTaken
<1>2. /\ buf \in Seq(Byte) /\ Len(buf) = Size /\ pos \in 0..Size /\ Size \in Nat
      /\ wire \in Seq(Byte) /\ taken \in Seq(Byte) /\ StreamIntact /\ BufferTypes
      /\ k \in Nat /\ k > 0 /\ k =< Size
  <2>1. wire \in Seq(Byte)
    BY SeqMonotonic DEF BufferInv, BufferTypes, Byte
  <2>2. QED
    BY <2>1, SizeAssumption DEF BufferInv, BufferTypes
<1>3. /\ buf' \in Seq(Byte) /\ Len(buf') = Size /\ \A i \in 1..Size : buf'[i] # "LF"
  <2>1. /\ Fill("text", k) \in Seq(Byte) /\ Len(Fill("text", k)) = k
        /\ \A i \in 1..k : Fill("text", k)[i] = "text"
    <3>1. "text" \in Byte
      BY DEF Byte
    <3>2. QED
      BY <1>2, <3>1, FillType, Zenon
  <2>2. /\ Fill("NUL", Size - k) \in Seq(Byte) /\ Len(Fill("NUL", Size - k)) = Size - k
        /\ \A i \in 1..Size - k : Fill("NUL", Size - k)[i] = "NUL"
    <3>1. "NUL" \in Byte /\ Size - k \in Nat
      BY <1>2, ZeroByte
    <3>2. QED
      BY <3>1, FillType, Zenon
  <2>3. /\ buf' \in Seq(Byte) /\ Len(buf') = Size
        /\ \A i \in 1..Size : buf'[i] = IF i =< k THEN Fill("text", k)[i]
                                        ELSE Fill("NUL", Size - k)[i - k]
    <3> DEFINE text == Fill("text", k)
               zero == Fill("NUL", Size - k)
    <3>1. /\ buf' \in Seq(Byte) /\ Len(buf') = Len(text) + Len(zero)
          /\ \A i \in 1..Len(text) + Len(zero) :
                buf'[i] = IF i <= Len(text) THEN text[i] ELSE zero[i - Len(text)]
      BY <2>1, <2>2, ConcatProperties, Zenon
    <3>2. Len(text) + Len(zero) = Size
      <4>1. Len(text) = k /\ Len(zero) = Size - k
        BY <2>1, <2>2
      <4> HIDE DEF text, zero
      <4>2. QED
        BY <1>2, <4>1
    <3>3. QED
      BY <2>1, <3>1, <3>2, Zenon
  <2>4. QED
    BY <1>2, <2>1, <2>2, <2>3
<1>4. SubSeq(buf, 1, n) \in Seq(Byte)
  <2>1. \A i \in 1..n : buf[i] \in Byte
    BY <1>2, ElementOfSeq
  <2>2. 1 \in Int /\ n \in Int
    BY <1>2
  <2>3. QED
    BY <2>1, <2>2, SubSeqProperties, Zenon
<1>5. BufferTypes'
  <2>1. taken' \in Seq(Byte)
    BY <1>1, <1>2, <1>4, ConcatProperties
  <2>2. pos' \in 0..Size /\ spoiled' \in BOOLEAN
    BY <1>1, <1>2
  <2>3. QED
    BY <1>1, <1>2, <1>3, <2>1, <2>2 DEF BufferTypes
<1>6. QuietTail'
  BY <1>1, <1>2, <1>3 DEF QuietTail
<1>7. ASSUME ~spoiled'
      PROVE  taken' \o Received' \o wire' = stream'
  <2>1. ~spoiled /\ pos' = 0 /\ n = pos
    <3>1. ~spoiled /\ ~(k > 0 /\ pos' > 0)
      BY <1>7, Zenon
    <3>2. pos' = 0
      BY <1>1, <1>2, <3>1
    <3>3. QED
      BY <1>1, <1>2, <3>1, <3>2
  <2>2. Received' = <<>> /\ taken' = taken \o Received
    BY <1>1, <2>1, SubSeqEmpty DEF Received
  <2>3. taken' \o Received' = taken \o Received
    BY <1>2, <1>4, <2>1, <2>2, ConcatProperties, ConcatEmptySeq DEF Received
  <2>4. QED
    BY <1>1, <1>2, <2>1, <2>3 DEF StreamIntact
<1>8. QED
  BY <1>5, <1>6, <1>7 DEF BufferInv, StreamIntact

-----------------------------------------------------------------------------
(* The invariant *)

LEMMA SendStep ==
    ASSUME BufferInv, NEW body \in Bodies, SendLine(body)
    PROVE  BufferInv'
<1>1. /\ BufferTypes /\ body \in Seq(Char) /\ CRLF \in Seq(Char)
      /\ buf \in Seq(Byte) /\ Len(buf) = Size /\ pos \in 0..Size /\ Size \in Nat
  <2>1. body \in Seq(Char)
    BY BodiesAssumption
  <2>2. CRLF \in Seq(Char)
    BY DEF CRLF, Char
  <2>3. QED
    BY <2>1, <2>2, SizeAssumption DEF BufferInv, BufferTypes
<1>2. /\ stream' = (stream \o body) \o CRLF /\ wire' = (wire \o body) \o CRLF
      /\ stream' \in Seq(Char) /\ wire' \in Seq(Char)
      /\ UNCHANGED <<taken, buf, pos, spoiled>>
  BY <1>1, ConcatProperties DEF SendLine, BufferTypes
<1>3. BufferTypes'
  BY <1>1, <1>2 DEF BufferTypes
<1>4. QuietTail'
  BY <1>2 DEF QuietTail, BufferInv
<1>5. StreamIntact'
  <2> DEFINE had == taken \o Received
  <2>1. /\ had \in Seq(Byte) /\ wire \in Seq(Byte) /\ body \in Seq(Byte) /\ CRLF \in Seq(Byte)
    <3>1. \A i \in 1..pos : buf[i] \in Byte
      BY <1>1, ElementOfSeq
    <3>2. Received \in Seq(Byte)
      BY <1>1, <3>1, SubSeqProperties DEF Received
    <3>3. wire \in Seq(Byte) /\ body \in Seq(Byte) /\ CRLF \in Seq(Byte)
      BY <1>1, SeqMonotonic DEF BufferTypes, Byte
    <3>4. QED
      BY <1>1, <3>2, <3>3, ConcatProperties DEF BufferTypes
  <2>2. Received' = Received
    BY <1>2 DEF Received
  <2> HIDE DEF had
  <2>3. had \o ((wire \o body) \o CRLF) = ((had \o wire) \o body) \o CRLF
    <3>1. (wire \o body) \in Seq(Byte)
      BY <2>1, ConcatProperties
    <3>2. had \o ((wire \o body) \o CRLF) = (had \o (wire \o body)) \o CRLF
      BY <2>1, <3>1, Associative, Zenon
    <3>3. had \o (wire \o body) = (had \o wire) \o body
      BY <2>1, Associative, Zenon
    <3>4. QED
      BY <3>2, <3>3, Zenon
  <2>4. QED
    BY <1>2, <2>2, <2>3 DEF StreamIntact, BufferInv, had
<1>6. QED
  BY <1>3, <1>4, <1>5 DEF BufferInv

LEMMA InitBuffer == Init => BufferInv
<1> SUFFICES ASSUME Init PROVE BufferInv
  OBVIOUS
<1>1. /\ buf = Fill("NUL", Size) /\ pos = 0 /\ taken = <<>> /\ wire = <<>> /\ stream = <<>>
      /\ spoiled = FALSE /\ Size \in Nat
  BY SizeAssumption DEF Init
<1>2. buf \in Seq(Byte) /\ Len(buf) = Size /\ \A i \in 1..Size : buf[i] = "NUL"
  BY <1>1, FillType, ZeroByte
<1>3. BufferTypes
  <2>1. <<>> \in Seq(Char) /\ <<>> \in Seq(Byte)
    BY EmptySeq
  <2>2. 0 \in 0..Size
    BY <1>1
  <2>3. QED
    BY <1>1, <1>2, <2>1, <2>2, Zenon DEF BufferTypes
<1>4. QuietTail
  BY <1>1, <1>2 DEF QuietTail
<1>5. StreamIntact
  <2>1. Received = <<>>
    BY <1>1, SubSeqEmpty DEF Received
  <2>2. QED
    BY <1>1, <2>1, ConcatEmptySeq, EmptySeq DEF StreamIntact
<1>6. QED
  BY <1>3, <1>4, <1>5 DEF BufferInv

\* QUIT prints a text that buf holds, or one that overflows it.
LEMMA QuitDispatch ==
    ASSUME NEW k \in QuitLen, Quit(k)
    PROVE  \E line, l : /\ TakeLine(line) /\ ~Blank(line) /\ Dispatch(line, l)
                        /\ l = 0 \/ l \in 1..(Size - 1)
                        /\ Words(FullCommand(line)) \in Quits
                        /\ pc' \in {"closed", "undefined"}
<1>1. PICK line : /\ TakeLine(line) /\ ~Blank(line)
                  /\ Words(FullCommand(line)) \in Quits
                  /\ \/ k < Size /\ Dispatch(line, k) /\ pc' = "closed"
                     \/ k >= Size /\ Dispatch(line, 0) /\ pc' = "undefined"
  BY DEF Quit
<1>2. k \in Nat \ {0} /\ Size \in Nat
  BY QuitAssumption, SizeAssumption
<1>3. CASE k < Size
  <2>1. Dispatch(line, k) /\ pc' = "closed" /\ k \in 1..(Size - 1)
    BY <1>1, <1>2, <1>3
  <2>2. QED
    BY <1>1, <2>1
<1>4. CASE ~(k < Size)
  <2>1. Dispatch(line, 0) /\ pc' = "undefined"
    BY <1>1, <1>4
  <2>2. QED
    BY <1>1, <2>1
<1>5. QED
  BY <1>3, <1>4

LEMMA BufferStep == BufferInv /\ [Next]_vars => BufferInv'
<1> SUFFICES ASSUME BufferInv, [Next]_vars PROVE BufferInv'
  OBVIOUS
<1>1. ASSUME UNCHANGED <<stream, wire, taken, buf, pos, spoiled>>
      PROVE  BufferInv'
  BY <1>1 DEF BufferInv, BufferTypes, QuietTail, StreamIntact, Received
<1>2. ASSUME NEW body \in Bodies, SendLine(body) PROVE BufferInv'
  BY <1>2, SendStep
<1>3. CASE HangUp
  BY <1>1, <1>3 DEF HangUp
<1>4. ASSUME NEW n \in 1..Size, Read(n) PROVE BufferInv'
  BY <1>4, ReadStep
<1>5. CASE ReadNothing
  BY <1>1, <1>5 DEF ReadNothing
<1>6. CASE SkipBlank
  <2>1. PICK line : TakeLine(line) /\ buf' = Shifted(line) /\ spoiled' = spoiled
    BY <1>6 DEF SkipBlank
  <2>2. QED
    BY <2>1, CutShift
<1>7. ASSUME NEW k, k = 0 \/ (k \in 1..(Size - 1)), NEW line, TakeLine(line), Dispatch(line, k)
      PROVE  BufferInv'
  <2>1. TakeLine(line) /\ Dispatch(line, k)
    BY <1>7
  <2>2. CASE k = 0
    <3>1. buf' = Shifted(line) /\ spoiled' = (spoiled \/ FALSE)
      BY <2>1, <2>2 DEF Dispatch
    <3>2. spoiled' = spoiled
      BY <3>1 DEF BufferInv, BufferTypes
    <3>3. QED
      BY <2>1, <3>1, <3>2, CutShift
  <2>3. CASE k # 0
    <3>1. /\ k \in 1..(Size - 1) /\ buf' = Fill("text", k) \o Fill("NUL", Size - k)
          /\ spoiled' = (spoiled \/ (k > 0 /\ pos' > 0))
      BY <1>7, <2>1, <2>3 DEF Dispatch
    <3>2. QED
      BY <2>1, <3>1, CutPrint
  <2>4. QED
    BY <2>2, <2>3
<1>8. ASSUME NEW k \in TextLen \union {0}, HandleLine(k) PROVE BufferInv'
  <2>1. k = 0 \/ k \in 1..(Size - 1)
    BY TextAssumption
  <2>2. PICK line : TakeLine(line) /\ Dispatch(line, k)
    BY <1>8 DEF HandleLine
  <2>3. QED
    BY <1>7, <2>1, <2>2
<1>9. ASSUME NEW k \in QuitLen, Quit(k) PROVE BufferInv'
  <2>1. PICK line, l : TakeLine(line) /\ Dispatch(line, l) /\ (l = 0 \/ l \in 1..(Size - 1))
    BY <1>9, QuitDispatch
  <2>2. QED
    BY <1>7, <2>1
<1>10. CASE NoLine
  BY <1>1, <1>10 DEF NoLine
<1>11. CASE RunOut
  BY <1>1, <1>11 DEF RunOut
<1>12. CASE UNCHANGED vars
  BY <1>1, <1>12 DEF vars
<1>13. QED
  BY <1>2, <1>3, <1>4, <1>5, <1>6, <1>8, <1>9, <1>10, <1>11, <1>12 DEF Next, ThreadStep

LEMMA BufferCorrect == Spec => []BufferInv
<1>1. QED
  BY InitBuffer, BufferStep, PTL DEF Spec

\* Until a handler prints over waiting bytes, no byte a client sent is lost,
\* duplicated or moved by the framing loop, however reads split the stream
\* (main.c:732, 756-777).
THEOREM StreamCorrect == Spec => []StreamIntact
<1>1. BufferInv => StreamIntact
  BY DEF BufferInv
<1>2. QED
  BY <1>1, BufferCorrect, PTL

-----------------------------------------------------------------------------
(* Where the lines end *)

\* e[i] bytes of the stream are before line i.
LineEnds(e) ==
    /\ e \in Seq(Nat) /\ Len(e) = Len(sent) + 1
    /\ e[1] = 0 /\ e[Len(sent) + 1] = Len(stream)
    /\ \A i \in 1..Len(sent) :
          /\ e[i + 1] = e[i] + Len(sent[i]) + 2
          /\ e[i + 1] =< Len(stream)
          /\ \A j \in 1..Len(sent[i]) + 2 : stream[e[i] + j] = (sent[i] \o CRLF)[j]

\* Until buf is spoiled, what was cut off ends where a line does.
Aligned ==
    \E e : /\ LineEnds(e)
           /\ ~spoiled => \E m \in 1..Len(sent) + 1 : Len(taken) = e[m]

\* read is called when buf has no line, and a free place in buf holds a NUL.
SearchedOK ==
    /\ pc = "read" => FirstLine(buf) = <<>>
    /\ pos < Size => buf[Size] = "NUL"

JustInv ==
    /\ sent \in Seq(Bodies)
    /\ Aligned
    /\ SearchedOK
    /\ DisconnectJustified

LEMMA Prefix ==
    ASSUME NEW s \in Seq(Byte), NEW n \in Nat, n =< Len(s)
    PROVE  /\ SubSeq(s, 1, n) \in Seq(Byte) /\ Len(SubSeq(s, 1, n)) = n
           /\ \A i \in 1..n : SubSeq(s, 1, n)[i] = s[i]
<1>1. \A i \in 1..n : s[i] \in Byte
  BY ElementOfSeq
<1>2. 1 \in Int /\ n \in Int
  OBVIOUS
<1>3. /\ SubSeq(s, 1, n) \in Seq(Byte)
      /\ Len(SubSeq(s, 1, n)) = IF 1 =< n THEN n - 1 + 1 ELSE 0
      /\ \A i \in 1..n - 1 + 1 : SubSeq(s, 1, n)[i] = s[1 + i - 1]
  BY <1>1, <1>2, SubSeqProperties
<1>4. QED
  BY <1>3

LEMMA Concatenated ==
    \A a, b \in Seq(Byte) :
        /\ a \o b \in Seq(Byte) /\ Len(a \o b) = Len(a) + Len(b)
        /\ \A i \in 1..Len(a) + Len(b) : (a \o b)[i] = IF i =< Len(a) THEN a[i] ELSE b[i - Len(a)]
  BY ConcatProperties

\* The buffer up to pos is the stream behind what was cut off.
LEMMA StreamAt ==
    ASSUME BufferInv, ~spoiled
    PROVE  /\ Len(taken) \in Nat /\ Len(stream) \in Nat
           /\ Len(taken) + pos =< Len(stream)
           /\ \A j \in 1..pos : stream[Len(taken) + j] = buf[j]
<1>1. /\ BufferTypes /\ StreamIntact /\ pos \in 0..Size /\ Size \in Nat
      /\ buf \in Seq(Byte) /\ Len(buf) = Size
      /\ taken \in Seq(Byte) /\ wire \in Seq(Byte) /\ stream \in Seq(Char)
  <2>1. wire \in Seq(Byte)
    BY SeqMonotonic DEF BufferInv, BufferTypes, Byte
  <2>2. QED
    BY <2>1, SizeAssumption DEF BufferInv, BufferTypes
<1>2. /\ Received \in Seq(Byte) /\ Len(Received) = pos
      /\ \A i \in 1..pos : Received[i] = buf[i]
  BY <1>1, Prefix DEF Received
<1> DEFINE had == taken \o Received
<1>3. /\ had \in Seq(Byte) /\ Len(had) = Len(taken) + Len(Received)
      /\ \A i \in 1..Len(taken) + Len(Received) :
            had[i] = IF i =< Len(taken) THEN taken[i] ELSE Received[i - Len(taken)]
  BY <1>1, <1>2, Concatenated, Zenon
<1>4. stream = had \o wire
  BY <1>1 DEF StreamIntact
<1> HIDE DEF had
<1>5. /\ Len(stream) = Len(had) + Len(wire)
      /\ \A i \in 1..Len(had) + Len(wire) :
            stream[i] = IF i =< Len(had) THEN had[i] ELSE wire[i - Len(had)]
  BY <1>1, <1>3, <1>4, Concatenated, Zenon
<1>6. Len(taken) \in Nat /\ Len(wire) \in Nat
  BY <1>1
<1>7. ASSUME NEW j \in 1..pos PROVE stream[Len(taken) + j] = buf[j]
  <2>1. /\ Len(taken) + j \in 1..Len(had) + Len(wire) /\ Len(taken) + j <= Len(had)
        /\ Len(taken) + j \in 1..Len(taken) + Len(Received)
        /\ ~(Len(taken) + j <= Len(taken)) /\ (Len(taken) + j) - Len(taken) = j
    BY <1>1, <1>2, <1>3, <1>6
  <2>2. stream[Len(taken) + j] = had[Len(taken) + j]
    BY <1>5, <2>1
  <2>3. had[Len(taken) + j] = Received[j]
    BY <1>3, <2>1
  <2>4. QED
    BY <1>2, <2>2, <2>3
<1>8. QED
  BY <1>1, <1>2, <1>3, <1>5, <1>6, <1>7

\* A line as it is sent ends with its only CR LF and has no NUL.
LEMMA LineShape ==
    ASSUME NEW s \in Bodies
    PROVE  LET line == s \o CRLF
               n == Len(s)
           IN  /\ line \in Seq(Char) /\ Len(line) = n + 2 /\ n \in Nat
               /\ line[n + 1] = "CR" /\ line[n + 2] = "LF"
               /\ \A i \in 1..n : ~(line[i] = "CR" /\ line[i + 1] = "LF")
<1>1. s \in Seq(Char) /\ CRLF \in Seq(Char) /\ Len(CRLF) = 2 /\ CRLF[1] = "CR" /\ CRLF[2] = "LF"
  <2>1. s \in Seq(Char)
    BY BodiesAssumption
  <2>2. CRLF \in Seq(Char) /\ Len(CRLF) = 2 /\ CRLF[1] = "CR" /\ CRLF[2] = "LF"
    BY DEF CRLF, Char
  <2>3. QED
    BY <2>1, <2>2
<1> DEFINE line == s \o CRLF
           n == Len(s)
<1>2. /\ line \in Seq(Char) /\ Len(line) = n + Len(CRLF)
      /\ \A i \in 1..n + Len(CRLF) : line[i] = IF i <= n THEN s[i] ELSE CRLF[i - n]
  BY <1>1, ConcatProperties, Zenon
<1>3. n \in Nat
  BY <1>1
<1>4. \A i \in 1..n : ~(line[i] = "CR" /\ line[i + 1] = "LF")
  BY BodiesAssumption
<1> HIDE DEF line, n
<1>5. Len(line) = n + 2 /\ line[n + 1] = "CR" /\ line[n + 2] = "LF"
  <2>1. n + Len(CRLF) = n + 2 /\ n + 1 \in 1..n + 2 /\ n + 2 \in 1..n + 2
        /\ ~(n + 1 <= n) /\ ~(n + 2 <= n) /\ (n + 1) - n = 1 /\ (n + 2) - n = 2
    BY <1>1, <1>3
  <2>2. QED
    BY <1>1, <1>2, <2>1
<1>6. QED
  BY <1>2, <1>3, <1>4, <1>5 DEF line, n

\* strstr stops at the first CR LF.
LEMMA LineFirst ==
    ASSUME NEW s \in Seq(Byte), NEW i \in 2..Len(s), s[i - 1] = "CR", s[i] = "LF",
           \A j \in 1..i : s[j] # "NUL"
    PROVE  \E n \in 2..i : /\ FirstLine(s) = SubSeq(s, 1, n) /\ FirstLine(s) # <<>>
                           /\ s[n - 1] = "CR" /\ s[n] = "LF"
<1> DEFINE ends == {k \in 2..Len(s) : /\ s[k - 1] = "CR" /\ s[k] = "LF"
                                      /\ \A j \in 1..k : s[j] # "NUL"}
<1>1. i \in ends /\ ends \subseteq Nat
  OBVIOUS
<1>2. FirstLine(s) = SubSeq(s, 1, Min(ends))
  BY <1>1 DEF FirstLine
<1> HIDE DEF ends
<1>3. Min(ends) \in ends /\ Min(ends) =< i
  BY <1>1, MinMember
<1> DEFINE n == Min(ends)
<1>4. n \in 2..i /\ s[n - 1] = "CR" /\ s[n] = "LF" /\ n =< Len(s)
  <2>1. n \in 2..Len(s) /\ s[n - 1] = "CR" /\ s[n] = "LF"
    BY <1>3 DEF ends
  <2>2. QED
    BY <1>3, <2>1
<1> HIDE DEF n
<1>5. Len(SubSeq(s, 1, n)) = n
  <2>1. \A k \in 1..n : s[k] \in Byte
    BY <1>4, ElementOfSeq
  <2>2. 1 \in Int /\ n \in Int /\ 1 =< n
    BY <1>4
  <2>3. QED
    BY <2>1, <2>2, SubSeqProperties
<1>6. SubSeq(s, 1, n) # <<>>
  BY <1>4, <1>5
<1>7. QED
  BY <1>2, <1>4, <1>6 DEF n

\* While buf is not spoiled, it begins with the line that has not been cut off yet.
LEMMA HeadLine ==
    ASSUME BufferInv, sent \in Seq(Bodies), ~spoiled, pos > 0,
           NEW e, LineEnds(e), NEW m \in 1..Len(sent) + 1, Len(taken) = e[m]
    PROVE  /\ m \in 1..Len(sent) /\ sent[m] \in Bodies
           /\ \A j \in 1..pos : j =< Len(sent[m]) + 2 => buf[j] = (sent[m] \o CRLF)[j]
<1>1. Len(sent) \in Nat /\ pos \in Nat
  BY DEF BufferInv, BufferTypes
<1>2. m # Len(sent) + 1
  <2>1. Len(taken) < Len(stream)
    BY <1>1, StreamAt
  <2>2. Len(taken) \in Nat
    BY StreamAt
  <2>3. QED
    BY <2>1, <2>2 DEF LineEnds
<1>3. m \in 1..Len(sent)
  BY <1>1, <1>2
<1>4. sent[m] \in Bodies
  BY <1>3, ElementOfSeq
<1>5. \A j \in 1..Len(sent[m]) + 2 : stream[e[m] + j] = (sent[m] \o CRLF)[j]
  BY <1>3 DEF LineEnds
<1>6. Len(sent[m]) \in Nat
  BY <1>4, LineShape
<1>7. \A j \in 1..pos : stream[e[m] + j] = buf[j]
  BY StreamAt
<1>8. \A j \in 1..pos : j =< Len(sent[m]) + 2 => buf[j] = (sent[m] \o CRLF)[j]
  <2> SUFFICES ASSUME NEW j \in 1..pos, j =< Len(sent[m]) + 2
               PROVE  buf[j] = (sent[m] \o CRLF)[j]
    OBVIOUS
  <2>1. j \in 1..Len(sent[m]) + 2
    BY <1>1, <1>6
  <2>2. QED
    BY <1>5, <1>7, <2>1
<1>9. QED
  BY <1>3, <1>4, <1>8

\* The line that is cut off is the next one sent.
LEMMA LineIsSent ==
    ASSUME BufferInv, NEW s \in Bodies, NEW n \in 2..pos, FirstLine(buf) = SubSeq(buf, 1, n),
           buf[n - 1] = "CR", buf[n] = "LF", \A j \in 1..n : buf[j] # "NUL",
           Len(FirstLine(buf)) = n,
           \A j \in 1..pos : j =< Len(s) + 2 => buf[j] = (s \o CRLF)[j]
    PROVE  FirstLine(buf) = s \o CRLF /\ n = Len(s) + 2
<1> DEFINE line == s \o CRLF
           k == Len(s) + 2
<1>1. /\ buf \in Seq(Byte) /\ Len(buf) = Size /\ pos \in 0..Size /\ Size \in Nat
  BY SizeAssumption DEF BufferInv, BufferTypes
<1>2. /\ line \in Seq(Char) /\ Len(line) = k /\ k \in Nat /\ k >= 2
      /\ line[k - 1] = "CR" /\ line[k] = "LF"
      /\ \A i \in 1..k - 2 : ~(line[i] = "CR" /\ line[i + 1] = "LF")
  <2>1. Len(s) \in Nat /\ k - 1 = Len(s) + 1 /\ k - 2 = Len(s)
    BY LineShape
  <2>2. QED
    BY <2>1, LineShape
<1>3. \A j \in 1..pos : j =< k => buf[j] = line[j]
  OBVIOUS
<1> HIDE DEF line, k
<1>4. n >= k
  <2> SUFFICES ASSUME n < k PROVE FALSE
    BY <1>2
  <2>1. n - 1 \in 1..k - 2 /\ n - 1 \in 1..pos /\ n \in 1..pos /\ n - 1 =< k /\ n =< k
        /\ (n - 1) + 1 = n
    BY <1>1, <1>2
  <2>2. line[n - 1] = "CR" /\ line[n] = "LF"
    BY <1>3, <2>1
  <2>3. QED
    BY <1>2, <2>1, <2>2
<1>5. n =< k
  <2>1. k \in 2..Len(buf) /\ k - 1 \in 1..pos /\ k \in 1..pos /\ k - 1 =< k
    BY <1>1, <1>2, <1>4
  <2>2. buf[k - 1] = "CR" /\ buf[k] = "LF"
    BY <1>2, <1>3, <2>1
  <2>3. \A j \in 1..k : buf[j] # "NUL"
    BY <1>2, <1>4
  <2>4. PICK i \in 2..k : FirstLine(buf) = SubSeq(buf, 1, i)
    BY <1>1, <2>1, <2>2, <2>3, LineFirst
  <2>5. Len(SubSeq(buf, 1, i)) = i
    <3>1. \A j \in 1..i : buf[j] \in Byte
      BY <1>1, <2>1, <2>4, ElementOfSeq
    <3>2. 1 \in Int /\ i \in Int /\ 1 =< i
      BY <2>4
    <3>3. QED
      BY <3>1, <3>2, SubSeqProperties
  <2>6. QED
    BY <2>4, <2>5
<1>6. n = k
  BY <1>2, <1>4, <1>5
<1>7. SubSeq(buf, 1, n) = line
  <2>1. /\ SubSeq(buf, 1, n) \in Seq(Byte) /\ Len(SubSeq(buf, 1, n)) = n
        /\ \A j \in 1..n : SubSeq(buf, 1, n)[j] = buf[j]
    <3>1. \A j \in 1..n : buf[j] \in Byte
      BY <1>1, ElementOfSeq
    <3>2. 1 \in Int /\ n \in Int /\ 1 =< n
      BY <1>1
    <3>3. /\ SubSeq(buf, 1, n) \in Seq(Byte)
          /\ Len(SubSeq(buf, 1, n)) = IF 1 =< n THEN n - 1 + 1 ELSE 0
          /\ \A j \in 1..n - 1 + 1 : SubSeq(buf, 1, n)[j] = buf[1 + j - 1]
      BY <3>1, <3>2, SubSeqProperties
    <3>4. QED
      BY <3>3
  <2>2. \A j \in 1..n : SubSeq(buf, 1, n)[j] = line[j]
    BY <1>1, <1>3, <1>6, <2>1
  <2>3. line \in Seq(Byte)
    BY <1>2, SeqMonotonic DEF Byte
  <2>4. QED
    BY <1>2, <1>6, <2>1, <2>2, <2>3, SeqEqual
<1>8. QED
  BY <1>6, <1>7 DEF line, k

\* A line found in buf ends within the bytes that were read.
LEMMA LineCut ==
    ASSUME BufferInv, FirstLine(buf) # <<>>
    PROVE  \E n \in 2..pos : /\ FirstLine(buf) = SubSeq(buf, 1, n) /\ Len(FirstLine(buf)) = n
                             /\ buf[n - 1] = "CR" /\ buf[n] = "LF"
                             /\ \A j \in 1..n : buf[j] # "NUL"
<1>1. /\ buf \in Seq(Byte) /\ Len(buf) = Size /\ pos \in 0..Size /\ Size \in Nat /\ QuietTail
  BY SizeAssumption DEF BufferInv, BufferTypes
<1>2. PICK n \in 2..Size : /\ FirstLine(buf) = SubSeq(buf, 1, n)
                           /\ buf[n - 1] = "CR" /\ buf[n] = "LF"
                           /\ \A j \in 1..n : buf[j] # "NUL"
  BY <1>1, LineFound
<1>3. n \in 2..pos /\ n \in Nat
  BY <1>1, <1>2 DEF QuietTail
<1>4. Len(SubSeq(buf, 1, n)) = n
  BY <1>1, <1>3, Prefix
<1>5. QED
  BY <1>2, <1>3, <1>4

\* So the line that is found is the next one that was sent.
LEMMA NextLine ==
    ASSUME BufferInv, sent \in Seq(Bodies), ~spoiled, FirstLine(buf) # <<>>,
           NEW e, LineEnds(e), NEW m \in 1..Len(sent) + 1, Len(taken) = e[m]
    PROVE  /\ m \in 1..Len(sent) /\ FirstLine(buf) = sent[m] \o CRLF
           /\ Len(FirstLine(buf)) = Len(sent[m]) + 2
<1>1. PICK n \in 2..pos : /\ FirstLine(buf) = SubSeq(buf, 1, n) /\ Len(FirstLine(buf)) = n
                          /\ buf[n - 1] = "CR" /\ buf[n] = "LF"
                          /\ \A j \in 1..n : buf[j] # "NUL"
  BY LineCut
<1>2. pos > 0
  BY <1>1 DEF BufferInv, BufferTypes
<1>3. /\ m \in 1..Len(sent) /\ sent[m] \in Bodies
      /\ \A j \in 1..pos : j =< Len(sent[m]) + 2 => buf[j] = (sent[m] \o CRLF)[j]
  BY <1>2, HeadLine
<1>4. FirstLine(buf) = sent[m] \o CRLF /\ n = Len(sent[m]) + 2
  BY <1>1, <1>3, LineIsSent
<1>5. QED
  BY <1>1, <1>3, <1>4

\* A full buffer without a line holds the beginning of one that does not fit.
LEMMA TooLong ==
    ASSUME BufferInv, sent \in Seq(Bodies), Aligned, ~spoiled, pos = Size, FirstLine(buf) = <<>>
    PROVE  ~LinesFit
<1>1. PICK e : LineEnds(e) /\ \E m \in 1..Len(sent) + 1 : Len(taken) = e[m]
  BY DEF Aligned
<1>2. PICK m \in 1..Len(sent) + 1 : Len(taken) = e[m]
  BY <1>1
<1>3. /\ buf \in Seq(Byte) /\ Len(buf) = Size /\ Size \in Nat /\ pos > 0 /\ pos = Size
  BY SizeAssumption DEF BufferInv, BufferTypes
<1>4. /\ m \in 1..Len(sent) /\ sent[m] \in Bodies
      /\ \A j \in 1..pos : j =< Len(sent[m]) + 2 => buf[j] = (sent[m] \o CRLF)[j]
  BY <1>1, <1>2, <1>3, HeadLine
<1> DEFINE line == sent[m] \o CRLF
           k == Len(sent[m]) + 2
<1>5. /\ Len(line) = k /\ k \in Nat /\ k >= 2 /\ line[k - 1] = "CR" /\ line[k] = "LF"
  <2>1. Len(sent[m]) \in Nat /\ k - 1 = Len(sent[m]) + 1
    BY <1>4, LineShape
  <2>2. QED
    BY <1>4, <2>1, LineShape, SMTT(30)
<1>6. \A j \in 1..pos : j =< k => buf[j] = line[j]
  BY <1>4
<1>7. ASSUME ~HasNUL(line), Len(line) =< Size PROVE FALSE
  <2>0. \A i \in 1..k : line[i] # "NUL"
    BY <1>5, <1>7 DEF HasNUL
  <2> HIDE DEF line, k
  <2>1. k \in 2..Len(buf) /\ k - 1 \in 1..pos /\ k \in 1..pos /\ k - 1 =< k
    BY <1>3, <1>5, <1>7
  <2>2. buf[k - 1] = "CR" /\ buf[k] = "LF"
    BY <1>5, <1>6, <2>1
  <2>3. \A j \in 1..k : buf[j] # "NUL"
    BY <1>3, <1>5, <1>6, <2>0, <2>1
  <2>4. QED
    BY <1>3, <2>1, <2>2, <2>3, LineFirst
<1>8. QED
  BY <1>4, <1>7 DEF LinesFit

-----------------------------------------------------------------------------
(* The steps *)

\* Sending a line adds its end.
LEMMA SendEnds ==
    ASSUME BufferInv, sent \in Seq(Bodies), NEW body \in Bodies, SendLine(body),
           NEW e, LineEnds(e)
    PROVE  \E f : LineEnds(f)' /\ \A i \in 1..Len(sent) + 1 : f[i] = e[i]
<1>1. LineEnds(e)
  OBVIOUS
<1> DEFINE line == body \o CRLF
<1>0. PICK l : l = Len(sent)
  OBVIOUS
<1>f. PICK f : f = Append(e, e[l + 1] + Len(body) + 2)
  OBVIOUS
<1>2. /\ l \in Nat /\ e \in Seq(Nat) /\ Len(e) = l + 1 /\ e[l + 1] = Len(stream) /\ e[1] = 0
      /\ stream \in Seq(Char)
  BY <1>0, <1>1 DEF LineEnds, BufferInv, BufferTypes
<1>3. line \in Seq(Char) /\ Len(line) = Len(body) + 2 /\ Len(body) \in Nat
  BY LineShape
<1>4. /\ sent' = Append(sent, body) /\ taken' = taken /\ spoiled' = spoiled
      /\ stream' = stream \o line
  <2>1. stream \in Seq(Byte) /\ body \in Seq(Byte) /\ CRLF \in Seq(Byte)
    <3>1. body \in Seq(Char)
      BY BodiesAssumption
    <3>0. CRLF \in Seq(Char)
      BY DEF CRLF, Char
    <3>2. QED
      BY <1>2, <3>0, <3>1, SeqMonotonic DEF Byte
  <2>2. (stream \o body) \o CRLF = stream \o line
    BY <2>1, Associative, Zenon
  <2>3. QED
    BY <2>2 DEF SendLine
<1>5. /\ Len(stream') = Len(stream) + Len(line)
      /\ \A i \in 1..Len(stream) + Len(line) :
            stream'[i] = IF i =< Len(stream) THEN stream[i] ELSE line[i - Len(stream)]
  <2>1. stream \in Seq(Byte) /\ line \in Seq(Byte)
    BY <1>2, <1>3, SeqMonotonic DEF Byte
  <2>2. QED
    BY <1>4, <2>1, Concatenated, Zenon
<1>6. /\ Len(sent') = l + 1 /\ sent'[l + 1] = body
      /\ \A i \in 1..l : sent'[i] = sent[i]
  BY <1>0, <1>2, <1>4
<1>7. Len(stream) \in Nat
  BY <1>2
<1>8. /\ f \in Seq(Nat) /\ Len(f) = l + 2 /\ f[l + 2] = Len(stream) + Len(body) + 2
      /\ \A i \in 1..l + 1 : f[i] = e[i]
  BY <1>2, <1>3, <1>7, <1>f
<1> HIDE DEF line
<1>9. ASSUME NEW i \in 1..l + 1
      PROVE  /\ f[i + 1] = f[i] + Len(sent'[i]) + 2
             /\ f[i + 1] =< Len(stream')
             /\ \A j \in 1..Len(sent'[i]) + 2 : stream'[f[i] + j] = (sent'[i] \o CRLF)[j]
  <2>1. CASE i = l + 1
    <3>1. f[i] = Len(stream) /\ f[i + 1] = Len(stream) + Len(body) + 2 /\ sent'[i] = body
      BY <1>2, <1>6, <1>8, <2>1
    <3>2. ASSUME NEW j \in 1..Len(body) + 2 PROVE stream'[Len(stream) + j] = line[j]
      <4>1. /\ Len(stream) + j \in 1..Len(stream) + Len(line)
            /\ ~(Len(stream) + j =< Len(stream)) /\ (Len(stream) + j) - Len(stream) = j
        BY <1>3, <1>7
      <4>2. QED
        BY <1>5, <4>1
    <3>3. f[i + 1] = f[i] + Len(sent'[i]) + 2 /\ f[i + 1] =< Len(stream')
      BY <1>3, <1>5, <1>7, <3>1
    <3>4. \A j \in 1..Len(body) + 2 : stream'[Len(stream) + j] = (body \o CRLF)[j]
      BY <3>2 DEF line
    <3>5. QED
      BY <3>1, <3>3, <3>4, Zenon
  <2>2. CASE i \in 1..l
    <3>1. /\ e[i + 1] = e[i] + Len(sent[i]) + 2 /\ e[i + 1] =< Len(stream)
          /\ \A j \in 1..Len(sent[i]) + 2 : stream[e[i] + j] = (sent[i] \o CRLF)[j]
      BY <1>0, <1>1, <2>2 DEF LineEnds
    <3>2. f[i] = e[i] /\ f[i + 1] = e[i + 1] /\ sent'[i] = sent[i] /\ i + 1 \in 1..l + 1
      <4>1. i \in 1..l + 1 /\ i + 1 \in 1..l + 1
        BY <1>2, <2>2
      <4>2. QED
        BY <1>6, <1>8, <2>2, <4>1
    <3>3. e[i] \in Nat /\ e[i + 1] \in Nat
      BY <1>2, <2>2
    <3>4. Len(sent[i]) \in Nat
      <4>1. sent[i] \in Bodies
        BY <1>0, <2>2, ElementOfSeq
      <4>2. QED
        BY <4>1, LineShape
    <3>5. ASSUME NEW j \in 1..Len(sent[i]) + 2 PROVE stream'[e[i] + j] = stream[e[i] + j]
      <4>1. e[i] + j \in 1..Len(stream) + Len(line) /\ e[i] + j =< Len(stream)
        <5>1. PICK a, b : a = e[i] /\ b = Len(sent[i])
          OBVIOUS
        <5>2. a + b + 2 =< Len(stream) /\ a \in Nat /\ b \in Nat /\ j \in 1..b + 2
          BY <3>1, <3>3, <3>4, <5>1
        <5>3. a + j \in 1..Len(stream) + Len(line) /\ a + j =< Len(stream)
          BY <1>3, <1>7, <5>2
        <5>4. QED
          BY <5>1, <5>3
      <4>2. QED
        BY <1>5, <4>1
    <3>6. f[i + 1] =< Len(stream')
      BY <1>3, <1>5, <1>7, <3>1, <3>2, <3>3
    <3>7. QED
      BY <3>1, <3>2, <3>5, <3>6
  <2>3. i = l + 1 \/ i \in 1..l
    BY <1>2
  <2>4. QED
    BY <2>1, <2>2, <2>3
<1>10. LineEnds(f)'
  <2>0. f[1] = 0
    BY <1>2, <1>3, <1>5, <1>7, <1>8
  <2>1. f[(l + 1) + 1] = Len(stream')
    BY <1>2, <1>3, <1>5, <1>7, <1>8
  <2>2. f \in Seq(Nat) /\ Len(f) = Len(sent') + 1 /\ f[Len(sent') + 1] = Len(stream')
    BY <1>2, <1>6, <1>8, <2>1
  <2>3. QED
    BY <1>0, <1>4, <1>6, <1>9, <2>0, <2>2, Zenon DEF LineEnds
<1>11. QED
  BY <1>0, <1>8, <1>10

LEMMA SendAligned ==
    ASSUME BufferInv, sent \in Seq(Bodies), Aligned, NEW body \in Bodies, SendLine(body)
    PROVE  Aligned'
<1>1. PICK e : LineEnds(e) /\ (~spoiled => \E m \in 1..Len(sent) + 1 : Len(taken) = e[m])
  BY DEF Aligned
<1>2. PICK f : LineEnds(f)' /\ \A i \in 1..Len(sent) + 1 : f[i] = e[i]
  BY <1>1, SendEnds
<1>3. taken' = taken /\ spoiled' = spoiled /\ Len(sent') = Len(sent) + 1 /\ Len(sent) \in Nat
  BY DEF SendLine
<1>4. ~spoiled' => \E m \in 1..Len(sent') + 1 : Len(taken') = f[m]
  <2> SUFFICES ASSUME ~spoiled' PROVE \E m \in 1..Len(sent') + 1 : Len(taken') = f[m]
    OBVIOUS
  <2>1. PICK m \in 1..Len(sent) + 1 : Len(taken) = e[m]
    BY <1>1, <1>3
  <2>2. m \in 1..Len(sent') + 1 /\ Len(taken') = f[m]
    BY <1>2, <1>3, <2>1
  <2>3. QED
    BY <2>2
<1>5. QED
  BY <1>2, <1>4 DEF Aligned

\* Cutting off a line goes on to the next end.
LEMMA TakeEnds ==
    ASSUME BufferInv, sent \in Seq(Bodies), ~spoiled, NEW line, TakeLine(line),
           NEW e, LineEnds(e), NEW m \in 1..Len(sent) + 1, Len(taken) = e[m]
    PROVE  /\ m \in 1..Len(sent) /\ line = sent[m] \o CRLF
           /\ m + 1 \in 1..Len(sent) + 1 /\ Len(taken') = e[m + 1]
<1>1. /\ line = FirstLine(buf) /\ FirstLine(buf) # <<>> /\ taken' = taken \o line
      /\ sent' = sent /\ stream' = stream
  BY DEF TakeLine
<1>2. m \in 1..Len(sent) /\ line = sent[m] \o CRLF /\ Len(line) = Len(sent[m]) + 2
  BY <1>1, NextLine
<1>3. Len(taken') = Len(taken) + Len(line)
  <2>1. PICK n \in 2..pos : line = SubSeq(buf, 1, n)
    BY <1>1, LineCut
  <2>2. line \in Seq(Byte) /\ taken \in Seq(Byte)
    BY <2>1, Prefix, SizeAssumption DEF BufferInv, BufferTypes
  <2>3. QED
    BY <1>1, <2>2, Concatenated
<1>4. e[m + 1] = e[m] + Len(sent[m]) + 2
  BY <1>2 DEF LineEnds
<1>5. Len(sent) \in Nat /\ e[m] \in Nat
  <2>1. Len(sent) \in Nat /\ e \in Seq(Nat) /\ Len(e) = Len(sent) + 1
    BY DEF LineEnds
  <2>2. QED
    BY <2>1, ElementOfSeq
<1>6. Len(sent[m]) \in Nat
  <2>1. sent[m] \in Bodies
    BY <1>2, ElementOfSeq
  <2>2. QED
    BY <2>1, LineShape
<1>7. Len(taken') = e[m + 1]
  <2>1. Len(line) = Len(sent[m]) + 2
    BY <1>2
  <2>2. e[m] + Len(line) = e[m] + Len(sent[m]) + 2
    BY <1>5, <1>6, <2>1
  <2>3. QED
    BY <1>3, <1>4, <2>2
<1>8. QED
  BY <1>2, <1>5, <1>7

LEMMA TakeAligned ==
    ASSUME BufferInv, sent \in Seq(Bodies), Aligned, NEW line, TakeLine(line), spoiled => spoiled'
    PROVE  Aligned'
<1>1. PICK e : LineEnds(e) /\ (~spoiled => \E m \in 1..Len(sent) + 1 : Len(taken) = e[m])
  BY DEF Aligned
<1>2. sent' = sent /\ stream' = stream
  BY DEF TakeLine
<1>3. LineEnds(e)'
  BY <1>1, <1>2 DEF LineEnds
<1>4. ~spoiled' => \E m \in 1..Len(sent') + 1 : Len(taken') = e[m]
  <2> SUFFICES ASSUME ~spoiled' PROVE \E m \in 1..Len(sent) + 1 : Len(taken') = e[m]
    BY <1>2
  <2>1. ~spoiled
    OBVIOUS
  <2>2. PICK m \in 1..Len(sent) + 1 : Len(taken) = e[m]
    BY <1>1, <2>1
  <2>3. m + 1 \in 1..Len(sent) + 1 /\ Len(taken') = e[m + 1]
    BY <1>1, <2>1, <2>2, TakeEnds
  <2>4. QED
    BY <2>3
<1>5. QED
  BY <1>3, <1>4 DEF Aligned

\* A free place in buf stays a NUL when a read fills the places before it.
LEMMA ReadSearched ==
    ASSUME BufferInv, SearchedOK, NEW n \in 1..Size, Read(n)
    PROVE  SearchedOK'
<1>1. pos \in 0..Size /\ Size \in Nat \ {0}
  BY SizeAssumption DEF BufferInv, BufferTypes
<1>2. /\ buf' = [i \in 1..Size |-> IF i \in pos + 1..pos + n THEN wire[i - pos] ELSE buf[i]]
      /\ pos' = pos + n /\ pc' = "scan"
  BY DEF Read
<1>3. ASSUME pos' < Size PROVE buf'[Size] = "NUL"
  <2>1. pos < Size /\ Size \notin pos + 1..pos + n /\ Size \in 1..Size
    BY <1>1, <1>2, <1>3
  <2>2. QED
    BY <1>2, <2>1 DEF SearchedOK
<1>4. QED
  BY <1>2, <1>3 DEF SearchedOK

\* Zeroes follow what is moved to the front, and a text that is printed.
LEMMA TakeSearched ==
    ASSUME BufferInv, NEW line, TakeLine(line), pc' # "read",
           \/ buf' = Shifted(line)
           \/ \E k \in 1..(Size - 1) : buf' = Fill("text", k) \o Fill("NUL", Size - k)
    PROVE  SearchedOK'
<1>1. /\ Size \in Nat \ {0} /\ buf \in Seq(Byte) /\ Len(buf) = Size /\ pos \in 0..Size
      /\ pc' # "read"
  BY SizeAssumption DEF BufferInv, BufferTypes, TakeLine
<1>2. CASE buf' = Shifted(line)
  <2>1. PICK n \in 2..pos : Len(line) = n
    BY LineCut DEF TakeLine
  <2> DEFINE rest == SubSeq(buf, n + 1, Size)
             zero == Fill("NUL", n)
  <2>2. rest \in Seq(Byte) /\ Len(rest) = Size - n
    <3>1. \A i \in n + 1..Size : buf[i] \in Byte
      BY <1>1, ElementOfSeq
    <3>2. n + 1 \in Int /\ Size \in Int
      BY <1>1
    <3>3. rest \in Seq(Byte) /\ Len(rest) = IF n + 1 =< Size THEN Size - (n + 1) + 1 ELSE 0
      BY <3>1, <3>2, SubSeqProperties
    <3>4. QED
      BY <1>1, <3>3
  <2>3. zero \in Seq(Byte) /\ Len(zero) = n /\ zero[n] = "NUL"
    <3>1. n \in Nat /\ n \in 1..n /\ "NUL" \in Byte
      BY DEF Byte, Char
    <3>2. QED
      BY <3>1, FillType
  <2>4. buf' = rest \o zero
    BY <1>2, <2>1 DEF Shifted
  <2> HIDE DEF rest, zero
  <2>5. \A i \in 1..Len(rest) + Len(zero) :
            (rest \o zero)[i] = IF i =< Len(rest) THEN rest[i] ELSE zero[i - Len(rest)]
    BY <2>2, <2>3, Concatenated, Zenon
  <2>6. Size \in 1..Len(rest) + Len(zero) /\ ~(Size =< Len(rest)) /\ Size - Len(rest) = n
    BY <1>1, <2>2, <2>3
  <2>7. buf'[Size] = "NUL"
    BY <2>3, <2>4, <2>5, <2>6
  <2>8. QED
    BY <1>1, <2>7 DEF SearchedOK
<1>3. ASSUME NEW k \in 1..(Size - 1), buf' = Fill("text", k) \o Fill("NUL", Size - k)
      PROVE  SearchedOK'
  <2> DEFINE text == Fill("text", k)
             zero == Fill("NUL", Size - k)
  <2>1. k \in 1..Size - 1
    BY <1>3
  <2>2. text \in Seq(Byte) /\ Len(text) = k
    <3>1. k \in Nat /\ "text" \in Byte
      BY <2>1 DEF Byte
    <3>2. QED
      BY <3>1, FillType
  <2>3. zero \in Seq(Byte) /\ Len(zero) = Size - k /\ zero[Size - k] = "NUL"
    <3>1. Size - k \in Nat /\ Size - k \in 1..Size - k /\ "NUL" \in Byte
      BY <1>1, <2>1, ZeroByte
    <3>2. QED
      BY <3>1, FillType
  <2>4. buf' = text \o zero
    BY <1>3
  <2> HIDE DEF text, zero
  <2>5. \A i \in 1..Len(text) + Len(zero) :
            (text \o zero)[i] = IF i =< Len(text) THEN text[i] ELSE zero[i - Len(text)]
    BY <2>2, <2>3, Concatenated, Zenon
  <2>6. Size \in 1..Len(text) + Len(zero) /\ ~(Size =< Len(text)) /\ Size - Len(text) = Size - k
    BY <1>1, <2>1, <2>2, <2>3
  <2>7. buf'[Size] = "NUL"
    BY <2>3, <2>4, <2>5, <2>6
  <2>8. QED
    BY <1>1, <2>7 DEF SearchedOK
<1>4. QED
  BY <1>2, <1>3

\* A read of 0 bytes: the client has hung up, or a line did not fit.
LEMMA NothingJustified ==
    ASSUME BufferInv, JustInv, ReadNothing
    PROVE  DisconnectJustified'
<1>1. UNCHANGED <<sent, hungUp, spoiled, handled>>
  BY DEF ReadNothing
<1>2. hungUp \/ spoiled \/ ~LinesFit
  <2>1. CASE pos = Size
    <3>1. FirstLine(buf) = <<>>
      BY DEF JustInv, SearchedOK, ReadNothing
    <3>2. QED
      BY <2>1, <3>1, TooLong DEF JustInv
  <2>2. CASE hungUp
    BY <2>2
  <2>3. QED
    BY <2>1, <2>2 DEF ReadNothing
<1>3. QED
  BY <1>1, <1>2 DEF DisconnectJustified, LinesFit

\* A search that leaves buf, or a line that fills full_command: a line did not fit.
LEMMA RunOutJustified ==
    ASSUME BufferInv, JustInv, RunOut
    PROVE  DisconnectJustified'
<1>1. UNCHANGED <<sent, hungUp, spoiled, handled>>
  BY DEF RunOut
<1>2. spoiled \/ ~LinesFit
  <2> SUFFICES ASSUME ~spoiled PROVE ~LinesFit
    OBVIOUS
  <2>1. CASE RunsOut(buf)
    <3>1. FirstLine(buf) = <<>> /\ \A i \in 1..Len(buf) : buf[i] # "NUL"
      BY <2>1 DEF RunsOut
    <3>2. Len(buf) = Size /\ Size \in 1..Size /\ pos \in 0..Size
      BY SizeAssumption DEF BufferInv, BufferTypes
    <3>3. pos = Size
      BY <3>1, <3>2 DEF JustInv, SearchedOK
    <3>4. QED
      BY <3>1, <3>3, TooLong DEF JustInv
  <2>2. CASE FirstLine(buf) # <<>> /\ Len(trim_space(FirstLine(buf))) = Size
    <3>1. PICK e : LineEnds(e) /\ \E m \in 1..Len(sent) + 1 : Len(taken) = e[m]
      BY DEF JustInv, Aligned
    <3>2. PICK m \in 1..Len(sent) + 1 : Len(taken) = e[m]
      BY <3>1
    <3>3. m \in 1..Len(sent) /\ FirstLine(buf) = sent[m] \o CRLF
      BY <2>2, <3>1, <3>2, NextLine DEF JustInv
    <3>4. m \in DOMAIN sent /\ Len(trim_space(sent[m] \o CRLF)) = Size
      BY <2>2, <3>3 DEF JustInv
    <3>5. ~(Size < Size)
      BY SizeAssumption
    <3>6. QED
      BY <3>4, <3>5 DEF LinesFit
  <2>3. QED
    BY <2>1, <2>2 DEF RunOut
<1>3. QED
  BY <1>1, <1>2 DEF DisconnectJustified, LinesFit

LEMMA JustInit == Init => JustInv
<1> SUFFICES ASSUME Init PROVE JustInv
  OBVIOUS
<1>1. /\ sent = <<>> /\ stream = <<>> /\ taken = <<>> /\ pc = "read" /\ buf = Fill("NUL", Size)
      /\ Size \in Nat \ {0}
  BY SizeAssumption DEF Init
<1>2. \A i \in 1..Size : buf[i] = "NUL"
  BY <1>1, FillType, ZeroByte
<1>3. FirstLine(buf) = <<>>
  <2>1. Len(buf) = Size
    BY <1>1, FillType, ZeroByte
  <2>2. \A i \in 2..Len(buf) : buf[i] # "LF"
    BY <1>1, <1>2, <2>1
  <2>3. QED
    BY <2>2 DEF FirstLine
<1>4. SearchedOK
  BY <1>1, <1>2, <1>3 DEF SearchedOK
<1>5. Aligned
  <2>1. LineEnds(<<0>>)
    BY <1>1 DEF LineEnds
  <2>2. 1 \in 1..Len(sent) + 1 /\ Len(taken) = <<0>>[1]
    BY <1>1
  <2>3. QED
    BY <2>1, <2>2 DEF Aligned
<1>6. QED
  BY <1>1, <1>4, <1>5 DEF JustInv, DisconnectJustified, Over

LEMMA JustStep ==
    BufferInv /\ JustInv /\ handled \in Seq(Seq(Byte)) /\ [Next]_vars => JustInv'
<1> SUFFICES ASSUME BufferInv, JustInv, handled \in Seq(Seq(Byte)), [Next]_vars PROVE JustInv'
  OBVIOUS
<1>0. sent \in Seq(Bodies) /\ Aligned /\ SearchedOK /\ DisconnectJustified /\ spoiled \in BOOLEAN
  BY DEF JustInv, BufferInv, BufferTypes
<1>1. ASSUME UNCHANGED <<sent, stream, taken, spoiled>>
      PROVE  sent' \in Seq(Bodies) /\ Aligned'
  <2>1. PICK e : LineEnds(e) /\ (~spoiled => \E m \in 1..Len(sent) + 1 : Len(taken) = e[m])
    BY <1>0 DEF Aligned
  <2>2. LineEnds(e)'
    BY <1>1, <2>1 DEF LineEnds
  <2>3. QED
    BY <1>0, <1>1, <2>1, <2>2 DEF Aligned
<1>2. ASSUME UNCHANGED <<sent, hungUp, pc>>, spoiled => spoiled', QuitHandled => QuitHandled'
      PROVE  DisconnectJustified'
  BY <1>0, <1>2 DEF DisconnectJustified, LinesFit, Over
<1>3. ASSUME NEW body \in Bodies, SendLine(body) PROVE JustInv'
  <2>1. Aligned'
    BY <1>0, <1>3, SendAligned
  <2>2. SearchedOK'
    BY <1>0, <1>3 DEF SearchedOK, SendLine
  <2>3. sent' = Append(sent, body) /\ UNCHANGED <<hungUp, pc, spoiled, handled>>
    BY <1>3 DEF SendLine
  <2>4. sent' \in Seq(Bodies)
    BY <1>0, <2>3
  <2>5. LinesFit' => LinesFit
    <3>1. \A i \in DOMAIN sent : i \in DOMAIN sent' /\ sent'[i] = sent[i]
      BY <1>0, <2>3
    <3>2. QED
      BY <3>1 DEF LinesFit
  <2>6. DisconnectJustified'
    BY <1>0, <2>3, <2>5 DEF DisconnectJustified, Over, QuitHandled
  <2>7. QED
    BY <2>1, <2>2, <2>4, <2>6 DEF JustInv
<1>4. CASE HangUp
  <2>1. SearchedOK'
    BY <1>0, <1>4 DEF SearchedOK, HangUp
  <2>2. DisconnectJustified'
    BY <1>4 DEF DisconnectJustified, HangUp
  <2>3. QED
    BY <1>1, <1>4, <2>1, <2>2 DEF JustInv, HangUp
<1>5. ASSUME NEW n \in 1..Size, Read(n) PROVE JustInv'
  <2>1. SearchedOK'
    BY <1>0, <1>5, ReadSearched
  <2>2. DisconnectJustified'
    BY <1>5 DEF DisconnectJustified, Over, Read
  <2>3. QED
    BY <1>1, <1>5, <2>1, <2>2 DEF JustInv, Read
<1>6. CASE ReadNothing
  <2>1. SearchedOK'
    BY <1>0, <1>6 DEF SearchedOK, ReadNothing
  <2>2. QED
    BY <1>1, <1>6, <2>1, NothingJustified DEF JustInv, ReadNothing
<1>7. CASE SkipBlank
  <2>1. PICK line : TakeLine(line) /\ buf' = Shifted(line) /\ UNCHANGED <<pc, handled, spoiled>>
    BY <1>7 DEF SkipBlank
  <2>2. UNCHANGED <<sent, hungUp>> /\ pc' # "read" /\ (QuitHandled => QuitHandled')
    BY <2>1 DEF TakeLine, QuitHandled
  <2>3. Aligned'
    BY <1>0, <2>1, TakeAligned
  <2>4. SearchedOK'
    BY <2>1, <2>2, TakeSearched
  <2>5. QED
    BY <1>0, <1>2, <2>1, <2>2, <2>3, <2>4 DEF JustInv
<1>8. ASSUME NEW k, NEW line, TakeLine(line), Dispatch(line, k), k = 0 \/ k \in 1..(Size - 1),
             pc' # "read"
      PROVE  UNCHANGED <<sent, hungUp>> /\ (spoiled => spoiled') /\ Aligned' /\ SearchedOK'
  <2>1. UNCHANGED <<sent, hungUp>>
    BY <1>8 DEF TakeLine
  <2>2. spoiled => spoiled'
    BY <1>8, Zenon DEF Dispatch
  <2>3. Aligned'
    BY <1>0, <1>8, <2>2, TakeAligned
  <2>4. \/ buf' = Shifted(line)
        \/ \E t \in 1..(Size - 1) : buf' = Fill("text", t) \o Fill("NUL", Size - t)
    BY <1>8, Zenon DEF Dispatch
  <2>5. SearchedOK'
    BY <1>8, <2>4, TakeSearched
  <2>6. QED
    BY <2>1, <2>2, <2>3, <2>5
<1>l. ASSUME NEW k \in TextLen \union {0}, HandleLine(k) PROVE JustInv'
  <2>1. k = 0 \/ k \in 1..(Size - 1)
    BY TextAssumption
  <2>2. PICK line : TakeLine(line) /\ Dispatch(line, k) /\ UNCHANGED pc
    BY <1>l DEF HandleLine
  <2>3. pc' # "read"
    BY <2>2 DEF TakeLine
  <2>4. UNCHANGED <<sent, hungUp>> /\ (spoiled => spoiled') /\ Aligned' /\ SearchedOK'
    BY <1>8, <2>1, <2>2, <2>3
  <2>5. DisconnectJustified'
    BY <2>2 DEF DisconnectJustified, Over, TakeLine
  <2>6. QED
    BY <1>0, <2>4, <2>5 DEF JustInv
<1>q. ASSUME NEW k \in QuitLen, Quit(k) PROVE JustInv'
  <2>1. PICK line, l : /\ TakeLine(line) /\ ~Blank(line) /\ Dispatch(line, l)
                       /\ l = 0 \/ l \in 1..(Size - 1)
                       /\ Words(FullCommand(line)) \in Quits
                       /\ pc' \in {"closed", "undefined"}
    BY <1>q, QuitDispatch
  <2>2. UNCHANGED <<sent, hungUp>> /\ (spoiled => spoiled') /\ Aligned' /\ SearchedOK'
    BY <1>8, <2>1
  <2>3. handled' = Append(handled, FullCommand(line))
    BY <2>1 DEF Dispatch
  <2>4. Len(handled') \in DOMAIN handled' /\ handled'[Len(handled')] = FullCommand(line)
    BY <2>3
  <2>5. QuitHandled'
    BY <2>1, <2>4 DEF QuitHandled
  <2>6. QED
    BY <1>0, <2>2, <2>5 DEF JustInv, DisconnectJustified
<1>9. CASE NoLine
  <2>1. SearchedOK'
    BY <1>0, <1>9 DEF SearchedOK, NoLine
  <2>2. DisconnectJustified'
    BY <1>9 DEF DisconnectJustified, Over, NoLine
  <2>3. QED
    BY <1>1, <1>9, <2>1, <2>2 DEF JustInv, NoLine
<1>10. CASE RunOut
  <2>1. SearchedOK'
    BY <1>0, <1>10 DEF SearchedOK, RunOut
  <2>2. QED
    BY <1>1, <1>10, <2>1, RunOutJustified DEF JustInv, RunOut
<1>11. CASE UNCHANGED vars
  <2>1. SearchedOK'
    BY <1>0, <1>11 DEF SearchedOK, vars
  <2>2. QED
    BY <1>1, <1>2, <1>11, <2>1 DEF JustInv, vars, QuitHandled
<1>12. QED
  BY <1>3, <1>4, <1>5, <1>6, <1>7, <1>l, <1>q, <1>9, <1>10, <1>11 DEF Next, ThreadStep

-----------------------------------------------------------------------------
(* Words, trimmed lines and commands, one character or line after the other *)

WordStep(s, i, words) == GoesOn(words, s[i], i > 1 /\ s[i - 1] # " ")

TrimStep(s, i, out) ==
    IF s[i] # " " \/ (i > 1 /\ s[i - 1] # " ") THEN Append(out, s[i]) ELSE out

CommandStep(lines, i, commands) ==
    IF Words(lines[i]) = <<>> THEN commands ELSE Append(commands, Words(lines[i]))

WordsAt(f, s) == f = [i \in 0..Len(s) |-> IF i = 0 THEN <<>> ELSE WordStep(s, i, f[i - 1])]

LEMMA WordsDefined ==
    ASSUME NEW A, NEW s \in Seq(A)
    PROVE  \E f : WordsAt(f, s) /\ Words(s) = f[Len(s)]
<1>1. PICK l : l = Len(s)
  OBVIOUS
<1>2. l \in Nat
  BY <1>1
<1>3. PICK T : T = {k \in Nat : \E f : f = [i \in 0..k |-> IF i = 0 THEN <<>> ELSE WordStep(s, i, f[i - 1])]}
  OBVIOUS
<1>4. 0 \in T
  <2>1. PICK f : f = [i \in 0..0 |-> <<>>]
    OBVIOUS
  <2>2. f = [i \in 0..0 |-> IF i = 0 THEN <<>> ELSE WordStep(s, i, f[i - 1])]
    BY <2>1
  <2>3. QED
    BY <1>3, <2>2
<1>5. \A k \in Nat : k \in T => k + 1 \in T
  <2> SUFFICES ASSUME NEW k \in Nat, k \in T PROVE k + 1 \in T
    OBVIOUS
  <2>1. PICK f : f = [i \in 0..k |-> IF i = 0 THEN <<>> ELSE WordStep(s, i, f[i - 1])]
    BY <1>3
  <2>2. PICK g : g = [i \in 0..(k + 1) |-> IF i = 0 THEN <<>> ELSE WordStep(s, i, f[i - 1])]
    OBVIOUS
  <2>3. \A i \in 0..k : g[i] = f[i]
    <3>1. \A i \in 0..k : f[i] = IF i = 0 THEN <<>> ELSE WordStep(s, i, f[i - 1])
      BY <2>1, Zenon
    <3>2. \A i \in 0..(k + 1) : g[i] = IF i = 0 THEN <<>> ELSE WordStep(s, i, f[i - 1])
      BY <2>2, Zenon
    <3>3. \A i \in 0..k : i \in 0..(k + 1)
      OBVIOUS
    <3>4. QED
      BY <3>1, <3>2, <3>3, Zenon
  <2>4. \A i \in 0..(k + 1) : i # 0 => g[i - 1] = f[i - 1]
    BY <2>3
  <2>5. g = [i \in 0..(k + 1) |-> IF i = 0 THEN <<>> ELSE WordStep(s, i, g[i - 1])]
    BY <2>2, <2>4
  <2>6. k + 1 \in Nat
    OBVIOUS
  <2>7. QED
    BY <1>3, <2>5, <2>6, Zenon
<1>6. l \in T
  BY <1>2, <1>4, <1>5, Induction
<1>7. PICK f : f = CHOOSE g : WordsAt(g, s)
  OBVIOUS
<1>8. WordsAt(f, s)
  BY <1>1, <1>3, <1>6, <1>7, Zenon DEF WordsAt
<1>9. Words(s) = f[Len(s)]
  BY <1>7, Zenon DEF Words, WordsAt, WordStep
<1>10. QED
  BY <1>8, <1>9

LEMMA WordsEmpty ==
    Words(<<>>) = <<>>
<1>1. PICK s : s = <<>>
  OBVIOUS
<1>2. s \in Seq({}) /\ Len(s) = 0
  BY <1>1
<1>3. PICK f : WordsAt(f, s) /\ Words(s) = f[Len(s)]
  BY <1>2, WordsDefined
<1>4. 0 \in 0..Len(s)
  BY <1>2
<1>5. f[0] = <<>>
  BY <1>3, <1>4 DEF WordsAt
<1>6. QED
  BY <1>1, <1>2, <1>3, <1>5

LEMMA WordsAppended ==
    ASSUME NEW A, NEW s \in Seq(A), NEW c \in A, NEW t, t = Append(s, c)
    PROVE  Words(t) = WordStep(t, Len(s) + 1, Words(s))
<1>1. PICK l : l = Len(s)
  OBVIOUS
<1>2. l \in Nat /\ t \in Seq(A) /\ Len(t) = l + 1 /\ \A i \in 1..l : t[i] = s[i]
  BY <1>1
<1>3. PICK f : WordsAt(f, s) /\ Words(s) = f[l]
  BY <1>1, WordsDefined
<1>4. PICK g : WordsAt(g, t) /\ Words(t) = g[l + 1]
  BY <1>2, WordsDefined
<1>5. \A i \in 0..l : f[i] = IF i = 0 THEN <<>> ELSE WordStep(s, i, f[i - 1])
  BY <1>1, <1>3, Zenon DEF WordsAt
<1>6. \A i \in 0..(l + 1) : g[i] = IF i = 0 THEN <<>> ELSE WordStep(t, i, g[i - 1])
  BY <1>2, <1>4, Zenon DEF WordsAt
<1>7. ASSUME NEW i \in 1..l, NEW w PROVE WordStep(t, i, w) = WordStep(s, i, w)
  <2>1. t[i] = s[i] /\ (i > 1 => t[i - 1] = s[i - 1])
    BY <1>2
  <2>2. QED
    BY <2>1 DEF WordStep
<1>8. PICK T : T = {i \in 0..l : g[i] = f[i]}
  OBVIOUS
<1>9. 0 \in T
  <2>1. 0 \in 0..l /\ 0 \in 0..(l + 1)
    BY <1>2
  <2>2. f[0] = <<>> /\ g[0] = <<>>
    BY <1>5, <1>6, <2>1, Zenon
  <2>3. QED
    BY <1>8, <2>1, <2>2
<1>10. \A i \in 0..(l - 1) : i \in T => i + 1 \in T
  <2> SUFFICES ASSUME NEW i \in 0..(l - 1), i \in T PROVE i + 1 \in T
    OBVIOUS
  <2>1. PICK j : j = i + 1
    OBVIOUS
  <2>2. j \in 1..l /\ j \in 0..l /\ j \in 0..(l + 1) /\ j # 0 /\ j - 1 = i
    BY <1>2, <2>1
  <2>3. g[i] = f[i]
    BY <1>8
  <2>4. f[j] = WordStep(s, j, f[i])
    BY <1>5, <2>2, Zenon
  <2>5. g[j] = WordStep(t, j, g[i])
    BY <1>6, <2>2, Zenon
  <2>6. g[j] = f[j]
    BY <1>7, <2>2, <2>3, <2>4, <2>5
  <2>7. QED
    BY <1>8, <2>1, <2>2, <2>6
<1>11. l \in T
  <2>1. \A i \in 0..l : i \in T
    BY <1>2, <1>9, <1>10, InductionTo
  <2>2. l \in 0..l
    BY <1>2
  <2>3. QED
    BY <2>1, <2>2
<1>12. l + 1 \in 0..(l + 1) /\ l + 1 # 0 /\ (l + 1) - 1 = l
  BY <1>2
<1>13. g[l + 1] = WordStep(t, l + 1, g[l])
  BY <1>6, <1>12, Zenon
<1>14. QED
  BY <1>1, <1>3, <1>4, <1>8, <1>11, <1>13

TrimAt(f, s) == f = [i \in 0..Len(s) |-> IF i = 0 THEN <<>> ELSE TrimStep(s, i, f[i - 1])]

LEMMA TrimDefined ==
    ASSUME NEW A, NEW s \in Seq(A)
    PROVE  \E f : TrimAt(f, s) /\ trim_space(s) = f[Len(s)]
<1>1. PICK l : l = Len(s)
  OBVIOUS
<1>2. l \in Nat
  BY <1>1
<1>3. PICK T : T = {k \in Nat : \E f : f = [i \in 0..k |-> IF i = 0 THEN <<>> ELSE TrimStep(s, i, f[i - 1])]}
  OBVIOUS
<1>4. 0 \in T
  <2>1. PICK f : f = [i \in 0..0 |-> <<>>]
    OBVIOUS
  <2>2. f = [i \in 0..0 |-> IF i = 0 THEN <<>> ELSE TrimStep(s, i, f[i - 1])]
    BY <2>1
  <2>3. QED
    BY <1>3, <2>2
<1>5. \A k \in Nat : k \in T => k + 1 \in T
  <2> SUFFICES ASSUME NEW k \in Nat, k \in T PROVE k + 1 \in T
    OBVIOUS
  <2>1. PICK f : f = [i \in 0..k |-> IF i = 0 THEN <<>> ELSE TrimStep(s, i, f[i - 1])]
    BY <1>3
  <2>2. PICK g : g = [i \in 0..(k + 1) |-> IF i = 0 THEN <<>> ELSE TrimStep(s, i, f[i - 1])]
    OBVIOUS
  <2>3. \A i \in 0..k : g[i] = f[i]
    <3>1. \A i \in 0..k : f[i] = IF i = 0 THEN <<>> ELSE TrimStep(s, i, f[i - 1])
      BY <2>1, Zenon
    <3>2. \A i \in 0..(k + 1) : g[i] = IF i = 0 THEN <<>> ELSE TrimStep(s, i, f[i - 1])
      BY <2>2, Zenon
    <3>3. \A i \in 0..k : i \in 0..(k + 1)
      OBVIOUS
    <3>4. QED
      BY <3>1, <3>2, <3>3, Zenon
  <2>4. \A i \in 0..(k + 1) : i # 0 => g[i - 1] = f[i - 1]
    BY <2>3
  <2>5. g = [i \in 0..(k + 1) |-> IF i = 0 THEN <<>> ELSE TrimStep(s, i, g[i - 1])]
    BY <2>2, <2>4
  <2>6. k + 1 \in Nat
    OBVIOUS
  <2>7. QED
    BY <1>3, <2>5, <2>6, Zenon
<1>6. l \in T
  BY <1>2, <1>4, <1>5, Induction
<1>7. PICK f : f = CHOOSE g : TrimAt(g, s)
  OBVIOUS
<1>8. TrimAt(f, s)
  BY <1>1, <1>3, <1>6, <1>7, Zenon DEF TrimAt
<1>9. trim_space(s) = f[Len(s)]
  BY <1>7, Zenon DEF trim_space, TrimAt, TrimStep
<1>10. QED
  BY <1>8, <1>9

LEMMA TrimEmpty ==
    trim_space(<<>>) = <<>>
<1>1. PICK s : s = <<>>
  OBVIOUS
<1>2. s \in Seq({}) /\ Len(s) = 0
  BY <1>1
<1>3. PICK f : TrimAt(f, s) /\ trim_space(s) = f[Len(s)]
  BY <1>2, TrimDefined
<1>4. 0 \in 0..Len(s)
  BY <1>2
<1>5. f[0] = <<>>
  BY <1>3, <1>4 DEF TrimAt
<1>6. QED
  BY <1>1, <1>2, <1>3, <1>5

LEMMA TrimAppended ==
    ASSUME NEW A, NEW s \in Seq(A), NEW c \in A, NEW t, t = Append(s, c)
    PROVE  trim_space(t) = TrimStep(t, Len(s) + 1, trim_space(s))
<1>1. PICK l : l = Len(s)
  OBVIOUS
<1>2. l \in Nat /\ t \in Seq(A) /\ Len(t) = l + 1 /\ \A i \in 1..l : t[i] = s[i]
  BY <1>1
<1>3. PICK f : TrimAt(f, s) /\ trim_space(s) = f[l]
  BY <1>1, TrimDefined
<1>4. PICK g : TrimAt(g, t) /\ trim_space(t) = g[l + 1]
  BY <1>2, TrimDefined
<1>5. \A i \in 0..l : f[i] = IF i = 0 THEN <<>> ELSE TrimStep(s, i, f[i - 1])
  BY <1>1, <1>3, Zenon DEF TrimAt
<1>6. \A i \in 0..(l + 1) : g[i] = IF i = 0 THEN <<>> ELSE TrimStep(t, i, g[i - 1])
  BY <1>2, <1>4, Zenon DEF TrimAt
<1>7. ASSUME NEW i \in 1..l, NEW w PROVE TrimStep(t, i, w) = TrimStep(s, i, w)
  <2>1. t[i] = s[i] /\ (i > 1 => t[i - 1] = s[i - 1])
    BY <1>2
  <2>2. QED
    BY <2>1 DEF TrimStep
<1>8. PICK T : T = {i \in 0..l : g[i] = f[i]}
  OBVIOUS
<1>9. 0 \in T
  <2>1. 0 \in 0..l /\ 0 \in 0..(l + 1)
    BY <1>2
  <2>2. f[0] = <<>> /\ g[0] = <<>>
    BY <1>5, <1>6, <2>1, Zenon
  <2>3. QED
    BY <1>8, <2>1, <2>2
<1>10. \A i \in 0..(l - 1) : i \in T => i + 1 \in T
  <2> SUFFICES ASSUME NEW i \in 0..(l - 1), i \in T PROVE i + 1 \in T
    OBVIOUS
  <2>1. PICK j : j = i + 1
    OBVIOUS
  <2>2. j \in 1..l /\ j \in 0..l /\ j \in 0..(l + 1) /\ j # 0 /\ j - 1 = i
    BY <1>2, <2>1
  <2>3. g[i] = f[i]
    BY <1>8
  <2>4. f[j] = TrimStep(s, j, f[i])
    BY <1>5, <2>2, Zenon
  <2>5. g[j] = TrimStep(t, j, g[i])
    BY <1>6, <2>2, Zenon
  <2>6. g[j] = f[j]
    BY <1>7, <2>2, <2>3, <2>4, <2>5
  <2>7. QED
    BY <1>8, <2>1, <2>2, <2>6
<1>11. l \in T
  <2>1. \A i \in 0..l : i \in T
    BY <1>2, <1>9, <1>10, InductionTo
  <2>2. l \in 0..l
    BY <1>2
  <2>3. QED
    BY <2>1, <2>2
<1>12. l + 1 \in 0..(l + 1) /\ l + 1 # 0 /\ (l + 1) - 1 = l
  BY <1>2
<1>13. g[l + 1] = TrimStep(t, l + 1, g[l])
  BY <1>6, <1>12, Zenon
<1>14. QED
  BY <1>1, <1>3, <1>4, <1>8, <1>11, <1>13

CommandsAt(f, s) == f = [i \in 0..Len(s) |-> IF i = 0 THEN <<>> ELSE CommandStep(s, i, f[i - 1])]

LEMMA CommandsDefined ==
    ASSUME NEW A, NEW s \in Seq(A)
    PROVE  \E f : CommandsAt(f, s) /\ Commands(s) = f[Len(s)]
<1>1. PICK l : l = Len(s)
  OBVIOUS
<1>2. l \in Nat
  BY <1>1
<1>3. PICK T : T = {k \in Nat : \E f : f = [i \in 0..k |-> IF i = 0 THEN <<>> ELSE CommandStep(s, i, f[i - 1])]}
  OBVIOUS
<1>4. 0 \in T
  <2>1. PICK f : f = [i \in 0..0 |-> <<>>]
    OBVIOUS
  <2>2. f = [i \in 0..0 |-> IF i = 0 THEN <<>> ELSE CommandStep(s, i, f[i - 1])]
    BY <2>1
  <2>3. QED
    BY <1>3, <2>2
<1>5. \A k \in Nat : k \in T => k + 1 \in T
  <2> SUFFICES ASSUME NEW k \in Nat, k \in T PROVE k + 1 \in T
    OBVIOUS
  <2>1. PICK f : f = [i \in 0..k |-> IF i = 0 THEN <<>> ELSE CommandStep(s, i, f[i - 1])]
    BY <1>3
  <2>2. PICK g : g = [i \in 0..(k + 1) |-> IF i = 0 THEN <<>> ELSE CommandStep(s, i, f[i - 1])]
    OBVIOUS
  <2>3. \A i \in 0..k : g[i] = f[i]
    <3>1. \A i \in 0..k : f[i] = IF i = 0 THEN <<>> ELSE CommandStep(s, i, f[i - 1])
      BY <2>1, Zenon
    <3>2. \A i \in 0..(k + 1) : g[i] = IF i = 0 THEN <<>> ELSE CommandStep(s, i, f[i - 1])
      BY <2>2, Zenon
    <3>3. \A i \in 0..k : i \in 0..(k + 1)
      OBVIOUS
    <3>4. QED
      BY <3>1, <3>2, <3>3, Zenon
  <2>4. \A i \in 0..(k + 1) : i # 0 => g[i - 1] = f[i - 1]
    BY <2>3
  <2>5. g = [i \in 0..(k + 1) |-> IF i = 0 THEN <<>> ELSE CommandStep(s, i, g[i - 1])]
    BY <2>2, <2>4
  <2>6. k + 1 \in Nat
    OBVIOUS
  <2>7. QED
    BY <1>3, <2>5, <2>6, Zenon
<1>6. l \in T
  BY <1>2, <1>4, <1>5, Induction
<1>7. PICK f : f = CHOOSE g : CommandsAt(g, s)
  OBVIOUS
<1>8. CommandsAt(f, s)
  BY <1>1, <1>3, <1>6, <1>7, Zenon DEF CommandsAt
<1>9. Commands(s) = f[Len(s)]
  BY <1>7, Zenon DEF Commands, CommandsAt, CommandStep
<1>10. QED
  BY <1>8, <1>9

LEMMA CommandsEmpty ==
    Commands(<<>>) = <<>>
<1>1. PICK s : s = <<>>
  OBVIOUS
<1>2. s \in Seq({}) /\ Len(s) = 0
  BY <1>1
<1>3. PICK f : CommandsAt(f, s) /\ Commands(s) = f[Len(s)]
  BY <1>2, CommandsDefined
<1>4. 0 \in 0..Len(s)
  BY <1>2
<1>5. f[0] = <<>>
  BY <1>3, <1>4 DEF CommandsAt
<1>6. QED
  BY <1>1, <1>2, <1>3, <1>5

LEMMA CommandsAppended ==
    ASSUME NEW A, NEW s \in Seq(A), NEW c \in A, NEW t, t = Append(s, c)
    PROVE  Commands(t) = CommandStep(t, Len(s) + 1, Commands(s))
<1>1. PICK l : l = Len(s)
  OBVIOUS
<1>2. l \in Nat /\ t \in Seq(A) /\ Len(t) = l + 1 /\ \A i \in 1..l : t[i] = s[i]
  BY <1>1
<1>3. PICK f : CommandsAt(f, s) /\ Commands(s) = f[l]
  BY <1>1, CommandsDefined
<1>4. PICK g : CommandsAt(g, t) /\ Commands(t) = g[l + 1]
  BY <1>2, CommandsDefined
<1>5. \A i \in 0..l : f[i] = IF i = 0 THEN <<>> ELSE CommandStep(s, i, f[i - 1])
  BY <1>1, <1>3, Zenon DEF CommandsAt
<1>6. \A i \in 0..(l + 1) : g[i] = IF i = 0 THEN <<>> ELSE CommandStep(t, i, g[i - 1])
  BY <1>2, <1>4, Zenon DEF CommandsAt
<1>7. ASSUME NEW i \in 1..l, NEW w PROVE CommandStep(t, i, w) = CommandStep(s, i, w)
  <2>1. t[i] = s[i] /\ (i > 1 => t[i - 1] = s[i - 1])
    BY <1>2
  <2>2. QED
    BY <2>1 DEF CommandStep
<1>8. PICK T : T = {i \in 0..l : g[i] = f[i]}
  OBVIOUS
<1>9. 0 \in T
  <2>1. 0 \in 0..l /\ 0 \in 0..(l + 1)
    BY <1>2
  <2>2. f[0] = <<>> /\ g[0] = <<>>
    BY <1>5, <1>6, <2>1, Zenon
  <2>3. QED
    BY <1>8, <2>1, <2>2
<1>10. \A i \in 0..(l - 1) : i \in T => i + 1 \in T
  <2> SUFFICES ASSUME NEW i \in 0..(l - 1), i \in T PROVE i + 1 \in T
    OBVIOUS
  <2>1. PICK j : j = i + 1
    OBVIOUS
  <2>2. j \in 1..l /\ j \in 0..l /\ j \in 0..(l + 1) /\ j # 0 /\ j - 1 = i
    BY <1>2, <2>1
  <2>3. g[i] = f[i]
    BY <1>8
  <2>4. f[j] = CommandStep(s, j, f[i])
    BY <1>5, <2>2, Zenon
  <2>5. g[j] = CommandStep(t, j, g[i])
    BY <1>6, <2>2, Zenon
  <2>6. g[j] = f[j]
    BY <1>7, <2>2, <2>3, <2>4, <2>5
  <2>7. QED
    BY <1>8, <2>1, <2>2, <2>6
<1>11. l \in T
  <2>1. \A i \in 0..l : i \in T
    BY <1>2, <1>9, <1>10, InductionTo
  <2>2. l \in 0..l
    BY <1>2
  <2>3. QED
    BY <2>1, <2>2
<1>12. l + 1 \in 0..(l + 1) /\ l + 1 # 0 /\ (l + 1) - 1 = l
  BY <1>2
<1>13. g[l + 1] = CommandStep(t, l + 1, g[l])
  BY <1>6, <1>12, Zenon
<1>14. QED
  BY <1>1, <1>3, <1>4, <1>8, <1>11, <1>13

-----------------------------------------------------------------------------
(* A trimmed line has the same words *)

\* A sequence that is not empty is another one and an item behind it.
LEMMA SeqParts ==
    ASSUME NEW A, NEW n \in Nat, NEW s \in Seq(A), Len(s) = n + 1
    PROVE  \E p \in Seq(A), c \in A : Len(p) = n /\ s = Append(p, c)
<1>1. PICK p : p = [i \in 1..n |-> s[i]]
  OBVIOUS
<1>2. n + 1 \in 1..Len(s) /\ \A i \in 1..n : i \in 1..Len(s)
  OBVIOUS
<1>3. p \in [1..n -> A] /\ s[n + 1] \in A
  BY <1>1, <1>2
<1>4. p \in Seq(A) /\ Len(p) = n
  BY <1>3
<1>5. PICK t : t = Append(p, s[n + 1])
  OBVIOUS
<1>6. t \in Seq(A) /\ Len(t) = n + 1 /\ t[n + 1] = s[n + 1] /\ \A i \in 1..n : t[i] = p[i]
  BY <1>3, <1>4, <1>5
<1>7. \A i \in 1..(n + 1) : t[i] = s[i]
  <2> TAKE i \in 1..(n + 1)
  <2>1. i \in 1..n \/ i = n + 1
    OBVIOUS
  <2>2. QED
    BY <1>1, <1>6, <2>1
<1>8. t = [i \in 1..(n + 1) |-> t[i]] /\ s = [i \in 1..(n + 1) |-> s[i]]
  BY <1>6
<1>9. t = s
  BY <1>7, <1>8
<1>10. QED
  BY <1>3, <1>4, <1>5, <1>9

\* A word is under way at the end of s.
InWord(s) == s # <<>> /\ s[Len(s)] # " "

\* What is at the end of t, which is s with c behind it in the place k.
EndOK(s, c, t, k) ==
    /\ t # <<>> /\ t[k] = c
    /\ InWord(t) = (c # " ")
    /\ InWord(s) = (k > 1 /\ t[k - 1] # " ")

LEMMA AppendedEnd ==
    ASSUME NEW A, NEW s \in Seq(A), NEW c \in A, NEW t, t = Append(s, c), NEW k, k = Len(s) + 1
    PROVE  EndOK(s, c, t, k)
<1>1. PICK l : l = Len(s)
  OBVIOUS
<1>2. l \in Nat /\ t \in Seq(A) /\ Len(t) = l + 1 /\ t[l + 1] = c /\ t # <<>>
      /\ \A i \in 1..l : t[i] = s[i]
  BY <1>1
<1>3. InWord(t) = (c # " ")
  BY <1>2 DEF InWord
<1>4. l + 1 > 1 <=> s # <<>>
  BY <1>1, <1>2
<1>5. s # <<>> => l \in 1..l /\ (l + 1) - 1 = l
  BY <1>1, <1>2, <1>4
<1>6. InWord(s) = (l + 1 > 1 /\ t[(l + 1) - 1] # " ")
  BY <1>1, <1>2, <1>4, <1>5 DEF InWord
<1>7. QED
  BY <1>1, <1>2, <1>3, <1>6 DEF EndOK

LEMMA NextWords ==
    ASSUME NEW A, NEW s \in Seq(A), NEW c \in A, NEW t, t = Append(s, c)
    PROVE  Words(t) = GoesOn(Words(s), c, InWord(s))
<1>1. PICK i : i = Len(s) + 1
  OBVIOUS
<1>2. EndOK(s, c, t, i)
  BY <1>1, AppendedEnd
<1>3. t[i] = c /\ InWord(s) = (i > 1 /\ t[i - 1] # " ")
  BY <1>2, Zenon DEF EndOK
<1>4. Words(t) = WordStep(t, i, Words(s))
  BY <1>1, WordsAppended
<1>5. WordStep(t, i, Words(s)) = GoesOn(Words(s), c, InWord(s))
  BY <1>3, Zenon DEF WordStep
<1>6. QED
  BY <1>4, <1>5

LEMMA NextTrimmed ==
    ASSUME NEW A, NEW s \in Seq(A), NEW c \in A, NEW t, t = Append(s, c)
    PROVE  /\ c # " " \/ InWord(s) => trim_space(t) = Append(trim_space(s), c)
           /\ ~(c # " " \/ InWord(s)) => trim_space(t) = trim_space(s)
<1>1. PICK i : i = Len(s) + 1
  OBVIOUS
<1>2. EndOK(s, c, t, i)
  BY <1>1, AppendedEnd
<1>3. t[i] = c /\ InWord(s) = (i > 1 /\ t[i - 1] # " ")
  BY <1>2, Zenon DEF EndOK
<1>4. trim_space(t) = TrimStep(t, i, trim_space(s))
  BY <1>1, TrimAppended
<1>5. QED
  BY <1>3, <1>4 DEF TrimStep

TrimmedOK(A, s) ==
    /\ trim_space(s) \in Seq(A)
    /\ Words(s) \in Seq(Seq(A))
    /\ Words(trim_space(s)) = Words(s)
    /\ InWord(trim_space(s)) <=> InWord(s)
    /\ trim_space(s) = <<>> <=> Words(s) = <<>>

LEMMA MoreItems ==
    ASSUME NEW B, NEW x \in Seq(B), NEW c \in B
    PROVE  Append(x, c) \in Seq(B) /\ Append(x, c) # <<>>
<1>1. Append(x, c) \in Seq(B)
  OBVIOUS
<1>2. Len(Append(x, c)) = Len(x) + 1 /\ Len(x) \in Nat
  OBVIOUS
<1>3. Len(<<>>) = 0 /\ \A n \in Nat : n + 1 # 0
  OBVIOUS
<1>4. QED
  BY <1>1, <1>2, <1>3

LEMMA OneItem ==
    ASSUME NEW B, NEW c \in B
    PROVE  <<c>> \in Seq(B)
  OBVIOUS

LEMMA LastReplaced ==
    ASSUME NEW S, NEW w \in Seq(S), w # <<>>
    PROVE  /\ w[Len(w)] \in S
           /\ \A x \in S : LET v == [w EXCEPT ![Len(w)] = x] IN v \in Seq(S) /\ v # <<>>
<1>1. PICK l : l = Len(w)
  OBVIOUS
<1>2. l \in Nat /\ l \in 1..l /\ w \in [1..l -> S]
  BY <1>1
<1>3. ASSUME NEW x \in S, NEW v, v = [w EXCEPT ![l] = x] PROVE v \in Seq(S) /\ v # <<>>
  <2>1. v \in [1..l -> S]
    BY <1>2, <1>3
  <2>2. v \in Seq(S) /\ Len(v) = l
    BY <1>2, <2>1
  <2>3. QED
    BY <1>2, <2>2
<1>4. QED
  BY <1>1, <1>2, <1>3

LEMMA MoreWords ==
    ASSUME NEW A, NEW c \in A, NEW S, S = Seq(A), NEW w \in Seq(S), NEW inside,
           inside \in BOOLEAN, inside => w # <<>>, c # " "
    PROVE  GoesOn(w, c, inside) \in Seq(S) /\ GoesOn(w, c, inside) # <<>>
<1>1. CASE inside
  <2>1. w[Len(w)] \in S
    BY <1>1, LastReplaced
  <2>2. Append(w[Len(w)], c) \in S
    <3>1. PICK x : x = w[Len(w)]
      OBVIOUS
    <3>2. x \in Seq(A)
      BY <2>1, <3>1
    <3>3. Append(x, c) \in Seq(A)
      BY <3>2, MoreItems, Zenon
    <3>4. QED
      BY <3>1, <3>3
  <2>3. PICK v : v = [w EXCEPT ![Len(w)] = Append(w[Len(w)], c)]
    OBVIOUS
  <2>4. v \in Seq(S) /\ v # <<>>
    BY <1>1, <2>2, <2>3, LastReplaced
  <2>5. GoesOn(w, c, inside) = v
    BY <1>1, <2>3 DEF GoesOn
  <2>6. QED
    BY <2>4, <2>5
<1>2. CASE ~inside
  <2>1. PICK x : x = <<c>>
    OBVIOUS
  <2>2. x \in Seq(A)
    BY <2>1, OneItem, Zenon
  <2>3. x \in S
    BY <2>2
  <2>4. Append(w, x) \in Seq(S) /\ Append(w, x) # <<>>
    BY <2>3, MoreItems, Zenon
  <2>5. GoesOn(w, c, inside) = Append(w, x)
    BY <1>2, <2>1 DEF GoesOn
  <2>6. QED
    BY <2>4, <2>5
<1>3. QED
  BY <1>1, <1>2

LEMMA TrimmedMore ==
    ASSUME NEW A, NEW s \in Seq(A), NEW c \in A, TrimmedOK(A, s), NEW t, t = Append(s, c)
    PROVE  TrimmedOK(A, t)
<1>1. PICK u : u = trim_space(s)
  OBVIOUS
<1>2. PICK w : w = Words(s)
  OBVIOUS
<1>3. /\ u \in Seq(A) /\ w \in Seq(Seq(A)) /\ Words(u) = w
      /\ (InWord(u) <=> InWord(s)) /\ (u = <<>> <=> w = <<>>)
  BY <1>1, <1>2 DEF TrimmedOK
<1>4. InWord(t) = (c # " ")
  BY AppendedEnd DEF EndOK
<1>5. PICK v : v = Append(u, c)
  OBVIOUS
<1>6. v \in Seq(A) /\ v # <<>> /\ (InWord(v) <=> c # " ")
  <2>1. v \in Seq(A) /\ v # <<>>
    BY <1>3, <1>5
  <2>2. EndOK(u, c, v, Len(u) + 1)
    BY <1>3, <1>5, AppendedEnd
  <2>3. QED
    BY <2>1, <2>2, Zenon DEF EndOK
<1>7. Words(v) = GoesOn(w, c, InWord(u))
  BY <1>3, <1>5, NextWords
<1>8. Words(t) = GoesOn(w, c, InWord(s))
  BY <1>2, NextWords
<1>9. InWord(u) = InWord(s)
  BY <1>3 DEF InWord
<1>10. InWord(u) => u # <<>>
  BY DEF InWord
<1>11. CASE c # " "
  <2>1. trim_space(t) = v
    BY <1>1, <1>5, <1>11, NextTrimmed
  <2>2. InWord(s) \in BOOLEAN
    BY DEF InWord
  <2>3. GoesOn(w, c, InWord(s)) \in Seq(Seq(A)) /\ GoesOn(w, c, InWord(s)) # <<>>
    BY <1>3, <1>10, <1>11, <2>2, MoreWords
  <2>4. Words(v) = Words(t)
    BY <1>7, <1>8, <1>9
  <2>5. QED
    BY <1>4, <1>6, <1>8, <1>11, <2>1, <2>3, <2>4 DEF TrimmedOK
<1>12. CASE c = " " /\ InWord(s)
  <2>1. trim_space(t) = v
    BY <1>1, <1>5, <1>12, NextTrimmed
  <2>2. Words(t) = w /\ Words(v) = w
    BY <1>7, <1>8, <1>12 DEF GoesOn
  <2>3. w # <<>>
    BY <1>3, <1>10, <1>12
  <2>4. QED
    BY <1>3, <1>4, <1>6, <1>12, <2>1, <2>2, <2>3 DEF TrimmedOK
<1>13. CASE c = " " /\ ~InWord(s)
  <2>1. trim_space(t) = u
    BY <1>1, <1>13, NextTrimmed
  <2>2. Words(t) = w
    BY <1>8, <1>13 DEF GoesOn
  <2>3. QED
    BY <1>3, <1>4, <1>13, <2>1, <2>2 DEF TrimmedOK
<1>14. QED
  BY <1>11, <1>12, <1>13

LEMMA Trimmed ==
    ASSUME NEW A, NEW s \in Seq(A)
    PROVE  TrimmedOK(A, s)
<1>1. PICK T : T = {n \in Nat : \A x \in Seq(A) : Len(x) = n => TrimmedOK(A, x)}
  OBVIOUS
<1>2. TrimmedOK(A, <<>>)
  <2>1. trim_space(<<>>) = <<>> /\ Words(<<>>) = <<>>
    BY WordsEmpty, TrimEmpty
  <2>2. \A S : <<>> \in Seq(S)
    OBVIOUS
  <2>3. QED
    BY <2>1, <2>2, Zenon DEF TrimmedOK
<1>3. 0 \in T
  <2>1. \A x \in Seq(A) : Len(x) = 0 => x = <<>>
    OBVIOUS
  <2>2. QED
    BY <1>1, <1>2, <2>1
<1>4. \A n \in Nat : n \in T => n + 1 \in T
  <2> SUFFICES ASSUME NEW n \in Nat, n \in T PROVE n + 1 \in T
    OBVIOUS
  <2>1. ASSUME NEW x \in Seq(A), Len(x) = n + 1 PROVE TrimmedOK(A, x)
    <3>1. PICK p \in Seq(A), c \in A : Len(p) = n /\ x = Append(p, c)
      BY <2>1, SeqParts
    <3>2. TrimmedOK(A, p)
      BY <1>1, <3>1
    <3>3. QED
      BY <3>1, <3>2, TrimmedMore
  <2>2. QED
    BY <1>1, <2>1
<1>5. Len(s) \in Nat /\ Len(s) \in T
  BY <1>3, <1>4, Induction
<1>6. QED
  BY <1>1, <1>5

\* A line is blank if and only if it has no words, and those of full_command are its own.
LEMMA LineTrimmed ==
    ASSUME NEW body \in Seq(Byte), NEW line, line = body \o CRLF
    PROVE  /\ Blank(line) <=> Words(body) = <<>>
           /\ Words(SubSeq(trim_space(line), 1, Len(trim_space(line)) - 2)) = Words(body)
<1>1. PICK s : s = Append(body, "CR")
  OBVIOUS
<1>2. "CR" \in Byte /\ "LF" \in Byte
  BY DEF Byte, Char
<1>3. s \in Seq(Byte) /\ line = Append(s, "LF")
  BY <1>1, <1>2 DEF CRLF
<1>4. PICK u : u = trim_space(body)
  OBVIOUS
<1>5. u \in Seq(Byte) /\ Words(u) = Words(body) /\ (u = <<>> <=> Words(body) = <<>>)
  BY <1>4, Trimmed DEF TrimmedOK
<1>6. "CR" # " " /\ "LF" # " "
  OBVIOUS
<1>7. trim_space(s) = Append(u, "CR")
  BY <1>1, <1>2, <1>4, <1>6, NextTrimmed
<1>8. trim_space(line) = Append(trim_space(s), "LF")
  BY <1>2, <1>3, <1>6, NextTrimmed
<1>9. PICK v : v = trim_space(line)
  OBVIOUS
<1>10. v = Append(Append(u, "CR"), "LF")
  BY <1>7, <1>8, <1>9
<1>11. PICK l : l = Len(u)
  OBVIOUS
<1>12. l \in Nat /\ Len(v) = l + 2 /\ v \in Seq(Byte) /\ \A i \in 1..l : v[i] = u[i]
  BY <1>2, <1>5, <1>10, <1>11
<1>13. SubSeq(v, 1, Len(v) - 2) = u
  <2>1. Len(v) - 2 = l
    BY <1>12
  <2>2. SubSeq(v, 1, l) = [i \in 1..l |-> v[i]]
    BY <1>12
  <2>3. u = [i \in 1..l |-> u[i]]
    BY <1>5, <1>11
  <2>4. QED
    BY <1>12, <2>1, <2>2, <2>3
<1>14. Len(v) =< 2 <=> u = <<>>
  BY <1>5, <1>11, <1>12
<1>15. QED
  BY <1>5, <1>9, <1>13, <1>14 DEF Blank

-----------------------------------------------------------------------------
(* Commands *)

\* What is to be delivered of the first n lines.
CommandsOf(lines, n) == Commands(SubSeq(lines, 1, n))

LEMMA FirstItems ==
    ASSUME NEW A, NEW s \in Seq(A), NEW n \in 0..Len(s)
    PROVE  /\ SubSeq(s, 1, n) \in Seq(A) /\ Len(SubSeq(s, 1, n)) = n
           /\ SubSeq(s, 1, n) = [i \in 1..n |-> s[i]]
<1>1. PICK l : l = Len(s)
  OBVIOUS
<1>2. l \in Nat /\ n \in 0..l /\ \A i \in 1..n : s[i] \in A
  BY <1>1
<1>3. PICK p : p = SubSeq(s, 1, n)
  OBVIOUS
<1>4. p \in Seq(A) /\ Len(p) = n /\ p = [i \in 1..n |-> s[i]]
  BY <1>1, <1>2, <1>3
<1>5. QED
  BY <1>3, <1>4

LEMMA AllItems ==
    ASSUME NEW A, NEW s \in Seq(A)
    PROVE  SubSeq(s, 1, Len(s)) = s
<1>1. Len(s) \in 0..Len(s)
  OBVIOUS
<1>2. SubSeq(s, 1, Len(s)) = [i \in 1..Len(s) |-> s[i]]
  BY <1>1, FirstItems
<1>3. s = [i \in 1..Len(s) |-> s[i]]
  OBVIOUS
<1>4. QED
  BY <1>2, <1>3

LEMMA OneItemMore ==
    ASSUME NEW A, NEW s \in Seq(A), NEW n \in 1..Len(s)
    PROVE  SubSeq(s, 1, n) = Append(SubSeq(s, 1, n - 1), s[n])
<1>1. PICK l : l = Len(s)
  OBVIOUS
<1>2. l \in Nat /\ n \in 1..l /\ n - 1 \in 0..l /\ n \in 0..l /\ s[n] \in A
  BY <1>1
<1>3. PICK p : p = SubSeq(s, 1, n - 1)
  OBVIOUS
<1>4. p \in Seq(A) /\ Len(p) = n - 1 /\ p = [i \in 1..(n - 1) |-> s[i]]
  BY <1>1, <1>2, <1>3, FirstItems
<1>5. PICK q : q = Append(p, s[n])
  OBVIOUS
<1>6. q \in Seq(A) /\ Len(q) = (n - 1) + 1 /\ q[(n - 1) + 1] = s[n]
      /\ \A i \in 1..(n - 1) : q[i] = p[i]
  BY <1>2, <1>4, <1>5
<1>7. (n - 1) + 1 = n
  BY <1>2
<1>8. \A i \in 1..n : q[i] = s[i]
  <2> TAKE i \in 1..n
  <2>1. i \in 1..(n - 1) \/ i = n
    BY <1>2
  <2>2. QED
    BY <1>4, <1>6, <1>7, <2>1
<1>9. q = [i \in 1..n |-> q[i]]
  BY <1>6, <1>7
<1>10. q = [i \in 1..n |-> s[i]]
  BY <1>8, <1>9
<1>11. SubSeq(s, 1, n) = [i \in 1..n |-> s[i]]
  BY <1>1, <1>2, FirstItems
<1>12. QED
  BY <1>3, <1>5, <1>10, <1>11

LEMMA NextCommands ==
    ASSUME NEW A, NEW lines \in Seq(A), NEW n \in 1..Len(lines)
    PROVE  CommandsOf(lines, n) =
               IF Words(lines[n]) = <<>> THEN CommandsOf(lines, n - 1)
               ELSE Append(CommandsOf(lines, n - 1), Words(lines[n]))
<1>1. PICK p : p = SubSeq(lines, 1, n - 1)
  OBVIOUS
<1>2. PICK q : q = SubSeq(lines, 1, n)
  OBVIOUS
<1>3. n - 1 \in 0..Len(lines) /\ lines[n] \in A /\ (n - 1) + 1 = n
  OBVIOUS
<1>4. p \in Seq(A) /\ Len(p) = n - 1
  BY <1>1, <1>3, FirstItems
<1>5. q = Append(p, lines[n])
  BY <1>1, <1>2, OneItemMore
<1>6. q[n] = lines[n]
  BY <1>3, <1>4, <1>5
<1>7. Commands(q) = CommandStep(q, Len(p) + 1, Commands(p))
  BY <1>3, <1>4, <1>5, CommandsAppended
<1>8. Commands(q) = CommandStep(q, n, Commands(p))
  BY <1>3, <1>4, <1>7
<1>9. QED
  BY <1>1, <1>2, <1>6, <1>8 DEF CommandsOf, CommandStep

LEMMA NoCommands ==
    ASSUME NEW A, NEW lines \in Seq(A)
    PROVE  CommandsOf(lines, 0) = <<>>
<1>1. PICK p : p = SubSeq(lines, 1, 0)
  OBVIOUS
<1>2. p = <<>>
  BY <1>1
<1>3. QED
  BY <1>1, <1>2, CommandsEmpty DEF CommandsOf

\* The commands of more lines go on from those of fewer, at most one for each line.
LEMMA CommandsGrow ==
    ASSUME NEW A, NEW lines \in Seq(A), NEW V, V = {Words(x) : x \in A}
    PROVE  /\ \A n \in 0..Len(lines) : /\ CommandsOf(lines, n) \in Seq(V)
                                       /\ Len(CommandsOf(lines, n)) =< n
           /\ \A n \in 0..Len(lines) : \A k \in 0..Len(lines) : n =< k =>
                  /\ Len(CommandsOf(lines, n)) =< Len(CommandsOf(lines, k))
                  /\ \A i \in 1..Len(CommandsOf(lines, n)) :
                         CommandsOf(lines, k)[i] = CommandsOf(lines, n)[i]
<1>1. PICK l : l = Len(lines)
  OBVIOUS
<1>2. l \in Nat
  BY <1>1
<1>3. PICK c : c = [n \in 0..l |-> CommandsOf(lines, n)]
  OBVIOUS
<1>4. \A n \in 1..l : /\ n \in 0..l /\ n - 1 \in 0..l /\ (n - 1) + 1 = n
                      /\ Words(lines[n]) \in V
                      /\ c[n] = c[n - 1] \/ c[n] = Append(c[n - 1], Words(lines[n]))
  <2> TAKE n \in 1..l
  <2>1. n \in 0..l /\ n - 1 \in 0..l /\ (n - 1) + 1 = n /\ lines[n] \in A
    BY <1>1, <1>2
  <2>2. c[n] = CommandsOf(lines, n) /\ c[n - 1] = CommandsOf(lines, n - 1)
    BY <1>3, <2>1
  <2>3. c[n] = c[n - 1] \/ c[n] = Append(c[n - 1], Words(lines[n]))
    BY <1>1, <2>2, NextCommands
  <2>4. QED
    BY <2>1, <2>3
<1>5. c[0] = <<>>
  <2>1. 0 \in 0..l
    BY <1>2
  <2>2. QED
    BY <1>3, <2>1, NoCommands
<1>6. PICK T : T = {n \in 0..l : c[n] \in Seq(V) /\ Len(c[n]) =< n}
  OBVIOUS
<1>7. \A n \in 0..l : n \in T
  <2>1. 0 \in T
    <3>1. 0 \in 0..l
      BY <1>2
    <3>2. <<>> \in Seq(V) /\ Len(<<>>) = 0
      OBVIOUS
    <3>3. c[0] \in Seq(V) /\ Len(c[0]) =< 0
      BY <1>5, <3>2
    <3>4. QED
      BY <1>6, <3>1, <3>3
  <2>2. \A n \in 0..(l - 1) : n \in T => n + 1 \in T
    <3> SUFFICES ASSUME NEW n \in 0..(l - 1), n \in T PROVE n + 1 \in T
      OBVIOUS
    <3>1. PICK k : k = n + 1
      OBVIOUS
    <3>2. k \in 1..l /\ k - 1 = n /\ k \in 0..l /\ n \in Nat
      BY <1>2, <3>1
    <3>3. c[n] \in Seq(V) /\ Len(c[n]) =< n
      BY <1>6
    <3>4. Words(lines[k]) \in V /\ (c[k] = c[n] \/ c[k] = Append(c[n], Words(lines[k])))
      BY <1>4, <3>2
    <3>5. PICK a : a = c[n]
      OBVIOUS
    <3>6. PICK x \in V : c[k] = a \/ c[k] = Append(a, x)
      BY <3>4, <3>5
    <3>7. Append(a, x) \in Seq(V) /\ Len(Append(a, x)) = Len(a) + 1 /\ Len(a) \in Nat
      BY <3>3, <3>5, <3>6
    <3>8. c[k] \in Seq(V) /\ Len(c[k]) =< k
      <4>1. a \in Seq(V) /\ Len(a) =< n
        BY <3>3, <3>5
      <4>2. CASE c[k] = a
        BY <3>1, <3>2, <3>7, <4>1, <4>2
      <4>3. CASE c[k] = Append(a, x)
        <5>1. PICK m, b : m = Len(a) /\ b = Append(a, x)
          OBVIOUS
        <5>2. m \in Nat /\ m =< n /\ b \in Seq(V) /\ Len(b) = m + 1
          BY <3>7, <4>1, <5>1
        <5>3. Len(b) =< k
          BY <3>1, <3>2, <5>2
        <5>4. QED
          BY <4>3, <5>1, <5>2, <5>3
      <4>4. QED
        BY <3>6, <4>2, <4>3
    <3>9. QED
      BY <1>6, <3>1, <3>2, <3>8
  <2>3. QED
    BY <1>2, <2>1, <2>2, InductionTo
<1>8. ASSUME NEW n \in 0..l
      PROVE  \A k \in 0..l : n =< k => /\ Len(c[n]) =< Len(c[k])
                                       /\ \A i \in 1..Len(c[n]) : c[k][i] = c[n][i]
  <2>1. PICK U : U = {k \in 0..l : n =< k => /\ Len(c[n]) =< Len(c[k])
                                             /\ \A i \in 1..Len(c[n]) : c[k][i] = c[n][i]}
    OBVIOUS
  <2>2. Len(c[n]) \in Nat
    BY <1>6, <1>7
  <2>3. 0 \in U
    <3>1. n =< 0 => n = 0
      BY <1>2
    <3>2. 0 \in 0..l
      BY <1>2
    <3>3. QED
      BY <2>1, <2>2, <3>1, <3>2
  <2>4. \A k \in 0..(l - 1) : k \in U => k + 1 \in U
    <3> SUFFICES ASSUME NEW k \in 0..(l - 1), k \in U PROVE k + 1 \in U
      OBVIOUS
    <3>1. PICK j : j = k + 1
      OBVIOUS
    <3>2. j \in 1..l /\ j - 1 = k /\ j \in 0..l /\ k \in 0..l /\ (n =< j => n =< k \/ n = j)
      BY <1>2, <3>1
    <3>3. c[k] \in Seq(V)
      BY <1>6, <1>7, <3>2
    <3>4. PICK x \in V : c[j] = c[k] \/ c[j] = Append(c[k], x)
      BY <1>4, <3>2
    <3>5. /\ Len(Append(c[k], x)) = Len(c[k]) + 1 /\ Len(c[k]) \in Nat
          /\ \A i \in 1..Len(c[k]) : Append(c[k], x)[i] = c[k][i]
      BY <3>3
    <3>6. Len(c[k]) =< Len(c[j]) /\ \A i \in 1..Len(c[k]) : c[j][i] = c[k][i]
      BY <3>4, <3>5
    <3>7. CASE n = j
      BY <2>1, <2>2, <3>1, <3>2, <3>7
    <3>8. CASE n =< k
      <4>1. Len(c[n]) =< Len(c[k]) /\ \A i \in 1..Len(c[n]) : c[k][i] = c[n][i]
        BY <2>1, <3>8
      <4>2. PICK a, b, d : a = Len(c[n]) /\ b = Len(c[k]) /\ d = Len(c[j])
        OBVIOUS
      <4>3. a \in Nat /\ b \in Nat /\ d \in Nat /\ a =< b /\ b =< d
        BY <1>6, <1>7, <2>2, <3>2, <3>5, <3>6, <4>1, <4>2
      <4>4. a =< d /\ \A i \in 1..a : i \in 1..b
        BY <4>3
      <4>5. \A i \in 1..a : c[j][i] = c[n][i]
        BY <3>6, <4>1, <4>2, <4>4
      <4>6. QED
        BY <2>1, <3>1, <3>2, <4>2, <4>4, <4>5
    <3>9. CASE ~(n =< j)
      BY <2>1, <3>1, <3>2, <3>9
    <3>10. QED
      BY <3>2, <3>7, <3>8, <3>9
  <2>5. \A k \in 0..l : k \in U
    BY <1>2, <2>3, <2>4, InductionTo
  <2>6. QED
    BY <2>1, <2>5
<1>9. \A n \in 0..l : c[n] = CommandsOf(lines, n)
  BY <1>3
<1>10. \A n \in 0..l : c[n] \in Seq(V) /\ Len(c[n]) =< n
  BY <1>6, <1>7
<1>11. \A n \in 0..Len(lines) : /\ CommandsOf(lines, n) \in Seq(V)
                                /\ Len(CommandsOf(lines, n)) =< n
  BY <1>1, <1>9, <1>10
<1>12. ASSUME NEW n \in 0..Len(lines), NEW k \in 0..Len(lines), n =< k
       PROVE  /\ Len(CommandsOf(lines, n)) =< Len(CommandsOf(lines, k))
              /\ \A i \in 1..Len(CommandsOf(lines, n)) :
                     CommandsOf(lines, k)[i] = CommandsOf(lines, n)[i]
  <2>1. c[n] = CommandsOf(lines, n) /\ c[k] = CommandsOf(lines, k)
    BY <1>1, <1>9
  <2>2. n \in 0..l /\ k \in 0..l
    BY <1>1
  <2>3. Len(c[n]) =< Len(c[k]) /\ \A i \in 1..Len(c[n]) : c[k][i] = c[n][i]
    BY <1>8, <1>12, <2>2
  <2>4. QED
    BY <2>1, <2>3
<1>13. QED
  BY <1>11, <1>12

-----------------------------------------------------------------------------
(* What was handled *)

\* The lines handled, as their words.
Delivered == [i \in DOMAIN handled |-> Words(handled[i])]

RestTypes ==
    /\ hungUp \in BOOLEAN
    /\ pc \in {"read", "scan", "closed", "undefined"}
    /\ handled \in Seq(Seq(Byte))

\* Until buf is spoiled, what was handled are the lines up to the one that was cut
\* off last.
HandledOK ==
    \E e : /\ LineEnds(e)
           /\ ~spoiled => \E m \in 1..Len(sent) + 1 :
                             Len(taken) = e[m] /\ Delivered = CommandsOf(sent, m - 1)

FramingInv == BufferInv /\ JustInv /\ RestTypes /\ HandledOK

LEMMA FullCommandType ==
    ASSUME BufferInv, NEW line, TakeLine(line)
    PROVE  ~Blank(line) => FullCommand(line) \in Seq(Byte)
<1>1. PICK n \in 2..pos : line = SubSeq(buf, 1, n)
  BY LineTaken
<1>2. buf \in Seq(Byte) /\ Len(buf) = Size /\ pos \in 0..Size /\ Size \in Nat
  BY SizeAssumption DEF BufferInv, BufferTypes
<1>3. n \in 0..Len(buf)
  BY <1>2
<1>4. line \in Seq(Byte)
  BY <1>1, <1>2, <1>3, FirstItems
<1>5. trim_space(line) \in Seq(Byte)
  BY <1>4, Trimmed DEF TrimmedOK
<1>6. PICK t : t = trim_space(line)
  OBVIOUS
<1>7. ASSUME ~Blank(line) PROVE SubSeq(t, 1, Len(t) - 2) \in Seq(Byte)
  <2>1. t \in Seq(Byte) /\ Len(t) \in Nat /\ ~(Len(t) =< 2)
    BY <1>5, <1>6, <1>7 DEF Blank
  <2>2. Len(t) - 2 \in 0..Len(t)
    BY <2>1
  <2>3. QED
    BY <2>1, <2>2, FirstItems
<1>8. QED
  BY <1>6, <1>7 DEF FullCommand

LEMMA DeliveredMore ==
    ASSUME handled \in Seq(Seq(Byte)), NEW x \in Seq(Byte), handled' = Append(handled, x)
    PROVE  handled' \in Seq(Seq(Byte)) /\ Delivered' = Append(Delivered, Words(x))
<1>1. PICK S : S = Seq(Byte)
  OBVIOUS
<1>2. PICK l : l = Len(handled)
  OBVIOUS
<1>3. /\ l \in Nat /\ handled' \in Seq(S) /\ Len(handled') = l + 1 /\ handled'[l + 1] = x
      /\ \A i \in 1..l : handled'[i] = handled[i]
      /\ DOMAIN handled = 1..l /\ DOMAIN handled' = 1..(l + 1)
  BY <1>1, <1>2
<1>4. Delivered = [i \in 1..l |-> Words(handled[i])]
  BY <1>3, Zenon DEF Delivered
<1>5. Delivered' = [i \in 1..(l + 1) |-> Words(handled'[i])]
  BY <1>3, Zenon DEF Delivered
<1>6. PICK V : V = {Words(y) : y \in S}
  OBVIOUS
<1>7. \A i \in 1..l : handled[i] \in S
  BY <1>1, <1>2
<1>8. Delivered \in [1..l -> V]
  BY <1>4, <1>6, <1>7
<1>9. Delivered \in Seq(V) /\ Len(Delivered) = l
  BY <1>3, <1>8
<1>10. Words(x) \in V
  BY <1>1, <1>6
<1>11. PICK d, w : d = Delivered /\ w = Words(x)
  OBVIOUS
<1>12. PICK t : t = Append(d, w)
  OBVIOUS
<1>13. t \in Seq(V) /\ Len(t) = l + 1 /\ t[l + 1] = w /\ \A i \in 1..l : t[i] = d[i]
  BY <1>3, <1>9, <1>10, <1>11, <1>12
<1>14. \A i \in 1..(l + 1) : t[i] = Words(handled'[i])
  <2> TAKE i \in 1..(l + 1)
  <2>1. i \in 1..l \/ i = l + 1
    BY <1>3
  <2>2. CASE i \in 1..l
    <3>1. d[i] = Words(handled[i])
      BY <1>4, <1>11, <2>2
    <3>2. QED
      BY <1>3, <1>13, <2>2, <3>1
  <2>3. CASE i = l + 1
    BY <1>3, <1>11, <1>13, <2>3
  <2>4. QED
    BY <2>1, <2>2, <2>3
<1>15. t = [i \in 1..(l + 1) |-> t[i]]
  BY <1>13
<1>16. Delivered' = t
  BY <1>5, <1>14, <1>15
<1>17. QED
  BY <1>1, <1>3, <1>11, <1>12, <1>16

\* A line that is sent, as bytes of the buffer.
LEMMA SentLine ==
    ASSUME sent \in Seq(Bodies), NEW m \in 1..Len(sent), NEW line, line = sent[m] \o CRLF
    PROVE  /\ Blank(line) <=> Words(sent[m]) = <<>>
           /\ Words(FullCommand(line)) = Words(sent[m])
<1>1. sent[m] \in Bodies
  OBVIOUS
<1>2. sent[m] \in Seq(Char)
  BY <1>1, BodiesAssumption
<1>3. sent[m] \in Seq(Byte)
  BY <1>2, SeqMonotonic DEF Byte
<1>4. QED
  BY <1>3, LineTrimmed DEF FullCommand

\* The line that is cut off is the next one sent, and what is handled of it goes on.
LEMMA NextHandled ==
    ASSUME BufferInv, sent \in Seq(Bodies), ~spoiled, NEW line, TakeLine(line),
           NEW e, LineEnds(e), NEW m \in 1..Len(sent) + 1, Len(taken) = e[m],
           Delivered = CommandsOf(sent, m - 1)
    PROVE  /\ m \in 1..Len(sent) /\ m + 1 \in 1..Len(sent) + 1 /\ Len(taken') = e[m + 1]
           /\ Blank(line) => Delivered = CommandsOf(sent, m)
           /\ ~Blank(line) => Append(Delivered, Words(FullCommand(line))) = CommandsOf(sent, m)
<1>1. /\ m \in 1..Len(sent) /\ line = sent[m] \o CRLF
      /\ m + 1 \in 1..Len(sent) + 1 /\ Len(taken') = e[m + 1]
  BY TakeEnds
<1>2. /\ Blank(line) <=> Words(sent[m]) = <<>>
      /\ Words(FullCommand(line)) = Words(sent[m])
  BY <1>1, SentLine
<1>3. CommandsOf(sent, m) = IF Words(sent[m]) = <<>> THEN CommandsOf(sent, m - 1)
                            ELSE Append(CommandsOf(sent, m - 1), Words(sent[m]))
  BY <1>1, NextCommands
<1>4. Blank(line) => Delivered = CommandsOf(sent, m)
  BY <1>2, <1>3
<1>5. ~Blank(line) => Append(Delivered, Words(FullCommand(line))) = CommandsOf(sent, m)
  BY <1>2, <1>3
<1>6. QED
  BY <1>1, <1>4, <1>5

LEMMA TakeHandled ==
    ASSUME BufferInv, sent \in Seq(Bodies), HandledOK, NEW line, TakeLine(line), spoiled => spoiled',
           Blank(line) => Delivered' = Delivered,
           ~Blank(line) => Delivered' = Append(Delivered, Words(FullCommand(line)))
    PROVE  HandledOK'
<1>1. PICK e : /\ LineEnds(e)
               /\ ~spoiled => \E m \in 1..Len(sent) + 1 :
                                 Len(taken) = e[m] /\ Delivered = CommandsOf(sent, m - 1)
  BY DEF HandledOK
<1>2. sent' = sent /\ stream' = stream
  BY DEF TakeLine
<1>3. LineEnds(e)'
  BY <1>1, <1>2 DEF LineEnds
<1>4. ~spoiled' => \E m \in 1..Len(sent') + 1 :
                      Len(taken') = e[m] /\ Delivered' = CommandsOf(sent', m - 1)
  <2> SUFFICES ASSUME ~spoiled'
               PROVE  \E m \in 1..Len(sent) + 1 :
                         Len(taken') = e[m] /\ Delivered' = CommandsOf(sent, m - 1)
    BY <1>2, Zenon
  <2>1. ~spoiled
    OBVIOUS
  <2>2. PICK m \in 1..Len(sent) + 1 : Len(taken) = e[m] /\ Delivered = CommandsOf(sent, m - 1)
    BY <1>1, <2>1
  <2>3. /\ m \in 1..Len(sent) /\ m + 1 \in 1..Len(sent) + 1 /\ Len(taken') = e[m + 1]
        /\ Blank(line) => Delivered = CommandsOf(sent, m)
        /\ ~Blank(line) => Append(Delivered, Words(FullCommand(line))) = CommandsOf(sent, m)
    BY <1>1, <2>1, <2>2, NextHandled
  <2>4. Delivered' = CommandsOf(sent, m)
    BY <2>3, Zenon
  <2>5. (m + 1) - 1 = m
    OBVIOUS
  <2>6. QED
    BY <2>3, <2>4, <2>5
<1>5. QED
  BY <1>3, <1>4 DEF HandledOK

LEMMA SendHandled ==
    ASSUME BufferInv, sent \in Seq(Bodies), HandledOK, NEW body \in Bodies, SendLine(body)
    PROVE  HandledOK'
<1>1. PICK e : /\ LineEnds(e)
               /\ ~spoiled => \E m \in 1..Len(sent) + 1 :
                                 Len(taken) = e[m] /\ Delivered = CommandsOf(sent, m - 1)
  BY DEF HandledOK
<1>2. PICK f : LineEnds(f)' /\ \A i \in 1..Len(sent) + 1 : f[i] = e[i]
  BY <1>1, SendEnds
<1>3. /\ taken' = taken /\ spoiled' = spoiled /\ handled' = handled
      /\ sent' = Append(sent, body) /\ Len(sent') = Len(sent) + 1 /\ Len(sent) \in Nat
      /\ sent' \in Seq(Bodies)
  BY DEF SendLine
<1>4. Delivered' = Delivered
  BY <1>3 DEF Delivered
<1>5. ~spoiled' => \E m \in 1..Len(sent') + 1 :
                      Len(taken') = f[m] /\ Delivered' = CommandsOf(sent', m - 1)
  <2> SUFFICES ASSUME ~spoiled'
               PROVE  \E m \in 1..Len(sent') + 1 :
                         Len(taken') = f[m] /\ Delivered' = CommandsOf(sent', m - 1)
    OBVIOUS
  <2>1. PICK m \in 1..Len(sent) + 1 : Len(taken) = e[m] /\ Delivered = CommandsOf(sent, m - 1)
    BY <1>1, <1>3
  <2>2. m \in 1..Len(sent') + 1 /\ Len(taken') = f[m]
    BY <1>2, <1>3, <2>1
  <2>3. PICK n, s, t : n = m - 1 /\ s = sent /\ t = sent'
    OBVIOUS
  <2>4. s \in Seq(Bodies) /\ t \in Seq(Bodies) /\ t = Append(s, body) /\ n \in 0..Len(s)
        /\ n \in 0..Len(t)
    BY <1>3, <2>3
  <2>5. \A i \in 1..n : t[i] = s[i]
    BY <2>4
  <2>6. SubSeq(t, 1, n) = [i \in 1..n |-> t[i]] /\ SubSeq(s, 1, n) = [i \in 1..n |-> s[i]]
    BY <2>4, FirstItems
  <2>7. SubSeq(t, 1, n) = SubSeq(s, 1, n)
    BY <2>5, <2>6
  <2>8. CommandsOf(sent', m - 1) = CommandsOf(sent, m - 1)
    BY <2>3, <2>7 DEF CommandsOf
  <2>9. QED
    BY <1>4, <2>1, <2>2, <2>8
<1>6. QED
  BY <1>2, <1>5 DEF HandledOK

LEMMA FramingInit == Init => FramingInv
<1> SUFFICES ASSUME Init PROVE FramingInv
  OBVIOUS
<1>1. BufferInv /\ JustInv
  BY InitBuffer, JustInit
<1>2. /\ sent = <<>> /\ stream = <<>> /\ taken = <<>> /\ pc = "read" /\ handled = <<>>
      /\ hungUp = FALSE
  BY DEF Init
<1>3. RestTypes
  <2>1. \A S : <<>> \in Seq(S)
    OBVIOUS
  <2>2. QED
    BY <1>2, <2>1, Zenon DEF RestTypes
<1>4. HandledOK
  <2>1. LineEnds(<<0>>)
    BY <1>2 DEF LineEnds
  <2>2. 1 \in 1..Len(sent) + 1 /\ Len(taken) = <<0>>[1] /\ 1 - 1 = 0
    BY <1>2
  <2>3. Delivered = <<>>
    BY <1>2 DEF Delivered
  <2>4. CommandsOf(sent, 0) = <<>>
    <3>1. sent \in Seq(Bodies)
      BY <1>2
    <3>2. QED
      BY <3>1, NoCommands
  <2>5. QED
    BY <2>1, <2>2, <2>3, <2>4 DEF HandledOK
<1>5. QED
  BY <1>1, <1>3, <1>4 DEF FramingInv

LEMMA FramingStep == FramingInv /\ [Next]_vars => FramingInv'
<1> SUFFICES ASSUME FramingInv, [Next]_vars PROVE FramingInv'
  OBVIOUS
<1>0. BufferInv /\ JustInv /\ RestTypes /\ HandledOK /\ sent \in Seq(Bodies)
  BY DEF FramingInv, JustInv
<1>a. BufferInv' /\ JustInv'
  BY <1>0, BufferStep, JustStep DEF RestTypes
<1> SUFFICES RestTypes' /\ HandledOK'
  BY <1>a DEF FramingInv
<1>1. ASSUME UNCHANGED <<sent, stream, taken, handled, spoiled>> PROVE HandledOK'
  <2>1. PICK e : /\ LineEnds(e)
                 /\ ~spoiled => \E m \in 1..Len(sent) + 1 :
                                   Len(taken) = e[m] /\ Delivered = CommandsOf(sent, m - 1)
    BY <1>0 DEF HandledOK
  <2>2. LineEnds(e)' /\ Delivered' = Delivered
    BY <1>1, <2>1 DEF LineEnds, Delivered
  <2>3. /\ ~spoiled' => \E m \in 1..Len(sent') + 1 :
                         Len(taken') = e[m] /\ Delivered' = CommandsOf(sent', m - 1)
    BY <1>1, <2>1, <2>2, Zenon
  <2>4. QED
    BY <2>2, <2>3 DEF HandledOK
<1>2. ASSUME NEW body \in Bodies, SendLine(body) PROVE RestTypes' /\ HandledOK'
  <2>1. HandledOK'
    BY <1>0, <1>2, SendHandled
  <2>2. RestTypes'
    BY <1>0, <1>2, Zenon DEF RestTypes, SendLine
  <2>3. QED
    BY <2>1, <2>2
<1>3. CASE HangUp
  BY <1>0, <1>1, <1>3 DEF RestTypes, HangUp
<1>4. ASSUME NEW n \in 1..Size, Read(n) PROVE RestTypes' /\ HandledOK'
  BY <1>0, <1>1, <1>4 DEF RestTypes, Read
<1>5. CASE ReadNothing
  BY <1>0, <1>1, <1>5 DEF RestTypes, ReadNothing
<1>6. CASE SkipBlank
  <2>1. PICK line : TakeLine(line) /\ Blank(line) /\ UNCHANGED <<pc, handled, spoiled>>
    BY <1>6 DEF SkipBlank
  <2>2. UNCHANGED hungUp /\ Delivered' = Delivered
    BY <2>1 DEF TakeLine, Delivered
  <2>3. RestTypes'
    BY <1>0, <2>1, <2>2 DEF RestTypes
  <2>4. HandledOK'
    BY <1>0, <2>1, <2>2, TakeHandled
  <2>5. QED
    BY <2>3, <2>4
<1>7. ASSUME NEW k, NEW line, TakeLine(line), ~Blank(line), Dispatch(line, k),
             pc' \in {"scan", "closed", "undefined"}
      PROVE  RestTypes' /\ HandledOK'
  <2>1. TakeLine(line) /\ ~Blank(line) /\ Dispatch(line, k) /\ pc' \in {"scan", "closed", "undefined"}
    BY <1>7
  <2>2. UNCHANGED hungUp /\ (spoiled => spoiled')
    BY <2>1, Zenon DEF TakeLine, Dispatch
  <2>3. handled' = Append(handled, FullCommand(line))
    BY <2>1 DEF Dispatch, FullCommand
  <2>4. FullCommand(line) \in Seq(Byte) /\ handled \in Seq(Seq(Byte))
    BY <1>0, <2>1, FullCommandType DEF RestTypes
  <2>5. handled' \in Seq(Seq(Byte)) /\ Delivered' = Append(Delivered, Words(FullCommand(line)))
    BY <2>3, <2>4, DeliveredMore
  <2>6. RestTypes'
    BY <1>0, <2>1, <2>2, <2>5, Zenon DEF RestTypes
  <2>7. HandledOK'
    BY <1>0, <2>1, <2>2, <2>5, TakeHandled
  <2>8. QED
    BY <2>6, <2>7
<1>l. ASSUME NEW k \in TextLen \union {0}, HandleLine(k) PROVE RestTypes' /\ HandledOK'
  <2>1. PICK line : TakeLine(line) /\ ~Blank(line) /\ Dispatch(line, k) /\ UNCHANGED pc
    BY <1>l DEF HandleLine
  <2>2. pc' \in {"scan", "closed", "undefined"}
    BY <2>1 DEF TakeLine
  <2>3. QED
    BY <1>7, <2>1, <2>2
<1>q. ASSUME NEW k \in QuitLen, Quit(k) PROVE RestTypes' /\ HandledOK'
  <2>1. PICK line, l : /\ TakeLine(line) /\ ~Blank(line) /\ Dispatch(line, l)
                       /\ pc' \in {"closed", "undefined"}
    BY <1>q, QuitDispatch
  <2>2. QED
    BY <1>7, <2>1
<1>8. CASE NoLine
  BY <1>0, <1>1, <1>8 DEF RestTypes, NoLine
<1>9. CASE RunOut
  BY <1>0, <1>1, <1>9 DEF RestTypes, RunOut
<1>10. CASE UNCHANGED vars
  BY <1>0, <1>1, <1>10 DEF RestTypes, vars
<1>11. QED
  BY <1>2, <1>3, <1>4, <1>5, <1>6, <1>l, <1>q, <1>8, <1>9, <1>10 DEF Next, ThreadStep

LEMMA FramingAlways == Spec => []FramingInv
<1>1. QED
  BY FramingInit, FramingStep, PTL DEF Spec

\* The thread closes a connection the client has not closed, or searches beyond
\* buf, only after QUIT, a line that does not fit or holds a NUL, or a text printed
\* over waiting bytes: a line that fills buf to its last byte is handled before
\* the next read is asked for 0 bytes (main.c:732, 744, 759, 810).
THEOREM DisconnectJustifiedCorrect == Spec => []DisconnectJustified
<1>1. FramingInv => DisconnectJustified
  BY DEF FramingInv, JustInv
<1>2. QED
  BY <1>1, FramingAlways, PTL

\* Every variable has its type, and pos stays inside buf, also when a handler has
\* printed into buf and lines are cut off it that nobody sent (main.c:732, 756,
\* 777).
THEOREM BufferTypesCorrect == Spec => []TypeOK
<1>1. FramingInv => TypeOK
  <2> SUFFICES ASSUME FramingInv PROVE TypeOK
    OBVIOUS
  <2>1. BufferTypes /\ RestTypes /\ sent \in Seq(Bodies)
    BY DEF FramingInv, BufferInv, JustInv
  <2>2. buf \in [1..Size -> Byte]
    BY <2>1 DEF BufferTypes
  <2>3. QED
    BY <2>1, <2>2, Zenon DEF TypeOK, BufferTypes, RestTypes
<1>2. QED
  BY <1>1, FramingAlways, PTL

-----------------------------------------------------------------------------
(* The steps of Framing *)

\* Framing's words and commands are those of this module.
LEMMA SameCommands == \A s : F!Commands(s) = Commands(s)
<1>1. \A s : F!Words(s) = Words(s)
  BY Zenon DEF F!Words, F!GoesOn, Words, GoesOn
<1>2. QED
  BY <1>1, Zenon DEF F!Commands, Commands

State == IF Over THEN "closed" ELSE IF spoiled THEN "spoiled" ELSE "open"

\* A line handled before buf is spoiled is the next one Framing delivers, and
\* spoils only when a later one has been sent.
LEMMA DeliverStep ==
    ASSUME FramingInv, ~spoiled, NEW k, NEW line,
           TakeLine(line), ~Blank(line), Dispatch(line, k)
    PROVE  /\ Len(Delivered) < Len(Commands(sent))
           /\ Delivered' = Append(Delivered, Commands(sent)[Len(Delivered) + 1])
           /\ spoiled' => Len(Delivered) + 1 < Len(sent)
<1>1. BufferInv /\ sent \in Seq(Bodies) /\ handled \in Seq(Seq(Byte))
  BY DEF FramingInv, JustInv, RestTypes
<1>2. PICK e : /\ LineEnds(e)
               /\ ~spoiled => \E m \in 1..Len(sent) + 1 :
                                 Len(taken) = e[m] /\ Delivered = CommandsOf(sent, m - 1)
  BY DEF FramingInv, HandledOK
<1>3. PICK m \in 1..Len(sent) + 1 : Len(taken) = e[m] /\ Delivered = CommandsOf(sent, m - 1)
  BY <1>2
<1>4. /\ m \in 1..Len(sent) /\ Len(taken') = e[m + 1]
      /\ Append(Delivered, Words(FullCommand(line))) = CommandsOf(sent, m)
  BY <1>1, <1>2, <1>3, NextHandled
<1>5. handled' = Append(handled, FullCommand(line))
  BY DEF Dispatch
<1>6. FullCommand(line) \in Seq(Byte)
  BY <1>1, FullCommandType
<1>7. Delivered' = CommandsOf(sent, m)
  BY <1>1, <1>4, <1>5, <1>6, DeliveredMore
<1>8. PICK l : l = Len(sent)
  OBVIOUS
<1>9. l \in Nat /\ m - 1 \in 0..l /\ m \in 0..l /\ l \in 0..l /\ m =< l
  BY <1>1, <1>4, <1>8
<1>10. PICK V : V = {Words(x) : x \in Bodies}
  OBVIOUS
<1>11. CommandsOf(sent, l) = Commands(sent)
  BY <1>1, <1>8, AllItems DEF CommandsOf
<1>12. PICK all, had, one : all = Commands(sent) /\ had = Delivered /\ one = CommandsOf(sent, m)
  OBVIOUS
<1>13. /\ had \in Seq(V) /\ Len(had) =< m - 1 /\ all \in Seq(V)
       /\ Len(one) =< Len(all) /\ \A i \in 1..Len(one) : all[i] = one[i]
  <2>1. /\ CommandsOf(sent, m - 1) \in Seq(V) /\ Len(CommandsOf(sent, m - 1)) =< m - 1
        /\ CommandsOf(sent, l) \in Seq(V)
    BY <1>1, <1>8, <1>9, <1>10, CommandsGrow
  <2>2. /\ Len(CommandsOf(sent, m)) =< Len(CommandsOf(sent, l))
        /\ \A i \in 1..Len(CommandsOf(sent, m)) : CommandsOf(sent, l)[i] = CommandsOf(sent, m)[i]
    BY <1>1, <1>8, <1>9, <1>10, CommandsGrow
  <2>3. QED
    BY <1>3, <1>11, <1>12, <2>1, <2>2
<1>14. PICK w : w = Words(FullCommand(line))
  OBVIOUS
<1>15. one = Append(had, w)
  BY <1>4, <1>12, <1>14
<1>16. PICK h : h = Len(had)
  OBVIOUS
<1>17. h \in Nat /\ Len(one) = h + 1 /\ one[h + 1] = w
  BY <1>13, <1>15, <1>16
<1>18. h + 1 \in 1..Len(one) /\ h < Len(all)
  <2>1. Len(all) \in Nat
    BY <1>13
  <2>2. QED
    BY <1>13, <1>17, <2>1
<1>19. all[h + 1] = w
  BY <1>13, <1>17, <1>18
<1>20. ASSUME spoiled' PROVE h + 1 < l
  <2>1. pos' > 0
    BY <1>20 DEF Dispatch
  <2>2. PICK n \in 2..pos : pos' = pos - n /\ Len(line) = n
    BY <1>1, LineTaken
  <2>3. Len(taken) \in Nat /\ Len(stream) \in Nat /\ Len(taken) + pos =< Len(stream)
    BY <1>1, StreamAt
  <2>4. line = FirstLine(buf) /\ FirstLine(buf) # <<>>
    BY DEF TakeLine
  <2>5. sent[m] \in Bodies /\ Len(line) = Len(sent[m]) + 2
    BY <1>1, <1>2, <1>3, <1>4, <2>4, NextLine
  <2>6. Len(sent[m]) \in Nat
    BY <2>5, LineShape
  <2>7. e[m + 1] = e[m] + Len(sent[m]) + 2 /\ e[l + 1] = Len(stream)
    BY <1>2, <1>4, <1>8 DEF LineEnds
  <2>8. pos \in Nat
    BY <1>1, SizeAssumption DEF BufferInv, BufferTypes
  <2>9. m # l
    <3>1. PICK a, b, c : a = Len(taken) /\ b = Len(stream) /\ c = Len(sent[m])
      OBVIOUS
    <3>2. m = l => b = a + c + 2
      BY <1>3, <2>7, <3>1
    <3>3. a \in Nat /\ b \in Nat /\ c \in Nat /\ a + pos =< b /\ n = c + 2 /\ pos - n > 0
      BY <2>1, <2>2, <2>3, <2>5, <2>6, <3>1
    <3>4. QED
      BY <2>8, <3>2, <3>3
  <2>10. h =< m - 1
    BY <1>13, <1>16
  <2>11. QED
    BY <1>4, <1>9, <1>17, <2>9, <2>10
<1>21. QED
  BY <1>7, <1>8, <1>12, <1>14, <1>15, <1>16, <1>18, <1>19, <1>20

LEMMA RefineInit == Init => F!Init
<1> SUFFICES ASSUME Init PROVE F!Init
  OBVIOUS
<1>1. handled = <<>> /\ sent = <<>> /\ pc = "read" /\ spoiled = FALSE
  BY DEF Init
<1>2. [i \in DOMAIN handled |-> Words(handled[i])] = <<>>
  BY <1>1
<1>3. ~Over
  BY <1>1 DEF Over
<1>4. QED
  BY <1>1, <1>2, <1>3, Zenon DEF F!Init

LEMMA RefineStep ==
    FramingInv /\ [Next]_vars => [F!Next]_<<sent, Delivered, State>>
<1> SUFFICES ASSUME FramingInv, [Next]_vars, ~UNCHANGED <<sent, Delivered, State>>
             PROVE  F!Next
  BY DEF F!Next
<1>0. spoiled \in BOOLEAN
  BY DEF FramingInv, BufferInv, BufferTypes
<1>1. ASSUME UNCHANGED <<sent, handled, spoiled>>, Over' = Over PROVE FALSE
  BY <1>1 DEF Delivered, State
<1>2. ASSUME NEW body \in Bodies, SendLine(body) PROVE F!Send
  <2>1. sent' = Append(sent, body) /\ UNCHANGED <<handled, pc, spoiled>>
    BY <1>2 DEF SendLine
  <2>2. Over' = Over
    BY <2>1 DEF Over
  <2>3. QED
    BY <2>1, <2>2, Zenon DEF F!Send
<1>3. CASE HangUp
  BY <1>1, <1>3 DEF HangUp, Over
<1>4. ASSUME NEW n \in 1..Size, Read(n) PROVE FALSE
  BY <1>1, <1>4 DEF Read, Over
<1>5. ASSUME UNCHANGED <<sent, handled>>, Over' PROVE F!Close
  BY <1>5, Zenon DEF F!Close
<1>6. CASE ReadNothing
  BY <1>5, <1>6 DEF ReadNothing, Over, F!Next
<1>7. CASE RunOut
  BY <1>5, <1>7 DEF RunOut, Over, F!Next
<1>8. CASE SkipBlank
  BY <1>1, <1>8 DEF SkipBlank, TakeLine, Over
<1>9. CASE NoLine
  BY <1>1, <1>9 DEF NoLine, Over
<1>10. ASSUME NEW k \in TextLen \union {0}, HandleLine(k) PROVE F!Deliver \/ F!Anything
  <2>1. PICK line : TakeLine(line) /\ ~Blank(line) /\ Dispatch(line, k) /\ UNCHANGED pc
    BY <1>10 DEF HandleLine
  <2>2. sent' = sent /\ ~Over /\ ~Over' /\ (spoiled => spoiled')
    BY <2>1 DEF TakeLine, Dispatch, Over
  <2>3. CASE spoiled
    <3>1. F!Anything
      BY <2>2, <2>3, Zenon DEF F!Anything
    <3>2. QED
      BY <3>1
  <2>4. CASE ~spoiled
    <3>1. /\ Len(Delivered) < Len(Commands(sent))
          /\ Delivered' = Append(Delivered, Commands(sent)[Len(Delivered) + 1])
          /\ spoiled' => Len(Delivered) + 1 < Len(sent)
      BY <2>1, <2>4, DeliverStep
    <3>2. F!Commands(sent) = Commands(sent)
      BY SameCommands
    <3>3. F!Deliver
      BY <2>2, <2>4, <3>1, <3>2, Zenon DEF F!Deliver, Delivered
    <3>4. QED
      BY <3>3
  <2>5. QED
    BY <2>3, <2>4
<1>11. ASSUME NEW k \in QuitLen, Quit(k) PROVE F!Deliver \/ F!Anything
  <2>1. PICK line, l : /\ TakeLine(line) /\ ~Blank(line) /\ Dispatch(line, l)
                       /\ pc' \in {"closed", "undefined"}
    BY <1>11, QuitDispatch
  <2>2. sent' = sent /\ ~Over /\ Over'
    BY <2>1 DEF TakeLine, Over
  <2>3. CASE spoiled
    <3>1. F!Anything
      BY <2>2, <2>3, Zenon DEF F!Anything
    <3>2. QED
      BY <3>1
  <2>4. CASE ~spoiled
    <3>1. /\ Len(Delivered) < Len(Commands(sent))
          /\ Delivered' = Append(Delivered, Commands(sent)[Len(Delivered) + 1])
      BY <2>1, <2>4, DeliverStep
    <3>2. F!Commands(sent) = Commands(sent)
      BY SameCommands
    <3>3. F!Deliver
      BY <2>2, <2>4, <3>1, <3>2, Zenon DEF F!Deliver, Delivered
    <3>4. QED
      BY <3>3
  <2>5. QED
    BY <2>3, <2>4
<1>12. CASE UNCHANGED vars
  BY <1>1, <1>12 DEF vars, Over
<1>13. QED
  BY <1>2, <1>3, <1>4, <1>6, <1>7, <1>8, <1>9, <1>10, <1>11, <1>12 DEF Next, ThreadStep, F!Next

\* The framing loop implements Framing: lines are handled in the order they were
\* sent, each once and word for word, blank ones are skipped, until a handler
\* prints over bytes that are waiting (main.c:203-228, 732-790).
THEOREM FramingCorrect == Spec => RefinesFraming
<1>1. FramingInv /\ [Next]_vars =>
          [F!Next]_<<sent, [i \in DOMAIN handled |-> Words(handled[i])],
                     IF Over THEN "closed" ELSE IF spoiled THEN "spoiled" ELSE "open">>
  BY RefineStep, Zenon DEF Delivered, State
<1>2. QED
  BY <1>1, RefineInit, FramingAlways, PTL DEF Spec, RefinesFraming, F!Spec
=============================================================================
