----------------------------- MODULE ReceiveBuffer -----------------------------
(***************************************************************************)
(* How a thread of chirc cuts the bytes of its connection into lines: the  *)
(* loop of subthread_work over buf and pos, and trim_space (main.c).       *)
(*                                                                         *)
(* A client may send any byte: an ordinary character, a space, CR, LF, or  *)
(* NUL, where strstr ends its search.  Texts the server prints have a byte *)
(* of their own.  The buffer is local to the thread, so a pass of a loop   *)
(* is one step.                                                            *)
(*                                                                         *)
(* A handler may format its reply in buf, the receive buffer itself: it    *)
(* zeroes buf and prints the text there.  Which handlers do depends on the *)
(* command and the tables (see Registry): here any line may.  QUIT also    *)
(* closes the socket: the connection is over then, though its thread reads *)
(* the number on, which by that time may be another client's (Lifecycle).  *)
(***************************************************************************)
EXTENDS Naturals, Sequences, FiniteSetsExt, Words

CONSTANTS
    Size,    \* sizeof(buf)
    Bodies,  \* the lines a client may send, without CR LF
    Quits,   \* the lines, as words, whose command is QUIT
    TextLen, \* the lengths of the texts the other handlers leave in buf
    QuitLen, \* the lengths of the texts QUIT prints, with what the client sent
    MaxLines \* bound: lines the client sends

CRLF == <<"CR", "LF">>
Char == {"a", "b", " ", "CR", "LF", "NUL"}
Byte == Char \union {"text"}

\* A line ends at its own CR LF only.
ASSUME SizeAssumption == Size \in Nat \ {0}
ASSUME BodiesAssumption ==
    /\ Bodies \subseteq Seq(Char)
    /\ \A s \in Bodies : \A i \in 1..Len(s) :
          LET line == s \o CRLF IN ~(line[i] = "CR" /\ line[i + 1] = "LF")
\* Texts of the server's own, and those of QUIT of any length.
ASSUME TextAssumption == TextLen \subseteq 1..(Size - 1)
ASSUME QuitAssumption == QuitLen \subseteq Nat \ {0}
ASSUME MaxLinesAssumption == MaxLines \in Nat

VARIABLES
    sent,    \* the lines the client has sent
    stream,  \* the same as bytes
    hungUp,  \* whether the client has closed its side
    wire,    \* the bytes sent that the server has not read
    buf,     \* buf
    pos,     \* pos
    pc,      \* where the thread is: "read", "scan", "closed" or "undefined"
    taken,   \* the bytes of the lines cut off buf, the blank ones too
    handled, \* full_command of the lines handled, without CR LF
    spoiled  \* a handler has printed into buf while it held unread bytes

vars == <<sent, stream, hungUp, wire, buf, pos, pc, taken, handled, spoiled>>

-----------------------------------------------------------------------------
(* Helpers *)

Fill(byte, n) == [i \in 1..n |-> byte]

\* The prefix of s up to and including the first CR LF that strstr finds before
\* a NUL, or nothing.
FirstLine(s) ==
    LET ends == {i \in 2..Len(s) : /\ s[i - 1] = "CR" /\ s[i] = "LF"
                                   /\ \A j \in 1..i : s[j] # "NUL"}
    IN  IF ends = {} THEN <<>> ELSE SubSeq(s, 1, Min(ends))

\* strstr meets neither CR LF nor NUL inside buf and reads on behind it.
RunsOut(s) == FirstLine(s) = <<>> /\ \A i \in 1..Len(s) : s[i] # "NUL"

\* trim_space: of the spaces, those right behind a word are kept.
trim_space(s) ==
    LET out[i \in 0..Len(s)] == \* of the first i bytes
            IF i = 0 THEN <<>>
            ELSE IF s[i] # " " \/ (i > 1 /\ s[i - 1] # " ") THEN Append(out[i - 1], s[i])
            ELSE out[i - 1]
    IN  out[Len(s)]

\* (A faulty variant of Blank: before the line is trimmed.)
BlankUntrimmed(line) == Len(line) =< 2

Blank(line) == Len(trim_space(line)) =< 2

-----------------------------------------------------------------------------
(* The parts of a pass of the inner loop *)

\* A complete line is cut off.
TakeLine(line) ==
    /\ pc = "scan"
    /\ line = FirstLine(buf)
    /\ line # <<>>
    /\ taken' = taken \o line
    /\ pos' = pos - Len(line)
    /\ UNCHANGED <<sent, stream, hungUp, wire>>

\* full_command, without CR LF.
FullCommand(line) == SubSeq(trim_space(line), 1, Len(trim_space(line)) - 2)

\* What was behind the line moves to the front of buf, zeroes follow.
Shifted(line) == SubSeq(buf, Len(line) + 1, Size) \o Fill("NUL", Len(line))

\* Its handler leaves buf alone, or prints a text of length k there.
Dispatch(line, k) ==
    /\ handled' = Append(handled, FullCommand(line))
    /\ buf' = IF k = 0 THEN Shifted(line) ELSE Fill("text", k) \o Fill("NUL", Size - k)
    /\ spoiled' = (spoiled \/ (k > 0 /\ pos' > 0))

-----------------------------------------------------------------------------
(* Faulty variants of definitions below: the properties must tell them apart *)

\* The whole buffer is offered to read, wherever pos is.
ReadWhole(n) ==
    /\ pc = "read"
    /\ n \in 1..Min({Len(wire), Size})
    /\ buf' = [i \in 1..Size |-> IF i \in pos + 1..pos + n THEN wire[i - pos] ELSE buf[i]]
    /\ pos' = pos + n
    /\ wire' = SubSeq(wire, n + 1, Len(wire))
    /\ pc' = "scan"
    /\ UNCHANGED <<sent, stream, hungUp, taken, handled, spoiled>>

\* One byte of the buffer is kept for a terminator.
ReadNothingEarly ==
    /\ pc = "read"
    /\ pos >= Size - 1 \/ (wire = <<>> /\ hungUp)
    /\ pc' = "closed"
    /\ UNCHANGED <<sent, stream, hungUp, wire, buf, pos, taken, handled, spoiled>>

\* A blank line is cut off buf without lowering pos.
SkipBlankKeepPos ==
    \E line \in {FirstLine(buf)} :
        /\ pc = "scan" /\ line # <<>> /\ Blank(line)
        /\ taken' = taken \o line
        /\ buf' = Shifted(line)
        /\ UNCHANGED <<sent, stream, hungUp, wire, pos, pc, handled, spoiled>>

\* One line is handled per read.
HandleOneLine(k) ==
    \E line \in {FirstLine(buf)} :
        /\ TakeLine(line)
        /\ ~Blank(line)
        /\ Dispatch(line, k)
        /\ pc' = "read"

-----------------------------------------------------------------------------
(* The client *)

SendLine(body) ==
    /\ ~hungUp
    /\ Len(sent) < MaxLines
    /\ sent' = Append(sent, body)
    /\ stream' = stream \o body \o CRLF
    /\ wire' = wire \o body \o CRLF
    /\ UNCHANGED <<hungUp, buf, pos, pc, taken, handled, spoiled>>

HangUp ==
    /\ ~hungUp
    /\ hungUp' = TRUE
    /\ UNCHANGED <<sent, stream, wire, buf, pos, pc, taken, handled, spoiled>>

-----------------------------------------------------------------------------
(* The thread *)

\* read returns n of the bytes that have arrived, behind the pos ones in buf.
Read(n) ==
    /\ pc = "read"
    /\ n \in 1..Min({Len(wire), Size - pos})
    /\ buf' = [i \in 1..Size |-> IF i \in pos + 1..pos + n THEN wire[i - pos] ELSE buf[i]]
    /\ pos' = pos + n
    /\ wire' = SubSeq(wire, n + 1, Len(wire))
    /\ pc' = "scan"
    /\ UNCHANGED <<sent, stream, hungUp, taken, handled, spoiled>>

\* read returns 0: the client has hung up, or there is no room left in buf.  The
\* thread cannot tell one from the other, and disconnects.
ReadNothing ==
    /\ pc = "read"
    /\ pos = Size \/ (wire = <<>> /\ hungUp)
    /\ pc' = "closed"
    /\ UNCHANGED <<sent, stream, hungUp, wire, buf, pos, taken, handled, spoiled>>

\* A line with nothing but spaces is dropped.
SkipBlank ==
    \E line \in {FirstLine(buf)} :
        /\ TakeLine(line)
        /\ Blank(line)
        /\ buf' = Shifted(line)
        /\ UNCHANGED <<pc, handled, spoiled>>

HandleLine(k) ==
    \E line \in {FirstLine(buf)} :
        /\ TakeLine(line)
        /\ ~Blank(line)
        /\ Words(FullCommand(line)) \notin Quits
        /\ Dispatch(line, k)
        /\ UNCHANGED pc

\* QUIT sends the text it prints and closes the socket.  The text has no CR LF,
\* so no further line is found in buf; one of length Size or more overflows it.
Quit(k) ==
    \E line \in {FirstLine(buf)} :
        /\ TakeLine(line)
        /\ ~Blank(line)
        /\ Words(FullCommand(line)) \in Quits
        /\ \/ k < Size /\ Dispatch(line, k) /\ pc' = "closed"
           \/ k >= Size /\ Dispatch(line, 0) /\ pc' = "undefined"

\* No complete line: read on.
NoLine ==
    /\ pc = "scan"
    /\ FirstLine(buf) = <<>>
    /\ pc' = "read"
    /\ UNCHANGED <<sent, stream, hungUp, wire, buf, pos, taken, handled, spoiled>>

\* A search that leaves buf, or a line that fills full_command so that its length
\* is taken beyond it, meets whatever is there: it may go well (NoLine,
\* HandleLine) or not.
RunOut ==
    /\ pc = "scan"
    /\ \/ RunsOut(buf)
       \/ FirstLine(buf) # <<>> /\ Len(trim_space(FirstLine(buf))) = Size
    /\ pc' = "undefined"
    /\ UNCHANGED <<sent, stream, hungUp, wire, buf, pos, taken, handled, spoiled>>

-----------------------------------------------------------------------------
Init ==
    /\ sent = <<>>
    /\ stream = <<>>
    /\ hungUp = FALSE
    /\ wire = <<>>
    /\ buf = Fill("NUL", Size)
    /\ pos = 0
    /\ pc = "read"
    /\ taken = <<>>
    /\ handled = <<>>
    /\ spoiled = FALSE

ThreadStep ==
    \/ \E n \in 1..Size : Read(n)
    \/ ReadNothing
    \/ SkipBlank
    \/ \E k \in TextLen \union {0} : HandleLine(k)
    \/ \E k \in QuitLen : Quit(k)
    \/ NoLine
    \/ RunOut

Next == (\E body \in Bodies : SendLine(body)) \/ HangUp \/ ThreadStep

Spec == Init /\ [][Next]_vars

\* The thread runs, and what was sent arrives.
FairSpec == Spec /\ WF_vars(ThreadStep)

-----------------------------------------------------------------------------
(* What the properties speak of *)

Received == SubSeq(buf, 1, pos)

HasNUL(s) == \E i \in 1..Len(s) : s[i] = "NUL"

\* No line holds a NUL; each fits into buf, and once trimmed into full_command
\* with a NUL behind.
LinesFit ==
    \A i \in DOMAIN sent :
        LET line == sent[i] \o CRLF
        IN  ~HasNUL(line) /\ Len(line) =< Size /\ Len(trim_space(line)) < Size

QuitHandled == \E i \in DOMAIN handled : Words(handled[i]) \in Quits

\* The lines before the first that holds a NUL.
Readable ==
    LET hidden == {i \in DOMAIN sent : HasNUL(sent[i])}
    IN  IF hidden = {} THEN sent ELSE SubSeq(sent, 1, Min(hidden) - 1)

Over == pc \in {"closed", "undefined"}

\* The promise of Framing, read off this state.
F == INSTANCE Framing WITH
        delivered <- [i \in DOMAIN handled |-> Words(handled[i])],
        state <- IF Over THEN "closed" ELSE IF spoiled THEN "spoiled" ELSE "open"

-----------------------------------------------------------------------------
(* Properties *)

\* Every variable has its type; pos stays inside buf, also when a handler has
\* printed into buf and lines are cut that nobody sent (main.c:732, 756, 777).
TypeOK ==
    /\ sent \in Seq(Bodies)
    /\ stream \in Seq(Char)
    /\ hungUp \in BOOLEAN
    /\ wire \in Seq(Char)
    /\ buf \in [1..Size -> Byte]
    /\ pos \in 0..Size
    /\ pc \in {"read", "scan", "closed", "undefined"}
    /\ taken \in Seq(Byte)
    /\ handled \in Seq(Seq(Byte))
    /\ spoiled \in BOOLEAN

\* No byte is lost, duplicated or moved: until a handler prints over bytes that are
\* waiting, what was cut off, what is in buf up to pos and what is still to be
\* read are together what the client sent, however reads split it
\* (main.c:732, 756-777).
StreamIntact == ~spoiled => taken \o Received \o wire = stream

\* The thread disconnects a client that has not hung up only if QUIT was handled,
\* a line did not fit or held a NUL, behind which no CR LF is ever found, or buf
\* was spoiled: a line that fills buf to its last byte is handled before the next
\* read is asked for 0 bytes (main.c:732, 744, 759, 810).
DisconnectJustified ==
    Over => hungUp \/ QuitHandled \/ ~LinesFit \/ spoiled

\* The framing loop implements Framing: lines are handled in the order they were
\* sent, each once and word for word, blank ones are skipped, until a handler
\* prints over bytes that are waiting (main.c:203-228, 732-790).
RefinesFraming == F!Spec

\* Every line sent before the first NUL is handled in the end, unless the
\* connection is over or buf was spoiled: no complete line is left in buf waiting
\* for more bytes to come, but for those a NUL hides from strstr (main.c:759-784).
Served ==
    Len(handled) < Len(Commands(Readable))
        ~> Len(handled) = Len(Commands(Readable)) \/ Over \/ spoiled

-----------------------------------------------------------------------------
(* What the tests say of framing, which the code does not keep *)

\* However many lines a read returns, all of them are handled before the next one
\* waits for more.
EveryMessageHandled ==
    pc = "read" /\ wire = <<>> => Len(handled) = Len(Commands(sent))

=============================================================================
