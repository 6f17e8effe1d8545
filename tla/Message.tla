------------------------------- MODULE Message -------------------------------
(***************************************************************************)
(* IRC messages (message.c): reading a line, building a message and        *)
(* printing it.  A text is a sequence of characters; letters, digits and   *)
(* the words of the protocol are single characters here, and what counts   *)
(* is where the spaces and the colons are.  A line is given without its    *)
(* CR LF, the last two bytes that the reader cuts off.                     *)
(***************************************************************************)
EXTENDS Integers, Sequences, SequencesExt

CONSTANTS
    NULL,
    Upper,     \* [small letters -> capital letters]
    ParamsSize \* the size of the array params: 15 in the code

SP == " "
COLON == ":"

\* A small letter has one capital, which has none.
ASSUME UpperAssumption ==
    /\ DOMAIN Upper \subseteq STRING \ {SP, COLON}
    /\ \A c \in DOMAIN Upper : Upper[c] \in STRING \ ({SP, COLON} \union DOMAIN Upper)
ASSUME NoTextAssumption == NULL \notin Seq(STRING)

toupper(c) == IF c \in DOMAIN Upper THEN Upper[c] ELSE c

-----------------------------------------------------------------------------
(* chirc_message_from_string *)

\* What strtok_r has found, each from..to, when the line goes on with its character i.
GoesOn(s, tokens, i) ==
    IF s[i] = SP THEN tokens
    ELSE IF i = 1 \/ s[i - 1] = SP THEN Append(tokens, <<i, i>>)
    ELSE [tokens EXCEPT ![Len(tokens)] = <<@[1], i>>]

\* The tokens: the longest stretches without a space.
Tokens(s) ==
    LET tokens[i \in 0..Len(s)] == IF i = 0 THEN <<>> ELSE GoesOn(s, tokens[i - 1], i)
    IN  tokens[Len(s)]

TokenText(s, t) == SubSeq(s, t[1], t[2])

\* Mutant: a colon is looked for at the end of the token, not behind it.
LongBehindNear(s, t) == t[2] + 1 =< Len(s) /\ s[t[2] + 1] = COLON

\* The character behind the one that ended the token: does a long parameter start
\* there?  It is read before strtok_r has looked for the next token.
LongBehind(s, t) == t[2] + 2 =< Len(s) /\ s[t[2] + 2] = COLON

\* The first of some tokens, or 0.
FirstToken(ks) == IF ks = {} THEN 0 ELSE CHOOSE k \in ks : \A l \in ks : k =< l

\* The first token, from the command on, with a long parameter behind it, or 0.
BeforeLong(s, tokens, c) == FirstToken({k \in c..Len(tokens) : LongBehind(s, tokens[k])})

\* The tokens behind the command, up to the long parameter if there is one.
Params(s, tokens, c, last) ==
    IF last = 0 THEN [k \in 1..(Len(tokens) - c) |-> TokenText(s, tokens[c + k])]
    ELSE Append([k \in 1..(last - c) |-> TokenText(s, tokens[c + k])],
                SubSeq(s, tokens[last][2] + 3, Len(s)))

Capitals(word) == [i \in 1..Len(word) |-> toupper(word[i])]

\* c is the index of the token that is the command.
Parsed(s, tokens, c) ==
    IF Len(tokens) < c THEN [rc |-> -1]
    ELSE LET ps == Params(s, tokens, c, BeforeLong(s, tokens, c))
         IN  [rc |-> 0,
              prefix |-> IF c = 2 THEN Tail(TokenText(s, tokens[1])) ELSE NULL,
              cmd |-> Capitals(TokenText(s, tokens[c])),
              params |-> ps,
              longlast |-> BeforeLong(s, tokens, c) # 0,
              overflow |-> Len(ps) > ParamsSize]

ParsedFrom(s, tokens) ==
    Parsed(s, tokens, IF tokens # <<>> /\ s[tokens[1][1]] = COLON THEN 2 ELSE 1)

\* What the reader makes of a line.  rc is -1 for a line without a command, whose
\* cmd and params are then never assigned.  `overflow` says that parameters were
\* written behind the end of the array.
chirc_message_from_string(s) == ParsedFrom(s, Tokens(s))

-----------------------------------------------------------------------------
(* Building and printing *)

chirc_message_construct(prefix, cmd) ==
    [prefix |-> prefix, cmd |-> cmd, params |-> <<>>, longlast |-> FALSE]

\* longlast is that of the parameter added last.
chirc_message_add_parameter(msg, param, longlast) ==
    [msg EXCEPT !.params = Append(@, param), !.longlast = longlast]

\* One parameter after the other, each a pair of a text and its longlast.
WithParams(msg, params) ==
    [msg EXCEPT !.params = @ \o [i \in 1..Len(params) |-> params[i][1]],
                !.longlast = IF params = <<>> THEN @ ELSE params[Len(params)][2]]

CONN_TYPE_UNKNOWN == 0
CONN_TYPE_USER == 1
CONN_TYPE_SERVER == 2
CONN_TYPE_QUIT == 3

Anybody == <<"*">>

\* conn has a type and, for a user or a server, its name, which may be NULL.
chirc_message_construct_reply(servername, conn, code) ==
    LET name == IF conn.type = CONN_TYPE_UNKNOWN \/ conn.name = NULL THEN Anybody ELSE conn.name
    IN  IF conn.type = CONN_TYPE_QUIT THEN chirc_message_construct(NULL, code)
        ELSE chirc_message_add_parameter(chirc_message_construct(servername, code), name, FALSE)

\* Mutant: the colon is printed before each long parameter, not before the last.
chirc_message_to_stringColons(msg) ==
    (IF msg.prefix = NULL THEN <<>> ELSE <<COLON>> \o msg.prefix \o <<SP>>)
    \o msg.cmd
    \o FlattenSeq([i \in 1..Len(msg.params) |->
                      <<SP>> \o (IF msg.longlast THEN <<COLON>> ELSE <<>>) \o msg.params[i]])

\* Without the CR LF at the end.
chirc_message_to_string(msg) ==
    (IF msg.prefix = NULL THEN <<>> ELSE <<COLON>> \o msg.prefix \o <<SP>>)
    \o msg.cmd
    \o FlattenSeq([i \in 1..Len(msg.params) |->
                      <<SP>> \o (IF i = Len(msg.params) /\ msg.longlast THEN <<COLON>> ELSE <<>>)
                      \o msg.params[i]])

-----------------------------------------------------------------------------
(* The format of RFC 2812 for a line whose words are separated by one space *)

WellSpaced(s) ==
    /\ s # <<>> => s[1] # SP
    /\ \A i \in 1..(Len(s) - 1) : ~(s[i] = SP /\ s[i + 1] = SP)

Plain(word) == word # <<>> /\ word[1] # COLON /\ \A i \in 1..Len(word) : word[i] # SP

SameLetters(s, t) == Len(s) = Len(t) /\ \A i \in 1..Len(s) : toupper(s[i]) = toupper(t[i])

\* m is a message that prints as s, but for small letters and a space at the end.
IsMessage(s, m) ==
    /\ m.prefix # NULL => \A i \in 1..Len(m.prefix) : m.prefix[i] # SP
    /\ m.prefix = NULL => Plain(m.cmd)
    /\ \A i \in 1..Len(m.params) : (i = Len(m.params) /\ m.longlast) \/ Plain(m.params[i])
    /\ m.longlast => m.params # <<>>
    /\ \/ SameLetters(s, chirc_message_to_string(m))
       \/ SameLetters(s, chirc_message_to_string(m) \o <<SP>>)

=============================================================================
