--------------------------------- MODULE Words ---------------------------------
(***************************************************************************)
(* A line of characters as the words it consists of: its longest runs      *)
(* without a space.                                                        *)
(***************************************************************************)
EXTENDS Naturals, Sequences

\* The words of a line that goes on with c, inside its last word or behind it.
GoesOn(words, c, inside) ==
    IF c = " " THEN words
    ELSE IF inside THEN [words EXCEPT ![Len(words)] = Append(@, c)]
    ELSE Append(words, <<c>>)

Words(s) ==
    LET words[i \in 0..Len(s)] == \* of the first i characters
            IF i = 0 THEN <<>>
            ELSE GoesOn(words[i - 1], s[i], i > 1 /\ s[i - 1] # " ")
    IN  words[Len(s)]

\* What is to be delivered of the lines sent: the words of those that have any.
Commands(lines) ==
    LET commands[i \in 0..Len(lines)] == \* of the first i lines
            IF i = 0 THEN <<>>
            ELSE IF Words(lines[i]) = <<>> THEN commands[i - 1]
            ELSE Append(commands[i - 1], Words(lines[i]))
    IN  commands[Len(lines)]

=============================================================================
