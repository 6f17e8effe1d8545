------------------------------ MODULE MCCommands ------------------------------
(***************************************************************************)
(* Instances of Commands for TLC.                                          *)
(***************************************************************************)
EXTENDS Commands, TLC

CONSTANTS c1, c2

MCUpper == [c \in {"n", "u", "w"} |-> CASE c = "n" -> "N" [] c = "u" -> "U" [] c = "w" -> "W"]

NickLine(name_) == <<"n", SP>> \o name_
UserLine(name_) == <<"u", SP>> \o name_ \o <<SP, "p", SP, "p", SP, COLON, "r", SP, "r">>

MCCommon == UNION {{NickLine(<<n>>), UserLine(<<n>>)} : n \in {"a", "b"}} \union {<<"w", SP, "a">>}

Word(letter, k) == [i \in 1..k |-> letter]

\* A name with a space, one that is too long, too few and too many parameters, lines
\* without a command, every other command, a USER with too many parameters for the
\* answer to WHOIS, one with spaces where its parameters stand, and a line too long to
\* be repeated in a reply for each reply that repeats one.
MCOthers ==
    { NickLine(<<COLON, "a", SP, "b">>), NickLine(<<"a", "a">>), <<"N">>,
      <<"u", SP, "a">>, <<"U">>, <<"W">>, <<"w", SP, "a">>, <<"w", SP, "d">>, <<"P">>, <<"P", SP, "b">>,
      <<"I", SP, "a">>, <<"O", SP, "a">>, <<"L">>, <<"D">>, <<"Q">>, <<"Q", SP, COLON, "q", SP, "q">>,
      <<"X", SP, "p">>, <<"X", SP, "p", SP, "p", SP, "p", SP, "p", SP, "p", SP, "p", SP, "p">>,
      <<COLON, "p">>, <<COLON, "p", SP, COLON, "x">>, <<"n", SP, "a", SP, "b">>,
      <<"u", SP, "a", SP, "p", SP, "p", SP, "p", SP, COLON, "r">>,
      <<"u", SP, "a", SP, SP, "p", SP, SP, COLON, "q", SP, "r">>,
      <<"u", SP, "a", SP, "p", SP, "p", SP, COLON>> \o Word("r", 8),
      <<"w", SP>> \o Word("d", 10), <<"Q", SP>> \o Word("q", 17), Word("X", 10) }

\* One client tries everything while the other one registers and asks.
MCLines == (c1 :> {NickLine(<<"a">>), UserLine(<<"a">>)} \union MCOthers)
           @@ (c2 :> {NickLine(<<"b">>), UserLine(<<"b">>), <<"w", SP, "a">>})

MCTexts == UNION {[1..k -> {SP, COLON, "n"}] : k \in 0..6}

Server == <<"s">>
MCMotd == << <<"m", SP, "m">> >>

=============================================================================
