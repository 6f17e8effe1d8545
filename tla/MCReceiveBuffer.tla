---------------------------- MODULE MCReceiveBuffer ----------------------------
(***************************************************************************)
(* Instances of ReceiveBuffer for TLC.                                     *)
(***************************************************************************)
EXTENDS ReceiveBuffer

\* Blank, a word, two words that fill the buffer with their spaces, a word ending
\* in a lone CR, a word that fills the buffer, one that does not fit, one with a
\* NUL, and QUIT.
MCBodies == { <<" ">>, <<"a">>, <<" ", "a", " ", "b">>, <<"b", "CR">>,
              <<"b", "b", "b", "b">>, <<"a", "b", "a", "b", "a">>,
              <<"a", "NUL">>, <<"b">> }
MCQuits == { << <<"b">> >> }

\* One short line.
MCShort == { <<"a">> }

=============================================================================
