------------------------------- MODULE MCContext -------------------------------
(***************************************************************************)
(* Instances of Context for TLC.                                           *)
(***************************************************************************)
EXTENDS Context, TLC

CONSTANTS u1, u2, k1, k2

\* Bytes: 97 and 98 are letters, 44 is the comma, 32 the space, 13 and 10 CR and LF.
A == <<97, 44, 97, 44, 97, 44, 98, 10>>
B == <<98, 44, 44, 44, 13, 10>>

\* Two servers and one, in both orders of lines, with spaces; a name twice, names that
\* begin alike, too few and too many fields, an empty line, an empty file; a NUL that
\* hides a comma too many, and one that hides a comma the line needs.
Files == { <<A, B>>, <<B, <<32, 97, 44, 97, 44, 97, 44, 98, 32>>>>, <<A>>, <<A, A>>, <<B, A, B>>,
           << <<97, 97, 44, 97, 44, 97, 44, 98>> >>, <<A, <<97, 97, 44, 97, 44, 97, 44, 98>> >>,
           << <<97, 44, 97, 44, 97, 10>> >>, <<A, <<98, 44, 44, 44, 44, 10>>>>,
           <<A, <<10>>>>, << <<44, 44, 44>> >>, <<>>,
           <<B, <<97, 44, 44, 44, 0, 97, 44>>>>, << <<97, 44, 44, 0, 44>> >> }

Option(opt, arg) == [opt |-> opt, arg |-> arg]

Options ==
    {Option("passwd", <<98>>), Option("port", <<54>>), Option("servername", <<97>>),
     Option("servername", <<98>>), Option("network_file", NULL), Option("verbosity", NULL),
     Option("help", NULL), Option("unknown", NULL)}
    \union {Option("network_file", f) : f \in Files}

MCArgs == UNION {[1..n -> Options] : n \in 0..3}

Host == <<98, 97>>

Places == Permutations({u1, u2}) \union Permutations({k1, k2})

=============================================================================
