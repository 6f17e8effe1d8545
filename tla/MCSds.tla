--------------------------------- MODULE MCSds ---------------------------------
(***************************************************************************)
(* Instances of Sds for TLC: the limits of the headers scaled down, so     *)
(* that strings of a few bytes pass through all five types.                *)
(***************************************************************************)
EXTENDS Sds

MCLimit == 0 :> 2 @@ 1 :> 3 @@ 2 :> 4 @@ 3 :> 6 @@ 4 :> 64

\* A backslash, a quote and a byte that is not printed.
MCTexts == {<<>>, <<97>>, <<92, 34>>, <<1, 92>>}

\* "%s" of a byte, "a%i" of a negative number, "%%".
MCFormats == {<<<<37, 115>>, <<<<97>>>>>>, <<<<97, 37, 105>>, <<-7>>>>, <<<<37, 37>>, <<>>>>}

MCSets == {<<92>>, <<97, 97>>}

\* 'a' becomes NUL, and NUL a line feed.
MCMaps == {<<<<97, 0>>, <<0, 10>>>>}

=============================================================================
