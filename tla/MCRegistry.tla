------------------------------ MODULE MCRegistry ------------------------------
(***************************************************************************)
(* Instances of Registry for TLC.                                          *)
(***************************************************************************)
EXTENDS Registry, TLC

\* Connections are interchangeable, and so are names.
Symmetry == Permutations(Conn) \union Permutations(Name)

=============================================================================
