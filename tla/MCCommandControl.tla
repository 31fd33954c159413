-------------------------- MODULE MCCommandControl --------------------------
(* CommandControl for TLC. *)
EXTENDS CommandControl, TLC

\* Command ids are interchangeable.
Symmetry == Permutations(Cmd)
=============================================================================
