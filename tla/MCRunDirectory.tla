--------------------------- MODULE MCRunDirectory ---------------------------
(* Two directories are interchangeable. *)
EXTENDS RunDirectory

DirSymmetry == Permutations(Dirs)
=============================================================================
