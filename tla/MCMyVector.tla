----------------------------- MODULE MCMyVector -----------------------------
(***************************************************************************)
(* Small instances of MyVector for TLC; the two vectors are alike.         *)
(***************************************************************************)
EXTENDS MyVector, TLC

Symmetry == Permutations(Vecs)
=============================================================================
