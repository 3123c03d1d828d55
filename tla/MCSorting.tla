------------------------------ MODULE MCSorting ------------------------------
(* Every array of up to MaxLen elements over Keys, through every sort.        *)
EXTENDS Sorting
=============================================================================
