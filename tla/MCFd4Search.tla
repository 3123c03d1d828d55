---------------------------- MODULE MCFd4Search -----------------------------
(***************************************************************************)
(* A tree for fd4:      r -- a -- c -- d -- e                              *)
(*                      |    +--- f                                        *)
(*                      +--- b                                             *)
(* e and f are files.  With --max-depth 2 d is reported and not entered.   *)
(***************************************************************************)
EXTENDS Fd4Search

CONSTANTS r, a, b, c, d, e, f

MCNodes == {r, a, b, c, d, e, f}
MCDirs == {r, a, b, c, d}
MCParent == [n \in MCNodes \ {r} |->
               CASE n \in {a, b} -> r
                 [] n \in {c, f} -> a
                 [] n = d -> c
                 [] n = e -> d]
MCLevel == [n \in MCNodes |->
              CASE n = r -> 0
                [] n \in {a, b} -> 1
                [] n \in {c, f} -> 2
                [] n = d -> 3
                [] n = e -> 4]
MCItems == {<<x, k>> \in MCDirs \X (0..3) : k <= MCLevel[x]}
=============================================================================
