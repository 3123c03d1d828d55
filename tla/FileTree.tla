------------------------------ MODULE FileTree ------------------------------
(***************************************************************************)
(* The directory tree the fd programs search, as directory_iterator shows  *)
(* it, and which entries a search reports.  A node is a path, so it has    *)
(* one parent; a symbolic link to a directory is a directory with a path   *)
(* of its own (entry.is_directory() follows links), and the kernel's limit *)
(* on nested links keeps the tree finite.  The tree does not change during *)
(* a search, but reading any Faulty directory may throw filesystem_error.  *)
(***************************************************************************)
EXTENDS Integers, FiniteSets

CONSTANTS
  Nodes,      \* paths
  Root,       \* the directory the search starts from
  Dirs,       \* paths for which is_directory() holds
  parent,     \* the directory each other path is an entry of
  Level,      \* how many directories below the root a path is
  Matching,   \* paths whose file name matches the pattern
  Ignored,    \* paths some .gitignore rule matches
  HasRules,   \* whether .gitignore gave any rule
  Faulty,     \* directories whose iteration can throw
  MaxDepth    \* --max-depth, -1 when there is no limit

ASSUME TreeAssumption ==
  /\ IsFiniteSet(Nodes)
  /\ Root \in Dirs /\ Dirs \subseteq Nodes
  /\ parent \in [Nodes \ {Root} -> Dirs]
  /\ Level \in [Nodes -> Nat]
  /\ Level[Root] = 0
  /\ \A n \in Nodes \ {Root} : Level[n] = Level[parent[n]] + 1
  /\ Matching \subseteq Nodes
  /\ Ignored \subseteq Nodes
  /\ HasRules \in BOOLEAN /\ (Ignored # {} => HasRules)
  /\ Faulty \subseteq Dirs
  /\ MaxDepth \in Nat \cup {-1}

Entries(d) == {n \in Nodes \ {Root} : parent[n] = d}

\* max_depth == -1 || current_depth < max_depth
DepthAllows(depth) == MaxDepth = -1 \/ depth < MaxDepth

\* is_ignored keeps a string_view of the temporary path.string(), which is
\* destroyed before the first rule is tried: with any rule at all the match
\* reads a dead string and may answer either way.
is_ignored == IF HasRules THEN BOOLEAN ELSE {FALSE}

-----------------------------------------------------------------------------
(* What the recursive fd_search of fd.cpp and fd2.cpp visits and reports,  *)
(* given which entries is_ignored rejected and which directories threw.    *)

ClosedUnderSearch(S, skipped, failed) ==
  /\ Root \in S
  /\ \A d \in S \ failed : DepthAllows(Level[d]) =>
       Entries(d) \cap Dirs \subseteq S \cup skipped

\* The least set of directories closed under recursion.
Searched(skipped, failed) ==
  {d \in Dirs : \A S \in SUBSET Dirs : ClosedUnderSearch(S, skipped, failed) => d \in S}

\* A directory that threw may have yielded some of its entries first.
Reported(skipped, failed) ==
  LET visited == Searched(skipped, failed) \ failed
  IN  {n \in (Matching \ {Root}) \ skipped : parent[n] \in visited}
=============================================================================
