----------------------------- MODULE FileSearch -----------------------------
(***************************************************************************)
(* What every fd program promises, sequential or threaded: it reports      *)
(* entries one at a time, each once and only entries the recursive search  *)
(* would reach, and does not end before it has reported all of those that  *)
(* do not lie in or below a directory it could not read.                   *)
(***************************************************************************)
EXTENDS FileTree, Sequences

VARIABLES
  found,    \* entries reported so far, in that order
  skipped,  \* entries is_ignored rejected
  failed,   \* directories whose iteration threw
  ended     \* the search is over

vars == <<found, skipped, failed, ended>>

Seen == {found[i] : i \in DOMAIN found}

Init ==
  /\ found = <<>>
  /\ skipped = {}
  /\ failed = {}
  /\ ended = FALSE

Report(n) ==
  /\ ~ended
  /\ n \notin Seen
  /\ found' = Append(found, n)
  /\ UNCHANGED <<skipped, failed, ended>>
  /\ n \in Reported(skipped, {})

Skip(n) ==
  /\ ~ended
  /\ TRUE \in is_ignored
  /\ n \notin Seen
  /\ skipped' = skipped \cup {n}
  /\ UNCHANGED <<found, failed, ended>>

Fail(d) ==
  /\ ~ended
  /\ failed' = failed \cup {d}
  /\ UNCHANGED <<found, skipped, ended>>

End ==
  /\ ~ended
  /\ ended' = TRUE
  /\ UNCHANGED <<found, skipped, failed>>
  /\ Reported(skipped, failed) \subseteq Seen

Next ==
  \/ \E n \in Nodes : Report(n) \/ Skip(n)
  \/ \E d \in Faulty : Fail(d)
  \/ End

Spec == Init /\ [][Next]_vars
=============================================================================
