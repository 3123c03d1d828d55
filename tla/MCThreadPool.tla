---------------------------- MODULE MCThreadPool ----------------------------
(***************************************************************************)
(* Small instances of ThreadPool for TLC; the cfg files give the sets.     *)
(***************************************************************************)
EXTENDS ThreadPool
=============================================================================
