---------------------------- MODULE MCEchoServer ----------------------------
(* Two clients on one worker: the second waits in the pool's queue.           *)
EXTENDS EchoServer
=============================================================================
