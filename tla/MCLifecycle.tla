---------------------------- MODULE MCLifecycle ----------------------------
(* Two connections, the second beyond the initial pool.  The selector      *)
(* takes two descriptors besides the listener and the process can open one *)
(* more, so that two clients, or a client and its remote, fill the table,  *)
(* and both a third client and a second remote meet the limit.  Two        *)
(* resolver threads, so that a late answer and a new one can cross.        *)
EXTENDS Lifecycle
=============================================================================
