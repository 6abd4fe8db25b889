---------------------------- MODULE MCWorkerPool ----------------------------
(* WorkerPool on two keys and one slot.                                      *)
EXTENDS WorkerPool, TLC

CONSTANTS k1, k2

\* k1 goes on air twice, so that it reconnects; the others once.
SessionsOfTwo == k1 :> 2 @@ k2 :> 1
=============================================================================
