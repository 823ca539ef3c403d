---------------------------- MODULE MCSemaphores ----------------------------
(* Semaphores on a few requests to one host.                               *)
EXTENDS Semaphores

CONSTANTS hostA, r1, r2, r3

MCOneHost == [r \in Requests |-> hostA]
=============================================================================
