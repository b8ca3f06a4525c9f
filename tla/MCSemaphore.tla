----------------------------- MODULE MCSemaphore -----------------------------
(* SemaphoreDemo on the numbers of the source: more threads than permits,  *)
(* and more than one permit.                                               *)
EXTENDS Semaphore
=============================================================================
