------------------------- MODULE MCPrioritySemaphore -------------------------
(* A small instance of the synthesis semaphore for TLC. *)
EXTENDS PrioritySemaphore
=============================================================================
