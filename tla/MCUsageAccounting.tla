--------------------------- MODULE MCUsageAccounting ---------------------------
(* One GPU, a process the probe can follow and one it cannot.              *)
EXTENDS UsageAccounting, TLC

CONSTANTS none, some      (* the amounts of memory: they are only compared *)

MCOwner == [p \in Processes |-> IF p = "tracked" THEN "alice" ELSE "bob"]
MCSymmetry == Permutations(Memory)

===============================================================================
