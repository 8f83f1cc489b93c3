--------------------------- MODULE MCUsageDisturbed ---------------------------
(* One GPU and one process, on a machine that misbehaves once.             *)
EXTENDS UsageDisturbed

MCOwner == [p \in Processes |-> "alice"]

===============================================================================
