--------------------------- MODULE UsageDisturbed ---------------------------
(***************************************************************************)
(* UsageAccounting on a machine whose wall clock may be set back and whose *)
(* database may refuse to store a failure: the two disturbances server.py  *)
(* meets with max(0.0, ts - last_seen) in _update_gpu and with the second  *)
(* handle_payload of consume_gpu_result.                                   *)
(***************************************************************************)
EXTENDS UsageAccounting

CONSTANTS
  MaxStepBacks,   (* bound: how often the wall clock is set back           *)
  MaxUnstored     (* bound: failures the database could not store          *)

VARIABLES stepBacks, unstored

disturbances == <<stepBacks, unstored>>

(* The wall clock is set back; deadlines follow the monotonic one.         *)
StepBack ==
  /\ stepBacks < MaxStepBacks
  /\ stepBacks' = stepBacks + 1
  /\ clock' \in {t \in Instants : t < clock}
  /\ UNCHANGED <<rest, host, gpu, usage, capacity, lost, before, deletions, unstored>>

(* A probe fails, and so do both attempts of consume_gpu_result to store   *)
(* that: the exception ends the tick and the old deadline stands.          *)
FailUnstored ==
  /\ rest = Spacing
  /\ unstored < MaxUnstored
  /\ unstored' = unstored + 1
  /\ lost' = lost \union LostSince
  /\ UNCHANGED <<clock, rest, host, gpu, usage, capacity, before, deletions, stepBacks>>

DisturbedInit == Init /\ stepBacks = 0 /\ unstored = 0

DisturbedNext ==
  \/ Next /\ UNCHANGED disturbances
  \/ StepBack
  \/ FailUnstored

DisturbedSpec == DisturbedInit /\ [][DisturbedNext]_<<vars, disturbances>>

===============================================================================
