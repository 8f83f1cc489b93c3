--------------------------- MODULE HostAvailability ---------------------------
(***************************************************************************)
(* What the dashboard promises about a server's availability, independent  *)
(* of how it is measured: a server is unknown until it is first observed,  *)
(* then UP or DOWN, and the activity log tells the story of the status     *)
(* without repeating itself.  The log is kept as the number of host_down   *)
(* events that no host_recovered event has answered yet.                   *)
(***************************************************************************)
EXTENDS Integers

CONSTANT Hosts        (* the configured servers                            *)

VARIABLES
  status,             (* what the dashboard shows for each server          *)
  outages             (* host_down events minus host_recovered events      *)

vars == <<status, outages>>

Statuses == {"unknown", "online", "offline"}

Init ==
  /\ status  = [h \in Hosts |-> "unknown"]
  /\ outages = [h \in Hosts |-> 0]

(* The first good observation is not a recovery: nothing is logged.        *)
FirstUp(h) ==
  /\ status[h] = "unknown"
  /\ status'   = [status EXCEPT ![h] = "online"]
  /\ UNCHANGED outages

(* A server that was not DOWN fails: one host_down event.                  *)
GoDown(h) ==
  /\ status[h] \in {"unknown", "online"}
  /\ status'   = [status EXCEPT ![h] = "offline"]
  /\ outages'  = [outages EXCEPT ![h] = @ + 1]

(* A server that was DOWN answers: one host_recovered event.               *)
Recover(h) ==
  /\ status[h] = "offline"
  /\ status'   = [status EXCEPT ![h] = "online"]
  /\ outages'  = [outages EXCEPT ![h] = @ - 1]

Next == \E h \in Hosts : FirstUp(h) \/ GoDown(h) \/ Recover(h)

Spec == Init /\ [][Next]_vars

===============================================================================
