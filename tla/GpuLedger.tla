------------------------------- MODULE GpuLedger -------------------------------
(***************************************************************************)
(* What the usage figures of one GPU mean, whatever tables hold them: every *)
(* instant of the GPU's past gets at most one verdict, and keeps it.        *)
(*   blank  nothing has been claimed about the instant                      *)
(*   free, busy   the GPU was observed to be so                             *)
(*   lost   nobody saw the instant: it is never filled in                   *)
(*   forgotten   the instant is too long ago for records to be kept         *)
(* Only swapping the card wipes the verdicts, and never a loss; and only    *)
(* the oldest ones are forgotten.                                           *)
(***************************************************************************)
EXTENDS Naturals

CONSTANT Instants     (* the instants of the GPU's past, natural numbers    *)

VARIABLE verdict

Verdicts == {"blank", "free", "busy", "lost", "forgotten"}

Init == verdict = [t \in Instants |-> "blank"]

(* A period between two observations gets one verdict, where it has none.   *)
Judge ==
  \E v \in {"free", "busy", "lost"} :
    \A t \in Instants : \/ verdict'[t] = verdict[t]
                        \/ verdict[t] = "blank" /\ verdict'[t] = v

(* The card in the slot is another one: what was claimed of the old one     *)
(* goes, and the period since its last observation is lost.                 *)
Swap ==
  \A t \in Instants : \/ verdict[t] = "forgotten" /\ verdict'[t] = "forgotten"
                      \/ verdict[t] # "forgotten" /\ verdict'[t] = "lost"
                      \/ verdict[t] \notin {"forgotten", "lost"} /\ verdict'[t] = "blank"

(* Everything before some instant is forgotten, nothing after it changes.   *)
Forget ==
  \E oldest \in Instants :
    verdict' = [t \in Instants |-> IF t < oldest THEN "forgotten" ELSE verdict[t]]

Next == verdict' \in [Instants -> Verdicts] /\ (Judge \/ Swap \/ Forget)

Spec == Init /\ [][Next]_verdict

===============================================================================
