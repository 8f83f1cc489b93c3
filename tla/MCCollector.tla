----------------------------- MODULE MCCollector -----------------------------
(* The instances of Collector that TLC checks; the values are in the cfgs. *)
EXTENDS Collector
===============================================================================
