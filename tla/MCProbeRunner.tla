---- MODULE MCProbeRunner ----
EXTENDS ProbeRunner
====
