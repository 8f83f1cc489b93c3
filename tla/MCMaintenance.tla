---- MODULE MCMaintenance ----
EXTENDS Maintenance
====
