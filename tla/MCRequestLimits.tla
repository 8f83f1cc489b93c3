---- MODULE MCRequestLimits ----
EXTENDS RequestLimits

MCWindow == [read |-> 1, change |-> 2, failure |-> 3]
MCLimit == [read |-> 1, change |-> 2, failure |-> 1, everyone |-> 2]
Symmetric == Permutations(Handlers) \cup Permutations(Addresses)
====
