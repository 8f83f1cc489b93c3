---- MODULE RequestLimits ----
(***************************************************************************)
(* What stands before a request of the dashboard: a slot for its thread    *)
(* (DashboardHTTPServer), the sliding window limiter that all threads      *)
(* share, the budget of failed passphrases and the permits for hashing.    *)
(*                                                                         *)
(* A timestamp of the monotonic clock is written as its age.  The unit of  *)
(* time is far longer than a thread needs between reading the clock and    *)
(* taking the limiter's lock.                                              *)
(***************************************************************************)
EXTENDS Integers, FiniteSets, SequencesExt

CONSTANTS
    Handlers,              \* request threads the run lets exist at once
    Slots,                 \* _request_slots
    Permits,               \* AUTH_ATTEMPT_SEMAPHORE
    Addresses,             \* clients; every one is a network scope of its own
    Window,                \* the window of a kind of key: "read", "change", "failure"
    Limit,                 \* the limit of a kind, and "everyone" for all failures together
    Capacity               \* the number of keys above which stale ones are dropped (1024)

ASSUME LimitsAssumption ==
    /\ IsFiniteSet(Handlers)
    /\ Slots \in Nat \ {0} /\ Permits \in Nat \ {0} /\ Capacity \in Nat
    /\ \A kind \in {"read", "change", "failure"} : Window[kind] \in Nat \ {0}
    /\ \A kind \in {"read", "change", "failure", "everyone"} : Limit[kind] \in Nat \ {0}
    /\ "everyone" \notin Addresses
    /\ Window["read"] <= Window["change"] /\ Window["change"] <= Window["failure"]

VARIABLES
    hits,                  \* _hits: the keys tracked and the ages of their timestamps
    freeSlots, freePermits,
    thread,                \* each request thread: what it does next, for which client
    charged,               \* observer: the ages of the charges of a key in its last window
    dropped                \* observer: keys were dropped because there were too many

vars == <<hits, freeSlots, freePermits, thread, charged, dropped>>
limiter == <<hits, charged, dropped>>

Keys == {<<"read", a>> : a \in Addresses} \cup {<<"change", a>> : a \in Addresses}
        \cup {<<"failure", a>> : a \in Addresses \cup {"everyone"}}
WindowOf(key) == Window[key[1]]
LimitOf(key) == IF key[2] = "everyone" THEN Limit["everyone"] ELSE Limit[key[1]]
NoThread == [stage |-> "none", client |-> "nobody"]
Thread(stage, a) == [stage |-> stage, client |-> a]

\* ------------------------------------------------ SlidingWindowRateLimiter

Hits(key) == IF key \in DOMAIN hits THEN hits[key] ELSE <<>>

\* Mutant: a timestamp leaves its window one unit early.
RecentEarly(ages, window) ==
    LET gone == {i \in DOMAIN ages : ages[i] >= window - 1}
    IN  SubSeq(ages, Cardinality(gone) + 1, Len(ages))

\* The deque, oldest first, without the timestamps that have left the window.
Recent(ages, window) ==
    LET gone == {i \in DOMAIN ages : ages[i] >= window}
    IN  SubSeq(ages, Cardinality(gone) + 1, Len(ages))

Tidy(key) == Recent(Hits(key), WindowOf(key))
Within(key) == Len(Tidy(key)) < LimitOf(key)

\* Beyond the capacity every key goes that was idle for the window of this caller.
Pruned(table, window) ==
    IF Cardinality(DOMAIN table) > Capacity
    THEN Restrict(table, {k \in DOMAIN table : table[k] # <<>> /\ Last(table[k]) < window})
    ELSE table

\* record, and allow when it allows; the keys of one request are charged in turn.
Charge(key) ==
    LET table == [k \in DOMAIN hits \cup {key} |->
                     IF k = key THEN Append(Tidy(k), 0) ELSE hits[k]]
    IN  /\ hits' = Pruned(table, WindowOf(key))
        /\ charged' = [charged EXCEPT ![key] = Append(@, 0)]
        /\ dropped' = (dropped \/ Cardinality(DOMAIN table) > Capacity)

\* check, and allow when it refuses: nothing is charged, but the deque is tidied.
Look(keys) ==
    /\ hits' = [k \in DOMAIN hits \cup keys |-> IF k \in keys THEN Tidy(k) ELSE hits[k]]
    /\ UNCHANGED <<charged, dropped>>

----
\* --------------------------------------------------- DashboardHTTPServer

\* process_request: a free slot and a thread; without a slot the connection is closed.
Accept(h) ==
    /\ thread[h] = NoThread
    /\ freeSlots > 0
    /\ freeSlots' = freeSlots - 1
    /\ \E a \in Addresses : thread' = [thread EXCEPT ![h] = Thread("arrived", a)]
    /\ UNCHANGED <<limiter, freePermits>>

\* Mutant: the slot of a thread that never started is kept.
KeepsSlot == freeSlots - 1

\* Mutant: the slot is given back by the thread that never started, too.
GivesBackTwice == (freeSlots - 1) + 2

\* process_request raises and gives back the slot it took a moment before.
GivesBack == (freeSlots - 1) + 1

StartFails(h) ==
    /\ thread[h] = NoThread
    /\ freeSlots > 0
    /\ freeSlots' = GivesBack
    /\ UNCHANGED <<limiter, freePermits, thread>>

\* process_request_thread: whatever became of the request, its slot is given back.
Answer(h) ==
    /\ thread[h].stage = "done"
    /\ freeSlots' = freeSlots + 1
    /\ thread' = [thread EXCEPT ![h] = NoThread]
    /\ UNCHANGED <<limiter, freePermits>>

Go(h, stage) == thread' = [thread EXCEPT ![h].stage = stage]

\* read_allowed.
Read(h) ==
    /\ thread[h].stage = "arrived"
    /\ LET key == <<"read", thread[h].client>>
       IN IF Within(key) THEN Charge(key) ELSE Look({key})
    /\ Go(h, "done")
    /\ UNCHANGED <<freeSlots, freePermits>>

\* mutation_allowed.
Change(h) ==
    /\ thread[h].stage = "arrived"
    /\ LET key == <<"change", thread[h].client>>
       IN  \/ Within(key) /\ Charge(key) /\ Go(h, "budget")
           \/ ~Within(key) /\ Look({key}) /\ Go(h, "done")
    /\ UNCHANGED <<freeSlots, freePermits>>

\* auth_failure_budget_allowed: both limits are asked, whatever the first one says. The code
\* asks in two sections under the limiter's lock; here they are one step, because nothing
\* depends on what comes between: the thread counts as one that may still record a failure
\* from the first of them on.
Budget(h) ==
    /\ thread[h].stage = "budget"
    /\ LET own == <<"failure", thread[h].client>>
           all == <<"failure", "everyone">>
       IN  /\ Look({own, all})
           /\ Go(h, IF Within(own) /\ Within(all) THEN "acquire" ELSE "done")
    /\ UNCHANGED <<freeSlots, freePermits>>

\* acquire_auth_attempt does not wait.
Acquire(h) ==
    /\ thread[h].stage = "acquire"
    /\ \/ freePermits > 0 /\ freePermits' = freePermits - 1 /\ Go(h, "verify")
       \/ freePermits = 0 /\ UNCHANGED freePermits /\ Go(h, "done")
    /\ UNCHANGED <<limiter, freeSlots>>

\* The permit is given back in a finally clause, before a failure is recorded.
Verify(h) ==
    /\ thread[h].stage = "verify"
    /\ freePermits' = freePermits + 1
    /\ \E stage \in {"done", "failed"} : Go(h, stage)
    /\ UNCHANGED <<limiter, freeSlots>>

\* record_auth_failure: first the client's network, then everyone.
Failed(h) ==
    /\ \/ /\ thread[h].stage = "failed"
          /\ Charge(<<"failure", thread[h].client>>)
          /\ Go(h, "failedToo")
       \/ /\ thread[h].stage = "failedToo"
          /\ Charge(<<"failure", "everyone">>)
          /\ Go(h, "done")
    /\ UNCHANGED <<freeSlots, freePermits>>

\* A unit of time passes; ages beyond every window are alike.
Longest == Window["failure"]
Older(ages) == [i \in DOMAIN ages |-> IF ages[i] < Longest THEN ages[i] + 1 ELSE Longest]

\* What the observer keeps of a key's charges: as many as are still in its window.
Inside(ages, window) ==
    LET young == {i \in DOMAIN ages : ages[i] < window}
    IN  SubSeq(ages, Len(ages) - Cardinality(young) + 1, Len(ages))

Tick ==
    /\ hits' = [k \in DOMAIN hits |-> Older(hits[k])]
    /\ charged' = [k \in Keys |-> Inside(Older(charged[k]), WindowOf(k))]
    /\ UNCHANGED <<dropped, freeSlots, freePermits, thread>>

Init ==
    /\ hits = <<>> /\ charged = [k \in Keys |-> <<>>] /\ dropped = FALSE
    /\ freeSlots = Slots /\ freePermits = Permits
    /\ thread = [h \in Handlers |-> NoThread]

Next ==
    \/ \E h \in Handlers : \/ Accept(h) \/ StartFails(h) \/ Answer(h) \/ Read(h) \/ Change(h)
                           \/ Budget(h) \/ Acquire(h) \/ Verify(h) \/ Failed(h)
    \/ Tick

Spec == Init /\ [][Next]_vars

----
\* The values each variable takes.
TypeOK ==
    /\ DOMAIN hits \subseteq Keys /\ \A k \in DOMAIN hits : hits[k] \in Seq(0 .. Longest)
    /\ \A k \in DOMAIN hits : \A i, j \in DOMAIN hits[k] : i < j => hits[k][i] >= hits[k][j]
    /\ freeSlots \in 0 .. Slots /\ freePermits \in 0 .. Permits
    /\ \A h \in Handlers : thread[h] = NoThread \/
         thread[h] \in [stage : {"arrived", "budget", "acquire", "verify", "failed", "failedToo", "done"},
                        client : Addresses]

\* A slot is taken exactly as long as a thread has it, a permit as long as a hash
\* is computed, on every way out of the handlers and when no thread could start.
PermitsReturn ==
    /\ freeSlots = Slots - Cardinality({h \in Handlers : thread[h] # NoThread})
    /\ freePermits = Permits - Cardinality({h \in Handlers : thread[h].stage = "verify"})

\* No window of a key, wherever it ends, holds more charges than its limit;
\* failures, which are counted after the check, exceed it by less than the threads
\* that may pass the check together.  Reads have the shortest window, so it holds
\* for them also while keys are dropped; for the others as long as none was.
WindowHeld ==
    \A k \in Keys : WindowOf(k) = Window["read"] \/ ~dropped =>
        Len(charged[k]) <= LimitOf(k) + (IF k[1] = "failure" THEN Slots - 1 ELSE 0)
====
