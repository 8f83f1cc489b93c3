--------------------------- MODULE Collector_proofs ---------------------------
(***************************************************************************)
(* Proofs about Collector, for any number of hosts and workers and any     *)
(* intervals: the log tells the status, the counters agree, the pool is    *)
(* bounded, a stop is silent and leaves no process behind, the backoff is  *)
(* kept, and the status history is one that HostAvailability allows.       *)
(***************************************************************************)
EXTENDS Collector, FiniteSetTheorems, TLAPS

-------------------------------------------------------------------------------
(* The inductive invariant.                                                *)

(* stop() is under way exactly when the event is set, and before that      *)
(* nothing was terminated and no result tells of a stop.                   *)
StopKnown ==
  /\ stop_event <=> stopper # "idle"
  /\ ~stop_event => terminated = {} /\ \A h \in Hosts : result[h] # "stopping"

(* A result that is being applied belongs to no future any more, and an    *)
(* ssh process to a future whose worker waits for it.                      *)
HandedOver ==
  /\ current # {} => thread = "apply"
  /\ \A h \in current : probe[h] = "none"
  /\ \A h \in running : probe[h] = "running"

(* While the backoff of a host is not over its deadline lies ahead, by at  *)
(* least what is missing.                                                  *)
BackoffAhead ==
  \A h \in Hosts :
    failures[h] >= 3 /\ quiet[h] < Backoff(failures[h]) =>
      /\ h \notin unscheduled
      /\ due[h] >= 1
      /\ due[h] + quiet[h] >= Backoff(failures[h])

Inv ==
  /\ TypeOK
  /\ StopKnown
  /\ HandedOver
  /\ ShutdownIsSilent
  /\ BackoffAhead

-------------------------------------------------------------------------------
(* The operators.                                                          *)

(* The constants as numbers.                                               *)
LEMMA Constants ==
  /\ HostCount \in Nat /\ Workers \in Nat /\ Workers > 0
  /\ Poll \in Nat /\ Poll > 0 /\ MaxBackoff \in Nat /\ MaxBackoff > 0
  /\ DiskInterval \in Nat
  /\ FailureCap \in Nat /\ FailureCap >= 3 /\ MaxRestarts \in Nat /\ Prompt \in BOOLEAN
  /\ IsFiniteSet(Hosts)
BY HostsAssumption, WorkersAssumption, TimesAssumption, CapAssumption, RestartAssumption,
   PromptAssumption, FS_Interval DEF Hosts

(* The backoff of three failures or more lies within its ceiling.          *)
LEMMA BackoffRange == \A f \in Nat : f >= 3 => Backoff(f) \in 1 .. MaxBackoff
<1> SUFFICES ASSUME NEW f \in Nat, f >= 3 PROVE Backoff(f) \in 1 .. MaxBackoff
  OBVIOUS
<1>1. Least(5, f - 3) + 1 \in 1 .. 6
  BY DEF Least
<1>2. PowersOfTwo[Least(5, f - 3) + 1] \in {1, 2, 4, 8, 16, 32}
  BY <1>1 DEF PowersOfTwo
<1>3. ASSUME NEW p \in {1, 2, 4, 8, 16, 32} PROVE Least(MaxBackoff, Poll * p) \in 1 .. MaxBackoff
  BY <1>3, Constants DEF Least
<1> QED BY <1>2, <1>3 DEF Backoff

(* A unit of time later a deadline that lies more than a unit ahead is a   *)
(* unit nearer, and a passed one is at most now.                           *)
LEMMA LaterType ==
  ASSUME NEW d \in [Hosts -> Int]
  PROVE  /\ Later(d) \in [Hosts -> Int]
         /\ \A h \in Hosts \ unscheduled : d[h] > 1 => Later(d)[h] = d[h] - 1
<1> DEFINE newer(h) == {d[g] : g \in {k \in Hosts \ unscheduled : d[h] < d[k] /\ d[k] <= 1}}
<1>1. ASSUME NEW h \in Hosts PROVE - Cardinality(newer(h)) \in Int
  <2> DEFINE S == {k \in Hosts \ unscheduled : d[h] < d[k] /\ d[k] <= 1}
  <2>1. IsFiniteSet(S)
    BY Constants, FS_Subset
  <2> HIDE DEF S
  <2>2. IsFiniteSet({d[g] : g \in S})
    <3> DEFINE T == {d[g] : g \in S}
               f == [g \in S |-> d[g]]
    <3>1. f \in Surjection(S, T)
      BY DEF Surjection
    <3> HIDE DEF f, T
    <3>2. IsFiniteSet(T)
      BY <2>1, <3>1, FS_Surjection
    <3> QED BY <3>2 DEF T
  <2>3. Cardinality({d[g] : g \in S}) \in Nat
    BY <2>2, FS_CardinalityType
  <2>4. newer(h) = {d[g] : g \in S}
    BY DEF S
  <2> QED BY <2>3, <2>4
<1>2. Later(d) = [h \in Hosts |-> IF h \in unscheduled THEN d[h]
                                  ELSE IF d[h] > 1 THEN d[h] - 1 ELSE - Cardinality(newer(h))]
  BY DEF Later
<1> HIDE DEF newer
<1> QED BY <1>1, <1>2

-------------------------------------------------------------------------------
(* The initial state.                                                      *)

LEMMA InitInv == Init => Inv
<1> SUFFICES ASSUME Init PROVE Inv
  OBVIOUS
<1>1. TypeOK
  <2>1. /\ due \in [Hosts -> Int] /\ outages \in [Hosts -> Int]
        /\ failures \in [Hosts -> 0 .. FailureCap] /\ consecutive \in [Hosts -> 0 .. FailureCap]
        /\ elapsed \in [Hosts -> 0 .. Poll] /\ diskWait \in [Hosts -> 0 .. DiskInterval]
    BY Constants DEF Init
  <2>2. /\ quiet \in [Hosts -> 0 .. MaxBackoff] /\ restarts \in 0 .. MaxRestarts
        /\ attempt \in [Hosts -> 1 .. 2]
    BY Constants DEF Init
  <2>3. /\ online \in [Hosts -> {"unknown", "online", "offline"}]
        /\ probe \in [Hosts -> {"none", "queued", "running", "pause", "done"}]
        /\ result \in [Hosts -> Results] /\ disk \in [Hosts -> {"none", "pending", "done"}]
    BY DEF Init, Results
  <2> QED BY <2>1, <2>2, <2>3 DEF Init, TypeOK
<1>2. StopKnown /\ HandedOver /\ ShutdownIsSilent
  BY DEF Init, StopKnown, HandedOver, ShutdownIsSilent
<1>3. BackoffAhead
  BY DEF Init, BackoffAhead
<1> QED BY <1>1, <1>2, <1>3 DEF Inv

-------------------------------------------------------------------------------
(* Types.                                                                  *)

(* MarkHost keeps the types of the rows.                                   *)
LEMMA MarkHostType ==
  ASSUME TypeOK, NEW h \in Hosts, NEW up \in BOOLEAN, MarkHost(h, up)
  PROVE  /\ online' \in [Hosts -> {"unknown", "online", "offline"}]
         /\ consecutive' \in [Hosts -> 0 .. FailureCap]
         /\ outages' \in [Hosts -> Int]
<1>1. outages[h] \in Int /\ consecutive[h] \in 0 .. FailureCap
  BY DEF TypeOK
<1>2. consecutive' \in [Hosts -> 0 .. FailureCap]
  BY <1>1, Constants DEF MarkHost, TypeOK, Least
<1>3. outages' \in [Hosts -> Int]
  <2>1. PICK n \in {outages[h] - 1, outages[h], outages[h] + 1} :
          outages' = [outages EXCEPT ![h] = n]
    BY DEF MarkHost, EventFor
  <2> QED BY <1>1, <2>1 DEF TypeOK
<1> QED BY <1>2, <1>3 DEF MarkHost, TypeOK

(* A worker that is done leaves its future, result and attempt typed.      *)
LEMMA CompleteType ==
  ASSUME TypeOK, NEW h \in Hosts, NEW r \in Results, Complete(h, r)
  PROVE  /\ probe' \in [Hosts -> {"none", "queued", "running", "pause", "done"}]
         /\ attempt' \in [Hosts -> 1 .. 2]
         /\ result' \in [Hosts -> Results]
BY DEF Complete, TypeOK

(* Deadlines are numbers.                                                  *)
LEMMA NextDueType ==
  ASSUME TypeOK, NEW h \in Hosts, NEW d \in Int
  PROVE  NextDue(h, d) \in Int /\ NextDue(h, d) >= d /\ NextDue(h, d) >= 1
BY Constants DEF NextDue, Greatest, TypeOK

LEMMA DelayType ==
  ASSUME TypeOK, NEW h \in Hosts, NEW f \in 0 .. FailureCap, NEW stored \in BOOLEAN
  PROVE  Delay(h, f, stored) \in Int
BY BackoffRange, Constants DEF Delay, TypeOK

(* What handle_payload's failure branch does, whichever way it ends.       *)
LEMMA FailureShape ==
  ASSUME TypeOK, NEW h \in Hosts, ApplyFailure(h)
  PROVE  \E bumps, stored, counted, delayed :
           /\ bumps \in 1 .. 2 /\ stored \in BOOLEAN
           /\ counted = Least(FailureCap, failures[h] + bumps)
           /\ delayed = Delay(h, counted, stored)
           /\ failures' = [failures EXCEPT ![h] = counted]
           /\ quiet' = [quiet EXCEPT ![h] = IF counted >= 3 THEN 0 ELSE MaxBackoff]
           /\ \/ /\ MarkHost(h, FALSE)
                 /\ due' = [due EXCEPT ![h] = NextDue(h, delayed)]
                 /\ unscheduled' = unscheduled \ {h}
                 /\ thread' = "drain" /\ UNCHANGED todo
              \/ /\ due' = [due EXCEPT ![h] = delayed]
                 /\ unscheduled' = IF counted >= 3 THEN unscheduled \ {h} ELSE unscheduled
                 /\ thread' = "sleep" /\ todo' = {}
                 /\ UNCHANGED storeVars
<1> DEFINE noted(bumps) == Least(FailureCap, failures[h] + bumps)
<1>1. PICK bumps \in 1 .. 2, stored \in BOOLEAN :
        /\ failures' = [failures EXCEPT ![h] = noted(bumps)]
        /\ quiet' = [quiet EXCEPT ![h] = IF noted(bumps) >= 3 THEN 0 ELSE MaxBackoff]
        /\ \/ /\ MarkHost(h, FALSE)
              /\ due' = [due EXCEPT ![h] = NextDue(h, Delay(h, noted(bumps), stored))]
              /\ unscheduled' = unscheduled \ {h}
              /\ thread' = "drain" /\ UNCHANGED todo
           \/ /\ due' = [due EXCEPT ![h] = Delay(h, noted(bumps), stored)]
              /\ unscheduled' = IF noted(bumps) >= 3 THEN unscheduled \ {h} ELSE unscheduled
              /\ thread' = "sleep" /\ todo' = {}
              /\ UNCHANGED storeVars
  BY DEF ApplyFailure
<1>2. PICK counted : counted = noted(bumps)
  OBVIOUS
<1>3. PICK delayed : delayed = Delay(h, counted, stored)
  OBVIOUS
<1> QED BY <1>1, <1>2, <1>3

LEMMA SchedulerType == TypeOK /\ Scheduler => TypeOK'
<1> SUFFICES ASSUME TypeOK, Scheduler PROVE TypeOK'
  OBVIOUS
<1> USE DEF schedulerVars, workerVars, stopVars, storeVars
<1>1. CASE BeginTick
  BY <1>1, Constants DEF BeginTick, TypeOK
<1>2. CASE ExitThread
  BY <1>2 DEF ExitThread, TypeOK
<1>3. CASE CollectDisk
  BY <1>3 DEF CollectDisk, TypeOK
<1>4. CASE DisksCollected
  BY <1>4 DEF DisksCollected, TypeOK, InFlight
<1>5. CASE Drain
  <2>1. PICK h \in todo :
          /\ todo' = todo \ {h}
          /\ \/ /\ probe[h] # "done"
                /\ UNCHANGED <<thread, current, due, unscheduled, probe, result, elapsed>>
             \/ /\ probe' = [probe EXCEPT ![h] = "none"]
                /\ thread' = "apply" /\ current' = {h}
                /\ UNCHANGED <<due, unscheduled, result, elapsed>>
             \/ /\ probe' = [probe EXCEPT ![h] = "none"]
                /\ due' = [due EXCEPT ![h] = NextDue(h, due[h])]
                /\ unscheduled' = unscheduled \ {h}
                /\ result'  = [result EXCEPT ![h] = "none"]
                /\ elapsed' = [elapsed EXCEPT ![h] = 0]
                /\ UNCHANGED <<thread, current>>
    BY <1>5 DEF Drain
  <2>2. h \in Hosts /\ due[h] \in Int
    BY DEF TypeOK
  <2>3. NextDue(h, due[h]) \in Int
    BY <2>2, NextDueType
  <2>4. UNCHANGED <<failures, diskWait, attempt, running, disk, stopVars, storeVars, quiet,
                    passed, restarts>>
    BY <1>5 DEF Drain
  <2> QED BY <2>1, <2>2, <2>3, <2>4, Constants DEF TypeOK, Results
<1>6. CASE Apply
  <2>1. PICK h \in current :
          /\ ApplySuccess(h) \/ ApplyFailure(h)
          /\ result'  = [result EXCEPT ![h] = "none"]
          /\ elapsed' = [elapsed EXCEPT ![h] = 0]
    BY <1>6 DEF Apply
  <2>2. /\ h \in Hosts /\ current' = {}
        /\ UNCHANGED <<diskWait, probe, attempt, running, disk, stopVars, passed, restarts>>
    BY <1>6 DEF Apply, TypeOK
  <2>3. result' \in [Hosts -> Results] /\ elapsed' \in [Hosts -> 0 .. Poll]
    BY <2>1, <2>2, Constants DEF TypeOK, Results
  <2>4. CASE ApplySuccess(h)
    <3>1. /\ online' \in [Hosts -> {"unknown", "online", "offline"}]
          /\ consecutive' \in [Hosts -> 0 .. FailureCap]
          /\ outages' \in [Hosts -> Int]
      BY <2>2, <2>4, MarkHostType DEF ApplySuccess
    <3>2. NextDue(h, 0) \in Int
      BY <2>2, NextDueType
    <3>3. /\ due' \in [Hosts -> Int] /\ failures' \in [Hosts -> 0 .. FailureCap]
          /\ quiet' \in [Hosts -> 0 .. MaxBackoff]
      BY <2>2, <2>4, <3>2, Constants DEF ApplySuccess, TypeOK
    <3> QED BY <2>2, <2>3, <2>4, <3>1, <3>3 DEF ApplySuccess, TypeOK
  <2>5. CASE ApplyFailure(h)
    <3>1. PICK bumps, stored, counted, delayed :
            /\ bumps \in 1 .. 2 /\ stored \in BOOLEAN
            /\ counted = Least(FailureCap, failures[h] + bumps)
            /\ delayed = Delay(h, counted, stored)
            /\ failures' = [failures EXCEPT ![h] = counted]
            /\ quiet' = [quiet EXCEPT ![h] = IF counted >= 3 THEN 0 ELSE MaxBackoff]
            /\ \/ /\ MarkHost(h, FALSE)
                  /\ due' = [due EXCEPT ![h] = NextDue(h, delayed)]
                  /\ unscheduled' = unscheduled \ {h}
                  /\ thread' = "drain" /\ UNCHANGED todo
               \/ /\ due' = [due EXCEPT ![h] = delayed]
                  /\ unscheduled' = IF counted >= 3 THEN unscheduled \ {h} ELSE unscheduled
                  /\ thread' = "sleep" /\ todo' = {}
                  /\ UNCHANGED storeVars
      BY <2>2, <2>5, FailureShape
    <3>2. counted \in 0 .. FailureCap
      BY <2>2, <3>1, Constants DEF Least, TypeOK
    <3>3. delayed \in Int /\ NextDue(h, delayed) \in Int
      BY <2>2, <3>1, <3>2, DelayType, NextDueType
    <3>4. failures' \in [Hosts -> 0 .. FailureCap] /\ due' \in [Hosts -> Int]
      <4>1. failures' \in [Hosts -> 0 .. FailureCap]
        <5> HIDE DEF schedulerVars, workerVars, stopVars, storeVars
        <5>1. failures' = [failures EXCEPT ![h] = counted]
          BY <3>1
        <5> QED BY <2>2, <3>2, <5>1 DEF TypeOK
      <4>2. PICK d \in Int : due' = [due EXCEPT ![h] = d]
        BY <3>1, <3>3
      <4> QED BY <2>2, <4>1, <4>2 DEF TypeOK
    <3>6. quiet' \in [Hosts -> 0 .. MaxBackoff]
      <4>1. (IF counted >= 3 THEN 0 ELSE MaxBackoff) \in 0 .. MaxBackoff
        BY Constants
      <4> QED BY <2>2, <3>1, <4>1 DEF TypeOK
    <3>5. /\ online' \in [Hosts -> {"unknown", "online", "offline"}]
          /\ consecutive' \in [Hosts -> 0 .. FailureCap]
          /\ outages' \in [Hosts -> Int]
      BY <2>2, <3>1, MarkHostType DEF TypeOK
    <3> QED BY <2>2, <2>3, <3>1, <3>4, <3>5, <3>6 DEF TypeOK
  <2> QED BY <2>1, <2>4, <2>5
<1>7. CASE Drained
  BY <1>7 DEF Drained, TypeOK
<1>8. CASE Schedule
  BY <1>8 DEF Schedule, TypeOK
<1>9. CASE Stagger
  BY <1>9, Constants DEF Stagger, TypeOK
<1> QED BY <1>1, <1>2, <1>3, <1>4, <1>5, <1>6, <1>7, <1>8, <1>9 DEF Scheduler

LEMMA NextType == TypeOK /\ [Next]_vars => TypeOK'
<1> SUFFICES ASSUME TypeOK, [Next]_vars PROVE TypeOK'
  OBVIOUS
<1> USE DEF schedulerVars, workerVars, stopVars, storeVars
<1>1. CASE UNCHANGED vars
  BY <1>1 DEF vars, TypeOK
<1>2. CASE Scheduler
  BY <1>2, SchedulerType
<1>3. ASSUME NEW h \in Hosts, Launch(h) PROVE TypeOK'
  <2>1. "stopping" \in Results /\ "fail" \in Results
    BY DEF Results
  <2>2. /\ probe' \in [Hosts -> {"none", "queued", "running", "pause", "done"}]
        /\ attempt' \in [Hosts -> 1 .. 2]
        /\ result' \in [Hosts -> Results]
        /\ running' \in SUBSET Hosts
    BY <1>3, <2>1, CompleteType DEF Launch, TypeOK
  <2> QED BY <1>3, <2>2 DEF Launch, TypeOK
<1>4. ASSUME NEW h \in Hosts, Finish(h) PROVE TypeOK'
  <2>1. \A outcome \in Outcomes : Conclusion(outcome) \in Results
    BY DEF Outcomes, Conclusion, Results
  <2>2. "stopping" \in Results /\ "fail" \in Results
    BY DEF Results
  <2>3. /\ probe' \in [Hosts -> {"none", "queued", "running", "pause", "done"}]
        /\ attempt' \in [Hosts -> 1 .. 2]
        /\ result' \in [Hosts -> Results]
    <3>1. CASE \E r \in Results : Complete(h, r)
      BY <3>1, CompleteType
    <3>2. CASE probe' = [probe EXCEPT ![h] = "pause"] /\ UNCHANGED <<attempt, result>>
      BY <3>2 DEF TypeOK
    <3> QED BY <1>4, <2>1, <2>2, <3>1, <3>2 DEF Finish
  <2> QED BY <1>4, <2>3 DEF Finish, TypeOK
<1>5. ASSUME NEW h \in Hosts, Retry(h) PROVE TypeOK'
  <2>1. "fail" \in Results
    BY DEF Results
  <2>2. /\ probe' \in [Hosts -> {"none", "queued", "running", "pause", "done"}]
        /\ attempt' \in [Hosts -> 1 .. 2]
        /\ result' \in [Hosts -> Results]
    BY <1>5, <2>1, CompleteType DEF Retry, TypeOK
  <2> QED BY <1>5, <2>2 DEF Retry, TypeOK
<1>6. ASSUME NEW h \in Hosts, FinishDisk(h) PROVE TypeOK'
  BY <1>6 DEF FinishDisk, TypeOK
<1>7. CASE SetStop
  BY <1>7 DEF SetStop, TypeOK
<1>8. CASE Stopping
  <2>1. CASE TerminateAll
    BY <1>8, <2>1 DEF TerminateAll, TypeOK
  <2>2. CASE ClosePools
    <3>1. PICK cancelled \in SUBSET Hosts :
            /\ probe'  = [h \in Hosts |-> IF h \in cancelled THEN "done" ELSE probe[h]]
            /\ result' = [h \in Hosts |-> IF h \in cancelled THEN "stopping" ELSE result[h]]
      BY <2>2 DEF ClosePools
    <3>2. /\ probe' \in [Hosts -> {"none", "queued", "running", "pause", "done"}]
          /\ result' \in [Hosts -> Results]
      BY <3>1 DEF TypeOK, Results
    <3> QED BY <2>2, <3>2 DEF ClosePools, TypeOK
  <2> QED BY <1>8, <2>1, <2>2 DEF Stopping
<1>9. CASE Tick
  <2>1. due' \in [Hosts -> Int]
    BY <1>9, LaterType DEF Tick, TypeOK
  <2>2. /\ elapsed' \in [Hosts -> 0 .. Poll]
        /\ diskWait' \in [Hosts -> 0 .. DiskInterval]
        /\ quiet' \in [Hosts -> 0 .. MaxBackoff]
    BY <1>9, Constants DEF Tick, TypeOK, Least, Greatest
  <2> QED BY <1>9, <2>1, <2>2 DEF Tick, TypeOK
<1>10. CASE Restart
  <2>1. /\ due' \in [Hosts -> Int] /\ failures' \in [Hosts -> 0 .. FailureCap]
        /\ elapsed' \in [Hosts -> 0 .. Poll] /\ diskWait' \in [Hosts -> 0 .. DiskInterval]
    BY <1>10, Constants DEF Restart, ReloadedFailures, TypeOK
  <2>2. /\ quiet' \in [Hosts -> 0 .. MaxBackoff] /\ restarts' \in 0 .. MaxRestarts
        /\ attempt' \in [Hosts -> 1 .. 2]
    BY <1>10, Constants DEF Restart, TypeOK
  <2>3. /\ probe' \in [Hosts -> {"none", "queued", "running", "pause", "done"}]
        /\ result' \in [Hosts -> Results] /\ disk' \in [Hosts -> {"none", "pending", "done"}]
    BY <1>10 DEF Restart, Results
  <2> QED BY <1>10, <2>1, <2>2, <2>3 DEF Restart, TypeOK
<1> QED BY <1>1, <1>2, <1>3, <1>4, <1>5, <1>6, <1>7, <1>8, <1>9, <1>10 DEF Next, Worker

-------------------------------------------------------------------------------
(* The steps.                                                              *)

(* What one future of the drain loop may change.                           *)
LEMMA DrainFacts ==
  ASSUME TypeOK, Drain
  PROVE  \E h \in Hosts :
           /\ thread = "drain"
           /\ \/ UNCHANGED <<thread, current, due, unscheduled, probe, result>>
              \/ /\ probe[h] = "done" /\ ~stop_event
                 /\ probe' = [probe EXCEPT ![h] = "none"]
                 /\ thread' = "apply" /\ current' = {h}
                 /\ UNCHANGED <<due, unscheduled, result>>
              \/ /\ probe[h] = "done"
                 /\ probe' = [probe EXCEPT ![h] = "none"]
                 /\ due' = [due EXCEPT ![h] = NextDue(h, due[h])]
                 /\ unscheduled' = unscheduled \ {h}
                 /\ result' = [result EXCEPT ![h] = "none"]
                 /\ UNCHANGED <<thread, current>>
           /\ UNCHANGED <<failures, quiet, attempt, running, stopVars, storeVars, restarts>>
BY DEF Drain, AcceptsResults, TypeOK

(* Workers touch only futures that are queued, running or pausing.         *)
LEMMA WorkerFacts ==
  ASSUME TypeOK, NEW h \in Hosts, Worker(h)
  PROVE  /\ probe[h] \in {"queued", "running", "pause"}
         /\ probe'[h] \in {"queued", "running", "pause", "done"}
         /\ \A g \in Hosts : g # h => probe'[g] = probe[g] /\ result'[g] = result[g]
         /\ ~stop_event => result'[h] = result[h] \/ result'[h] \in {"ok", "invalid", "fail"}
         /\ \/ running' = running /\ (probe[h] = "queued" \/ probe[h] = "pause")
            \/ running' = running \ {h}
            \/ running' = running \union {h} /\ probe'[h] = "running" /\ ~stop_event
         /\ UNCHANGED <<schedulerVars, stopVars, storeVars, quiet, restarts>>
<1> USE DEF TypeOK
<1>1. CASE Launch(h)
  BY <1>1 DEF Launch, Complete, MayLaunch
<1>2. CASE Finish(h)
  <2>1. \A outcome \in Outcomes :
          /\ Conclusion(outcome) \in {"ok", "invalid", "fail"}
    BY DEF Outcomes, Conclusion
  <2> QED BY <1>2, <2>1 DEF Finish, Complete
<1>3. CASE Retry(h)
  BY <1>3 DEF Retry, Complete
<1> QED BY <1>1, <1>2, <1>3 DEF Worker

(* What is applied, whether it is a success or a failure.                  *)
LEMMA ApplyFacts ==
  ASSUME TypeOK, Apply
  PROVE  \E h \in current :
           /\ ApplySuccess(h) \/ ApplyFailure(h)
           /\ result' = [result EXCEPT ![h] = "none"]
           /\ current' = {}
           /\ UNCHANGED <<probe, attempt, running, stopVars, restarts>>
BY DEF Apply

(* Of the scheduler's steps only Drain and Apply touch results, and only   *)
(* Drain, Apply and Schedule touch futures.                                *)
LEMMA SchedulerFacts ==
  ASSUME TypeOK, Scheduler, ~Drain, ~Apply
  PROVE  /\ thread # "apply"
         /\ UNCHANGED <<current, due, unscheduled, failures, quiet, result, attempt, running,
                        stopVars, storeVars, restarts>>
         /\ \A h \in Hosts : probe'[h] = probe[h] \/ (probe[h] = "none" /\ probe'[h] = "queued"
                                                      /\ IsDue(h))
<1> USE DEF TypeOK, workerVars
<1>1. CASE Schedule
  <2>1. \A batch \in Batches : \A h \in batch : h \in Hosts /\ IsDue(h) /\ probe[h] = "none"
    BY DEF Batches
  <2> QED BY <1>1, <2>1 DEF Schedule
<1> QED BY <1>1 DEF Scheduler, BeginTick, ExitThread, CollectDisk, DisksCollected, Drained, Stagger

LEMMA StopKnownStep == TypeOK /\ StopKnown /\ [Next]_vars => StopKnown'
<1> SUFFICES ASSUME TypeOK, StopKnown, [Next]_vars PROVE StopKnown'
  OBVIOUS
<1> USE DEF schedulerVars, workerVars, stopVars, storeVars, StopKnown
<1>1. CASE UNCHANGED vars
  BY <1>1 DEF vars
<1>2. CASE Drain
  BY <1>2, DrainFacts DEF TypeOK
<1>3. CASE Apply
  BY <1>3, ApplyFacts DEF TypeOK
<1>4. CASE Scheduler /\ ~Drain /\ ~Apply
  BY <1>4, SchedulerFacts
<1>5. ASSUME NEW h \in Hosts, Worker(h) PROVE StopKnown'
  BY <1>5, WorkerFacts
<1>6. ASSUME NEW h \in Hosts, FinishDisk(h) PROVE StopKnown'
  BY <1>6 DEF FinishDisk
<1>7. CASE SetStop \/ TerminateAll \/ ClosePools
  BY <1>7 DEF SetStop, TerminateAll, ClosePools
<1>8. CASE Tick
  BY <1>8 DEF Tick
<1>9. CASE Restart
  BY <1>9 DEF Restart
<1> QED BY <1>1, <1>2, <1>3, <1>4, <1>5, <1>6, <1>7, <1>8, <1>9 DEF Next, Stopping

LEMMA HandedOverStep == TypeOK /\ HandedOver /\ [Next]_vars => HandedOver'
<1> SUFFICES ASSUME TypeOK, HandedOver, [Next]_vars PROVE HandedOver'
  OBVIOUS
<1> USE DEF schedulerVars, workerVars, stopVars, storeVars, HandedOver
<1>a. current \in SUBSET Hosts /\ running \in SUBSET Hosts
  BY DEF TypeOK
<1>1. CASE UNCHANGED vars
  BY <1>1 DEF vars
<1>2. CASE Drain
  BY <1>2, <1>a, DrainFacts DEF TypeOK
<1>3. CASE Apply
  BY <1>3, ApplyFacts DEF TypeOK
<1>4. CASE Scheduler /\ ~Drain /\ ~Apply
  BY <1>4, <1>a, SchedulerFacts
<1>5. ASSUME NEW h \in Hosts, Worker(h) PROVE HandedOver'
  BY <1>5, <1>a, WorkerFacts
<1>6. ASSUME NEW h \in Hosts, FinishDisk(h) PROVE HandedOver'
  BY <1>6 DEF FinishDisk
<1>7. CASE SetStop \/ TerminateAll \/ ClosePools
  BY <1>7, <1>a DEF SetStop, TerminateAll, ClosePools
<1>8. CASE Tick
  BY <1>8 DEF Tick
<1>9. CASE Restart
  BY <1>9 DEF Restart
<1> QED BY <1>1, <1>2, <1>3, <1>4, <1>5, <1>6, <1>7, <1>8, <1>9 DEF Next, Stopping

LEMMA SilentStep ==
  TypeOK /\ StopKnown /\ HandedOver /\ ShutdownIsSilent /\ [Next]_vars => ShutdownIsSilent'
<1> SUFFICES ASSUME TypeOK, StopKnown, HandedOver, ShutdownIsSilent, [Next]_vars
             PROVE  ShutdownIsSilent'
  OBVIOUS
<1> USE DEF schedulerVars, workerVars, stopVars, storeVars, HandedOver, ShutdownIsSilent
<1>a. current \in SUBSET Hosts /\ running \in SUBSET Hosts
  BY DEF TypeOK
<1>1. CASE UNCHANGED vars
  BY <1>1 DEF vars
<1>2. CASE Drain
  BY <1>2, <1>a, DrainFacts DEF TypeOK, StopKnown
<1>3. CASE Apply
  BY <1>3, ApplyFacts
<1>4. CASE Scheduler /\ ~Drain /\ ~Apply
  BY <1>4, <1>a, SchedulerFacts
<1>5. ASSUME NEW h \in Hosts, Worker(h) PROVE ShutdownIsSilent'
  BY <1>5, <1>a, WorkerFacts
<1>6. ASSUME NEW h \in Hosts, FinishDisk(h) PROVE ShutdownIsSilent'
  BY <1>6 DEF FinishDisk
<1>7. CASE SetStop \/ TerminateAll \/ ClosePools
  BY <1>7, <1>a DEF SetStop, TerminateAll, ClosePools
<1>8. CASE Tick
  BY <1>8 DEF Tick
<1>9. CASE Restart
  BY <1>9 DEF Restart
<1> QED BY <1>1, <1>2, <1>3, <1>4, <1>5, <1>6, <1>7, <1>8, <1>9 DEF Next, Stopping

(* A result changes the rows and records of one host, and no others.       *)
LEMMA ApplyOthers ==
  ASSUME TypeOK, NEW h \in Hosts, ApplySuccess(h) \/ ApplyFailure(h), NEW g \in Hosts, g # h
  PROVE  /\ failures'[g] = failures[g] /\ quiet'[g] = quiet[g] /\ due'[g] = due[g]
         /\ g \in unscheduled' <=> g \in unscheduled
         /\ online'[g] = online[g] /\ consecutive'[g] = consecutive[g]
         /\ outages'[g] = outages[g]
<1> USE DEF TypeOK, MarkHost, storeVars
<1>1. CASE ApplySuccess(h)
  BY <1>1 DEF ApplySuccess
<1>2. CASE ApplyFailure(h)
  <2>1. PICK bumps, stored, counted, delayed :
          /\ bumps \in 1 .. 2 /\ stored \in BOOLEAN
          /\ counted = Least(FailureCap, failures[h] + bumps)
          /\ delayed = Delay(h, counted, stored)
          /\ failures' = [failures EXCEPT ![h] = counted]
          /\ quiet' = [quiet EXCEPT ![h] = IF counted >= 3 THEN 0 ELSE MaxBackoff]
          /\ \/ /\ MarkHost(h, FALSE)
                /\ due' = [due EXCEPT ![h] = NextDue(h, delayed)]
                /\ unscheduled' = unscheduled \ {h}
                /\ thread' = "drain" /\ UNCHANGED todo
             \/ /\ due' = [due EXCEPT ![h] = delayed]
                /\ unscheduled' = IF counted >= 3 THEN unscheduled \ {h} ELSE unscheduled
                /\ thread' = "sleep" /\ todo' = {}
                /\ UNCHANGED storeVars
    BY <1>2, FailureShape
  <2>2. MarkHost(h, FALSE) \/ UNCHANGED storeVars
    BY <2>1
  <2>3. failures'[g] = failures[g] /\ quiet'[g] = quiet[g] /\ due'[g] = due[g]
    BY <2>1
  <2>4. g \in unscheduled' <=> g \in unscheduled
    BY <2>1
  <2>5. online'[g] = online[g] /\ consecutive'[g] = consecutive[g] /\ outages'[g] = outages[g]
    BY <2>2
  <2> QED BY <2>3, <2>4, <2>5
<1> QED BY <1>1, <1>2

(* What a success leaves for its host.                                     *)
LEMMA SuccessFacts ==
  ASSUME TypeOK, NEW h \in Hosts, ApplySuccess(h)
  PROVE  failures'[h] = 0 /\ MarkHost(h, TRUE)
BY DEF ApplySuccess, TypeOK

(* What a failure leaves for its host: a larger count, and a deadline that *)
(* is no nearer than the backoff of three or more.                         *)
LEMMA FailureFacts ==
  ASSUME TypeOK, NEW h \in Hosts, ApplyFailure(h)
  PROVE  /\ failures'[h] \in 0 .. FailureCap
         /\ failures'[h] >= failures[h]
         /\ failures'[h] >= 3 => h \notin unscheduled' /\ quiet'[h] = 0
         /\ failures'[h] >= 3 => due'[h] \in Int /\ due'[h] >= Backoff(failures'[h])
         /\ \/ MarkHost(h, FALSE) /\ failures'[h] >= Least(FailureCap, failures[h] + 1)
            \/ UNCHANGED storeVars
<1>1. PICK bumps, stored, counted, delayed :
        /\ bumps \in 1 .. 2 /\ stored \in BOOLEAN
        /\ counted = Least(FailureCap, failures[h] + bumps)
        /\ delayed = Delay(h, counted, stored)
        /\ failures' = [failures EXCEPT ![h] = counted]
        /\ quiet' = [quiet EXCEPT ![h] = IF counted >= 3 THEN 0 ELSE MaxBackoff]
        /\ \/ /\ MarkHost(h, FALSE)
              /\ due' = [due EXCEPT ![h] = NextDue(h, delayed)]
              /\ unscheduled' = unscheduled \ {h}
              /\ thread' = "drain" /\ UNCHANGED todo
           \/ /\ due' = [due EXCEPT ![h] = delayed]
              /\ unscheduled' = IF counted >= 3 THEN unscheduled \ {h} ELSE unscheduled
              /\ thread' = "sleep" /\ todo' = {}
              /\ UNCHANGED storeVars
  BY FailureShape
<1>2. /\ counted \in 0 .. FailureCap /\ counted >= failures[h]
      /\ counted >= Least(FailureCap, failures[h] + 1)
  BY <1>1, Constants DEF Least, TypeOK
<1>3. failures'[h] = counted /\ quiet'[h] = IF counted >= 3 THEN 0 ELSE MaxBackoff
  BY <1>1 DEF TypeOK
<1>4. counted >= 3 => h \notin unscheduled'
  BY <1>1
<1>5. counted >= 3 => due'[h] \in Int /\ due'[h] >= Backoff(counted)
  <2> SUFFICES ASSUME counted >= 3 PROVE due'[h] \in Int /\ due'[h] >= Backoff(counted)
    OBVIOUS
  <2>1. delayed = Backoff(counted)
    BY <1>1 DEF Delay
  <2>2. delayed \in Int
    BY <1>2, <2>1, BackoffRange, Constants
  <2>3. due'[h] = NextDue(h, delayed) \/ due'[h] = delayed
    BY <1>1 DEF TypeOK
  <2>4. NextDue(h, delayed) \in Int /\ NextDue(h, delayed) >= delayed
    BY <2>2, NextDueType
  <2> QED BY <2>1, <2>2, <2>3, <2>4
<1> QED BY <1>1, <1>2, <1>3, <1>4, <1>5

LEMMA BackoffAheadStep == TypeOK /\ BackoffAhead /\ [Next]_vars => BackoffAhead'
<1> SUFFICES ASSUME TypeOK, BackoffAhead, [Next]_vars,
                    NEW g \in Hosts, failures'[g] >= 3, quiet'[g] < Backoff(failures[g])'
             PROVE  (/\ g \notin unscheduled
                     /\ due[g] >= 1
                     /\ due[g] + quiet[g] >= Backoff(failures[g]))'
  BY DEF BackoffAhead
<1> USE DEF schedulerVars, workerVars, stopVars, storeVars
<1>a. due[g] \in Int /\ quiet[g] \in Int /\ failures[g] \in Nat
  BY Constants DEF TypeOK
<1>b. failures'[g] \in Nat
  BY NextType, Constants DEF TypeOK
<1>c. Backoff(failures'[g]) \in 1 .. MaxBackoff
  BY <1>b, BackoffRange
<1>d. ASSUME UNCHANGED <<due, unscheduled, failures, quiet>>
      PROVE  (/\ g \notin unscheduled
              /\ due[g] >= 1
              /\ due[g] + quiet[g] >= Backoff(failures[g]))'
  BY <1>d DEF BackoffAhead
<1>1. CASE UNCHANGED vars
  BY <1>1, <1>d DEF vars
<1>2. CASE Drain
  <2>1. \/ UNCHANGED <<due, unscheduled>>
        \/ \E h \in Hosts : /\ due' = [due EXCEPT ![h] = NextDue(h, due[h])]
                            /\ unscheduled' = unscheduled \ {h}
    BY <1>2, DrainFacts
  <2>2. UNCHANGED <<failures, quiet>>
    BY <1>2, DrainFacts
  <2>3. ASSUME NEW h \in Hosts, due' = [due EXCEPT ![h] = NextDue(h, due[h])]
        PROVE  due'[g] \in Int /\ due'[g] >= due[g]
    <3>1. due[h] \in Int
      BY DEF TypeOK
    <3>2. NextDue(h, due[h]) \in Int /\ NextDue(h, due[h]) >= due[h]
      BY <3>1, NextDueType
    <3> QED BY <2>3, <3>2, <1>a DEF TypeOK
  <2>4. /\ g \notin unscheduled /\ due[g] >= 1 /\ due[g] + quiet[g] >= Backoff(failures[g])
    BY <2>2 DEF BackoffAhead
  <2> QED BY <1>a, <1>c, <2>1, <2>2, <2>3, <2>4
<1>3. CASE Apply
  <2>1. PICK h \in Hosts : ApplySuccess(h) \/ ApplyFailure(h)
    BY <1>3, ApplyFacts DEF TypeOK
  <2>2. CASE g # h
    BY <2>1, <2>2, ApplyOthers DEF BackoffAhead
  <2>3. CASE g = h /\ ApplySuccess(h)
    <3>1. failures'[g] = 0
      BY <2>3, SuccessFacts
    <3> QED BY <3>1
  <2>4. CASE g = h /\ ApplyFailure(h)
    <3>1. /\ g \notin unscheduled' /\ quiet'[g] = 0
          /\ due'[g] \in Int /\ due'[g] >= Backoff(failures'[g])
      BY <2>4, FailureFacts
    <3> QED BY <3>1, <1>c
  <2> QED BY <2>1, <2>2, <2>3, <2>4
<1>4. CASE Scheduler /\ ~Drain /\ ~Apply
  BY <1>4, <1>d, SchedulerFacts
<1>5. ASSUME NEW h \in Hosts, Worker(h) \/ FinishDisk(h)
      PROVE  UNCHANGED <<due, unscheduled, failures, quiet>>
  BY <1>5, WorkerFacts DEF FinishDisk
<1>6. CASE SetStop \/ TerminateAll \/ ClosePools
  BY <1>6, <1>d DEF SetStop, TerminateAll, ClosePools
<1>7. CASE Tick
  <2>1. /\ UNCHANGED <<unscheduled, failures>>
        /\ due' = Later(due)
        /\ quiet'[g] = Least(MaxBackoff, quiet[g] + 1)
    BY <1>7 DEF Tick
  <2>2. quiet'[g] = quiet[g] + 1 /\ quiet[g] < Backoff(failures[g])
    BY <1>a, <1>c, <2>1, Constants DEF Least
  <2>3. /\ g \notin unscheduled /\ due[g] >= 1 /\ due[g] + quiet[g] >= Backoff(failures[g])
    BY <2>1, <2>2 DEF BackoffAhead
  <2>4. due[g] > 1
    BY <1>a, <1>c, <2>1, <2>2, <2>3
  <2>5. due'[g] = due[g] - 1
    BY <2>1, <2>3, <2>4, LaterType DEF TypeOK
  <2> QED BY <1>a, <1>c, <2>1, <2>2, <2>3, <2>4, <2>5
<1>8. CASE Restart
  BY <1>8, <1>c, Constants DEF Restart
<1> QED BY <1>1, <1>2, <1>3, <1>4, <1>5, <1>6, <1>7, <1>8, <1>d DEF Next, Stopping

-------------------------------------------------------------------------------
(* The theorems.                                                           *)

(* The strengthening is an invariant.                                      *)
THEOREM Invariance == Spec => []Inv
<1>1. Inv /\ [Next]_vars => Inv'
  BY NextType, StopKnownStep, HandedOverStep, SilentStep, BackoffAheadStep DEF Inv
<1> QED BY InitInv, <1>1, PTL DEF Spec

(* Type correctness.                                                       *)
THEOREM TypeCorrectness == Spec => []TypeOK
<1>1. Inv => TypeOK
  BY DEF Inv
<1> QED BY Invariance, <1>1, PTL

(* Stopping the collector marks no server DOWN: what handle_payload is     *)
(* given was never brought about by stop().                                *)
THEOREM StopIsSilent == Spec => []ShutdownIsSilent
<1>1. Inv => ShutdownIsSilent
  BY DEF Inv
<1> QED BY Invariance, <1>1, PTL

(* No ssh process appears behind the back of stop() once it has listed the *)
(* ones to terminate, so none outlives the collector.                      *)
THEOREM NoneLeftBehind == Spec => NoLateProcess
<1>1. Inv /\ [Next]_vars =>
        [(stopper \in {"terminated", "closed"} /\ restarts' = restarts)
           => running' \subseteq running]_vars
  <2> SUFFICES ASSUME Inv, Next, stopper \in {"terminated", "closed"}, restarts' = restarts
               PROVE  running' \subseteq running
    OBVIOUS
  <2> USE DEF schedulerVars, workerVars, stopVars, storeVars
  <2>a. TypeOK /\ stop_event
    BY DEF Inv, StopKnown
  <2>1. CASE Drain
    BY <2>1, <2>a, DrainFacts
  <2>2. CASE Apply
    BY <2>2, <2>a, ApplyFacts
  <2>3. CASE Scheduler /\ ~Drain /\ ~Apply
    BY <2>3, <2>a, SchedulerFacts
  <2>4. ASSUME NEW h \in Hosts, Worker(h) \/ FinishDisk(h) PROVE running' \subseteq running
    BY <2>4, <2>a, WorkerFacts DEF FinishDisk
  <2>5. CASE SetStop \/ TerminateAll \/ ClosePools
    BY <2>5 DEF SetStop, TerminateAll, ClosePools
  <2>6. CASE Tick
    BY <2>6 DEF Tick
  <2>7. CASE Restart
    BY <2>7, <2>a DEF Restart, TypeOK
  <2> QED BY <2>1, <2>2, <2>3, <2>4, <2>5, <2>6, <2>7 DEF Next, Stopping
<1> QED BY Invariance, <1>1, PTL DEF Spec, NoLateProcess

(* Three failures in a row keep a server from being probed until its       *)
(* backoff is over, for every poll interval and every ceiling.             *)
THEOREM BackoffKept == Spec => BackoffRespected
<1>1. Inv /\ [Next]_vars =>
        [\A h \in Hosts : /\ probe[h] = "none" /\ probe'[h] = "queued"
                          /\ failures[h] >= 3
                          => quiet[h] >= Backoff(failures[h]) \/ quiet[h] = MaxBackoff]_vars
  <2> SUFFICES ASSUME Inv, Next, NEW g \in Hosts,
                      probe[g] = "none", probe'[g] = "queued", failures[g] >= 3
               PROVE  quiet[g] >= Backoff(failures[g])
    OBVIOUS
  <2> USE DEF schedulerVars, workerVars, stopVars, storeVars
  <2>a. TypeOK /\ BackoffAhead
    BY DEF Inv
  <2>b. IsDue(g)
    <3>1. CASE Drain
      BY <3>1, <2>a, DrainFacts DEF TypeOK
    <3>2. CASE Apply
      BY <3>2, <2>a, ApplyFacts
    <3>3. CASE Scheduler /\ ~Drain /\ ~Apply
      BY <3>3, <2>a, SchedulerFacts
    <3>4. ASSUME NEW h \in Hosts, Worker(h) \/ FinishDisk(h) PROVE FALSE
      BY <3>4, <2>a, WorkerFacts DEF FinishDisk
    <3>5. CASE SetStop \/ TerminateAll \/ ClosePools
      BY <3>5 DEF SetStop, TerminateAll, ClosePools
    <3>6. CASE Tick
      BY <3>6 DEF Tick
    <3>7. CASE Restart
      BY <3>7 DEF Restart
    <3> QED BY <3>1, <3>2, <3>3, <3>4, <3>5, <3>6, <3>7 DEF Next, Stopping
  <2>c. due[g] \in Int /\ quiet[g] \in Int /\ Backoff(failures[g]) \in Int
    BY <2>a, BackoffRange, Constants DEF TypeOK
  <2> QED BY <2>a, <2>b, <2>c DEF BackoffAhead, IsDue
<1> QED BY Invariance, <1>1, PTL DEF Spec, BackoffRespected

-------------------------------------------------------------------------------
(* The rows and the events, across failed writes and restarts.             *)

(* What _mark_host leaves in the row of a host and in its events.          *)
LEMMA MarkFacts ==
  ASSUME TypeOK, NEW h \in Hosts, NEW up \in BOOLEAN, MarkHost(h, up)
  PROVE  /\ online' = [online EXCEPT ![h] = IF up THEN "online" ELSE "offline"]
         /\ online'[h] = IF up THEN "online" ELSE "offline"
         /\ consecutive'[h] = IF up THEN 0 ELSE Least(FailureCap, consecutive[h] + 1)
         /\ ~up /\ online[h] # "offline" => outages' = [outages EXCEPT ![h] = outages[h] + 1]
         /\ up /\ online[h] = "offline"  => outages' = [outages EXCEPT ![h] = outages[h] - 1]
         /\ (up <=> online[h] # "offline") /\ (up \/ online[h] = "offline") => outages' = outages
<1>1. /\ online' = [online EXCEPT ![h] = IF up THEN "online" ELSE "offline"]
      /\ online'[h] = IF up THEN "online" ELSE "offline"
      /\ consecutive'[h] = IF up THEN 0 ELSE Least(FailureCap, consecutive[h] + 1)
  BY DEF MarkHost, TypeOK
<1>2. CASE ~up /\ online[h] # "offline"
  <2>1. outages' = [outages EXCEPT ![h] = outages[h] + 1]
    BY <1>2 DEF MarkHost, EventFor
  <2> QED BY <1>1, <1>2, <2>1
<1>3. CASE up /\ online[h] = "offline"
  <2>1. outages' = [outages EXCEPT ![h] = outages[h] - 1]
    BY <1>3 DEF MarkHost, EventFor
  <2> QED BY <1>1, <1>3, <2>1
<1>4. CASE (up <=> online[h] # "offline") /\ (up \/ online[h] = "offline")
  <2>1. outages' = [outages EXCEPT ![h] = outages[h]]
    BY <1>4 DEF MarkHost, EventFor
  <2>2. outages' = outages
    BY <2>1 DEF TypeOK
  <2> QED BY <1>1, <1>4, <2>2
<1> QED BY <1>2, <1>3, <1>4

(* Only the application of a result writes rows or grows the counters; a   *)
(* restart reads them back.                                                *)
LEMMA RowFacts ==
  ASSUME TypeOK, [Next]_vars
  PROVE  \/ UNCHANGED <<storeVars, failures>>
         \/ UNCHANGED storeVars /\ failures' = consecutive
         \/ \E h \in Hosts : ApplySuccess(h) \/ ApplyFailure(h)
<1> USE DEF schedulerVars, workerVars, stopVars, storeVars
<1>1. CASE UNCHANGED vars
  BY <1>1 DEF vars
<1>2. CASE Drain
  BY <1>2, DrainFacts
<1>3. CASE Apply
  BY <1>3, ApplyFacts DEF TypeOK
<1>4. CASE Scheduler /\ ~Drain /\ ~Apply
  BY <1>4, SchedulerFacts
<1>5. ASSUME NEW h \in Hosts, Worker(h) \/ FinishDisk(h) PROVE UNCHANGED <<storeVars, failures>>
  BY <1>5, WorkerFacts DEF FinishDisk
<1>6. CASE SetStop \/ TerminateAll \/ ClosePools
  BY <1>6 DEF SetStop, TerminateAll, ClosePools
<1>7. CASE Tick
  BY <1>7 DEF Tick
<1>8. CASE Restart
  BY <1>8 DEF Restart, ReloadedFailures
<1> QED BY <1>1, <1>2, <1>3, <1>4, <1>5, <1>6, <1>7, <1>8 DEF Next, Stopping

LEMMA EventsStep == TypeOK /\ EventsAlternate /\ [Next]_vars => EventsAlternate'
<1> SUFFICES ASSUME TypeOK, EventsAlternate, [Next]_vars, NEW g \in Hosts
             PROVE  outages'[g] = IF online'[g] = "offline" THEN 1 ELSE 0
  BY DEF EventsAlternate
<1>0. /\ outages[g] = IF online[g] = "offline" THEN 1 ELSE 0
      /\ outages \in [Hosts -> Int]
  BY DEF EventsAlternate, TypeOK
<1>1. CASE UNCHANGED storeVars
  BY <1>0, <1>1 DEF storeVars
<1>2. ASSUME NEW h \in Hosts, ApplySuccess(h) \/ ApplyFailure(h)
      PROVE  outages'[g] = IF online'[g] = "offline" THEN 1 ELSE 0
  <2>1. CASE g # h
    BY <1>0, <1>2, <2>1, ApplyOthers
  <2>2. ASSUME g = h, NEW up \in BOOLEAN, MarkHost(h, up)
        PROVE  outages'[g] = IF online'[g] = "offline" THEN 1 ELSE 0
    <3>1. CASE ~up /\ online[h] # "offline"
      BY <1>0, <2>2, <3>1, MarkFacts
    <3>2. CASE up /\ online[h] = "offline"
      <4>1. outages' = [outages EXCEPT ![g] = outages[g] - 1] /\ online'[g] = "online"
        BY <2>2, <3>2, MarkFacts
      <4>2. outages'[g] = outages[g] - 1
        BY <1>0, <4>1
      <4> QED BY <1>0, <2>2, <3>2, <4>1, <4>2
    <3>3. CASE (up <=> online[h] # "offline") /\ (up \/ online[h] = "offline")
      BY <1>0, <2>2, <3>3, MarkFacts
    <3> QED BY <3>1, <3>2, <3>3
  <2> QED BY <1>1, <1>2, <2>1, <2>2, SuccessFacts, FailureFacts
<1> QED BY <1>1, <1>2, RowFacts

LEMMA CountersStep == TypeOK /\ CountersAgree /\ [Next]_vars => CountersAgree'
<1> SUFFICES ASSUME TypeOK, CountersAgree, [Next]_vars, NEW g \in Hosts
             PROVE  /\ consecutive'[g] <= failures'[g]
                    /\ (consecutive'[g] > 0) <=> (online'[g] = "offline")
  BY DEF CountersAgree
<1>0. /\ consecutive[g] <= failures[g]
      /\ (consecutive[g] > 0) <=> (online[g] = "offline")
      /\ consecutive[g] \in 0 .. FailureCap /\ failures[g] \in 0 .. FailureCap
  BY DEF CountersAgree, TypeOK
<1>1. CASE UNCHANGED <<storeVars, failures>>
  BY <1>0, <1>1 DEF storeVars
<1>2. CASE UNCHANGED storeVars /\ failures' = consecutive
  BY <1>0, <1>2 DEF storeVars
<1>3. ASSUME NEW h \in Hosts, ApplySuccess(h) \/ ApplyFailure(h)
      PROVE  /\ consecutive'[g] <= failures'[g]
             /\ (consecutive'[g] > 0) <=> (online'[g] = "offline")
  <2>1. CASE g # h
    BY <1>0, <1>3, <2>1, ApplyOthers
  <2>2. CASE g = h /\ ApplySuccess(h)
    <3>1. failures'[g] = 0 /\ MarkHost(g, TRUE)
      BY <2>2, SuccessFacts
    <3>2. consecutive'[g] = 0 /\ online'[g] = "online"
      BY <3>1, MarkFacts
    <3> QED BY <3>1, <3>2
  <2>3. CASE g = h /\ ApplyFailure(h)
    <3>1. CASE UNCHANGED storeVars
      BY <1>0, <2>3, <3>1, FailureFacts DEF storeVars
    <3>2. CASE MarkHost(g, FALSE) /\ failures'[g] >= Least(FailureCap, failures[g] + 1)
      <4>1. /\ consecutive'[g] = Least(FailureCap, consecutive[g] + 1)
            /\ online'[g] = "offline"
        BY <3>2, MarkFacts
      <4>2. failures'[g] \in 0 .. FailureCap
        BY <2>3, FailureFacts
      <4> QED BY <1>0, <3>2, <4>1, <4>2, Constants DEF Least
    <3> QED BY <2>3, <3>1, <3>2, FailureFacts
  <2> QED BY <1>3, <2>1, <2>2, <2>3
<1> QED BY <1>1, <1>2, <1>3, RowFacts

(* The activity log alternates DOWN and UP for every server and agrees     *)
(* with the status shown, whatever writes fail and however often the       *)
(* process is restarted.                                                   *)
THEOREM LogTellsStatus == Spec => []EventsAlternate
<1>1. Init => EventsAlternate
  BY DEF Init, EventsAlternate
<1> QED BY <1>1, EventsStep, TypeCorrectness, PTL DEF Spec

(* The backoff never forgets a failure the database knows.                 *)
THEOREM CountersTogether == Spec => []CountersAgree
<1>1. Init => CountersAgree
  BY Constants DEF Init, CountersAgree
<1> QED BY <1>1, CountersStep, TypeCorrectness, PTL DEF Spec

(* The status history of every server is one HostAvailability allows: the  *)
(* collector, with its pool, its retries, its stops and its restarts,      *)
(* implements it.                                                          *)
THEOREM Implements == Spec => AvailabilitySpec
<1>1. Init => Availability!Init
  BY DEF Init, Availability!Init
<1>2. TypeOK /\ [Next]_vars => [Availability!Next]_(Availability!vars)
  <2> SUFFICES ASSUME TypeOK, [Next]_vars
               PROVE  Availability!Next \/ UNCHANGED <<online, outages>>
    BY DEF Availability!vars
  <2>1. CASE UNCHANGED storeVars
    BY <2>1 DEF storeVars
  <2>2. ASSUME NEW h \in Hosts, NEW up \in BOOLEAN, MarkHost(h, up)
        PROVE  Availability!Next \/ UNCHANGED <<online, outages>>
    <3>0. online \in [Hosts -> {"unknown", "online", "offline"}]
      BY DEF TypeOK
    <3>1. CASE ~up /\ online[h] # "offline"
      <4>1. Availability!GoDown(h)
        BY <2>2, <3>0, <3>1, MarkFacts DEF Availability!GoDown
      <4> QED BY <4>1 DEF Availability!Next
    <3>2. CASE up /\ online[h] = "offline"
      <4>1. Availability!Recover(h)
        BY <2>2, <3>0, <3>2, MarkFacts DEF Availability!Recover
      <4> QED BY <4>1 DEF Availability!Next
    <3>3. CASE up /\ online[h] = "unknown"
      <4>1. Availability!FirstUp(h)
        BY <2>2, <3>0, <3>3, MarkFacts DEF Availability!FirstUp
      <4> QED BY <4>1 DEF Availability!Next
    <3>4. CASE (up /\ online[h] = "online") \/ (~up /\ online[h] = "offline")
      <4>1. outages' = outages
        BY <2>2, <3>4, MarkFacts
      <4>2. online' = [online EXCEPT ![h] = online[h]]
        BY <2>2, <3>4, MarkFacts
      <4> QED BY <3>0, <4>1, <4>2
    <3> QED BY <3>0, <3>1, <3>2, <3>3, <3>4
  <2>3. ASSUME NEW h \in Hosts, ApplySuccess(h) \/ ApplyFailure(h)
        PROVE  Availability!Next \/ UNCHANGED <<online, outages>>
    BY <2>1, <2>2, <2>3, SuccessFacts, FailureFacts
  <2> QED BY <2>1, <2>3, RowFacts DEF storeVars
<1> QED BY <1>1, <1>2, TypeCorrectness, PTL DEF Spec, AvailabilitySpec, Availability!Spec

-------------------------------------------------------------------------------
(* The pool.                                                               *)

(* Futures appear only in Schedule.                                        *)
LEMMA FutureFacts ==
  ASSUME TypeOK, [Next]_vars, ~Schedule
  PROVE  InFlight' \subseteq InFlight
<1> USE DEF schedulerVars, workerVars, stopVars, storeVars
<1> SUFFICES ASSUME NEW g \in Hosts, probe'[g] # "none" PROVE probe[g] # "none"
  BY DEF InFlight
<1>1. CASE UNCHANGED vars
  BY <1>1 DEF vars
<1>2. CASE Drain
  BY <1>2, DrainFacts DEF TypeOK
<1>3. CASE Apply
  BY <1>3, ApplyFacts
<1>4. CASE Scheduler /\ ~Drain /\ ~Apply
  BY <1>4 DEF Scheduler, BeginTick, ExitThread, CollectDisk, DisksCollected, Drained, Stagger
<1>5. ASSUME NEW h \in Hosts, Worker(h) \/ FinishDisk(h) PROVE probe[g] # "none"
  BY <1>5, WorkerFacts DEF FinishDisk
<1>6. CASE SetStop \/ TerminateAll \/ ClosePools
  BY <1>6 DEF SetStop, TerminateAll, ClosePools
<1>7. CASE Tick
  BY <1>7 DEF Tick
<1>8. CASE Restart
  BY <1>8 DEF Restart
<1> QED BY <1>1, <1>2, <1>3, <1>4, <1>5, <1>6, <1>7, <1>8 DEF Next, Stopping

(* A batch takes no more than the free workers.                            *)
LEMMA BatchFits ==
  ASSUME TypeOK, Cardinality(InFlight) <= Workers, Schedule
  PROVE  Cardinality(InFlight') <= Workers
<1>1. PICK batch \in Batches :
        \/ UNCHANGED probe
        \/ probe' = [h \in Hosts |-> IF h \in batch THEN "queued" ELSE probe[h]]
  BY DEF Schedule
<1> DEFINE eligible == {h \in Hosts : IsDue(h) /\ probe[h] = "none"}
<1>2. batch \subseteq eligible /\ Cardinality(batch) = Least(Cardinality(eligible), FreeWorkers)
  BY DEF Batches
<1>3. /\ IsFiniteSet(InFlight) /\ IsFiniteSet(batch) /\ IsFiniteSet(eligible)
      /\ IsFiniteSet(InFlight \union batch) /\ batch \subseteq Hosts
  <2>1. InFlight \subseteq Hosts /\ eligible \subseteq Hosts
    BY DEF InFlight
  <2>2. batch \subseteq Hosts /\ InFlight \union batch \subseteq Hosts
    BY <1>2, <2>1
  <2> QED BY <2>1, <2>2, Constants, FS_Subset
<1>4. /\ Cardinality(InFlight) \in Nat /\ Cardinality(batch) \in Nat
      /\ Cardinality(eligible) \in Nat
  BY <1>3, FS_CardinalityType
<1>5. Cardinality(batch) <= Workers - Cardinality(InFlight)
  <2> HIDE DEF eligible
  <2> QED BY <1>2, <1>4, Constants DEF Least, FreeWorkers, Greatest
<1>6. Cardinality(InFlight \union batch) <= Workers
  <2>1. Cardinality(InFlight \union batch)
          = Cardinality(InFlight) + Cardinality(batch) - Cardinality(InFlight \intersect batch)
    BY <1>3, FS_Union
  <2>2. Cardinality(InFlight \intersect batch) \in Nat
    BY <1>3, FS_Intersection, FS_CardinalityType
  <2> QED BY <1>4, <1>5, <2>1, <2>2, Constants
<1>7. InFlight' \subseteq InFlight \union batch
  BY <1>1, <1>3 DEF InFlight
<1>8. Cardinality(InFlight') \in Nat /\ Cardinality(InFlight \union batch) \in Nat
      /\ Cardinality(InFlight') <= Cardinality(InFlight \union batch)
  BY <1>3, <1>7, FS_Subset, FS_CardinalityType
<1> QED BY <1>6, <1>8, Constants

(* The pool is never asked for more than it has workers, and every ssh     *)
(* process belongs to a future the scheduler still holds.                  *)
THEOREM PoolHolds == Spec => []PoolBounded
<1> DEFINE Fits == Cardinality(InFlight) <= Workers
<1>1. Init => Fits
  <2> SUFFICES ASSUME Init PROVE Fits
    OBVIOUS
  <2>1. InFlight = {}
    BY DEF Init, InFlight
  <2> QED BY <2>1, FS_EmptySet, Constants
<1>2. TypeOK /\ Fits /\ [Next]_vars => Fits'
  <2> SUFFICES ASSUME TypeOK, Cardinality(InFlight) <= Workers, [Next]_vars
               PROVE  Cardinality(InFlight') <= Workers
    OBVIOUS
  <2>1. CASE Schedule
    BY <2>1, BatchFits
  <2>2. CASE ~Schedule
    <3>1. InFlight' \subseteq InFlight
      BY <2>2, FutureFacts
    <3>2. IsFiniteSet(InFlight)
      BY Constants, FS_Subset DEF InFlight
    <3>3. /\ Cardinality(InFlight') \in Nat /\ Cardinality(InFlight) \in Nat
          /\ Cardinality(InFlight') <= Cardinality(InFlight)
      BY <3>1, <3>2, FS_Subset, FS_CardinalityType
    <3> QED BY <3>3, Constants
  <2> QED BY <2>1, <2>2
<1>3. Inv /\ Fits => PoolBounded
  BY DEF Inv, HandedOver, TypeOK, PoolBounded, InFlight
<1> HIDE DEF Fits
<1> QED BY <1>1, <1>2, <1>3, TypeCorrectness, Invariance, PTL DEF Spec

===============================================================================
