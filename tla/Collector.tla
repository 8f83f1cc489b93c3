------------------------------- MODULE Collector -------------------------------
(***************************************************************************)
(* The collector of server.py: one scheduler thread that drains finished   *)
(* probes and submits due ones, a pool of probe workers that each run an   *)
(* ssh process, the thread that stops them, and the rows the store keeps   *)
(* about every host.  The process may crash or exit at any moment and be   *)
(* started again on the same database.                                     *)
(*                                                                         *)
(* Time is relative and in units of the scheduler's one-second floor.  The *)
(* code only ever compares deadlines with "now" and with each other, so a  *)
(* deadline that has passed is kept as its rank among the passed ones.     *)
(***************************************************************************)
EXTENDS Integers, FiniteSets

CONSTANTS
  HostCount,      (* number of configured hosts; a host is its position    *)
  Workers,        (* collector_workers                                     *)
  Poll,           (* poll_interval_seconds, in units                       *)
  MaxBackoff,     (* the 60 s ceiling of the failure backoff, in units     *)
  DiskInterval,   (* disk_poll_interval_seconds in units, 0 = never        *)
  Prompt,         (* TRUE when a pass of the scheduler takes less than a   *)
                  (* unit and every unit has one, as run() intends; FALSE  *)
                  (* when the database or the machine may delay it at will *)
  FailureCap,     (* bound: failure counters saturate here                 *)
  MaxRestarts     (* bound: restarts of the process in a behaviour         *)

Hosts == 1 .. HostCount

Least(a, b)    == IF a <= b THEN a ELSE b
Greatest(a, b) == IF a >= b THEN a ELSE b

(* min(60, poll * 2 ** min(5, failures - 3)), for three failures or more.  *)
PowersOfTwo == <<1, 2, 4, 8, 16, 32>>
Backoff(f)  == Least(MaxBackoff, Poll * PowersOfTwo[Least(5, f - 3) + 1])

ASSUME HostsAssumption   == HostCount \in Nat \ {0}
ASSUME WorkersAssumption == Workers \in Nat \ {0}
ASSUME TimesAssumption   == /\ Poll \in Nat \ {0}
                            /\ MaxBackoff \in Nat \ {0}
                            /\ DiskInterval \in Nat
(* Saturating the counters at FailureCap loses no behaviour: the backoff   *)
(* is the same for every larger count.                                     *)
ASSUME CapAssumption     == /\ FailureCap \in Nat /\ FailureCap >= 3
                            /\ FailureCap >= 8 \/ Backoff(FailureCap) = MaxBackoff
ASSUME RestartAssumption == MaxRestarts \in Nat
ASSUME PromptAssumption  == Prompt \in BOOLEAN

VARIABLES
  (* The scheduler thread. *)
  thread,         (* where Collector.run and collect_tick are              *)
  todo,           (* futures the current loop still has to look at         *)
  current,        (* hosts whose result handle_payload is about to take    *)
  due,            (* host_next_probe_at - now; a rank <= 0 once passed     *)
  unscheduled,    (* hosts with no entry in host_next_probe_at             *)
  failures,       (* host_failures, in memory                              *)
  elapsed,        (* time since the host's probe was submitted, up to Poll; *)
                  (* forgotten, like result and attempt, with the future   *)
  diskWait,       (* time until should_probe_disk lets the next one start  *)
  (* The pools. *)
  probe,          (* the host's GPU future: none, or where its worker is   *)
  attempt,        (* first try, or the one retry of a transient error      *)
  result,         (* what the finished GPU future holds                    *)
  disk,           (* the host's disk future                                *)
  running,        (* running_processes: hosts whose ssh process is alive   *)
  (* Stopping. *)
  stop_event,     (* threading.Event                                       *)
  stopper,        (* how far Collector.stop has come                       *)
  (* The database: survives restarts. *)
  online,         (* host_runtime.online, "unknown" when there is no row   *)
  consecutive,    (* host_runtime.consecutive_failures                     *)
  outages,        (* host_down events minus host_recovered events          *)
  (* Observers. *)
  terminated,     (* hosts whose ssh process stop() has terminated         *)
  quiet,          (* time since the last of three or more failures was     *)
                  (* noted, up to MaxBackoff                               *)
  passed,         (* Prompt only: the scheduler ran in this unit of time   *)
  restarts

schedulerVars == <<thread, todo, current, due, unscheduled, failures, diskWait>>
workerVars    == <<probe, attempt, result, running>>
stopVars      == <<stop_event, stopper, terminated>>
storeVars     == <<online, consecutive, outages>>
vars == <<schedulerVars, elapsed, workerVars, disk, stopVars, storeVars, quiet, passed, restarts>>

InFlight == {h \in Hosts : probe[h] # "none"}

(* What a finished probe tells handle_payload: a valid complete payload, a *)
(* payload that fails validation, an error, or one that stop() caused.     *)
Outcomes == {"ok", "invalid", "fail", "transient"}
Results  == {"ok", "invalid", "fail", "stopping", "none"}

TypeOK ==
  /\ thread \in {"sleep", "disks", "drain", "apply", "schedule", "stagger", "dead"}
  /\ todo \in SUBSET Hosts
  /\ current \in SUBSET Hosts
  /\ due \in [Hosts -> Int]
  /\ unscheduled \in SUBSET Hosts
  /\ failures \in [Hosts -> 0 .. FailureCap]
  /\ elapsed \in [Hosts -> 0 .. Poll]
  /\ diskWait \in [Hosts -> 0 .. DiskInterval]
  /\ probe \in [Hosts -> {"none", "queued", "running", "pause", "done"}]
  /\ attempt \in [Hosts -> 1 .. 2]
  /\ result \in [Hosts -> Results]
  /\ disk \in [Hosts -> {"none", "pending", "done"}]
  /\ running \in SUBSET Hosts
  /\ stop_event \in BOOLEAN
  /\ stopper \in {"idle", "set", "terminated", "closed"}
  /\ online \in [Hosts -> {"unknown", "online", "offline"}]
  /\ consecutive \in [Hosts -> 0 .. FailureCap]
  /\ outages \in [Hosts -> Int]
  /\ terminated \in SUBSET Hosts
  /\ quiet \in [Hosts -> 0 .. MaxBackoff]
  /\ passed \in BOOLEAN
  /\ restarts \in 0 .. MaxRestarts

-------------------------------------------------------------------------------
(* Starting.  Everything in memory is new; start() reads the failure       *)
(* counters of the rows that exist, and every host is due.                 *)

Init ==
  /\ online      = [h \in Hosts |-> "unknown"]
  /\ consecutive = [h \in Hosts |-> 0]
  /\ outages     = [h \in Hosts |-> 0]
  /\ restarts    = 0
  /\ thread      = "sleep"
  /\ todo        = {}
  /\ current     = {}
  /\ due         = [h \in Hosts |-> 0]
  /\ unscheduled = Hosts
  /\ failures    = [h \in Hosts |-> 0]
  /\ elapsed     = [h \in Hosts |-> 0]
  /\ diskWait    = [h \in Hosts |-> 0]
  /\ probe       = [h \in Hosts |-> "none"]
  /\ attempt     = [h \in Hosts |-> 1]
  /\ result      = [h \in Hosts |-> "none"]
  /\ disk        = [h \in Hosts |-> "none"]
  /\ running     = {}
  /\ stop_event  = FALSE
  /\ stopper     = "idle"
  /\ terminated  = {}
  /\ quiet       = [h \in Hosts |-> MaxBackoff]
  /\ passed      = FALSE

(* Mutant: start() does not read the counters back.                        *)
NoFailuresReloaded == [h \in Hosts |-> 0]
ReloadedFailures   == consecutive

(* The process dies, or main() returns after stop(), and is started again. *)
Restart ==
  /\ restarts < MaxRestarts
  /\ restarts'   = restarts + 1
  /\ thread'      = "sleep"
  /\ todo'        = {}
  /\ current'     = {}
  /\ due'         = [h \in Hosts |-> 0]
  /\ unscheduled' = Hosts
  /\ failures'    = ReloadedFailures
  /\ elapsed'     = [h \in Hosts |-> 0]
  /\ diskWait'    = [h \in Hosts |-> 0]
  /\ probe'       = [h \in Hosts |-> "none"]
  /\ attempt'     = [h \in Hosts |-> 1]
  /\ result'      = [h \in Hosts |-> "none"]
  /\ disk'        = [h \in Hosts |-> "none"]
  /\ running'     = {}
  /\ stop_event'  = FALSE
  /\ stopper'     = "idle"
  /\ terminated'  = {}
  /\ quiet'       = [h \in Hosts |-> MaxBackoff]
  /\ passed'      = FALSE
  /\ UNCHANGED storeVars

-------------------------------------------------------------------------------
(* Time.                                                                   *)

(* One unit passes.  A deadline that is reached becomes the newest of the  *)
(* passed ones; the older ones keep their order behind it.                 *)
Later(d) ==
  LET newer(h) == {d[g] : g \in {k \in Hosts \ unscheduled : d[h] < d[k] /\ d[k] <= 1}}
  IN  [h \in Hosts |-> IF h \in unscheduled THEN d[h]
                       ELSE IF d[h] > 1 THEN d[h] - 1
                       ELSE - Cardinality(newer(h))]

Tick ==
  /\ Prompt => thread = "dead" \/ (thread = "sleep" /\ passed)
  /\ passed'   = FALSE
  /\ due'      = Later(due)
  /\ elapsed'  = [h \in Hosts |-> IF h \in InFlight \union current
                                  THEN Least(Poll, elapsed[h] + 1) ELSE elapsed[h]]
  /\ diskWait' = [h \in Hosts |-> Greatest(0, diskWait[h] - 1)]
  /\ quiet'    = [h \in Hosts |-> Least(MaxBackoff, quiet[h] + 1)]
  /\ UNCHANGED <<thread, todo, current, unscheduled, failures, workerVars, disk,
                 stopVars, storeVars, restarts>>

-------------------------------------------------------------------------------
(* The scheduler thread: run() and collect_tick().                         *)

(* while not self.stop_event.is_set()                                      *)
RunsForever == TRUE                                              \* a mutant
KeepsRunning == ~stop_event

BeginTick ==
  /\ thread = "sleep"
  /\ KeepsRunning
  /\ Prompt => ~passed
  /\ thread' = "disks"
  /\ todo'   = {h \in Hosts : disk[h] # "none"}
  /\ passed' = Prompt
  /\ UNCHANGED <<current, due, unscheduled, failures, elapsed, diskWait, workerVars,
                 disk, stopVars, storeVars, quiet, restarts>>

ExitThread ==
  /\ thread = "sleep"
  /\ stop_event
  /\ thread' = "dead"
  /\ UNCHANGED <<todo, current, due, unscheduled, failures, elapsed, diskWait, workerVars,
                 disk, stopVars, storeVars, quiet, passed, restarts>>

(* collect_finished_disk_probes, one future: a finished one is popped and  *)
(* its outcome is written to host_disk, which touches no other row.  When  *)
(* that write fails the exception ends the whole tick.                     *)
CollectDisk ==
  /\ thread = "disks"
  /\ \E h \in todo :
       \/ /\ disk[h] # "done"
          /\ todo' = todo \ {h}
          /\ UNCHANGED <<thread, disk>>
       \/ /\ disk[h] = "done"
          /\ disk' = [disk EXCEPT ![h] = "none"]
          /\ \/ todo' = todo \ {h} /\ UNCHANGED thread
             \/ todo' = {} /\ thread' = "sleep"
  /\ UNCHANGED <<current, due, unscheduled, failures, elapsed, diskWait, workerVars,
                 stopVars, storeVars, quiet, passed, restarts>>

DisksCollected ==
  /\ thread = "disks"
  /\ todo = {}
  /\ thread' = "drain"
  /\ todo'   = InFlight
  /\ UNCHANGED <<current, due, unscheduled, failures, elapsed, diskWait, workerVars,
                 disk, stopVars, storeVars, quiet, passed, restarts>>

(* host_next_probe_at[name] = max(existing, started + poll, now + 1)       *)
NextDueOverwrites(h, existing) == Greatest(Poll - elapsed[h], 1) \* a mutant
NextDue(h, existing) == Greatest(existing, Greatest(Poll - elapsed[h], 1))

(* The check consume_gpu_result makes before it looks at the future.       *)
AcceptsAlways  == TRUE                                           \* a mutant
AcceptsResults == ~stop_event

(* The drain loop, one future.  A finished one is popped; consume_gpu_result *)
(* drops it when the collector is stopping and hands it on otherwise.      *)
Drain ==
  /\ thread = "drain"
  /\ \E h \in todo :
       /\ todo' = todo \ {h}
       /\ \/ /\ probe[h] # "done"
             /\ UNCHANGED <<thread, current, due, unscheduled, probe, result, elapsed>>
          \/ /\ probe[h] = "done"
             /\ probe' = [probe EXCEPT ![h] = "none"]
             /\ IF AcceptsResults
                THEN /\ thread'  = "apply"
                     /\ current' = {h}
                     /\ UNCHANGED <<due, unscheduled, result, elapsed>>
                ELSE /\ due' = [due EXCEPT ![h] = NextDue(h, due[h])]
                     /\ unscheduled' = unscheduled \ {h}
                     /\ result'  = [result EXCEPT ![h] = "none"]
                     /\ elapsed' = [elapsed EXCEPT ![h] = 0]
                     /\ UNCHANGED <<thread, current>>
  /\ UNCHANGED <<failures, diskWait, attempt, running, disk,
                 stopVars, storeVars, quiet, passed, restarts>>

(* Which event _mark_host adds: decided by the row it read in the same     *)
(* transaction.  Mutants: the first success is a recovery, and the change  *)
(* is read off the scheduler's own counter.                                *)
EventOfAnyChange(h, up) ==
  CASE ~up /\ online[h] # "offline" -> "host_down"
    [] up /\ online[h] # "online"   -> "host_recovered"
    [] OTHER                        -> "none"
EventFromMemory(h, up) ==
  CASE ~up /\ failures[h] = 0 -> "host_down"
    [] up /\ failures[h] > 0  -> "host_recovered"
    [] OTHER                  -> "none"
EventFor(h, up) ==
  CASE ~up /\ online[h] # "offline" -> "host_down"
    [] up /\ online[h] = "offline"  -> "host_recovered"
    [] OTHER                        -> "none"

(* Store._mark_host: the row, the persisted counter and the event.         *)
MarkHost(h, up) ==
  /\ online'      = [online EXCEPT ![h] = IF up THEN "online" ELSE "offline"]
  /\ consecutive' = [consecutive EXCEPT ![h] = IF up THEN 0 ELSE Least(FailureCap, @ + 1)]
  /\ outages'     = [outages EXCEPT ![h] =
                       CASE EventFor(h, up) = "host_down"      -> @ + 1
                         [] EventFor(h, up) = "host_recovered" -> @ - 1
                         [] OTHER                              -> @]

(* apply_host_payload commits and the host's failure record is dropped.    *)
ApplySuccess(h) ==
  /\ result[h] = "ok"
  /\ MarkHost(h, TRUE)
  /\ failures'    = [failures EXCEPT ![h] = 0]
  /\ due'         = [due EXCEPT ![h] = NextDue(h, 0)]
  /\ unscheduled' = unscheduled \ {h}
  /\ quiet'       = [quiet EXCEPT ![h] = MaxBackoff]
  /\ thread'      = "drain"
  /\ UNCHANGED todo

(* The deadline handle_payload leaves behind: the backoff is set before    *)
(* the row is written, so it holds even when the write raises.             *)
DelayOnceStored(h, counted, stored) ==                           \* a mutant
  IF counted >= 3 /\ stored THEN Backoff(counted) ELSE due[h]
Delay(h, counted, stored) ==
  IF counted >= 3 THEN Backoff(counted) ELSE due[h]

(* handle_payload records a failure in memory each time it runs, sets the  *)
(* backoff, and only then writes the row.  An error payload whose write    *)
(* raises is handled again by consume_gpu_result and counts twice; an      *)
(* invalid payload, or a good one that could not be stored, counts once.   *)
(* An exception that escapes ends the tick, and the deadline is then the   *)
(* backoff, or what it was before the probe.                               *)
ApplyFailure(h) ==
  \E bumps \in 1 .. 2, stored \in BOOLEAN :
    LET counted == Least(FailureCap, failures[h] + bumps)
        delayed == Delay(h, counted, stored)
    IN
    /\ bumps = 2 => result[h] \in {"fail", "stopping"}
    /\ bumps = 1 /\ ~stored => result[h] \in {"ok", "invalid"}
    /\ failures' = [failures EXCEPT ![h] = counted]
    /\ quiet'    = [quiet EXCEPT ![h] = IF counted >= 3 THEN 0 ELSE MaxBackoff]
    /\ IF stored
       THEN /\ MarkHost(h, FALSE)
            /\ due' = [due EXCEPT ![h] = NextDue(h, delayed)]
            /\ unscheduled' = unscheduled \ {h}
            /\ thread' = "drain"
            /\ UNCHANGED todo
       ELSE /\ due' = [due EXCEPT ![h] = delayed]
            /\ unscheduled' = IF counted >= 3 THEN unscheduled \ {h} ELSE unscheduled
            /\ thread' = "sleep"
            /\ todo' = {}
            /\ UNCHANGED storeVars

Apply ==
  /\ thread = "apply"
  /\ \E h \in current :
       /\ ApplySuccess(h) \/ ApplyFailure(h)
       /\ result'  = [result EXCEPT ![h] = "none"]
       /\ elapsed' = [elapsed EXCEPT ![h] = 0]
  /\ current' = {}
  /\ UNCHANGED <<diskWait, probe, attempt, running, disk, stopVars, passed, restarts>>

(* if self.stop_event.is_set(): return                                     *)
Drained ==
  /\ thread = "drain"
  /\ todo = {}
  /\ thread' = IF stop_event THEN "sleep" ELSE "schedule"
  /\ UNCHANGED <<todo, current, due, unscheduled, failures, elapsed, diskWait, workerVars,
                 disk, stopVars, storeVars, quiet, passed, restarts>>

IsDue(h) == h \in unscheduled \/ due[h] <= 0

(* The sort key of the due hosts: host_next_probe_at.get(name, 0), ties in *)
(* the order of the configuration.                                         *)
Before(g, h) ==
  LET key(k) == IF k \in unscheduled THEN - HostCount - 1 ELSE due[k]
  IN  key(g) < key(h) \/ (key(g) = key(h) /\ g < h)

FreeIgnoringFutures == Workers                                   \* a mutant
FreeWorkers == Greatest(0, Workers - Cardinality(InFlight))

(* due[:max(0, gpu_workers - len(gpu_futures))]: the oldest due hosts, as  *)
(* many as there are free workers.                                         *)
Batches ==
  LET eligible == {h \in Hosts : IsDue(h) /\ probe[h] = "none"}
  IN  {batch \in SUBSET eligible :
         /\ Cardinality(batch) = Least(Cardinality(eligible), FreeWorkers)
         /\ \A g \in batch, h \in eligible \ batch : Before(g, h)}

(* A pool that is shut down refuses the work: RuntimeError ends the tick.  *)
Schedule ==
  /\ thread = "schedule"
  /\ \E batch \in Batches :
       IF stopper = "closed" /\ batch # {}
       THEN thread' = "sleep" /\ UNCHANGED probe
       ELSE /\ thread'  = "stagger"
            /\ probe'   = [h \in Hosts |-> IF h \in batch THEN "queued" ELSE probe[h]]
  /\ UNCHANGED <<todo, current, due, unscheduled, failures, elapsed, diskWait,
                 attempt, result, running, disk,
                 stopVars, storeVars, quiet, passed, restarts>>

(* Hosts with an entry in host_next_probe_at that are not being probed.    *)
(* Mutant: only hosts that answer.                                         *)
DiskHostsOnline == {h \in Hosts \ unscheduled : probe[h] = "none" /\ failures[h] = 0}
DiskHosts       == {h \in Hosts \ unscheduled : probe[h] = "none"}

(* start_due_disk_probes for hosts whose first GPU attempt is over and     *)
(* that are not being probed; should_probe_disk stamps the time.           *)
Stagger ==
  LET hosts == {h \in DiskHosts : disk[h] = "none" /\ DiskInterval > 0 /\ diskWait[h] = 0}
  IN
  /\ thread = "stagger"
  /\ thread' = "sleep"
  /\ IF stopper = "closed"
     THEN UNCHANGED <<disk, diskWait>>
     ELSE /\ disk'     = [h \in Hosts |-> IF h \in hosts THEN "pending" ELSE disk[h]]
          /\ diskWait' = [h \in Hosts |-> IF h \in hosts THEN DiskInterval ELSE diskWait[h]]
  /\ UNCHANGED <<todo, current, due, unscheduled, failures, elapsed, workerVars,
                 stopVars, storeVars, quiet, passed, restarts>>

-------------------------------------------------------------------------------
(* The probe workers: probe_host and _probe_host_once.                     *)

Complete(h, r) ==
  /\ probe'   = [probe EXCEPT ![h] = "done"]
  /\ result'  = [result EXCEPT ![h] = r]
  /\ attempt' = [attempt EXCEPT ![h] = 1]

LaunchesAlways == TRUE                                           \* a mutant
MayLaunch == ~stop_event

(* Under process_lock: no ssh process is started once stop_event is set.   *)
(* A missing credential or an OSError ends the attempt without a process.  *)
Launch(h) ==
  /\ probe[h] = "queued"
  /\ \/ /\ MayLaunch
        /\ running' = running \union {h}
        /\ probe'   = [probe EXCEPT ![h] = "running"]
        /\ UNCHANGED <<attempt, result>>
     \/ /\ stop_event
        /\ Complete(h, "stopping")
        /\ UNCHANGED running
     \/ /\ Complete(h, "fail")
        /\ UNCHANGED running
  /\ UNCHANGED <<schedulerVars, elapsed, disk, stopVars, storeVars, quiet, passed, restarts>>

(* What an attempt that is not tried again leaves in the future.           *)
RawConclusion(outcome) == outcome                                \* a mutant
Conclusion(outcome) == IF outcome = "transient" THEN "fail" ELSE outcome

(* The ssh process is over, by itself, by the timeout or because of stop.  *)
(* The stop event is read after the process is gone; an overflow or a      *)
(* timeout is reported as such even then.  The first transient error is    *)
(* tried again while the time budget lasts.                                *)
Finish(h) ==
  /\ probe[h] = "running"
  /\ running' = running \ {h}
  /\ \E outcome \in Outcomes, budget \in BOOLEAN :
       IF stop_event
       THEN \E r \in {"stopping", "fail"} : Complete(h, r)
       ELSE IF outcome = "transient" /\ attempt[h] = 1 /\ budget
       THEN probe' = [probe EXCEPT ![h] = "pause"] /\ UNCHANGED <<attempt, result>>
       ELSE Complete(h, Conclusion(outcome))
  /\ UNCHANGED <<schedulerVars, elapsed, disk, stopVars, storeVars, quiet, passed, restarts>>

(* After half a second: the payload of the first attempt stands when the   *)
(* collector is stopping or the budget is gone, else the one retry runs.   *)
Retry(h) ==
  /\ probe[h] = "pause"
  /\ \/ Complete(h, "fail")
     \/ /\ ~stop_event
        /\ attempt' = [attempt EXCEPT ![h] = 2]
        /\ probe'   = [probe EXCEPT ![h] = "queued"]
        /\ UNCHANGED result
  /\ UNCHANGED <<schedulerVars, elapsed, running, disk, stopVars, storeVars, quiet, passed, restarts>>

(* A disk probe, its queue and its helper fallback, seen as one step.      *)
FinishDisk(h) ==
  /\ disk[h] = "pending"
  /\ disk' = [disk EXCEPT ![h] = "done"]
  /\ UNCHANGED <<schedulerVars, elapsed, workerVars, stopVars, storeVars, quiet, passed, restarts>>

-------------------------------------------------------------------------------
(* Collector.stop, run by the main thread.                                 *)

SetStop ==
  /\ stopper = "idle"
  /\ thread # "dead"
  /\ stop_event' = TRUE
  /\ stopper' = "set"
  /\ UNCHANGED <<schedulerVars, elapsed, workerVars, disk, storeVars, terminated, quiet, passed, restarts>>

TerminateAll ==
  /\ stopper = "set"
  /\ terminated' = running
  /\ stopper' = "terminated"
  /\ UNCHANGED <<schedulerVars, elapsed, workerVars, disk, storeVars, stop_event, quiet, passed, restarts>>

(* shutdown(cancel_futures=True): a future no worker has picked up is      *)
(* cancelled, which result() turns into an error.                          *)
ClosePools ==
  /\ stopper = "terminated"
  /\ stopper' = "closed"
  /\ \E cancelled \in SUBSET {h \in Hosts : probe[h] = "queued" /\ attempt[h] = 1} :
       /\ probe'  = [h \in Hosts |-> IF h \in cancelled THEN "done" ELSE probe[h]]
       /\ result' = [h \in Hosts |-> IF h \in cancelled THEN "stopping" ELSE result[h]]
  /\ UNCHANGED <<schedulerVars, elapsed, attempt, running, disk, storeVars,
                 stop_event, terminated, quiet, passed, restarts>>

-------------------------------------------------------------------------------

Scheduler == \/ BeginTick \/ ExitThread
             \/ CollectDisk \/ DisksCollected
             \/ Drain \/ Apply \/ Drained
             \/ Schedule \/ Stagger
Worker(h) == Launch(h) \/ Finish(h) \/ Retry(h)
Stopping  == TerminateAll \/ ClosePools

Next ==
  \/ Scheduler
  \/ \E h \in Hosts : Worker(h) \/ FinishDisk(h)
  \/ SetStop
  \/ Stopping
  \/ Tick
  \/ Restart

Spec == Init /\ [][Next]_vars

(* Threads are scheduled, every ssh process ends because the code bounds   *)
(* it in time and kills it, and time passes.  Nothing obliges stop() or a  *)
(* restart to happen.                                                      *)
Fairness ==
  /\ WF_vars(Scheduler)
  /\ \A h \in Hosts : WF_vars(Worker(h)) /\ WF_vars(FinishDisk(h))
  /\ WF_vars(Stopping)
  /\ WF_vars(Tick)

FairSpec == Spec /\ Fairness

-------------------------------------------------------------------------------
(* Safety.                                                                 *)

(* The activity log alternates DOWN and UP for every server, starting with *)
(* DOWN, across restarts of the process ("repeated failures/successes emit *)
(* no duplicate events, including after restart", _mark_host), and it      *)
(* always agrees with the status that is shown.                            *)
EventsAlternate ==
  \A h \in Hosts : outages[h] = IF online[h] = "offline" THEN 1 ELSE 0

(* The two failure counters, the scheduler's and the row's, drift apart    *)
(* when a write fails, but only one way: the backoff never forgets a       *)
(* failure the database knows, and a host shown DOWN is one whose counter  *)
(* says so.                                                                *)
CountersAgree ==
  \A h \in Hosts : /\ consecutive[h] <= failures[h]
                   /\ (consecutive[h] > 0) <=> (online[h] = "offline")

(* The pool is never asked for more probes than it has workers, and every  *)
(* ssh process belongs to a future the scheduler still holds.              *)
PoolBounded ==
  /\ Cardinality(InFlight) <= Workers
  /\ running \subseteq InFlight

(* A stop is no news about a server: a result that stop() brought about,   *)
(* through the event, the terminated process or the cancelled future, is   *)
(* never handed to handle_payload.                                         *)
ShutdownIsSilent ==
  \A h \in current : result[h] # "stopping" /\ h \notin terminated

(* Once stop() has listed the ssh processes to terminate, no other one     *)
(* appears in this process's lifetime: none outlives the collector.        *)
NoLateProcess ==
  [][(stopper \in {"terminated", "closed"} /\ restarts' = restarts)
       => running' \subseteq running]_vars

(* Three failures in a row keep a server from being probed before its      *)
(* backoff is over, whatever the poll interval the tick adds afterwards.   *)
BackoffRespected ==
  [][\A h \in Hosts : /\ probe[h] = "none" /\ probe'[h] = "queued"
                      /\ failures[h] >= 3
                      => quiet[h] >= Backoff(failures[h]) \/ quiet[h] = MaxBackoff]_vars

(* The status history every server shows is one HostAvailability allows.   *)
Availability == INSTANCE HostAvailability WITH status <- online
AvailabilitySpec == Availability!Spec

-------------------------------------------------------------------------------
(* Liveness.                                                               *)

(* Every configured server is probed again and again until the collector   *)
(* is stopped, whatever the other servers do and even when no result can   *)
(* be written to the database.                                             *)
ProbedForever ==
  \A h \in Hosts : []<>(probe[h] = "queued" \/ stop_event)

(* Disk usage keeps being refreshed for a server whose GPU probes fail.    *)
DiskProbedForever ==
  \A h \in Hosts : []<>(disk[h] = "pending" \/ stop_event)

(* stop() leaves nothing behind: the scheduler thread ends and every ssh   *)
(* process is gone.                                                        *)
StopCompletes ==
  stop_event ~> ((thread = "dead" /\ running = {}) \/ ~stop_event)

===============================================================================
