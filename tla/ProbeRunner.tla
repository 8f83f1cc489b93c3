---- MODULE ProbeRunner ----
(***************************************************************************)
(* The bounded dialogue with a child process (_communicate_bounded): two   *)
(* threads drain its pipes into buffers that share one limit, the calling  *)
(* thread watches the child, the timeout and the collector's stop.         *)
(*                                                                         *)
(* The child and what it starts are free: it may ignore SIGTERM, not die   *)
(* of SIGKILL in time, and leave a descendant that keeps its pipes open.   *)
(* A unit of time is the half second of the stop's grace; the calling      *)
(* thread, which looks every 0.05 s, is never a unit late.                 *)
(***************************************************************************)
EXTENDS Integers

CONSTANTS
    Timeout,               \* the timeout, in units
    Limit,                 \* max_output_bytes, in units of half a chunk
    Written                \* bound: what the child writes to a pipe

ASSUME RunnerAssumption == {Timeout, Limit, Written} \subseteq Nat \ {0}

VARIABLES
    elapsed,               \* units since the readers were started
    child,                 \* "runs" or "ended"
    signal,                \* "none", "term" or "kill"
    open,                  \* the pipes that somebody may still write to
    wrote, taken, kept,    \* per pipe: written, read, and stored in its buffer
    reader,                \* per pipe: "reads", "kills" (after an overflow), "failed", "broken", "ended"
    overflow, errors,      \* the events set by the readers
    stopping,              \* stop_event
    caller,                \* where the calling thread is
    until,                 \* when its present wait ends
    stopSince,             \* when it saw the stop first
    timedOut, stopped,
    result                 \* what it returned or raised

vars == <<elapsed, child, signal, open, wrote, taken, kept, reader, overflow, errors, stopping,
          caller, until, stopSince, timedOut, stopped, result>>
pipes == <<wrote, taken, kept>>
watch == <<caller, until, stopSince, timedOut, stopped, result>>

Streams == {"stdout", "stderr"}
Chunk == 2
Second == 2
Unset == -1
Total(count) == count["stdout"] + count["stderr"]
Least(m, n) == IF m <= n THEN m ELSE n

\* stop_process: only a child that runs is signalled; SIGKILL is never taken back.
Signalled(new) == IF child = "ended" \/ signal = "kill" THEN signal ELSE new

----
\* ------------------------------------------------- the child (the system)

Write(s) ==
    /\ child = "runs" /\ s \in open /\ wrote[s] < Written
    /\ wrote' = [wrote EXCEPT ![s] = @ + 1]
    /\ UNCHANGED <<elapsed, child, signal, open, taken, kept, reader, overflow, errors, stopping, watch>>

\* The child ends, by itself or of a signal, and its pipes close except those that a
\* descendant holds.
End ==
    /\ child = "runs"
    /\ child' = "ended"
    /\ open' \in SUBSET open
    /\ UNCHANGED <<elapsed, signal, pipes, reader, overflow, errors, stopping, watch>>

\* A descendant closes what it held.
Close(s) ==
    /\ child = "ended" /\ s \in open
    /\ open' = open \ {s}
    /\ UNCHANGED <<elapsed, child, signal, pipes, reader, overflow, errors, stopping, watch>>

StopCollector ==
    /\ ~stopping /\ stopping' = TRUE
    /\ UNCHANGED <<elapsed, child, signal, open, pipes, reader, overflow, errors, watch>>

----
\* ------------------------------------------------------------ the readers

\* Mutant: reaching the limit counts as exceeding it.
ExceedsAtLimit(chunk, remaining) == chunk >= remaining

Exceeds(chunk, remaining) == chunk > remaining

\* stream.read waits for a whole chunk or the end of the pipe.
Take(s) ==
    /\ reader[s] = "reads"
    /\ LET waiting == wrote[s] - taken[s]
           chunk == Least(waiting, Chunk)
           remaining == Limit - Total(kept)
       IN  /\ chunk = Chunk \/ (s \notin open /\ chunk > 0)
           /\ taken' = [taken EXCEPT ![s] = @ + chunk]
           /\ kept' = [kept EXCEPT ![s] = @ + Least(chunk, remaining)]
           /\ overflow' = (overflow \/ Exceeds(chunk, remaining))
           /\ reader' = [reader EXCEPT ![s] = IF Exceeds(chunk, remaining) THEN "kills" ELSE "reads"]
    /\ UNCHANGED <<elapsed, child, signal, open, wrote, errors, stopping, watch>>

KillAfterOverflow(s) ==
    /\ reader[s] = "kills"
    /\ signal' = Signalled("kill")
    /\ reader' = [reader EXCEPT ![s] = "reads"]
    /\ UNCHANGED <<elapsed, child, open, pipes, overflow, errors, stopping, watch>>

EndOfFile(s) ==
    /\ reader[s] = "reads" /\ s \notin open /\ wrote[s] = taken[s]
    /\ reader' = [reader EXCEPT ![s] = "ended"]
    /\ UNCHANGED <<elapsed, child, signal, open, pipes, overflow, errors, stopping, watch>>

\* Reading fails; the error counts only while the child runs.
ReadFails(s) ==
    /\ reader[s] = "reads"
    /\ IF child = "runs" THEN reader' = [reader EXCEPT ![s] = "failed"] /\ errors' = TRUE
                         ELSE reader' = [reader EXCEPT ![s] = "broken"] /\ UNCHANGED errors
    /\ UNCHANGED <<elapsed, child, signal, open, pipes, overflow, stopping, watch>>

KillAfterError(s) ==
    /\ reader[s] = "failed"
    /\ signal' = Signalled("kill")
    /\ reader' = [reader EXCEPT ![s] = "broken"]
    /\ UNCHANGED <<elapsed, child, open, pipes, overflow, errors, stopping, watch>>

----
\* ---------------------------------------------------- the calling thread

\* One look at a running child: overflow and errors kill it, a stop asks it to end and
\* kills it after the grace, the timeout kills it and ends the loop.
Look ==
    /\ caller = "loop" /\ child = "runs"
    /\ LET grace == stopSince # Unset /\ elapsed - stopSince >= 1
           late == elapsed >= Timeout
       IN  /\ signal' = IF overflow \/ errors \/ late \/ (stopping /\ grace) THEN "kill"
                        ELSE IF stopping THEN Signalled("term") ELSE signal
           /\ stopped' = (stopped \/ stopping)
           /\ stopSince' = IF stopping /\ stopSince = Unset THEN elapsed ELSE stopSince
           /\ timedOut' = late
           /\ caller' = IF late THEN "wait" ELSE "loop"
           /\ until' = IF late THEN elapsed + Second ELSE until
    /\ UNCHANGED <<elapsed, child, open, pipes, reader, overflow, errors, stopping, result>>

\* The child was found ended: the wait that follows the loop ends at once.
Leave ==
    /\ caller = "loop" /\ child = "ended"
    /\ caller' = "stdout" /\ until' = elapsed + Second
    /\ UNCHANGED <<elapsed, child, signal, open, pipes, reader, overflow, errors, stopping, stopSince,
                   timedOut, stopped, result>>

\* A second for the child to end, and another one after a second kill.
Wait ==
    /\ caller \in {"wait", "waitMore"}
    /\ child = "ended" \/ elapsed >= until
    /\ until' = elapsed + Second
    /\ IF child = "runs" /\ caller = "wait"
       THEN caller' = "waitMore" /\ signal' = "kill"
       ELSE caller' = "stdout" /\ UNCHANGED signal
    /\ UNCHANGED <<elapsed, child, open, pipes, reader, overflow, errors, stopping, stopSince,
                   timedOut, stopped, result>>

Finished(s) == reader[s] \in {"broken", "ended"}

\* A second for each reader.
Join ==
    /\ caller \in Streams
    /\ Finished(caller) \/ elapsed >= until
    /\ until' = elapsed + Second
    /\ caller' = IF caller = "stdout" THEN "stderr" ELSE "verdict"
    /\ UNCHANGED <<elapsed, child, signal, open, pipes, reader, overflow, errors, stopping, stopSince,
                   timedOut, stopped, result>>

Verdict ==
    /\ caller = "verdict"
    /\ result' = CASE overflow -> "overflow"
                   [] ~overflow /\ timedOut -> "timeout"
                   [] ~overflow /\ ~timedOut /\ stopped -> "stopped"
                   [] ~overflow /\ ~timedOut /\ ~stopped /\ errors -> "error"
                   [] OTHER -> "output"
    /\ caller' = "done"
    /\ UNCHANGED <<elapsed, child, signal, open, pipes, reader, overflow, errors, stopping, until,
                   stopSince, timedOut, stopped>>

\* Time passes when the calling thread has nothing left to do but wait.
Tick ==
    /\ \/ caller = "loop" /\ child = "runs" /\ elapsed < Timeout
          /\ (overflow \/ errors => signal = "kill") /\ (stopping => stopped)
          /\ (stopSince # Unset /\ elapsed > stopSince => signal = "kill")
       \/ caller \in {"wait", "waitMore"} /\ child = "runs" /\ elapsed < until
       \/ caller \in Streams /\ ~Finished(caller) /\ elapsed < until
    /\ elapsed' = elapsed + 1
    /\ UNCHANGED <<child, signal, open, pipes, reader, overflow, errors, stopping, watch>>

\* The caller has its answer; readers it left behind fill buffers nobody looks at.
Done == caller = "done" /\ UNCHANGED vars

Init ==
    /\ elapsed = 0 /\ child = "runs" /\ signal = "none" /\ open = Streams
    /\ wrote = [s \in Streams |-> 0] /\ taken = wrote /\ kept = wrote
    /\ reader = [s \in Streams |-> "reads"] /\ overflow = FALSE /\ errors = FALSE
    /\ stopping = FALSE /\ caller = "loop" /\ until = 0 /\ stopSince = Unset
    /\ timedOut = FALSE /\ stopped = FALSE /\ result = "none"

Running ==
    \/ \E s \in Streams : \/ Write(s) \/ Close(s) \/ Take(s) \/ KillAfterOverflow(s)
                          \/ EndOfFile(s) \/ ReadFails(s) \/ KillAfterError(s)
    \/ End \/ StopCollector \/ Look \/ Leave \/ Wait \/ Join \/ Verdict \/ Tick

Next == (caller # "done" /\ Running) \/ Done

Spec == Init /\ [][Next]_vars

----
\* What the caller gets is true, and comes within four seconds of the timeout whatever
\* the child does: nothing beyond the limit is stored; an overflow means that more was
\* written than the limit, a timeout that the time was over, a stop that the collector
\* stops; output is returned only of a child that ended without being signalled, and of
\* a pipe only a part only if reading it failed after that, or its reader was still
\* waiting for a descendant to close it (or for the processor) a second later.
Outcome ==
    /\ Total(kept) <= Limit
    /\ elapsed <= Timeout + 4 * Second
    /\ result = "overflow" => Total(wrote) > Limit
    /\ result = "timeout" => elapsed >= Timeout
    /\ result = "stopped" => stopping
    /\ result = "output" =>
         /\ child = "ended" /\ signal = "none"
         /\ \A s \in Streams : kept[s] = wrote[s] \/ reader[s] \in {"reads", "broken"}
====
