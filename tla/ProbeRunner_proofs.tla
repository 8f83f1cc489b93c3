--------------------------- MODULE ProbeRunner_proofs ---------------------------
(***************************************************************************)
(* Proof about ProbeRunner, for any timeout, limit and output: the caller's *)
(* answer is true and in time.                                             *)
(***************************************************************************)
EXTENDS ProbeRunner, TLAPS

Counts == [Streams -> Nat]
Waiting == {"wait", "waitMore"}
Joining == {"stdout", "stderr"}

Types ==
  /\ elapsed \in Nat /\ until \in Nat
  /\ child \in {"runs", "ended"} /\ signal \in {"none", "term", "kill"}
  /\ open \subseteq Streams
  /\ wrote \in Counts /\ taken \in Counts /\ kept \in Counts
  /\ reader \in [Streams -> {"reads", "kills", "failed", "broken", "ended"}]
  /\ {overflow, errors, stopping, timedOut, stopped} \subseteq BOOLEAN
  /\ caller \in {"loop", "wait", "waitMore", "stdout", "stderr", "verdict", "done"}

(* What is stored was read, what was read was written, and only an overflow *)
(* keeps the two buffers from holding all that was read.                    *)
Buffers ==
  /\ \A s \in Streams : kept[s] <= taken[s] /\ taken[s] <= wrote[s]
  /\ Total(kept) <= Limit
  /\ overflow => Total(wrote) > Limit
  /\ ~overflow => kept = taken

(* A reader is somewhere for a reason; one that has ended has read all.     *)
Readers ==
  \A s \in Streams :
    /\ reader[s] = "ended" => s \notin open /\ wrote[s] = taken[s]
    /\ reader[s] = "kills" => overflow
    /\ reader[s] = "failed" => errors

(* Nobody signals the child without one of the reasons the verdict names.   *)
Causes ==
  /\ timedOut => elapsed >= Timeout
  /\ stopped => stopping
  /\ signal # "none" => overflow \/ errors \/ timedOut \/ stopped
  /\ caller = "loop" => ~timedOut
  /\ caller \in Waiting => timedOut
  /\ caller # "loop" /\ child = "runs" => timedOut

(* Two waits for the child and two for the readers, a second each.          *)
InTime ==
  /\ caller = "loop" => elapsed <= Timeout
  /\ caller = "wait" => elapsed <= until /\ until <= Timeout + Second
  /\ caller = "waitMore" => elapsed <= until /\ until <= Timeout + 2 * Second
  /\ caller = "stdout" => elapsed <= until /\ until <= Timeout + 3 * Second
  /\ caller = "stderr" => elapsed <= until /\ until <= Timeout + 4 * Second
  /\ elapsed <= Timeout + 4 * Second
  /\ caller # "done" => result = "none"

Inv == Types /\ Buffers /\ Readers /\ Causes /\ InTime /\ Outcome

LEMMA Sizes == Timeout \in Nat /\ Limit \in Nat /\ Limit > 0 /\ Written \in Nat
  BY RunnerAssumption

LEMMA InitInv == Init => Inv
<1> SUFFICES ASSUME Init PROVE Inv
  OBVIOUS
<1> USE DEF Init
<1>1. Types
  BY DEF Types, Counts, Streams
<1>2. Buffers
  BY Sizes DEF Buffers, Total, Streams
<1>3. Readers /\ Causes /\ InTime
  BY Sizes DEF Readers, Causes, InTime, Waiting, Second
<1>4. Outcome
  BY <1>2, Sizes DEF Outcome, Buffers, Second
<1> QED
  BY <1>1, <1>2, <1>3, <1>4 DEF Inv

(* As long as there is no result, the invariant's other parts say all.      *)
LEMMA NoResult ==
  ASSUME Types', Buffers', Readers', Causes', InTime', result' = "none" PROVE Inv'
  BY DEF Inv, Outcome, Buffers, InTime

LEMMA TakeInv ==
  ASSUME Inv, caller # "done", NEW s \in Streams, Take(s) PROVE Inv'
<1> DEFINE waiting == wrote[s] - taken[s]
           chunk == Least(waiting, Chunk)
           remaining == Limit - Total(kept)
<1>1. /\ taken' = [taken EXCEPT ![s] = @ + chunk]
      /\ kept' = [kept EXCEPT ![s] = @ + Least(chunk, remaining)]
      /\ overflow' = (overflow \/ Exceeds(chunk, remaining))
      /\ reader' = [reader EXCEPT ![s] = IF Exceeds(chunk, remaining) THEN "kills" ELSE "reads"]
      /\ reader[s] = "reads"
      /\ UNCHANGED <<elapsed, child, signal, open, wrote, errors, stopping, watch>>
  BY DEF Take
<1>2. /\ wrote[s] \in Nat /\ taken[s] \in Nat /\ kept[s] \in Nat
      /\ kept[s] <= taken[s] /\ taken[s] <= wrote[s]
      /\ Total(kept) \in Nat /\ Total(kept) <= Limit
  BY DEF Inv, Types, Counts, Buffers, Total, Streams
<1>3. /\ chunk \in Nat /\ chunk <= waiting /\ remaining \in Nat
      /\ Least(chunk, remaining) \in Nat /\ Least(chunk, remaining) <= chunk
      /\ Least(chunk, remaining) <= remaining
      /\ ~Exceeds(chunk, remaining) => Least(chunk, remaining) = chunk
  BY <1>2, Sizes DEF Least, Chunk, Exceeds
<1> HIDE DEF chunk, remaining
<1>4. /\ taken'[s] = taken[s] + chunk /\ taken'[s] <= wrote[s]
      /\ kept'[s] = kept[s] + Least(chunk, remaining)
      /\ taken' \in Counts /\ kept' \in Counts
      /\ \A z \in Streams : z # s => taken'[z] = taken[z] /\ kept'[z] = kept[z]
  BY <1>1, <1>2, <1>3 DEF Inv, Types, Counts
<1>5. /\ Total(kept') = Total(kept) + Least(chunk, remaining)
      /\ Total(taken') = Total(taken) + chunk
      /\ Total(kept) <= Total(taken) /\ Total(taken') <= Total(wrote)
      /\ Total(taken) \in Nat
  BY <1>2, <1>3, <1>4 DEF Total, Streams, Inv, Types, Counts, Buffers
<1>6. Types'
  <2>1. reader' \in [Streams -> {"reads", "kills", "failed", "broken", "ended"}]
    BY <1>1 DEF Inv, Types
  <2>2. overflow' \in BOOLEAN
    BY <1>1 DEF Inv, Types
  <2> QED
    BY <1>1, <1>4, <2>1, <2>2 DEF Inv, Types, watch
<1>7. Total(kept') <= Limit
  <2>1. remaining = Limit - Total(kept)
    BY DEF remaining
  <2> QED
    BY <1>2, <1>3, <1>5, <2>1, Sizes
<1>8. overflow' => Total(wrote) > Limit
  <2>1. CASE overflow
    BY <2>1 DEF Inv, Buffers
  <2>2. CASE Exceeds(chunk, remaining)
    <3>1. chunk > Limit - Total(kept)
      BY <2>2 DEF Exceeds, remaining
    <3>2. Total(wrote) \in Nat
      BY DEF Inv, Types, Counts, Total, Streams
    <3> QED
      BY <3>1, <3>2, <1>2, <1>3, <1>5, Sizes
  <2> QED
    BY <1>1, <2>1, <2>2
<1>9. ~overflow' => kept' = taken'
  BY <1>1, <1>3 DEF Inv, Buffers
<1>10. Buffers'
  BY <1>1, <1>2, <1>3, <1>4, <1>7, <1>8, <1>9 DEF Inv, Types, Counts, Buffers
<1>11. Readers'
  BY <1>1, <1>4 DEF Inv, Types, Readers
<1>12. Causes' /\ InTime'
  BY <1>1 DEF Inv, Causes, InTime, watch
<1>13. result' = "none"
  BY <1>1 DEF Inv, InTime, watch
<1> QED
  BY <1>6, <1>10, <1>11, <1>12, <1>13, NoResult

(* The other steps leave the buffers alone, or add to what was written.     *)
LEMMA StepInv == Inv /\ [Next]_vars => Inv'
<1> SUFFICES ASSUME Inv, [Next]_vars PROVE Inv'
  OBVIOUS
<1>1. CASE caller # "done" /\ Running
  <2>0. result = "none"
    BY <1>1 DEF Inv, InTime
  <2>1. ASSUME NEW s \in Streams, Write(s) PROVE Inv'
    <3>1. /\ child = "runs" /\ s \in open
          /\ wrote' = [wrote EXCEPT ![s] = @ + 1]
          /\ UNCHANGED <<elapsed, child, signal, open, taken, kept, reader, overflow, errors, stopping, watch>>
      BY <2>1 DEF Write
    <3>2. wrote' \in Counts /\ \A z \in Streams : wrote[z] \in Nat /\ wrote'[z] >= wrote[z] /\ (z # s => wrote'[z] = wrote[z])
      BY <3>1 DEF Inv, Types, Counts
    <3>3. Total(wrote') >= Total(wrote) /\ Total(wrote) \in Nat /\ Total(wrote') \in Nat
      BY <3>2 DEF Total, Streams, Counts
    <3>4. Types'
      BY <3>1, <3>2 DEF Inv, Types, watch
    <3>5. Buffers'
      BY <3>1, <3>2, <3>3, Sizes DEF Inv, Types, Counts, Buffers
    <3>6. Readers' /\ Causes' /\ InTime'
      BY <3>1, <3>2 DEF Inv, Readers, Causes, InTime, watch
    <3> QED
      BY <3>1, <3>4, <3>5, <3>6, <2>0, NoResult DEF watch
  <2>2. ASSUME NEW s \in Streams, Close(s) PROVE Inv'
    <3>1. open' = open \ {s} /\ UNCHANGED <<elapsed, child, signal, pipes, reader, overflow, errors, stopping, watch>>
      BY <2>2 DEF Close
    <3> QED
      BY <3>1, <2>0, NoResult DEF Inv, Types, Buffers, Readers, Causes, InTime, pipes, watch
  <2>3. ASSUME NEW s \in Streams, Take(s) PROVE Inv'
    BY <1>1, <2>3, TakeInv
  <2>4. ASSUME NEW s \in Streams, KillAfterOverflow(s) PROVE Inv'
    <3>1. /\ reader[s] = "kills" /\ signal' = Signalled("kill") /\ reader' = [reader EXCEPT ![s] = "reads"]
          /\ UNCHANGED <<elapsed, child, open, pipes, overflow, errors, stopping, watch>>
      BY <2>4 DEF KillAfterOverflow
    <3> QED
      BY <3>1, <2>0, NoResult DEF Inv, Types, Buffers, Readers, Causes, InTime, pipes, watch, Signalled
  <2>5. ASSUME NEW s \in Streams, EndOfFile(s) PROVE Inv'
    <3>1. /\ s \notin open /\ wrote[s] = taken[s] /\ reader' = [reader EXCEPT ![s] = "ended"]
          /\ UNCHANGED <<elapsed, child, signal, open, pipes, overflow, errors, stopping, watch>>
      BY <2>5 DEF EndOfFile
    <3> QED
      BY <3>1, <2>0, NoResult DEF Inv, Types, Buffers, Readers, Causes, InTime, pipes, watch
  <2>6. ASSUME NEW s \in Streams, ReadFails(s) PROVE Inv'
    <3>1. /\ \/ reader' = [reader EXCEPT ![s] = "failed"] /\ errors' = TRUE
             \/ reader' = [reader EXCEPT ![s] = "broken"] /\ UNCHANGED errors
          /\ UNCHANGED <<elapsed, child, signal, open, pipes, overflow, stopping, watch>>
      BY <2>6 DEF ReadFails
    <3>2. Types'
      BY <3>1 DEF Inv, Types, pipes, watch
    <3>3. Buffers' /\ Readers'
      BY <3>1 DEF Inv, Types, Buffers, Readers, pipes
    <3>4. Causes' /\ InTime'
      BY <3>1 DEF Inv, Causes, InTime, Types, watch
    <3> QED
      BY <3>1, <3>2, <3>3, <3>4, <2>0, NoResult DEF watch
  <2>7. ASSUME NEW s \in Streams, KillAfterError(s) PROVE Inv'
    <3>1. /\ reader[s] = "failed" /\ signal' = Signalled("kill") /\ reader' = [reader EXCEPT ![s] = "broken"]
          /\ UNCHANGED <<elapsed, child, open, pipes, overflow, errors, stopping, watch>>
      BY <2>7 DEF KillAfterError
    <3> QED
      BY <3>1, <2>0, NoResult DEF Inv, Types, Buffers, Readers, Causes, InTime, pipes, watch, Signalled
  <2>8. CASE End
    BY <2>8, <2>0, NoResult DEF End, Inv, Types, Buffers, Readers, Causes, InTime, pipes, watch
  <2>9. CASE StopCollector
    BY <2>9, <2>0, NoResult DEF StopCollector, Inv, Types, Buffers, Readers, Causes, InTime, pipes, watch
  <2>10. CASE Look
    <3> DEFINE grace == stopSince # Unset /\ elapsed - stopSince >= 1
               late == elapsed >= Timeout
    <3>1. /\ caller = "loop"
          /\ signal' = IF overflow \/ errors \/ late \/ (stopping /\ grace) THEN "kill"
                       ELSE IF stopping THEN Signalled("term") ELSE signal
          /\ stopped' = (stopped \/ stopping)
          /\ timedOut' = late
          /\ caller' = IF late THEN "wait" ELSE "loop"
          /\ until' = IF late THEN elapsed + Second ELSE until
          /\ UNCHANGED <<elapsed, child, open, pipes, reader, overflow, errors, stopping, result>>
      BY <2>10 DEF Look
    <3>2. Types'
      BY <3>1 DEF Inv, Types, Signalled, Second, pipes
    <3>3. Buffers' /\ Readers'
      BY <3>1 DEF Inv, Buffers, Readers, pipes
    <3>4. signal' # "none" => overflow' \/ errors' \/ timedOut' \/ stopped'
      BY <3>1 DEF Inv, Causes, Types
    <3>5. Causes'
      BY <3>1, <3>4 DEF Inv, Causes, Types, Waiting
    <3>6. InTime'
      BY <3>1, <2>0, Sizes DEF Inv, Types, InTime, Second
    <3> QED
      BY <3>1, <3>2, <3>3, <3>5, <3>6, <2>0, NoResult
  <2>11. CASE Leave
    BY <2>11, <2>0, NoResult, Sizes DEF Leave, Inv, Types, Buffers, Readers, Causes, InTime, pipes, Second, Waiting
  <2>12. CASE Wait
    <3>1. /\ caller \in Waiting /\ (child = "ended" \/ elapsed >= until) /\ until' = elapsed + Second
          /\ \/ caller = "wait" /\ caller' = "waitMore" /\ signal' = "kill"
             \/ caller' = "stdout" /\ UNCHANGED signal
          /\ UNCHANGED <<elapsed, child, open, pipes, reader, overflow, errors, stopping, timedOut, stopped, result>>
      BY <2>12 DEF Wait, Waiting
    <3>2. Types' /\ Buffers' /\ Readers'
      BY <3>1 DEF Inv, Types, Buffers, Readers, pipes, Second
    <3>3. Causes'
      BY <3>1 DEF Inv, Causes, Waiting
    <3>4. InTime'
      BY <3>1, <2>0, Sizes DEF Inv, Types, InTime, Waiting, Second
    <3> QED
      BY <3>1, <3>2, <3>3, <3>4, <2>0, NoResult
  <2>13. CASE Join
    <3>1. /\ caller \in Joining /\ until' = elapsed + Second
          /\ caller' = IF caller = "stdout" THEN "stderr" ELSE "verdict"
          /\ UNCHANGED <<elapsed, child, signal, open, pipes, reader, overflow, errors, stopping, timedOut, stopped, result>>
      BY <2>13 DEF Join, Joining, Streams
    <3>2. Types' /\ Buffers' /\ Readers'
      BY <3>1 DEF Inv, Types, Buffers, Readers, pipes, Second
    <3>3. Causes'
      BY <3>1 DEF Inv, Causes, Waiting, Joining
    <3>4. InTime'
      BY <3>1, <2>0, Sizes DEF Inv, Types, InTime, Joining, Second
    <3> QED
      BY <3>1, <3>2, <3>3, <3>4, <2>0, NoResult
  (* Which event is looked at first does not matter: each one is true.      *)
  <2>14. CASE Verdict
    <3>1. /\ caller = "verdict" /\ caller' = "done"
          /\ UNCHANGED <<elapsed, child, signal, open, pipes, reader, overflow, errors, stopping, until,
                         timedOut, stopped>>
      BY <2>14 DEF Verdict
    <3>2. /\ result' = "overflow" => overflow
          /\ result' = "timeout" => timedOut
          /\ result' = "stopped" => stopped
          /\ result' = "output" => ~overflow /\ ~timedOut /\ ~stopped /\ ~errors
      BY <2>14 DEF Verdict, Inv, Types
    <3>3. Types' /\ Buffers' /\ Readers' /\ Causes' /\ InTime'
      BY <3>1 DEF Inv, Types, Buffers, Readers, Causes, InTime, Waiting, pipes
    <3>4. ASSUME result' = "output", NEW s \in Streams PROVE kept[s] = wrote[s] \/ reader[s] \in {"reads", "broken"}
      BY <3>2, <3>4 DEF Inv, Types, Buffers, Readers
    <3>5. result' = "output" => child = "ended" /\ signal = "none"
      BY <3>1, <3>2 DEF Inv, Types, Causes
    <3> QED
      BY <3>1, <3>2, <3>3, <3>4, <3>5 DEF Inv, Outcome, Buffers, Causes, InTime, pipes
  <2>15. CASE Tick
    <3>1. /\ \/ caller = "loop" /\ elapsed < Timeout
             \/ caller \in Waiting \cup Joining /\ elapsed < until
          /\ elapsed' = elapsed + 1
          /\ UNCHANGED <<child, signal, open, pipes, reader, overflow, errors, stopping, watch>>
      BY <2>15 DEF Tick, Waiting, Joining, Streams
    <3>2. Types' /\ Buffers' /\ Readers'
      BY <3>1 DEF Inv, Types, Buffers, Readers, pipes, watch
    <3>3. Causes'
      BY <3>1, Sizes DEF Inv, Types, Causes, watch
    <3>4. InTime'
      BY <3>1, Sizes DEF Inv, Types, InTime, Waiting, Joining, Second, watch
    <3> QED
      BY <3>1, <3>2, <3>3, <3>4, <2>0, NoResult DEF watch
  <2> QED
    BY <1>1, <2>1, <2>2, <2>3, <2>4, <2>5, <2>6, <2>7, <2>8, <2>9, <2>10, <2>11, <2>12, <2>13, <2>14, <2>15 DEF Running
<1>2. CASE UNCHANGED vars
  BY <1>2 DEF vars, pipes, watch, Inv, Types, Buffers, Readers, Causes, InTime, Outcome
<1> QED
  BY <1>1, <1>2 DEF Next, Done

(* The answer of _communicate_bounded is true, nothing beyond the limit is   *)
(* stored, and it comes within four seconds of the timeout.                  *)
THEOREM AnswersTrue == Spec => []Outcome
<1>1. Inv => Outcome
  BY DEF Inv
<1> QED
  BY <1>1, InitInv, StepInv, PTL DEF Spec
================================================================================
