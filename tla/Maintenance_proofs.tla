--------------------------- MODULE Maintenance_proofs ---------------------------
(***************************************************************************)
(* Proofs about Maintenance, for any GPUs, retention and calendar: the last *)
(* backup is never lost, and deleting old rows never costs an average       *)
(* anything.                                                               *)
(***************************************************************************)
EXTENDS Maintenance, TLAPS

LEMMA DayBegan ==
  ASSUME NEW t \in Nat
  PROVE  DayOf(t) \in Nat /\ DayOf(t) * Day <= t /\ t < DayOf(t) * Day + Day
  BY MaintenanceAssumption DEF DayOf

(* A backup is written on its day or later.                                 *)
Dated == \A d \in DOMAIN backups : d \in Nat /\ backups[d] \in Nat /\ d * Day <= backups[d]

(* A cycle removes expired backups only when it has the one of its day.      *)
TodayFirst == step = "prune" => DayOf(began) \in DOMAIN backups

Times == clock \in Nat /\ began \in Nat /\ began <= clock

Inv == Dated /\ TodayFirst /\ Times

LEMMA InitInv == Init => Inv
  BY DEF Init, Inv, Dated, TodayFirst, Times, Nothing, Over

LEMMA StepInv == Inv /\ [Next]_vars => Inv'
<1> SUFFICES ASSUME Inv, [Next]_vars PROVE Inv'
  OBVIOUS
<1> USE DEF Inv, Dated, TodayFirst, Times
<1>1. CASE Begin
  BY <1>1 DEF Begin
<1>2. CASE RollUp
  BY <1>2 DEF RollUp
<1>3. CASE Backup
  <2>1. DayOf(began) \in Nat /\ DayOf(began) * Day <= clock
    <3>1. DayOf(began) \in Nat /\ DayOf(began) * Day <= began /\ DayOf(began) * Day \in Nat
      BY DayBegan, MaintenanceAssumption
    <3> QED
      BY <3>1
  <2>2. Dated'
    BY <1>3, <2>1 DEF Backup
  <2>3. TodayFirst' /\ Times'
    BY <1>3 DEF Backup
  <2> QED
    BY <2>2, <2>3
<1>4. CASE Fail
  BY <1>4 DEF Fail, AfterFailure, Over
<1>5. CASE Prune
  BY <1>5 DEF Prune, Over, Restrict
<1>6. CASE Crash
  BY <1>6 DEF Crash, Over
<1>7. CASE Pass
  BY <1>7 DEF Pass
<1>8. CASE Change
  BY <1>8 DEF Change
<1>9. CASE Swap
  BY <1>9 DEF Swap
<1>10. CASE UNCHANGED vars
  BY <1>10 DEF vars
<1> QED
  BY <1>1, <1>2, <1>3, <1>4, <1>5, <1>6, <1>7, <1>8, <1>9, <1>10 DEF Next

(* The backup of the cycle's own day is too young to expire.                *)
LEMMA TodayStays ==
  ASSUME Inv, Prune PROVE backups' # Nothing
<1>1. /\ DayOf(began) \in DOMAIN backups
      /\ DayOf(began) \in Nat /\ began \in Nat
      /\ backups[DayOf(began)] \in Nat /\ DayOf(began) * Day <= backups[DayOf(began)]
  BY DayBegan DEF Inv, TodayFirst, Dated, Times, Prune
<1>2. began < DayOf(began) * Day + Day
  BY <1>1, DayBegan
<1>3. Day \in Nat /\ BackupDays * Day \in Nat /\ Day <= BackupDays * Day
  BY MaintenanceAssumption
<1>4. DayOf(began) * Day \in Nat
  BY <1>1, <1>3
<1>5. backups[DayOf(began)] >= began - BackupDays * Day
  BY <1>1, <1>2, <1>3, <1>4
<1>6. DayOf(began) \in DOMAIN backups'
  BY <1>1, <1>5 DEF Prune, Restrict
<1> QED
  BY <1>6 DEF Nothing

(* Once there is a backup there always is one: cycles that fail or are cut   *)
(* off remove none, and the others have made one (run_maintenance).          *)
THEOREM LastBackupStays == Spec => LastBackupKept
<1>1. Inv /\ [Next]_vars => (backups # Nothing => backups' # Nothing)
  <2> SUFFICES ASSUME Inv, [Next]_vars, backups # Nothing PROVE backups' # Nothing
    OBVIOUS
  <2>1. CASE Backup
    <3>1. DayOf(began) \in DOMAIN backups'
      BY <2>1 DEF Backup
    <3> QED
      BY <3>1 DEF Nothing
  <2>2. CASE Prune
    BY <2>2, TodayStays
  <2>3. CASE UNCHANGED backups
    BY <2>3
  <2> QED
    BY <2>1, <2>2, <2>3 DEF Next, Begin, RollUp, Fail, Crash, Pass, Change, Swap, vars
<1> QED
  BY <1>1, InitInv, StepInv, PTL DEF Spec, LastBackupKept
-------------------------------------------------------------------------------
(* The daily averages.                                                      *)

Present == IF step = "wait" THEN clock ELSE began

(* Observations lie in the past, and of the cards in the slots only those   *)
(* were deleted that the cycle in progress, and every later one, may delete. *)
Kept ==
  /\ raw \subseteq seen
  /\ \A o \in seen : o[2] \in Nat /\ o[2] < clock
  /\ \A o \in seen : o \notin raw => o[2] + 1 < RawCutoff(Present)

IInv == Inv /\ Kept /\ DayFinal

LEMMA Scaled ==
  ASSUME NEW a \in Int, NEW b \in Int, a <= b PROVE a * Day <= b * Day /\ a * Day \in Int
  BY MaintenanceAssumption

(* What is due was not deleted.                                             *)
LEMMA DueIsThere ==
  ASSUME Inv, Kept, step = "data", NEW d \in Due, NEW o \in seen, DayOf(o[2]) = d
  PROVE  o \in raw
<1>1. /\ began \in Nat /\ o[2] \in Nat /\ DayOf(began) \in Nat /\ d \in Nat
      /\ began < DayOf(began) * Day + Day /\ d * Day <= o[2]
  BY DayBegan DEF Inv, Times, Kept
<1>2. DayOf(began) - RollupDays + 1 <= d /\ RollupDays \in Nat /\ RawDays \in Nat /\ Day \in Nat
  BY MaintenanceAssumption DEF Due
<1>3. (DayOf(began) - RawDays + 1) * Day <= d * Day
  BY <1>1, <1>2, Scaled, MaintenanceAssumption
<1>4. (DayOf(began) - RawDays + 1) * Day = DayOf(began) * Day - RawDays * Day + Day
  BY <1>1, <1>2
<1> DEFINE p == DayOf(began) * Day
           r == RawDays * Day
<1>5. p \in Int /\ r \in Int /\ d * Day \in Int
  BY <1>1, <1>2
<1>6. began - r < o[2] + 1
  <2>1. p - r + Day <= o[2]
    <3>1. p - r + Day <= d * Day
      BY <1>3, <1>4
    <3> HIDE DEF p, r
    <3> QED
      BY <3>1, <1>1, <1>2, <1>5
  <2>2. began < p + Day
    BY <1>1
  <2> HIDE DEF p, r
  <2> QED
    BY <2>1, <2>2, <1>1, <1>2, <1>5
<1> QED
  BY <1>1, <1>5, <1>6 DEF Kept, Present, RawCutoff

LEMMA KeptInit == Init => Kept /\ DayFinal
  BY DEF Init, Kept, DayFinal, Nothing

LEMMA KeptStep == Inv /\ Kept /\ [Next]_vars => Kept'
<1> SUFFICES ASSUME Inv, Kept, [Next]_vars PROVE Kept'
  OBVIOUS
<1> USE DEF Kept, Present
<1>0. RawDays * Day \in Nat /\ clock \in Nat /\ began \in Nat /\ began <= clock
  BY MaintenanceAssumption DEF Inv, Times
<1>1. CASE Begin
  BY <1>0, <1>1 DEF Begin, database
<1>2. CASE RollUp
  <2>1. step = "data" /\ step' # "wait" /\ UNCHANGED <<clock, began, seen>>
    BY <1>2 DEF RollUp
  <2>2. raw' = {o \in raw : o[2] + 1 >= RawCutoff(began)}
    BY <1>2 DEF RollUp
  <2> QED
    BY <2>1, <2>2, <1>0 DEF RawCutoff
<1>3. CASE Backup
  BY <1>0, <1>3 DEF Backup, database
<1>4. CASE Fail
  BY <1>0, <1>4 DEF Fail, AfterFailure, database, RawCutoff
<1>5. CASE Prune
  BY <1>0, <1>5 DEF Prune, database, RawCutoff
<1>6. CASE Crash
  BY <1>0, <1>6 DEF Crash, database, RawCutoff
<1>7. CASE Pass
  <2>1. PICK gpus \in SUBSET active : /\ raw' = raw \cup (gpus \X {clock})
                                     /\ seen' = seen \cup (gpus \X {clock})
    BY <1>7 DEF Pass
  <2>2. clock' = clock + 1 /\ UNCHANGED <<step, began>>
    BY <1>7 DEF Pass
  <2>3. \A o \in gpus \X {clock} : o[2] = clock
    OBVIOUS
  <2>4. raw' \subseteq seen' /\ \A o \in seen' : o[2] \in Nat /\ o[2] < clock'
    BY <2>1, <2>2, <2>3, <1>0
  <2>5. \A o \in seen' : o \notin raw' => o[2] + 1 < RawCutoff(Present')
    BY <2>1, <2>2, <2>4, <1>0 DEF RawCutoff
  <2> QED
    BY <2>4, <2>5
<1>8. CASE Change
  BY <1>8 DEF Change, database
<1>9. CASE Swap
  BY <1>9 DEF Swap
<1>10. CASE UNCHANGED vars
  BY <1>10 DEF vars, database
<1> QED
  BY <1>1, <1>2, <1>3, <1>4, <1>5, <1>6, <1>7, <1>8, <1>9, <1>10 DEF Next

(* A cycle counts of a day that is due all that was seen of it.             *)
LEMMA DueIsWhole ==
  ASSUME Inv, Kept, step = "data", NEW d \in Due
  PROVE  Averaged(d, raw) = Averaged(d, seen) /\ Before(d, raw) = Before(d, seen)
<1>1. Of(d, raw) = Of(d, seen)
  BY DueIsThere DEF Of, Kept
<1> QED
  BY <1>1 DEF Averaged, Before

LEMMA FinalStep == IInv /\ [Next]_vars => DayFinal'
<1> SUFFICES ASSUME IInv, [Next]_vars PROVE DayFinal'
  OBVIOUS
<1>1. CASE RollUp
  <2> SUFFICES ASSUME NEW d \in DOMAIN facts', facts'[d].from # {}
               PROVE  d \in DOMAIN rollup' /\ rollup'[d] = facts'[d]
    BY DEF DayFinal
  <2> DEFINE due == {e \in Due : Before(e, raw) # {}}
  <2>1. rollup' = [e \in Lasting(due \cup DOMAIN rollup) |->
                     IF e \in due THEN Averaged(e, raw) ELSE rollup[e]]
    BY <1>1 DEF RollUp
  <2>2. d \in Lasting(Due \cup DOMAIN facts)
        /\ facts'[d] = IF d \in Due THEN Averaged(d, seen) ELSE facts[d]
    BY <1>1 DEF RollUp
  <2>3. CASE d \in Due
    <3>1. Averaged(d, raw) = Averaged(d, seen) /\ Before(d, raw) = Before(d, seen)
      BY <1>1, <2>3, DueIsWhole DEF RollUp, IInv
    <3>2. d \in due
      BY <2>2, <2>3, <3>1 DEF Averaged
    <3> QED
      BY <2>1, <2>2, <2>3, <3>1, <3>2 DEF Lasting
  <2>4. CASE d \notin Due
    <3>1. d \in DOMAIN facts /\ facts'[d] = facts[d]
      BY <2>2, <2>4 DEF Lasting
    <3>2. d \in DOMAIN rollup /\ rollup[d] = facts[d]
      BY <3>1 DEF IInv, DayFinal
    <3> QED
      BY <2>1, <2>2, <2>4, <3>1, <3>2 DEF Lasting
  <2> QED
    BY <2>3, <2>4
<1>2. CASE UNCHANGED <<rollup, facts>>
  BY <1>2 DEF DayFinal, IInv
<1> QED
  BY <1>1, <1>2 DEF Next, Begin, Backup, Fail, Prune, Crash, Pass, Change, Swap, vars, database

(* The rows deleted by age (raw_interval_cutoff) never cost an average      *)
(* anything: whenever a day is due (_refresh_daily_vram_rollups) its rows    *)
(* are all there, but for those a card swap has deleted, and afterwards its  *)
(* average stays.                                                            *)
THEOREM AveragesFinal == Spec => []DayFinal
<1>1. Init => IInv
  BY InitInv, KeptInit DEF IInv
<1>2. IInv /\ [Next]_vars => IInv'
  BY StepInv, KeptStep, FinalStep DEF IInv
<1>3. IInv => DayFinal
  BY DEF IInv
<1> QED
  BY <1>1, <1>2, <1>3, PTL DEF Spec
================================================================================
