---- MODULE Maintenance ----
(***************************************************************************)
(* The hourly maintenance of the database: daily averages are rolled up    *)
(* from raw capacity intervals, old rows go, and one verified backup a day *)
(* is kept for some days.  The collector adds rows between its             *)
(* transactions, and deletes all of a slot's rows when another card is in  *)
(* it; a failed check or a full disk ends a cycle; the process may end     *)
(* anywhere in it.                                                         *)
(*                                                                         *)
(* A raw interval lasts one unit of time: <<g, t>> was observed in         *)
(* [t, t + 1).  An average stands for the observations it was taken from.  *)
(***************************************************************************)
EXTENDS Integers, FiniteSets, Functions

CONSTANTS
    Gpus,                  \* (host, gpu_index) of one lab
    Day,                   \* units of a calendar day
    RollupDays,            \* days that a cycle rolls up, today included (8)
    RawDays,               \* raw_interval_retention_days (at least 8)
    IndexDays,             \* daily_index_retention_days
    BackupDays,            \* backup_retention_days
    MaxTime                \* bound: the clock of the run

ASSUME MaintenanceAssumption ==
    /\ {Day, RollupDays, RawDays, IndexDays, BackupDays} \subseteq Nat \ {0} /\ MaxTime \in Nat
    /\ RollupDays <= RawDays /\ RollupDays <= IndexDays + 1

VARIABLES
    clock,
    active,                \* gpu_runtime.active
    raw,                   \* gpu_capacity_interval
    rollup,                \* lab_daily_index: what each stored day was averaged over
    step,                  \* the worker: "wait", "data", "copy" or "prune"
    began,                 \* now, as the cycle read it; Over when there is none
    backups,               \* the backups by day, and when each file was written
    seen,                  \* observer: every observation of the cards that are in the slots
    facts                  \* observer: for each day, what had been seen of it by the GPUs that
                           \* were active, and whether it was over, when a cycle last had it due

vars == <<clock, active, raw, rollup, step, began, backups, seen, facts>>
database == <<raw, rollup, facts>>

Nothing == << >>
Over == 0
DayOf(t) == t \div Day
EndOf(d) == (d + 1) * Day
Of(d, observations) == {o \in observations : DayOf(o[2]) = d}

\* Mutant: raw rows are kept for a day less.
CutoffDayEarly(now) == now - (RawDays - 1) * Day

\* raw_interval_cutoff: a whole number of days before the cycle, not of calendar days.
RawCutoff(now) == now - RawDays * Day

\* run_maintenance: the clock is read once.
Begin ==
    /\ step = "wait"
    /\ step' = "data" /\ began' = clock
    /\ UNCHANGED <<clock, active, database, backups, seen>>

\* _refresh_daily_vram_rollups, the deletions and the weekly check, in one transaction:
\* a day nothing is left to average over keeps the average it has.
Due == DayOf(began) - RollupDays + 1 .. DayOf(began)
Before(d, observations) == {o \in Of(d, observations) : o[1] \in active /\ o[2] < began}
Averaged(d, observations) == [from |-> Before(d, observations), complete |-> began >= EndOf(d)]
Lasting(days) == {d \in days : d >= DayOf(began) - IndexDays}

RollUp ==
    /\ step = "data"
    /\ LET due == {d \in Due : Before(d, raw) # {}}
       IN  rollup' = [d \in Lasting(due \cup DOMAIN rollup) |->
                        IF d \in due THEN Averaged(d, raw) ELSE rollup[d]]
    /\ facts' = [d \in Lasting(Due \cup DOMAIN facts) |->
                    IF d \in Due THEN Averaged(d, seen) ELSE facts[d]]
    /\ raw' = {o \in raw : o[2] + 1 >= RawCutoff(began)}
    /\ step' = IF DayOf(began) \in DOMAIN backups THEN "prune" ELSE "copy"
    /\ UNCHANGED <<clock, active, began, backups, seen>>

\* The copy of the database under a temporary name, its checks, and its name; the store's
\* lock is held, which may take long.
Backup ==
    /\ step = "copy"
    /\ backups' = [d \in DOMAIN backups \cup {DayOf(began)} |-> IF d = DayOf(began) THEN clock ELSE backups[d]]
    /\ step' = "prune"
    /\ UNCHANGED <<clock, active, database, began, seen>>

\* Mutant: a cycle whose backup failed still removes what has expired.
GoesOn == "prune"

\* An exception ends the cycle; the worker notes it and waits for the next one.
AfterFailure == "wait"

\* A check of the database fails and the transaction is rolled back, or the copy fails
\* and its temporary file is removed.
Fail ==
    /\ step \in {"data", "copy"}
    /\ step' = AfterFailure
    /\ began' = IF AfterFailure = "wait" THEN Over ELSE began
    /\ UNCHANGED <<clock, active, database, backups, seen>>

\* Backups go by the age of their files; the cycle ends.
Prune ==
    /\ step = "prune"
    /\ backups' = Restrict(backups, {d \in DOMAIN backups : backups[d] >= began - BackupDays * Day})
    /\ step' = "wait" /\ began' = Over
    /\ UNCHANGED <<clock, active, database, seen>>

\* The process ends in the middle of a cycle and is started again some time later; what
\* is left of the temporary file is no backup and is removed before the next copy.
Crash ==
    /\ step # "wait"
    /\ step' = "wait" /\ began' = Over
    /\ UNCHANGED <<clock, active, database, backups, seen>>

\* A unit of time, longer than the removal of expired files takes, in which some of the
\* lab's GPUs are observed; while the store's lock is held, or the server is down, none can be.
Pass ==
    /\ clock < MaxTime /\ step # "prune"
    /\ clock' = clock + 1
    /\ \E gpus \in SUBSET active :
         /\ step = "copy" => gpus = {}
         /\ raw' = raw \cup (gpus \X {clock})
         /\ seen' = seen \cup (gpus \X {clock})
    /\ UNCHANGED <<active, rollup, facts, step, began, backups>>

\* A GPU leaves the host's report, or comes back.
Change ==
    /\ step # "copy"
    /\ \E g \in Gpus : active' = (active \ {g}) \cup ({g} \ active)
    /\ UNCHANGED <<clock, database, step, began, backups, seen>>

\* Another card answers for a slot: _update_gpu deletes every row of the one before, also
\* those of days that are due, and the slot is active with its first sample.
Swap ==
    /\ step # "copy"
    /\ \E g \in Gpus :
         /\ raw' = {o \in raw : o[1] # g}
         /\ seen' = {o \in seen : o[1] # g}
         /\ active' = active \cup {g}
    /\ UNCHANGED <<clock, rollup, facts, step, began, backups>>

Init ==
    /\ clock = 0 /\ active = Gpus
    /\ raw = {} /\ rollup = Nothing /\ seen = {} /\ facts = Nothing
    /\ step = "wait" /\ began = Over
    /\ backups = Nothing

Next == Begin \/ RollUp \/ Backup \/ Fail \/ Prune \/ Crash \/ Pass \/ Change \/ Swap

Spec == Init /\ [][Next]_vars

----
\* The deletion of rows by age never costs an average anything: the average of a day stands
\* for all that had been seen of it, by the cards then in the slots, when a cycle last had
\* it due. No later cycle, which finds some of the rows gone, replaces it by one over a part
\* of the day, and a day that was due after its end is complete. What a card swap deletes is
\* another matter: the days still due are averaged again without the old card's share.
DayFinal ==
    \A d \in DOMAIN facts :
        facts[d].from # {} => d \in DOMAIN rollup /\ rollup[d] = facts[d]

\* Once there is a backup there always is one, however many cycles fail and wherever they
\* are cut off: backups expire only in a cycle that has today's.
LastBackupKept == [][backups # Nothing => backups' # Nothing]_vars
====
