--------------------------- MODULE UsageAccounting ---------------------------
(***************************************************************************)
(* How server.py turns the samples of one GPU into recorded use: the       *)
(* gpu_runtime row, the gpu_usage_interval and gpu_capacity_interval       *)
(* tables, and the part of host_runtime that decides whether the time      *)
(* since the last sample may be counted.  All of it lives in the database  *)
(* and each observation is one transaction, so a crash or restart changes  *)
(* nothing here; the maintenance of the database deletes intervals that    *)
(* ended longer ago than they are kept, but never the sums of the row.     *)
(* Here the wall clock never goes back and every failure is stored;        *)
(* UsageDisturbed adds the steps where that is not so.                     *)
(*                                                                         *)
(* A process is the member of Processes that stands for one PID generation *)
(* (pid, start time and start identity); a reused PID is another member.   *)
(* A set of users stands for the "a, b" texts, the empty set for null.     *)
(***************************************************************************)
EXTENDS Integers, Sequences, FiniteSets

CONSTANTS
  Processes,      (* process generations that may run on the GPU           *)
  Owner,          (* Owner[p]: the user behind process p                   *)
  Untracked,      (* processes the probe cannot give a start identity      *)
  Memory,         (* amounts of memory in use, rounded to 16 MiB           *)
  NoRow,          (* what a select finds when there is no gpu_runtime row  *)
  UsageGap,       (* usage_gap_seconds                                     *)
  MergeSlack,     (* the 1.0 s within which two intervals are joined       *)
  Spacing,        (* least distance of two results of a host: a second and *)
                  (* the probe itself                                      *)
  Retention,      (* raw_interval_retention_days, as a time                *)
  MaxTime         (* bound: the clock stops here                           *)

ASSUME ProcessesAssumption == Untracked \subseteq Processes /\ DOMAIN Owner = Processes
ASSUME TimesAssumption     == /\ MergeSlack \in Nat /\ Spacing \in Nat
                              /\ UsageGap \in Nat /\ MaxTime \in Nat /\ Retention \in Nat
                              /\ MergeSlack < Spacing

VARIABLES
  clock,          (* now_ts(): the wall clock                              *)
  rest,           (* time since the last result of the host, up to Spacing *)
  host,           (* host_runtime: unknown (no row), observed, or failed   *)
  gpu,            (* the gpu_runtime row                                   *)
  usage,          (* gpu_usage_interval, in the order of id                *)
  capacity,       (* gpu_capacity_interval, in the order of id             *)
  (* Observers. *)
  lost,           (* instants between two samples that no one saw through  *)
  before,         (* the processes of the sample before the last one       *)
  cut,            (* intervals that ended before this have been deleted    *)
  gone            (* the instants that deleted intervals of the card       *)
                  (* covered: in capacity, in usage, in charged usage      *)

deletions == <<cut, gone>>
vars == <<clock, rest, host, gpu, usage, capacity, lost, before, deletions>>

Users    == {Owner[p] : p \in Processes}
Instants == 0 .. MaxTime
Span(from, to) == {t \in Instants : from <= t /\ t < to}

(* The processes of a sample, TRUE when the owner could be confirmed.      *)
Cohorts == UNION {[running -> BOOLEAN] : running \in SUBSET Processes}
Samples == {s \in [procs : Cohorts, busy : BOOLEAN, memory : Memory] :
              DOMAIN s.procs # {} => s.busy}

Rows == [seen : Int, busy : BOOLEAN, since : Int, procs : Cohorts,
         memory : Memory, last_user : SUBSET Users,
         observed_seconds : Nat, busy_seconds : Nat, user_seconds : Nat]

ASSUME RowAssumption == NoRow \notin Rows

UsageRows    == [from : Int, to : Int, users : SUBSET Users]
CapacityRows == [from : Int, to : Int, busy : BOOLEAN, memory : Memory]

TypeOK ==
  /\ clock \in Instants
  /\ rest \in 0 .. Spacing
  /\ host \in {"unknown", "observed", "failed"}
  /\ gpu = NoRow \/ gpu \in Rows
  /\ usage \in Seq(UsageRows)
  /\ capacity \in Seq(CapacityRows)
  /\ lost \subseteq Instants
  /\ before \subseteq Processes
  /\ cut \in Instants
  /\ gone \in [observed : SUBSET Instants, busy : SUBSET Instants, charged : SUBSET Instants]

NothingGone == [observed |-> {}, busy |-> {}, charged |-> {}]

Init ==
  /\ clock     = 0
  /\ rest      = Spacing
  /\ host      = "unknown"
  /\ gpu       = NoRow
  /\ usage     = <<>>
  /\ capacity  = <<>>
  /\ lost      = {}
  /\ before    = {}
  /\ cut       = 0
  /\ gone      = NothingGone

-------------------------------------------------------------------------------
(* Whose processes they are.                                               *)

Confirmed(procs)    == {Owner[p] : p \in {q \in DOMAIN procs : procs[q]}}

(* Mutant: the known members answer for the whole cohort.                  *)
AttributableToKnown(procs) == Confirmed(procs)
Attributable(procs) == IF \A p \in DOMAIN procs : procs[p] THEN Confirmed(procs) ELSE {}

SameCohort(old, new) ==
  /\ DOMAIN old = DOMAIN new
  /\ DOMAIN new # {}
  /\ DOMAIN new \intersect Untracked = {}

(* An owner that was confirmed stays confirmed for the same generation.    *)
CarryOwners(old, new) ==
  [p \in DOMAIN new |-> new[p] \/ (p \in DOMAIN old \ Untracked /\ old[p])]

(* last_user of a GPU that was busy and still is.                          *)
KeepsGrace(old, new, shown) == DOMAIN new = {}                   \* a mutant
Grace(old, new, shown) == DOMAIN new = {} /\ Confirmed(old) # {} /\ shown # {}
OwnerStillBusy(old, new, shown) ==
  IF Confirmed(new) # {} THEN Confirmed(new)
  ELSE IF SameCohort(old, new) \/ Grace(old, new, shown) THEN shown
  ELSE {}

-------------------------------------------------------------------------------
(* The interval tables.                                                    *)

(* order by end_ts desc, id desc limit 1                                   *)
Latest(table) ==
  CHOOSE i \in DOMAIN table :
    \A j \in DOMAIN table : \/ table[j].to < table[i].to
                            \/ table[j].to = table[i].to /\ j <= i

Near(from, to) == from - to <= MergeSlack /\ to - from <= MergeSlack

RecordCapacityOfAnyState(table, new) ==                          \* a mutant
  LET last == Latest(table)
  IN  IF new.to <= new.from THEN table
      ELSE IF table # <<>> /\ Near(table[last].to, new.from)
           THEN [table EXCEPT ![last].to = new.to]
           ELSE Append(table, new)

(* Extend the latest row when it says the same of a period that ends where *)
(* this one starts, and add a row otherwise.  A period that is empty, or   *)
(* whose row is there already, adds nothing.                               *)
RecordCapacity(table, new) ==
  LET last == Latest(table)
  IN  IF new.to <= new.from THEN table
      ELSE IF /\ table # <<>>
              /\ table[last].busy = new.busy /\ table[last].memory = new.memory
              /\ Near(table[last].to, new.from)
           THEN [table EXCEPT ![last].to = new.to]
           ELSE Append(table, new)

(* Mutant: the latest row is extended whoever it belongs to.               *)
RecordBusyOfAnyone(table, new) ==
  LET last == Latest(table)
  IN  IF new.to <= new.from \/ \E i \in DOMAIN table : table[i] = new THEN table
      ELSE IF table # <<>> /\ Near(table[last].to, new.from)
           THEN [table EXCEPT ![last].to = new.to]
           ELSE Append(table, new)
RecordBusy(table, new) ==
  LET last == Latest(table)
  IN  IF new.to <= new.from \/ \E i \in DOMAIN table : table[i] = new THEN table
      ELSE IF /\ table # <<>>
              /\ table[last].users = new.users
              /\ Near(table[last].to, new.from)
           THEN [table EXCEPT ![last].to = new.to]
           ELSE Append(table, new)

-------------------------------------------------------------------------------
(* One observation: apply_host_payload and _update_gpu.                    *)

(* The first row of a GPU, or of the card that has replaced it.            *)
FirstRow(s) ==
  [seen |-> clock, busy |-> s.busy, since |-> clock, procs |-> s.procs,
   memory |-> s.memory,
   last_user |-> IF s.busy THEN Confirmed(s.procs) ELSE {},
   observed_seconds |-> 0, busy_seconds |-> 0, user_seconds |-> 0]

ElapsedSwapped == gpu.seen - clock                               \* a mutant
Elapsed == IF clock > gpu.seen THEN clock - gpu.seen ELSE 0

(* max_observation_gap_seconds: nothing may be counted after a retry or    *)
(* when host_runtime tells of a failure.  Mutant: a recovered retry counts. *)
GapLimitDespiteRetry(retried) == IF host = "failed" THEN 0 ELSE UsageGap
GapLimit(retried) == IF retried \/ host = "failed" THEN 0 ELSE UsageGap

(* What really happened in the period, whatever the code makes of it:      *)
(* nobody saw it through when an attempt failed in it or it was too long.  *)
Unseen(retried) == retried \/ host = "failed" \/ clock - gpu.seen > UsageGap

(* Mutant: the duration shown restarts only on a transition.               *)
SinceLastTransition(s, counted) == IF s.busy = gpu.busy THEN gpu.since ELSE clock
Since(s, counted) == IF counted /\ s.busy = gpu.busy THEN gpu.since ELSE clock

LastUser(s, procs, counted) ==
  CASE s.busy /\ ~gpu.busy -> Confirmed(procs)
    [] ~s.busy             -> gpu.last_user
    [] OTHER -> OwnerStillBusy(gpu.procs, procs,
                               IF counted THEN gpu.last_user ELSE Confirmed(procs))

(* The row after a sample; counted tells whether the period since the last *)
(* one is within the limit.                                                *)
NextRow(s, counted) ==
  LET procs == IF s.busy THEN CarryOwners(gpu.procs, s.procs) ELSE s.procs
      add   == IF counted THEN Elapsed ELSE 0
      charge == IF gpu.busy /\ Attributable(gpu.procs) # {} THEN add ELSE 0
  IN  [seen |-> clock, busy |-> s.busy, since |-> Since(s, counted), procs |-> procs,
       memory |-> s.memory, last_user |-> LastUser(s, procs, counted),
       observed_seconds |-> gpu.observed_seconds + add,
       busy_seconds |-> gpu.busy_seconds + (IF gpu.busy THEN add ELSE 0),
       user_seconds |-> gpu.user_seconds + charge]

(* The period is judged by what its first sample saw.                      *)
CapacityRowSince ==                                              \* a mutant
  [from |-> gpu.since, to |-> clock, busy |-> gpu.busy, memory |-> gpu.memory]
CapacityRow == [from |-> gpu.seen, to |-> clock, busy |-> gpu.busy, memory |-> gpu.memory]
UsageRow    == [from |-> gpu.seen, to |-> clock, users |-> Attributable(gpu.procs)]

ObserveFirst(s) ==
  /\ gpu = NoRow
  /\ gpu'    = FirstRow(s)
  /\ before' = {}
  /\ UNCHANGED <<usage, capacity, lost, gone>>

ObserveSwapped(s) ==
  /\ gpu # NoRow
  /\ gpu'      = FirstRow(s)
  /\ usage'    = <<>>
  /\ capacity' = <<>>
  /\ before'   = {}
  /\ lost'     = lost \union Span(gpu.seen, clock)
  /\ gone'     = NothingGone

ObserveAgain(s, retried) ==
  LET counted == Elapsed <= GapLimit(retried)
  IN
  /\ gpu # NoRow
  /\ gpu'      = NextRow(s, counted)
  /\ capacity' = IF counted THEN RecordCapacity(capacity, CapacityRow) ELSE capacity
  /\ usage'    = IF counted /\ gpu.busy THEN RecordBusy(usage, UsageRow) ELSE usage
  /\ before'   = DOMAIN gpu.procs
  /\ lost'     = IF Unseen(retried) THEN lost \union Span(gpu.seen, clock) ELSE lost
  /\ gone'     = gone

(* A complete, valid payload of the host is handled.                       *)
Observe ==
  /\ rest = Spacing
  /\ \E s \in Samples, retried \in BOOLEAN :
       ObserveFirst(s) \/ ObserveSwapped(s) \/ ObserveAgain(s, retried)
  /\ host' = "observed"
  /\ rest' = 0
  /\ UNCHANGED <<clock, cut>>

LostSince == IF gpu = NoRow THEN {} ELSE Span(gpu.seen, clock)

(* A probe fails and the row says so; the tick then sets the next deadline. *)
Fail ==
  /\ rest = Spacing
  /\ host' = "failed"
  /\ rest' = 0
  /\ lost' = lost \union LostSince
  /\ UNCHANGED <<clock, gpu, usage, capacity, before, deletions>>

Advance ==
  /\ clock < MaxTime
  /\ clock' = clock + 1
  /\ rest'  = IF rest < Spacing THEN rest + 1 ELSE rest
  /\ UNCHANGED <<host, gpu, usage, capacity, lost, before, deletions>>

-------------------------------------------------------------------------------
(* The maintenance of the database, as far as it touches the two tables.   *)

(* The instants that some rows of a table stand for.                       *)
CoveredBy(table, rows) == UNION {Span(table[i].from, table[i].to) : i \in rows}
Covered(table) == CoveredBy(table, DOMAIN table)
Charged(rows)  == {i \in rows : usage[i].users # {}}

ExpiredInPart(row, cutoff) == row.from < cutoff                  \* a mutant
Expired(row, cutoff) == row.to < cutoff

(* The first n rows, and no others, have expired: ends grow with the id.   *)
ExpiredRows(table, n, cutoff) ==
  /\ n \in 0 .. Len(table)
  /\ \A i \in DOMAIN table : i <= n <=> Expired(table[i], cutoff)

(* run_maintenance deletes the rows that have expired, the row of the GPU  *)
(* with its sums stays as it is.  It reads the clock and then waits for    *)
(* its transaction, which may begin any time later; one that finds nothing *)
(* to delete is a stutter.                                                 *)
Forget ==
  \E cutoff \in cut + 1 .. clock - Retention,
     u \in 0 .. Len(usage), c \in 0 .. Len(capacity) :
       /\ cut' = cutoff
       /\ u + c > 0
       /\ ExpiredRows(usage, u, cutoff)
       /\ ExpiredRows(capacity, c, cutoff)
       /\ usage'    = SubSeq(usage, u + 1, Len(usage))
       /\ capacity' = SubSeq(capacity, c + 1, Len(capacity))
       /\ gone'     = [observed |-> gone.observed \union CoveredBy(capacity, 1 .. c),
                       busy     |-> gone.busy \union CoveredBy(usage, 1 .. u),
                       charged  |-> gone.charged \union CoveredBy(usage, Charged(1 .. u))]
       /\ UNCHANGED <<clock, rest, host, gpu, lost, before>>

Next == Observe \/ Fail \/ Advance \/ Forget

Spec == Init /\ [][Next]_vars

-------------------------------------------------------------------------------
(* Safety.                                                                 *)

(* The time for which the tables must be complete.  A row that began       *)
(* before may still be there in one table and not in the other.            *)
Kept == {t \in Instants : t >= cut}

RowsAs(busy) == {i \in DOMAIN capacity : capacity[i].busy = busy}

Disjoint(table) ==
  \A i, j \in DOMAIN table :
    i # j => table[i].to <= table[j].from \/ table[j].to <= table[i].from

(* Busy time is never counted twice (README.md:85): no two intervals of    *)
(* the GPU overlap in either table, whatever is extended, added or wiped.  *)
IntervalsDisjoint == Disjoint(usage) /\ Disjoint(capacity)

(* The two tables agree for as long as rows are kept, although each joins  *)
(* and loses rows of its own: a GPU is charged for exactly the instants at *)
(* which its capacity is recorded as busy.                                 *)
UsageIsBusyCapacity ==
  Kept \intersect Covered(usage) = Kept \intersect CoveredBy(capacity, RowsAs(TRUE))

(* Time lost to a failure is never filled in as use (README.md:93), nor is *)
(* a period that was too long to count or that a retry ended.              *)
LostNeverFilled == lost \intersect Covered(capacity) = {}

(* The running totals of the row and the tables tell the same story: each  *)
(* counts the seconds that its rows stand for, those that were deleted     *)
(* when they were old included, and counts every second once.              *)
TotalsMatch ==
  gpu # NoRow =>
    /\ gpu.observed_seconds = Cardinality(Covered(capacity) \union gone.observed)
    /\ gpu.busy_seconds = Cardinality(Covered(usage) \union gone.busy)
    /\ gpu.user_seconds =
         Cardinality(CoveredBy(usage, Charged(DOMAIN usage)) \union gone.charged)

(* "Busy for" and "free for" are never claimed across time nobody saw:     *)
(* every instant since then of which rows are kept is recorded, in the     *)
(* state that is shown.                                                    *)
DurationsProven ==
  gpu # NoRow =>
    Kept \intersect Span(gpu.since, gpu.seen) \subseteq CoveredBy(capacity, RowsAs(gpu.busy))

(* Time is charged to everybody who had a process on the GPU or, when one   *)
(* of the processes has no confirmed owner, to nobody: the known members   *)
(* of a cohort never pay for the unknown ones.                             *)
ChargedToAllOrNobody ==
  [][cut' = cut /\ usage' \notin {usage, <<>>} =>
       usage'[Len(usage')].users \in {{}, {Owner[p] : p \in DOMAIN gpu.procs}}]_vars

(* The user a busy GPU shows owns a process of the current sample or, for  *)
(* one sample while the GPU drains, of the one before.                     *)
OwnerIsCurrent ==
  gpu # NoRow /\ gpu.busy =>
    gpu.last_user \subseteq {Owner[p] : p \in DOMAIN gpu.procs \union before}

-------------------------------------------------------------------------------
(* The ledger: what the tables say of an instant is said once and for all, *)
(* until its rows need not be kept any longer.                             *)

Holds(table, t) == \E i \in DOMAIN table : table[i].from <= t /\ t < table[i].to

Verdict(t) ==
  CASE t < cut -> "forgotten"
    [] t >= cut /\ Holds(usage, t) -> "busy"
    [] t >= cut /\ ~Holds(usage, t) /\ Holds(capacity, t) -> "free"
    [] t >= cut /\ ~Holds(usage, t) /\ ~Holds(capacity, t) /\ t \in lost -> "lost"
    [] OTHER -> "blank"

Ledger == INSTANCE GpuLedger WITH verdict <- [t \in Instants |-> Verdict(t)]
LedgerSpec == Ledger!Spec

===============================================================================
