# A verification project for GPU Watch

GPU Watch is a dashboard for a laboratory's GPU servers: a Python process
(`server.py`) probes every server over SSH, keeps what it sees in SQLite and
serves a page (`static/app.js`). This directory holds TLA+ models of the parts
whose correctness depends on order, time and failure, the TLC configurations
that check them, and TLAPS proofs of the properties that matter most.

Line numbers refer to the files of the repository.

## 1. Inventory

| Component | State | Operations | Talks to |
|---|---|---|---|
| **Collector** (`server.py:4536-4997`, `gpu_watch/collection.py`) | futures by host, `host_failures`, `host_next_probe_at`, `last_disk_probe_by_host`, `stop_event`, `running_processes` | `start`, `run`/`collect_tick`, probe workers, `handle_payload`, `stop` | ssh processes; Store |
| **Store, observation** (`3748-4121`, `3150-3267`) | `host_runtime`, `gpu_runtime`, `gpu_usage_interval`, `gpu_capacity_interval`, `events` | `mark_host`, `apply_host_payload`, `update_disk` | Collector; queries |
| **Announcements** (`3269-3522`, handlers `5738-5798`, `5844-5875`) | `announcements`, the two failure counters, `AUTH_ATTEMPT_SEMAPHORE` | add, update, delete | HTTP handler threads |
| **Deadlines** (`3525-3746`) | one JSON setting | update, delete, listing | admin passphrase |
| **HTTP server, limits** (`5304-5922`, `gpu_watch/security.py`) | connection slots, sliding windows, the in-memory admin hash | `do_GET`, `do_POST`, `do_DELETE`, `admin_allowed` | everything above |
| **Intelligence index** (`gpu_watch/artificial_analysis.py`, `api_quota.py`) | published list, quota file, scheduler | refresh, reserve, schedule, stop | provider's API |
| **Maintenance** (`gpu_watch/maintenance.py`, `server.py:1867-2697`) | rollups, backups, schema version | daily run, migrations at start | Store |
| **Queries** (`4123-4533`, `2762-2928`) | none | snapshot, events, insights | Store |
| **Remote probe** (script in `server.py:254-1256`, `_communicate_bounded` 124-238) | one process with two pipes | run, bound, kill | GPU servers |
| **Frontend** (`static/app.js`) | request generations, dialogs, filters | load, refresh, switch lab, dialogs | HTTP API |
| **Deployment** (`deploy.sh`, `scripts/`) | containers, runtime SSH files, backups, lock | deploy, rollback, restore | Docker |

Interaction: the scheduler thread is the only one that handles payloads; probe
workers only fill futures. HTTP handlers are threads of their own and meet the
scheduler at `Store.lock` and in the database. The main thread runs `stop`. The
process may die at any moment and is started again on the same database.

What is hard, component by component, and what makes it correct:

- *Collector*: a stop in the middle of anything; writes that fail half way
  through a tick; few workers for many hosts; restarts. Correct when the log
  tells the status of every host exactly once, nothing a stop causes is taken
  for news, no ssh process survives, and every host keeps being probed at the
  rate its backoff allows.
- *Observation*: gaps, failures, retries, swapped cards, processes with unknown
  owners, rows that are deleted when they are old. Correct when no instant is
  counted twice or filled in after a loss, the tables, totals and durations agree
  and nobody pays for somebody else.
- *Announcements*: long hashing between look and write. Correct when the cap
  holds, a write replaces only what its request was checked against, and
  nothing that is gone returns.
- *Intelligence index*: a provider that counts requests, pauses us and changes
  its list between pages; lost answers; crashes between counting and sending.
  Correct when the list shown is one complete list, the budget and the pauses
  are kept across restarts, and no failure ends the refreshing for good.
- *Limits*: check and record are apart, one table serves windows of different
  length and forgets keys when it grows. Correct when windows hold and every
  permit comes back.
- *Deadlines and the passphrase*: rows of older versions, a repair that only
  happens on reading, a hash that lives in memory and in a file. Correct when
  timers keep their identity and a rotated passphrase stays rotated.
- *Maintenance*: deletions by the hour, averages by the day, cycles that are cut
  off. Correct when deleting old rows costs no average anything and a backup
  remains.
- *Process runner*: a child that may do anything. Correct when the answer comes
  in time and is true.
- *Frontend, deployment*: not modelled; the hazards of all parts, at their lines,
  are listed in `PROJECT.json`.

## 2. What is modelled

### Collector (`Collector.tla`, over `HostAvailability.tla`)

One action per step of a thread, at the granularity at which other threads can
interfere. The scheduler is `BeginTick`, `CollectDisk`/`DisksCollected`
(`collect_finished_disk_probes`, one future at a time), `Drain` and `Apply`
(one future of the drain loop, up to and after `consume_gpu_result`'s look at
`stop_event`), `Drained`, `Schedule`, `Stagger`, `ExitThread`. A worker is
`Launch` (the section under `process_lock`), `Finish` (the process is over),
`Retry`. `SetStop`, `TerminateAll` and `ClosePools` are `Collector.stop`.
`Restart` is a crash, or an exit after a stop, followed by `start`; the rows of
the database survive it, memory does not.

`ApplyFailure` follows every way a failure can be stored or not:
`handle_payload` counts in memory, sets the backoff and only then writes; when
the write raises, `consume_gpu_result` handles an error payload again (it counts
twice) and the exception of the second write ends the tick, so the deadline the
loop would have set is not set and the remaining futures wait for the next tick.

Abstractions. What a probe says is one of: good, invalid, error, transient
error. Time is relative, in units of the scheduler's one-second floor; deadlines
are compared only with now and with each other, so passed deadlines keep only
their order (`Later`). A disk probe is pending or done: its outcome touches
`host_disk` only. The audit log and the texts of errors are left out.

`HostAvailability` is what the dashboard promises of a host: unknown, then UP or
DOWN, with a log that alternates. `AvailabilitySpec` says Collector implements
it, restarts included.

### Usage accounting (`UsageAccounting.tla`, over `GpuLedger.tla`)

One GPU. `Observe` is `apply_host_payload` with `_update_gpu` on a complete,
valid payload: the first row, a swapped card (`ObserveSwapped`) or another
sample (`ObserveAgain`), with the gap limit of a retry or a failed host, both
interval tables, running totals, the carried owners and the displayed user.
`Fail` is `mark_host(False)`. Everything lives in the database and each
observation is one transaction, so a crash is a step that changes nothing.
`Forget` is the part of `run_maintenance` that deletes rows of both tables whose
end is older than `raw_interval_retention_days` (`server.py:2591-2598`): row by
row, so that a long joined row may outlive those of the other table under it,
and without touching the totals or `since`.

A unit of time is the merge tolerance of 1.0 s. Two results of one host are
more than 1.0 s apart: the next deadline is at least `now + 1.0`
(`server.py:4636`) and a probe takes time of its own; hence `Spacing = 2`. The
same is assumed of a restart, which takes longer than a second.

`lost` is an observer: the instants between two samples that must not be filled
in, because a probe failed meanwhile, the gap was too long, a retry ended it or
the card was swapped. `Unseen` judges by what happened, not by the limit the code
computes, so that a wrong limit shows. `GpuLedger` is the meaning of the tables: every instant
gets at most one verdict (free, busy, lost) and keeps it, except that a swap
wipes what was claimed of the old card and never a loss, and that the oldest
verdicts are forgotten.

Two more observers follow the deletions. `cut` is the last cutoff: the tables must
be complete from there on (`Kept`), and `UsageIsBusyCapacity`, `DurationsProven`
and the ledger speak of that time only; what is older may still be in one table
and not in the other. `gone` holds the instants that deleted rows of this card
covered: the running totals count them still (`TotalsMatch`), so past the
retention they are more than the tables hold.

Abstractions. A process stands for one PID generation; a sample says which run,
and of which the owner is confirmed. A process in `Untracked` has no start
identity. Memory is a value after rounding to 16 MiB. Shares per user are not
kept apart: `user_seconds` is their sum. GPU events are not modelled.

The totals are compared with the number of instants the tables cover or covered
(`TotalsMatch`): a running sum agrees with it only if every second was counted
once. The owner of a process generation is fixed (`Owner`), so that a name carried
over to the wrong generation would not show.

`UsageDisturbed.tla` adds two disturbances the code meets: the wall clock is set
back (`StepBack`), and a failure cannot be stored (`FailUnstored`).

### Announcements (`Announcements.tla`)

Every handler is a thread that passes the failure budget (`Check`), takes the
attempt semaphore and the time (`Enter`, `EnterAdd`, `TurnAway`), looks at the
table (`Count`, `Read`), hashes without the lock, and writes (`Insert`,
`Commit`); or it is refused (`Deny`, then `RecordScope` and `RecordGlobal` one
after the other, after the semaphore is released) or fails otherwise (`Reject`).
`version` counts the contents of a notice and is not in the table: it is what
`updated_ts` must stand for. Every request reads a time of its own.

Abstractions. Texts are left out, a notice is its expiry. Whether a passphrase is
right is a free choice. Failures are never forgotten: the model covers one hour,
the window of the limiter. Per-action request limits are left out; they only
make requests fewer.

### Intelligence index (`IntelligenceIndex.tla`)

One refresh thread, which `Claim` (`refresh_if_due`, by the scheduler or a
reader) lets in when none is there and one is due. It is `ReadKey`, `FetchAll`
(the preflight against the quota), `Ask` (`_read_page` up to the request:
checked, counted, saved, sent), the provider's `Serves`, `Refuses` or the network's
`Loses`, `Receive` (headers saved, page validated, loop continued), `Persist`,
`Publish`, or on a failure `TryAgain` or `GiveUp`. `Crash` may come at every step;
`Restart` reads both files as `__init__` does. `ApiQuota` is a record in memory
and one on disk. The model's provider serves a fixed window, and changes its
list between two pages only while `broken`, which also governs failing saves,
keys and threads.

Times are distances from now, in units of at least a minute, and distances the
code cannot tell apart are clipped, so the clock runs on for ever. Only waiting
for an appointment or an answer takes a unit; every other step is shorter. Files that
were written are readable at a restart (`os.replace` of a complete file).

Three observers: `asked` is how long the provider still wants us to be quiet,
set by every answer that carries `Retry-After`; `missed` says that such a pause
cannot be kept any more; `forgot` counts the requests of the provider's window that our own clock forgot
when it started a window before the provider did (`_roll_window`). That is the
exception in `ReserveCovers`: `README.md:230`, "Each request is counted before it is
sent, so a restart or a network error never makes the server think it has requests
left", is not true beyond it: when answers were lost around the end of a window the
count may start again too early, and then only the reserve covers the difference.

`RetryAfterKept` has an exception as well, `missed`. The handler of an HTTP error
saves the quota (`artificial_analysis.py:342`) before it reads `Retry-After` (347).
When that save raises, its exception replaces the one that would have carried the
pause, and the code asks again after `FailureRetry`, an hour: where `README.md:225`
and `227` promise to wait for the requested time, it does not (`Receive`, last
disjunct). A crash between the answer and the saved appointment loses the pause
too. Pauses of more than a day are cut to a day by the code (line 321); the
model's provider asks for no pause or a day. Last, a provider whose budget is
below the 20 pages assumed before the first answer, plus the reserve, would be
postponed for ever. The run keeps `Limit >= MaxPages + Margin`.

### Limits (`RequestLimits.tla`)

A thread is accepted with a slot (`Accept`, `StartFails`, `Answer`), reads
(`Read`) or changes (`Change`, `Budget`, `Acquire`, `Verify`, `Failed`). Each call of
the limiter is a step of its own under its lock, except in `Budget`, where the
checks of both failure limits (`server.py:5473`, `5478`) are one: between them
counts could only grow, and the thread is one of those the bound allows for
anyway. Timestamps are ages, so `Tick` makes
them older. `Pruned` drops keys by the window of the caller, as the code does:
therefore `WindowHeld` speaks of the longer windows only while no key was
dropped (`dropped`), and of the shortest, the reads', always. Failures are counted
after the answer, so up to `Slots - 1` may come on top of the limit.

### Deadlines and the passphrase (`Deadlines.tla`)

`Usable` is the repair every reader makes of the stored items (identifier, tone,
at most as many as tones), `FromLegacy` the fallback, `Loaded` both;
`Migrate` is the palette migration with `_prune_obsolete_metadata`, in the
transaction of `Start`. `Create`, `Update` and `Delete` load, change and store under
the lock, so each is one action (`Act`). The repaired items reach the row only with
the next change. `Admit`, `Upgrade` and `Adopt` are `admin_allowed`, at the points where the
hash file and the hash in memory change; `Rotate` and `Ensure` are the operator's script,
which does not talk to the server.

`RotationKept` has one exception, `lateRotate`: when the server holds an old hash,
or is about to upgrade one, and the operator rotates, a request with the former
passphrase writes it back. Until the restart the server accepts the former
passphrase in any case. An older passphrase that is not four digits (`Long`)
verifies, but its upgrade raises: every administrator request is answered 400.
Left out: wrong passphrases and exhausted budgets (they change nothing here) and
`GPU_WATCH_ADMIN_PIN_HASH`.

### Maintenance (`Maintenance.tla`)

`Begin` reads the clock; `RollUp` is the transaction that averages, deletes and
checks; `Backup` the verified copy, under the lock; `Prune` the removal of expired
backups; `Fail` and `Crash` end a cycle early. `Pass` is a unit of time in which
some of the active GPUs are observed, which cannot be while the copy holds the
lock. An average is identified with the observations it was taken from. A crash and the
time until the restart are a cycle cut off: the rows do not change. `Change` lets a
GPU leave the host's report or return, `Swap` puts another card into its slot, which
deletes all rows of the slot (`server.py:3811-3818`), those of days still due
included. Either way the next cycle averages the due days again over what is left
and overwrites what was stored: a stored average may lose a card's share as long as
its day is due. `seen` records what was observed of the cards that are in the
slots, whatever was deleted by age, and `facts` what of it each cycle should have
found: `DayFinal` says that it found all of it, and that nothing deleted by age
later changes what it stored. A cycle that comes after more than the
retention deletes rows of days that no cycle ever averaged; this is listed as a
hazard. Retention of events and notices, which nothing reads back, is left out.
Restarting the hourly timer is not modelled: cycles begin at any time.

### Process runner (`ProbeRunner.tla`)

The two readers and the calling thread of `_communicate_bounded`, step by step,
against a child that writes, ignores signals and ends as it likes and may leave
a descendant with its pipes (`End`, `Close`). The unit of time is the half second of
the stop's grace. `stream.read` of a buffered pipe waits for a whole chunk or the end, so
a descendant that keeps a pipe open makes the caller return what was read
before, even nothing, as the output of a child that ended: `Outcome` allows a
partial output in exactly this case and after a failed read of an ended child. The bound is
the timeout and four seconds: two waits for the child and two joins. This is
the assumption of the collector's fairness that every probe ends.

## 3. Runs

| Run | Module, bounds | Shows |
|---|---|---|
| `collector_safety` | 2 hosts, 1 worker, poll 2, backoff up to 3, counters to 4, 1 restart, slow scheduler allowed | type, log, counters, pool, silence of a stop, no late process, backoff, refinement of `HostAvailability` |
| `collector_live` | 2 hosts, 1 worker, poll 1, backoff 1, no restart | every host is probed for ever; a stop completes |
| `collector_disk` | 1 host, disk interval 3, prompt scheduler | disk usage is refreshed although GPU probes fail |
| `usage` | 8 instants, gap 3, tolerance 1, spacing 2, rows kept for 3, a tracked and an untracked process, 2 amounts of memory | tables disjoint and consistent, losses final, totals, durations, owners, refinement of `GpuLedger`, across the deletion of old rows |
| `usage_clock_set_back` | as above, rows kept for good, one process, the clock goes back once | **violated**: intervals overlap |
| `usage_failure_unstored` | as above, one failure that is not stored | **violated**: lost time is filled in |
| `intelligence_index` | window 3, limit 4, 2 pages, 2 attempts, 4 lists: one, its rows moved over the page boundary with a changed score, a new version, that version on one page | complete lists, budget, pauses (unless `missed`), restart, and for ever new lists once nothing fails |
| `request_limits` | 3 threads, 2 slots, 1 permit, 1 client, windows 1, 2, 3, limits 1 and 2, capacity 3 of 4 keys | permits return, windows hold |
| `deadlines` | 2 threads, 2 four-digit passphrases and a long one, 3 tones, 2 instants, 6 rows with 4 fallbacks, 1 created timer | timers keep identity, tone and instant; rotations stay |
| `maintenance` | 1 GPU, days of 3 units, 2 days rolled up and kept, backups for 1 day, 8 units, the GPU may leave, return and be swapped | deleting by age costs no average anything, a backup remains |
| `probe_runner` | timeout 3, limit 3 half chunks, 3 written to a pipe | true answers in time |
| `announcements` | 3 handlers, 2 networks, cap 2, 2 slots, limits 1 and 2, 6 times | cap, budget, no resurrection, no blind write |

Why the bounds are enough. Two hosts on one worker already compete for it, wait
in each other's way and are cancelled while queued; three failures reach the
backoff, and `FailureCap` saturates only where the backoff is constant
(`CapAssumption`). Eight instants hold four samples at spacing 2, enough for two
intervals, a period between them that is joined, skipped or lost, and one more;
the gap of 3 lies between one and two spacings. Rows are kept for as long as the
longest gap that is counted (in the code for eight days and more, with gaps of a
day at most), so that rows go while others are joined; memory amounts are only
compared, hence symmetric. Two handlers hash at once
(`AUTH_ATTEMPT_SEMAPHORE` is 2), and a third waits at the budget; a cap of two
can be raced for by two requests with one place left. Two pages are the least
that can disagree, four requests a window fit one complete refresh with the
reserve and leave one over, and two attempts hold a retry and a last one. Three
threads on two slots and one permit compete for both; four keys on a capacity of
three reach the pruning. The six rows of `deadlines` hold what the repair
distinguishes: no row, no JSON, an empty list, only unusable items, repeated and
malformed identifiers and tones, more items than tones. Eight units of three a day
hold three days, so that a day is due, partly deleted and due no more. A limit of
three half chunks is exceeded by one pipe or by both together, and met exactly. The theorems
carry the main results to every value.

Deadlock is checked in every run but `usage`, `usage_*` and `announcements`,
whose clocks end at a bound. The process runner ends in `Done`, an answer; anything else
in which nothing can happen would be a worker that hangs.

Fairness (`Collector!Fairness`). The scheduler thread, each worker, the stopper
once it has begun, and time are weakly fair: they are threads of the operating
system that nothing blocks for ever, and every ssh process ends because
`_communicate_bounded` bounds it and kills it. Nothing makes a stop or a restart
happen, a probe succeed, or a write succeed. `DiskProbedForever` also needs
`Prompt`: a pass of the scheduler in every second, as `run` intends. Without it
a poll interval of one pass keeps the host in flight whenever disk work is
staggered; this is listed as a hazard.

`IntelligenceIndex` assumes that the refresh thread goes on, that the provider or
the operating system's timeout answers a request, that the process is started
again and that time passes. Nothing makes the surroundings heal: `Refreshes` only speaks
of behaviours in which `broken` ends for good. The models not named here state safety only.

Findings. Two disagreements need no run, since the checked properties name them as
their exceptions: `missed` and `forgot` of the intelligence index (section 2). The
two violated runs contradict `README.md:85` ("busy time is never
counted twice", and `scripts/audit-data.py:41`, which counts overlaps as a
failure) and `README.md:93` ("Time lost to a failure is never filled in as
use"). Both need a disturbance: a wall clock that is set back, a database that
refuses two writes in a row. Without them the properties hold, and are proved.

## 4. Proofs

Checked with tlapm; no assumption but the named ones on the constants.

`Collector_proofs.tla` proves every safety property of the collector, for any
number of hosts and workers and any times: `TypeOK`, `ShutdownIsSilent`,
`NoLateProcess`, `BackoffRespected`, `EventsAlternate`, `CountersAgree`,
`PoolBounded`, and that the collector implements `HostAvailability`. The
invariant has three parts beside the types. `StopKnown`: stop() has begun exactly
when the event is set, and nothing was terminated before; hence what is accepted
under `~stop_event` was not brought about by a stop. `HandedOver`: a result that
is being applied belongs to no future any more, and a process to a future whose
worker waits for it; hence a process that is terminated later is not one whose
result is in hand. `BackoffAhead`: while `quiet` is short of the backoff the
deadline lies ahead by at least the rest, which holds although a tick moves
deadlines, a dropped result only delays them, and the write of the failure may
raise after the backoff was set. The rows need no history: only `ApplySuccess`
and `ApplyFailure` write them (`RowFacts`), and `_mark_host` decides by the row it
replaces (`MarkFacts`).

`UsageAccounting_proofs.tla` proves every property of the `usage` run, for every
set of processes, gap, spacing and clock. Disjointness is not inductive: the
invariant `Inv` says that both tables are ordered by time, that every row ends no
later than the last sample, and that lost instants lie outside all rows; then
the latest row is the last one, extending or appending keeps the order, and the
joined second is never one that was lost, because `MergeSlack < Spacing`
(`TimesAssumption`). On it rests a second invariant, `Books`. `TablesAgree`:
the usage table covers an instant exactly when the capacity table calls it busy.
`SinceRecorded`: everything from `since` to the last sample, as far as rows are kept,
is covered by capacity rows in the state of the row. `OwnerNow`: the displayed users come from the processes
of this sample, or of the one before when nothing runs any more. `TotalsMatch`.
`PeriodHeld` is what all of it needs of a sample: whichever way the code takes
(extend, append, join, skip), exactly the counted period is added to each table.
The totals need no sum over rows: the counted period is disjoint from what is
covered, or was before it was deleted (`GonePast`), so the cardinalities add. What
the maintenance deletes are the first rows of an ordered table (`Shortened`); what is
left says the same of every instant from the cutoff on (`ShortenedHolds`), and
together with what went it covers what the table did (`ShortenedCovers`). The same lemma gives the refinement of
`GpuLedger` (`LedgerImplemented`): a sample decides instants that had no verdict, a
failure loses them, a swap wipes claims, the maintenance forgets the oldest, and time
alone changes nothing.

`Announcements_proofs.tla` proves, for any number of handlers, slots, notices and
limits, `TypeOK`, `CapRespected`, `NoResurrection`, `NoBlindWrite` and
`FailuresBounded`. The invariant says that timestamps lie in the past and are
unique among requests in progress, contents and stamps read, so that a stamp
identifies the contents a reader saw. The cap needs no induction over handlers:
what is active now was active at the request's earlier time, hence counted. The
budget counts the handlers whose failure may still be recorded (`Passed`).

`IntelligenceIndex_proofs.tla` proves, for any window, limit, intervals and
lists, `ReserveCovers`, `OneSnapshot`, `CacheKept` and `RetryAfterKept`. `Counted`
says that neither memory nor a file that a restart would believe (`Believed`)
counts more than the provider has left, but for what a roll forgot, and that a
request on its way is counted once more on our side (`Flight`); it needs that
the file of a budget memory does not know is outdated. `Reserve` says that while
something is forgotten the pages still to come fit beside the margin: the
preflight and the first page check it, and a roll in the middle gives the whole
limit, which is enough by `BudgetAssumption`. `Collected` says that the accepted
pages are the first ones of one list, and `Paused` where a pause that was not missed
is kept (`Kept`) on its way from the answer over the exception and the appointment to
the file. `Bounds` gives
`TypeOK`: every appointment is made of a share of the window, a wait or a pause,
none of which exceeds the window (`IntervalAssumption`: the code's quarter of an hour,
hour and six hours are no longer than the provider's day).

`RequestLimits_proofs.tla` proves `PermitsReturn`, `TypeOK` and `WindowHeld` for any
finite set of threads and any limits and windows. A thread holds a slot exactly
while it has a stage, and a permit in one of them. For the windows, `LimitsInv`
relates the limiter's deque to the observer's record of what a key was charged:
after tidying they are the same sequence (`Linked`), unless the key
was dropped, and a key that was dropped by its own window had nothing left to
remember. A thread that passed the check of the failures and has not recorded one
yet is `Pending`; charges and pending threads together stay below the limit plus
`Slots - 1` (`Bounded`), because a check passes only below the limit and a thread
holds a slot. Deques are in the order of age, so cutting at the first young one
drops a prefix: statements about suffixes (`Rest`, `Cut`) replace those about
filtered sequences.

`Deadlines_proofs.tla` proves `RotationKept`, `TypeOK` and `TimersKept`, for any
passphrases, rows, tones and threads. What may still be written to the hash file is the file's own passphrase,
an old hash in memory, or the passphrase of a request about to upgrade: none of
them is outdated unless a rotation came late (`NothingOutdated`), and as long as
the file has no hash nobody has one (`NothingBefore`).
The timers a reader sees are `Sound`: no more than tones, each with an identifier
and a tone of its own. That holds of whatever is read from any stored items
(`UsableSound`): a set of fewer identifiers than candidates leaves one free
(pigeonhole), and what holds of the first `i` items holds of one more. The
induction is over a bounded interval of numbers, whose principle (`CountUp`) follows from the
cardinality of intervals. Reading sound timers changes none
(`UsableOfSound`), and sorting is a rearrangement: ranks are distinct and fill
the positions (`Ranks`). So what was stored is what every reader sees
(`StoredLoaded`), and a step either leaves the row as readers see it or writes sound timers that
keep everyone not named (`Changes`). The invariant adds that generated
identifiers are below the counter, in the row and among the deleted ones, and
that after a deletion the row is one the server wrote (`GoneHeld`), which is why neither the
fallback nor a migration can bring a timer back. `LeftAssumption` says what an older
version may have left: any JSON, but no identifier that is yet to be generated.

`Maintenance_proofs.tla` proves `LastBackupKept` and `DayFinal`, for any GPUs, day
length and retention with `RollupDays <= RawDays` and `RollupDays <= IndexDays + 1`
(both hold of the constants in the code). A cycle that prunes has the
backup of its own day (`TodayFirst`), written no earlier than that day (`Dated`),
hence too young to expire. Of what had been seen of the cards in the slots, only
observations before the cutoff of the present cycle were deleted (`Kept`), which is
no later than the first day that is due: what is averaged is all there
(`DueIsWhole`). Afterwards nothing overwrites the average; that `Swap` takes its
observations out of both `raw` and `seen` is the limit of the theorem.

`ProbeRunner_proofs.tla` proves `Outcome` for any timeout, limit and output. The
buffers agree with what was read unless there was an overflow, which was real
(`Buffers`); a reader is where it is for a reason (`Readers`); nobody signals the
child without a reason the verdict names (`Causes`); and each of the four waits
ends a second after it began (`InTime`).

Only model-checked: liveness (`ProbedForever`, `StopCompletes`,
`DiskProbedForever`, `Refreshes`), which rests on fairness and ENABLED and is out
of the prover's reach. The two violated runs refute their properties on a small
instance, which needs no theorem. Every invariant and every action property of a
passing run, and both refinements, are theorems.

## 5. Not modelled

`PROJECT.json` lists every component. Left out for good: formatting and
rendering, text validation, request parsing and headers, the remote script's
parsing, hashing, the Windows launchers, the audit and sanitizing scripts
(one-shot checks of files), the configuration (read once), and the queries,
which read under one lock and keep no state. Left out for now: the dashboard's
loaders and dialogs, deployment and restore, GPU activity events and the
inventory, the migrations that repair events and usage, and the retention of
events and notices.

## 6. Plan

In this order; each with its own invariants, mutants and, where it pays, proofs.

1. `Dashboard` and `Dialogs`: request generations of the loaders, late answers
   to closed dialogs; an abstract view that shows only the newest answer.
2. `Deploy` and `Restore`: the switch with signals and crashes at every step,
   refined by "old or new, never neither".
3. The rest of the observation: activity events and inventory of a host, and
   attribution as a pure operator against a reference definition.
4. Proofs about what the new modules promise; that `lateRotate`, `forgot` and
   `dropped`, the exceptions three invariants allow, arise only in the ways
   section 2 names.
