---- MODULE IntelligenceIndex ----
(***************************************************************************)
(* The cache of the Artificial Analysis index (ArtificialAnalysisIndex)    *)
(* with its request budget (ApiQuota), against a provider that counts the  *)
(* requests of a fixed window and may change its list between two pages.   *)
(*                                                                         *)
(* Times are distances from now in units of at least a minute, clipped     *)
(* where the code can no longer tell them apart, so the clock runs for     *)
(* ever in a finite state space.  The network, the disk, the key file and  *)
(* the process fail only while `broken` holds.                             *)
(***************************************************************************)
EXTENDS Integers, FiniteSets

CONSTANTS
    Day,                   \* the quota window, 86400 s in the code
    RefreshInterval,       \* refresh_interval_seconds, the floor between two refreshes
    FailureRetry,          \* failure_retry_interval_seconds
    Fallback,              \* next_delay's fallback when the quota is unknown
    MaxAttempts,           \* max_fetch_attempts
    MaxPages,              \* MAX_PAGES, also the page count assumed before the first answer
    Limit,                 \* the provider's requests per window
    Editions,              \* the lists the provider may hold
    Pages(_),              \* the number of pages of an edition
    Version(_),            \* its index version
    Rows(_, _)             \* the rows [id, score] on a page of an edition

ASSUME IndexAssumption ==
    /\ {Day, RefreshInterval, FailureRetry, Fallback, MaxAttempts, MaxPages, Limit} \subseteq Nat \ {0}
    /\ \A e \in Editions : Pages(e) \in 1 .. MaxPages

\* The code's intervals are fifteen minutes, one hour and six hours.
ASSUME IntervalAssumption == RefreshInterval <= Day /\ FailureRetry <= Day /\ Fallback <= Day

VARIABLES
    pLeft, pRemaining,     \* the provider: the rest of its window and of its budget
    broken,                \* TRUE while the surroundings may fail
    quota, quotaFile,      \* ApiQuota in memory and on disk; left and hold are distances from now,
                           \* and forgot (an observer) counts requests of the provider's window a roll forgot
    cache, cacheFile,      \* the published list and the one on disk; age is clipped
    due,                   \* _next_attempt_at - now, clipped at zero
    pc,                    \* where the refresh thread is; "idle" when there is none, "down" without a process
    attempt, page,         \* the loop variables of _fetch_with_retry and _fetch_all
    read,                  \* <<page, edition>> for every page accepted in this attempt
    answer,                \* what the provider sent back for the request in flight
    error,                 \* the exception on its way to a handler
    asked,                 \* observer: how long the provider still wants to be left alone, by the
                           \* last answer we were given
    missed                 \* observer: that the program does not know this

provider == <<pLeft, pRemaining>>
pause == <<asked, missed>>
control == <<pc, attempt, page, read, answer, error>>
vars == <<provider, broken, quota, quotaFile, cache, cacheFile, due, control, pause>>

NoList == [version |-> 0, read |-> {}, rows |-> {}, age |-> 0]
NoAnswer == [status |-> "none", remaining |-> 0, left |-> 0, edition |-> 0, retryAfter |-> 0]
NoError == [transient |-> FALSE, retryAfter |-> 0]
NoQuota == [known |-> FALSE, remaining |-> 0, left |-> 0, pages |-> MaxPages, hold |-> 0, forgot |-> 0]
Later(a, b) == IF a >= b THEN a ELSE b
Sooner(a, b) == IF a <= b THEN a ELSE b

\* ---------------------------------------------------------------- ApiQuota

\* The requests kept back when a refresh is planned.
Margin == Sooner(8, Later(1, Limit \div 10))

\* Otherwise the code postpones a refresh of the largest list for ever.
ASSUME BudgetAssumption == Limit >= MaxPages + Margin

\* Mutant: only an answer ever starts a new window.
NeverRolled(q) == q

\* _roll_window: our own clock starts a new window.
Rolled(q) ==
    IF q.known /\ q.left <= 0
    THEN [q EXCEPT !.remaining = Limit, !.left = Day, !.forgot = Limit - pRemaining] ELSE q

\* required_wait on a quota whose window has been rolled.
RequiredWait(q, requests, reserve) ==
    IF q.known /\ q.remaining < requests + (IF reserve THEN Margin ELSE 0)
    THEN Later(1, q.left + 1) ELSE 0

\* reserve_request: the request is counted before it is sent.
Reserved(q) ==
    IF q.known THEN [q EXCEPT !.remaining = Later(0, @ - 1)] ELSE q

\* _accept: a reset that is too far away in either direction is not believed.
Accepted(q, remaining, left) ==
    IF left \in -Day .. Day + 1
    THEN [q EXCEPT !.known = TRUE, !.remaining = remaining, !.left = left, !.forgot = 0] ELSE q

Loaded(f) ==
    LET held == [NoQuota EXCEPT !.pages = f.pages,
                                !.hold = IF f.hold <= Day THEN f.hold ELSE 0]
    IN  IF f.known THEN [Accepted(held, f.remaining, f.left) EXCEPT !.forgot = f.forgot] ELSE held

\* next_delay: complete refreshes are spread over the rest of the window.
NextDelay(q) ==
    LET wait == RequiredWait(q, q.pages, TRUE)
        batches == Later(0, (q.remaining - Margin) \div q.pages)
        spread == (Later(0, q.left) + batches) \div (batches + 1)
    IN  Later(RefreshInterval,
              IF ~q.known THEN Fallback ELSE IF wait > 0 THEN wait ELSE spread)

\* save: the file is replaced as a whole, or the call raises and it is as before.
Save(q) == quotaFile' = q

\* Mutant: the count reaches the disk with the next answer only.
ReservedInMemory(q) == UNCHANGED quotaFile
SaveReserved(q) == IF q.known THEN Save(Reserved(q)) ELSE UNCHANGED quotaFile
SaveFails == broken /\ UNCHANGED quotaFile

\* ArtificialAnalysisFetchError, or any other exception (not transient).
Raise(transient, retryAfter) ==
    /\ error' = [transient |-> transient, retryAfter |-> retryAfter]
    /\ pc' = "failed"

----
\* ------------------------------------------------------------ the provider

\* The list it serves; only a disturbance changes it between two pages of a refresh.
Served == IF broken \/ read = {} THEN Editions ELSE {r[2] : r \in read}

\* It counts the request and answers; "garbled" stands for all a page can be rejected for,
\* "cut" for a body that breaks off, "unavailable" for 5xx and "denied" for other statuses.
\* The pause asked for is a day at most: _retry_after cuts a longer one to that.
Serves ==
    /\ pc = "sent"
    /\ pRemaining > 0
    /\ pRemaining' = pRemaining - 1
    /\ \E status \in IF broken THEN {"ok", "garbled", "cut", "unavailable", "denied"} ELSE {"ok"},
          e \in Served, after \in {0, Day} :
          /\ after > 0 => status \in {"unavailable", "denied"}
          /\ status # "ok" => e = CHOOSE any \in Served : TRUE
          /\ answer' = [status |-> status, remaining |-> pRemaining', left |-> pLeft,
                        edition |-> e, retryAfter |-> after]
    /\ pc' = "answered"
    /\ UNCHANGED <<pLeft, broken, quota, quotaFile, cache, cacheFile, due,
                   attempt, page, read, error, pause>>

\* 429: its budget for this window is spent.
Refuses ==
    /\ pc = "sent"
    /\ pRemaining = 0
    /\ answer' = [status |-> "unavailable", remaining |-> 0, left |-> pLeft,
                  edition |-> 0, retryAfter |-> pLeft]
    /\ pc' = "answered"
    /\ UNCHANGED <<provider, broken, quota, quotaFile, cache, cacheFile, due,
                   attempt, page, read, error, pause>>

\* Transport failure, before or after the provider counted the request.
Loses ==
    /\ broken
    /\ pc = "sent"
    /\ pRemaining' \in {pRemaining, Later(0, pRemaining - 1)}
    /\ Raise(TRUE, 0)
    /\ UNCHANGED <<pLeft, broken, quota, quotaFile, cache, cacheFile, due,
                   attempt, page, read, answer, pause>>

----
\* ---------------------------------------------------------- the refresh

\* refresh_if_due, called by the scheduler thread and by every request for the payload.
Claim ==
    /\ pc = "idle"
    /\ due = 0
    /\ pc' = "starting"
    /\ UNCHANGED <<provider, broken, quota, quotaFile, cache, cacheFile, due,
                   attempt, page, read, answer, error, pause>>

\* Thread.start raises: the claim is given back.
StartFails ==
    /\ broken
    /\ pc = "starting"
    /\ pc' = "idle"
    /\ due' = FailureRetry
    /\ UNCHANGED <<provider, broken, quota, quotaFile, cache, cacheFile,
                   attempt, page, read, answer, error, pause>>

\* _run_refresh begins: the key is read on every attempt.
ReadKey ==
    /\ pc = "starting"
    /\ attempt' = 1
    /\ \/ pc' = "fetch" /\ UNCHANGED error
       \/ broken /\ Raise(FALSE, 0)
    /\ UNCHANGED <<provider, broken, quota, quotaFile, cache, cacheFile, due,
                   page, read, answer, pause>>

\* _fetch_all begins: a complete refresh and the margin must fit in the window.
FetchAll ==
    /\ pc = "fetch"
    /\ LET q == Rolled(quota)
           wait == RequiredWait(q, q.pages, TRUE)
       IN  /\ quota' = q
           /\ \/ wait > 0 /\ Raise(TRUE, wait) /\ UNCHANGED page
              \/ wait = 0 /\ pc' = "ask" /\ page' = 1 /\ UNCHANGED error
    /\ read' = {}
    /\ UNCHANGED <<provider, broken, quotaFile, cache, cacheFile, due, attempt, answer, pause>>

\* _read_page up to the request: checked, counted, saved, sent.
Ask ==
    /\ pc = "ask"
    /\ LET q == Rolled(quota)
           wait == RequiredWait(q, 1, FALSE)
       IN \/ wait > 0 /\ quota' = q /\ Raise(TRUE, wait) /\ UNCHANGED quotaFile
          \/ /\ wait = 0
             /\ quota' = Reserved(q)
             /\ \/ pc' = "sent" /\ SaveReserved(q) /\ UNCHANGED error
                \/ q.known /\ SaveFails /\ Raise(FALSE, 0)
    /\ UNCHANGED <<provider, broken, cache, cacheFile, due, attempt, page, read, answer, pause>>

\* Mutant: every page is judged alone.
ConsistentAlone(e) == page <= Pages(e)

\* What _validate_page compares with the pages accepted before.
Consistent(e) ==
    /\ page <= Pages(e)
    /\ \A r \in read : Version(r[2]) = Version(e) /\ Pages(r[2]) = Pages(e)

\* The loop of _fetch_all goes on to the next page or ends.
TakePage(e) ==
    /\ read' = read \cup {<<page, e>>}
    /\ \/ page = Pages(e) /\ pc' = "collected" /\ UNCHANGED page
       \/ page < Pages(e) /\ pc' = "ask" /\ page' = page + 1
    /\ UNCHANGED error

\* The first page tells how many requests the rest needs.
TakeFirstPage(seen, e) ==
    LET planned == [seen EXCEPT !.pages = Pages(e)]
        q == Rolled(planned)
        wait == RequiredWait(q, Pages(e) - 1, TRUE)
    IN  \/ /\ Save(planned)
           /\ quota' = q
           /\ \/ wait > 0 /\ Raise(TRUE, wait) /\ UNCHANGED <<page, read>>
              \/ wait = 0 /\ TakePage(e)
        \/ /\ broken           \* saved by observe, not again with the page count
           /\ Save(seen)
           /\ quota' = planned
           /\ Raise(FALSE, 0)
           /\ UNCHANGED <<page, read>>

\* A page that is not taken: what it raises, after observe saved the headers.
Rejected(seen, transient, retryAfter) ==
    /\ quota' = seen
    /\ Save(seen)
    /\ Raise(transient, retryAfter)
    /\ UNCHANGED <<page, read>>

\* The rest of _read_page, _validate_page and the body of _fetch_all's loop. In the last
\* disjunct observe raises before the status or the body was looked at: of an HTTP error
\* neither that it is transient nor its Retry-After is known.
Receive ==
    /\ pc = "answered"
    /\ LET seen == Accepted(quota, answer.remaining, answer.left)
           good == answer.status \in {"ok", "garbled", "cut"}
           e == answer.edition
       IN \/ /\ \/ ~good /\ Rejected(seen, answer.status = "unavailable", answer.retryAfter)
                \/ answer.status = "cut" /\ Rejected(seen, TRUE, 0)
                \/ answer.status = "garbled" /\ Rejected(seen, FALSE, 0)
                \/ answer.status = "ok" /\ ~Consistent(e) /\ Rejected(seen, FALSE, 0)
                \/ answer.status = "ok" /\ Consistent(e) /\ page = 1 /\ TakeFirstPage(seen, e)
                \/ /\ answer.status = "ok" /\ Consistent(e) /\ page > 1
                   /\ quota' = seen /\ Save(seen) /\ TakePage(e)
             /\ missed' = FALSE
          \/ /\ SaveFails /\ quota' = seen /\ Raise(good, 0) /\ UNCHANGED <<page, read>>
             /\ missed' = (answer.retryAfter > 0)
    /\ answer' = NoAnswer
    /\ asked' = answer.retryAfter
    /\ UNCHANGED <<provider, broken, cache, cacheFile, due, attempt>>

AllRows(pages) == UNION {Rows(r[2], r[1]) : r \in pages}

\* Two revisions of one model, seen across a moving page boundary.
Conflict(rows) == \E a, b \in rows : a.id = b.id /\ a # b

\* The end of _fetch_all, _validate_cache and _persist_cache.
Persist ==
    /\ pc = "collected"
    /\ LET rows == AllRows(read)
           list == [version |-> Version((CHOOSE r \in read : TRUE)[2]), read |-> read, rows |-> rows, age |-> 0]
       IN \/ rows = {} /\ Raise(FALSE, 0) /\ UNCHANGED cacheFile
          \/ Conflict(rows) /\ Raise(TRUE, 0) /\ UNCHANGED cacheFile
          \/ /\ rows # {}
             /\ ~Conflict(rows)
             /\ \/ pc' = "publish" /\ cacheFile' = list /\ UNCHANGED error
                \/ broken /\ Raise(FALSE, 0) /\ UNCHANGED cacheFile
    /\ UNCHANGED <<provider, broken, quota, quotaFile, cache, due, attempt, page, read, answer, pause>>

\* schedule, and the end of the thread.
Appointment(q, delay) ==
    /\ due' = delay
    /\ quota' = [q EXCEPT !.hold = delay]
    /\ pc' = "idle"

Idle == read' = {} /\ page' = 0 /\ attempt' = 0 /\ error' = NoError

\* The list becomes visible and the next refresh is due; when the appointment
\* cannot be saved the handler makes another one, and the list stays.
Publish ==
    /\ pc = "publish"
    /\ cache' = cacheFile
    /\ LET q == Rolled(quota)
       IN \/ /\ Appointment(q, Later(0, NextDelay(q) - cacheFile.age))
             /\ Save(quota')
          \/ /\ broken
             /\ Appointment(q, FailureRetry)
             /\ quotaFile' \in {quotaFile, quota'}
    /\ Idle
    /\ UNCHANGED <<provider, broken, cacheFile, answer, pause>>

\* _fetch_with_retry: a transient failure is tried again at once, unless it asks for time.
TryAgain ==
    /\ pc = "failed"
    /\ error.transient
    /\ error.retryAfter = 0
    /\ attempt < MaxAttempts
    /\ attempt' = attempt + 1
    /\ pc' = "fetch"
    /\ error' = NoError
    /\ UNCHANGED <<provider, broken, quota, quotaFile, cache, cacheFile, due, page, read, answer, pause>>

\* Mutants: a long Retry-After is forgotten, or comes on top of the interval.
RetryHourly == FailureRetry
RetryDelaySummed == FailureRetry + error.retryAfter

RetryDelay == Later(FailureRetry, error.retryAfter)

\* The handler of _run_refresh; that the appointment cannot be saved is ignored.
GiveUp ==
    /\ pc = "failed"
    /\ ~error.transient \/ error.retryAfter > 0 \/ attempt = MaxAttempts
    /\ Appointment(quota, RetryDelay)
    /\ Save(quota') \/ SaveFails
    /\ Idle
    /\ UNCHANGED <<provider, broken, cache, cacheFile, answer, pause>>

----
\* ---------------------------------------------------------- surroundings

\* The process ends at any moment; a request on its way may still be counted, and of
\* the provider's pause only what was saved is known to the next process.
Crash ==
    /\ broken
    /\ pc # "down"
    /\ pc' = "down"
    /\ pRemaining' \in IF pc = "sent" THEN {pRemaining, Later(0, pRemaining - 1)} ELSE {pRemaining}
    /\ quota' = NoQuota
    /\ cache' = NoList
    /\ due' = 0
    /\ answer' = NoAnswer
    /\ missed' = (asked > 0 /\ (missed \/ quotaFile.hold \notin asked .. Day))
    /\ Idle
    /\ UNCHANGED <<pLeft, broken, quotaFile, cacheFile, asked>>

\* Mutant: a list that is due for a refresh is not worth showing.
LoadCacheIfFresh == IF cacheFile.age = RefreshInterval THEN NoList ELSE cacheFile

\* _load_cache: what _persist_cache wrote passes _validate_cache.
LoadCache == cacheFile

\* __init__: both files are read; the later of the two appointments counts.
Restart ==
    /\ pc = "down"
    /\ pc' = "idle"
    /\ quota' = Loaded(quotaFile)
    /\ cache' = LoadCache
    /\ due' = Later(quota'.hold, IF cache' = NoList THEN 0 ELSE RefreshInterval - cache'.age)
    /\ UNCHANGED <<provider, broken, quotaFile, cacheFile, attempt, page, read, answer, error, pause>>

Disturb == broken' = ~broken /\ UNCHANGED <<provider, quota, quotaFile, cache, cacheFile, due, control, pause>>

Nearer(t, floor) == Later(floor, t - 1)
QuotaNearer(q, newWindow) ==
    [q EXCEPT !.left = IF q.known THEN Nearer(@, -Day - 1) ELSE 0, !.hold = Nearer(@, 0),
              !.forgot = IF newWindow THEN 0 ELSE @]
Older(list) ==
    IF list = NoList THEN NoList ELSE [list EXCEPT !.age = Sooner(RefreshInterval, @ + 1)]

\* One unit of time passes everywhere; the provider starts a window when one is over.
\* Everything but waiting, for the next refresh or for an answer, takes less than a unit.
Tick ==
    /\ pc \in {"idle", "down", "sent", "answered"}
    /\ \/ pLeft > 1 /\ pLeft' = pLeft - 1 /\ UNCHANGED <<pRemaining>>
       \/ pLeft = 1 /\ pLeft' = Day /\ pRemaining' = Limit
    /\ quota' = QuotaNearer(quota, pLeft = 1)
    /\ quotaFile' = QuotaNearer(quotaFile, pLeft = 1)
    /\ cache' = Older(cache)
    /\ cacheFile' = Older(cacheFile)
    /\ due' = Nearer(due, 0)
    /\ answer' = IF answer = NoAnswer THEN answer ELSE [answer EXCEPT !.left = Nearer(@, -Day - 1)]
    /\ asked' = Nearer(asked, 0)
    /\ missed' = (missed /\ asked' > 0)
    /\ UNCHANGED <<broken, pc, attempt, page, read, error>>

Init ==
    /\ pLeft = Day /\ pRemaining = Limit
    /\ broken = TRUE
    /\ quota = NoQuota /\ quotaFile = NoQuota
    /\ cache = NoList /\ cacheFile = NoList
    /\ due = 0
    /\ pc = "idle" /\ attempt = 0 /\ page = 0 /\ read = {} /\ answer = NoAnswer /\ error = NoError
    /\ asked = 0 /\ missed = FALSE

Refreshing ==
    \/ Claim \/ ReadKey \/ FetchAll \/ Ask \/ Receive \/ Persist \/ Publish \/ TryAgain \/ GiveUp
Answering == Serves \/ Refuses
Next ==
    \/ Answering \/ Loses \/ Refreshing \/ StartFails
    \/ Crash \/ Restart \/ Disturb \/ Tick

Spec == Init /\ [][Next]_vars /\ WF_vars(Refreshing) /\ WF_vars(Answering) /\ WF_vars(Restart) /\ WF_vars(Tick)

----
\* The values each variable takes; in particular no appointment lies further away
\* than the end of the provider's window.
TypeOK ==
    /\ pLeft \in 1 .. Day /\ pRemaining \in 0 .. Limit
    /\ broken \in BOOLEAN
    /\ \A q \in {quota, quotaFile} :
         /\ q.known \in BOOLEAN /\ q.remaining \in 0 .. Limit /\ q.left \in -Day - 1 .. Day
         /\ q.forgot \in 0 .. Limit
         /\ q.pages \in 1 .. MaxPages /\ q.hold \in 0 .. Day + 1
    /\ \A l \in {cache, cacheFile} : l = NoList \/ l.age \in 0 .. RefreshInterval
    /\ due \in 0 .. Day + 1
    /\ pc \in {"idle", "starting", "fetch", "ask", "sent", "answered", "collected", "publish", "failed", "down"}
    /\ attempt \in 0 .. MaxAttempts /\ page \in 0 .. MaxPages
    /\ read \subseteq (1 .. MaxPages) \X Editions
    /\ asked \in 0 .. Day /\ missed \in BOOLEAN

\* No request of ours meets an empty budget once its size is known, across lost
\* answers, crashes before and after the count was saved, failed saves and our own
\* idea of when a window starts - unless a window started by our own clock forgot
\* more requests than are kept in reserve.
ReserveCovers ==
    pc = "sent" /\ quota.known /\ pRemaining = 0 => quota.forgot > Margin

\* What is shown, or would be shown after a restart, is a complete list of one
\* version: every page once, the same page count, no model with two scores.
OneSnapshot ==
    \A list \in {cache, cacheFile} : list # NoList =>
        /\ \A r \in list.read : Version(r[2]) = list.version
        /\ \A r \in list.read : {x[1] : x \in list.read} = 1 .. Pages(r[2])
        /\ \A a, b \in list.rows : a.id = b.id => a = b
        /\ list.rows # {}

\* Memory and disk show the same list whenever the process runs and nothing is
\* being published: a failed refresh changes neither, a restart loses nothing.
CacheKept == pc \in {"publish", "down"} \/ cache = cacheFile

\* No request is sent before the time the provider asked for, neither by a retry, nor by
\* the hourly appointment, nor by the next process - unless the pause was `missed`, in one of
\* two ways: the quota could not be saved while the answer was handled, which replaces the
\* exception that would have carried the pause (the code then asks again after FailureRetry);
\* or the process ended before the appointment was saved. Of a pause longer than a day the
\* code obeys a day, which is all the model's provider asks for.
RetryAfterKept == pc = "sent" /\ asked > 0 => missed

\* When the surroundings stop failing, lists keep being published for ever:
\* no claim, backoff, saved appointment or spent budget is final.
Refreshes == <>[]~broken => []<><<Publish>>_vars
====
