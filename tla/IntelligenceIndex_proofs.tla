----------------------- MODULE IntelligenceIndex_proofs -----------------------
(***************************************************************************)
(* Proofs about IntelligenceIndex, for any window, limit, lists and        *)
(* intervals: the request budget, the published list, the provider's pause *)
(* and the bounds of all appointments.                                     *)
(***************************************************************************)
EXTENDS IntelligenceIndex, TLAPS

Lefts == {n \in Int : n <= Day + 1}
Quotas == [known : BOOLEAN, remaining : 0 .. Limit, left : Lefts,
           pages : 1 .. MaxPages, hold : Nat, forgot : 0 .. Limit]
AnyAnswers == [status : {"none", "ok", "garbled", "cut", "unavailable", "denied"},
               remaining : 0 .. Limit, left : Lefts, edition : Editions \cup {0}, retryAfter : Nat]
(* Only an error carries a pause.                                           *)
Answers == {a \in AnyAnswers : a.retryAfter = 0 \/ a.status \in {"unavailable", "denied"}}
IsList(l) == l = [version |-> l.version, read |-> l.read, rows |-> l.rows, age |-> l.age]
             /\ l.age \in Int

Types ==
  /\ pLeft \in 1 .. Day /\ pRemaining \in 0 .. Limit
  /\ quota \in Quotas /\ quotaFile \in Quotas
  /\ answer \in Answers /\ (answer.status = "ok" => answer.edition \in Editions)
  /\ error.retryAfter \in Int
  /\ due \in Int /\ asked \in Nat /\ page \in Nat
  /\ read \subseteq Nat \X Editions
  /\ IsList(cache) /\ IsList(cacheFile)

(* A request between the count on our side and the provider's.              *)
Flight == IF pc = "sent" THEN 1 ELSE 0
Covered(q) == q.remaining + Flight <= pRemaining + q.forgot /\ q.remaining + Flight <= Limit
(* What a restart would believe of the file.                                *)
Believed(f) == f.known /\ f.left >= -Day

(* We never count more requests than the provider has, but for those that a *)
(* roll forgot; the file of a budget that memory does not know is outdated. *)
Counted ==
  /\ quota.known => Covered(quota)
  /\ Believed(quotaFile) => Covered(quotaFile)
  /\ pc # "down" /\ ~quota.known => ~Believed(quotaFile)
  /\ pc = "answered" => answer.remaining <= pRemaining

(* While a roll may have forgotten requests, the rest of the pages leaves   *)
(* the margin untouched.                                                    *)
Ahead(n) == quota.known /\ quota.forgot > 0 => quota.remaining >= Margin + n
Reserve ==
  /\ pc = "ask" /\ page = 1 => Ahead(quota.pages)
  /\ pc \in {"sent", "answered"} /\ page = 1 => Ahead(quota.pages - 1)
  /\ pc = "ask" /\ page > 1 => \A r \in read : Ahead(Pages(r[2]) - page + 1)
  /\ pc \in {"sent", "answered"} /\ page > 1 => \A r \in read : Ahead(Pages(r[2]) - page)

(* The pages accepted so far are the first ones of one list.                *)
Numbers(pages) == {r[1] : r \in pages}
Collected ==
  /\ pc \in {"ask", "sent", "answered"} =>
       /\ page > 0 /\ Numbers(read) = 1 .. page - 1
       /\ \A r \in read : page <= Pages(r[2])
  /\ pc = "collected" => read # {} /\ \A r \in read : Numbers(read) = 1 .. Pages(r[2])
  /\ pc \in {"ask", "sent", "answered", "collected"} =>
       \A a, b \in read : Version(a[2]) = Version(b[2]) /\ Pages(a[2]) = Pages(b[2])

Whole(list) == list # NoList =>
  /\ \A r \in list.read : Version(r[2]) = list.version
  /\ \A r \in list.read : Numbers(list.read) = 1 .. Pages(r[2])
  /\ \A a, b \in list.rows : a.id = b.id => a = b
  /\ list.rows # {}

Published == Whole(cache) /\ Whole(cacheFile) /\ CacheKept

(* Where the provider's pause is kept on its way from the answer to the     *)
(* appointment, and across a crash, unless the program missed it.           *)
Kept ==
  /\ pc = "idle" => asked <= due
  /\ pc = "failed" => asked <= error.retryAfter
  /\ pc = "down" => asked = 0 \/ quotaFile.hold \in asked .. Day
  /\ pc \notin {"idle", "failed", "down"} => asked = 0
Paused == missed \in BOOLEAN /\ (missed \/ Kept)

(* How far away appointments and windows can be.                            *)
Near == -Day - 1 .. Day
NearQuota(q) == q.left \in Near /\ q.hold <= Day + 1
Aged(l) == l = NoList \/ l.age \in 0 .. RefreshInterval

Bounds ==
  /\ NearQuota(quota) /\ NearQuota(quotaFile)
  /\ answer.left \in Near /\ answer.retryAfter <= Day
  /\ error.retryAfter \in 0 .. Day + 1
  /\ due \in 0 .. Day + 1 /\ asked \in 0 .. Day
  /\ attempt \in 0 .. MaxAttempts /\ page \in 0 .. MaxPages
  /\ read \subseteq (1 .. MaxPages) \X Editions
  /\ Aged(cache) /\ Aged(cacheFile)
  /\ broken \in BOOLEAN
  /\ pc \in {"idle", "starting", "fetch", "ask", "sent", "answered", "collected", "publish", "failed", "down"}

Inv == Types /\ Counted /\ Reserve /\ Collected /\ Published /\ Paused /\ Bounds

---------------------------------------------------------------------------
(* The parts of the code the steps share.                                   *)

LEMMA Sizes ==
  /\ Day \in Nat \ {0} /\ RefreshInterval \in Nat \ {0} /\ FailureRetry \in Nat \ {0}
  /\ Fallback \in Nat \ {0} /\ MaxPages \in Nat \ {0} /\ Limit \in Nat \ {0}
  /\ \A e \in Editions : Pages(e) \in 1 .. MaxPages
  /\ Margin \in Nat /\ Limit >= MaxPages + Margin
<1>1. /\ Day \in Nat \ {0} /\ RefreshInterval \in Nat \ {0} /\ FailureRetry \in Nat \ {0}
      /\ Fallback \in Nat \ {0} /\ MaxPages \in Nat \ {0} /\ Limit \in Nat \ {0}
      /\ \A e \in Editions : Pages(e) \in 1 .. MaxPages
  BY IndexAssumption
<1>2. Margin \in Nat
  BY <1>1 DEF Margin, Sooner, Later
<1> QED
  BY <1>1, <1>2, BudgetAssumption

LEMMA Rolling ==
  ASSUME NEW q \in Quotas, pRemaining \in 0 .. Limit
  PROVE  /\ Rolled(q) \in Quotas /\ Rolled(q).known = q.known
         /\ Rolled(q).pages = q.pages /\ Rolled(q).hold = q.hold
         /\ \/ Rolled(q) = q
            \/ Rolled(q).remaining = Limit /\ Rolled(q).forgot = Limit - pRemaining
<1>1. CASE q.known /\ q.left <= 0
  <2>1. Rolled(q) = [q EXCEPT !.remaining = Limit, !.left = Day, !.forgot = Limit - pRemaining]
    BY <1>1 DEF Rolled
  <2>2. Limit \in 0 .. Limit /\ Day \in Lefts /\ Limit - pRemaining \in 0 .. Limit
    BY Sizes DEF Lefts
  <2> QED
    BY <2>1, <2>2 DEF Quotas
<1>2. CASE ~(q.known /\ q.left <= 0)
  BY <1>2 DEF Rolled
<1> QED
  BY <1>1, <1>2

LEMMA Reserving ==
  ASSUME NEW q \in Quotas
  PROVE  /\ Reserved(q) \in Quotas /\ Reserved(q).known = q.known
         /\ Reserved(q).pages = q.pages /\ Reserved(q).hold = q.hold
         /\ Reserved(q).left = q.left /\ Reserved(q).forgot = q.forgot
         /\ q.known /\ q.remaining > 0 => Reserved(q).remaining = q.remaining - 1
  BY Sizes DEF Reserved, Quotas, Later

LEMMA Accepting ==
  ASSUME NEW q \in Quotas, NEW remaining \in 0 .. Limit, NEW left \in Lefts
  PROVE  /\ Accepted(q, remaining, left) \in Quotas
         /\ Accepted(q, remaining, left).pages = q.pages
         /\ Accepted(q, remaining, left).hold = q.hold
         /\ \/ Accepted(q, remaining, left) = q
            \/ /\ Accepted(q, remaining, left).known
               /\ Accepted(q, remaining, left).remaining = remaining
               /\ Accepted(q, remaining, left).left = left
               /\ Accepted(q, remaining, left).forgot = 0
<1>1. CASE left \in -Day .. Day + 1
  <2>1. Accepted(q, remaining, left) =
          [q EXCEPT !.known = TRUE, !.remaining = remaining, !.left = left, !.forgot = 0]
    BY <1>1 DEF Accepted
  <2>2. 0 \in 0 .. Limit
    BY Sizes
  <2> QED
    BY <2>1, <2>2 DEF Quotas
<1>2. CASE left \notin -Day .. Day + 1
  BY <1>2 DEF Accepted
<1> QED
  BY <1>1, <1>2

(* The wait for n requests and the margin, and for one request.            *)
WaitFor(q, n) == RequiredWait(q, n, TRUE)
WaitForOne(q) == RequiredWait(q, 1, FALSE)

LEMMA Waits ==
  ASSUME NEW q \in Quotas, NEW n \in Int
  PROVE  /\ WaitFor(q, n) \in Nat
         /\ WaitFor(q, n) = 0 /\ q.known => q.remaining >= n + Margin
  BY Sizes DEF WaitFor, RequiredWait, Quotas, Lefts, Later

LEMMA WaitsForOne ==
  ASSUME NEW q \in Quotas
  PROVE  /\ WaitForOne(q) \in Nat
         /\ WaitForOne(q) = 0 /\ q.known => q.remaining >= 1
  BY Sizes DEF WaitForOne, RequiredWait, Quotas, Lefts, Later

LEMMA Loading ==
  ASSUME NEW f \in Quotas
  PROVE  /\ Loaded(f) \in Quotas
         /\ Loaded(f).hold = IF f.hold <= Day THEN f.hold ELSE 0
         /\ Loaded(f).known = Believed(f)
         /\ Believed(f) => Loaded(f).remaining = f.remaining /\ Loaded(f).forgot = f.forgot
<1> DEFINE held == [NoQuota EXCEPT !.pages = f.pages, !.hold = IF f.hold <= Day THEN f.hold ELSE 0]
<1>1. /\ held \in Quotas /\ held.hold = (IF f.hold <= Day THEN f.hold ELSE 0) /\ held.known = FALSE
  <2>1. /\ 0 \in 0 .. Limit /\ 0 \in Lefts /\ f.pages \in 1 .. MaxPages
        /\ (IF f.hold <= Day THEN f.hold ELSE 0) \in Nat
    BY Sizes DEF Lefts, Quotas
  <2> QED
    BY <2>1 DEF NoQuota, Quotas
<1> HIDE DEF held
<1>2. Loaded(f) = IF f.known THEN [Accepted(held, f.remaining, f.left) EXCEPT !.forgot = f.forgot] ELSE held
  BY DEF Loaded, held
<1>3. CASE ~f.known
  BY <1>1, <1>2, <1>3 DEF Believed
<1>4. CASE f.known /\ f.left < -Day
  <2>1. Accepted(held, f.remaining, f.left) = held
    BY <1>4, Sizes DEF Accepted, Quotas, Lefts
  <2> QED
    BY <1>1, <1>2, <1>4, <2>1, Sizes DEF Believed, Quotas, Lefts
<1>5. CASE f.known /\ f.left >= -Day
  <2>1. f.left \in -Day .. Day + 1
    BY <1>5, Sizes DEF Quotas, Lefts
  <2>2. Accepted(held, f.remaining, f.left) =
          [held EXCEPT !.known = TRUE, !.remaining = f.remaining, !.left = f.left, !.forgot = 0]
    BY <2>1 DEF Accepted
  <2> QED
    BY <1>1, <1>2, <1>5, <2>2 DEF Believed, Quotas
<1> QED
  BY <1>3, <1>4, <1>5, Sizes DEF Quotas, Lefts

LEMMA Delays ==
  ASSUME NEW q \in Quotas
  PROVE  NextDelay(q) \in Int
<1> DEFINE batches == Later(0, (q.remaining - Margin) \div q.pages)
           spread == (Later(0, q.left) + batches) \div (batches + 1)
<1>1. batches \in Nat
  BY Sizes DEF Quotas, Later
<1> HIDE DEF batches
<1>2. spread \in Int
  BY <1>1 DEF Quotas, Lefts, Later
<1> HIDE DEF spread
<1>3. WaitFor(q, q.pages) \in Int
  <2>1. q.pages \in Int
    BY Sizes DEF Quotas
  <2> QED
    BY <2>1, Waits
<1>4. NextDelay(q) = Later(RefreshInterval, IF ~q.known THEN Fallback
                       ELSE IF WaitFor(q, q.pages) > 0 THEN WaitFor(q, q.pages) ELSE spread)
  BY DEF NextDelay, spread, batches, WaitFor
<1> QED
  <2> DEFINE wait == WaitFor(q, q.pages)
  <2> HIDE DEF wait
  <2>1. wait \in Int /\ NextDelay(q) = Later(RefreshInterval, IF ~q.known THEN Fallback ELSE IF wait > 0 THEN wait ELSE spread)
    BY <1>3, <1>4 DEF wait
  <2> QED
    BY <1>2, <2>1, Sizes DEF Later

---------------------------------------------------------------------------
(* Types.                                                                   *)

LEMMA InitTypes == Init => Types
<1> SUFFICES ASSUME Init PROVE Types
  OBVIOUS
<1>1. NoQuota \in Quotas
  BY Sizes DEF NoQuota, Quotas, Lefts
<1>2. NoAnswer \in Answers /\ NoAnswer.status # "ok" /\ NoError.retryAfter \in Int
  BY Sizes DEF NoAnswer, Answers, AnyAnswers, Lefts, NoError
<1>3. IsList(NoList)
  BY DEF IsList, NoList
<1> QED
  BY <1>1, <1>2, <1>3, Sizes DEF Init, Types

(* What a step that ends a refresh sets back.                               *)
LEMMA IdleTypes ==
  ASSUME Idle PROVE page' \in Nat /\ read' \subseteq Nat \X Editions /\ error'.retryAfter \in Int
  BY DEF Idle, NoError

LEMMA AppointmentTypes ==
  ASSUME NEW q \in Quotas, NEW delay \in Nat, Appointment(q, delay)
  PROVE  quota' \in Quotas /\ due' = delay /\ pc' = "idle" /\ quota'.hold = delay
         /\ quota'.known = q.known /\ quota'.remaining = q.remaining
         /\ quota'.forgot = q.forgot /\ quota'.left = q.left
  BY DEF Appointment, Quotas

LEMMA TakePageTypes ==
  ASSUME Types, NEW e \in Editions, TakePage(e)
  PROVE  page' \in Nat /\ read' \subseteq Nat \X Editions /\ error'.retryAfter \in Int
<1>1. read' = read \cup {<<page, e>>} /\ page' \in {page, page + 1} /\ error' = error
  BY DEF TakePage
<1> QED
  BY <1>1 DEF Types

LEMMA TypesStep == Types /\ Next => Types'
<1> SUFFICES ASSUME Types, Next PROVE Types'
  OBVIOUS
<1>0. Rolled(quota) \in Quotas
  BY Rolling DEF Types
<1>n. NoAnswer \in Answers /\ NoAnswer.status # "ok" /\ NoError.retryAfter \in Int
  BY Sizes DEF NoAnswer, Answers, AnyAnswers, Lefts, NoError
<1>1. CASE Serves
  <2>1. PICK status \in {"ok", "garbled", "cut", "unavailable", "denied"}, e \in Served, after \in {0, Day} :
          /\ pRemaining > 0 /\ pRemaining' = pRemaining - 1
          /\ answer' = [status |-> status, remaining |-> pRemaining', left |-> pLeft,
                        edition |-> e, retryAfter |-> after]
          /\ after = 0 \/ status \in {"unavailable", "denied"}
    BY <1>1, Sizes DEF Serves
  <2>2. e \in Editions
    BY <2>1 DEF Served, Types
  <2>3. pRemaining' \in 0 .. Limit /\ pLeft \in Lefts /\ after \in Nat
    BY <2>1, Sizes DEF Types, Lefts
  <2>4. answer' \in Answers /\ answer'.edition \in Editions
    BY <2>1, <2>2, <2>3 DEF Answers, AnyAnswers
  <2> QED
    BY <1>1, <2>3, <2>4 DEF Serves, Types, pause
<1>2. CASE Refuses
  <2>1. pLeft \in Lefts /\ pLeft \in Nat /\ 0 \in 0 .. Limit
    BY Sizes DEF Types, Lefts
  <2>2. answer' \in Answers /\ answer'.status # "ok"
    BY <1>2, <2>1 DEF Refuses, Answers, AnyAnswers
  <2> QED
    BY <1>2, <2>2 DEF Refuses, Types, provider, pause
<1>3. CASE Loses
  <2>1. pRemaining' \in 0 .. Limit /\ error'.retryAfter \in Int
    BY <1>3, Sizes DEF Loses, Raise, Types, Later
  <2> QED
    BY <1>3, <2>1 DEF Loses, Types, pause
<1>4. CASE Claim
  BY <1>4 DEF Claim, Types, provider, pause
<1>5. CASE StartFails
  BY <1>5, Sizes DEF StartFails, Types, provider, pause
<1>6. CASE ReadKey
  <2>1. error'.retryAfter \in Int
    BY <1>6 DEF ReadKey, Types, Raise
  <2> QED
    BY <1>6, <2>1 DEF ReadKey, Types, provider, pause
<1>7. CASE FetchAll
  <2> DEFINE wait == WaitFor(Rolled(quota), Rolled(quota).pages)
  <2>1. wait \in Int
    <3>1. Rolled(quota).pages \in Int
      BY <1>0, Sizes DEF Quotas
    <3> QED
      BY <1>0, <3>1, Waits
  <2> HIDE DEF wait
  <2>2. /\ quota' = Rolled(quota) /\ read' = {}
        /\ \/ Raise(TRUE, wait) /\ UNCHANGED page
           \/ page' = 1 /\ UNCHANGED error
        /\ UNCHANGED <<provider, broken, quotaFile, cache, cacheFile, due, attempt, answer, pause>>
    BY <1>7 DEF FetchAll, wait, WaitFor
  <2>3. error'.retryAfter \in Int /\ page' \in Nat
    BY <2>1, <2>2 DEF Raise, Types
  <2> QED
    BY <1>0, <2>2, <2>3 DEF Types, provider, pause
<1>8. CASE Ask
  <2> DEFINE wait == WaitForOne(Rolled(quota))
  <2>1. wait \in Int /\ Reserved(Rolled(quota)) \in Quotas
    BY <1>0, WaitsForOne, Reserving
  <2> HIDE DEF wait
  <2>2. /\ quota' \in {Rolled(quota), Reserved(Rolled(quota))}
        /\ quotaFile' \in {quotaFile, Reserved(Rolled(quota))}
        /\ error' = error \/ Raise(TRUE, wait) \/ Raise(FALSE, 0)
        /\ UNCHANGED <<provider, broken, cache, cacheFile, due, attempt, page, read, answer, pause>>
    BY <1>8 DEF Ask, wait, WaitForOne, Save, SaveReserved, SaveFails
  <2>3. error'.retryAfter \in Int
    BY <2>1, <2>2 DEF Raise, Types
  <2> QED
    BY <1>0, <2>1, <2>2, <2>3 DEF Types, provider, pause
<1>9. CASE Receive
  <2> DEFINE seen == Accepted(quota, answer.remaining, answer.left)
  <2>0. seen \in Quotas
    BY Accepting DEF Types, Answers, AnyAnswers
  <2> HIDE DEF seen
  <2>1. /\ answer' = NoAnswer /\ UNCHANGED <<provider, broken, cache, cacheFile, due, attempt>>
        /\ asked' = answer.retryAfter
    BY <1>9 DEF Receive
  <2> DEFINE Good == /\ quota' \in Quotas /\ quotaFile' \in Quotas /\ error'.retryAfter \in Int
                     /\ page' \in Nat /\ read' \subseteq Nat \X Editions
  <2>2. ASSUME NEW transient, NEW retryAfter \in Nat, Rejected(seen, transient, retryAfter) PROVE Good
    BY <2>0, <2>2 DEF Rejected, Save, Raise, Types
  <2>3. ASSUME answer.status = "ok", TakeFirstPage(seen, answer.edition) PROVE Good
    <3> DEFINE e == answer.edition
               planned == [seen EXCEPT !.pages = Pages(e)]
               wait == WaitFor(Rolled(planned), Pages(e) - 1)
    <3>0. e \in Editions
      BY <2>3 DEF Types
    <3>1. planned \in Quotas
      BY <2>0, <3>0, Sizes DEF Quotas
    <3>2. Rolled(planned) \in Quotas
      BY <3>1, Rolling DEF Types
    <3>3. wait \in Int
      <4>1. Pages(e) - 1 \in Int
        BY <3>0, Sizes
      <4> QED
        BY <3>2, <4>1, Waits
    <3> HIDE DEF wait, planned
    <3>4. /\ quota' \in {Rolled(planned), planned} /\ quotaFile' \in {planned, seen}
          /\ \/ Raise(TRUE, wait) /\ UNCHANGED <<page, read>>
             \/ Raise(FALSE, 0) /\ UNCHANGED <<page, read>>
             \/ TakePage(e)
      BY <2>3 DEF TakeFirstPage, Save, wait, planned, WaitFor
    <3>5. error'.retryAfter \in Int /\ page' \in Nat /\ read' \subseteq Nat \X Editions
      BY <3>0, <3>3, <3>4, TakePageTypes DEF Raise, Types
    <3> QED
      BY <2>0, <2>3, <3>1, <3>2, <3>4, <3>5 DEF Types
  <2>4. ASSUME answer.status = "ok", quota' = seen, Save(seen), TakePage(answer.edition) PROVE Good
    BY <2>0, <2>4, TakePageTypes DEF Types, Save
  <2>5. ASSUME NEW good, SaveFails, quota' = seen, Raise(good, 0), UNCHANGED <<page, read>> PROVE Good
    BY <2>0, <2>5 DEF Types, SaveFails, Raise
  <2>6. answer.retryAfter \in Nat
    BY DEF Types, Answers, AnyAnswers
  <2>7. Good
    BY <1>9, <2>2, <2>3, <2>4, <2>5, <2>6 DEF Receive, seen
  <2> QED
    BY <1>n, <2>1, <2>6, <2>7 DEF Types, provider
<1>10. CASE Persist
  <2>1. error'.retryAfter \in Int
    BY <1>10 DEF Persist, Raise, Types
  <2>2. IsList(cacheFile')
    <3> DEFINE version == Version((CHOOSE r \in read : TRUE)[2])
               list == [version |-> version, read |-> read, rows |-> AllRows(read), age |-> 0]
    <3>1. cacheFile' \in {cacheFile, list}
      BY <1>10 DEF Persist
    <3> HIDE DEF version
    <3>2. IsList(list)
      BY DEF IsList
    <3> QED
      BY <3>1, <3>2 DEF Types
  <2> QED
    BY <1>10, <2>1, <2>2 DEF Persist, Types, provider, pause
<1>11. CASE Publish
  <2> DEFINE wait == Later(0, NextDelay(Rolled(quota)) - cacheFile.age)
  <2>1. wait \in Nat /\ FailureRetry \in Nat
    BY <1>0, Delays, Sizes DEF Types, IsList, Later
  <2> HIDE DEF wait
  <2>2. /\ Appointment(Rolled(quota), wait) \/ Appointment(Rolled(quota), FailureRetry)
        /\ quotaFile' \in {quotaFile, quota'} /\ cache' = cacheFile /\ Idle
        /\ UNCHANGED <<provider, broken, cacheFile, answer, pause>>
    BY <1>11 DEF Publish, Save, wait
  <2>3. quota' \in Quotas /\ due' \in Int
    BY <1>0, <2>1, <2>2, AppointmentTypes
  <2> QED
    BY <2>2, <2>3, IdleTypes DEF Types, provider, pause
<1>12. CASE TryAgain
  BY <1>12, <1>n DEF TryAgain, Types, provider, pause
<1>13. CASE GiveUp
  <2>1. RetryDelay \in Nat
    BY Sizes DEF RetryDelay, Later, Types
  <2>2. quota' \in Quotas /\ due' \in Int
    BY <1>13, <2>1, AppointmentTypes DEF GiveUp, Types
  <2>3. quotaFile' \in {quotaFile, quota'} /\ Idle /\ UNCHANGED <<provider, broken, cache, cacheFile, answer, pause>>
    BY <1>13 DEF GiveUp, Save, SaveFails
  <2> QED
    BY <2>2, <2>3, IdleTypes DEF Types, provider, pause
<1>14. CASE Crash
  <2>1. pRemaining' \in 0 .. Limit /\ asked' \in Nat
    BY <1>14, Sizes DEF Crash, Types, Later
  <2>2. NoQuota \in Quotas /\ IsList(NoList)
    BY Sizes DEF NoQuota, Quotas, Lefts, IsList, NoList
  <2> QED
    BY <1>14, <1>n, <2>1, <2>2, IdleTypes DEF Crash, Types
<1>15. CASE Restart
  <2>1. quota' \in Quotas /\ cache' = cacheFile
    BY <1>15, Loading DEF Restart, LoadCache, Types
  <2>2. due' \in Int
    <3>1. quota'.hold \in Int /\ cache'.age \in Int
      BY <2>1 DEF Quotas, Types, IsList
    <3> QED
      BY <1>15, <3>1, Sizes DEF Restart, Later
  <2> QED
    BY <1>15, <2>1, <2>2 DEF Restart, Types, provider, pause
<1>16. CASE Disturb
  BY <1>16 DEF Disturb, Types, provider, control, pause
<1>17. CASE Tick
  <2>1. pLeft' \in 1 .. Day /\ pRemaining' \in 0 .. Limit
    BY <1>17, Sizes DEF Tick, Types
  <2>2. ASSUME NEW q \in Quotas, NEW new PROVE QuotaNearer(q, new) \in Quotas
    <3>1. /\ (IF q.known THEN Nearer(q.left, -Day - 1) ELSE 0) \in Lefts
          /\ Nearer(q.hold, 0) \in Nat /\ (IF new THEN 0 ELSE q.forgot) \in 0 .. Limit
      BY Sizes DEF Quotas, Lefts, Nearer, Later
    <3> QED
      BY <3>1 DEF QuotaNearer, Quotas
  <2>3. ASSUME NEW l, IsList(l) PROVE IsList(Older(l))
    BY <2>3, Sizes DEF IsList, Older, NoList, Sooner
  <2>4. answer' \in Answers /\ (answer'.status = "ok" => answer'.edition \in Editions)
    <3>1. Nearer(answer.left, -Day - 1) \in Lefts
      BY Sizes DEF Types, Answers, AnyAnswers, Lefts, Nearer, Later
    <3> QED
      BY <1>17, <1>n, <3>1 DEF Tick, Types, Answers, AnyAnswers
  <2>5. due' \in Int /\ asked' \in Nat
    BY <1>17 DEF Tick, Types, Nearer, Later
  <2> QED
    BY <1>17, <2>1, <2>2, <2>3, <2>4, <2>5 DEF Tick, Types
<1> QED
  BY <1>1, <1>2, <1>3, <1>4, <1>5, <1>6, <1>7, <1>8, <1>9, <1>10, <1>11, <1>12, <1>13,
     <1>14, <1>15, <1>16, <1>17 DEF Next, Answering, Refreshing

---------------------------------------------------------------------------
(* The budget.                                                              *)

(* The budget is not touched and no request starts.                         *)
LEMMA CountedKept ==
  ASSUME Counted, Types, UNCHANGED <<pRemaining, quota, quotaFile, answer>>,
         pc # "down", pc' \notin {"sent", "answered", "down"}
  PROVE  Counted'
  BY DEF Counted, Covered, Believed, Flight, Types, Quotas

LEMMA CountedStep == Types /\ Counted /\ Next => Counted'
<1> SUFFICES ASSUME Types, Counted, Next PROVE Counted'
  OBVIOUS
<1>t. /\ quota \in Quotas /\ quotaFile \in Quotas /\ pRemaining \in 0 .. Limit
      /\ Limit \in Nat /\ Day \in Nat
  BY Sizes DEF Types
<1>r. /\ Rolled(quota) \in Quotas /\ Rolled(quota).known = quota.known
      /\ quota.known => Rolled(quota).remaining <= pRemaining + Rolled(quota).forgot
  BY <1>t, Rolling DEF Counted, Covered, Flight, Quotas
<1>1. CASE Serves
  <2>1. /\ pc = "sent" /\ pc' = "answered" /\ pRemaining' = pRemaining - 1
        /\ answer'.remaining = pRemaining' /\ UNCHANGED <<quota, quotaFile>>
    BY <1>1 DEF Serves
  <2> QED
    BY <2>1, <1>t DEF Counted, Covered, Believed, Flight, Quotas
<1>2. CASE Refuses
  <2>1. /\ pc = "sent" /\ pc' = "answered" /\ pRemaining' = pRemaining
        /\ answer'.remaining = 0 /\ UNCHANGED <<quota, quotaFile>>
    BY <1>2 DEF Refuses, provider
  <2> QED
    BY <2>1, <1>t DEF Counted, Covered, Believed, Flight, Quotas
<1>3. CASE Loses
  <2>1. /\ pc = "sent" /\ pc' = "failed" /\ pRemaining' \in {pRemaining, Later(0, pRemaining - 1)}
        /\ UNCHANGED <<quota, quotaFile>>
    BY <1>3 DEF Loses, Raise
  <2> QED
    BY <2>1, <1>t DEF Counted, Covered, Believed, Flight, Quotas, Later
<1>4. CASE Claim \/ StartFails \/ ReadKey \/ Persist \/ TryAgain
  <2>1. /\ UNCHANGED <<pRemaining, quota, quotaFile, answer>>
        /\ pc # "down" /\ pc' \notin {"sent", "answered", "down"}
    BY <1>4 DEF Claim, StartFails, ReadKey, Persist, TryAgain, Raise, provider
  <2> QED
    BY <2>1, CountedKept
<1>5. CASE FetchAll
  <2>1. /\ pc = "fetch" /\ pc' \in {"failed", "ask"} /\ quota' = Rolled(quota)
        /\ UNCHANGED <<quotaFile, pRemaining>>
    BY <1>5 DEF FetchAll, Raise, provider
  <2> QED
    BY <2>1, <1>t, <1>r DEF Counted, Covered, Believed, Flight, Quotas
<1>6. CASE Ask
  <2> DEFINE q == Rolled(quota)
  <2>1. pc = "ask" /\ UNCHANGED pRemaining
    BY <1>6 DEF Ask, provider
  <2>q. /\ q \in Quotas /\ q.known = quota.known
        /\ quota.known => q.remaining <= pRemaining + q.forgot
    BY <1>r
  <2> HIDE DEF q
  <2>2. CASE quota' = q /\ pc' = "failed" /\ UNCHANGED quotaFile
    BY <2>1, <2>2, <2>q, <1>t DEF Counted, Covered, Believed, Flight, Quotas
  <2>3. ASSUME WaitForOne(q) = 0, quota' = Reserved(q),
               \/ pc' = "sent" /\ SaveReserved(q)
               \/ q.known /\ SaveFails /\ pc' = "failed"
        PROVE Counted'
    <3>1. CASE quota.known
      <4>1. q.remaining >= 1 /\ q.remaining \in Int
        <5>1. q.known /\ WaitForOne(q) = 0
          BY <2>q, <3>1, <2>3
        <5>2. q.remaining >= 1
          BY <2>q, <5>1, WaitsForOne
        <5> QED
          BY <2>q, <5>2, Sizes DEF Quotas
      <4>2. /\ Reserved(q) \in Quotas /\ Reserved(q).known
            /\ Reserved(q).remaining = q.remaining - 1 /\ Reserved(q).forgot = q.forgot
        <5>1. q.known /\ q.remaining > 0
          BY <2>q, <3>1, <4>1
        <5> QED
          BY <2>q, <5>1, Reserving
      <4>3. q.remaining <= Limit /\ q.remaining <= pRemaining + q.forgot /\ q.forgot \in Int
        BY <2>q, <3>1, Sizes DEF Quotas
      <4>4. Covered(quota)' /\ pc' \in {"sent", "failed"}
        BY <2>1, <2>3, <1>t, <4>1, <4>2, <4>3 DEF Covered, Flight
      <4>5. quotaFile' = quota' \/ (quotaFile' = quotaFile /\ pc' = "failed")
        BY <2>q, <3>1, <2>3 DEF SaveReserved, Save, SaveFails
      <4>6. Believed(quotaFile)' => Covered(quotaFile)'
        BY <2>1, <1>t, <4>4, <4>5 DEF Covered, Flight, Believed, Counted, Quotas
      <4> QED
        BY <2>3, <4>2, <4>4, <4>6 DEF Counted
    <3>2. CASE ~quota.known
      <4>1. ~Reserved(q).known /\ UNCHANGED quotaFile /\ pc' = "sent"
        BY <2>q, <3>2, <2>3, Reserving DEF SaveReserved, SaveFails
      <4> QED
        BY <2>1, <2>3, <3>2, <4>1 DEF Counted, Believed
    <3> QED
      BY <3>1, <3>2
  <2> QED
    BY <1>6, <2>2, <2>3 DEF Ask, Raise, WaitForOne, q
<1>7. CASE Receive
  <2> DEFINE seen == Accepted(quota, answer.remaining, answer.left)
             e == answer.edition
             planned == [seen EXCEPT !.pages = Pages(e)]
  <2> DEFINE Fine(q) == q \in Quotas /\ q.remaining <= pRemaining + q.forgot /\ q.remaining <= Limit
  <2>1. pc = "answered" /\ pc' \notin {"sent", "answered", "down"} /\ UNCHANGED pRemaining
    BY <1>7 DEF Receive, Rejected, Raise, TakeFirstPage, TakePage, provider
  <2>2. seen \in Quotas /\ (quota.known => seen.known) /\ (seen.known => Fine(seen))
    <3>1. answer.remaining \in 0 .. Limit /\ answer.left \in Lefts /\ answer.remaining <= pRemaining
      BY <2>1 DEF Types, Answers, AnyAnswers, Counted
    <3>2. quota.known => Fine(quota)
      BY <2>1, <1>t DEF Counted, Covered, Flight, Quotas
    <3> HIDE DEF Fine
    <3>3. /\ seen \in Quotas
          /\ seen = quota \/ (seen.known /\ seen.remaining = answer.remaining /\ seen.forgot = 0)
      BY <1>t, <3>1, Accepting
    <3> HIDE DEF seen
    <3>4. CASE seen = quota
      BY <3>2, <3>3, <3>4
    <3>5. CASE seen.known /\ seen.remaining = answer.remaining /\ seen.forgot = 0
      BY <1>t, <3>1, <3>3, <3>5 DEF Fine
    <3> QED
      BY <3>3, <3>4, <3>5
  <2> HIDE DEF seen
  <2>3. answer.status = "ok" =>
          /\ planned \in Quotas /\ planned.known = seen.known /\ (seen.known => Fine(planned))
          /\ Rolled(planned) \in Quotas /\ Rolled(planned).known = seen.known
          /\ (seen.known => Fine(Rolled(planned)))
    <3>1. SUFFICES ASSUME answer.status = "ok" PROVE
             /\ planned \in Quotas /\ planned.known = seen.known /\ (seen.known => Fine(planned))
             /\ Rolled(planned) \in Quotas /\ Rolled(planned).known = seen.known
             /\ (seen.known => Fine(Rolled(planned)))
      OBVIOUS
    <3>2. Pages(e) \in 1 .. MaxPages
      BY <3>1, Sizes DEF Types
    <3>3. planned \in Quotas /\ planned.known = seen.known /\ (seen.known => Fine(planned))
      BY <2>2, <3>2 DEF Quotas
    <3> HIDE DEF planned
    <3>4. /\ Rolled(planned) \in Quotas /\ Rolled(planned).known = planned.known
          /\ Rolled(planned) = planned \/ (Rolled(planned).remaining = Limit /\ Rolled(planned).forgot = Limit - pRemaining)
      BY <1>t, <3>3, Rolling
    <3> QED
      BY <1>t, <3>3, <3>4
  <2>4. /\ quota' \in {seen} \cup (IF answer.status = "ok" THEN {planned, Rolled(planned)} ELSE {})
        /\ quotaFile' = quotaFile \/ quotaFile' = seen \/ (answer.status = "ok" /\ quotaFile' = planned)
        /\ quotaFile' = quotaFile => quota' = seen \/ seen.known \/ quotaFile = seen \/ (answer.status = "ok" /\ quotaFile = planned)
    BY <1>7 DEF Receive, Rejected, TakeFirstPage, Save, SaveFails, seen, planned, e
  <2> HIDE DEF planned, e
  <2>5. quota' \in Quotas /\ quota'.known = seen.known /\ (seen.known => Fine(quota'))
    BY <2>2, <2>3, <2>4
  <2>6. quotaFile' # quotaFile => quotaFile'.known = seen.known /\ (seen.known => Fine(quotaFile'))
    BY <2>2, <2>3, <2>4
  <2>7. Covered(quota)' \/ ~quota'.known
    BY <2>1, <2>5, <1>t DEF Covered, Flight, Quotas
  <2>8. Believed(quotaFile)' => Covered(quotaFile)'
    <3>1. CASE quotaFile' = quotaFile
      BY <2>1, <1>t, <3>1 DEF Counted, Covered, Flight, Believed, Quotas
    <3>2. CASE quotaFile' # quotaFile
      <4>1. SUFFICES ASSUME Believed(quotaFile)' PROVE Covered(quotaFile)'
        OBVIOUS
      <4>2. Fine(quotaFile')
        BY <2>6, <3>2, <4>1 DEF Believed
      <4> QED
        BY <2>1, <1>t, <4>2 DEF Covered, Flight, Quotas
    <3> QED
      BY <3>1, <3>2
  <2>9. ~quota'.known => ~Believed(quotaFile)'
    BY <2>1, <2>2, <2>5, <2>6 DEF Believed, Counted
  <2> QED
    BY <2>1, <2>7, <2>8, <2>9 DEF Counted
<1>8. CASE Publish
  <2> DEFINE q == Rolled(quota)
  <2>1. /\ pc = "publish" /\ pc' = "idle" /\ UNCHANGED pRemaining
        /\ quota' \in Quotas /\ quota'.known = q.known /\ quota'.remaining = q.remaining /\ quota'.forgot = q.forgot
        /\ quotaFile' \in {quotaFile, quota'}
    <3>1. /\ pc = "publish" /\ UNCHANGED pRemaining /\ quotaFile' \in {quotaFile, quota'}
          /\ Appointment(q, Later(0, NextDelay(q) - cacheFile.age)) \/ Appointment(q, FailureRetry)
      BY <1>8 DEF Publish, Save, provider
    <3>2. Later(0, NextDelay(q) - cacheFile.age) \in Nat /\ FailureRetry \in Nat
      BY <1>r, Delays, Sizes DEF Types, IsList, Later
    <3> HIDE DEF q
    <3>3. q \in Quotas
      BY <1>r DEF q
    <3> QED
      BY <3>1, <3>2, <3>3, AppointmentTypes
  <2> HIDE DEF q
  <2>2. q \in Quotas /\ q.known = quota.known /\ (quota.known => q.remaining <= pRemaining + q.forgot)
    BY <1>r DEF q
  <2> QED
    BY <2>1, <2>2, <1>t DEF Counted, Covered, Believed, Flight, Quotas
<1>9. CASE GiveUp
  <2>1. /\ pc = "failed" /\ pc' = "idle" /\ UNCHANGED pRemaining
        /\ quota' \in Quotas /\ quota'.known = quota.known /\ quota'.remaining = quota.remaining
        /\ quota'.forgot = quota.forgot /\ quotaFile' \in {quotaFile, quota'}
    <3>1. RetryDelay \in Nat
      BY Sizes DEF RetryDelay, Later, Types
    <3> QED
      BY <1>9, <1>t, <3>1, AppointmentTypes DEF GiveUp, Save, SaveFails, provider
  <2> QED
    BY <2>1, <1>t DEF Counted, Covered, Believed, Flight, Quotas
<1>10. CASE Crash
  <2>1. /\ pc' = "down" /\ pRemaining' \in IF pc = "sent" THEN {pRemaining, Later(0, pRemaining - 1)} ELSE {pRemaining}
        /\ ~quota'.known /\ UNCHANGED quotaFile
    BY <1>10 DEF Crash, NoQuota
  <2> QED
    BY <2>1, <1>t DEF Counted, Covered, Believed, Flight, Quotas, Later
<1>11. CASE Restart
  <2>1. /\ pc = "down" /\ pc' = "idle" /\ UNCHANGED <<pRemaining, quotaFile>>
        /\ quota'.known = Believed(quotaFile)
        /\ Believed(quotaFile) => quota'.remaining = quotaFile.remaining /\ quota'.forgot = quotaFile.forgot
    BY <1>11, <1>t, Loading DEF Restart, provider
  <2> QED
    BY <2>1, <1>t DEF Counted, Covered, Believed, Flight, Quotas
<1>12. CASE Disturb
  BY <1>12 DEF Disturb, provider, control, Counted, Covered, Believed, Flight
<1>13. CASE Tick
  <2>1. /\ pc' = pc /\ quota' = QuotaNearer(quota, pLeft = 1) /\ quotaFile' = QuotaNearer(quotaFile, pLeft = 1)
        /\ \/ pLeft # 1 /\ pRemaining' = pRemaining
           \/ pLeft = 1 /\ pRemaining' = Limit
        /\ answer'.remaining = answer.remaining
    BY <1>13 DEF Tick, Types, Answers, AnyAnswers
  <2>2. ASSUME NEW q \in Quotas
        PROVE  /\ QuotaNearer(q, pLeft = 1).known = q.known /\ QuotaNearer(q, pLeft = 1).remaining = q.remaining
               /\ QuotaNearer(q, pLeft = 1).forgot = IF pLeft = 1 THEN 0 ELSE q.forgot
               /\ q.known /\ QuotaNearer(q, pLeft = 1).left >= -Day => q.left >= -Day
    BY <1>t DEF Quotas, Lefts, QuotaNearer, Nearer, Later
  <2>3. /\ quota'.known = quota.known /\ quota'.remaining = quota.remaining
        /\ quota'.forgot = IF pLeft = 1 THEN 0 ELSE quota.forgot
        /\ quotaFile'.known = quotaFile.known /\ quotaFile'.remaining = quotaFile.remaining
        /\ quotaFile'.forgot = IF pLeft = 1 THEN 0 ELSE quotaFile.forgot
        /\ Believed(quotaFile)' => Believed(quotaFile)
    BY <1>t, <2>1, <2>2 DEF Believed
  <2>4. /\ pc = "answered" => answer'.remaining <= pRemaining'
    BY <1>t, <2>1 DEF Counted, Types, Answers, AnyAnswers
  <2> QED
    BY <1>t, <2>1, <2>3, <2>4 DEF Counted, Covered, Flight, Quotas
<1> QED
  BY <1>1, <1>2, <1>3, <1>4, <1>5, <1>6, <1>7, <1>8, <1>9, <1>10, <1>11, <1>12, <1>13 DEF Next, Answering, Refreshing

---------------------------------------------------------------------------
(* The pages.                                                               *)

(* A page that fits to those before is the next one, or the last one.       *)
LEMMA TakePageCollected ==
  ASSUME Types, Collected, pc = "answered", NEW e \in Editions, Consistent(e), TakePage(e)
  PROVE  Collected' /\ pc' \in {"ask", "collected"}
<1>1. /\ page \in Nat \ {0} /\ Numbers(read) = 1 .. page - 1 /\ page <= Pages(e) /\ Pages(e) \in Nat
      /\ \A r \in read : Version(r[2]) = Version(e) /\ Pages(r[2]) = Pages(e)
  BY Sizes DEF Types, Collected, Consistent
<1>2. read' = read \cup {<<page, e>>}
  BY DEF TakePage
<1>3. \A r \in read' : Version(r[2]) = Version(e) /\ Pages(r[2]) = Pages(e)
  BY <1>1, <1>2
<1>4. Numbers(read') = 1 .. page
  <2>1. Numbers(read') = Numbers(read) \cup {page}
    <3> DEFINE next == <<page, e>>
    <3>1. next[1] = page /\ read' = read \cup {next}
      BY <1>2
    <3> HIDE DEF next
    <3>2. \A n : n \in Numbers(read') <=> n \in Numbers(read) \/ n = page
      BY <3>1 DEF Numbers
    <3> QED
      BY <3>2
  <2> QED
    BY <1>1, <2>1
<1>5. CASE page = Pages(e) /\ pc' = "collected"
  BY <1>2, <1>3, <1>4, <1>5 DEF Collected
<1>6. CASE page < Pages(e) /\ pc' = "ask" /\ page' = page + 1
  <2>1. page' > 0 /\ page' - 1 = page /\ page' <= Pages(e)
    BY <1>1, <1>6
  <2> QED
    BY <1>3, <1>4, <1>6, <2>1 DEF Collected
<1> QED
  BY <1>5, <1>6 DEF TakePage

LEMMA CollectedStep == Types /\ Collected /\ Next => Collected'
<1> SUFFICES ASSUME Types, Collected, Next PROVE Collected'
  OBVIOUS
<1>1. CASE UNCHANGED <<page, read>> /\ pc \in {"ask", "sent", "answered"} /\ pc' \in {"ask", "sent", "answered"}
  BY <1>1 DEF Collected, Numbers
<1>2. CASE pc' \notin {"ask", "sent", "answered", "collected"}
  BY <1>2 DEF Collected
<1>3. CASE UNCHANGED <<page, read, pc>>
  BY <1>3 DEF Collected, Numbers
<1>4. CASE FetchAll
  <2>1. read' = {} /\ (pc' = "failed" \/ (pc' = "ask" /\ page' = 1))
    BY <1>4 DEF FetchAll, Raise
  <2> QED
    BY <2>1 DEF Collected, Numbers
<1>5. CASE Ask
  <2>1. UNCHANGED <<page, read>> /\ pc = "ask" /\ pc' \in {"sent", "failed"}
    BY <1>5 DEF Ask, Raise
  <2> QED
    BY <1>1, <1>2, <2>1
<1>6. CASE Receive
  <2> DEFINE e == answer.edition
  <2>1. CASE answer.status = "ok" /\ Consistent(e) /\ TakePage(e)
    BY <1>6, <2>1, TakePageCollected DEF Receive, Types
  <2>2. CASE pc' = "failed"
    BY <1>2, <2>2
  <2> QED
    BY <1>6, <2>1, <2>2 DEF Receive, Rejected, TakeFirstPage, Raise
<1>7. CASE Answering
  <2>1. UNCHANGED <<page, read>> /\ pc = "sent" /\ pc' = "answered"
    BY <1>7 DEF Answering, Serves, Refuses
  <2> QED
    BY <1>1, <2>1
<1>8. CASE Loses \/ Claim \/ ReadKey \/ StartFails \/ Persist \/ Publish \/ TryAgain \/ GiveUp \/ Crash \/ Restart
  <2>1. pc' \notin {"ask", "sent", "answered", "collected"}
    BY <1>8 DEF Loses, Claim, ReadKey, StartFails, Persist, Publish, TryAgain, GiveUp, Crash, Restart, Raise, Appointment
  <2> QED
    BY <1>2, <2>1
<1>9. CASE Disturb \/ Tick
  BY <1>3, <1>9 DEF Disturb, Tick, control
<1> QED
  BY <1>4, <1>5, <1>6, <1>7, <1>8, <1>9 DEF Next, Refreshing

---------------------------------------------------------------------------
(* The margin.                                                              *)

(* What covers n requests before a roll covers them after it.               *)
LEMMA RolledAhead ==
  ASSUME NEW q \in Quotas, pRemaining \in 0 .. Limit, NEW n \in Int, n <= MaxPages,
         q.known /\ q.forgot > 0 => q.remaining >= Margin + n
  PROVE  Rolled(q).known /\ Rolled(q).forgot > 0 => Rolled(q).remaining >= Margin + n
<1>1. CASE Rolled(q) = q
  BY <1>1
<1>2. CASE Rolled(q).remaining = Limit
  BY <1>2, Sizes
<1> QED
  BY <1>1, <1>2, Rolling

LEMMA TakePageReserve ==
  ASSUME Types, Collected, pc = "answered", NEW e \in Editions, Consistent(e), TakePage(e),
         quota'.known /\ quota'.forgot > 0 => quota'.remaining >= Margin + (Pages(e) - page)
  PROVE  Reserve'
<1>1. CASE pc' = "collected"
  BY <1>1 DEF Reserve
<1>2. CASE page' = page + 1 /\ pc' = "ask"
  <2>1. \A r \in read' : Pages(r[2]) = Pages(e)
    BY DEF TakePage, Consistent
  <2>2. page \in Nat /\ Pages(e) \in Nat /\ page > 0
    BY Sizes DEF Types, Collected
  <2>3. page' # 1 /\ Pages(e) - page' + 1 = Pages(e) - page
    BY <1>2, <2>2
  <2> QED
    BY <1>2, <2>1, <2>3 DEF Reserve, Ahead
<1> QED
  BY <1>1, <1>2 DEF TakePage

LEMMA ReserveStep == Types /\ Collected /\ Reserve /\ Next => Reserve'
<1> SUFFICES ASSUME Types, Collected, Reserve, Next PROVE Reserve'
  OBVIOUS
<1>t. /\ quota \in Quotas /\ pRemaining \in 0 .. Limit /\ Rolled(quota) \in Quotas
      /\ Rolled(quota).pages = quota.pages
  BY Rolling DEF Types
<1>2. CASE pc' \notin {"ask", "sent", "answered"}
  BY <1>2 DEF Reserve
<1>3. CASE UNCHANGED <<quota, page, read, pc>>
  BY <1>3 DEF Reserve, Ahead
<1>4. CASE FetchAll
  <2> DEFINE q == Rolled(quota)
  <2>1. \/ pc' = "failed"
        \/ quota' = q /\ pc' = "ask" /\ page' = 1 /\ WaitFor(q, q.pages) = 0
    BY <1>4 DEF FetchAll, Raise, WaitFor
  <2>2. q \in Quotas /\ q.pages \in Int
    BY <1>t, Sizes DEF Quotas
  <2> HIDE DEF q
  <2>3. WaitFor(q, q.pages) = 0 /\ q.known => q.remaining >= q.pages + Margin
    BY <2>2, Waits
  <2> QED
    BY <2>1, <2>2, <2>3, Sizes DEF Reserve, Ahead, Quotas
<1>5. CASE Ask
  <2> DEFINE q == Rolled(quota)
  <2>1. \/ pc' = "failed"
        \/ pc' = "sent" /\ quota' = Reserved(q) /\ WaitForOne(q) = 0
    BY <1>5 DEF Ask, Raise, WaitForOne
  <2>2. UNCHANGED <<page, read>> /\ pc = "ask"
    BY <1>5 DEF Ask
  <2>3. ASSUME NEW n \in Int, n <= MaxPages, Ahead(n), quota' = Reserved(q), WaitForOne(q) = 0
        PROVE  quota'.known /\ quota'.forgot > 0 => quota'.remaining >= Margin + (n - 1)
    <3>1. q.known /\ q.forgot > 0 => q.remaining >= Margin + n
      BY <1>t, <2>3, RolledAhead DEF Ahead
    <3>2. q \in Quotas
      BY <1>t
    <3> HIDE DEF q
    <3>3. q.known => q.remaining > 0
      BY <2>3, <3>2, WaitsForOne, Sizes DEF Quotas
    <3>4. /\ Reserved(q).known = q.known /\ Reserved(q).forgot = q.forgot
          /\ q.known => Reserved(q).remaining = q.remaining - 1
      BY <3>2, <3>3, Reserving
    <3>5. q.remaining \in Int
      BY <3>2, Sizes DEF Quotas
    <3> QED
      BY <2>3, <3>1, <3>4, <3>5, Sizes DEF Ahead
  <2>4. CASE pc' = "sent" /\ page = 1
    <3>1. /\ quota.pages \in Int /\ quota.pages <= MaxPages /\ Ahead(quota.pages)
      BY <1>t, <2>2, <2>4, Sizes DEF Quotas, Reserve
    <3>2. quota'.known /\ quota'.forgot > 0 => quota'.remaining >= Margin + (quota.pages - 1)
      BY <2>1, <2>3, <2>4, <3>1
    <3>3. quota'.pages = quota.pages
      BY <1>t, <2>1, <2>4, Reserving
    <3> QED
      BY <2>2, <2>4, <3>2, <3>3 DEF Reserve, Ahead
  <2>5. CASE pc' = "sent" /\ page # 1
    <3>1. page > 1 /\ page \in Nat
      BY <2>2, <2>5 DEF Types, Collected
    <3>2. ASSUME NEW r \in read
          PROVE  quota'.known /\ quota'.forgot > 0 => quota'.remaining >= Margin + (Pages(r[2]) - page)
      <4>1. Pages(r[2]) \in 1 .. MaxPages /\ MaxPages \in Nat
        BY Sizes DEF Types
      <4> DEFINE n == Pages(r[2]) - page + 1
      <4>2. n \in Int /\ n <= MaxPages /\ Ahead(n) /\ n - 1 = Pages(r[2]) - page
        BY <2>2, <3>1, <4>1 DEF Reserve
      <4> HIDE DEF n
      <4>3. quota'.known /\ quota'.forgot > 0 => quota'.remaining >= Margin + (n - 1)
        BY <2>1, <2>3, <2>5, <4>2
      <4> QED
        BY <4>2, <4>3
    <3> QED
      BY <2>2, <2>5, <3>1, <3>2 DEF Reserve, Ahead
  <2> QED
    BY <1>2, <2>1, <2>4, <2>5
<1>6. CASE Receive
  <2> DEFINE e == answer.edition
             seen == Accepted(quota, answer.remaining, answer.left)
             planned == [seen EXCEPT !.pages = Pages(e)]
  <2>0. pc = "answered"
    BY <1>6 DEF Receive
  <2>1. seen \in Quotas
    BY Accepting DEF Types, Answers, AnyAnswers
  <2>2. CASE pc' = "failed"
    BY <1>2, <2>2
  <2>3. ASSUME answer.status = "ok", Consistent(e), TakePage(e), quota' = Rolled(planned),
               WaitFor(Rolled(planned), Pages(e) - 1) = 0, page = 1
        PROVE  Reserve'
    <3>1. e \in Editions /\ Pages(e) \in 1 .. MaxPages /\ Pages(e) - 1 \in Int
      BY <2>3, Sizes DEF Types
    <3>2. planned \in Quotas
      BY <2>1, <3>1 DEF Quotas
    <3> HIDE DEF planned
    <3>3. Rolled(planned) \in Quotas
      BY <1>t, <3>2, Rolling
    <3>4. Rolled(planned).known => Rolled(planned).remaining >= Pages(e) - 1 + Margin
      BY <2>3, <3>1, <3>3, Waits
    <3>5. quota'.known /\ quota'.forgot > 0 => quota'.remaining >= Margin + (Pages(e) - page)
      BY <2>3, <3>1, <3>3, <3>4, Sizes DEF Quotas
    <3> QED
      BY <2>0, <2>3, <3>1, <3>5, TakePageReserve
  <2>4. ASSUME answer.status = "ok", Consistent(e), TakePage(e), quota' = seen, page > 1
        PROVE  Reserve'
    <3>1. e \in Editions /\ Pages(e) \in 1 .. MaxPages
      BY <2>4, Sizes DEF Types
    <3>2. \E r \in read : TRUE
      <4>1. 1 \in 1 .. page - 1
        BY <2>4 DEF Types
      <4> QED
        BY <2>0, <4>1 DEF Collected, Numbers
    <3>3. Ahead(Pages(e) - page)
      BY <2>0, <2>4, <3>2 DEF Reserve, Consistent
    <3>4. seen = quota \/ seen.forgot = 0
      BY <1>t, Accepting DEF Types, Answers, AnyAnswers
    <3>5. quota'.known /\ quota'.forgot > 0 => quota'.remaining >= Margin + (Pages(e) - page)
      BY <2>4, <3>3, <3>4 DEF Ahead
    <3> QED
      BY <2>0, <2>4, <3>1, <3>5, TakePageReserve
  <2> QED
    BY <1>6, <2>2, <2>3, <2>4 DEF Receive, Rejected, TakeFirstPage, Raise, WaitFor
<1>7. CASE Answering
  <2>1. UNCHANGED <<quota, page, read>> /\ pc = "sent" /\ pc' = "answered"
    BY <1>7 DEF Answering, Serves, Refuses
  <2> QED
    BY <2>1 DEF Reserve, Ahead
<1>8. CASE Loses \/ Claim \/ ReadKey \/ StartFails \/ Persist \/ Publish \/ TryAgain \/ GiveUp \/ Crash \/ Restart
  <2>1. pc' \notin {"ask", "sent", "answered"}
    BY <1>8 DEF Loses, Claim, ReadKey, StartFails, Persist, Publish, TryAgain, GiveUp, Crash, Restart, Raise, Appointment
  <2> QED
    BY <1>2, <2>1
<1>9. CASE Disturb
  BY <1>3, <1>9 DEF Disturb, control
<1>10. CASE Tick
  <2>1. /\ quota' = QuotaNearer(quota, pLeft = 1) /\ UNCHANGED <<pc, page, read>>
    BY <1>10 DEF Tick
  <2>2. /\ quota'.known = quota.known /\ quota'.remaining = quota.remaining /\ quota'.pages = quota.pages
        /\ quota'.forgot \in {0, quota.forgot}
    BY <1>t, <2>1 DEF QuotaNearer, Quotas
  <2> QED
    BY <2>1, <2>2 DEF Reserve, Ahead
<1> QED
  BY <1>4, <1>5, <1>6, <1>7, <1>8, <1>9, <1>10 DEF Next, Refreshing

---------------------------------------------------------------------------
(* The published list.                                                      *)

LEMMA PersistWhole ==
  ASSUME Types, Collected, pc = "collected", AllRows(read) # {}, ~Conflict(AllRows(read))
  PROVE  Whole([version |-> Version((CHOOSE r \in read : TRUE)[2]), read |-> read,
                rows |-> AllRows(read), age |-> 0])
<1> DEFINE version == Version((CHOOSE r \in read : TRUE)[2])
           list == [version |-> version, read |-> read, rows |-> AllRows(read), age |-> 0]
<1>1. \A r \in read : Version(r[2]) = version
  <2>1. (CHOOSE r \in read : TRUE) \in read
    BY DEF Collected
  <2> QED
    BY <2>1 DEF Collected
<1> HIDE DEF version
<1>2. list.version = version /\ list.read = read /\ list.rows = AllRows(read)
  OBVIOUS
<1>3. \A r \in read : Numbers(read) = 1 .. Pages(r[2])
  BY DEF Collected
<1>4. \A a, b \in AllRows(read) : a.id = b.id => a = b
  BY DEF Conflict
<1>5. Whole(list)
  BY <1>1, <1>2, <1>3, <1>4 DEF Whole
<1> QED
  BY <1>5 DEF version

LEMMA OlderWhole ==
  ASSUME NEW l, IsList(l), Whole(l) PROVE Whole(Older(l))
<1>1. CASE l = NoList
  BY <1>1 DEF Older
<1>2. CASE l # NoList
  <2>1. Older(l).version = l.version /\ Older(l).read = l.read /\ Older(l).rows = l.rows
    BY <1>2 DEF Older, IsList
  <2> QED
    BY <1>2, <2>1 DEF Whole
<1> QED
  BY <1>1, <1>2

LEMMA PublishedStep == Types /\ Collected /\ Published /\ Next => Published'
<1> SUFFICES ASSUME Types, Collected, Published, Next PROVE Published'
  OBVIOUS
<1>1. CASE Persist
  <2>1. CASE UNCHANGED <<cache, cacheFile>>
    BY <1>1, <2>1 DEF Persist, Published, CacheKept, Whole
  <2>2. CASE /\ AllRows(read) # {} /\ ~Conflict(AllRows(read)) /\ pc' = "publish" /\ cache' = cache
             /\ cacheFile' = [version |-> Version((CHOOSE r \in read : TRUE)[2]), read |-> read,
                             rows |-> AllRows(read), age |-> 0]
    <3>1. Whole(cacheFile')
      BY <1>1, <2>2, PersistWhole DEF Persist
    <3> QED
      BY <2>2, <3>1 DEF Published, CacheKept, Whole
  <2> QED
    BY <1>1, <2>1, <2>2 DEF Persist
<1>2. CASE Publish
  BY <1>2 DEF Publish, Published, CacheKept, Whole
<1>3. CASE Crash
  BY <1>3 DEF Crash, Published, CacheKept, Whole
<1>4. CASE Restart
  BY <1>4 DEF Restart, LoadCache, Published, CacheKept, Whole
<1>5. CASE Tick
  <2>1. cache' = Older(cache) /\ cacheFile' = Older(cacheFile) /\ pc' = pc
    BY <1>5 DEF Tick
  <2>2. Whole(Older(cache)) /\ Whole(Older(cacheFile))
    BY OlderWhole DEF Types, Published
  <2> QED
    BY <2>1, <2>2 DEF Published, CacheKept, Whole
<1>6. CASE \/ Serves \/ Refuses \/ Loses \/ Claim \/ StartFails \/ ReadKey \/ FetchAll \/ Ask \/ Receive
           \/ TryAgain \/ GiveUp \/ Disturb
  <2>1. (UNCHANGED <<cache, cacheFile>> /\ pc \notin {"publish", "down"}) \/ UNCHANGED <<cache, cacheFile, pc>>
    BY <1>6 DEF Serves, Refuses, Loses, Claim, StartFails, ReadKey, FetchAll, Ask, Receive,
       TryAgain, GiveUp, Disturb, control
  <2> QED
    BY <2>1 DEF Published, CacheKept, Whole
<1> QED
  BY <1>1, <1>2, <1>3, <1>4, <1>5, <1>6 DEF Next, Answering, Refreshing

---------------------------------------------------------------------------
(* The provider's pause.                                                    *)

LEMMA KeptStep ==
  ASSUME Types, Kept, Next, ~Receive, ~Crash
  PROVE  Kept'
<1>t. asked \in Nat /\ due \in Int /\ error.retryAfter \in Int /\ quota \in Quotas /\ quotaFile \in Quotas
      /\ cacheFile.age \in Int /\ answer.retryAfter \in Nat
  BY DEF Types, IsList, Answers, AnyAnswers
<1>1. CASE /\ pc \notin {"idle", "failed", "down"} /\ UNCHANGED pause
           /\ pc' \notin {"idle", "failed", "down"}
  BY <1>1 DEF Kept, pause
<1>2. CASE /\ pc \notin {"idle", "failed", "down"} /\ UNCHANGED pause
           /\ \E transient, retryAfter : Raise(transient, retryAfter) /\ retryAfter \in Nat
  BY <1>2 DEF Kept, pause, Raise
<1>3. CASE Answering
  BY <1>1, <1>3 DEF Answering, Serves, Refuses
<1>4. CASE Loses
  BY <1>2, <1>4 DEF Loses
<1>5. CASE Claim
  BY <1>5, <1>t DEF Claim, Kept, pause
<1>6. CASE StartFails
  BY <1>6, Sizes DEF StartFails, Kept, pause
<1>7. CASE ReadKey
  BY <1>1, <1>2, <1>7 DEF ReadKey
<1>8. CASE FetchAll
  <2> DEFINE wait == WaitFor(Rolled(quota), Rolled(quota).pages)
  <2>1. wait \in Nat
    <3>1. Rolled(quota) \in Quotas /\ Rolled(quota).pages \in Int
      BY <1>t, Rolling, Sizes DEF Types, Quotas
    <3> QED
      BY <3>1, Waits
  <2> HIDE DEF wait
  <2>2. UNCHANGED pause /\ pc = "fetch" /\ (Raise(TRUE, wait) \/ pc' = "ask")
    BY <1>8 DEF FetchAll, wait, WaitFor
  <2> QED
    BY <1>1, <1>2, <2>1, <2>2
<1>9. CASE Ask
  <2> DEFINE wait == WaitForOne(Rolled(quota))
  <2>1. wait \in Nat
    BY <1>t, Rolling, WaitsForOne DEF Types
  <2> HIDE DEF wait
  <2>2. UNCHANGED pause /\ pc = "ask" /\ (Raise(TRUE, wait) \/ Raise(FALSE, 0) \/ pc' = "sent")
    BY <1>9 DEF Ask, wait, WaitForOne
  <2> QED
    BY <1>1, <1>2, <2>1, <2>2
<1>11. CASE Persist
  <2>1. /\ pc = "collected" /\ UNCHANGED pause
        /\ pc' = "publish" \/ \E transient : Raise(transient, 0)
    BY <1>11 DEF Persist
  <2> QED
    BY <1>1, <1>2, <2>1
<1>12. CASE Publish
  <2>1. /\ pc = "publish" /\ pc' = "idle" /\ UNCHANGED pause
        /\ due' \in {Later(0, NextDelay(Rolled(quota)) - cacheFile.age), FailureRetry}
    BY <1>12 DEF Publish, Appointment
  <2>2. NextDelay(Rolled(quota)) \in Int
    BY <1>t, Rolling, Delays DEF Types
  <2>3. due' >= 0
    BY <1>t, <2>1, <2>2, Sizes DEF Later
  <2> QED
    BY <2>1, <2>3 DEF Kept, pause
<1>13. CASE TryAgain
  BY <1>13, <1>t DEF TryAgain, Kept, pause
<1>14. CASE GiveUp
  <2>1. pc = "failed" /\ pc' = "idle" /\ due' = Later(FailureRetry, error.retryAfter) /\ UNCHANGED pause
    BY <1>14 DEF GiveUp, Appointment, RetryDelay
  <2> QED
    BY <1>t, <2>1, Sizes DEF Kept, pause, Later
<1>16. CASE Restart
  <2>1. /\ pc = "down" /\ pc' = "idle" /\ UNCHANGED pause
        /\ \E other \in Int : due' = Later(quota'.hold, other)
        /\ quota'.hold = IF quotaFile.hold <= Day THEN quotaFile.hold ELSE 0
    <3>1. quota'.hold = IF quotaFile.hold <= Day THEN quotaFile.hold ELSE 0
      BY <1>16, <1>t, Loading DEF Restart
    <3>2. (IF cache' = NoList THEN 0 ELSE RefreshInterval - cache'.age) \in Int
      BY <1>16, <1>t, Sizes DEF Restart, LoadCache
    <3> QED
      BY <1>16, <3>1, <3>2 DEF Restart
  <2>2. asked = 0 \/ (asked <= quotaFile.hold /\ quotaFile.hold <= Day)
    BY <2>1, <1>t, Sizes DEF Kept
  <2>3. asked <= quota'.hold /\ quota'.hold \in Nat
    BY <1>t, <2>1, <2>2, Sizes DEF Quotas
  <2> QED
    BY <1>t, <2>1, <2>2, <2>3, Sizes DEF Kept, pause, Later, Quotas
<1>17. CASE Disturb
  BY <1>17 DEF Disturb, control, Kept, pause
<1>18. CASE Tick
  <2>1. /\ pc \in {"idle", "down", "sent", "answered"} /\ pc' = pc
        /\ asked' = Later(0, asked - 1) /\ due' = Later(0, due - 1)
        /\ quotaFile'.hold = Later(0, quotaFile.hold - 1)
    BY <1>18, <1>t DEF Tick, Nearer, QuotaNearer, Quotas
  <2> QED
    BY <1>t, <2>1, Sizes DEF Kept, pause, Later, Quotas
<1> QED
  BY <1>3, <1>4, <1>5, <1>6, <1>7, <1>8, <1>9, <1>11, <1>12, <1>13, <1>14, <1>16,
     <1>17, <1>18 DEF Next, Refreshing

(* What comes of an answer: a pause is on its way to the appointment, or    *)
(* saving the quota raised first.                                           *)
LEMMA ReceiveKeeps ==
  ASSUME Types, Receive
  PROVE  Paused'
<1> DEFINE seen == Accepted(quota, answer.remaining, answer.left)
           e == answer.edition
           ok == answer.status = "ok"
<1>1. /\ answer \in Answers /\ answer.retryAfter \in Nat
      /\ answer.retryAfter = 0 \/ answer.status \in {"unavailable", "denied"}
  BY DEF Types, Answers, AnyAnswers
<1>2. asked' = answer.retryAfter
  BY DEF Receive
<1>3. ASSUME NEW transient, NEW retryAfter \in Nat, Raise(transient, retryAfter),
             retryAfter = answer.retryAfter \/ answer.retryAfter = 0
      PROVE  Kept'
  BY <1>1, <1>2, <1>3 DEF Raise, Kept
<1>4. ASSUME TakePage(e), ok PROVE Kept'
  <2>1. pc' \in {"collected", "ask"} /\ asked' = 0
    BY <1>1, <1>2, <1>4 DEF TakePage
  <2> QED
    BY <2>1 DEF Kept
<1>5. ASSUME TakeFirstPage(seen, e), ok PROVE Kept'
  <2> DEFINE planned == [seen EXCEPT !.pages = Pages(e)]
             wait == WaitFor(Rolled(planned), Pages(e) - 1)
  <2>1. wait \in Nat
    <3>1. Pages(e) \in 1 .. MaxPages
      BY <1>5, Sizes DEF Types
    <3>2. seen \in Quotas
      BY Accepting DEF Types, Answers, AnyAnswers
    <3>3. planned \in Quotas
      BY <3>1, <3>2 DEF Quotas
    <3> HIDE DEF planned
    <3>4. Rolled(planned) \in Quotas /\ Pages(e) - 1 \in Int
      BY <3>1, <3>3, Rolling, Sizes DEF Types
    <3> QED
      BY <3>4, Waits
  <2> HIDE DEF wait
  <2>2. Raise(TRUE, wait) \/ Raise(FALSE, 0) \/ TakePage(e)
    BY <1>5 DEF TakeFirstPage, wait, WaitFor
  <2> QED
    BY <1>1, <1>3, <1>4, <1>5, <2>1, <2>2
<1>6. CASE /\ \/ ~(answer.status \in {"ok", "garbled", "cut"})
                 /\ Rejected(seen, answer.status = "unavailable", answer.retryAfter)
              \/ answer.status = "cut" /\ Rejected(seen, TRUE, 0)
              \/ answer.status = "garbled" /\ Rejected(seen, FALSE, 0)
              \/ answer.status = "ok" /\ ~Consistent(e) /\ Rejected(seen, FALSE, 0)
              \/ ok /\ TakeFirstPage(seen, e)
              \/ ok /\ TakePage(e)
           /\ missed' = FALSE
  <2> HIDE DEF seen
  <2>1. Kept'
    BY <1>1, <1>3, <1>4, <1>5, <1>6 DEF Rejected
  <2> QED
    BY <1>6, <2>1 DEF Paused
<1>7. CASE /\ \E good : Raise(good, 0)
           /\ missed' = (answer.retryAfter > 0)
  <2>1. CASE answer.retryAfter = 0
    <3>1. Kept'
      BY <1>3, <1>7, <2>1
    <3>2. missed' \in BOOLEAN
      BY <1>7
    <3> QED
      BY <3>1, <3>2 DEF Paused
  <2>2. CASE answer.retryAfter # 0
    <3>1. answer.retryAfter > 0
      BY <1>1, <2>2
    <3>2. missed' = TRUE
      BY <1>7, <3>1
    <3> QED
      BY <3>2 DEF Paused
  <2> QED
    BY <2>1, <2>2
<1> QED
  BY <1>6, <1>7, ZenonT(30) DEF Receive

LEMMA PausedStep == Types /\ Paused /\ Next => Paused'
<1> SUFFICES ASSUME Types, Paused, Next PROVE Paused'
  OBVIOUS
<1>t. asked \in Nat /\ due \in Int /\ missed \in BOOLEAN
  BY DEF Types, Paused
<1>n. ASSUME Tick PROVE ~Receive /\ ~Crash
  <2>1. pc' = pc
    BY <1>n DEF Tick
  <2>2. Receive => pc = "answered" /\ pc' \in {"failed", "ask", "collected"}
    BY DEF Receive, Rejected, TakeFirstPage, TakePage, Raise
  <2>3. Crash => pc # "down" /\ pc' = "down"
    BY DEF Crash
  <2> QED
    BY <2>1, <2>2, <2>3
<1>1. CASE Receive
  BY <1>1, ReceiveKeeps
<1>2. CASE Crash
  <2>1. /\ pc' = "down" /\ UNCHANGED <<quotaFile, asked>>
        /\ missed' = (asked > 0 /\ (missed \/ quotaFile.hold \notin asked .. Day))
    BY <1>2 DEF Crash
  <2>2. CASE asked = 0 \/ quotaFile.hold \in asked .. Day
    <3>1. Kept'
      BY <2>1, <2>2 DEF Kept
    <3>2. missed' \in BOOLEAN
      BY <2>1
    <3> QED
      BY <3>1, <3>2 DEF Paused
  <2>3. CASE ~(asked = 0 \/ quotaFile.hold \in asked .. Day)
    <3>1. asked > 0
      BY <1>t, <2>3
    <3>2. missed' = TRUE
      BY <2>1, <2>3, <3>1
    <3> QED
      BY <3>2 DEF Paused
  <2> QED
    BY <2>2, <2>3
<1>3. CASE Tick
  <2>1. /\ pc \in {"idle", "down", "sent", "answered"} /\ pc' = pc
        /\ asked' = Later(0, asked - 1) /\ due' = Later(0, due - 1)
        /\ missed' = (missed /\ asked' > 0)
    BY <1>3 DEF Tick, Nearer
  <2>2. asked' \in Nat /\ due' \in Nat
    BY <1>t, <2>1 DEF Later
  <2>3. CASE Kept
    <3>1. Kept'
      BY <1>3, <1>n, <2>3, KeptStep
    <3> QED
      BY <2>1, <3>1 DEF Paused
  <2>4. CASE missed /\ asked' > 0
    <3>1. missed' = TRUE
      BY <2>1, <2>4
    <3> QED
      BY <3>1 DEF Paused
  <2>5. CASE ~(asked' > 0)
    <3>1. asked' = 0
      BY <2>2, <2>5
    <3>2. Kept'
      BY <2>1, <2>2, <3>1 DEF Kept
    <3> QED
      BY <2>1, <3>2 DEF Paused
  <2> QED
    BY <2>3, <2>4, <2>5 DEF Paused
<1>4. CASE ~Receive /\ ~Crash /\ ~Tick
  <2>1. UNCHANGED missed
    BY <1>4 DEF Next, Answering, Serves, Refuses, Loses, Refreshing, Claim, ReadKey, FetchAll, Ask,
       Persist, Publish, TryAgain, GiveUp, StartFails, Restart, Disturb, pause
  <2>2. Kept => Kept'
    BY <1>4, KeptStep
  <2> QED
    BY <2>1, <2>2 DEF Paused
<1> QED
  BY <1>1, <1>2, <1>3, <1>4

---------------------------------------------------------------------------
(* Bounds.                                                                  *)

LEMMA Intervals ==
  /\ Day \in Nat \ {0} /\ RefreshInterval \in 1 .. Day /\ FailureRetry \in 1 .. Day /\ Fallback \in 1 .. Day
  /\ MaxAttempts \in Nat \ {0} /\ MaxPages \in Nat \ {0}
BY IndexAssumption, IntervalAssumption

LEMMA NearQuotas ==
  ASSUME NEW q \in Quotas, NearQuota(q)
  PROVE  /\ NearQuota(Rolled(q)) /\ NearQuota(Reserved(q)) /\ NearQuota(Loaded(q))
         /\ Loaded(q).hold <= Day
         /\ \A remaining \in 0 .. Limit, left \in Near : NearQuota(Accepted(q, remaining, left))
         /\ \A pages \in 1 .. MaxPages : NearQuota([q EXCEPT !.pages = pages])
         /\ \A new : NearQuota(QuotaNearer(q, new))
<1>1. q.left \in Near /\ q.hold \in Nat /\ q.hold <= Day + 1
  BY DEF NearQuota, Quotas
<1>2. NearQuota(Rolled(q))
  <2>1. Rolled(q).left \in {q.left, Day} /\ Rolled(q).hold = q.hold
    BY DEF Rolled, Quotas
  <2> QED
    BY <1>1, <2>1, Intervals DEF NearQuota, Near
<1>3. NearQuota(Reserved(q))
  BY <1>1, Reserving DEF NearQuota
<1>4. ASSUME NEW r \in Quotas, NearQuota(r), NEW remaining \in 0 .. Limit, NEW left \in Near
      PROVE  NearQuota(Accepted(r, remaining, left))
  <2>1. left \in Lefts
    BY Intervals DEF Near, Lefts
  <2> QED
    BY <1>4, <2>1, Accepting DEF NearQuota
<1>5. NearQuota(Loaded(q)) /\ Loaded(q).hold <= Day
  <2> DEFINE held == [NoQuota EXCEPT !.pages = q.pages, !.hold = IF q.hold <= Day THEN q.hold ELSE 0]
  <2>1. held \in Quotas /\ NearQuota(held) /\ held.hold <= Day
    <3>1. /\ 0 \in 0 .. Limit /\ 0 \in Lefts /\ 0 \in Near /\ q.pages \in 1 .. MaxPages
          /\ (IF q.hold <= Day THEN q.hold ELSE 0) \in 0 .. Day
      BY <1>1, Sizes DEF Lefts, Near, Quotas
    <3> DEFINE hold == IF q.hold <= Day THEN q.hold ELSE 0
    <3>2. held = [NoQuota EXCEPT !.pages = q.pages, !.hold = hold] /\ hold \in Nat /\ hold <= Day + 1 /\ hold <= Day
      BY <3>1, Intervals
    <3> HIDE DEF hold, held
    <3> QED
      BY <3>1, <3>2 DEF NoQuota, Quotas, NearQuota
  <2> HIDE DEF held
  <2>2. Loaded(q) = IF q.known THEN [Accepted(held, q.remaining, q.left) EXCEPT !.forgot = q.forgot] ELSE held
    BY DEF Loaded, held
  <2>3. /\ Accepted(held, q.remaining, q.left) \in Quotas /\ NearQuota(Accepted(held, q.remaining, q.left))
        /\ Accepted(held, q.remaining, q.left).hold = held.hold
    BY <1>1, <1>4, <2>1, Accepting DEF Quotas
  <2> QED
    BY <2>1, <2>2, <2>3 DEF NearQuota, Quotas
<1>6. \A pages \in 1 .. MaxPages : NearQuota([q EXCEPT !.pages = pages])
  BY <1>1 DEF NearQuota, Quotas
<1>7. ASSUME NEW new PROVE NearQuota(QuotaNearer(q, new))
  <2>1. (IF q.known THEN Nearer(q.left, -Day - 1) ELSE 0) \in Near /\ Nearer(q.hold, 0) <= Day + 1
    BY <1>1, Intervals DEF Near, Nearer, Later
  <2> DEFINE left == IF q.known THEN Nearer(q.left, -Day - 1) ELSE 0
             hold == Nearer(q.hold, 0)
             forgot == IF new THEN 0 ELSE q.forgot
  <2>2. QuotaNearer(q, new) = [q EXCEPT !.left = left, !.hold = hold, !.forgot = forgot]
    BY DEF QuotaNearer
  <2> HIDE DEF left, hold, forgot
  <2>3. QuotaNearer(q, new).left = left /\ QuotaNearer(q, new).hold = hold
    BY <2>2 DEF Quotas
  <2> QED
    BY <2>1, <2>3 DEF NearQuota, left, hold
<1> QED
  BY <1>2, <1>3, <1>4, <1>5, <1>6, <1>7

LEMMA NearWaits ==
  ASSUME NEW q \in Quotas, NearQuota(q)
  PROVE  /\ \A n \in Int : WaitFor(q, n) \in 0 .. Day + 1
         /\ WaitForOne(q) \in 0 .. Day + 1
<1>1. q.left \in Int /\ q.left <= Day /\ Day \in Nat
  BY Intervals DEF NearQuota, Near
<1>2. Later(1, q.left + 1) \in 0 .. Day + 1
  BY <1>1, Intervals DEF Later
<1> QED
  BY <1>1, <1>2 DEF WaitFor, WaitForOne, RequiredWait

(* A share of a window is no longer than the window.                        *)
LEMMA Spread ==
  ASSUME NEW left \in Nat, NEW batches \in Nat
  PROVE  (left + batches) \div (batches + 1) \in 0 .. left
<1> DEFINE share == (left + batches) \div (batches + 1)
<1>1. share \in Int /\ share >= 0 /\ (batches + 1) * share <= left + batches
  OBVIOUS
<1> HIDE DEF share
<1>2. share <= left
  <2> SUFFICES ASSUME share >= left + 1 PROVE FALSE
    BY <1>1
  <2>1. (batches + 1) * share >= (batches + 1) * (left + 1)
    BY <1>1
  <2>2. (batches + 1) * (left + 1) = batches * left + batches + left + 1 /\ batches * left >= 0
    OBVIOUS
  <2> QED
    BY <1>1, <2>1, <2>2
<1> QED
  BY <1>1, <1>2 DEF share

LEMMA NearDelays ==
  ASSUME NEW q \in Quotas, NearQuota(q)
  PROVE  NextDelay(q) \in 0 .. Day + 1
<1> DEFINE batches == Later(0, (q.remaining - Margin) \div q.pages)
           rest == Later(0, q.left)
           spread == (rest + batches) \div (batches + 1)
<1>1. batches \in Nat
  BY Sizes DEF Quotas, Later
<1> HIDE DEF batches
<1>2. rest \in 0 .. Day
  BY Intervals DEF NearQuota, Near, Later
<1> HIDE DEF rest
<1>3. spread \in 0 .. Day
  BY <1>1, <1>2, Spread, Intervals
<1> HIDE DEF spread
<1> DEFINE wait == WaitFor(q, q.pages)
<1>4. wait \in 0 .. Day + 1
  BY NearWaits, Sizes DEF Quotas
<1>5. NextDelay(q) = Later(RefreshInterval, IF ~q.known THEN Fallback ELSE IF wait > 0 THEN wait ELSE spread)
  BY DEF NextDelay, spread, batches, rest, WaitFor
<1> HIDE DEF wait
<1> QED
  BY <1>3, <1>4, <1>5, Intervals DEF Later

LEMMA InitBounds == Init => Bounds
<1> SUFFICES ASSUME Init PROVE Bounds
  OBVIOUS
<1>1. 0 \in Near /\ 0 \in 0 .. Day + 1 /\ 0 \in 0 .. Day /\ 0 \in 0 .. MaxAttempts /\ 0 \in 0 .. MaxPages
  BY Intervals DEF Near
<1>2. NearQuota(NoQuota)
  BY <1>1, Intervals DEF NearQuota, NoQuota
<1>3. NoAnswer.left \in Near /\ NoAnswer.retryAfter <= Day /\ NoError.retryAfter \in 0 .. Day + 1
  BY <1>1, Intervals DEF NoAnswer, NoError
<1> QED
  BY <1>1, <1>2, <1>3 DEF Init, Bounds, Aged

(* What a step that ends a refresh sets back.                               *)
Reset == /\ error'.retryAfter \in 0 .. Day + 1 /\ attempt' \in 0 .. MaxAttempts /\ page' \in 0 .. MaxPages
         /\ read' \subseteq (1 .. MaxPages) \X Editions
LEMMA IdleBounds == Idle => Reset
BY Intervals DEF Idle, NoError, Reset

LEMMA RaiseBounds ==
  ASSUME NEW transient, NEW retryAfter \in 0 .. Day + 1, Raise(transient, retryAfter)
  PROVE  error'.retryAfter \in 0 .. Day + 1 /\ pc' = "failed"
BY DEF Raise

LEMMA AppointmentBounds ==
  ASSUME NEW q \in Quotas, NearQuota(q), NEW delay \in 0 .. Day + 1, Appointment(q, delay)
  PROVE  NearQuota(quota') /\ due' \in 0 .. Day + 1 /\ pc' = "idle"
<1>1. quota'.left = q.left /\ quota'.hold = delay /\ due' = delay /\ pc' = "idle"
  <2>1. delay \in Nat
    BY Intervals
  <2> QED
    BY <2>1, AppointmentTypes
<1> QED
  BY <1>1, Intervals DEF NearQuota

LEMMA TakePageBounds ==
  ASSUME Types, Collected, Bounds, pc = "answered", NEW e \in Editions, Consistent(e), TakePage(e)
  PROVE  /\ error' = error /\ page' \in 0 .. MaxPages
         /\ read' \subseteq (1 .. MaxPages) \X Editions
         /\ pc' \in {"ask", "collected"}
<1>1. page \in Nat /\ page > 0 /\ page <= Pages(e) /\ Pages(e) \in 1 .. MaxPages /\ MaxPages \in Nat
  BY Sizes DEF Types, Collected, Consistent
<1>2. read' = read \cup {<<page, e>>} /\ error' = error
  BY DEF TakePage
<1>3. page' = page \/ (page < Pages(e) /\ page' = page + 1)
  BY DEF TakePage
<1>4. page' \in 0 .. MaxPages /\ page \in 1 .. MaxPages
  BY <1>1, <1>3
<1>5. pc' \in {"ask", "collected"}
  BY DEF TakePage
<1> QED
  BY <1>2, <1>4, <1>5 DEF Bounds

LEMMA BoundsStep == Types /\ Collected /\ Bounds /\ Next => Bounds'
<1> SUFFICES ASSUME Types, Collected, Bounds, Next PROVE Bounds'
  OBVIOUS
<1>0. /\ Rolled(quota) \in Quotas /\ NearQuota(Rolled(quota)) /\ quota \in Quotas /\ quotaFile \in Quotas
      /\ pRemaining \in 0 .. Limit
  BY Rolling, NearQuotas DEF Types, Bounds
<1>n. NoAnswer.left \in Near /\ NoAnswer.retryAfter <= Day /\ NoError.retryAfter \in 0 .. Day + 1
  BY Intervals DEF NoAnswer, NoError, Near
<1>1. CASE Serves
  <2>1. PICK status \in {"ok", "garbled", "cut", "unavailable", "denied"}, e \in Served, after \in {0, Day} :
          answer' = [status |-> status, remaining |-> pRemaining', left |-> pLeft,
                     edition |-> e, retryAfter |-> after]
    BY <1>1 DEF Serves
  <2>2. answer'.left \in Near /\ answer'.retryAfter <= Day
    BY <2>1, Intervals DEF Types, Near
  <2> QED
    BY <1>1, <2>2 DEF Serves, Bounds, pause
<1>2. CASE Refuses
  <2>1. answer'.left \in Near /\ answer'.retryAfter <= Day
    BY <1>2, Intervals DEF Refuses, Types, Near
  <2> QED
    BY <1>2, <2>1 DEF Refuses, Bounds, pause
<1>3. CASE Loses
  <2>1. error'.retryAfter \in 0 .. Day + 1 /\ pc' = "failed"
    BY <1>3, Intervals DEF Loses, Raise
  <2> QED
    BY <1>3, <2>1 DEF Loses, Bounds, pause
<1>4. CASE Claim
  BY <1>4 DEF Claim, Bounds, pause
<1>5. CASE StartFails
  <2>1. due' \in 0 .. Day + 1
    BY <1>5, Intervals DEF StartFails
  <2> QED
    BY <1>5, <2>1 DEF StartFails, Bounds, pause
<1>6. CASE ReadKey
  <2>1. attempt' \in 0 .. MaxAttempts
    BY <1>6, Intervals DEF ReadKey
  <2>2. error'.retryAfter \in 0 .. Day + 1 /\ pc' \in {"fetch", "failed"}
    BY <1>6, Intervals DEF ReadKey, Raise, Bounds
  <2> QED
    BY <1>6, <2>1, <2>2 DEF ReadKey, Bounds, pause
<1>7. CASE FetchAll
  <2> DEFINE wait == WaitFor(Rolled(quota), Rolled(quota).pages)
  <2>1. wait \in 0 .. Day + 1
    <3>1. Rolled(quota).pages \in Int
      BY <1>0, Sizes DEF Quotas
    <3> QED
      BY <1>0, <3>1, NearWaits
  <2> HIDE DEF wait
  <2>2. /\ quota' = Rolled(quota) /\ read' = {}
        /\ \/ Raise(TRUE, wait) /\ UNCHANGED page
           \/ pc' = "ask" /\ page' = 1 /\ UNCHANGED error
        /\ UNCHANGED <<broken, quotaFile, cache, cacheFile, due, attempt, answer, pause>>
    BY <1>7 DEF FetchAll, wait, WaitFor
  <2>3. error'.retryAfter \in 0 .. Day + 1 /\ pc' \in {"failed", "ask"} /\ page' \in 0 .. MaxPages
    BY <2>1, <2>2, Intervals DEF Raise, Bounds
  <2> QED
    BY <1>0, <2>2, <2>3 DEF Bounds, pause
<1>8. CASE Ask
  <2> DEFINE wait == WaitForOne(Rolled(quota))
  <2>1. wait \in 0 .. Day + 1 /\ NearQuota(Reserved(Rolled(quota)))
    BY <1>0, NearWaits, NearQuotas
  <2> HIDE DEF wait
  <2>2. /\ quota' \in {Rolled(quota), Reserved(Rolled(quota))}
        /\ quotaFile' \in {quotaFile, Reserved(Rolled(quota))}
        /\ (pc' = "sent" /\ error' = error) \/ Raise(TRUE, wait) \/ Raise(FALSE, 0)
        /\ UNCHANGED <<broken, cache, cacheFile, due, attempt, page, read, answer, pause>>
    BY <1>8 DEF Ask, wait, WaitForOne, Save, SaveReserved, SaveFails
  <2>3. error'.retryAfter \in 0 .. Day + 1 /\ pc' \in {"failed", "sent"}
    BY <2>1, <2>2, Intervals DEF Raise, Bounds
  <2> QED
    BY <1>0, <2>1, <2>2, <2>3 DEF Bounds, pause
<1>9. CASE Receive
  <2> DEFINE seen == Accepted(quota, answer.remaining, answer.left)
  <2>0. seen \in Quotas /\ NearQuota(seen)
    BY <1>0, Accepting, NearQuotas DEF Types, Bounds, Answers, AnyAnswers
  <2> HIDE DEF seen
  <2>1. /\ answer' = NoAnswer /\ UNCHANGED <<provider, broken, cache, cacheFile, due, attempt>>
        /\ pc = "answered" /\ asked' = answer.retryAfter
    BY <1>9 DEF Receive
  <2> DEFINE Good == /\ NearQuota(quota') /\ NearQuota(quotaFile') /\ error'.retryAfter \in 0 .. Day + 1
                     /\ page' \in 0 .. MaxPages /\ read' \subseteq (1 .. MaxPages) \X Editions
                     /\ pc' \in {"ask", "collected", "failed"}
  <2>2. ASSUME NEW transient, NEW retryAfter \in 0 .. Day, Rejected(seen, transient, retryAfter) PROVE Good
    <3>1. /\ quota' = seen /\ quotaFile' = seen /\ Raise(transient, retryAfter)
          /\ page' = page /\ read' = read
      BY <2>2 DEF Rejected, Save
    <3>2. retryAfter \in 0 .. Day + 1
      BY Intervals
    <3>3. error'.retryAfter \in 0 .. Day + 1 /\ pc' = "failed"
      BY <3>1, <3>2, RaiseBounds
    <3> QED
      BY <2>0, <3>1, <3>3 DEF Bounds
  <2>3. ASSUME answer.status = "ok", Consistent(answer.edition), TakeFirstPage(seen, answer.edition)
        PROVE  Good
    <3> DEFINE e == answer.edition
               planned == [seen EXCEPT !.pages = Pages(e)]
               wait == WaitFor(Rolled(planned), Pages(e) - 1)
    <3>0. e \in Editions /\ Pages(e) \in 1 .. MaxPages
      BY <2>3, Sizes DEF Types
    <3>1. planned \in Quotas /\ NearQuota(planned)
      <4>1. planned \in Quotas
        BY <2>0, <3>0 DEF Quotas
      <4> QED
        BY <2>0, <3>0, <4>1, NearQuotas
    <3> HIDE DEF planned
    <3>2. Rolled(planned) \in Quotas /\ NearQuota(Rolled(planned))
      BY <1>0, <3>1, Rolling, NearQuotas
    <3>3. wait \in 0 .. Day + 1
      <4>1. Pages(e) - 1 \in Int
        BY <3>0, Sizes
      <4> QED
        BY <3>2, <4>1, NearWaits
    <3> HIDE DEF wait
    <3>4. /\ quota' \in {Rolled(planned), planned} /\ quotaFile' \in {planned, seen}
          /\ \/ Raise(TRUE, wait) /\ UNCHANGED <<page, read>>
             \/ Raise(FALSE, 0) /\ UNCHANGED <<page, read>>
             \/ TakePage(e)
      BY <2>3 DEF TakeFirstPage, Save, wait, planned, WaitFor
    <3>5. CASE TakePage(e)
      <4>1. /\ error' = error /\ page' \in 0 .. MaxPages
            /\ read' \subseteq (1 .. MaxPages) \X Editions /\ pc' \in {"ask", "collected"}
        BY <2>1, <2>3, <3>0, <3>5, TakePageBounds
      <4> QED
        BY <2>0, <2>3, <3>1, <3>2, <3>4, <4>1 DEF Bounds
    <3>6. CASE (Raise(TRUE, wait) \/ Raise(FALSE, 0)) /\ UNCHANGED <<page, read>>
      <4>1. error'.retryAfter \in 0 .. Day + 1 /\ pc' = "failed"
        BY <3>3, <3>6, Intervals DEF Raise
      <4> QED
        BY <2>0, <2>3, <3>1, <3>2, <3>4, <3>6, <4>1 DEF Bounds
    <3> QED
      BY <3>4, <3>5, <3>6
  <2>4. ASSUME answer.status = "ok", Consistent(answer.edition), quota' = seen, Save(seen),
               TakePage(answer.edition)
        PROVE  Good
    <3>1. answer.edition \in Editions
      BY <2>4 DEF Types
    <3>2. /\ error' = error /\ page' \in 0 .. MaxPages
          /\ read' \subseteq (1 .. MaxPages) \X Editions /\ pc' \in {"ask", "collected"}
      BY <2>1, <2>4, <3>1, TakePageBounds
    <3> QED
      BY <2>0, <2>4, <3>2 DEF Bounds, Save
  <2>5. ASSUME NEW good, SaveFails, quota' = seen, Raise(good, 0), UNCHANGED <<page, read>> PROVE Good
    <3>1. error'.retryAfter \in 0 .. Day + 1 /\ pc' = "failed"
      BY <2>5, Intervals DEF Raise
    <3> QED
      BY <2>0, <2>5, <3>1 DEF Bounds, SaveFails
  <2>6. answer.retryAfter \in 0 .. Day /\ 0 \in 0 .. Day
    BY Intervals DEF Types, Answers, AnyAnswers, Bounds
  <2>7. Good
    BY <1>9, <2>2, <2>3, <2>4, <2>5, <2>6 DEF Receive, seen
  <2> QED
    BY <1>n, <2>1, <2>6, <2>7 DEF Bounds
<1>10. CASE Persist
  <2>1. error'.retryAfter \in 0 .. Day + 1 /\ pc' \in {"failed", "publish"}
    BY <1>10, Intervals DEF Persist, Raise, Bounds
  <2>2. Aged(cacheFile')
    <3> DEFINE version == Version((CHOOSE r \in read : TRUE)[2])
               list == [version |-> version, read |-> read, rows |-> AllRows(read), age |-> 0]
    <3>1. cacheFile' \in {cacheFile, list}
      BY <1>10 DEF Persist
    <3>2. list.age \in 0 .. RefreshInterval
      BY Intervals
    <3> HIDE DEF list
    <3> QED
      BY <3>1, <3>2 DEF Aged, Bounds
  <2> QED
    BY <1>10, <2>1, <2>2 DEF Persist, Bounds, pause
<1>11. CASE Publish
  <2> DEFINE wait == Later(0, NextDelay(Rolled(quota)) - cacheFile.age)
  <2>1. wait \in 0 .. Day + 1 /\ FailureRetry \in 0 .. Day + 1
    <3>1. cacheFile.age \in Nat
      BY DEF Bounds, Aged, NoList
    <3>2. NextDelay(Rolled(quota)) \in 0 .. Day + 1
      BY <1>0, NearDelays
    <3> QED
      BY <3>1, <3>2, Intervals DEF Later
  <2> HIDE DEF wait
  <2>2. /\ Appointment(Rolled(quota), wait) \/ Appointment(Rolled(quota), FailureRetry)
        /\ quotaFile' \in {quotaFile, quota'} /\ cache' = cacheFile /\ Idle
        /\ UNCHANGED <<broken, cacheFile, answer, pause>>
    BY <1>11 DEF Publish, Save, wait
  <2>3. NearQuota(quota') /\ due' \in 0 .. Day + 1 /\ pc' = "idle"
    BY <1>0, <2>1, <2>2, AppointmentBounds
  <2>4. Reset
    BY <2>2, IdleBounds
  <2> QED
    BY <2>2, <2>3, <2>4 DEF Bounds, Reset, pause
<1>12. CASE TryAgain
  <2>1. attempt' \in 0 .. MaxAttempts
    BY <1>12, Intervals DEF TryAgain, Bounds
  <2> QED
    BY <1>12, <1>n, <2>1 DEF TryAgain, Bounds, pause
<1>13. CASE GiveUp
  <2>1. RetryDelay \in 0 .. Day + 1
    BY Intervals DEF RetryDelay, Later, Bounds
  <2>2. NearQuota(quota') /\ due' \in 0 .. Day + 1 /\ pc' = "idle"
    BY <1>0, <1>13, <2>1, AppointmentBounds DEF GiveUp, Bounds
  <2>3. quotaFile' \in {quotaFile, quota'} /\ Idle /\ UNCHANGED <<broken, cache, cacheFile, answer, pause>>
    BY <1>13 DEF GiveUp, Save, SaveFails
  <2>4. Reset
    BY <2>3, IdleBounds
  <2> QED
    BY <2>2, <2>3, <2>4 DEF Bounds, Reset, pause
<1>14. CASE Crash
  <2>1. NearQuota(NoQuota) /\ Aged(NoList) /\ 0 \in 0 .. Day + 1
    BY Intervals DEF NearQuota, NoQuota, Near, Aged
  <2>2. /\ quota' = NoQuota /\ cache' = NoList /\ due' = 0 /\ answer' = NoAnswer /\ Idle /\ pc' = "down"
        /\ UNCHANGED <<broken, quotaFile, cacheFile, asked>>
    BY <1>14 DEF Crash
  <2>3. asked' \in 0 .. Day
    BY <2>2, Intervals DEF Bounds
  <2>4. Reset
    BY <2>2, IdleBounds
  <2> QED
    BY <1>n, <2>1, <2>2, <2>3, <2>4 DEF Bounds, Reset
<1>15. CASE Restart
  <2>1. quota' = Loaded(quotaFile) /\ cache' = cacheFile
    BY <1>15 DEF Restart, LoadCache
  <2>2. NearQuota(quota') /\ quota'.hold \in 0 .. Day
    <3>1. Loaded(quotaFile) \in Quotas /\ NearQuota(Loaded(quotaFile)) /\ Loaded(quotaFile).hold <= Day
      BY <1>0, Loading, NearQuotas DEF Bounds
    <3> QED
      BY <2>1, <3>1, Intervals DEF Quotas
  <2>3. due' \in 0 .. Day + 1
    <3>1. (IF cache' = NoList THEN 0 ELSE RefreshInterval - cache'.age) \in 0 .. Day
      BY <2>1, Intervals DEF Bounds, Aged
    <3>2. due' = Later(quota'.hold, IF cache' = NoList THEN 0 ELSE RefreshInterval - cache'.age)
      BY <1>15 DEF Restart
    <3> QED
      BY <2>2, <3>1, <3>2, Intervals DEF Later
  <2> QED
    BY <1>15, <2>1, <2>2, <2>3 DEF Restart, Bounds, pause
<1>16. CASE Disturb
  BY <1>16 DEF Disturb, control, Bounds, pause
<1>17. CASE Tick
  <2>1. NearQuota(quota') /\ NearQuota(quotaFile')
    BY <1>17, <1>0, NearQuotas DEF Tick, Bounds
  <2>2. ASSUME NEW l, Aged(l) PROVE Aged(Older(l))
    <3>1. CASE l = NoList
      BY <3>1 DEF Aged, Older
    <3>2. CASE l # NoList
      <4>1. Older(l) = [l EXCEPT !.age = Sooner(RefreshInterval, l.age + 1)] /\ l.age \in 0 .. RefreshInterval
        BY <2>2, <3>2 DEF Older, Aged
      <4>2. Sooner(RefreshInterval, l.age + 1) \in 0 .. RefreshInterval
        BY <4>1, Intervals DEF Sooner
      <4>3. Older(l).age = Sooner(RefreshInterval, l.age + 1) \/ Older(l) = l
        BY <4>1
      <4> QED
        BY <4>1, <4>2, <4>3 DEF Aged
    <3> QED
      BY <3>1, <3>2
  <2>3. answer'.left \in Near /\ answer'.retryAfter <= Day
    <3>1. Nearer(answer.left, -Day - 1) \in Near
      BY Intervals DEF Bounds, Near, Nearer, Later
    <3>2. answer' \in {answer, [answer EXCEPT !.left = Nearer(answer.left, -Day - 1)]} /\ answer \in Answers
      BY <1>17 DEF Tick, Types
    <3> QED
      BY <3>1, <3>2 DEF Bounds, Answers, AnyAnswers
  <2>4. due' \in 0 .. Day + 1 /\ asked' \in 0 .. Day
    BY <1>17, Intervals DEF Tick, Bounds, Nearer, Later
  <2> QED
    BY <1>17, <2>1, <2>2, <2>3, <2>4 DEF Tick, Bounds
<1> QED
  BY <1>1, <1>2, <1>3, <1>4, <1>5, <1>6, <1>7, <1>8, <1>9, <1>10, <1>11, <1>12, <1>13,
     <1>14, <1>15, <1>16, <1>17 DEF Next, Answering, Refreshing

---------------------------------------------------------------------------
LEMMA InitInv == Init => Inv
<1> SUFFICES ASSUME Init PROVE Inv
  OBVIOUS
<1>1. Counted /\ Reserve
  BY DEF Init, Counted, Believed, NoQuota, Reserve
<1>2. Collected /\ Paused
  <2>1. Collected /\ Kept
    BY DEF Init, Collected, Kept
  <2>2. missed \in BOOLEAN
    BY DEF Init
  <2> QED
    BY <2>1, <2>2 DEF Paused
<1>3. Published
  BY DEF Init, Published, Whole, CacheKept
<1> QED
  BY <1>1, <1>2, <1>3, InitTypes, InitBounds DEF Inv

LEMMA StepInv == Inv /\ [Next]_vars => Inv'
<1> SUFFICES ASSUME Inv, [Next]_vars PROVE Inv'
  OBVIOUS
<1>1. CASE Next
  BY <1>1, TypesStep, CountedStep, ReserveStep, CollectedStep, PublishedStep, PausedStep, BoundsStep
     DEF Inv
<1>2. CASE UNCHANGED vars
  <2>1. Types' /\ Counted'
    BY <1>2 DEF vars, provider, control, Inv, Types, Counted, Covered, Believed, Flight, pause
  <2>2. Reserve' /\ Collected'
    BY <1>2 DEF vars, control, Inv, Reserve, Ahead, Collected, Numbers
  <2>3. Published' /\ Paused'
    BY <1>2 DEF vars, control, Inv, Published, Whole, CacheKept, Paused, Kept, pause
  <2>4. Bounds'
    BY <1>2 DEF vars, control, Inv, Bounds, pause
  <2> QED
    BY <2>1, <2>2, <2>3, <2>4 DEF Inv
<1> QED
  BY <1>1, <1>2

LEMMA InvAlways == Spec => []Inv
  BY InitInv, StepInv, PTL DEF Spec

(* The budget is enough for every request that is sent once it is known: the *)
(* daily count of api_quota survives lost answers, failed saves and crashes, *)
(* short of what a window of our own clock forgot beyond the margin.         *)
THEOREM BudgetHolds == Spec => []ReserveCovers
<1>1. ASSUME Inv PROVE ReserveCovers
  <2>1. SUFFICES ASSUME pc = "sent", quota.known, pRemaining = 0 PROVE quota.forgot > Margin
    BY DEF ReserveCovers
  <2>2. /\ quota.remaining \in Nat /\ quota.forgot \in Nat /\ quota.pages \in Nat \ {0}
        /\ quota.remaining + 1 <= quota.forgot
    BY <1>1, <2>1, Sizes DEF Inv, Types, Quotas, Counted, Covered, Flight
  <2>3. CASE page = 1
    BY <1>1, <2>1, <2>2, <2>3, Sizes DEF Inv, Reserve, Ahead
  <2>4. CASE page # 1
    <3>1. page > 1 /\ page \in Nat
      BY <1>1, <2>1, <2>4 DEF Inv, Types, Collected
    <3>2. PICK r \in read : TRUE
      <4>1. 1 \in 1 .. page - 1
        BY <3>1
      <4> QED
        BY <1>1, <2>1, <4>1 DEF Inv, Collected, Numbers
    <3>3. page <= Pages(r[2]) /\ Pages(r[2]) \in Nat
      BY <1>1, <2>1, Sizes DEF Inv, Types, Collected
    <3>4. quota.remaining >= Margin + (Pages(r[2]) - page)
      BY <1>1, <2>1, <2>2, <3>1 DEF Inv, Reserve, Ahead
    <3> QED
      BY <2>2, <3>1, <3>3, <3>4, Sizes
  <2> QED
    BY <2>3, <2>4
<1> QED
  BY <1>1, InvAlways, PTL

(* _fetch_all, _validate_page and _persist_cache publish, and keep on disk,  *)
(* complete lists of one version without two scores for a model.             *)
THEOREM ListsWhole == Spec => []OneSnapshot
<1>1. Inv => OneSnapshot
  BY DEF Inv, Published, Whole, OneSnapshot, Numbers
<1> QED
  BY <1>1, InvAlways, PTL

(* A refresh that fails changes neither the published list nor the one on    *)
(* disk, and a restart shows the list again.                                 *)
THEOREM ListsKept == Spec => []CacheKept
<1>1. Inv => CacheKept
  BY DEF Inv, Published
<1> QED
  BY <1>1, InvAlways, PTL

(* _run_refresh sends nothing before the time an answer asked for, across     *)
(* retries, failures and restarts, short of two losses of the pause: by an    *)
(* answer whose quota could not be saved, and by the end of the process       *)
(* before the appointment was saved.                                          *)
THEOREM PauseKept == Spec => []RetryAfterKept
<1>1. Inv => RetryAfterKept
  BY DEF Inv, Paused, Kept, RetryAfterKept
<1> QED
  BY <1>1, InvAlways, PTL

(* The values of ArtificialAnalysisIndex and ApiQuota: a page count, a share  *)
(* of a window, a wait or a pause never leads to an appointment further away  *)
(* than the end of the provider's window.                                     *)
THEOREM IndexTyped == Spec => []TypeOK
<1>1. Inv => TypeOK
  <2> SUFFICES ASSUME Inv PROVE TypeOK
    OBVIOUS
  <2>1. ASSUME NEW q \in Quotas, NearQuota(q)
        PROVE  /\ q.known \in BOOLEAN /\ q.remaining \in 0 .. Limit /\ q.left \in -Day - 1 .. Day
               /\ q.forgot \in 0 .. Limit
               /\ q.pages \in 1 .. MaxPages /\ q.hold \in 0 .. Day + 1
    BY <2>1, Intervals DEF NearQuota, Near, Quotas
  <2>2. quota \in Quotas /\ NearQuota(quota) /\ quotaFile \in Quotas /\ NearQuota(quotaFile)
    BY DEF Inv, Types, Bounds
  <2>3. \A q \in {quota, quotaFile} :
          /\ q.known \in BOOLEAN /\ q.remaining \in 0 .. Limit /\ q.left \in -Day - 1 .. Day
          /\ q.forgot \in 0 .. Limit
          /\ q.pages \in 1 .. MaxPages /\ q.hold \in 0 .. Day + 1
    BY <2>1, <2>2
  <2> QED
    BY <2>3 DEF TypeOK, Inv, Types, Bounds, Aged, Paused
<1> QED
  BY <1>1, InvAlways, PTL
===============================================================================
