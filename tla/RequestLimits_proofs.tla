------------------------- MODULE RequestLimits_proofs -------------------------
(***************************************************************************)
(* Proofs about RequestLimits, for any number of threads, slots, permits   *)
(* and clients and any limits and windows.                                 *)
(*   Inv        what a request takes is given back, whatever the limiter   *)
(*              answers                                                    *)
(*   LimitsInv  the deque of a key holds what the key was charged in its   *)
(*              window, and with the failures that threads may still       *)
(*              record this stays below the limit and the threads' excess  *)
(***************************************************************************)
EXTENDS RequestLimits, FiniteSetTheorems, SequenceTheorems, TLAPS

Stages == {"none", "arrived", "budget", "acquire", "verify", "failed", "failedToo", "done"}
Threads == [stage : Stages, client : Addresses \cup {"nobody"}]
Busy == {h \in Handlers : thread[h] # NoThread}
Hashing == {h \in Handlers : thread[h].stage = "verify"}

(* A thread has a slot as long as it has a stage, and a permit in one stage. *)
Inv ==
  /\ thread \in [Handlers -> Threads]
  /\ \A h \in Handlers : thread[h].stage = "none" <=> thread[h] = NoThread
  /\ freeSlots = Slots - Cardinality(Busy)
  /\ freePermits = Permits - Cardinality(Hashing)

LEMMA Sizes ==
  /\ Slots \in Nat /\ Permits \in Nat
  /\ IsFiniteSet(Busy) /\ Cardinality(Busy) \in Nat
  /\ IsFiniteSet(Hashing) /\ Cardinality(Hashing) \in Nat
<1>1. IsFiniteSet(Handlers) /\ Slots \in Nat /\ Permits \in Nat
  BY LimitsAssumption
<1>2. Busy \subseteq Handlers /\ Hashing \subseteq Handlers
  BY DEF Busy, Hashing
<1>3. IsFiniteSet(Busy) /\ IsFiniteSet(Hashing)
  BY <1>1, <1>2, FS_Subset
<1> QED
  BY <1>1, <1>3, FS_CardinalityType

(* A thread goes from one stage to another in which it has the same.        *)
LEMMA StageInv ==
  ASSUME Inv, NEW h \in Handlers, NEW stage \in Stages \ {"none"}, Go(h, stage), thread[h].stage # "none",
         UNCHANGED freeSlots
  PROVE  /\ (thread \in [Handlers -> Threads])'
         /\ (\A g \in Handlers : thread[g].stage = "none" <=> thread[g] = NoThread)'
         /\ (freeSlots = Slots - Cardinality(Busy))'
         /\ Hashing' = IF stage = "verify" THEN Hashing \cup {h} ELSE Hashing \ {h}
<1>1. thread' = [thread EXCEPT ![h] = [thread[h] EXCEPT !.stage = stage]]
  BY DEF Go
<1>2. thread[h] \in Threads
  BY DEF Inv
<1>3. [thread[h] EXCEPT !.stage = stage] \in Threads /\ [thread[h] EXCEPT !.stage = stage].stage = stage
  BY <1>2 DEF Threads
<1> DEFINE new == [thread[h] EXCEPT !.stage = stage]
<1>4. new \in Threads /\ new.stage = stage /\ new # NoThread /\ thread' = [thread EXCEPT ![h] = new]
  BY <1>1, <1>3 DEF NoThread
<1> HIDE DEF new
<1>5. thread'[h] = new /\ \A g \in Handlers : g # h => thread'[g] = thread[g]
  BY <1>4 DEF Inv
<1>6. (thread \in [Handlers -> Threads])'
  BY <1>4 DEF Inv
<1>7. \A g \in Handlers : thread'[g].stage = "none" <=> thread'[g] = NoThread
  BY <1>4, <1>5 DEF Inv
<1>8. Busy' = Busy
  BY <1>4, <1>5 DEF Busy, Inv
<1>9. Hashing' = IF stage = "verify" THEN Hashing \cup {h} ELSE Hashing \ {h}
  BY <1>4, <1>5 DEF Hashing
<1> QED
  BY <1>6, <1>7, <1>8, <1>9 DEF Inv

(* A thread goes on that neither had nor gets a permit.                     *)
LEMMA GoInv ==
  ASSUME Inv, NEW h \in Handlers, NEW stage \in Stages \ {"none", "verify"}, Go(h, stage),
         thread[h].stage \notin {"none", "verify"}, UNCHANGED <<freeSlots, freePermits>>
  PROVE  Inv'
<1>1. Hashing' = Hashing
  BY StageInv DEF Hashing
<1> QED
  BY <1>1, StageInv DEF Inv

LEMMA StepInv == Inv /\ [Next]_vars => Inv'
<1> SUFFICES ASSUME Inv, [Next]_vars PROVE Inv'
  OBVIOUS
<1>1. ASSUME NEW h \in Handlers, Accept(h) PROVE Inv'
  <2>1. PICK a \in Addresses : thread' = [thread EXCEPT ![h] = Thread("arrived", a)]
    BY <1>1 DEF Accept
  <2>2. /\ Thread("arrived", a) \in Threads /\ Thread("arrived", a) # NoThread
        /\ Thread("arrived", a).stage = "arrived"
    BY DEF Thread, Threads, Stages, NoThread
  <2>3. thread'[h] = Thread("arrived", a) /\ \A g \in Handlers : g # h => thread'[g] = thread[g]
    BY <2>1 DEF Inv
  <2>4. thread[h] = NoThread /\ freeSlots' = freeSlots - 1 /\ UNCHANGED freePermits
    BY <1>1 DEF Accept
  <2>5. Busy' = Busy \cup {h} /\ h \notin Busy
    BY <2>2, <2>3, <2>4 DEF Busy
  <2>6. Hashing' = Hashing
    BY <2>2, <2>3, <2>4 DEF Hashing, NoThread
  <2>7. Cardinality(Busy') = Cardinality(Busy) + 1
    BY <2>5, Sizes, FS_AddElement
  <2>8. /\ thread' \in [Handlers -> Threads]
        /\ \A g \in Handlers : thread'[g].stage = "none" <=> thread'[g] = NoThread
    BY <2>1, <2>2, <2>3 DEF Inv
  <2> QED
    BY <2>4, <2>6, <2>7, <2>8, Sizes DEF Inv
<1>2. ASSUME NEW h \in Handlers, StartFails(h) PROVE Inv'
  BY <1>2, Sizes DEF StartFails, GivesBack, Inv, Busy, Hashing
<1>3. ASSUME NEW h \in Handlers, Answer(h) PROVE Inv'
  <2>1. thread' = [thread EXCEPT ![h] = NoThread] /\ thread[h].stage = "done"
        /\ freeSlots' = freeSlots + 1 /\ UNCHANGED freePermits
    BY <1>3 DEF Answer
  <2>2. NoThread \in Threads /\ NoThread.stage = "none"
    BY DEF NoThread, Threads, Stages
  <2>3. thread'[h] = NoThread /\ \A g \in Handlers : g # h => thread'[g] = thread[g]
    BY <2>1 DEF Inv
  <2>4. Busy' = Busy \ {h} /\ h \in Busy
    BY <2>1, <2>2, <2>3 DEF Busy
  <2>5. Hashing' = Hashing
    BY <2>1, <2>2, <2>3 DEF Hashing
  <2>6. Cardinality(Busy') = Cardinality(Busy) - 1
    BY <2>4, Sizes, FS_RemoveElement
  <2>7. /\ thread' \in [Handlers -> Threads]
        /\ \A g \in Handlers : thread'[g].stage = "none" <=> thread'[g] = NoThread
    BY <2>1, <2>2, <2>3 DEF Inv
  <2>8. freeSlots' = Slots - Cardinality(Busy')
    <3>1. freeSlots = Slots - Cardinality(Busy) /\ freeSlots' = freeSlots + 1
      BY <2>1 DEF Inv
    <3> QED
      BY <2>6, <3>1, Sizes
  <2>9. freePermits' = Permits - Cardinality(Hashing')
    BY <2>1, <2>5 DEF Inv
  <2> QED
    BY <2>7, <2>8, <2>9 DEF Inv
<1>4. ASSUME NEW h \in Handlers, Read(h) PROVE Inv'
  <2>1. Go(h, "done") /\ thread[h].stage = "arrived" /\ UNCHANGED <<freeSlots, freePermits>>
    BY <1>4 DEF Read
  <2> QED
    BY <2>1, GoInv DEF Stages
<1>5. ASSUME NEW h \in Handlers, Change(h) PROVE Inv'
  <2>1. Go(h, "budget") \/ Go(h, "done")
    BY <1>5 DEF Change
  <2>2. thread[h].stage = "arrived" /\ UNCHANGED <<freeSlots, freePermits>>
    BY <1>5 DEF Change
  <2> QED
    BY <2>1, <2>2, GoInv DEF Stages
<1>6. ASSUME NEW h \in Handlers, Budget(h) PROVE Inv'
  <2>1. PICK stage \in {"acquire", "done"} : Go(h, stage)
    <3> DEFINE allowed == Within(<<"failure", thread[h].client>>) /\ Within(<<"failure", "everyone">>)
    <3>1. Go(h, IF allowed THEN "acquire" ELSE "done")
      BY <1>6 DEF Budget
    <3> HIDE DEF allowed
    <3> QED
      BY <3>1
  <2>2. thread[h].stage = "budget" /\ UNCHANGED <<freeSlots, freePermits>>
    BY <1>6 DEF Budget
  <2> QED
    BY <2>1, <2>2, GoInv DEF Stages
<1>7. ASSUME NEW h \in Handlers, Acquire(h) PROVE Inv'
  <2>1. thread[h].stage = "acquire" /\ UNCHANGED freeSlots
    BY <1>7 DEF Acquire
  <2>2. CASE freePermits' = freePermits - 1 /\ Go(h, "verify")
    <3>1. Hashing' = Hashing \cup {h} /\ h \notin Hashing
      BY <2>1, <2>2, StageInv DEF Stages, Hashing
    <3>2. Cardinality(Hashing') = Cardinality(Hashing) + 1
      BY <3>1, Sizes, FS_AddElement
    <3>3. /\ (thread \in [Handlers -> Threads])'
          /\ (\A g \in Handlers : thread[g].stage = "none" <=> thread[g] = NoThread)'
          /\ (freeSlots = Slots - Cardinality(Busy))'
      BY <2>1, <2>2, StageInv DEF Stages
    <3> QED
      BY <2>2, <3>2, <3>3, Sizes DEF Inv
  <2>3. CASE UNCHANGED freePermits /\ Go(h, "done")
    BY <2>1, <2>3, GoInv DEF Stages
  <2> QED
    BY <1>7, <2>2, <2>3 DEF Acquire
<1>8. ASSUME NEW h \in Handlers, Verify(h) PROVE Inv'
  <2>1. PICK stage \in {"done", "failed"} : Go(h, stage)
    BY <1>8 DEF Verify
  <2>2. thread[h].stage = "verify" /\ UNCHANGED freeSlots /\ freePermits' = freePermits + 1
    BY <1>8 DEF Verify
  <2>3. Hashing' = Hashing \ {h} /\ h \in Hashing
    BY <2>1, <2>2, StageInv DEF Stages, Hashing
  <2>4. Cardinality(Hashing') = Cardinality(Hashing) - 1
    BY <2>3, Sizes, FS_RemoveElement
  <2>5. /\ (thread \in [Handlers -> Threads])'
        /\ (\A g \in Handlers : thread[g].stage = "none" <=> thread[g] = NoThread)'
        /\ (freeSlots = Slots - Cardinality(Busy))'
    BY <2>1, <2>2, StageInv DEF Stages
  <2> QED
    BY <2>2, <2>4, <2>5, Sizes DEF Inv
<1>9. ASSUME NEW h \in Handlers, Failed(h) PROVE Inv'
  <2>1. PICK stage \in {"failedToo", "done"} : Go(h, stage)
    BY <1>9 DEF Failed
  <2>2. thread[h].stage \in {"failed", "failedToo"} /\ UNCHANGED <<freeSlots, freePermits>>
    BY <1>9 DEF Failed
  <2> QED
    BY <2>1, <2>2, GoInv DEF Stages
<1>10. CASE UNCHANGED <<freeSlots, freePermits, thread>>
  BY <1>10 DEF Inv, Busy, Hashing
<1>11. CASE Tick
  BY <1>10, <1>11 DEF Tick
<1>12. CASE UNCHANGED vars
  BY <1>10, <1>12 DEF vars
<1> QED
  BY <1>1, <1>2, <1>3, <1>4, <1>5, <1>6, <1>7, <1>8, <1>9, <1>11, <1>12 DEF Next

LEMMA InitInv == Init => Inv
<1> SUFFICES ASSUME Init PROVE Inv
  OBVIOUS
<1>1. NoThread \in Threads /\ NoThread.stage = "none"
  BY DEF NoThread, Threads, Stages
<1>2. thread = [h \in Handlers |-> NoThread] /\ freeSlots = Slots /\ freePermits = Permits
  BY DEF Init
<1>3. Busy = {} /\ Hashing = {}
  BY <1>1, <1>2 DEF Busy, Hashing
<1>4. Cardinality(Busy) = 0 /\ Cardinality(Hashing) = 0
  BY <1>3, FS_EmptySet
<1> QED
  BY <1>1, <1>2, <1>4, Sizes DEF Inv

(* DashboardHTTPServer and acquire_auth_attempt: slots and permits are taken *)
(* exactly as long as they are used, on every way through the handlers.      *)
THEOREM PermitsConserved == Spec => []PermitsReturn
<1>1. Inv => PermitsReturn
  BY DEF Inv, PermitsReturn, Busy, Hashing
<1> QED
  BY <1>1, InitInv, StepInv, PTL DEF Spec

-----------------------------------------------------------------------------
(* The limiter's deques: ages, the oldest first.                            *)
Ages == Seq(0 .. Longest)
Falling(ages) == \A i, j \in DOMAIN ages : i < j => ages[i] >= ages[j]

(* The first n ages, and only they, have left the window.                   *)
Cut(ages, window, n) ==
  /\ n \in 0 .. Len(ages)
  /\ \A i \in 1 .. Len(ages) : ages[i] >= window <=> i <= n

(* What is left of a deque without its first n ages.                        *)
Rest(ages, n, rest) ==
  /\ rest \in Ages
  /\ Len(rest) = Len(ages) - n
  /\ \A i \in 1 .. Len(ages) - n : rest[i] = ages[n + i]

LEMMA LongestType == Longest \in Nat \ {0} /\ 0 \in 0 .. Longest
BY LimitsAssumption DEF Longest

LEMMA AgesFacts ==
  ASSUME NEW ages \in Ages
  PROVE  /\ Len(ages) \in Nat /\ DOMAIN ages = 1 .. Len(ages)
         /\ \A i \in 1 .. Len(ages) : ages[i] \in 0 .. Longest /\ ages[i] \in Nat
BY LongestType DEF Ages

LEMMA AgesAre ==
  ASSUME NEW n \in Nat, NEW f \in [1 .. n -> 0 .. Longest]
  PROVE  f \in Ages /\ Len(f) = n
<1>1. f \in Ages
  BY SeqDef DEF Ages
<1>2. DOMAIN f = 1 .. n /\ DOMAIN f = 1 .. Len(f) /\ Len(f) \in Nat
  BY <1>1, LenProperties DEF Ages
<1> QED
  BY <1>1, <1>2

LEMMA KeyFacts ==
  ASSUME NEW k \in Keys
  PROVE  /\ WindowOf(k) \in Nat \ {0} /\ WindowOf(k) <= Longest
         /\ Window["read"] \in Nat \ {0} /\ Window["read"] <= WindowOf(k)
         /\ LimitOf(k) \in Nat \ {0}
BY LimitsAssumption DEF Keys, WindowOf, LimitOf, Longest

(* What has left the window is the beginning of the deque: with an age, all *)
(* that are older have left.                                                *)
LEMMA CutExists ==
  ASSUME NEW ages \in Ages, Falling(ages), NEW window \in Nat
  PROVE  \E n : Cut(ages, window, n)
<1> DEFINE gone == {i \in DOMAIN ages : ages[i] >= window}
           n == Cardinality(gone)
<1>1. Len(ages) \in Nat /\ DOMAIN ages = 1 .. Len(ages) /\ \A i \in 1 .. Len(ages) : ages[i] \in Nat
  BY AgesFacts
<1>2. \A i \in gone : 1 .. i \in SUBSET gone
  BY <1>1 DEF Falling
<1>3. gone \in SUBSET (1 .. Len(ages))
  BY <1>1
<1>4. IsFiniteSet(1 .. Len(ages)) /\ Cardinality(1 .. Len(ages)) = Len(ages)
  BY <1>1, FS_Interval
<1>5. IsFiniteSet(gone) /\ n \in Nat /\ n <= Len(ages)
  BY <1>3, <1>4, FS_Subset, FS_CardinalityType
<1> HIDE DEF gone, n
<1>6. \A i \in gone : i <= n
  <2> TAKE i \in gone
  <2>1. 1 .. i \in SUBSET gone /\ i \in Nat /\ i >= 1
    BY <1>2, <1>3, <1>1
  <2>2. Cardinality(1 .. i) <= Cardinality(gone) /\ Cardinality(1 .. i) = i
    BY <2>1, <1>5, FS_Subset, FS_Interval
  <2> QED
    BY <2>2 DEF n
<1>7. gone \in SUBSET (1 .. n)
  BY <1>3, <1>6, <1>5, <1>1
<1>8. gone = 1 .. n
  <2>1. IsFiniteSet(1 .. n) /\ Cardinality(1 .. n) = n
    BY <1>5, FS_Interval
  <2> QED
    BY <2>1, <1>7, FS_Subset DEF n
<1>9. \A i \in 1 .. Len(ages) : ages[i] >= window <=> i <= n
  BY <1>8, <1>1, <1>5 DEF gone
<1> QED
  BY <1>9, <1>5, <1>1 DEF Cut

LEMMA RecentIsRest ==
  ASSUME NEW ages \in Ages, NEW window \in Nat, NEW n, Cut(ages, window, n)
  PROVE  Rest(ages, n, Recent(ages, window))
<1> DEFINE gone == {i \in DOMAIN ages : ages[i] >= window}
<1>1. Len(ages) \in Nat /\ DOMAIN ages = 1 .. Len(ages) /\ \A i \in 1 .. Len(ages) : ages[i] \in 0 .. Longest
  BY AgesFacts
<1>2. n \in 0 .. Len(ages) /\ gone = 1 .. n
  BY <1>1 DEF Cut
<1>3. Cardinality(gone) = n
  <2>1. Cardinality(1 .. n) = n
    BY <1>1, <1>2, FS_Interval
  <2> QED
    BY <2>1, <1>2
<1>4. Recent(ages, window) = SubSeq(ages, n + 1, Len(ages))
  BY <1>3 DEF Recent
<1>5. /\ SubSeq(ages, n + 1, Len(ages)) \in Seq(0 .. Longest)
      /\ Len(SubSeq(ages, n + 1, Len(ages))) = IF n + 1 <= Len(ages) THEN Len(ages) - (n + 1) + 1 ELSE 0
      /\ \A i \in 1 .. Len(ages) - (n + 1) + 1 : SubSeq(ages, n + 1, Len(ages))[i] = ages[n + 1 + i - 1]
  <2>1. n + 1 \in Int /\ Len(ages) \in Int /\ \A i \in n + 1 .. Len(ages) : ages[i] \in 0 .. Longest
    BY <1>1, <1>2
  <2> QED
    BY <2>1, SubSeqProperties
<1>6. Len(ages) - (n + 1) + 1 = Len(ages) - n /\ \A i \in 1 .. Len(ages) - n : n + 1 + i - 1 = n + i
  BY <1>1, <1>2
<1> DEFINE rest == SubSeq(ages, n + 1, Len(ages))
<1>7. rest \in Ages
  BY <1>5 DEF Ages
<1>8. Len(rest) = IF n + 1 <= Len(ages) THEN Len(ages) - (n + 1) + 1 ELSE 0
  BY <1>5
<1>9. \A i \in 1 .. Len(ages) - n : rest[i] = ages[n + i]
  BY <1>5, <1>6
<1> HIDE DEF rest
<1>10. Len(rest) = Len(ages) - n
  <2>1. Len(ages) \in Int /\ n \in Int /\ n <= Len(ages)
    BY <1>1, <1>2
  <2> QED
    BY <2>1, <1>8
<1> QED
  BY <1>4, <1>7, <1>9, <1>10 DEF Rest, rest

(* The observer's window, too, is what is left after the cut.               *)
LEMMA InsideIsRest ==
  ASSUME NEW ages \in Ages, NEW window \in Nat, NEW n, Cut(ages, window, n)
  PROVE  Rest(ages, n, Inside(ages, window))
<1> DEFINE young == {i \in DOMAIN ages : ages[i] < window}
<1>1. /\ Len(ages) \in Nat /\ DOMAIN ages = 1 .. Len(ages)
      /\ \A i \in 1 .. Len(ages) : ages[i] \in 0 .. Longest /\ ages[i] \in Nat
  BY AgesFacts
<1>2. n \in 0 .. Len(ages) /\ young = n + 1 .. Len(ages)
  BY <1>1 DEF Cut
<1>3. Cardinality(young) = Len(ages) - n
  <2>1. n + 1 \in Int /\ Len(ages) \in Int /\ n <= Len(ages) /\ n \in Int
    BY <1>1, <1>2
  <2>2. Cardinality(n + 1 .. Len(ages)) = IF n + 1 > Len(ages) THEN 0 ELSE Len(ages) - (n + 1) + 1
    BY <2>1, FS_Interval
  <2>3. Cardinality(n + 1 .. Len(ages)) = Len(ages) - n
    BY <2>1, <2>2
  <2> QED
    BY <2>3, <1>2
<1>4. Inside(ages, window) = SubSeq(ages, n + 1, Len(ages))
  <2>1. Len(ages) - (Len(ages) - n) + 1 = n + 1
    BY <1>1, <1>2
  <2> QED
    BY <1>3, <2>1 DEF Inside
<1>5. /\ SubSeq(ages, n + 1, Len(ages)) \in Seq(0 .. Longest)
      /\ Len(SubSeq(ages, n + 1, Len(ages))) = IF n + 1 <= Len(ages) THEN Len(ages) - (n + 1) + 1 ELSE 0
      /\ \A i \in 1 .. Len(ages) - (n + 1) + 1 : SubSeq(ages, n + 1, Len(ages))[i] = ages[n + 1 + i - 1]
  <2>1. n + 1 \in Int /\ Len(ages) \in Int /\ \A i \in n + 1 .. Len(ages) : ages[i] \in 0 .. Longest
    BY <1>1, <1>2
  <2> QED
    BY <2>1, SubSeqProperties
<1>6. Len(ages) - (n + 1) + 1 = Len(ages) - n /\ \A i \in 1 .. Len(ages) - n : n + 1 + i - 1 = n + i
  BY <1>1, <1>2
<1> DEFINE rest == SubSeq(ages, n + 1, Len(ages))
<1>7. rest \in Ages
  BY <1>5 DEF Ages
<1>8. Len(rest) = IF n + 1 <= Len(ages) THEN Len(ages) - (n + 1) + 1 ELSE 0
  BY <1>5
<1>9. \A i \in 1 .. Len(ages) - n : rest[i] = ages[n + i]
  BY <1>5, <1>6
<1> HIDE DEF rest
<1>10. Len(rest) = Len(ages) - n
  <2>1. Len(ages) \in Int /\ n \in Int /\ n <= Len(ages)
    BY <1>1, <1>2
  <2> QED
    BY <2>1, <1>8
<1> QED
  BY <1>4, <1>7, <1>9, <1>10 DEF Rest, rest

LEMMA RestUnique ==
  ASSUME NEW ages, NEW n, NEW r, NEW s, Rest(ages, n, r), Rest(ages, n, s)
  PROVE  r = s
<1>1. r \in Seq(0 .. Longest) /\ s \in Seq(0 .. Longest) /\ Len(r) = Len(s)
  BY DEF Rest, Ages
<1>2. \A i \in 1 .. Len(r) : r[i] = s[i]
  BY DEF Rest
<1> QED
  BY <1>1, <1>2, SeqEqual

(* Tidying a deque keeps its order, and all it keeps is in the window.      *)
LEMMA RecentFacts ==
  ASSUME NEW ages \in Ages, Falling(ages), NEW window \in Nat
  PROVE  /\ Recent(ages, window) \in Ages
         /\ Falling(Recent(ages, window))
         /\ \A i \in 1 .. Len(Recent(ages, window)) : Recent(ages, window)[i] < window
<1>1. PICK n : Cut(ages, window, n)
  BY CutExists
<1> DEFINE rest == Recent(ages, window)
<1>2. Rest(ages, n, rest)
  BY <1>1, RecentIsRest
<1> HIDE DEF rest
<1>3. /\ Len(ages) \in Nat /\ DOMAIN ages = 1 .. Len(ages) /\ n \in 0 .. Len(ages)
      /\ \A i \in 1 .. Len(ages) : ages[i] \in Nat
  BY <1>1, AgesFacts DEF Cut
<1>4. rest \in Ages /\ Len(rest) = Len(ages) - n /\ DOMAIN rest = 1 .. Len(ages) - n
  BY <1>2, AgesFacts DEF Rest
<1>5. \A i \in 1 .. Len(ages) - n : rest[i] = ages[n + i] /\ n + i \in 1 .. Len(ages)
  BY <1>2, <1>3 DEF Rest
<1>6. Falling(rest)
  <2>1. \A i, j \in 1 .. Len(ages) - n : i < j => n + i < n + j
    BY <1>3
  <2> QED
    BY <1>3, <1>4, <1>5, <2>1 DEF Falling
<1>7. \A i \in 1 .. Len(rest) : rest[i] < window
  BY <1>1, <1>3, <1>4, <1>5 DEF Cut
<1> QED
  BY <1>4, <1>6, <1>7 DEF rest

(* A deque whose ages all are in the window is tidy already.                *)
LEMMA TidyStays ==
  ASSUME NEW ages \in Ages, NEW window \in Nat, \A i \in 1 .. Len(ages) : ages[i] < window
  PROVE  Recent(ages, window) = ages
<1>1. Len(ages) \in Nat /\ \A i \in 1 .. Len(ages) : ages[i] \in Nat
  BY AgesFacts
<1>2. Cut(ages, window, 0)
  BY <1>1 DEF Cut
<1>3. Rest(ages, 0, ages)
  BY <1>1 DEF Rest
<1> QED
  BY <1>2, <1>3, RecentIsRest, RestUnique

(* A deque whose latest timestamp has left the window is empty in it.       *)
LEMMA IdleIsEmpty ==
  ASSUME NEW ages \in Ages, Falling(ages), NEW window \in Nat,
         ages = <<>> \/ Last(ages) >= window
  PROVE  Recent(ages, window) = <<>>
<1>1. Len(ages) \in Nat /\ DOMAIN ages = 1 .. Len(ages) /\ \A i \in 1 .. Len(ages) : ages[i] \in Nat
  BY AgesFacts
<1>2. \A i \in 1 .. Len(ages) : ages[i] >= window
  <2>1. CASE ages = <<>>
    BY <2>1
  <2>2. CASE Last(ages) >= window
    BY <1>1, <2>2 DEF Last, Falling
  <2> QED
    BY <2>1, <2>2
<1>3. Cut(ages, window, Len(ages))
  BY <1>1, <1>2 DEF Cut
<1>4. Rest(ages, Len(ages), <<>>)
  BY <1>1 DEF Rest, Ages
<1> QED
  BY <1>3, <1>4, RecentIsRest, RestUnique

LEMMA OlderFacts ==
  ASSUME NEW ages \in Ages, Falling(ages)
  PROVE  /\ Older(ages) \in Ages
         /\ Falling(Older(ages))
         /\ Len(Older(ages)) = Len(ages)
         /\ \A i \in 1 .. Len(ages) :
              Older(ages)[i] = IF ages[i] < Longest THEN ages[i] + 1 ELSE Longest
<1>1. Len(ages) \in Nat /\ DOMAIN ages = 1 .. Len(ages) /\ \A i \in 1 .. Len(ages) : ages[i] \in 0 .. Longest
  BY AgesFacts
<1>2. Older(ages) \in [1 .. Len(ages) -> 0 .. Longest]
  BY <1>1, LongestType DEF Older
<1>3. Older(ages) \in Ages /\ Len(Older(ages)) = Len(ages)
  BY <1>1, <1>2, AgesAre
<1>4. \A i \in 1 .. Len(ages) : Older(ages)[i] = IF ages[i] < Longest THEN ages[i] + 1 ELSE Longest
  BY <1>1 DEF Older
<1>5. Falling(Older(ages))
  BY <1>1, <1>2, <1>4, LongestType DEF Falling
<1> QED
  BY <1>3, <1>4, <1>5

(* Time passes for the tidied deque as for the whole one.                   *)
LEMMA AgeAlike ==
  ASSUME NEW ages \in Ages, Falling(ages), NEW window \in Nat \ {0}, window <= Longest
  PROVE  Inside(Older(Recent(ages, window)), window) = Recent(Older(ages), window)
<1>1. PICK n : Cut(ages, window, n)
  BY CutExists
<1> DEFINE rest == Recent(ages, window)
<1>2. Rest(ages, n, rest) /\ rest \in Ages /\ Falling(rest)
  BY <1>1, RecentIsRest, RecentFacts
<1>3. PICK m : Cut(Older(ages), window, m)
  BY OlderFacts, CutExists
<1> HIDE DEF rest
<1>4. /\ Len(ages) \in Nat /\ n \in 0 .. Len(ages) /\ m \in 0 .. Len(ages)
      /\ \A i \in 1 .. Len(ages) : ages[i] \in 0 .. Longest
      /\ Len(rest) = Len(ages) - n
  BY <1>1, <1>2, <1>3, OlderFacts, AgesFacts DEF Cut, Rest
<1>5. n <= m
  <2> SUFFICES ASSUME n > m PROVE FALSE
    BY <1>4
  <2>1. n \in 1 .. Len(ages) /\ ages[n] >= window
    BY <1>1, <1>4 DEF Cut
  <2>2. Older(ages)[n] >= window
    BY <2>1, <1>4, OlderFacts, LongestType
  <2> QED
    BY <2>1, <2>2, <1>3, OlderFacts, <1>4 DEF Cut
<1>6. \A i \in 1 .. Len(rest) : n + i \in 1 .. Len(ages) /\ Older(rest)[i] = Older(ages)[n + i]
  <2> TAKE i \in 1 .. Len(rest)
  <2>1. n + i \in 1 .. Len(ages) /\ rest[i] = ages[n + i]
    BY <1>2, <1>4 DEF Rest
  <2> QED
    BY <2>1, <1>2, OlderFacts
<1>7. Cut(Older(rest), window, m - n)
  <2>1. m - n \in 0 .. Len(rest) /\ Len(Older(rest)) = Len(rest)
    BY <1>4, <1>5, <1>2, OlderFacts
  <2>2. ASSUME NEW i \in 1 .. Len(rest) PROVE Older(rest)[i] >= window <=> i <= m - n
    <3>1. Older(ages)[n + i] >= window <=> n + i <= m
      BY <1>3, <1>6, OlderFacts DEF Cut
    <3> QED
      BY <3>1, <1>6, <1>4
  <2> QED
    BY <2>1, <2>2 DEF Cut
<1>8. Rest(Older(rest), m - n, Inside(Older(rest), window))
  BY <1>2, <1>7, OlderFacts, InsideIsRest
<1>9. Rest(Older(ages), m, Recent(Older(ages), window))
  BY <1>3, OlderFacts, RecentIsRest
<1>10. Rest(Older(ages), m, Inside(Older(rest), window))
  <2> DEFINE in == Inside(Older(rest), window)
  <2>1. in \in Ages /\ Len(in) = Len(ages) - m
    BY <1>8, <1>4, <1>2, OlderFacts DEF Rest
  <2>2. ASSUME NEW i \in 1 .. Len(ages) - m PROVE in[i] = Older(ages)[m + i]
    <3>1. in[i] = Older(rest)[(m - n) + i]
      BY <1>8, <1>4, <1>2, OlderFacts DEF Rest
    <3>2. (m - n) + i \in 1 .. Len(rest) /\ n + ((m - n) + i) = m + i
      BY <1>4, <1>5
    <3> QED
      BY <3>1, <3>2, <1>6
  <2> QED
    BY <2>1, <2>2, OlderFacts DEF Rest
<1> QED
  BY <1>9, <1>10, RestUnique DEF rest

-----------------------------------------------------------------------------
Deques ==
  /\ DOMAIN hits \subseteq Keys
  /\ \A k \in DOMAIN hits : hits[k] \in Ages /\ Falling(hits[k])

(* The keys whose charges the limiter still knows.                          *)
Judged(k) == WindowOf(k) = Window["read"] \/ ~dropped

(* The deque of such a key holds what it was charged in its window.         *)
Linked ==
  /\ DOMAIN charged = Keys
  /\ \A k \in Keys : Judged(k) => charged[k] = Tidy(k) /\ charged[k] \in Ages

LEMMA HitsFacts ==
  ASSUME Deques, NEW k \in Keys
  PROVE  /\ Hits(k) \in Ages /\ Falling(Hits(k))
         /\ Tidy(k) \in Ages /\ Falling(Tidy(k)) /\ Len(Tidy(k)) \in Nat
         /\ \A i \in 1 .. Len(Tidy(k)) : Tidy(k)[i] < WindowOf(k)
         /\ Recent(Tidy(k), WindowOf(k)) = Tidy(k)
<1>1. <<>> \in Ages /\ Falling(<<>>)
  BY DEF Ages, Falling
<1>2. Hits(k) \in Ages /\ Falling(Hits(k))
  BY <1>1 DEF Hits, Deques
<1>3. WindowOf(k) \in Nat
  BY KeyFacts
<1>4. /\ Tidy(k) \in Ages /\ Falling(Tidy(k))
      /\ \A i \in 1 .. Len(Tidy(k)) : Tidy(k)[i] < WindowOf(k)
  BY <1>2, <1>3, RecentFacts DEF Tidy
<1>5. Recent(Tidy(k), WindowOf(k)) = Tidy(k)
  BY <1>3, <1>4, TidyStays
<1> QED
  BY <1>2, <1>4, <1>5, AgesFacts

(* A check, or a refusal: a deque only loses what has left its window.      *)
LEMMA LookStep ==
  ASSUME Deques, Linked, NEW keys \in SUBSET Keys, Look(keys)
  PROVE  Deques' /\ Linked' /\ UNCHANGED <<charged, dropped>>
<1>1. hits' = [k \in DOMAIN hits \cup keys |-> IF k \in keys THEN Tidy(k) ELSE hits[k]]
  BY DEF Look
<1>2. UNCHANGED <<charged, dropped>>
  BY DEF Look
<1>3. DOMAIN hits' = DOMAIN hits \cup keys
  BY <1>1
<1>4. \A k \in DOMAIN hits' : hits'[k] = IF k \in keys THEN Tidy(k) ELSE hits[k]
  BY <1>1
<1>5. Deques'
  <2>1. (DOMAIN hits)' \subseteq Keys
    BY <1>3 DEF Deques
  <2>2. ASSUME NEW k \in DOMAIN hits' PROVE hits'[k] \in Ages /\ Falling(hits'[k])
    <3>1. k \in Keys
      BY <2>1
    <3>2. Tidy(k) \in Ages /\ Falling(Tidy(k))
      BY <3>1, HitsFacts
    <3>3. k \notin keys => hits[k] \in Ages /\ Falling(hits[k])
      BY <1>3 DEF Deques
    <3> QED
      BY <1>4, <3>2, <3>3
  <2> QED
    BY <2>1, <2>2 DEF Deques
<1>6. ASSUME NEW k \in Keys PROVE Tidy(k)' = Tidy(k)
  <2>1. Hits(k)' = IF k \in keys THEN Tidy(k) ELSE Hits(k)
    BY <1>3, <1>4 DEF Hits
  <2>2. Tidy(k)' = Recent(Hits(k)', WindowOf(k))
    BY DEF Tidy
  <2>3. Recent(Tidy(k), WindowOf(k)) = Tidy(k)
    BY HitsFacts
  <2> QED
    BY <2>1, <2>2, <2>3 DEF Tidy
<1>7. Linked'
  BY <1>2, <1>6 DEF Linked, Judged, WindowOf
<1> QED
  BY <1>2, <1>5, <1>7

(* A charge: the deque of the key grows by it, and only deques that hold     *)
(* nothing of their window are dropped, as far as the key is judged.         *)
LEMMA ChargeStep ==
  ASSUME Deques, Linked, NEW key \in Keys, Charge(key)
  PROVE  /\ Deques' /\ Linked'
         /\ \A k \in Keys : Judged(k)' => Judged(k)
         /\ charged'[key] = Append(charged[key], 0)
         /\ \A k \in Keys \ {key} : charged'[k] = charged[k]
<1> DEFINE new == Append(Tidy(key), 0)
           table == [k \in DOMAIN hits \cup {key} |-> IF k = key THEN new ELSE hits[k]]
<1>1. /\ hits' = Pruned(table, WindowOf(key))
      /\ charged' = [charged EXCEPT ![key] = Append(@, 0)]
      /\ dropped' = (dropped \/ Cardinality(DOMAIN table) > Capacity)
  BY DEF Charge
<1>2. DOMAIN table = DOMAIN hits \cup {key} /\ table[key] = new /\ \A k \in DOMAIN hits \ {key} : table[k] = hits[k]
  OBVIOUS
<1> HIDE DEF table
<1>3. DOMAIN charged = Keys
  BY DEF Linked
<1>4. DOMAIN charged' = Keys /\ charged'[key] = Append(charged[key], 0) /\ \A k \in Keys \ {key} : charged'[k] = charged[k]
  BY <1>1, <1>3
<1>5. \A k \in Keys : Judged(k)' => Judged(k)
  BY <1>1 DEF Judged, WindowOf
<1>6. Tidy(key) \in Ages /\ Falling(Tidy(key)) /\ \A i \in 1 .. Len(Tidy(key)) : Tidy(key)[i] < WindowOf(key)
  BY HitsFacts
<1>7. WindowOf(key) \in Nat \ {0}
  BY KeyFacts
<1>8. /\ new \in Ages /\ Len(new) = Len(Tidy(key)) + 1 /\ new # <<>>
      /\ \A i \in 1 .. Len(Tidy(key)) : new[i] = Tidy(key)[i]
      /\ new[Len(Tidy(key)) + 1] = 0
  BY <1>6, LongestType, AppendProperties DEF Ages
<1> DEFINE len == Len(Tidy(key))
<1>9. len \in Nat /\ \A i \in 1 .. len : Tidy(key)[i] \in Nat
  BY <1>6, AgesFacts
<1>10. DOMAIN new = 1 .. len + 1
  BY <1>8, AgesFacts
<1> HIDE DEF new
<1>11. Falling(new)
  <2> SUFFICES ASSUME NEW i \in 1 .. len + 1, NEW j \in 1 .. len + 1, i < j PROVE new[i] >= new[j]
    BY <1>10 DEF Falling
  <2>1. i \in 1 .. len /\ new[i] = Tidy(key)[i] /\ new[i] \in Nat
    BY <1>8, <1>9
  <2>2. CASE j = len + 1
    BY <2>1, <2>2, <1>8
  <2>3. CASE j # len + 1
    <3>1. j \in 1 .. len /\ DOMAIN Tidy(key) = 1 .. len
      BY <2>3, <1>6, <1>9, AgesFacts
    <3> QED
      BY <3>1, <2>1, <1>8, <1>6 DEF Falling
  <2> QED
    BY <2>2, <2>3
<1>12. \A i \in 1 .. Len(new) : new[i] < WindowOf(key)
  <2> TAKE i \in 1 .. Len(new)
  <2>1. CASE i = len + 1
    BY <2>1, <1>7, <1>8
  <2>2. CASE i # len + 1
    <3>1. i \in 1 .. len
      BY <2>2, <1>8, <1>9
    <3> QED
      BY <3>1, <1>6, <1>8
  <2> QED
    BY <2>1, <2>2
<1>13. Last(new) = 0
  BY <1>8 DEF Last
<1>14. Recent(new, WindowOf(key)) = new
  BY <1>7, <1>8, <1>12, TidyStays
<1>15. DOMAIN table \subseteq Keys /\ \A k \in DOMAIN table : table[k] \in Ages /\ Falling(table[k])
  BY <1>2, <1>8, <1>11 DEF Deques
<1>16. /\ DOMAIN hits' \subseteq DOMAIN table
       /\ \A k \in DOMAIN hits' : hits'[k] = table[k]
       /\ \A k \in DOMAIN table \ DOMAIN hits' :
            dropped' /\ (table[k] = <<>> \/ ~(Last(table[k]) < WindowOf(key)))
  BY <1>1 DEF Pruned, Restrict
<1>17. Deques'
  BY <1>15, <1>16 DEF Deques
<1> DEFINE want(k) == IF k = key THEN new ELSE Tidy(k)
<1>18. ASSUME NEW k \in Keys, Judged(k)' PROVE Tidy(k)' = want(k)
  <2>1. Tidy(k)' = Recent(Hits(k)', WindowOf(k)) /\ Tidy(k) = Recent(Hits(k), WindowOf(k))
    BY DEF Tidy
  <2>2. CASE k \in DOMAIN hits'
    <3>1. Hits(k)' = table[k]
      BY <2>2, <1>16 DEF Hits
    <3>2. k # key => table[k] = Hits(k)
      BY <2>2, <1>2, <1>16 DEF Hits
    <3> QED
      BY <2>1, <3>1, <3>2, <1>2, <1>14
  <2>3. CASE k \notin DOMAIN hits' /\ k \in DOMAIN table
    <3>1. dropped' /\ (table[k] = <<>> \/ ~(Last(table[k]) < WindowOf(key)))
      BY <2>3, <1>16
    <3>2. k # key
      BY <3>1, <1>2, <1>7, <1>8, <1>13
    <3>3. Hits(k) = table[k] /\ Hits(k) \in Ages /\ Falling(Hits(k))
      BY <2>3, <3>2, <1>2, HitsFacts DEF Hits
    <3>4. WindowOf(k) = Window["read"] /\ WindowOf(k) \in Nat /\ WindowOf(k) <= WindowOf(key)
      BY <3>1, <1>18, KeyFacts DEF Judged, WindowOf
    <3>5. Hits(k) = <<>> \/ Last(Hits(k)) >= WindowOf(k)
      <4>1. CASE Hits(k) # <<>>
        <5>1. Len(Hits(k)) \in Nat /\ Len(Hits(k)) # 0
          BY <3>3, <4>1, EmptySeq DEF Ages
        <5>2. Last(Hits(k)) \in Nat
          BY <3>3, <5>1, AgesFacts DEF Last
        <5> QED
          BY <3>1, <3>3, <3>4, <4>1, <5>2, <1>7
      <4> QED
        BY <4>1
    <3>6. Tidy(k) = <<>>
      BY <2>1, <3>3, <3>4, <3>5, IdleIsEmpty
    <3>7. Hits(k)' = <<>>
      BY <2>3 DEF Hits
    <3>8. Recent(<<>>, WindowOf(k)) = <<>>
      <4>1. <<>> \in Ages /\ Falling(<<>>)
        BY DEF Ages, Falling
      <4> QED
        BY <3>4, <4>1, IdleIsEmpty
    <3> QED
      BY <2>1, <3>2, <3>6, <3>7, <3>8
  <2>4. CASE k \notin DOMAIN table
    <3>1. Hits(k)' = <<>> /\ Hits(k) = <<>> /\ k # key
      BY <2>4, <1>2, <1>16 DEF Hits
    <3> QED
      BY <2>1, <3>1
  <2> QED
    BY <2>2, <2>3, <2>4
<1>19. Linked'
  <2>1. ASSUME NEW k \in Keys, Judged(k)' PROVE charged'[k] = want(k)
    BY <2>1, <1>4, <1>5 DEF Linked, new
  <2>2. \A k \in Keys : want(k) \in Ages
    BY <1>8, HitsFacts
  <2> HIDE DEF want
  <2> QED
    BY <2>1, <2>2, <1>4, <1>18 DEF Linked
<1> QED
  BY <1>4, <1>5, <1>17, <1>19

LEMMA TickStep ==
  ASSUME Deques, Linked, Tick
  PROVE  /\ Deques' /\ Linked' /\ UNCHANGED dropped
         /\ \A k \in Keys : Judged(k) => Len(charged'[k]) <= Len(charged[k])
<1>1. hits' = [k \in DOMAIN hits |-> Older(hits[k])] /\ UNCHANGED dropped
      /\ charged' = [k \in Keys |-> Inside(Older(charged[k]), WindowOf(k))]
  BY DEF Tick
<1>2. Deques'
  BY <1>1, OlderFacts DEF Deques
<1>3. ASSUME NEW k \in Keys, Judged(k)
      PROVE  charged'[k] = Tidy(k)' /\ charged'[k] \in Ages /\ Len(charged'[k]) <= Len(charged[k])
  <2>1. Hits(k) \in Ages /\ Falling(Hits(k)) /\ Tidy(k) \in Ages /\ Falling(Tidy(k))
    BY HitsFacts
  <2>2. WindowOf(k) \in Nat \ {0} /\ WindowOf(k) <= Longest
    BY KeyFacts
  <2>3. charged'[k] = Inside(Older(Tidy(k)), WindowOf(k))
    BY <1>1, <1>3 DEF Linked
  <2>4. Hits(k)' = Older(Hits(k))
    BY <1>1 DEF Hits, Older
  <2>5. charged'[k] = Tidy(k)'
    <3>1. Inside(Older(Recent(Hits(k), WindowOf(k))), WindowOf(k)) = Recent(Older(Hits(k)), WindowOf(k))
      BY <2>1, <2>2, AgeAlike
    <3>2. Tidy(k)' = Recent(Hits(k)', WindowOf(k))
      BY DEF Tidy
    <3> QED
      BY <2>3, <2>4, <3>1, <3>2 DEF Tidy
  <2>6. Older(Tidy(k)) \in Ages /\ Falling(Older(Tidy(k))) /\ Len(Older(Tidy(k))) = Len(Tidy(k))
    BY <2>1, OlderFacts
  <2>7. PICK n : Cut(Older(Tidy(k)), WindowOf(k), n)
    BY <2>2, <2>6, CutExists
  <2>8. Rest(Older(Tidy(k)), n, charged'[k])
    BY <2>2, <2>3, <2>6, <2>7, InsideIsRest
  <2>9. Len(charged'[k]) = Len(Tidy(k)) - n /\ n \in Nat /\ Len(Tidy(k)) \in Nat
    BY <2>1, <2>6, <2>7, <2>8, AgesFacts DEF Rest, Cut
  <2> QED
    BY <2>5, <2>8, <2>9, <1>3 DEF Linked, Rest
<1>4. Linked'
  BY <1>1, <1>3 DEF Linked, Judged, WindowOf
<1> QED
  BY <1>1, <1>2, <1>3, <1>4

-----------------------------------------------------------------------------
(* Does a thread count for a key: it has passed the check of the failures   *)
(* and may still record one?                                                *)
Counts(k, t) ==
  /\ k[1] = "failure"
  /\ IF k[2] = "everyone" THEN t.stage \in {"acquire", "verify", "failed", "failedToo"}
     ELSE t.client = k[2] /\ t.stage \in {"acquire", "verify", "failed"}
Pending(k) == {h \in Handlers : Counts(k, thread[h])}
Ceiling(k) == LimitOf(k) + (IF k[1] = "failure" THEN Slots - 1 ELSE 0)

(* The charges of a key, with those that threads may still make, stay below *)
(* its limit and what the threads exceed it by.                             *)
Bounded(k) == Len(charged[k]) + Cardinality(Pending(k)) <= Ceiling(k)

Clients ==
  \A h \in Handlers : thread[h] = NoThread \/
    thread[h] \in [stage : {"arrived", "budget", "acquire", "verify", "failed", "failedToo", "done"},
                  client : Addresses]

LimitsInv ==
  /\ Inv /\ Clients
  /\ freeSlots >= 0 /\ freePermits >= 0
  /\ Deques /\ Linked
  /\ \A k \in Keys : Judged(k) => Bounded(k)

LEMMA PendingFacts ==
  ASSUME NEW k, freeSlots >= 0, Inv
  PROVE  IsFiniteSet(Pending(k)) /\ Cardinality(Pending(k)) \in Nat /\ Cardinality(Pending(k)) <= Slots
<1>1. Pending(k) \in SUBSET Busy
  BY DEF Pending, Busy, Counts, NoThread
<1>2. IsFiniteSet(Pending(k)) /\ Cardinality(Pending(k)) <= Cardinality(Busy)
  BY <1>1, Sizes, FS_Subset
<1>3. Cardinality(Pending(k)) \in Nat
  BY <1>2, FS_CardinalityType
<1>4. Cardinality(Busy) <= Slots
  BY Sizes DEF Inv
<1> QED
  BY <1>2, <1>3, <1>4, Sizes

(* The same of the next state.                                              *)
LEMMA PendingFactsNext ==
  ASSUME NEW k, (freeSlots >= 0)', Inv'
  PROVE  /\ IsFiniteSet(Pending(k)') /\ Cardinality(Pending(k)') \in Nat
         /\ Cardinality(Pending(k)') <= Slots
<1>1. (Pending(k) \in SUBSET Busy)'
  BY DEF Pending, Busy, Counts, NoThread
<1>2. Busy' \in SUBSET Handlers /\ IsFiniteSet(Handlers) /\ Slots \in Nat
  BY LimitsAssumption DEF Busy
<1>3. IsFiniteSet(Busy') /\ Cardinality(Busy') \in Nat
  BY <1>2, FS_Subset, FS_CardinalityType
<1>4. IsFiniteSet(Pending(k)') /\ Cardinality(Pending(k)') <= Cardinality(Busy')
  BY <1>1, <1>3, FS_Subset
<1>5. Cardinality(Pending(k)') \in Nat
  BY <1>4, FS_CardinalityType
<1>6. Cardinality(Busy') <= Slots
  BY <1>2, <1>3 DEF Inv
<1> QED
  BY <1>2, <1>3, <1>4, <1>5, <1>6

LEMMA CeilingType == ASSUME NEW k \in Keys PROVE Ceiling(k) \in Nat /\ LimitOf(k) \in Nat \ {0} /\ LimitOf(k) <= Ceiling(k)
BY KeyFacts, LimitsAssumption DEF Ceiling

LEMMA ChargedType ==
  ASSUME Deques, Linked, NEW k \in Keys, Judged(k)
  PROVE  charged[k] = Tidy(k) /\ charged[k] \in Ages /\ Len(charged[k]) \in Nat
BY HitsFacts DEF Linked

LEMMA ChargedTypeNext ==
  ASSUME Linked', NEW k \in Keys, Judged(k)'
  PROVE  Len(charged'[k]) \in Nat
BY AgesFacts DEF Linked

(* A step that charges nobody and after which no more threads count.        *)
LEMMA NoneMore ==
  ASSUME LimitsInv, Inv', (freeSlots >= 0)', Linked', NEW k \in Keys, Judged(k)', Judged(k),
         Len(charged'[k]) <= Len(charged[k]), Pending(k)' \subseteq Pending(k)
  PROVE  Bounded(k)'
<1>1. Len(charged[k]) \in Nat /\ Len(charged'[k]) \in Nat
  BY ChargedType, ChargedTypeNext DEF LimitsInv
<1>2. /\ IsFiniteSet(Pending(k)) /\ Cardinality(Pending(k)) \in Nat
      /\ Cardinality(Pending(k)') \in Nat
  BY PendingFacts, PendingFactsNext DEF LimitsInv
<1>3. Cardinality(Pending(k)') <= Cardinality(Pending(k))
  BY <1>2, FS_Subset
<1>4. Len(charged[k]) + Cardinality(Pending(k)) <= Ceiling(k) /\ Ceiling(k) \in Nat
  BY CeilingType DEF LimitsInv, Bounded
<1>5. Ceiling(k)' = Ceiling(k)
  BY DEF Ceiling, LimitOf
<1> QED
  BY <1>1, <1>2, <1>3, <1>4, <1>5 DEF Bounded

(* A charge of a key that has room, for which no thread counts.             *)
LEMMA RoomForOne ==
  ASSUME LimitsInv, NEW k \in Keys, Judged(k), Within(k), k[1] # "failure",
         charged'[k] = Append(charged[k], 0)
  PROVE  Bounded(k)'
<1>1. charged[k] = Tidy(k) /\ charged[k] \in Ages /\ Len(charged[k]) \in Nat
  BY ChargedType DEF LimitsInv
<1>2. Len(charged'[k]) = Len(charged[k]) + 1
  BY <1>1, LongestType, AppendProperties DEF Ages
<1>3. Len(charged[k]) < LimitOf(k) /\ LimitOf(k) \in Nat
  BY <1>1, CeilingType DEF Within
<1>4. Pending(k)' = {} /\ Ceiling(k)' = LimitOf(k)
  <2>1. Pending(k)' = {}
    BY DEF Pending, Counts
  <2>2. Ceiling(k)' = Ceiling(k) /\ Ceiling(k) = LimitOf(k) + 0
    BY DEF Ceiling, LimitOf
  <2> QED
    BY <2>1, <2>2, <1>3
<1>5. Cardinality(Pending(k)') = 0
  BY <1>4, FS_EmptySet
<1> QED
  BY <1>1, <1>2, <1>3, <1>4, <1>5 DEF Bounded

(* A charge of a key by a thread that counts for it no longer.              *)
LEMMA OneSettled ==
  ASSUME LimitsInv, NEW k \in Keys, Judged(k), NEW h \in Pending(k), Pending(k)' = Pending(k) \ {h},
         charged'[k] = Append(charged[k], 0)
  PROVE  Bounded(k)'
<1>1. charged[k] \in Ages /\ Len(charged[k]) \in Nat
  BY ChargedType DEF LimitsInv
<1>2. Len(charged'[k]) = Len(charged[k]) + 1
  BY <1>1, LongestType, AppendProperties DEF Ages
<1>3. IsFiniteSet(Pending(k)) /\ Cardinality(Pending(k)) \in Nat
  BY PendingFacts DEF LimitsInv
<1>4. Cardinality(Pending(k)') = Cardinality(Pending(k)) - 1
  BY <1>3, FS_RemoveElement
<1>5. Len(charged[k]) + Cardinality(Pending(k)) <= Ceiling(k) /\ Ceiling(k)' = Ceiling(k) /\ Ceiling(k) \in Nat
  BY CeilingType DEF LimitsInv, Bounded, Ceiling, LimitOf
<1> QED
  BY <1>1, <1>2, <1>3, <1>4, <1>5 DEF Bounded

(* A check that finds room: however many threads have passed it, they are   *)
(* fewer than the slots allow.                                              *)
LEMMA RoomForThreads ==
  ASSUME LimitsInv, Inv', (freeSlots >= 0)', NEW k \in Keys, Judged(k), Within(k), k[1] = "failure",
         charged'[k] = charged[k]
  PROVE  Bounded(k)'
<1>1. charged[k] = Tidy(k) /\ Len(charged[k]) \in Nat
  BY ChargedType DEF LimitsInv
<1>2. Len(charged[k]) < LimitOf(k) /\ LimitOf(k) \in Nat
  BY <1>1, CeilingType DEF Within
<1>3. Cardinality(Pending(k)') \in Nat /\ Cardinality(Pending(k)') <= Slots /\ Slots \in Nat
  BY PendingFactsNext, Sizes
<1>4. Ceiling(k)' = LimitOf(k) + (Slots - 1)
  BY DEF Ceiling, LimitOf
<1> QED
  BY <1>1, <1>2, <1>3, <1>4 DEF Bounded

(* Only the thread that moves can begin or cease to count.                  *)
LEMMA GoPending ==
  ASSUME Inv, NEW h \in Handlers, NEW stage, Go(h, stage), NEW k
  PROVE  Pending(k)' = IF Counts(k, Thread(stage, thread[h].client)) THEN Pending(k) \cup {h}
                       ELSE Pending(k) \ {h}
<1>1. thread' = [thread EXCEPT ![h] = [thread[h] EXCEPT !.stage = stage]] /\ thread[h] \in Threads
  BY DEF Go, Inv
<1>2. thread'[h] = Thread(stage, thread[h].client) /\ \A g \in Handlers : g # h => thread'[g] = thread[g]
  BY <1>1 DEF Inv, Thread, Threads
<1>3. Pending(k)' = {g \in Handlers : Counts(k, thread'[g])}
  BY DEF Pending, Counts
<1> QED
  BY <1>2, <1>3 DEF Pending

LEMMA ClientsStep ==
  ASSUME Inv, Clients, NEW h \in Handlers, NEW stage \in Stages \ {"none"}, Go(h, stage),
         thread[h].stage # "none"
  PROVE  Clients' /\ thread[h].client \in Addresses
<1>1. thread[h] \in [stage : {"arrived", "budget", "acquire", "verify", "failed", "failedToo", "done"},
                    client : Addresses]
  BY DEF Clients, NoThread
<1>2. thread' = [thread EXCEPT ![h] = [thread[h] EXCEPT !.stage = stage]]
  BY DEF Go
<1>3. [thread[h] EXCEPT !.stage = stage] \in
        [stage : {"arrived", "budget", "acquire", "verify", "failed", "failedToo", "done"}, client : Addresses]
  BY <1>1 DEF Stages
<1>4. thread'[h] = [thread[h] EXCEPT !.stage = stage] /\ \A g \in Handlers : g # h => thread'[g] = thread[g]
  BY <1>2 DEF Inv
<1> HIDE DEF Clients
<1>5. Clients'
  BY <1>3, <1>4 DEF Clients
<1> QED
  BY <1>1, <1>5

(* A thread moves, the limiter and the permits stay as they are.            *)
LEMMA QuietStep ==
  ASSUME LimitsInv, Inv', (freeSlots >= 0)', UNCHANGED limiter, NEW h \in Handlers,
         NEW stage \in Stages \ {"none"}, Go(h, stage), thread[h].stage # "none",
         stage \in {"acquire", "verify", "failed"} => thread[h].stage \in {"acquire", "verify", "failed"},
         stage # "failedToo"
  PROVE  Clients' /\ Deques' /\ Linked' /\ \A k \in Keys : Judged(k)' => Bounded(k)'
<1>1. Clients'
  BY ClientsStep DEF LimitsInv
<1>2. hits' = hits /\ charged' = charged /\ dropped' = dropped
  BY DEF limiter
<1>3. Deques' /\ Linked'
  BY <1>2 DEF LimitsInv, Deques, Linked, Judged, Tidy, Hits, WindowOf
<1>4. ASSUME NEW k \in Keys, Judged(k)' PROVE Bounded(k)'
  <2>1. Judged(k)
    BY <1>2, <1>4 DEF Judged, WindowOf
  <2>2. Pending(k)' \subseteq Pending(k)
    <3>1. Counts(k, Thread(stage, thread[h].client)) => Counts(k, thread[h])
      BY DEF Counts, Thread
    <3>2. Counts(k, thread[h]) => h \in Pending(k)
      BY DEF Pending
    <3> QED
      BY <3>1, <3>2, GoPending DEF LimitsInv
  <2>3. Len(charged'[k]) <= Len(charged[k])
    BY <1>2, <2>1, ChargedType DEF LimitsInv
  <2> QED
    BY <2>1, <2>2, <2>3, <1>3, <1>4, NoneMore
<1> QED
  BY <1>1, <1>3, <1>4

(* A request is charged for its key or refused.                             *)
LEMMA AskedStep ==
  ASSUME LimitsInv, Inv', (freeSlots >= 0)', NEW h \in Handlers, thread[h].stage = "arrived",
         NEW stage \in {"budget", "done"}, Go(h, stage),
         NEW key \in Keys, key[1] # "failure", (Within(key) /\ Charge(key)) \/ Look({key})
  PROVE  Clients' /\ Deques' /\ Linked' /\ \A k \in Keys : Judged(k)' => Bounded(k)'
<1>1. Clients'
  BY ClientsStep DEF LimitsInv, Stages
<1>2. \A k : Pending(k)' \subseteq Pending(k)
  <2> TAKE k
  <2>1. ~Counts(k, Thread(stage, thread[h].client))
    BY DEF Counts, Thread
  <2> QED
    BY <2>1, GoPending DEF LimitsInv
<1>3. CASE Within(key) /\ Charge(key)
  <2>1. /\ Deques' /\ Linked'
        /\ \A k \in Keys : Judged(k)' => Judged(k)
        /\ charged'[key] = Append(charged[key], 0)
        /\ \A k \in Keys \ {key} : charged'[k] = charged[k]
    BY <1>3, ChargeStep DEF LimitsInv
  <2>2. ASSUME NEW k \in Keys, Judged(k)' PROVE Bounded(k)'
    <3>1. Judged(k)
      BY <2>1, <2>2
    <3>2. CASE k = key
      BY <1>3, <2>1, <3>1, <3>2, RoomForOne
    <3>3. CASE k # key
      <4>1. Len(charged'[k]) <= Len(charged[k])
        BY <2>1, <3>1, <3>3, ChargedType DEF LimitsInv
      <4> QED
        BY <4>1, <1>2, <2>1, <2>2, <3>1, NoneMore
    <3> QED
      BY <3>2, <3>3
  <2> QED
    BY <1>1, <2>1, <2>2
<1>4. CASE Look({key})
  <2>1. Deques' /\ Linked' /\ UNCHANGED <<charged, dropped>>
    BY <1>4, LookStep DEF LimitsInv
  <2>2. ASSUME NEW k \in Keys, Judged(k)' PROVE Bounded(k)'
    <3>1. Judged(k)
      BY <2>1, <2>2 DEF Judged, WindowOf
    <3>2. Len(charged'[k]) <= Len(charged[k])
      BY <2>1, <3>1, ChargedType DEF LimitsInv
    <3> QED
      BY <3>1, <3>2, <1>2, <2>1, <2>2, NoneMore
  <2> QED
    BY <1>1, <2>1, <2>2
<1> QED
  BY <1>3, <1>4

LEMMA BudgetStep ==
  ASSUME LimitsInv, Inv', (freeSlots >= 0)', NEW h \in Handlers, Budget(h)
  PROVE  Clients' /\ Deques' /\ Linked' /\ \A k \in Keys : Judged(k)' => Bounded(k)'
<1> DEFINE own == <<"failure", thread[h].client>>
           all == <<"failure", "everyone">>
<1>1. thread[h].stage = "budget" /\ Look({own, all})
  BY DEF Budget
<1>2. PICK stage \in {"acquire", "done"} :
        Go(h, stage) /\ (stage = "acquire" => Within(own) /\ Within(all))
  <2> DEFINE allowed == Within(own) /\ Within(all)
  <2>1. Go(h, IF allowed THEN "acquire" ELSE "done")
    BY DEF Budget
  <2> HIDE DEF allowed
  <2>2. CASE allowed
    BY <2>1, <2>2 DEF allowed
  <2>3. CASE ~allowed
    BY <2>1, <2>3
  <2> QED
    BY <2>2, <2>3
<1>3. Clients' /\ thread[h].client \in Addresses
  BY <1>1, <1>2, ClientsStep DEF LimitsInv, Stages
<1>4. own \in Keys /\ all \in Keys
  BY <1>3 DEF Keys
<1>5. Deques' /\ Linked' /\ UNCHANGED <<charged, dropped>>
  BY <1>1, <1>4, LookStep DEF LimitsInv
<1>6. ASSUME NEW k \in Keys, Judged(k)' PROVE Bounded(k)'
  <2>1. Judged(k)
    BY <1>5, <1>6 DEF Judged, WindowOf
  <2>2. CASE stage = "acquire" /\ k \in {own, all}
    <3>1. Within(k) /\ k[1] = "failure" /\ charged'[k] = charged[k]
      BY <1>2, <1>5, <2>2
    <3> QED
      BY <3>1, <2>1, RoomForThreads
  <2>3. CASE ~(stage = "acquire" /\ k \in {own, all})
    <3>1. ~Counts(k, Thread(stage, thread[h].client))
      <4> SUFFICES ASSUME Counts(k, Thread(stage, thread[h].client)) PROVE FALSE
        OBVIOUS
      <4>1. stage = "acquire" /\ k[1] = "failure" /\ k[2] \in {"everyone", thread[h].client}
        BY <1>2 DEF Counts, Thread
      <4>2. k = own \/ k = all
        BY <4>1 DEF Keys
      <4> QED
        BY <4>1, <4>2, <2>3
    <3>2. Pending(k)' \subseteq Pending(k)
      BY <3>1, <1>2, GoPending DEF LimitsInv
    <3>3. Len(charged'[k]) <= Len(charged[k])
      BY <1>5, <2>1, ChargedType DEF LimitsInv
    <3> QED
      BY <3>2, <3>3, <1>5, <1>6, <2>1, NoneMore
  <2> QED
    BY <2>2, <2>3
<1> QED
  BY <1>3, <1>5, <1>6

(* A failure that is recorded: the thread counts for the key it charges     *)
(* until it does, and for everyone until the second charge.                 *)
LEMMA FailedStep ==
  ASSUME LimitsInv, Inv', (freeSlots >= 0)', NEW h \in Handlers, Failed(h)
  PROVE  Clients' /\ Deques' /\ Linked' /\ \A k \in Keys : Judged(k)' => Bounded(k)'
<1> DEFINE own == <<"failure", thread[h].client>>
           all == <<"failure", "everyone">>
<1>1. PICK key \in {own, all}, stage \in {"failedToo", "done"} :
        /\ Charge(key) /\ Go(h, stage)
        /\ \/ key = own /\ stage = "failedToo" /\ thread[h].stage = "failed"
           \/ key = all /\ stage = "done" /\ thread[h].stage = "failedToo"
  BY DEF Failed
<1>2. Clients' /\ thread[h].client \in Addresses
  BY <1>1, ClientsStep DEF LimitsInv, Stages
<1>3. key \in Keys /\ thread[h].client # "everyone"
  BY <1>1, <1>2, LimitsAssumption DEF Keys
<1>4. /\ Deques' /\ Linked'
      /\ \A k \in Keys : Judged(k)' => Judged(k)
      /\ charged'[key] = Append(charged[key], 0)
      /\ \A k \in Keys \ {key} : charged'[k] = charged[k]
  BY <1>1, <1>3, ChargeStep DEF LimitsInv
<1>5. Counts(key, thread[h]) /\ ~Counts(key, Thread(stage, thread[h].client))
  BY <1>1, <1>3 DEF Counts, Thread
<1>6. \A k : Counts(k, Thread(stage, thread[h].client)) => Counts(k, thread[h])
  BY <1>1 DEF Counts, Thread
<1>7. ASSUME NEW k \in Keys, Judged(k)' PROVE Bounded(k)'
  <2>1. Judged(k)
    BY <1>4, <1>7
  <2>2. CASE k = key
    <3>1. h \in Pending(k) /\ Pending(k)' = Pending(k) \ {h}
      BY <1>1, <1>5, <2>2, GoPending DEF LimitsInv, Pending
    <3> QED
      BY <3>1, <1>4, <2>1, <2>2, OneSettled
  <2>3. CASE k # key
    <3>1. Pending(k)' \subseteq Pending(k)
      <4>1. Counts(k, thread[h]) => h \in Pending(k)
        BY DEF Pending
      <4> QED
        BY <4>1, <1>1, <1>6, GoPending DEF LimitsInv
    <3>2. Len(charged'[k]) <= Len(charged[k])
      BY <1>4, <2>1, <2>3, ChargedType DEF LimitsInv
    <3> QED
      BY <3>1, <3>2, <1>4, <1>7, <2>1, NoneMore
  <2> QED
    BY <2>2, <2>3
<1> QED
  BY <1>2, <1>4, <1>7

LEMMA LimitsStep == LimitsInv /\ [Next]_vars => LimitsInv'
<1> SUFFICES ASSUME LimitsInv, [Next]_vars PROVE LimitsInv'
  OBVIOUS
<1>1. Inv'
  BY StepInv DEF LimitsInv
<1> DEFINE Kept == Clients' /\ Deques' /\ Linked' /\ \A k \in Keys : Judged(k)' => Bounded(k)'
           Free == (freeSlots >= 0)' /\ (freePermits >= 0)'
<1> SUFFICES Kept /\ Free
  BY <1>1 DEF LimitsInv
<1>2. freeSlots >= 0 /\ freePermits >= 0 /\ freeSlots \in Int /\ freePermits \in Int
  BY Sizes DEF LimitsInv, Inv
<1>3. ASSUME UNCHANGED limiter, Clients', Free, \A k \in Keys : Pending(k)' \subseteq Pending(k) PROVE Kept
  <2>1. hits' = hits /\ charged' = charged /\ dropped' = dropped
    BY <1>3 DEF limiter
  <2>2. Deques' /\ Linked'
    BY <2>1 DEF LimitsInv, Deques, Linked, Judged, Tidy, Hits, WindowOf
  <2>3. ASSUME NEW k \in Keys, Judged(k)' PROVE Bounded(k)'
    <3>1. Judged(k)
      BY <2>1, <2>3 DEF Judged, WindowOf
    <3>2. Len(charged'[k]) <= Len(charged[k])
      BY <2>1, <3>1, ChargedType DEF LimitsInv
    <3> QED
      BY <1>1, <1>3, <2>2, <2>3, <3>1, <3>2, NoneMore
  <2> QED
    BY <1>3, <2>2, <2>3
<1>4. ASSUME NEW h \in Handlers, Accept(h) PROVE Kept /\ Free
  <2>1. PICK a \in Addresses : thread' = [thread EXCEPT ![h] = Thread("arrived", a)]
    BY <1>4 DEF Accept
  <2>2. thread'[h] = Thread("arrived", a) /\ \A g \in Handlers : g # h => thread'[g] = thread[g]
    BY <2>1 DEF LimitsInv, Inv
  <2>3. Clients'
    BY <2>2 DEF LimitsInv, Clients, Thread
  <2>4. \A k \in Keys : Pending(k)' \subseteq Pending(k)
    BY <2>2 DEF Pending, Counts, Thread
  <2>5. Free /\ UNCHANGED limiter
    BY <1>2, <1>4 DEF Accept
  <2> QED
    BY <1>3, <2>3, <2>4, <2>5
<1>5. ASSUME NEW h \in Handlers, StartFails(h) PROVE Kept /\ Free
  <2>1. UNCHANGED limiter /\ thread' = thread /\ Free
    BY <1>2, <1>5 DEF StartFails, GivesBack
  <2>2. Clients' /\ \A k \in Keys : Pending(k)' \subseteq Pending(k)
    BY <2>1 DEF LimitsInv, Clients, Pending
  <2> QED
    BY <1>3, <2>1, <2>2
<1>6. ASSUME NEW h \in Handlers, Answer(h) PROVE Kept /\ Free
  <2>1. thread' = [thread EXCEPT ![h] = NoThread] /\ UNCHANGED limiter /\ Free
    BY <1>2, <1>6 DEF Answer
  <2>2. thread'[h] = NoThread /\ \A g \in Handlers : g # h => thread'[g] = thread[g]
    BY <2>1 DEF LimitsInv, Inv
  <2>3. Clients'
    BY <2>2 DEF LimitsInv, Clients
  <2>4. \A k \in Keys : Pending(k)' \subseteq Pending(k)
    BY <2>2 DEF Pending, Counts, NoThread
  <2> QED
    BY <1>3, <2>1, <2>3, <2>4
<1>7. ASSUME NEW h \in Handlers, Read(h) PROVE Kept /\ Free
  <2>1. /\ thread[h].stage = "arrived" /\ Go(h, "done") /\ UNCHANGED <<freeSlots, freePermits>>
        /\ (Within(<<"read", thread[h].client>>) /\ Charge(<<"read", thread[h].client>>))
           \/ Look({<<"read", thread[h].client>>})
    BY <1>7 DEF Read
  <2>2. thread[h].client \in Addresses
    BY <2>1, ClientsStep DEF LimitsInv, Stages
  <2>3. <<"read", thread[h].client>> \in Keys
    BY <2>2 DEF Keys
  <2>4. Free
    BY <1>2, <2>1
  <2> QED
    BY <1>1, <2>1, <2>3, <2>4, AskedStep
<1>8. ASSUME NEW h \in Handlers, Change(h) PROVE Kept /\ Free
  <2> DEFINE key == <<"change", thread[h].client>>
  <2>1. PICK stage \in {"budget", "done"} :
          Go(h, stage) /\ ((Within(key) /\ Charge(key)) \/ Look({key}))
    BY <1>8 DEF Change
  <2>2. thread[h].stage = "arrived" /\ UNCHANGED <<freeSlots, freePermits>>
    BY <1>8 DEF Change
  <2>3. thread[h].client \in Addresses
    BY <2>1, <2>2, ClientsStep DEF LimitsInv, Stages
  <2>4. key \in Keys /\ key[1] # "failure"
    BY <2>3 DEF Keys
  <2>5. Free
    BY <1>2, <2>2
  <2> HIDE DEF key
  <2> QED
    BY <1>1, <2>1, <2>2, <2>4, <2>5, AskedStep
<1>9. ASSUME NEW h \in Handlers, Budget(h) PROVE Kept /\ Free
  <2>1. Free
    BY <1>2, <1>9 DEF Budget
  <2> QED
    BY <1>1, <1>9, <2>1, BudgetStep
<1>10. ASSUME NEW h \in Handlers, Acquire(h) PROVE Kept /\ Free
  <2>1. PICK stage \in {"verify", "done"} : Go(h, stage)
    BY <1>10 DEF Acquire
  <2>2. thread[h].stage = "acquire" /\ UNCHANGED limiter /\ Free
    BY <1>2, <1>10 DEF Acquire
  <2> QED
    BY <1>1, <2>1, <2>2, QuietStep DEF Stages
<1>11. ASSUME NEW h \in Handlers, Verify(h) PROVE Kept /\ Free
  <2>1. PICK stage \in {"done", "failed"} : Go(h, stage)
    BY <1>11 DEF Verify
  <2>2. thread[h].stage = "verify" /\ UNCHANGED limiter /\ Free
    BY <1>2, <1>11 DEF Verify
  <2> QED
    BY <1>1, <2>1, <2>2, QuietStep DEF Stages
<1>12. ASSUME NEW h \in Handlers, Failed(h) PROVE Kept /\ Free
  <2>1. Free
    BY <1>2, <1>12 DEF Failed
  <2> QED
    BY <1>1, <1>12, <2>1, FailedStep
<1>13. CASE Tick
  <2>1. Free /\ thread' = thread
    BY <1>2, <1>13 DEF Tick
  <2>2. /\ Deques' /\ Linked' /\ UNCHANGED dropped
        /\ \A k \in Keys : Judged(k) => Len(charged'[k]) <= Len(charged[k])
    BY <1>13, TickStep DEF LimitsInv
  <2>3. Clients' /\ \A k \in Keys : Pending(k)' \subseteq Pending(k)
    BY <2>1 DEF LimitsInv, Clients, Pending
  <2>4. ASSUME NEW k \in Keys, Judged(k)' PROVE Bounded(k)'
    <3>1. Judged(k)
      BY <2>2, <2>4 DEF Judged, WindowOf
    <3> QED
      BY <1>1, <2>1, <2>2, <2>3, <2>4, <3>1, NoneMore
  <2> QED
    BY <2>1, <2>2, <2>3, <2>4
<1>14. CASE UNCHANGED vars
  <2>1. UNCHANGED limiter /\ thread' = thread /\ Free
    BY <1>2, <1>14 DEF vars, limiter
  <2>2. Clients' /\ \A k \in Keys : Pending(k)' \subseteq Pending(k)
    BY <2>1 DEF LimitsInv, Clients, Pending
  <2> QED
    BY <1>3, <2>1, <2>2
<1> HIDE DEF Kept, Free
<1> QED
  BY <1>4, <1>5, <1>6, <1>7, <1>8, <1>9, <1>10, <1>11, <1>12, <1>13, <1>14 DEF Next

LEMMA InitLimits == Init => LimitsInv
<1> SUFFICES ASSUME Init PROVE LimitsInv
  OBVIOUS
<1>1. hits = <<>> /\ charged = [k \in Keys |-> <<>>] /\ thread = [h \in Handlers |-> NoThread]
      /\ freeSlots = Slots /\ freePermits = Permits
  BY DEF Init
<1>2. Inv /\ Slots \in Nat \ {0} /\ Permits \in Nat
  BY InitInv, LimitsAssumption
<1>3. Clients /\ Deques
  BY <1>1 DEF Clients, Deques
<1>4. <<>> \in Ages
  BY DEF Ages
<1>5. ASSUME NEW k \in Keys PROVE charged[k] = Tidy(k) /\ charged[k] \in Ages /\ Len(charged[k]) = 0
  <2>1. Hits(k) = <<>> /\ charged[k] = <<>>
    BY <1>1 DEF Hits
  <2>2. Recent(<<>>, WindowOf(k)) = <<>>
    BY <1>4, KeyFacts, TidyStays
  <2> QED
    BY <1>4, <2>1, <2>2 DEF Tidy
<1>6. Linked
  BY <1>1, <1>5 DEF Linked
<1>7. ASSUME NEW k \in Keys PROVE Bounded(k)
  <2>1. Pending(k) = {}
    BY <1>1 DEF Pending, Counts, NoThread
  <2>2. Cardinality(Pending(k)) = 0
    BY <2>1, FS_EmptySet
  <2> QED
    BY <1>5, <2>2, CeilingType DEF Bounded
<1> QED
  BY <1>1, <1>2, <1>3, <1>6, <1>7 DEF LimitsInv

LEMMA LimitsAlways == Spec => []LimitsInv
BY InitLimits, LimitsStep, PTL DEF Spec

(* The variables of the connection slots, of the hashing permits and of the *)
(* limiter keep their types; no deque ever has a younger timestamp before   *)
(* an older one, which is what lets allow, check and record stop at the     *)
(* first that is still in the window.                                       *)
THEOREM LimitsTyped == Spec => []TypeOK
<1>1. LimitsInv => TypeOK
  <2> SUFFICES ASSUME LimitsInv PROVE TypeOK
    OBVIOUS
  <2>1. DOMAIN hits \subseteq Keys /\ \A k \in DOMAIN hits : hits[k] \in Seq(0 .. Longest)
    BY DEF LimitsInv, Deques, Ages
  <2>2. \A k \in DOMAIN hits : \A i, j \in DOMAIN hits[k] : i < j => hits[k][i] >= hits[k][j]
    BY DEF LimitsInv, Deques, Falling
  <2>3. freeSlots \in 0 .. Slots /\ freePermits \in 0 .. Permits
    BY Sizes DEF LimitsInv, Inv
  <2> QED
    BY <2>1, <2>2, <2>3 DEF TypeOK, LimitsInv, Clients
<1> QED
  BY <1>1, LimitsAlways, PTL

(* The sliding window limiter that all request threads share: no key is      *)
(* charged more often in any of its windows than its limit, failed           *)
(* passphrases by less than a slot's worth of threads more; and this also    *)
(* while allow and record drop keys, for those with the shortest window.     *)
THEOREM WindowsHold == Spec => []WindowHeld
<1>1. LimitsInv => WindowHeld
  <2> SUFFICES ASSUME LimitsInv, NEW k \in Keys, Judged(k)
      PROVE  Len(charged[k]) <= LimitOf(k) + (IF k[1] = "failure" THEN Slots - 1 ELSE 0)
    BY DEF WindowHeld, Judged
  <2>1. Len(charged[k]) \in Nat /\ Cardinality(Pending(k)) \in Nat
    BY ChargedType, PendingFacts DEF LimitsInv
  <2>2. Len(charged[k]) + Cardinality(Pending(k)) <= Ceiling(k) /\ Ceiling(k) \in Nat
    BY CeilingType DEF LimitsInv, Bounded
  <2> QED
    BY <2>1, <2>2 DEF Ceiling
<1> QED
  BY <1>1, LimitsAlways, PTL
===============================================================================
