---------------------------- MODULE Deadlines_proofs ----------------------------
(***************************************************************************)
(* Proofs about Deadlines, for any number of request threads, passphrases, *)
(* tones and restarts, and whatever rows an older version left:            *)
(*  - RotationStays: a rotated passphrase stays rotated;                   *)
(*  - DeadlinesTyped: what a reader finds in the row is always a sorted    *)
(*    list of timers with identifiers and tones of their own;              *)
(*  - TimersStay: a timer stays until a request names it, and a deleted    *)
(*    one never comes back.                                                *)
(* The row is read by recursion over its items; what holds of every prefix *)
(* is shown by counting up to its length (CountUp), which follows from     *)
(* facts about finite sets of numbers.                                     *)
(***************************************************************************)
EXTENDS Deadlines, FiniteSetTheorems, SequenceTheorems, TLAPS

Outdated(pin) == pin # chosen /\ ~lateRotate

(* What may still be written to the file is what the operator chose: the    *)
(* file itself, an old hash in memory, and a passphrase about to be hashed  *)
(* again.  As long as the operator has no hash, nobody has.                 *)
NothingOutdated ==
  /\ ~Outdated(file.pin)
  /\ memory.old => ~Outdated(memory.pin)
  /\ \A h \in Handlers : thread[h].step = "upgrade" => ~Outdated(thread[h].pin)
NothingBefore ==
  file = NoHash =>
    /\ memory = NoHash
    /\ \A h \in Handlers : thread[h].step \notin {"upgrade", "adopt"}
Threads ==
  /\ thread = [h \in Handlers |-> thread[h]]
  /\ \A h \in Handlers :
       \/ thread[h] = Idle
       \/ thread[h] = [step |-> thread[h].step, request |-> thread[h].request, pin |-> thread[h].pin]

Inv == NothingOutdated /\ NothingBefore /\ Threads

LEMMA InitInv == Init => Inv
  BY DEF Init, Inv, NothingOutdated, NothingBefore, Threads, Outdated, NoHash, Idle

LEMMA StepInv == Inv /\ [Next]_vars => Inv'
<1> SUFFICES ASSUME Inv, [Next]_vars PROVE Inv'
  OBVIOUS
<1> USE DEF Inv, NothingOutdated, NothingBefore, Threads, Outdated
<1>1. CASE Start
  BY <1>1 DEF Start, Migrate
<1>2. CASE Stop
  BY <1>2 DEF Stop, secrets, settings, NoHash, Idle
(* The new passphrase is the chosen one; what was under way makes it late.  *)
<1>3. CASE Rotate
  <2>1. PICK pin \in Pins : chosen' = pin /\ file' = [pin |-> pin, old |-> FALSE]
    BY <1>3 DEF Rotate
  <2>2. UNCHANGED <<memory, thread>> /\ lateRotate' =
          (lateRotate \/ memory.old \/ \E h \in Handlers : thread[h].step = "upgrade")
    BY <1>3 DEF Rotate
  <2>3. file'.pin = chosen' /\ file' # NoHash
    BY <2>1, DeadlinesAssumption DEF NoHash
  <2>4. memory'.old => lateRotate'
    BY <2>2
  <2>5. \A h \in Handlers : thread'[h].step = "upgrade" => lateRotate'
    BY <2>2
  <2>6. Threads'
    BY <2>2
  <2>7. NothingOutdated'
    BY <2>3, <2>4, <2>5, Zenon
  <2>8. NothingBefore'
    BY <2>3 DEF NothingBefore
  <2> QED
    BY <2>6, <2>7, <2>8
<1>4. CASE Ensure
  BY <1>4, DeadlinesAssumption DEF Ensure, NoHash
<1>5. ASSUME NEW h \in Handlers, Admit(h) PROVE Inv'
  <2>1. memory # NoHash /\ UNCHANGED secrets
    BY <1>5 DEF Admit
  <2>2. PICK request \in Requests :
          thread' = [thread EXCEPT ![h] = [step |-> IF NeedsUpgrade(memory) THEN "upgrade" ELSE "act",
                                           request |-> request, pin |-> memory.pin]]
    BY <1>5 DEF Admit
  <2>3. \A g \in Handlers : g # h => thread'[g] = thread[g]
    BY <2>2
  <2>4. thread'[h].pin = memory.pin /\ (thread'[h].step = "upgrade" => memory.old)
    BY <2>2 DEF NeedsUpgrade
  <2>5. Threads'
    BY <2>2
  <2> QED
    BY <2>1, <2>2, <2>3, <2>4, <2>5 DEF secrets
<1>6. ASSUME NEW h \in Handlers, Upgrade(h) PROVE Inv'
  <2>1. \/ /\ file' = [pin |-> thread[h].pin, old |-> FALSE] /\ thread[h].pin \in Pins
           /\ thread' = [thread EXCEPT ![h].step = "adopt"]
        \/ UNCHANGED file /\ thread' = [thread EXCEPT ![h] = Idle]
    BY <1>6 DEF Upgrade
  <2>2. thread[h].step = "upgrade" /\ UNCHANGED <<memory, chosen, lateRotate>>
    BY <1>6 DEF Upgrade
  <2>3. \A g \in Handlers : g # h => thread'[g] = thread[g]
    BY <2>1
  <2>4. thread'[h].step # "upgrade"
    BY <2>1, <2>2 DEF Idle
  <2>5. file' # NoHash
    BY <2>1, <2>2, DeadlinesAssumption DEF NoHash
  <2>6. Threads'
    BY <2>1, <2>2 DEF Idle
  <2> QED
    BY <2>1, <2>2, <2>3, <2>4, <2>5, <2>6
<1>7. ASSUME NEW h \in Handlers, Adopt(h) PROVE Inv'
  <2>1. thread[h].step = "adopt" /\ memory'.old = FALSE /\ UNCHANGED <<file, chosen, lateRotate>>
    BY <1>7 DEF Adopt
  <2>2. thread' = [thread EXCEPT ![h].step = "act"]
    BY <1>7 DEF Adopt
  <2>3. \A g \in Handlers : g # h => thread'[g] = thread[g]
    BY <2>2
  <2>4. thread'[h].step # "upgrade"
    BY <2>1, <2>2 DEF Idle
  <2>5. Threads'
    BY <2>1, <2>2 DEF Idle
  <2> QED
    BY <2>1, <2>2, <2>3, <2>4, <2>5
<1>8. ASSUME NEW h \in Handlers, Act(h) PROVE Inv'
  <2>1. thread' = [thread EXCEPT ![h] = Idle] /\ UNCHANGED secrets
    BY <1>8 DEF Act
  <2> QED
    BY <2>1 DEF secrets, Idle
<1>9. CASE UNCHANGED vars
  BY <1>9 DEF vars, secrets
<1> QED
  BY <1>1, <1>2, <1>3, <1>4, <1>5, <1>6, <1>7, <1>8, <1>9 DEF Next

(* The hash file holds the passphrase the operator chose last, unless he     *)
(* rotated under a server that still held an old hash                        *)
(* (persist_admin_passphrase_hash, admin-passphrase.py).                     *)
THEOREM RotationStays == Spec => []RotationKept
<1>1. Inv => RotationKept
  BY DEF Inv, NothingOutdated, Outdated, RotationKept
<1> QED
  BY <1>1, InitInv, StepInv, PTL DEF Spec

---------------------------------------------------------------------------
(* Counting up from zero, and the least of some numbers: a set of numbers   *)
(* that is closed downwards is as long as it has members.                   *)

LEMMA CountUp ==
  ASSUME NEW n \in Nat, NEW S, 0 \in S, \A i \in 0 .. n - 1 : i \in S => i + 1 \in S
  PROVE  0 .. n \subseteq S
<1> DEFINE down == {i \in 0 .. n : 0 .. i \subseteq S}
           c == Cardinality(down)
<1>1. down \in SUBSET (0 .. n) /\ IsFiniteSet(0 .. n) /\ Cardinality(0 .. n) = n + 1
  BY FS_Interval
<1>2. IsFiniteSet(down) /\ c \in Nat /\ c <= n + 1
  BY <1>1, FS_Subset, FS_CardinalityType
<1>3. 0 \in down
  <2>1. 0 .. 0 = {0}
    OBVIOUS
  <2> QED
    BY <2>1
<1>4. \A i \in down : 0 .. i \in SUBSET down
  OBVIOUS
<1>5. \A i \in down : i + 1 <= c
  <2> TAKE i \in down
  <2>1. 0 .. i \in SUBSET down /\ i \in Nat
    BY <1>4
  <2>2. Cardinality(0 .. i) <= c /\ Cardinality(0 .. i) = i + 1
    <3>1. Cardinality(0 .. i) <= c
      BY <1>2, <2>1, FS_Subset
    <3> QED
      BY <2>1, <3>1, FS_Interval
  <2> QED
    BY <2>2
<1>6. \A i \in down : 0 .. i \subseteq S /\ i \in 0 .. n
  OBVIOUS
<1>7. \A i \in 0 .. n : 0 .. i \subseteq S => i \in down
  OBVIOUS
<1> HIDE DEF down
<1>8. down = 0 .. c - 1
  <2> HIDE DEF c
  <2>1. c >= 1
    BY <1>3, <1>5
  <2>2. down \in SUBSET (0 .. c - 1)
    BY <1>2, <1>5, <1>6
  <2>3. IsFiniteSet(0 .. c - 1) /\ Cardinality(0 .. c - 1) = c
    <3>1. 0 \in Int /\ c - 1 \in Int /\ ~(0 > c - 1) /\ (c - 1) - 0 + 1 = c
      BY <1>2, <2>1
    <3>2. /\ IsFiniteSet(0 .. c - 1)
          /\ Cardinality(0 .. c - 1) = IF 0 > c - 1 THEN 0 ELSE (c - 1) - 0 + 1
      BY <3>1, FS_Interval
    <3> QED
      BY <3>1, <3>2
  <2>4. Cardinality(down) = c
    BY DEF c
  <2> QED
    BY <2>2, <2>3, <2>4, FS_Subset
<1> HIDE DEF c
<1>9. c = n + 1
  <2> SUFFICES ASSUME c <= n PROVE FALSE
    BY <1>2
  <2>1. c >= 1
    BY <1>3, <1>5
  <2>2. c - 1 \in down /\ c - 1 \in 0 .. n - 1
    BY <1>2, <1>8, <2>1
  <2>3. 0 .. c - 1 \subseteq S /\ c \in S
    <3>1. 0 .. c - 1 \subseteq S
      BY <1>6, <2>2
    <3>2. c - 1 \in S /\ (c - 1) + 1 = c
      BY <3>1, <2>2, <1>2
    <3> QED
      BY <3>1, <3>2, <2>2
  <2>4. 0 .. c \subseteq S
    BY <2>3, <1>2
  <2>5. c \in down
    BY <1>7, <2>4, <1>2
  <2> QED
    BY <1>5, <1>2, <2>5
<1>10. n \in down
  BY <1>8, <1>9
<1> QED
  BY <1>6, <1>10

LEMMA Least ==
  ASSUME NEW S \in SUBSET Nat, NEW m \in S
  PROVE  \E n \in S : \A k \in S : n <= k
<1> SUFFICES ASSUME \A n \in S : \E k \in S : ~(n <= k) PROVE FALSE
  OBVIOUS
<1> DEFINE free == {i \in 0 .. m : \A k \in S : k > i}
<1>1. m \in Nat
  OBVIOUS
<1>2. 0 \in free
  OBVIOUS
<1>3. ASSUME NEW i \in 0 .. m - 1, i \in free PROVE i + 1 \in free
  <2>1. i + 1 \in 0 .. m /\ \A k \in S : k >= i + 1
    BY <1>1, <1>3
  <2>2. i + 1 \notin S
    BY <2>1
  <2> QED
    BY <2>1, <2>2
<1> HIDE DEF free
<1>4. 0 .. m \subseteq free
  <2>1. \A i \in 0 .. m - 1 : i \in free => i + 1 \in free
    BY <1>3
  <2> QED
    BY <1>1, <1>2, <2>1, CountUp
<1>5. m \in free
  BY <1>1, <1>4
<1> QED
  BY <1>1, <1>5 DEF free

---------------------------------------------------------------------------
(* Sequences, whatever their elements are.                                  *)
IsSeq(t) == Len(t) \in Nat /\ t = [i \in 1 .. Len(t) |-> t[i]]

LEMMA SeqFrom ==
  ASSUME NEW n \in Nat, NEW f, f = [i \in 1 .. n |-> f[i]]
  PROVE  IsSeq(f) /\ Len(f) = n /\ f \in Seq({f[i] : i \in 1 .. n})
<1> DEFINE S == {f[i] : i \in 1 .. n}
<1>1. f \in [1 .. n -> S]
  OBVIOUS
<1> HIDE DEF S
<1>2. f \in Seq(S)
  BY <1>1, SeqDef
<1>3. Len(f) \in Nat /\ DOMAIN f = 1 .. Len(f) /\ DOMAIN f = 1 .. n
  BY <1>1, <1>2, LenProperties
<1>4. Len(f) = n
  BY <1>3
<1> QED
  BY <1>2, <1>4 DEF IsSeq, S

LEMMA SeqDomain ==
  ASSUME NEW t, IsSeq(t)
  PROVE  Len(t) \in Nat /\ DOMAIN t = 1 .. Len(t) /\ Range(t) = {t[i] : i \in 1 .. Len(t)}
<1>1. DOMAIN t = 1 .. Len(t)
  BY DEF IsSeq
<1> QED
  BY <1>1 DEF IsSeq, Range

LEMMA SeqAppend ==
  ASSUME NEW t, IsSeq(t), NEW e
  PROVE  /\ IsSeq(Append(t, e)) /\ Len(Append(t, e)) = Len(t) + 1
         /\ \A i \in 1 .. Len(t) : Append(t, e)[i] = t[i]
         /\ Append(t, e)[Len(t) + 1] = e
<1> DEFINE S == {t[i] : i \in 1 .. Len(t)} \cup {e}
<1>1. Len(t) \in Nat /\ t \in Seq(S)
  <2>1. Len(t) \in Nat /\ t \in [1 .. Len(t) -> S]
    BY DEF IsSeq
  <2> HIDE DEF S
  <2> QED
    BY <2>1, SeqDef
<1>2. e \in S
  OBVIOUS
<1> HIDE DEF S
<1>3. /\ Append(t, e) \in Seq(S) /\ Len(Append(t, e)) = Len(t) + 1
      /\ \A i \in 1 .. Len(t) : Append(t, e)[i] = t[i]
      /\ Append(t, e)[Len(t) + 1] = e
  BY <1>1, <1>2, AppendProperties
<1>4. Append(t, e) \in [1 .. Len(t) + 1 -> S]
  BY <1>1, <1>3, LenProperties
<1>5. IsSeq(Append(t, e))
  <2>1. Append(t, e) = [i \in 1 .. Len(t) + 1 |-> Append(t, e)[i]]
    BY <1>4
  <2>2. Len(Append(t, e)) \in Nat
    BY <1>1, <1>3
  <2> QED
    BY <1>3, <2>1, <2>2 DEF IsSeq
<1> QED
  BY <1>3, <1>5

---------------------------------------------------------------------------
(* _sort_deadlines: every timer has its place, and no other has it.         *)
Ahead(t, i) == {j \in DOMAIN t : t[j].at < t[i].at \/ (t[j].at = t[i].at /\ j < i)}
Rank(t, i) == Cardinality(Ahead(t, i))

LEMMA Ranks ==
  ASSUME NEW t, IsSeq(t), \A i \in 1 .. Len(t) : t[i].at \in Int
  PROVE  /\ \A i \in 1 .. Len(t) : Rank(t, i) \in 0 .. Len(t) - 1
         /\ \A i, j \in 1 .. Len(t) : i \in Ahead(t, j) => Rank(t, i) < Rank(t, j)
         /\ \A i, j \in 1 .. Len(t) : Rank(t, i) = Rank(t, j) => i = j
         /\ \A n \in 1 .. Len(t) : \E i \in 1 .. Len(t) : Rank(t, i) = n - 1
<1> DEFINE L == Len(t)
<1>1. L \in Nat /\ DOMAIN t = 1 .. L
  BY SeqDomain
<1>2. IsFiniteSet(1 .. L) /\ Cardinality(1 .. L) = L
  BY <1>1, FS_Interval
<1>3. ASSUME NEW i \in 1 .. L
      PROVE  IsFiniteSet(Ahead(t, i)) /\ Rank(t, i) \in Nat /\ Rank(t, i) <= L - 1 /\ i \notin Ahead(t, i)
  <2>1. t[i].at \in Int
    OBVIOUS
  <2>2. Ahead(t, i) \in SUBSET ((1 .. L) \ {i}) /\ i \notin Ahead(t, i)
    BY <1>1, <2>1 DEF Ahead
  <2>3. IsFiniteSet((1 .. L) \ {i}) /\ Cardinality((1 .. L) \ {i}) = L - 1
    BY <1>2, FS_RemoveElement
  <2>4. IsFiniteSet(Ahead(t, i)) /\ Rank(t, i) <= L - 1
    BY <2>2, <2>3, FS_Subset DEF Rank
  <2> QED
    BY <2>2, <2>4, FS_CardinalityType DEF Rank
<1>4. ASSUME NEW i \in 1 .. L, NEW j \in 1 .. L, i \in Ahead(t, j) PROVE Rank(t, i) < Rank(t, j)
  <2>1. Ahead(t, i) \in SUBSET Ahead(t, j)
    <3> SUFFICES ASSUME NEW k \in Ahead(t, i) PROVE k \in Ahead(t, j)
      OBVIOUS
    <3>1. k \in 1 .. L /\ t[k].at \in Int /\ t[i].at \in Int /\ t[j].at \in Int
      BY <1>1 DEF Ahead
    <3> QED
      BY <1>1, <1>4, <3>1 DEF Ahead
  <2>2. Ahead(t, i) # Ahead(t, j)
    BY <1>3, <1>4
  <2>3. Rank(t, i) <= Rank(t, j) /\ Rank(t, i) # Rank(t, j)
    BY <1>3, <2>1, <2>2, FS_Subset DEF Rank
  <2> QED
    BY <1>3, <2>3
<1>5. ASSUME NEW i \in 1 .. L, NEW j \in 1 .. L, Rank(t, i) = Rank(t, j) PROVE i = j
  <2> SUFFICES ASSUME i # j PROVE FALSE
    OBVIOUS
  <2>1. t[i].at \in Int /\ t[j].at \in Int
    OBVIOUS
  <2>2. i \in Ahead(t, j) \/ j \in Ahead(t, i)
    BY <1>1, <2>1 DEF Ahead
  <2> QED
    BY <1>3, <1>4, <1>5, <2>2
<1>6. \A i \in 1 .. L : Rank(t, i) \in 0 .. L - 1
  BY <1>1, <1>3
<1> DEFINE rank == [i \in 1 .. L |-> Rank(t, i)]
<1>7. rank \in Injection(1 .. L, 0 .. L - 1)
  BY <1>5, <1>6 DEF Injection, IsInjective
<1>8. IsFiniteSet(0 .. L - 1) /\ Cardinality(0 .. L - 1) = L
  BY <1>1, FS_Interval
<1>9. rank \in Surjection(1 .. L, 0 .. L - 1)
  BY <1>2, <1>7, <1>8, FS_Injection
<1>10. ASSUME NEW n \in 1 .. L PROVE \E i \in 1 .. L : Rank(t, i) = n - 1
  <2>1. n - 1 \in 0 .. L - 1
    BY <1>1
  <2>2. PICK i \in 1 .. L : rank[i] = n - 1
    BY <1>9, <2>1 DEF Surjection
  <2> QED
    BY <2>2
<1> QED
  BY <1>4, <1>5, <1>6, <1>10

(* The order in which the timers appear is a rearrangement of theirs.       *)
Arranges(p, t, s) ==
  /\ p \in [1 .. Len(t) -> 1 .. Len(t)]
  /\ \A m, n \in 1 .. Len(t) : p[m] = p[n] => m = n
  /\ \A i \in 1 .. Len(t) : \E n \in 1 .. Len(t) : p[n] = i
  /\ \A n \in 1 .. Len(t) : s[n] = t[p[n]]

LEMMA SortedFacts ==
  ASSUME NEW t, IsSeq(t), \A i \in 1 .. Len(t) : t[i].at \in Int
  PROVE  /\ IsSeq(Sorted(t)) /\ Len(Sorted(t)) = Len(t)
         /\ \E p : Arranges(p, t, Sorted(t))
         /\ \A m, n \in 1 .. Len(t) : m < n => Sorted(t)[m].at <= Sorted(t)[n].at
<1> DEFINE L == Len(t)
           p == [n \in 1 .. L |-> CHOOSE i \in 1 .. L : Rank(t, i) = n - 1]
<1>1. L \in Nat /\ DOMAIN t = 1 .. L
  BY SeqDomain
<1>2. Sorted(t) = [n \in 1 .. L |-> t[CHOOSE i \in 1 .. L : Rank(t, i) = n - 1]]
  BY <1>1 DEF Sorted, Rank, Ahead
<1>3. IsSeq(Sorted(t)) /\ Len(Sorted(t)) = L
  BY <1>1, <1>2, SeqFrom
<1>4. \A n \in 1 .. L : p[n] \in 1 .. L /\ Rank(t, p[n]) = n - 1 /\ Sorted(t)[n] = t[p[n]]
  BY <1>2, Ranks
<1>5. p \in [1 .. L -> 1 .. L]
  BY <1>4
<1> HIDE DEF p
<1>6. \A m, n \in 1 .. L : p[m] = p[n] => m = n
  BY <1>1, <1>4
<1>7. ASSUME NEW i \in 1 .. L PROVE \E n \in 1 .. L : p[n] = i
  <2>1. Rank(t, i) \in 0 .. L - 1
    BY Ranks
  <2>2. Rank(t, i) + 1 \in 1 .. L /\ (Rank(t, i) + 1) - 1 = Rank(t, i)
    BY <1>1, <2>1
  <2>3. Rank(t, p[Rank(t, i) + 1]) = Rank(t, i) /\ p[Rank(t, i) + 1] \in 1 .. L
    BY <1>4, <2>2
  <2>4. p[Rank(t, i) + 1] = i
    BY <2>3, Ranks
  <2> QED
    BY <2>2, <2>4
<1>8. Arranges(p, t, Sorted(t))
  BY <1>4, <1>5, <1>6, <1>7 DEF Arranges
<1>9. ASSUME NEW m \in 1 .. L, NEW n \in 1 .. L, m < n PROVE Sorted(t)[m].at <= Sorted(t)[n].at
  <2> SUFFICES ASSUME ~(t[p[m]].at <= t[p[n]].at) PROVE FALSE
    BY <1>4
  <2>1. p[m] \in 1 .. L /\ p[n] \in 1 .. L /\ t[p[m]].at \in Int /\ t[p[n]].at \in Int
    BY <1>4
  <2>2. p[n] \in Ahead(t, p[m])
    BY <1>1, <2>1 DEF Ahead
  <2>3. Rank(t, p[n]) < Rank(t, p[m])
    BY <2>1, <2>2, Ranks
  <2> QED
    BY <1>1, <1>4, <1>9, <2>3
<1> QED
  BY <1>3, <1>8, <1>9

---------------------------------------------------------------------------
(* Timers that fit the palette, each with an identifier and a tone of its   *)
(* own: there is always another identifier and, below the limit, another    *)
(* tone.                                                                    *)
LEMMA PaletteFacts ==
  /\ MaxTimers \in Nat \ {0} /\ DOMAIN Tones = 1 .. MaxTimers
  /\ Range(Tones) = {Tones[i] : i \in 1 .. MaxTimers}
  /\ \A i, j \in 1 .. MaxTimers : Tones[i] = Tones[j] => i = j
<1>1. Tones \in Seq(Range(Tones)) /\ Tones # <<>> /\ \A i, j \in DOMAIN Tones : Tones[i] = Tones[j] => i = j
  BY DeadlinesAssumption
<1>2. Len(Tones) \in Nat /\ DOMAIN Tones = 1 .. Len(Tones)
  BY <1>1, LenProperties
<1>3. Len(Tones) # 0
  BY <1>1, EmptySeq
<1> QED
  BY <1>1, <1>2, <1>3 DEF MaxTimers, Range

LEMMA Members ==
  ASSUME NEW n \in Nat, NEW f, f = [i \in 1 .. n |-> f[i]], NEW T, T = {f[i] : i \in 1 .. n}
  PROVE  /\ IsFiniteSet(T) /\ Cardinality(T) \in Nat /\ Cardinality(T) <= n
         /\ (\A i, j \in 1 .. n : f[i] = f[j] => i = j) => Cardinality(T) = n
<1>1. IsFiniteSet(1 .. n) /\ Cardinality(1 .. n) = n
  BY FS_Interval
<1>2. f \in [1 .. n -> T] /\ \A u \in T : \E i \in 1 .. n : f[i] = u
  OBVIOUS
<1>3. f \in Surjection(1 .. n, T)
  BY <1>2 DEF Surjection
<1>4. IsFiniteSet(T) /\ Cardinality(T) <= n /\ (Cardinality(T) = n <=> f \in Injection(1 .. n, T))
  BY <1>1, <1>3, FS_Surjection
<1>5. (\A i, j \in 1 .. n : f[i] = f[j] => i = j) => f \in Injection(1 .. n, T)
  BY <1>2 DEF Injection, IsInjective
<1>6. Cardinality(T) \in Nat
  BY <1>4, FS_CardinalityType
<1> QED
  BY <1>4, <1>5, <1>6

LEMMA OwnOnes ==
  ASSUME NEW t, IsSeq(t)
  PROVE  /\ IsFiniteSet(Ids(t)) /\ Cardinality(Ids(t)) \in Nat /\ Cardinality(Ids(t)) <= Len(t)
         /\ IsFiniteSet(TonesOf(t)) /\ Cardinality(TonesOf(t)) \in Nat /\ Cardinality(TonesOf(t)) <= Len(t)
         /\ (\A i, j \in 1 .. Len(t) : t[i].id = t[j].id => i = j) => Cardinality(Ids(t)) = Len(t)
         /\ (\A i, j \in 1 .. Len(t) : t[i].tone = t[j].tone => i = j) => Cardinality(TonesOf(t)) = Len(t)
<1> DEFINE ids == [i \in 1 .. Len(t) |-> t[i].id]
           tones == [i \in 1 .. Len(t) |-> t[i].tone]
<1>1. Len(t) \in Nat /\ DOMAIN t = 1 .. Len(t)
  BY SeqDomain
<1>2. Ids(t) = {ids[i] : i \in 1 .. Len(t)} /\ TonesOf(t) = {tones[i] : i \in 1 .. Len(t)}
  BY <1>1 DEF Ids, TonesOf
<1>3. /\ ids = [i \in 1 .. Len(t) |-> ids[i]] /\ \A i \in 1 .. Len(t) : ids[i] = t[i].id
      /\ tones = [i \in 1 .. Len(t) |-> tones[i]] /\ \A i \in 1 .. Len(t) : tones[i] = t[i].tone
  OBVIOUS
<1> HIDE DEF ids, tones
<1>4. /\ IsFiniteSet(Ids(t)) /\ Cardinality(Ids(t)) \in Nat /\ Cardinality(Ids(t)) <= Len(t)
      /\ (\A i, j \in 1 .. Len(t) : ids[i] = ids[j] => i = j) => Cardinality(Ids(t)) = Len(t)
  BY <1>1, <1>2, <1>3, Members
<1>5. /\ IsFiniteSet(TonesOf(t)) /\ Cardinality(TonesOf(t)) \in Nat /\ Cardinality(TonesOf(t)) <= Len(t)
      /\ (\A i, j \in 1 .. Len(t) : tones[i] = tones[j] => i = j) => Cardinality(TonesOf(t)) = Len(t)
  BY <1>1, <1>2, <1>3, Members
<1> QED
  BY <1>3, <1>4, <1>5

(* FreeTone finds a tone that nobody has.                                   *)
LEMMA FreeToneFree ==
  ASSUME NEW t, IsSeq(t), Len(t) < MaxTimers
  PROVE  FreeTone(TonesOf(t)) \in Range(Tones) \ TonesOf(t)
<1> DEFINE used == TonesOf(t)
           free == {i \in 1 .. MaxTimers : Tones[i] \notin used}
<1>1. /\ MaxTimers \in Nat \ {0} /\ DOMAIN Tones = 1 .. MaxTimers
      /\ \A i, j \in 1 .. MaxTimers : Tones[i] = Tones[j] => i = j
      /\ Range(Tones) = {Tones[i] : i \in 1 .. MaxTimers}
  BY PaletteFacts
<1>2. IsFiniteSet(used) /\ Cardinality(used) < MaxTimers
  <2>1. IsFiniteSet(used) /\ Cardinality(used) \in Nat /\ Cardinality(used) <= Len(t)
    BY OwnOnes
  <2>2. Len(t) \in Nat
    BY DEF IsSeq
  <2> HIDE DEF used
  <2> QED
    BY <1>1, <2>1, <2>2
<1> HIDE DEF used
<1>3. free # {}
  <2> SUFFICES ASSUME \A i \in 1 .. MaxTimers : Tones[i] \in used PROVE FALSE
    OBVIOUS
  <2> DEFINE f == [i \in 1 .. MaxTimers |-> Tones[i]]
  <2>1. f \in [1 .. MaxTimers -> used]
    OBVIOUS
  <2>2. IsFiniteSet(1 .. MaxTimers) /\ Cardinality(1 .. MaxTimers) = MaxTimers
    BY <1>1, FS_Interval
  <2>3. \A i \in 1 .. MaxTimers : f[i] = Tones[i]
    OBVIOUS
  <2> HIDE DEF f
  <2>4. \E i, j \in 1 .. MaxTimers : i # j /\ f[i] = f[j]
    BY <1>2, <2>1, <2>2, FS_PigeonHole
  <2> QED
    BY <1>1, <2>3, <2>4
<1>4. free \in SUBSET Nat
  OBVIOUS
<1>5. \E i \in free : \A k \in free : i <= k
  <2> HIDE DEF free
  <2> QED
    BY <1>3, <1>4, Least
<1>6. \E i \in 1 .. MaxTimers : Tones[i] \notin used /\ \A j \in 1 .. i - 1 : Tones[j] \in used
  <2>1. PICK i \in free : \A k \in free : i <= k
    BY <1>5
  <2>2. \A j \in 1 .. i - 1 : j \in 1 .. MaxTimers /\ ~(i <= j)
    BY <1>1
  <2> QED
    BY <2>1, <2>2
<1>7. PICK i \in 1 .. MaxTimers : FreeTone(used) = Tones[i] /\ Tones[i] \notin used
  BY <1>1, <1>6 DEF FreeTone
<1> QED
  BY <1>1, <1>7 DEF used

(* SoundId gives an identifier that nobody has.                             *)
LEMMA SoundIdFree ==
  ASSUME NEW t, IsSeq(t), Len(t) <= MaxTimers, NEW item, NEW i
  PROVE  /\ SoundId(Ids(t), item, i) \notin Ids(t) \cup {Bad}
         /\ \/ SoundId(Ids(t), item, i) = item.id
            \/ \E n \in Nat : SoundId(Ids(t), item, i) = Slot(i, n)
<1> DEFINE used == Ids(t)
           free == {n \in 0 .. MaxTimers : Slot(i, n) \notin used}
<1>1. MaxTimers \in Nat \ {0}
  BY PaletteFacts
<1>2. IsFiniteSet(used) /\ Cardinality(used) < MaxTimers + 1
  <2>1. IsFiniteSet(used) /\ Cardinality(used) \in Nat /\ Cardinality(used) <= Len(t)
    BY OwnOnes
  <2>2. Len(t) \in Nat
    BY DEF IsSeq
  <2> HIDE DEF used
  <2> QED
    BY <1>1, <2>1, <2>2
<1> HIDE DEF used
<1>3. free # {}
  <2> SUFFICES ASSUME \A n \in 0 .. MaxTimers : Slot(i, n) \in used PROVE FALSE
    OBVIOUS
  <2> DEFINE f == [n \in 0 .. MaxTimers |-> Slot(i, n)]
  <2>1. f \in [0 .. MaxTimers -> used]
    OBVIOUS
  <2>2. IsFiniteSet(0 .. MaxTimers) /\ Cardinality(0 .. MaxTimers) = MaxTimers + 1
    BY <1>1, FS_Interval
  <2>3. \A n \in 0 .. MaxTimers : f[n] = Slot(i, n)
    OBVIOUS
  <2> HIDE DEF f
  <2>4. PICK m \in 0 .. MaxTimers, n \in 0 .. MaxTimers : m # n /\ f[m] = f[n]
    BY <1>2, <2>1, <2>2, FS_PigeonHole
  <2> QED
    BY <2>3, <2>4 DEF Slot
<1>4. free \in SUBSET Nat
  OBVIOUS
<1>5. \E n \in free : \A k \in free : n <= k
  <2> HIDE DEF free
  <2> QED
    BY <1>3, <1>4, Least
<1> DEFINE n == CHOOSE m \in free : \A k \in free : m <= k
<1>6. n \in free
  <2> HIDE DEF free
  <2> QED
    BY <1>5
<1>7. n \in Nat /\ Slot(i, n) \notin used
  BY <1>6
<1>8. Slot(i, n) # Bad
  BY DEF Slot, Bad
<1>9. SoundId(used, item, i) = IF item.id # Bad /\ item.id \notin used THEN item.id ELSE Slot(i, n)
  BY DEF SoundId
<1> HIDE DEF n
<1>10. /\ SoundId(used, item, i) \notin used \cup {Bad}
       /\ SoundId(used, item, i) = item.id \/ SoundId(used, item, i) = Slot(i, n)
  BY <1>7, <1>8, <1>9
<1> QED
  BY <1>7, <1>10 DEF used

---------------------------------------------------------------------------
(* What a reader may rely on.                                               *)
Sound(t) ==
  /\ IsSeq(t) /\ Len(t) <= MaxTimers
  /\ \A i \in 1 .. Len(t) :
       /\ t[i] = [id |-> t[i].id, tone |-> t[i].tone, at |-> t[i].at]
       /\ t[i].id # Bad /\ t[i].tone \in Range(Tones) /\ t[i].at \in Int /\ t[i].at # Unusable
  /\ \A i, j \in 1 .. Len(t) : t[i].id = t[j].id \/ t[i].tone = t[j].tone => i = j

LEMMA EmptySound == Sound(<<>>) /\ Len(<<>>) = 0 /\ Ids(<<>>) = {}
<1>1. Len(<<>>) = 0 /\ DOMAIN <<>> = 1 .. 0 /\ <<>> = [i \in 1 .. 0 |-> <<>>[i]]
  OBVIOUS
<1>2. IsSeq(<<>>)
  BY <1>1 DEF IsSeq
<1> QED
  BY <1>1, <1>2, PaletteFacts DEF Sound, Ids

LEMMA AppendSound ==
  ASSUME NEW t, Sound(t), Len(t) < MaxTimers,
         NEW id, id \notin Ids(t) \cup {Bad}, NEW tone \in Range(Tones) \ TonesOf(t),
         NEW at \in Int, at # Unusable
  PROVE  LET u == Append(t, [id |-> id, tone |-> tone, at |-> at])
         IN  /\ Sound(u) /\ Len(u) = Len(t) + 1 /\ Ids(u) = Ids(t) \cup {id}
             /\ \A i \in 1 .. Len(t) : u[i] = t[i]
<1> DEFINE e == [id |-> id, tone |-> tone, at |-> at]
           u == Append(t, e)
<1>1. e.id = id /\ e.tone = tone /\ e.at = at /\ e = [id |-> e.id, tone |-> e.tone, at |-> e.at]
  OBVIOUS
<1>2. IsSeq(t) /\ Len(t) \in Nat /\ DOMAIN t = 1 .. Len(t)
  BY SeqDomain DEF Sound
<1> HIDE DEF e
<1>3. IsSeq(u) /\ Len(u) = Len(t) + 1 /\ (\A i \in 1 .. Len(t) : u[i] = t[i]) /\ u[Len(t) + 1] = e
  BY <1>2, SeqAppend
<1> HIDE DEF u
<1>4. \A i \in 1 .. Len(u) : (i \in 1 .. Len(t) /\ u[i] = t[i]) \/ (i = Len(t) + 1 /\ u[i] = e)
  BY <1>2, <1>3
<1>5. \A i \in 1 .. Len(t) : t[i].id # id /\ t[i].tone # tone
  BY <1>2 DEF Ids, TonesOf
<1>6. Len(u) <= MaxTimers
  BY <1>2, <1>3, PaletteFacts
<1>7. \A i, j \in 1 .. Len(u) : u[i].id = u[j].id \/ u[i].tone = u[j].tone => i = j
  <2> SUFFICES ASSUME NEW i \in 1 .. Len(u), NEW j \in 1 .. Len(u), u[i].id = u[j].id \/ u[i].tone = u[j].tone
               PROVE  i = j
    OBVIOUS
  <2>1. CASE i \in 1 .. Len(t) /\ j \in 1 .. Len(t) /\ u[i] = t[i] /\ u[j] = t[j]
    BY <2>1 DEF Sound
  <2>2. CASE i \in 1 .. Len(t) /\ u[i] = t[i] /\ u[j] = e
    BY <1>1, <1>5, <2>2
  <2>3. CASE j \in 1 .. Len(t) /\ u[j] = t[j] /\ u[i] = e
    BY <1>1, <1>5, <2>3
  <2> QED
    BY <1>4, <2>1, <2>2, <2>3
<1>8. \A i \in 1 .. Len(u) :
        /\ u[i] = [id |-> u[i].id, tone |-> u[i].tone, at |-> u[i].at]
        /\ u[i].id # Bad /\ u[i].tone \in Range(Tones) /\ u[i].at \in Int /\ u[i].at # Unusable
  <2> TAKE i \in 1 .. Len(u)
  <2>1. CASE i \in 1 .. Len(t) /\ u[i] = t[i]
    BY <2>1 DEF Sound
  <2>2. CASE u[i] = e
    BY <1>1, <2>2
  <2> QED
    BY <1>4, <2>1, <2>2
<1>9. Sound(u)
  BY <1>3, <1>6, <1>7, <1>8 DEF Sound
<1>10. Ids(u) = Ids(t) \cup {id}
  <2>1. DOMAIN u = 1 .. Len(u) /\ Len(t) + 1 \in 1 .. Len(u) /\ \A i \in 1 .. Len(t) : i \in 1 .. Len(u)
    BY <1>2, <1>3, SeqDomain
  <2>2. Ids(u) \subseteq Ids(t) \cup {id}
    BY <1>1, <1>2, <1>4, <2>1 DEF Ids
  <2>3. id \in Ids(u)
    BY <1>1, <1>3, <2>1 DEF Ids
  <2>4. Ids(t) \subseteq Ids(u)
    BY <1>2, <1>3, <2>1 DEF Ids
  <2> QED
    BY <2>2, <2>3, <2>4
<1> QED
  BY <1>3, <1>9, <1>10 DEF u, e

(* One more stored item keeps what was found sound.                         *)
LEMMA TakenSound ==
  ASSUME NEW t, Sound(t), NEW item, item.at \in Int, NEW i \in Nat, Len(t) < i
  PROVE  LET u == Taken(t, item, i)
         IN  /\ Sound(u) /\ Len(u) <= i
             /\ \A id \in Ids(u) : id \in Ids(t) \/ id = item.id \/ \E n \in Nat : id = Slot(i, n)
<1> DEFINE id == SoundId(Ids(t), item, i)
           tone == SoundTone(TonesOf(t), item)
<1>1. Len(t) \in Nat /\ MaxTimers \in Nat \ {0} /\ IsSeq(t) /\ Len(t) <= MaxTimers
  BY PaletteFacts DEF Sound, IsSeq
<1>2. CASE i > MaxTimers \/ item.at = Unusable
  BY <1>1, <1>2 DEF Taken
<1>3. CASE ~(i > MaxTimers \/ item.at = Unusable)
  <2>1. Len(t) < MaxTimers
    BY <1>1, <1>3
  <2>2. id \notin Ids(t) \cup {Bad} /\ (id = item.id \/ \E n \in Nat : id = Slot(i, n))
    BY <1>1, SoundIdFree
  <2>3. tone \in Range(Tones) \ TonesOf(t)
    BY <1>1, <2>1, FreeToneFree DEF SoundTone
  <2>4. Taken(t, item, i) = Append(t, [id |-> id, tone |-> tone, at |-> item.at])
    BY <1>3 DEF Taken
  <2> HIDE DEF id, tone
  <2>5. /\ Sound(Taken(t, item, i)) /\ Len(Taken(t, item, i)) = Len(t) + 1
        /\ Ids(Taken(t, item, i)) = Ids(t) \cup {id}
    BY <1>3, <2>1, <2>2, <2>3, <2>4, AppendSound
  <2> QED
    BY <1>1, <2>2, <2>5
<1> QED
  BY <1>2, <1>3

(* A timer that is sound already is taken as it is.                         *)
LEMMA TakenAsIs ==
  ASSUME NEW t, NEW i \in Nat, i <= MaxTimers, NEW item,
         item = [id |-> item.id, tone |-> item.tone, at |-> item.at], item.at # Unusable,
         item.id \notin Ids(t) \cup {Bad}, item.tone \in Range(Tones) \ TonesOf(t)
  PROVE  Taken(t, item, i) = Append(t, item)
<1>1. SoundId(Ids(t), item, i) = item.id /\ SoundTone(TonesOf(t), item) = item.tone
  BY DEF SoundId, SoundTone
<1>2. ~(i > MaxTimers \/ item.at = Unusable)
  BY PaletteFacts
<1> QED
  BY <1>1, <1>2 DEF Taken

(* The row is read one item after the other.                                *)
LEMMA ReadingStep ==
  ASSUME NEW stored, Len(stored) \in Nat
  PROVE  /\ Reading(stored)[0] = <<>>
         /\ \A i \in 1 .. Len(stored) : Reading(stored)[i] = Taken(Reading(stored)[i - 1], stored[i], i)
<1> DEFINE L == Len(stored)
           Is(g, m) == g = [i \in 0 .. m |-> IF i = 0 THEN <<>> ELSE Taken(g[i - 1], stored[i], i)]
           S == {m \in 0 .. L : \E g : Is(g, m)}
<1>1. 0 \in S
  <2> DEFINE none == [i \in 0 .. 0 |-> <<>>]
  <2>1. Is(none, 0)
    OBVIOUS
  <2> HIDE DEF none
  <2>2. (\E g : Is(g, 0)) /\ 0 \in 0 .. L
    BY <2>1
  <2> QED
    BY <2>2
<1>2. ASSUME NEW m \in 0 .. L - 1, m \in S PROVE m + 1 \in S
  <2>1. PICK g : Is(g, m)
    BY <1>2
  <2> DEFINE h == [i \in 0 .. m + 1 |-> IF i = 0 THEN <<>> ELSE Taken(g[i - 1], stored[i], i)]
  <2>2. m \in Nat /\ m + 1 \in 0 .. L
    OBVIOUS
  <2>3. \A i \in 0 .. m : g[i] = IF i = 0 THEN <<>> ELSE Taken(g[i - 1], stored[i], i)
    BY <2>1
  <2>4. \A i \in 0 .. m + 1 : h[i] = IF i = 0 THEN <<>> ELSE Taken(g[i - 1], stored[i], i)
    OBVIOUS
  <2>5. h = [i \in 0 .. m + 1 |-> h[i]]
    OBVIOUS
  <2> HIDE DEF h
  <2>6. \A i \in 0 .. m : h[i] = g[i]
    BY <2>2, <2>3, <2>4
  <2>7. \A i \in 0 .. m + 1 : h[i] = IF i = 0 THEN <<>> ELSE Taken(h[i - 1], stored[i], i)
    <3> TAKE i \in 0 .. m + 1
    <3>1. CASE i = 0
      BY <2>2, <2>4, <3>1
    <3>2. CASE i # 0
      <4>1. i - 1 \in 0 .. m
        BY <2>2, <3>2
      <4> QED
        BY <2>4, <2>6, <3>2, <4>1
    <3> QED
      BY <3>1, <3>2
  <2>8. Is(h, m + 1)
    BY <2>5, <2>7
  <2> QED
    BY <2>2, <2>8
<1>3. L \in S
  <2> HIDE DEF S
  <2>1. \A m \in 0 .. L - 1 : m \in S => m + 1 \in S
    BY <1>2
  <2>2. 0 .. L \subseteq S
    BY <1>1, <2>1, CountUp
  <2> QED
    BY <2>2
<1>4. \E g : Is(g, L)
  BY <1>3
<1>5. Reading(stored) = CHOOSE g : Is(g, L)
  BY DEF Reading
<1>6. Is(Reading(stored), L)
  <2> HIDE DEF Is
  <2> QED
    BY <1>4, <1>5
<1>7. \A i \in 0 .. L :
        Reading(stored)[i] = IF i = 0 THEN <<>> ELSE Taken(Reading(stored)[i - 1], stored[i], i)
  BY <1>6
<1> QED
  BY <1>7

(* Whatever JSON the row holds, what is read from it is sound; no           *)
(* identifier is invented but a slot.                                       *)
LEMMA UsableSound ==
  ASSUME NEW stored, Len(stored) \in Nat, \A i \in 1 .. Len(stored) : stored[i].at \in Int
  PROVE  /\ Sound(Usable(stored))
         /\ \A id \in Ids(Usable(stored)) :
              (\E i \in 1 .. Len(stored) : id = stored[i].id) \/ (\E i, n \in Nat : id = Slot(i, n))
<1> DEFINE L == Len(stored)
           R(i) == Reading(stored)[i]
           From(id) == (\E i \in 1 .. L : id = stored[i].id) \/ (\E i, n \in Nat : id = Slot(i, n))
           S == {i \in 0 .. L : Sound(R(i)) /\ Len(R(i)) <= i /\ \A id \in Ids(R(i)) : From(id)}
<1>1. R(0) = <<>> /\ \A i \in 1 .. L : R(i) = Taken(R(i - 1), stored[i], i)
  BY ReadingStep
<1> HIDE DEF R
<1>2. 0 \in S
  <2>1. Sound(R(0)) /\ Len(R(0)) = 0 /\ Ids(R(0)) = {} /\ 0 \in 0 .. L
    BY <1>1, EmptySound
  <2> QED
    BY <2>1
<1>3. ASSUME NEW m \in 0 .. L - 1, m \in S PROVE m + 1 \in S
  <2>1. m \in Nat /\ m + 1 \in 1 .. L /\ m + 1 \in 0 .. L /\ (m + 1) - 1 = m /\ m + 1 \in Nat
    OBVIOUS
  <2>2. Sound(R(m)) /\ Len(R(m)) <= m /\ (\A id \in Ids(R(m)) : From(id)) /\ Len(R(m)) \in Nat
    BY <1>3 DEF Sound, IsSeq
  <2>3. R(m + 1) = Taken(R(m), stored[m + 1], m + 1) /\ stored[m + 1].at \in Int
    BY <1>1, <2>1
  <2> HIDE DEF From
  <2>4. Len(R(m)) < m + 1
    BY <2>1, <2>2
  <2>5. /\ Sound(R(m + 1)) /\ Len(R(m + 1)) <= m + 1
        /\ \A id \in Ids(R(m + 1)) :
             id \in Ids(R(m)) \/ id = stored[m + 1].id \/ \E n \in Nat : id = Slot(m + 1, n)
    BY <2>1, <2>2, <2>3, <2>4, TakenSound
  <2>6. \A id \in Ids(R(m + 1)) : From(id)
    BY <2>1, <2>2, <2>5 DEF From
  <2> QED
    BY <2>1, <2>5, <2>6
<1>4. L \in S
  <2> HIDE DEF S
  <2>1. \A m \in 0 .. L - 1 : m \in S => m + 1 \in S
    BY <1>3
  <2>2. 0 .. L \subseteq S
    BY <1>2, <2>1, CountUp
  <2> QED
    BY <2>2
<1>5. Usable(stored) = R(L)
  BY DEF Usable, R
<1> QED
  BY <1>4, <1>5

(* Reading finds sound timers as they were stored.                          *)
LEMMA UsableOfSound ==
  ASSUME NEW t, Sound(t)
  PROVE  Usable(t) = t
<1> DEFINE L == Len(t)
           R(i) == Reading(t)[i]
           UpTo(i) == [j \in 1 .. i |-> t[j]]
           S == {i \in 0 .. L : R(i) = UpTo(i)}
<1>1. L \in Nat /\ IsSeq(t) /\ L <= MaxTimers /\ MaxTimers \in Nat /\ DOMAIN t = 1 .. L
  BY SeqDomain, PaletteFacts DEF Sound
<1>2. R(0) = <<>> /\ \A i \in 1 .. L : R(i) = Taken(R(i - 1), t[i], i)
  BY <1>1, ReadingStep
<1> HIDE DEF R
<1>3. 0 \in S
  <2>1. UpTo(0) = <<>> /\ 0 \in 0 .. L
    BY <1>1
  <2> QED
    BY <1>2, <2>1
<1>4. ASSUME NEW m \in 0 .. L - 1, m \in S PROVE m + 1 \in S
  <2>1. /\ m \in Nat /\ m + 1 \in 1 .. L /\ m + 1 \in 0 .. L /\ (m + 1) - 1 = m /\ m + 1 \in Nat
        /\ m + 1 <= MaxTimers
    BY <1>1
  <2> DEFINE front == UpTo(m)
             item == t[m + 1]
  <2>2. R(m + 1) = Taken(front, item, m + 1)
    BY <1>2, <1>4, <2>1
  <2>3. IsSeq(front) /\ Len(front) = m /\ DOMAIN front = 1 .. m /\ \A j \in 1 .. m : front[j] = t[j]
    <3>1. front = [j \in 1 .. m |-> front[j]]
      OBVIOUS
    <3>2. DOMAIN front = 1 .. m /\ \A j \in 1 .. m : front[j] = t[j]
      OBVIOUS
    <3> HIDE DEF front
    <3> QED
      BY <2>1, <3>1, <3>2, SeqFrom
  <2> HIDE DEF front
  <2>4. \A j \in 1 .. m : j \in 1 .. L /\ j # m + 1
    BY <1>1, <2>1
  <2>5. item.id \notin Ids(front) /\ item.tone \notin TonesOf(front)
    BY <2>1, <2>3, <2>4 DEF Ids, TonesOf, Sound
  <2>6. /\ item = [id |-> item.id, tone |-> item.tone, at |-> item.at] /\ item.at # Unusable
        /\ item.id # Bad /\ item.tone \in Range(Tones)
    BY <2>1 DEF Sound
  <2> HIDE DEF item
  <2>7. R(m + 1) = Append(front, item)
    BY <2>1, <2>2, <2>5, <2>6, TakenAsIs
  <2>8. /\ IsSeq(R(m + 1)) /\ Len(R(m + 1)) = m + 1
        /\ (\A j \in 1 .. m : R(m + 1)[j] = t[j]) /\ R(m + 1)[m + 1] = t[m + 1]
    <3>1. /\ IsSeq(Append(front, item)) /\ Len(Append(front, item)) = m + 1
          /\ \A j \in 1 .. m : Append(front, item)[j] = front[j]
          /\ Append(front, item)[m + 1] = item
      BY <2>3, SeqAppend
    <3>2. item = t[m + 1]
      BY DEF item
    <3> QED
      BY <2>3, <2>7, <3>1, <3>2
  <2>9. R(m + 1) = [j \in 1 .. m + 1 |-> R(m + 1)[j]]
    BY <2>8 DEF IsSeq
  <2>10. \A j \in 1 .. m + 1 : R(m + 1)[j] = t[j]
    BY <2>1, <2>8
  <2>11. R(m + 1) = UpTo(m + 1)
    BY <2>9, <2>10
  <2> QED
    BY <2>1, <2>11
<1>5. L \in S
  <2> HIDE DEF S
  <2>1. \A m \in 0 .. L - 1 : m \in S => m + 1 \in S
    BY <1>4
  <2>2. 0 .. L \subseteq S
    BY <1>1, <1>3, <2>1, CountUp
  <2> QED
    BY <1>1, <2>2
<1>6. Usable(t) = R(L)
  BY DEF Usable, R
<1>7. R(L) = UpTo(L) /\ t = UpTo(L)
  BY <1>1, <1>5 DEF IsSeq
<1> QED
  BY <1>6, <1>7

---------------------------------------------------------------------------
(* A change keeps the timers sound: sorting, giving tones, editing one,     *)
(* deleting one.                                                            *)
All(t) == {t[i] : i \in 1 .. Len(t)}
Ordered(t) == \A i, j \in 1 .. Len(t) : i < j => t[i].at <= t[j].at

LEMMA IdsOfAll == ASSUME NEW t, IsSeq(t) PROVE Ids(t) = {e.id : e \in All(t)}
  BY SeqDomain DEF Ids, All

LEMMA SortedSound ==
  ASSUME NEW t, Sound(t)
  PROVE  Sound(Sorted(t)) /\ All(Sorted(t)) = All(t) /\ Ordered(Sorted(t)) /\ Ids(Sorted(t)) = Ids(t)
<1> DEFINE s == Sorted(t)
<1>1. IsSeq(t) /\ Len(t) \in Nat /\ \A i \in 1 .. Len(t) : t[i].at \in Int
  BY DEF Sound, IsSeq
<1>2. IsSeq(s) /\ Len(s) = Len(t) /\ \A m, n \in 1 .. Len(t) : m < n => s[m].at <= s[n].at
  BY <1>1, SortedFacts
<1>3. PICK p : Arranges(p, t, s)
  BY <1>1, SortedFacts
<1> HIDE DEF s
<1>4. /\ \A n \in 1 .. Len(t) : p[n] \in 1 .. Len(t) /\ s[n] = t[p[n]]
      /\ \A m, n \in 1 .. Len(t) : p[m] = p[n] => m = n
      /\ \A i \in 1 .. Len(t) : \E n \in 1 .. Len(t) : p[n] = i
  BY <1>3 DEF Arranges
<1>5. Sound(s)
  <2>1. \A i \in 1 .. Len(s) :
          /\ s[i] = [id |-> s[i].id, tone |-> s[i].tone, at |-> s[i].at]
          /\ s[i].id # Bad /\ s[i].tone \in Range(Tones) /\ s[i].at \in Int /\ s[i].at # Unusable
    <3> TAKE i \in 1 .. Len(s)
    <3>1. p[i] \in 1 .. Len(t) /\ s[i] = t[p[i]]
      BY <1>2, <1>4
    <3> QED
      BY <3>1 DEF Sound
  <2>2. \A i, j \in 1 .. Len(s) : s[i].id = s[j].id \/ s[i].tone = s[j].tone => i = j
    <3> TAKE i, j \in 1 .. Len(s)
    <3>1. p[i] \in 1 .. Len(t) /\ s[i] = t[p[i]] /\ p[j] \in 1 .. Len(t) /\ s[j] = t[p[j]] /\ (p[i] = p[j] => i = j)
      BY <1>2, <1>4
    <3> QED
      BY <3>1 DEF Sound
  <2> QED
    BY <1>2, <2>1, <2>2 DEF Sound
<1>6. All(s) = All(t)
  <2>1. ASSUME NEW i \in 1 .. Len(s) PROVE s[i] \in All(t)
    <3>1. p[i] \in 1 .. Len(t) /\ s[i] = t[p[i]]
      BY <1>2, <1>4
    <3> QED
      BY <3>1 DEF All
  <2>2. ASSUME NEW i \in 1 .. Len(t) PROVE t[i] \in All(s)
    <3>1. PICK n \in 1 .. Len(s) : s[n] = t[i]
      BY <1>2, <1>4
    <3> QED
      BY <3>1 DEF All
  <2> QED
    BY <2>1, <2>2 DEF All
<1>7. Ids(s) = Ids(t)
  BY <1>1, <1>2, <1>6, IdsOfAll
<1> QED
  BY <1>2, <1>5, <1>6, <1>7 DEF s, Ordered

(* What was stored is what every reader sees, in order.                     *)
LEMMA StoredLoaded ==
  ASSUME NEW t, Sound(t), NEW old
  PROVE  /\ IsList(Stored(t)) /\ Sound(Stored(t).items) /\ Ids(Stored(t).items) = Ids(t)
         /\ Sound(Loaded(Stored(t), old)) /\ All(Loaded(Stored(t), old)) = All(t)
         /\ Ids(Loaded(Stored(t), old)) = Ids(t)
<1>1. IsList(Stored(t)) /\ Stored(t).items = Sorted(t)
  BY DEF Stored, List, IsList
<1>2. Sound(Sorted(t)) /\ All(Sorted(t)) = All(t) /\ Ids(Sorted(t)) = Ids(t)
  BY SortedSound
<1>3. Loaded(Stored(t), old) = Sorted(Sorted(t))
  BY <1>1, <1>2, UsableOfSound DEF Loaded
<1>4. /\ Sound(Sorted(Sorted(t))) /\ All(Sorted(Sorted(t))) = All(Sorted(t))
      /\ Ids(Sorted(Sorted(t))) = Ids(Sorted(t))
  BY <1>2, SortedSound
<1> QED
  BY <1>1, <1>2, <1>3, <1>4

LEMMA TonedSound ==
  ASSUME NEW t, Sound(t)
  PROVE  /\ Sound(Toned(t)) /\ Len(Toned(t)) = Len(t) /\ Ids(Toned(t)) = Ids(t)
         /\ \A i \in 1 .. Len(t) : Toned(t)[i].id = t[i].id /\ Toned(t)[i].at = t[i].at
<1> DEFINE s == Toned(t)
<1>1. IsSeq(t) /\ Len(t) \in Nat /\ DOMAIN t = 1 .. Len(t) /\ Len(t) <= MaxTimers
  BY SeqDomain DEF Sound
<1>2. s = [i \in 1 .. Len(t) |-> [id |-> t[i].id, tone |-> Tones[i], at |-> t[i].at]]
  BY <1>1 DEF Toned
<1>3. \A i \in 1 .. Len(t) :
        /\ s[i] = [id |-> s[i].id, tone |-> s[i].tone, at |-> s[i].at]
        /\ s[i].id = t[i].id /\ s[i].tone = Tones[i] /\ s[i].at = t[i].at
  BY <1>2
<1>4. s = [i \in 1 .. Len(t) |-> s[i]]
  BY <1>2
<1> HIDE DEF s
<1>5. IsSeq(s) /\ Len(s) = Len(t)
  BY <1>1, <1>4, SeqFrom
<1>6. \A i \in 1 .. Len(t) : i \in 1 .. MaxTimers
  BY <1>1, PaletteFacts
<1>7. \A i, j \in 1 .. Len(s) : s[i].id = s[j].id \/ s[i].tone = s[j].tone => i = j
  <2> TAKE i, j \in 1 .. Len(s)
  <2>1. i \in 1 .. Len(t) /\ j \in 1 .. Len(t) /\ s[i].id = t[i].id /\ s[j].id = t[j].id
    BY <1>3, <1>5
  <2>2. s[i].tone = s[j].tone => i = j
    <3>1. s[i].tone = Tones[i] /\ s[j].tone = Tones[j] /\ i \in 1 .. MaxTimers /\ j \in 1 .. MaxTimers
      BY <1>3, <1>6, <2>1
    <3>2. Tones[i] = Tones[j] => i = j
      BY <3>1, PaletteFacts
    <3> QED
      BY <3>1, <3>2
  <2>3. t[i].id = t[j].id => i = j
    BY <2>1 DEF Sound
  <2> QED
    BY <2>1, <2>2, <2>3
<1>8. \A i \in 1 .. Len(s) : s[i].id # Bad /\ s[i].tone \in Range(Tones) /\ s[i].at \in Int /\ s[i].at # Unusable
  <2> TAKE i \in 1 .. Len(s)
  <2>1. i \in 1 .. Len(t) /\ s[i].id = t[i].id /\ s[i].at = t[i].at
    BY <1>3, <1>5
  <2>2. s[i].tone \in Range(Tones)
    BY <1>3, <1>6, <2>1, PaletteFacts
  <2> QED
    BY <2>1, <2>2 DEF Sound
<1>9. Sound(s)
  BY <1>1, <1>3, <1>5, <1>7, <1>8 DEF Sound
<1>10. Ids(s) = Ids(t)
  BY <1>1, <1>3, <1>5, SeqDomain DEF Ids
<1> QED
  BY <1>3, <1>5, <1>9, <1>10 DEF s

Edited(t, k, at) == [t EXCEPT ![k].at = at]

LEMMA EditSound ==
  ASSUME NEW t, Sound(t), NEW k \in 1 .. Len(t), NEW at \in Int, at # Unusable
  PROVE  LET u == Edited(t, k, at)
         IN  /\ Sound(u) /\ Len(u) = Len(t) /\ Ids(u) = Ids(t)
             /\ \A i \in 1 .. Len(t) : u[i].id = t[i].id /\ u[i].tone = t[i].tone /\ (i # k => u[i].at = t[i].at)
<1> DEFINE u == Edited(t, k, at)
<1>1. IsSeq(t) /\ Len(t) \in Nat /\ DOMAIN t = 1 .. Len(t) /\ Len(t) <= MaxTimers
  BY SeqDomain DEF Sound
<1>2. t = [i \in 1 .. Len(t) |-> t[i]]
  BY DEF Sound, IsSeq
<1>3. u = [i \in 1 .. Len(t) |-> u[i]] /\ u[k] = [t[k] EXCEPT !.at = at] /\ \A i \in 1 .. Len(t) : i # k => u[i] = t[i]
  BY <1>2 DEF Edited
<1>4. t[k] = [id |-> t[k].id, tone |-> t[k].tone, at |-> t[k].at]
  BY DEF Sound
<1> HIDE DEF u
<1>5. u[k] = [id |-> t[k].id, tone |-> t[k].tone, at |-> at]
  BY <1>3, <1>4
<1>6. u[k].id = t[k].id /\ u[k].tone = t[k].tone /\ u[k].at = at /\ u[k] = [id |-> u[k].id, tone |-> u[k].tone, at |-> u[k].at]
  BY <1>5
<1>7. IsSeq(u) /\ Len(u) = Len(t)
  BY <1>1, <1>3, SeqFrom
<1>8. \A i \in 1 .. Len(t) : u[i].id = t[i].id /\ u[i].tone = t[i].tone
  BY <1>3, <1>6
<1>9. \A i, j \in 1 .. Len(u) : u[i].id = u[j].id \/ u[i].tone = u[j].tone => i = j
  BY <1>7, <1>8 DEF Sound
<1>10. \A i \in 1 .. Len(u) :
         /\ u[i] = [id |-> u[i].id, tone |-> u[i].tone, at |-> u[i].at]
         /\ u[i].id # Bad /\ u[i].tone \in Range(Tones) /\ u[i].at \in Int /\ u[i].at # Unusable
  <2> TAKE i \in 1 .. Len(u)
  <2>1. CASE i = k
    BY <1>6, <2>1 DEF Sound
  <2>2. CASE i # k
    BY <1>3, <1>7, <2>2 DEF Sound
  <2> QED
    BY <2>1, <2>2
<1>11. Sound(u)
  BY <1>1, <1>7, <1>9, <1>10 DEF Sound
<1>12. Ids(u) = Ids(t)
  BY <1>1, <1>7, <1>8, SeqDomain DEF Ids
<1> QED
  BY <1>3, <1>7, <1>8, <1>11, <1>12 DEF u

(* The others stay, and none of them has the identifier of the one that     *)
(* was removed.                                                             *)
LEMMA RemoveSound ==
  ASSUME NEW t, Sound(t), NEW k \in 1 .. Len(t)
  PROVE  LET u == RemoveAt(t, k)
         IN  /\ Sound(u) /\ Ids(u) \subseteq Ids(t) \ {t[k].id}
             /\ \A i \in 1 .. Len(t) : i # k => t[i] \in All(u)
<1> DEFINE u == RemoveAt(t, k)
           L == Len(t)
           from(i) == IF i < k THEN i ELSE i + 1
<1>1. IsSeq(t) /\ L \in Nat /\ DOMAIN t = 1 .. L /\ L <= MaxTimers /\ MaxTimers \in Nat
  BY SeqDomain, PaletteFacts DEF Sound
<1>2. t \in Seq(All(t))
  <2>1. t \in [1 .. L -> All(t)]
    BY <1>1 DEF IsSeq, All
  <2> QED
    BY <1>1, <2>1, SeqDef
<1>3. /\ SubSeq(t, 1, k - 1) \in Seq(All(t)) /\ Len(SubSeq(t, 1, k - 1)) = k - 1
      /\ \A i \in 1 .. k - 1 : SubSeq(t, 1, k - 1)[i] = t[i]
  BY <1>1, <1>2, SubSeqProperties
<1>4. /\ SubSeq(t, k + 1, L) \in Seq(All(t)) /\ Len(SubSeq(t, k + 1, L)) = L - k
      /\ \A i \in 1 .. L - k : SubSeq(t, k + 1, L)[i] = t[k + i]
  <2>1. k + 1 \in Int /\ L \in Int /\ \A i \in k + 1 .. L : t[i] \in All(t)
    BY <1>1 DEF All
  <2>2. /\ SubSeq(t, k + 1, L) \in Seq(All(t))
        /\ Len(SubSeq(t, k + 1, L)) = IF k + 1 <= L THEN L - (k + 1) + 1 ELSE 0
        /\ \A i \in 1 .. L - (k + 1) + 1 : SubSeq(t, k + 1, L)[i] = t[(k + 1) + i - 1]
    BY <2>1, SubSeqProperties
  <2>3. L - (k + 1) + 1 = L - k /\ (~(k + 1 <= L) => L - k = 0) /\ \A i \in 1 .. L - k : (k + 1) + i - 1 = k + i
    <3>1. k \in 1 .. L /\ L \in Nat
      BY <1>1
    <3> HIDE DEF L
    <3>2. k \in Int /\ k <= L
      BY <3>1
    <3>3. L - (k + 1) + 1 = L - k
      BY <3>1, <3>2
    <3>4. ~(k + 1 <= L) => L - k = 0
      BY <3>1, <3>2
    <3>5. \A i \in 1 .. L - k : (k + 1) + i - 1 = k + i
      BY <3>1, <3>2
    <3> QED
      BY <3>3, <3>4, <3>5
  <2> QED
    BY <2>2, <2>3
<1>5. u \in Seq(All(t)) /\ Len(u) = L - 1 /\ \A i \in 1 .. L - 1 : u[i] = t[from(i)]
  <2> DEFINE a == SubSeq(t, 1, k - 1)
             b == SubSeq(t, k + 1, L)
  <2>1. u = a \o b
    BY DEF RemoveAt
  <2>2. a \in Seq(All(t)) /\ Len(a) = k - 1 /\ \A i \in 1 .. k - 1 : a[i] = t[i]
    BY <1>3
  <2>3. b \in Seq(All(t)) /\ Len(b) = L - k /\ \A i \in 1 .. L - k : b[i] = t[k + i]
    BY <1>4
  <2> HIDE DEF a, b, u
  <2>4. /\ u \in Seq(All(t)) /\ Len(u) = (k - 1) + (L - k)
        /\ \A i \in 1 .. (k - 1) + (L - k) : u[i] = IF i <= k - 1 THEN a[i] ELSE b[i - (k - 1)]
    <3>1. /\ a \o b \in Seq(All(t)) /\ Len(a \o b) = Len(a) + Len(b)
          /\ \A i \in 1 .. Len(a) + Len(b) : (a \o b)[i] = IF i <= Len(a) THEN a[i] ELSE b[i - Len(a)]
      BY <2>2, <2>3, ConcatProperties
    <3> QED
      BY <2>1, <2>2, <2>3, <3>1
  <2>5. (k - 1) + (L - k) = L - 1
    BY <1>1
  <2>6. ASSUME NEW i \in 1 .. L - 1 PROVE u[i] = t[from(i)]
    <3>1. CASE i < k
      <4>1. i \in 1 .. k - 1 /\ i <= k - 1
        BY <1>1, <3>1
      <4> QED
        BY <2>2, <2>4, <2>5, <3>1, <4>1
    <3>2. CASE ~(i < k)
      <4>1. ~(i <= k - 1) /\ i - (k - 1) \in 1 .. L - k /\ k + (i - (k - 1)) = i + 1
        BY <1>1, <3>2
      <4> QED
        BY <2>3, <2>4, <2>5, <3>2, <4>1
    <3> QED
      BY <3>1, <3>2
  <2> QED
    BY <2>4, <2>5, <2>6
<1> HIDE DEF u
<1>6. u \in [1 .. L - 1 -> All(t)] /\ L - 1 \in Nat
  BY <1>1, <1>5, LenProperties
<1>7. IsSeq(u)
  BY <1>5, <1>6 DEF IsSeq
<1>8. \A i \in 1 .. L - 1 : from(i) \in 1 .. L /\ from(i) # k
  BY <1>1
<1>9. \A i, j \in 1 .. L - 1 : from(i) = from(j) => i = j
  BY <1>1
<1>10. \A i \in 1 .. L : i # k => \E j \in 1 .. L - 1 : from(j) = i
  <2> SUFFICES ASSUME NEW i \in 1 .. L, i # k PROVE \E j \in 1 .. L - 1 : from(j) = i
    OBVIOUS
  <2>1. CASE i < k
    BY <1>1, <2>1
  <2>2. CASE i > k
    <3>1. i - 1 \in 1 .. L - 1 /\ from(i - 1) = i
      BY <1>1, <2>2
    <3> QED
      BY <3>1
  <2> QED
    BY <2>1, <2>2
<1> HIDE DEF from
<1>11. \A i, j \in 1 .. Len(u) : u[i].id = u[j].id \/ u[i].tone = u[j].tone => i = j
  BY <1>5, <1>8, <1>9 DEF Sound
<1>12. \A i \in 1 .. Len(u) :
         /\ u[i] = [id |-> u[i].id, tone |-> u[i].tone, at |-> u[i].at]
         /\ u[i].id # Bad /\ u[i].tone \in Range(Tones) /\ u[i].at \in Int /\ u[i].at # Unusable
  BY <1>5, <1>8 DEF Sound
<1>13. Len(u) <= MaxTimers
  BY <1>1, <1>5
<1>14. Sound(u)
  BY <1>7, <1>11, <1>12, <1>13 DEF Sound
<1>15. Ids(u) \subseteq Ids(t) \ {t[k].id}
  <2>1. DOMAIN u = 1 .. L - 1
    BY <1>5, <1>7, SeqDomain
  <2>2. ASSUME NEW i \in 1 .. L - 1 PROVE u[i].id \in Ids(t) /\ u[i].id # t[k].id
    <3>1. u[i] = t[from(i)] /\ from(i) \in 1 .. L /\ from(i) # k
      BY <1>5, <1>8
    <3>2. t[from(i)].id # t[k].id
      BY <3>1 DEF Sound
    <3> QED
      BY <1>1, <3>1, <3>2 DEF Ids
  <2> QED
    BY <2>1, <2>2 DEF Ids
<1>16. \A i \in 1 .. L : i # k => t[i] \in All(u)
  BY <1>5, <1>10 DEF All
<1> QED
  BY <1>14, <1>15, <1>16 DEF u

---------------------------------------------------------------------------
(* The invariant of the timers.  Identifiers that were generated are below  *)
(* the counter, in the row and among the deleted ones; once a timer was     *)
(* deleted the row is one the server wrote, without it; and a request       *)
(* carries an instant a form can hold.                                      *)
NewBelow(id, n) == \A m \in Nat : id = Generated(m) => m < n

RowHeld ==
  IsList(row) =>
    /\ Len(row.items) \in Nat
    /\ \A i \in 1 .. Len(row.items) : row.items[i].at \in Int /\ NewBelow(row.items[i].id, created)
GoneHeld ==
  /\ \A id \in gone : NewBelow(id, created)
  /\ gone # {} => IsList(row) /\ Sound(row.items) /\ Ids(row.items) \cap gone = {}
Hashes == [pin : Pins \cup {Long, Nobody}, old : BOOLEAN]
Values ==
  /\ created \in Nat /\ legacy \in {"none", "refused", "good"}
  /\ default \in BOOLEAN /\ migrated \in BOOLEAN /\ up \in BOOLEAN /\ lateRotate \in BOOLEAN
  /\ memory \in Hashes /\ file \in Hashes
Asked ==
  \A h \in Handlers :
    /\ thread[h].step \in {"idle", "upgrade", "adopt", "act"}
    /\ thread[h].step = "adopt" => thread[h].pin \in Pins
    /\ thread[h].step # "idle" /\ thread[h].request.kind \in {"create", "update"} =>
         thread[h].request.at \in Instants

TimersInv == RowHeld /\ GoneHeld /\ Values /\ Asked /\ Threads

LEMMA LegacySound ==
  ASSUME NEW old
  PROVE  Sound(FromLegacy(old)) /\ Ordered(FromLegacy(old)) /\ Ids(FromLegacy(old)) \subseteq {Primary}
<1> DEFINE item == [id |-> Primary, tone |-> Tones[1], at |-> Never]
<1>1. CASE FromLegacy(old) = <<>>
  BY <1>1, EmptySound DEF Ordered
<1>2. CASE FromLegacy(old) = <<item>>
  <2>1. /\ Primary # Bad /\ Tones[1] \in Range(Tones) /\ Never \in Int /\ Never # Unusable
        /\ MaxTimers \in Nat /\ 1 <= MaxTimers
    BY PaletteFacts DEF Primary, Bad, Never, Unusable
  <2>2. <<item>> = [i \in 1 .. 1 |-> item] /\ Len(<<item>>) = 1 /\ DOMAIN <<item>> = 1 .. 1
    OBVIOUS
  <2>3. /\ item.id = Primary /\ item.tone = Tones[1] /\ item.at = Never
        /\ item = [id |-> item.id, tone |-> item.tone, at |-> item.at]
    OBVIOUS
  <2> HIDE DEF item
  <2>4. IsSeq(<<item>>) /\ \A i \in 1 .. 1 : <<item>>[i] = item
    BY <2>2 DEF IsSeq
  <2>5. \A i \in 1 .. 1 : i = 1
    OBVIOUS
  <2>6. Sound(<<item>>)
    BY <2>1, <2>2, <2>3, <2>4, <2>5 DEF Sound
  <2>7. Ids(<<item>>) \subseteq {Primary}
    BY <2>2, <2>3, <2>4 DEF Ids
  <2>8. Ordered(<<item>>)
    BY <2>2, <2>5 DEF Ordered
  <2> QED
    BY <1>2, <2>6, <2>7, <2>8
<1> QED
  BY <1>1, <1>2 DEF FromLegacy

LEMMA TimersFacts ==
  ASSUME RowHeld, GoneHeld
  PROVE  /\ Sound(Timers) /\ Ordered(Timers) /\ Ids(Timers) \cap gone = {}
         /\ \A id \in Ids(Timers) : NewBelow(id, created)
<1>1. CASE IsList(row)
  <2> DEFINE U == Usable(row.items)
  <2>1. Timers = Sorted(U)
    BY <1>1 DEF Timers, Loaded
  <2>2. /\ Len(row.items) \in Nat
        /\ \A i \in 1 .. Len(row.items) : row.items[i].at \in Int /\ NewBelow(row.items[i].id, created)
    BY <1>1 DEF RowHeld
  <2>3. /\ Sound(U)
        /\ \A id \in Ids(U) : (\E i \in 1 .. Len(row.items) : id = row.items[i].id)
                              \/ (\E i, n \in Nat : id = Slot(i, n))
    BY <2>2, UsableSound
  <2>4. \A i, n, m \in Nat : Slot(i, n) # Generated(m)
    BY DEF Slot, Generated
  <2>5. gone # {} => U = row.items /\ Ids(row.items) \cap gone = {}
    BY UsableOfSound DEF GoneHeld
  <2> HIDE DEF U
  <2>6. Sound(Sorted(U)) /\ Ordered(Sorted(U)) /\ Ids(Sorted(U)) = Ids(U)
    BY <2>3, SortedSound
  <2>7. \A id \in Ids(U) : NewBelow(id, created)
    BY <2>2, <2>3, <2>4 DEF NewBelow
  <2> QED
    BY <2>1, <2>5, <2>6, <2>7
<1>2. CASE ~IsList(row)
  <2>1. Timers = FromLegacy(legacy) /\ gone = {}
    BY <1>2 DEF Timers, Loaded, GoneHeld
  <2>2. \A n \in Nat : Primary # Generated(n)
    BY DEF Primary, Generated
  <2> QED
    BY <2>1, <2>2, LegacySound DEF NewBelow
<1> QED
  BY <1>1, <1>2

---------------------------------------------------------------------------
(* What a step does to the row: nothing that a reader sees, or it writes    *)
(* sound timers, none of them deleted, with a place for every timer that    *)
(* the page showed and nobody deleted.                                      *)
Untouched == UNCHANGED <<row, created, gone>> /\ (IsList(row) \/ UNCHANGED legacy)
Written(t) ==
  /\ Sound(t) /\ row' = Stored(t)
  /\ Ids(t) \cap gone' = {} /\ \A id \in Ids(t) \cup gone' : NewBelow(id, created')
  /\ created' \in Nat
  /\ \A i \in 1 .. Len(Timers) :
       (\E e \in All(t) : Kept(Timers[i], e)) \/ Named("delete", Timers[i].id)

LEMMA Migrating == TimersInv /\ Migrate => Untouched \/ \E t : Written(t)
<1> SUFFICES ASSUME TimersInv, Migrate PROVE Untouched \/ \E t : Written(t)
  OBVIOUS
<1> DEFINE kept == IsList(row) /\ (row.items = <<>> \/ Usable(row.items) # <<>>)
           recovered == ~kept /\ row.kind # "none" /\ legacy = "good"
<1>1. /\ Sound(Timers) /\ Ids(Timers) \cap gone = {}
      /\ \A id \in Ids(Timers) : NewBelow(id, created)
      /\ \A id \in gone : NewBelow(id, created)
      /\ created \in Nat /\ IsSeq(Timers)
  BY TimersFacts DEF TimersInv, GoneHeld, Values, Sound
<1>2. created' = created /\ gone' = gone
  BY DEF Migrate
(* The palette is given: same timers, other tones.                          *)
<1>3. CASE ~migrated /\ kept
  <2> DEFINE T == Toned(Timers)
  <2>1. row' = Stored(T) /\ migrated'
    BY <1>3 DEF Migrate, Palette, Timers, Loaded
  <2>2. /\ Sound(T) /\ Len(T) = Len(Timers) /\ Ids(T) = Ids(Timers)
        /\ \A i \in 1 .. Len(Timers) : T[i].id = Timers[i].id /\ T[i].at = Timers[i].at
    BY <1>1, TonedSound
  <2> HIDE DEF T
  <2>3. \A i \in 1 .. Len(Timers) : T[i] \in All(T) /\ Kept(Timers[i], T[i])
    BY <1>3, <2>1, <2>2 DEF Kept, All
  <2>4. Written(T)
    BY <1>1, <1>2, <2>1, <2>2, <2>3 DEF Written
  <2> QED
    BY <2>4
(* The legacy row takes the place of one that cannot be read.               *)
<1>4. CASE ~migrated /\ recovered
  <2> DEFINE T == FromLegacy(legacy)
  <2>1. row' = Stored(T)
    BY <1>4 DEF Migrate
  <2>2. Sound(T) /\ Ids(T) \subseteq {Primary} /\ \A n \in Nat : Primary # Generated(n)
    BY LegacySound DEF Primary, Generated
  <2>3. gone = {}
    <3> SUFFICES ASSUME gone # {} PROVE kept
      BY <1>4
    <3>1. IsList(row) /\ Usable(row.items) = row.items
      BY UsableOfSound DEF TimersInv, GoneHeld
    <3> QED
      BY <3>1
  <2>4. Timers = T \/ Timers = <<>>
    <3>1. CASE IsList(row)
      <4>1. Usable(row.items) = <<>>
        BY <1>4, <3>1
      <4>2. Timers = Sorted(<<>>)
        BY <3>1, <4>1 DEF Timers, Loaded
      <4>3. Ids(Timers) = {}
        BY <4>2, EmptySound, SortedSound
      <4>4. Len(Timers) = 0
        <5>1. DOMAIN Timers = 1 .. Len(Timers) /\ Len(Timers) \in Nat
          BY <1>1, SeqDomain
        <5>2. 1 \in DOMAIN Timers => Timers[1].id \in Ids(Timers)
          BY DEF Ids
        <5> QED
          BY <4>3, <5>1, <5>2
      <4> QED
        BY <1>1, <4>4 DEF IsSeq
    <3>2. CASE ~IsList(row)
      BY <3>2 DEF Timers, Loaded
    <3> QED
      BY <3>1, <3>2
  <2> HIDE DEF T
  <2>5. \A i \in 1 .. Len(Timers) : \E e \in All(T) : Kept(Timers[i], e)
    BY <2>4, EmptySound DEF Kept, All
  <2>6. Written(T)
    BY <1>1, <1>2, <2>1, <2>2, <2>3, <2>5 DEF Written, NewBelow
  <2> QED
    BY <2>6
(* Nothing is written; the legacy row goes only where a list is.            *)
<1>5. CASE ~(~migrated /\ kept) /\ ~(~migrated /\ recovered)
  <2>1. row' = row
    BY <1>5 DEF Migrate
  <2>2. IsList(row) \/ legacy' = legacy
    BY <2>1 DEF Migrate
  <2> QED
    BY <1>2, <2>1, <2>2 DEF Untouched
<1> QED
  BY <1>3, <1>4, <1>5

LEMMA Acting == ASSUME TimersInv, NEW h \in Handlers, Act(h) PROVE Untouched \/ \E t : Written(t)
<1> DEFINE request == thread[h].request
           B == Timers
<1>1. /\ Sound(B) /\ Ids(B) \cap gone = {}
      /\ \A id \in Ids(B) : NewBelow(id, created)
      /\ \A id \in gone : NewBelow(id, created)
      /\ created \in Nat /\ IsSeq(B) /\ Len(B) \in Nat /\ DOMAIN B = 1 .. Len(B)
  BY TimersFacts, SeqDomain DEF TimersInv, GoneHeld, Values, Sound
<1>2. \/ Create(request, B) \/ Update(request, B) \/ Delete(request, B)
      \/ UNCHANGED <<row, created, gone>>
  BY DEF Act
<1>3. thread[h].step = "act" /\ thread'[h] = Idle /\ legacy' = legacy
  BY DEF Act, TimersInv, Threads
<1>4. request.kind \in {"create", "update"} => request.at \in Int /\ request.at # Unusable
  BY <1>3, DeadlinesAssumption DEF TimersInv, Asked, Unusable
<1>5. \A id : Named(request.kind, id) \/ request.id # id
  BY <1>3 DEF Named
<1>6. \A e : Kept(e, e)
  BY DEF Kept
<1> HIDE DEF request, B
<1>7. CASE Create(request, B)
  <2> DEFINE id == Generated(created)
             tone == FreeTone(TonesOf(B))
             T == Append(B, [id |-> id, tone |-> tone, at |-> request.at])
  <2>1. /\ request.kind = "create" /\ Len(B) < MaxTimers /\ created' = created + 1 /\ gone' = gone
        /\ row' = Stored(T)
    BY <1>7 DEF Create, Persist
  <2>2. id # Bad /\ ~NewBelow(id, created) /\ \A m \in Nat : id = Generated(m) => m = created
    BY <1>1 DEF Generated, Bad, NewBelow
  <2>3. id \notin Ids(B) \cup {Bad} /\ id \notin gone
    BY <1>1, <2>2
  <2>4. tone \in Range(Tones) \ TonesOf(B)
    BY <1>1, <2>1, FreeToneFree
  <2> HIDE DEF id, tone
  <2>5. Sound(T) /\ Len(T) = Len(B) + 1 /\ Ids(T) = Ids(B) \cup {id} /\ \A i \in 1 .. Len(B) : T[i] = B[i]
    BY <1>1, <1>4, <2>1, <2>3, <2>4, AppendSound
  <2> HIDE DEF T
  <2>6. \A i \in 1 .. Len(B) : B[i] \in All(T)
    BY <1>1, <2>5 DEF All
  <2>7. \A other \in Ids(T) \cup gone' : NewBelow(other, created')
    <3>1. created \in Nat /\ created' = created + 1
      BY <1>1, <2>1
    <3>2. NewBelow(id, created')
      BY <2>2, <3>1 DEF NewBelow
    <3>3. \A other : NewBelow(other, created) => NewBelow(other, created')
      BY <3>1 DEF NewBelow
    <3> QED
      BY <1>1, <2>1, <2>5, <3>2, <3>3
  <2>8. Ids(T) \cap gone' = {} /\ created' \in Nat
    BY <1>1, <2>1, <2>3, <2>5
  <2>9. Written(T)
    BY <1>6, <2>1, <2>5, <2>6, <2>7, <2>8 DEF Written, B
  <2> QED
    BY <2>9
<1>8. ASSUME request.id \in Ids(B) PROVE At(B, request.id) \in 1 .. Len(B) /\ B[At(B, request.id)].id = request.id
  BY <1>1, <1>8 DEF Ids, At
<1>9. CASE Update(request, B)
  <2> DEFINE k == At(B, request.id)
             at == request.at
             T == Edited(B, k, at)
  <2>1. /\ request.kind = "update" /\ request.id \in Ids(B) /\ created' = created /\ gone' = gone
        /\ row' = Stored(T)
    BY <1>9 DEF Update, Persist, Edited
  <2>2. k \in 1 .. Len(B) /\ B[k].id = request.id
    BY <1>8, <2>1
  <2>3. at \in Int /\ at # Unusable
    BY <1>4, <2>1
  <2> HIDE DEF k, at
  <2>4. /\ Sound(T) /\ Len(T) = Len(B) /\ Ids(T) = Ids(B)
        /\ \A i \in 1 .. Len(B) : T[i].id = B[i].id /\ T[i].tone = B[i].tone /\ (i # k => T[i].at = B[i].at)
    BY <1>1, <2>2, <2>3, EditSound
  <2> HIDE DEF T
  <2>5. \A i \in 1 .. Len(B) : T[i] \in All(T) /\ Kept(B[i], T[i])
    <3> TAKE i \in 1 .. Len(B)
    <3>1. T[i] \in All(T)
      BY <2>4 DEF All
    <3>2. i = k => Named("update", B[i].id)
      BY <1>5, <2>1, <2>2
    <3> QED
      BY <2>4, <3>1, <3>2 DEF Kept
  <2>6. Written(T)
    BY <1>1, <2>1, <2>4, <2>5 DEF Written, B
  <2> QED
    BY <2>6
<1>10. CASE Delete(request, B)
  <2> DEFINE k == At(B, request.id)
             T == RemoveAt(B, k)
  <2>1. /\ request.kind = "delete" /\ request.id \in Ids(B) /\ created' = created
        /\ gone' = gone \cup {request.id} /\ row' = Stored(T)
    BY <1>10 DEF Delete, Persist
  <2>2. k \in 1 .. Len(B) /\ B[k].id = request.id
    BY <1>8, <2>1
  <2> HIDE DEF k
  <2>3. Sound(T) /\ Ids(T) \subseteq Ids(B) \ {B[k].id} /\ \A i \in 1 .. Len(B) : i # k => B[i] \in All(T)
    BY <1>1, <2>2, RemoveSound
  <2> HIDE DEF T
  <2>4. Named("delete", B[k].id)
    BY <1>5, <2>1, <2>2
  <2>5. \A i \in 1 .. Len(B) : (\E e \in All(T) : Kept(B[i], e)) \/ Named("delete", B[i].id)
    BY <1>6, <2>3, <2>4
  <2>6. Ids(T) \cap gone' = {} /\ \A id \in Ids(T) \cup gone' : NewBelow(id, created')
    BY <1>1, <2>1, <2>2, <2>3
  <2>7. Written(T)
    BY <1>1, <2>1, <2>3, <2>5, <2>6 DEF Written, B
  <2> QED
    BY <2>7
<1>11. CASE UNCHANGED <<row, created, gone>>
  BY <1>3, <1>11 DEF Untouched
<1> QED
  BY <1>2, <1>7, <1>9, <1>10, <1>11

LEMMA Changes == TimersInv /\ [Next]_vars => Untouched \/ \E t : Written(t)
<1> SUFFICES ASSUME TimersInv, [Next]_vars PROVE Untouched \/ \E t : Written(t)
  OBVIOUS
<1>1. CASE Start
  BY <1>1, Migrating DEF Start
<1>2. ASSUME NEW h \in Handlers, Act(h) PROVE Untouched \/ \E t : Written(t)
  BY <1>2, Acting
<1>3. CASE Stop \/ Rotate \/ Ensure \/ \E h \in Handlers : Admit(h) \/ Upgrade(h) \/ Adopt(h)
  BY <1>3 DEF Stop, Rotate, Ensure, Admit, Upgrade, Adopt, settings, Untouched
<1>4. CASE UNCHANGED vars
  BY <1>4 DEF vars, Untouched
<1> QED
  BY <1>1, <1>2, <1>3, <1>4 DEF Next

LEMMA InitTimers == Init => TimersInv
<1> SUFFICES ASSUME Init PROVE TimersInv
  OBVIOUS
<1>1. PICK left \in Left : row = left.row /\ legacy = left.legacy /\ default = left.default
  BY DEF Init
<1>2. /\ migrated = FALSE /\ created = 0 /\ gone = {} /\ up = FALSE /\ memory = NoHash
      /\ file \in {NoHash} \cup [pin : Pins \cup {Long}, old : {TRUE}]
      /\ lateRotate = FALSE /\ thread = [h \in Handlers |-> Idle]
  BY DEF Init
<1>3. /\ left.legacy \in {"none", "refused", "good"} /\ left.default \in BOOLEAN
      /\ left.row.kind = "list" =>
           /\ Len(left.row.items) \in Nat /\ DOMAIN left.row.items = 1 .. Len(left.row.items)
           /\ \A i \in DOMAIN left.row.items : left.row.items[i].at \in Int /\ left.row.items[i].id[1] # "new"
  BY LeftAssumption
<1>4. \A id : id[1] # "new" => NewBelow(id, created)
  BY DEF NewBelow, Generated
<1>5. RowHeld
  BY <1>1, <1>3, <1>4 DEF RowHeld, IsList
<1>6. GoneHeld
  BY <1>2 DEF GoneHeld
<1>7. Values
  <2>1. memory \in Hashes /\ file \in Hashes
    <3>1. NoHash \in Hashes
      BY DEF NoHash, Hashes
    <3>2. [pin : Pins \cup {Long}, old : {TRUE}] \subseteq Hashes
      BY Zenon DEF Hashes
    <3> QED
      BY <1>2, <3>1, <3>2
  <2>2. created \in Nat /\ legacy \in {"none", "refused", "good"} /\ default \in BOOLEAN
    BY <1>1, <1>2, <1>3
  <2>3. migrated \in BOOLEAN /\ up \in BOOLEAN /\ lateRotate \in BOOLEAN
    BY <1>2
  <2> QED
    BY <2>1, <2>2, <2>3 DEF Values
<1>8. Asked
  BY <1>2 DEF Asked, Idle
<1>9. Threads
  BY InitInv DEF Inv
<1> QED
  BY <1>5, <1>6, <1>7, <1>8, <1>9 DEF TimersInv

(* What is written is what the invariant asks of a row.                     *)
LEMMA RowStep == TimersInv /\ [Next]_vars => RowHeld' /\ GoneHeld' /\ created' \in Nat
<1> SUFFICES ASSUME TimersInv, [Next]_vars PROVE RowHeld' /\ GoneHeld' /\ created' \in Nat
  OBVIOUS
<1>1. CASE Untouched
  BY <1>1 DEF Untouched, TimersInv, RowHeld, GoneHeld, Values
<1>2. ASSUME NEW t, Written(t) PROVE RowHeld' /\ GoneHeld' /\ created' \in Nat
  <2>1. /\ Sound(t) /\ row' = Stored(t) /\ Ids(t) \cap gone' = {} /\ created' \in Nat
        /\ \A id \in Ids(t) \cup gone' : NewBelow(id, created')
    BY <1>2 DEF Written
  <2>2. IsList(row') /\ Sound(row'.items) /\ Ids(row'.items) = Ids(t)
    BY <2>1, StoredLoaded
  <2>3. /\ Len(row'.items) \in Nat /\ DOMAIN row'.items = 1 .. Len(row'.items)
        /\ \A i \in 1 .. Len(row'.items) : row'.items[i].at \in Int
    BY <2>2, SeqDomain DEF Sound
  <2>4. \A i \in 1 .. Len(row'.items) : row'.items[i].id \in Ids(t)
    BY <2>2, <2>3 DEF Ids
  <2> QED
    BY <2>1, <2>2, <2>3, <2>4 DEF RowHeld, GoneHeld
<1> QED
  BY <1>1, <1>2, Changes

LEMMA StepTimers == TimersInv /\ [Next]_vars => TimersInv'
<1> SUFFICES ASSUME TimersInv, [Next]_vars PROVE Values' /\ Asked' /\ Threads'
  BY RowStep DEF TimersInv
<1>1. created' \in Nat
  BY RowStep
<1>2. Values /\ Asked /\ Threads
  BY DEF TimersInv
<1>3. CASE Start
  <2>1. UNCHANGED <<default, file, lateRotate, thread>> /\ up' = TRUE /\ memory' = file
    BY <1>3 DEF Start, Migrate
  <2>2. legacy' = legacy \/ legacy' = "none"
    BY <1>3 DEF Start, Migrate
  <2>3. migrated' \in BOOLEAN
    BY <1>3 DEF Start, Migrate
  <2>4. Values'
    BY <1>1, <1>2, <2>1, <2>2, <2>3 DEF Values
  <2> QED
    BY <1>2, <2>1, <2>4 DEF Asked, Threads
<1>4. CASE Stop
  <2>1. UNCHANGED <<legacy, default, migrated, file, lateRotate>> /\ up' = FALSE /\ memory' = NoHash
    BY <1>4 DEF Stop, settings
  <2>2. thread' = [h \in Handlers |-> Idle]
    BY <1>4 DEF Stop
  <2>3. NoHash \in Hashes
    BY DEF NoHash, Hashes
  <2> QED
    BY <1>1, <1>2, <2>1, <2>2, <2>3 DEF Values, Asked, Threads, Idle
<1>5. CASE Rotate
  <2>1. UNCHANGED <<legacy, default, migrated, up, memory, thread>> /\ lateRotate' \in BOOLEAN
    BY <1>5 DEF Rotate, settings
  <2>2. file' \in Hashes
    BY <1>5 DEF Rotate, Hashes
  <2> QED
    BY <1>1, <1>2, <2>1, <2>2 DEF Values, Asked, Threads
<1>6. CASE Ensure
  <2>1. UNCHANGED <<legacy, default, migrated, up, memory, lateRotate, thread>>
    BY <1>6 DEF Ensure, settings
  <2>2. file' \in Hashes
    BY <1>6 DEF Ensure, Hashes
  <2> QED
    BY <1>1, <1>2, <2>1, <2>2 DEF Values, Asked, Threads
<1>7. ASSUME NEW h \in Handlers, Admit(h) PROVE Values' /\ Asked' /\ Threads'
  <2>1. UNCHANGED <<legacy, default, migrated, up, memory, file, lateRotate>>
    BY <1>7 DEF Admit, settings, secrets
  <2>2. PICK request \in Requests :
          thread' = [thread EXCEPT ![h] = [step |-> IF NeedsUpgrade(memory) THEN "upgrade" ELSE "act",
                                           request |-> request, pin |-> memory.pin]]
    BY <1>7 DEF Admit
  <2>3. request.kind \in {"create", "update"} => request.at \in Instants
    BY DEF Requests
  <2>4. /\ thread'[h].step \in {"upgrade", "act"} /\ thread'[h].request = request
        /\ \A g \in Handlers : g # h => thread'[g] = thread[g]
    BY <1>2, <2>2 DEF Threads
  <2>5. Threads'
    BY <1>2, <2>2 DEF Threads
  <2>6. Asked'
    BY <1>2, <2>3, <2>4 DEF Asked
  <2> QED
    BY <1>1, <1>2, <2>1, <2>5, <2>6 DEF Values
<1>8. ASSUME NEW h \in Handlers, Upgrade(h) PROVE Values' /\ Asked' /\ Threads'
  <2>1. UNCHANGED <<legacy, default, migrated, up, memory, lateRotate>>
    BY <1>8 DEF Upgrade, settings
  <2>2. \/ /\ thread[h].pin \in Pins /\ file' = [pin |-> thread[h].pin, old |-> FALSE]
           /\ thread' = [thread EXCEPT ![h].step = "adopt"]
        \/ UNCHANGED file /\ thread' = [thread EXCEPT ![h] = Idle]
    BY <1>8 DEF Upgrade
  <2>3. thread[h].step = "upgrade"
    BY <1>8 DEF Upgrade
  <2>4. file' \in Hashes
    <3>1. thread[h].pin \in Pins => [pin |-> thread[h].pin, old |-> FALSE] \in Hashes
      BY DEF Hashes
    <3>2. file \in Hashes
      BY <1>2 DEF Values
    <3> QED
      BY <2>2, <3>1, <3>2
  <2>5. Threads'
    BY <1>2, <2>2, <2>3 DEF Threads, Idle
  <2>6. Asked'
    BY <1>2, <2>2, <2>3 DEF Asked, Threads, Idle
  <2> QED
    BY <1>1, <1>2, <2>1, <2>4, <2>5, <2>6 DEF Values
<1>9. ASSUME NEW h \in Handlers, Adopt(h) PROVE Values' /\ Asked' /\ Threads'
  <2>1. UNCHANGED <<legacy, default, migrated, up, file, lateRotate>>
    BY <1>9 DEF Adopt, settings
  <2>2. /\ thread[h].step = "adopt" /\ memory' = [pin |-> thread[h].pin, old |-> FALSE]
        /\ thread' = [thread EXCEPT ![h].step = "act"]
    BY <1>9 DEF Adopt
  <2>3. memory' \in Hashes
    BY <1>2, <2>2 DEF Asked, Hashes
  <2>4. Threads'
    BY <1>2, <2>2 DEF Threads, Idle
  <2>5. Asked'
    BY <1>2, <2>2 DEF Asked, Threads, Idle
  <2> QED
    BY <1>1, <1>2, <2>1, <2>3, <2>4, <2>5 DEF Values
<1>10. ASSUME NEW h \in Handlers, Act(h) PROVE Values' /\ Asked' /\ Threads'
  <2>1. UNCHANGED <<legacy, default, migrated, up, memory, file, lateRotate>>
    BY <1>10 DEF Act, secrets
  <2>2. thread' = [thread EXCEPT ![h] = Idle]
    BY <1>10 DEF Act
  <2> QED
    BY <1>1, <1>2, <2>1, <2>2 DEF Values, Asked, Threads, Idle
<1>11. CASE UNCHANGED vars
  BY <1>2, <1>11 DEF vars, Values, Asked, Threads
<1> QED
  BY <1>3, <1>4, <1>5, <1>6, <1>7, <1>8, <1>9, <1>10, <1>11 DEF Next

(* A reader finds at most as many timers as there are tones, soonest first,  *)
(* each with an identifier and a tone of its own, whatever the row holds     *)
(* (_load_deadlines, normalize_deadline).                                    *)
THEOREM DeadlinesTyped == Spec => []TypeOK
<1>1. ASSUME TimersInv PROVE TypeOK
  <2>1. Sound(Timers) /\ Ordered(Timers)
    BY <1>1, TimersFacts DEF TimersInv
  <2>2. /\ IsSeq(Timers) /\ Len(Timers) <= MaxTimers /\ DOMAIN Timers = 1 .. Len(Timers)
        /\ \A i \in 1 .. Len(Timers) : Timers[i].id # Bad /\ Timers[i].tone \in Range(Tones)
        /\ \A i, j \in 1 .. Len(Timers) : Timers[i].id = Timers[j].id \/ Timers[i].tone = Timers[j].tone => i = j
    BY <2>1, SeqDomain DEF Sound
  <2>3. Cardinality(Ids(Timers)) = Len(Timers) /\ Cardinality(TonesOf(Timers)) = Len(Timers)
    BY <2>2, OwnOnes
  <2>4. TonesOf(Timers) \subseteq Range(Tones) /\ Bad \notin Ids(Timers)
    BY <2>2 DEF TonesOf, Ids
  <2>5. \A i, j \in DOMAIN Timers : i < j => Timers[i].at <= Timers[j].at
    BY <2>1, <2>2 DEF Ordered
  <2>6. {default, migrated, up, lateRotate} \subseteq BOOLEAN
    BY <1>1 DEF TimersInv, Values
  <2>7. /\ legacy \in {"none", "refused", "good"}
        /\ {memory, file} \subseteq [pin : Pins \cup {Long, Nobody}, old : BOOLEAN]
        /\ \A h \in Handlers : thread[h].step \in {"idle", "upgrade", "adopt", "act"}
    BY <1>1 DEF TimersInv, Values, Hashes, Asked
  <2> QED
    BY <2>2, <2>3, <2>4, <2>5, <2>6, <2>7 DEF TypeOK
<1> QED
  BY <1>1, InitTimers, StepTimers, PTL DEF Spec

(* A timer the page shows stays as it is until a request names it, and a     *)
(* deleted one never comes back, across restarts, the migration of the       *)
(* palette and the fallback to the legacy row (update_deadline,              *)
(* delete_deadline, _migrate_conference_deadline_palette).                   *)
THEOREM TimersStay == Spec => TimersKept
<1> DEFINE Keeps ==
      \A stored \in {row'}, old \in {legacy'} :
        \A before \in {Timers}, after \in {Loaded(stored, old)} :
          /\ \A i \in DOMAIN before : \/ \E j \in DOMAIN after : Kept(before[i], after[j])
                                      \/ Named("delete", before[i].id)
          /\ Ids(after) \cap gone' = {}
<1>1. ASSUME TimersInv, [Next]_vars PROVE Keeps
  <2> DEFINE B == Timers
             A == Loaded(row', legacy')
  <2>1. Sound(B) /\ Ids(B) \cap gone = {}
    BY <1>1, TimersFacts DEF TimersInv
  <2>2. DOMAIN B = 1 .. Len(B)
    BY <2>1, SeqDomain DEF Sound
  <2>3. CASE Untouched
    <3>1. A = B /\ gone' = gone
      BY <2>3 DEF Untouched, Timers, Loaded
    <3>2. \A e : Kept(e, e)
      BY DEF Kept
    <3> HIDE DEF A, B
    <3>3. Ids(A) \cap gone' = {} /\ \A i \in DOMAIN B : \E j \in DOMAIN A : Kept(B[i], A[j])
      BY <2>1, <3>1, <3>2
    <3> QED
      BY <3>3 DEF A, B
  <2>4. ASSUME NEW t, Written(t) PROVE Keeps
    <3>1. A = Loaded(Stored(t), legacy') /\ Sound(t)
      BY <2>4 DEF Written
    <3>2. Sound(A) /\ All(A) = All(t) /\ Ids(A) = Ids(t)
      BY <3>1, StoredLoaded
    <3>3. /\ Ids(t) \cap gone' = {}
          /\ \A i \in 1 .. Len(B) : (\E e \in All(t) : Kept(B[i], e)) \/ Named("delete", B[i].id)
      BY <2>4 DEF Written
    <3> HIDE DEF A, B
    <3>4. DOMAIN A = 1 .. Len(A)
      BY <3>2, SeqDomain DEF Sound
    <3>5. \A e \in All(t) : \E j \in DOMAIN A : A[j] = e
      BY <3>2, <3>4 DEF All
    <3>6. \A i \in DOMAIN B : (\E j \in DOMAIN A : Kept(B[i], A[j])) \/ Named("delete", B[i].id)
      BY <2>2, <3>3, <3>5
    <3>7. Ids(A) \cap gone' = {}
      BY <3>2, <3>3
    <3> QED
      BY <3>6, <3>7 DEF A, B
  <2> QED
    BY <1>1, <2>3, <2>4, Changes
<1>2. TimersInv /\ [Next]_vars => [Keeps]_vars
  BY <1>1
<1> QED
  BY <1>2, InitTimers, StepTimers, PTL DEF Spec, TimersKept

================================================================================
