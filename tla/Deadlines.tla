---- MODULE Deadlines ----
(***************************************************************************)
(* The conference timers of the Store, their one-time palette               *)
(* migration, and the administrator hash that stands before every change:  *)
(* the server keeps it in memory and upgrades it, an operator rotates it   *)
(* in the file.                                                            *)
(*                                                                         *)
(* The content of a timer is its instant; a "tba" timer has the instant    *)
(* Never, a stored item without usable fields the instant Unusable.        *)
(***************************************************************************)
EXTENDS Integers, FiniteSets, SequencesExt

CONSTANTS
    Handlers,              \* request threads
    Pins,                  \* four-digit passphrases
    Nobody,                \* no passphrase
    Long,                  \* an older passphrase that is not four digits
    Tones,                 \* CONFERENCE_DEADLINE_TONES; as many as timers may exist
    Instants,              \* instants a timer may have, Never among them
    Left,                  \* what an older version may have left: [row, legacy, default]
    MaxNew                 \* bound: timers created in a run

ASSUME DeadlinesAssumption ==
    /\ Tones \in Seq(Range(Tones)) /\ Tones # <<>>
    /\ \A i, j \in DOMAIN Tones : Tones[i] = Tones[j] => i = j
    /\ Instants \subseteq Int \ {0} /\ MaxNew \in Nat
    /\ Long \notin Pins /\ Nobody \notin Pins \cup {Long}

VARIABLES
    row,                   \* conference_deadlines: "none", "unreadable" or a "list" of items
    legacy,                \* conference_deadline: "none" (or unreadable), "refused" or "good"
    default,               \* the configuration has a usable default_deadline
    migrated,              \* the palette migration is recorded as complete
    created,               \* identifiers generated so far
    gone,                  \* observer: identifiers of timers that were deleted
    up,                    \* the server runs
    memory,                \* config["announcement_admin_pin_hash"]
    file,                  \* the hash file
    chosen,                \* observer: the passphrase the operator chose last
    lateRotate,            \* observer: rotated under a server that still held an old hash
    thread                 \* each request thread: its step, its request, its passphrase

vars == <<row, legacy, default, migrated, created, gone, up, memory, file, chosen, lateRotate, thread>>
settings == <<row, legacy, default, migrated, created, gone>>
secrets == <<memory, file, chosen, lateRotate>>

MaxTimers == Len(Tones)
Never == 99
Unusable == 0
NoHash == [pin |-> Nobody, old |-> FALSE]
Idle == [step |-> "idle"]

\* Identifiers: generated ones, "primary", the slots given to malformed items, and Bad.
Slot(i, nexts) == <<"slot", i, nexts>>
Generated(n) == <<"new", n, 0>>
Primary == <<"primary", 0, 0>>
Bad == <<"bad", 0, 0>>
Ids(timers) == {timers[i].id : i \in DOMAIN timers}
TonesOf(timers) == {timers[i].tone : i \in DOMAIN timers}
At(timers, id) == CHOOSE i \in DOMAIN timers : timers[i].id = id

\* The rows are what JSON can hold, and no identifier is generated twice.
ASSUME LeftAssumption ==
    \A left \in Left :
        /\ left.legacy \in {"none", "refused", "good"} /\ left.default \in BOOLEAN
        /\ left.row.kind \in {"none", "unreadable", "list"}
        /\ left.row.kind = "list" =>
             LET items == left.row.items IN
             /\ Len(items) \in Nat /\ DOMAIN items = 1 .. Len(items)
             /\ \A i \in DOMAIN items : items[i].at \in Int /\ items[i].id[1] # "new"

----
\* ------------------------------------------------------- reading the row

IsList(r) == r.kind = "list"
List(items) == [kind |-> "list", items |-> items]

\* _sort_deadlines: soonest first; equal instants keep their order.
Sorted(timers) ==
    LET ahead(i) == {j \in DOMAIN timers :
            timers[j].at < timers[i].at \/ (timers[j].at = timers[i].at /\ j < i)}
    IN  [n \in DOMAIN timers |-> timers[CHOOSE i \in DOMAIN timers : Cardinality(ahead(i)) = n - 1]]

\* The identifier of the i-th stored item: its own if it is sound and free.
SoundId(used, item, i) ==
    IF item.id # Bad /\ item.id \notin used THEN item.id
    ELSE LET free == {n \in 0 .. MaxTimers : Slot(i, n) \notin used}
         IN  Slot(i, CHOOSE n \in free : \A k \in free : n <= k)

\* Mutant: the first tone of the palette, used or not.
AnyTone(used) == Tones[1]

\* The first tone of the palette that nobody uses.
FreeTone(used) == Tones[CHOOSE i \in DOMAIN Tones : Tones[i] \notin used
                           /\ \A j \in 1 .. i - 1 : Tones[j] \in used]

SoundTone(used, item) ==
    IF item.tone \in Range(Tones) \ used THEN item.tone ELSE FreeTone(used)

\* One more stored item: taken, with its identifier and its tone, or passed over.
Taken(before, item, i) ==
    IF i > MaxTimers \/ item.at = Unusable THEN before
    ELSE Append(before, [id |-> SoundId(Ids(before), item, i),
                         tone |-> SoundTone(TonesOf(before), item),
                         at |-> item.at])

\* The timers found in the first i stored items.
Reading(stored) ==
    LET timers[i \in 0 .. Len(stored)] ==
            IF i = 0 THEN <<>> ELSE Taken(timers[i - 1], stored[i], i)
    IN  timers

\* The usable items among the first MaxTimers.
Usable(stored) == Reading(stored)[Len(stored)]

\* The row that readers fall back to, filled up from the configuration where it can be.
FromLegacy(old) ==
    IF old = "good" \/ (default /\ old # "refused")
    THEN <<[id |-> Primary, tone |-> Tones[1], at |-> Never]>>
    ELSE <<>>

\* _load_deadlines: what every reader and every change sees.
Loaded(stored, old) == IF IsList(stored) THEN Sorted(Usable(stored.items)) ELSE FromLegacy(old)
Timers == Loaded(row, legacy)

\* _persist_deadlines.
Stored(timers) == List(Sorted(timers))

----
\* --------------------------------------------------- starting the server

Toned(timers) == [i \in DOMAIN timers |-> [id |-> timers[i].id, tone |-> Tones[i], at |-> timers[i].at]]

\* Mutant: sorted before the items get their identifiers.
PaletteOfSorted(stored) == Toned(Usable(Sorted(stored)))

\* The palette in the order the page shows the timers.
Palette(stored) == Toned(Sorted(Usable(stored)))

\* _migrate_conference_deadline_palette, then _prune_obsolete_metadata, in one transaction.
Migrate ==
    LET kept == IsList(row) /\ (row.items = <<>> \/ Usable(row.items) # <<>>)
        recovered == ~kept /\ row.kind # "none" /\ legacy = "good"
        done == migrated \/ kept \/ recovered \/ row.kind = "none"
    IN  /\ row' = IF migrated THEN row
                  ELSE IF kept THEN Stored(Palette(row.items))
                  ELSE IF recovered THEN Stored(FromLegacy(legacy))
                  ELSE row
        /\ migrated' = done
        /\ legacy' = IF done /\ IsList(row') THEN "none" ELSE legacy
        /\ UNCHANGED <<default, created, gone>>

\* load_config reads the hash file once; Store migrates before requests are served.
Start ==
    /\ ~up
    /\ up' = TRUE
    /\ memory' = file
    /\ Migrate
    /\ UNCHANGED <<file, chosen, lateRotate, thread>>

\* The process ends, whatever its threads are doing.
Stop ==
    /\ up
    /\ up' = FALSE
    /\ memory' = NoHash
    /\ thread' = [h \in Handlers |-> Idle]
    /\ UNCHANGED <<settings, file, chosen, lateRotate>>

----
\* ------------------------------------------- the administrator passphrase

\* admin-passphrase.py rotate: a confirmed four-digit PIN replaces the hash.
Rotate ==
    /\ \E pin \in Pins \ {chosen} : chosen' = pin /\ file' = [pin |-> pin, old |-> FALSE]
    /\ lateRotate' = (lateRotate \/ memory.old \/ \E h \in Handlers : thread[h].step = "upgrade")
    /\ UNCHANGED <<settings, up, memory, thread>>

\* admin-passphrase.py ensure: a stored hash is retained, whatever its age.
Ensure ==
    /\ file = NoHash
    /\ \E pin \in Pins : chosen' = pin /\ file' = [pin |-> pin, old |-> FALSE]
    /\ UNCHANGED <<settings, up, memory, lateRotate, thread>>

\* Mutant: every successful check writes the hash again.
AlwaysUpgrade(hash) == TRUE

\* hash_needs_upgrade: fewer iterations than today's.
NeedsUpgrade(hash) == hash.old

Requests ==
    [kind : {"create"}, at : Instants]
    \cup [kind : {"update"}, id : Ids(Timers), at : Instants]
    \cup [kind : {"delete"}, id : Ids(Timers)]

\* admin_allowed: the passphrase is checked against the hash in memory; a wrong one,
\* a server without a hash and an exhausted budget leave everything as it is.
Admit(h) ==
    /\ up /\ thread[h] = Idle /\ memory # NoHash
    /\ \E request \in Requests :
         thread' = [thread EXCEPT ![h] = [step |-> IF NeedsUpgrade(memory) THEN "upgrade" ELSE "act",
                                          request |-> request, pin |-> memory.pin]]
    /\ UNCHANGED <<settings, up, secrets>>

\* persist_admin_passphrase_hash: the file is replaced; a passphrase that is not four
\* digits, or a full disk, ends the request with an error.
Upgrade(h) ==
    /\ thread[h].step = "upgrade"
    /\ \/ /\ thread[h].pin \in Pins
          /\ file' = [pin |-> thread[h].pin, old |-> FALSE]
          /\ thread' = [thread EXCEPT ![h].step = "adopt"]
       \/ UNCHANGED file /\ thread' = [thread EXCEPT ![h] = Idle]
    /\ UNCHANGED <<settings, up, memory, chosen, lateRotate>>

Adopt(h) ==
    /\ thread[h].step = "adopt"
    /\ memory' = [pin |-> thread[h].pin, old |-> FALSE]
    /\ thread' = [thread EXCEPT ![h].step = "act"]
    /\ UNCHANGED <<settings, up, file, chosen, lateRotate>>

----
\* ------------------------------------------------------ changing the timers

Persist(timers) == row' = Stored(timers)

\* update_deadline without an identifier.
Create(request, timers) ==
    /\ request.kind = "create"
    /\ Len(timers) < MaxTimers
    /\ created < MaxNew
    /\ created' = created + 1
    /\ Persist(Append(timers, [id |-> Generated(created), tone |-> FreeTone(TonesOf(timers)), at |-> request.at]))
    /\ UNCHANGED gone

\* update_deadline with an identifier: the timer keeps it and its tone.
Update(request, timers) ==
    /\ request.kind = "update"
    /\ request.id \in Ids(timers)
    /\ Persist([timers EXCEPT ![At(timers, request.id)].at = request.at])
    /\ UNCHANGED <<created, gone>>

\* delete_deadline: no other timer has the identifier.
Delete(request, timers) ==
    /\ request.kind = "delete"
    /\ request.id \in Ids(timers)
    /\ Persist(RemoveAt(timers, At(timers, request.id)))
    /\ gone' = gone \cup {request.id}
    /\ UNCHANGED created

\* The store's lock makes a change one step; an unknown identifier, a full list and a
\* failed transaction change nothing.
Act(h) ==
    /\ thread[h].step = "act"
    /\ LET request == thread[h].request
           timers == Timers
       IN  \/ Create(request, timers) \/ Update(request, timers) \/ Delete(request, timers)
           \/ UNCHANGED <<row, created, gone>>
    /\ thread' = [thread EXCEPT ![h] = Idle]
    /\ UNCHANGED <<legacy, default, migrated, up, secrets>>

Init ==
    /\ \E left \in Left : row = left.row /\ legacy = left.legacy /\ default = left.default
    /\ migrated = FALSE /\ created = 0 /\ gone = {}
    /\ up = FALSE /\ memory = NoHash
    /\ file \in {NoHash} \cup [pin : Pins \cup {Long}, old : {TRUE}]
    /\ chosen = file.pin /\ lateRotate = FALSE
    /\ thread = [h \in Handlers |-> Idle]

Next ==
    \/ Start \/ Stop \/ Rotate \/ Ensure
    \/ \E h \in Handlers : \/ Admit(h) \/ Upgrade(h) \/ Adopt(h) \/ Act(h)

Spec == Init /\ [][Next]_vars

----
\* The values each variable takes; the timers a reader sees are at most as many as there
\* are tones, soonest first, each with an identifier and a tone of its own.
TypeOK ==
    /\ LET timers == Timers IN
       /\ Len(timers) <= MaxTimers
       /\ Cardinality(Ids(timers)) = Len(timers) /\ Cardinality(TonesOf(timers)) = Len(timers)
       /\ TonesOf(timers) \subseteq Range(Tones) /\ Bad \notin Ids(timers)
       /\ \A i, j \in DOMAIN timers : i < j => timers[i].at <= timers[j].at
    /\ legacy \in {"none", "refused", "good"}
    /\ {default, migrated, up, lateRotate} \subseteq BOOLEAN
    /\ {memory, file} \subseteq [pin : Pins \cup {Long, Nobody}, old : BOOLEAN]
    /\ \A h \in Handlers : thread[h].step \in {"idle", "upgrade", "adopt", "act"}

\* Whatever the row looked like, and across restarts, migration and the fallback to the
\* legacy row: a timer the page shows stays as it is until a request names it; an edit
\* keeps its tone; only the first assignment of the palette changes tones; and a deleted
\* timer never comes back.
Named(kind, id) ==
    \E h \in Handlers : /\ thread[h].step = "act" /\ thread'[h] = Idle
                        /\ thread[h].request.kind = kind /\ thread[h].request.id = id
Kept(t, u) ==
    /\ u.id = t.id
    /\ u.at = t.at \/ Named("update", t.id)
    /\ u.tone = t.tone \/ (~migrated /\ migrated')
TimersKept ==
    [][\A stored \in {row'}, old \in {legacy'} :
       \A before \in {Timers}, after \in {Loaded(stored, old)} :
           /\ \A i \in DOMAIN before : \/ \E j \in DOMAIN after : Kept(before[i], after[j])
                                       \/ Named("delete", before[i].id)
           /\ Ids(after) \cap gone' = {}]_vars

\* The hash file holds the passphrase the operator chose last, whichever requests verify
\* and upgrade meanwhile; only a rotation under a server that still works with an old
\* hash can be undone by the upgrade.
RotationKept == file.pin = chosen \/ lateRotate
====
