------------------------- MODULE Announcements_proofs -------------------------
(***************************************************************************)
(* Proofs about Announcements, for any number of handlers, notices and     *)
(* slots: nobody writes over what he has not seen, nothing comes back, and *)
(* the cap and the failure budget hold.                                    *)
(***************************************************************************)
EXTENDS Announcements, FiniteSetTheorems, TLAPS

InFlight == {h \in Handlers : at[h] \notin {"idle", "checked"}}
Readers  == {h \in Handlers : at[h] = "read"}

-------------------------------------------------------------------------------
(* The inductive invariant.                                                *)

(* Timestamps lie in the past, and every one is used by one request only.  *)
StampsPast ==
  /\ \A h \in InFlight : request[h].ts <= clock
  /\ \A n \in Ids : notices[n].updated_ts <= clock
  /\ \A h \in Readers : request[h].seen_ts <= clock

StampsUnique ==
  /\ \A g, h \in InFlight : g # h => request[g].ts # request[h].ts
  /\ \A h \in InFlight, n \in Ids : request[h].ts # notices[n].updated_ts
  /\ \A h \in InFlight, g \in Readers : request[h].ts # request[g].seen_ts

(* A request works on a notice that exists.                                *)
IdsExist ==
  \A h \in Handlers : at[h] # "idle" /\ request[h].kind # "add" => request[h].id \in Ids

ReadersEdit == \A h \in Readers : request[h].kind # "add"

(* The timestamp a reader holds identifies the contents it has seen.       *)
StampsIdentify ==
  \A h \in Readers :
    request[h].seen_ts = notices[request[h].id].updated_ts =>
      request[h].seen = notices[request[h].id].version

Inv == TypeOK /\ StampsPast /\ StampsUnique /\ IdsExist /\ ReadersEdit /\ StampsIdentify

(* What TypeOK says, in the pieces the provers need.                       *)
LEMMA TypeFacts ==
  ASSUME TypeOK
  PROVE  /\ clock \in Nat /\ MaxTime \in Nat /\ clock <= MaxTime
         /\ Ids = 1 .. Len(notices) /\ Len(notices) \in Nat
         /\ \A n \in Ids : /\ notices[n] \in Notices
                            /\ notices[n].expires \in Nat
                            /\ notices[n].deleted \in BOOLEAN
                            /\ notices[n].updated_ts \in Nat
                            /\ notices[n].version \in Nat
         /\ \A h \in Handlers : at[h] # "idle" => /\ request[h] \in Requests
                                                  /\ request[h].kind \in Kinds
                                                  /\ request[h].scope \in Scopes
                                                  /\ request[h].id \in Nat
                                                  /\ request[h].ts \in Nat
                                                  /\ request[h].expires \in Nat
                                                  /\ request[h].seen_ts \in Nat
                                                  /\ request[h].seen \in Nat
<1>1. clock \in Nat /\ MaxTime \in Nat /\ clock <= MaxTime
  BY TimesAssumption DEF TypeOK
<1>2. Ids = 1 .. Len(notices) /\ Len(notices) \in Nat
  BY DEF TypeOK, Ids
<1>3. \A n \in Ids : notices[n] \in Notices
  BY <1>2 DEF TypeOK, Ids
<1>4. \A h \in Handlers : at[h] # "idle" => request[h] \in Requests
  BY DEF TypeOK
<1> QED BY <1>1, <1>2, <1>3, <1>4 DEF Notices, Requests

(* An empty table with idle handlers satisfies it.                         *)
LEMMA InitInv == Init => Inv
<1> SUFFICES ASSUME Init PROVE Inv
  OBVIOUS
<1>1. TypeOK
  BY TimesAssumption DEF Init, TypeOK
<1>2. Ids = {} /\ InFlight = {} /\ Readers = {}
  BY DEF Init, Ids, InFlight, Readers
<1> QED
  BY <1>1, <1>2 DEF Init, Inv, StampsPast, StampsUnique, IdsExist, ReadersEdit, StampsIdentify

(* A handler that is done leaves everybody else as they were.              *)
LEMMA FinishInv ==
  ASSUME Inv, NEW h \in Handlers, Finish(h), UNCHANGED <<clock, notices>>,
         scopeFailures' \in [Scopes -> Nat], failures' \in Nat
  PROVE  Inv'
<1>1. /\ at' = [at EXCEPT ![h] = "idle"] /\ request' = [request EXCEPT ![h] = NoRequest]
      /\ Ids' = Ids
  BY DEF Finish, Ids
<1>2. TypeOK'
  BY <1>1 DEF Inv, TypeOK
<1>3. \A g \in Handlers : g # h => at'[g] = at[g] /\ request'[g] = request[g]
  BY <1>1 DEF Inv, TypeOK
<1>4. /\ InFlight' \subseteq InFlight \ {h}
      /\ Readers' \subseteq Readers \ {h}
      /\ at'[h] = "idle"
  BY <1>1 DEF Inv, TypeOK, InFlight, Readers
<1>5. /\ \A g \in InFlight' : g \in InFlight /\ request'[g] = request[g]
      /\ \A g \in Readers' : g \in Readers /\ request'[g] = request[g]
  BY <1>3, <1>4 DEF InFlight, Readers
<1>6. StampsPast'
  BY <1>1, <1>5 DEF Inv, StampsPast
<1>7. StampsUnique'
  BY <1>1, <1>5 DEF Inv, StampsUnique
<1>8. IdsExist'
  BY <1>1, <1>3, <1>4 DEF Inv, IdsExist
<1>9. ReadersEdit' /\ StampsIdentify'
  BY <1>1, <1>5 DEF Inv, ReadersEdit, StampsIdentify
<1> QED BY <1>2, <1>6, <1>7, <1>8, <1>9 DEF Inv

(* A handler that goes on with the same request, and is not about to read  *)
(* a row, keeps the invariant too.                                         *)
LEMMA MoveInv ==
  ASSUME Inv, NEW h \in Handlers, at[h] \notin {"idle", "checked"},
         NEW place \in {"hashed", "denied", "counted"},
         at' = [at EXCEPT ![h] = place], UNCHANGED <<clock, notices, request>>,
         scopeFailures' \in [Scopes -> Nat], failures' \in Nat
  PROVE  Inv'
<1>1. Ids' = Ids
  BY DEF Ids
<1>2. TypeOK'
  BY DEF Inv, TypeOK
<1>3. InFlight' = InFlight /\ Readers' \subseteq Readers
  BY DEF Inv, TypeOK, InFlight, Readers
<1>4. \A g \in Handlers : at'[g] # "idle" => at[g] # "idle"
  BY DEF Inv, TypeOK
<1>5. StampsPast' /\ StampsUnique'
  BY <1>1, <1>3 DEF Inv, StampsPast, StampsUnique
<1>6. IdsExist' /\ ReadersEdit' /\ StampsIdentify'
  BY <1>1, <1>3, <1>4 DEF Inv, IdsExist, ReadersEdit, StampsIdentify
<1> QED BY <1>2, <1>5, <1>6 DEF Inv

(* A request that begins takes a timestamp nobody has.                     *)
LEMMA BeginInv ==
  ASSUME Inv, NEW h \in Handlers, clock < MaxTime, clock' = clock + 1,
         NEW r \in Requests, r.ts = clock + 1,
         r.kind # "add" => r.id \in Ids,
         at' = [at EXCEPT ![h] = "admitted"], request' = [request EXCEPT ![h] = r],
         UNCHANGED <<notices, scopeFailures, failures>>,
         at[h] \in {"idle", "checked"}
  PROVE  Inv'
<1>1. Ids' = Ids /\ clock \in Nat
  BY TypeFacts DEF Ids, Inv
<1>2. TypeOK'
  BY TypeFacts DEF Inv, TypeOK
<1>3. /\ \A g \in Handlers : g # h => at'[g] = at[g] /\ request'[g] = request[g]
      /\ at'[h] = "admitted" /\ request'[h] = r
  BY DEF Inv, TypeOK
<1>4. /\ InFlight' = InFlight \union {h}
      /\ Readers' = Readers
      /\ h \notin InFlight /\ h \notin Readers
  BY <1>3 DEF InFlight, Readers
<1>5. /\ \A g \in InFlight : request'[g] = request[g] /\ request[g].ts \in Nat
      /\ \A g \in Readers : request'[g] = request[g] /\ request[g].seen_ts \in Nat
  BY <1>3, <1>4, TypeFacts DEF InFlight, Readers, Inv
<1>6. \A n \in Ids : notices[n].updated_ts \in Nat
  BY TypeFacts DEF Inv
<1>7. StampsPast'
  BY <1>1, <1>3, <1>4, <1>5, <1>6 DEF Inv, StampsPast
<1>8. StampsUnique'
  <2>1. \A g \in InFlight : request[g].ts < r.ts
    BY <1>1, <1>5 DEF Inv, StampsPast
  <2>2. \A n \in Ids : notices[n].updated_ts < r.ts
    BY <1>1, <1>6 DEF Inv, StampsPast
  <2>3. \A g \in Readers : request[g].seen_ts < r.ts
    BY <1>1, <1>5 DEF Inv, StampsPast
  <2>4. r.ts \in Nat
    BY <1>1
  <2>5. \A g, k \in InFlight' : g # k => request'[g].ts # request'[k].ts
    BY <1>3, <1>4, <1>5, <2>1, <2>4 DEF Inv, StampsUnique
  <2>6. \A g \in InFlight', n \in Ids' : request'[g].ts # notices'[n].updated_ts
    BY <1>1, <1>3, <1>4, <1>5, <1>6, <2>2, <2>4 DEF Inv, StampsUnique
  <2>7. \A g \in InFlight', k \in Readers' : request'[g].ts # request'[k].seen_ts
    BY <1>3, <1>4, <1>5, <2>3, <2>4 DEF Inv, StampsUnique
  <2> QED BY <2>5, <2>6, <2>7 DEF StampsUnique
<1>9. IdsExist'
  BY <1>1, <1>3 DEF Inv, IdsExist
<1>10. ReadersEdit' /\ StampsIdentify'
  BY <1>1, <1>4, <1>5 DEF Inv, ReadersEdit, StampsIdentify
<1> QED BY <1>2, <1>7, <1>8, <1>9, <1>10 DEF Inv

(* A request that only passed the budget has no timestamp yet.             *)
LEMMA CheckInv == \A h \in Handlers : Inv /\ Check(h) => Inv'
<1> SUFFICES ASSUME NEW h \in Handlers, Inv, Check(h) PROVE Inv'
  OBVIOUS
<1>1. PICK kind \in {"update", "delete"}, s \in Scopes, n \in Ids :
        request' = [request EXCEPT ![h] =
          [kind |-> kind, scope |-> s, id |-> n, ts |-> 0, expires |-> Forever,
           seen_ts |-> 0, seen |-> 0]]
  BY DEF Check
<1>2. /\ at[h] = "idle" /\ at' = [at EXCEPT ![h] = "checked"] /\ Ids' = Ids
      /\ UNCHANGED <<clock, notices, scopeFailures, failures>>
  BY DEF Check, Ids
<1>3. Forever \in Nat
  BY TimesAssumption DEF Forever
<1>4. [kind |-> kind, scope |-> s, id |-> n, ts |-> 0, expires |-> Forever,
       seen_ts |-> 0, seen |-> 0] \in Requests
  BY <1>3, TypeFacts DEF Requests, Kinds, Inv
<1>5. TypeOK'
  BY <1>1, <1>2, <1>4 DEF Inv, TypeOK
<1>6. /\ \A g \in Handlers : g # h => at'[g] = at[g] /\ request'[g] = request[g]
      /\ at'[h] = "checked" /\ request'[h].id = n
  BY <1>1, <1>2 DEF Inv, TypeOK
<1>7. /\ InFlight' = InFlight /\ Readers' = Readers
      /\ h \notin InFlight /\ h \notin Readers
  BY <1>2, <1>6 DEF InFlight, Readers
<1>8. /\ \A g \in InFlight : request'[g] = request[g]
      /\ \A g \in Readers : request'[g] = request[g]
  BY <1>6, <1>7 DEF InFlight, Readers
<1>9. StampsPast' /\ StampsUnique'
  BY <1>2, <1>7, <1>8 DEF Inv, StampsPast, StampsUnique
<1>10. IdsExist' /\ ReadersEdit' /\ StampsIdentify'
  BY <1>2, <1>6, <1>7, <1>8 DEF Inv, IdsExist, ReadersEdit, StampsIdentify
<1> QED BY <1>5, <1>9, <1>10 DEF Inv

(* Every expiry a request may ask for is a time.                           *)
LEMMA ExpiriesType == \A ts \in Nat : Expiries(ts) \subseteq Nat
BY TimesAssumption DEF Expiries, Forever

(* A request to change or remove begins.                                   *)
LEMMA EnterInv == \A h \in Handlers : Inv /\ Enter(h) => Inv'
<1> SUFFICES ASSUME NEW h \in Handlers, Inv, Enter(h) PROVE Inv'
  OBVIOUS
<1>1. /\ at[h] = "checked" /\ clock < MaxTime /\ clock' = clock + 1
      /\ at' = [at EXCEPT ![h] = "admitted"]
      /\ UNCHANGED <<notices, scopeFailures, failures>>
  BY DEF Enter
<1>2. PICK expires \in (IF request[h].kind = "update" THEN Expiries(clock') ELSE {Forever}) :
        request' = [request EXCEPT ![h].ts = clock', ![h].expires = expires]
  BY DEF Enter
<1>3. /\ request[h] \in Requests
      /\ request[h].kind # "add" => request[h].id \in Ids
      /\ clock + 1 \in Nat /\ expires \in Nat
  BY <1>1, <1>2, TypeFacts, ExpiriesType, TimesAssumption DEF Inv, IdsExist, Forever
<1> DEFINE r == [request[h] EXCEPT !.ts = clock + 1, !.expires = expires]
<1>4. r \in Requests /\ r.ts = clock + 1 /\ r.id = request[h].id /\ r.kind = request[h].kind
  BY <1>3 DEF Requests
<1>5. request' = [request EXCEPT ![h] = r]
  BY <1>1, <1>2
<1> HIDE DEF r
<1> QED BY <1>1, <1>3, <1>4, <1>5, BeginInv

(* A request to add begins.                                                *)
LEMMA EnterAddInv == \A h \in Handlers : Inv /\ EnterAdd(h) => Inv'
<1> SUFFICES ASSUME NEW h \in Handlers, Inv, EnterAdd(h) PROVE Inv'
  OBVIOUS
<1>1. /\ at[h] = "idle" /\ clock < MaxTime /\ clock' = clock + 1
      /\ at' = [at EXCEPT ![h] = "admitted"]
      /\ UNCHANGED <<notices, scopeFailures, failures>>
  BY DEF EnterAdd
<1>2. PICK s \in Scopes, expires \in Expiries(clock') :
        request' = [request EXCEPT ![h] =
          [kind |-> "add", scope |-> s, id |-> 0, ts |-> clock', expires |-> expires,
           seen_ts |-> 0, seen |-> 0]]
  BY DEF EnterAdd
<1>3. clock + 1 \in Nat /\ expires \in Nat
  BY <1>1, <1>2, TypeFacts, ExpiriesType DEF Inv
<1> DEFINE r == [kind |-> "add", scope |-> s, id |-> 0, ts |-> clock + 1, expires |-> expires,
                 seen_ts |-> 0, seen |-> 0]
<1>4. r \in Requests /\ r.ts = clock + 1 /\ r.kind = "add"
  BY <1>3 DEF Requests, Kinds
<1>5. request' = [request EXCEPT ![h] = r]
  BY <1>1, <1>2
<1> HIDE DEF r
<1> QED BY <1>1, <1>4, <1>5, BeginInv

(* A new notice carries the timestamp of the request that adds it.         *)
LEMMA InsertInv == \A h \in Handlers : Inv /\ Insert(h) => Inv'
<1> SUFFICES ASSUME NEW h \in Handlers, Inv, Insert(h) PROVE Inv'
  OBVIOUS
<1>1. /\ at[h] = "hashed" /\ Finish(h)
      /\ UNCHANGED <<clock, scopeFailures, failures>>
  BY DEF Insert
<1>2. CASE notices' = notices
  BY <1>1, <1>2, FinishInv DEF Inv, TypeOK
<1> DEFINE row == [expires |-> request[h].expires, deleted |-> FALSE,
                   updated_ts |-> request[h].ts, version |-> 1]
<1>3. CASE notices' = Append(notices, row)
  <2>1. row \in Notices
    BY <1>1, TypeFacts DEF Inv, Notices
  <2>2. /\ Ids' = Ids \union {Len(notices) + 1}
        /\ \A n \in Ids : notices'[n] = notices[n] /\ n # Len(notices) + 1
        /\ notices'[Len(notices) + 1].updated_ts = request[h].ts
        /\ notices' \in Seq(Notices)
    BY <1>3, <2>1, TypeFacts DEF Inv, TypeOK, Ids
  <2>3. /\ at' = [at EXCEPT ![h] = "idle"]
        /\ request' = [request EXCEPT ![h] = NoRequest]
    BY <1>1 DEF Finish
  <2>4. TypeOK'
    BY <1>1, <2>2, <2>3 DEF Inv, TypeOK
  <2>5. \A g \in Handlers : g # h => at'[g] = at[g] /\ request'[g] = request[g]
    BY <2>3 DEF Inv, TypeOK
  <2>6. /\ InFlight' \subseteq InFlight \ {h} /\ Readers' \subseteq Readers \ {h}
        /\ h \in InFlight /\ at'[h] = "idle"
    BY <1>1, <2>3 DEF Inv, TypeOK, InFlight, Readers
  <2>7. /\ \A g \in InFlight' : g \in InFlight /\ request'[g] = request[g]
        /\ \A g \in Readers' : g \in Readers /\ request'[g] = request[g]
    BY <2>5, <2>6 DEF InFlight, Readers
  <2>8. StampsPast'
    BY <1>1, <2>2, <2>6, <2>7 DEF Inv, StampsPast
  <2>9. StampsUnique'
    BY <2>2, <2>6, <2>7 DEF Inv, StampsUnique
  <2>10. IdsExist' /\ ReadersEdit'
    BY <2>2, <2>5, <2>6, <2>7 DEF Inv, IdsExist, ReadersEdit
  <2>11. StampsIdentify'
    <3>1. \A g \in Readers : request[g].id \in Ids
      BY DEF Inv, IdsExist, ReadersEdit, Readers
    <3> QED BY <2>2, <2>7, <3>1 DEF Inv, StampsIdentify
  <2> QED BY <2>4, <2>8, <2>9, <2>10, <2>11 DEF Inv
<1> QED BY <1>2, <1>3 DEF Insert

(* What a handler reads is what its timestamp identifies.                  *)
LEMMA ReadInv == \A h \in Handlers : Inv /\ Read(h) => Inv'
<1> SUFFICES ASSUME NEW h \in Handlers, Inv, Read(h) PROVE Inv'
  OBVIOUS
<1> DEFINE n == request[h].id
<1>1. /\ at[h] = "admitted" /\ request[h].kind # "add"
      /\ UNCHANGED <<clock, notices, scopeFailures, failures>>
  BY DEF Read
<1>2. n \in Ids /\ Ids' = Ids /\ request[h] \in Requests
  BY <1>1, TypeFacts DEF Inv, IdsExist, Ids
<1>3. CASE Finish(h)
  BY <1>1, <1>3, FinishInv DEF Inv, TypeOK
<1>4. CASE /\ at' = [at EXCEPT ![h] = "read"]
           /\ request' = [request EXCEPT ![h].seen_ts = notices[n].updated_ts,
                                         ![h].seen = notices[n].version]
  <2> DEFINE r == [request[h] EXCEPT !.seen_ts = notices[n].updated_ts,
                                     !.seen = notices[n].version]
  <2>1. /\ r \in Requests /\ r.ts = request[h].ts /\ r.id = n /\ r.kind = request[h].kind
        /\ r.seen_ts = notices[n].updated_ts /\ r.seen = notices[n].version
    BY <1>2, TypeFacts DEF Inv, Requests
  <2>2. request' = [request EXCEPT ![h] = r]
    BY <1>4
  <2> HIDE DEF r
  <2>3. /\ \A g \in Handlers : g # h => at'[g] = at[g] /\ request'[g] = request[g]
        /\ at'[h] = "read" /\ request'[h] = r
    BY <1>4, <2>2 DEF Inv, TypeOK
  <2>4. TypeOK'
    BY <1>1, <1>4, <2>1, <2>2 DEF Inv, TypeOK
  <2>5. /\ InFlight' = InFlight /\ Readers' = Readers \union {h}
        /\ h \in InFlight /\ h \notin Readers
    BY <1>1, <2>3 DEF InFlight, Readers
  <2>6. /\ \A g \in InFlight : request'[g].ts = request[g].ts
        /\ \A g \in Readers : request'[g] = request[g]
    BY <2>1, <2>3, <2>5 DEF InFlight, Readers
  <2>7. StampsPast'
    BY <1>1, <1>2, <2>1, <2>3, <2>5, <2>6 DEF Inv, StampsPast
  <2>8. StampsUnique'
    BY <1>1, <1>2, <2>1, <2>3, <2>5, <2>6 DEF Inv, StampsUnique
  <2>9. IdsExist' /\ ReadersEdit'
    BY <1>1, <1>2, <2>1, <2>3, <2>5, <2>6 DEF Inv, IdsExist, ReadersEdit
  <2>10. StampsIdentify'
    BY <1>1, <1>2, <2>1, <2>3, <2>5, <2>6 DEF Inv, StampsIdentify
  <2> QED BY <2>4, <2>7, <2>8, <2>9, <2>10 DEF Inv
<1> QED BY <1>1, <1>3, <1>4 DEF Read

(* A write replaces a stamp by one that no reader holds.                   *)
LEMMA CommitInv == \A h \in Handlers : Inv /\ Commit(h) => Inv'
<1> SUFFICES ASSUME NEW h \in Handlers, Inv, Commit(h) PROVE Inv'
  OBVIOUS
<1> DEFINE n == request[h].id
<1>1. /\ at[h] = "read" /\ Finish(h)
      /\ UNCHANGED <<clock, scopeFailures, failures>>
  BY DEF Commit
<1>2. CASE notices' = notices
  BY <1>1, <1>2, FinishInv DEF Inv, TypeOK
<1>3. CASE notices' = [notices EXCEPT ![n] = Written(h, notices[n])]
  <2>1. h \in Readers /\ h \in InFlight /\ n \in Ids /\ notices[n] \in Notices
    BY <1>1, TypeFacts DEF Inv, IdsExist, ReadersEdit, Readers, InFlight
  <2>2. Written(h, notices[n]) \in Notices
    <3>1. [notices[n] EXCEPT !.deleted = TRUE] \in Notices
      BY <2>1 DEF Notices
    <3>2. [expires |-> request[h].expires, deleted |-> FALSE,
           updated_ts |-> request[h].ts, version |-> notices[n].version + 1] \in Notices
      BY <1>1, <2>1, TypeFacts DEF Inv, Notices
    <3> QED BY <3>1, <3>2 DEF Written
  <2>3. \/ /\ Written(h, notices[n]).updated_ts = request[h].ts
        \/ /\ Written(h, notices[n]).updated_ts = notices[n].updated_ts
           /\ Written(h, notices[n]).version = notices[n].version
    BY <2>1 DEF Written, Notices
  <2>4. /\ Ids' = Ids /\ notices' \in Seq(Notices)
        /\ \A m \in Ids : m # n => notices'[m] = notices[m]
        /\ notices'[n] = Written(h, notices[n])
    BY <1>3, <2>1, <2>2, TypeFacts DEF Inv, TypeOK, Ids
  <2>5. /\ at' = [at EXCEPT ![h] = "idle"]
        /\ request' = [request EXCEPT ![h] = NoRequest]
    BY <1>1 DEF Finish
  <2>6. TypeOK'
    BY <1>1, <2>4, <2>5 DEF Inv, TypeOK
  <2>7. \A g \in Handlers : g # h => at'[g] = at[g] /\ request'[g] = request[g]
    BY <2>5 DEF Inv, TypeOK
  <2>8. /\ InFlight' \subseteq InFlight \ {h} /\ Readers' \subseteq Readers \ {h}
        /\ at'[h] = "idle"
    BY <2>5 DEF Inv, TypeOK, InFlight, Readers
  <2>9. /\ \A g \in InFlight' : g \in InFlight /\ g # h /\ request'[g] = request[g]
        /\ \A g \in Readers' : g \in Readers /\ g # h /\ request'[g] = request[g]
    BY <2>7, <2>8 DEF InFlight, Readers
  <2>10. StampsPast'
    BY <1>1, <2>1, <2>3, <2>4, <2>9 DEF Inv, StampsPast
  <2>11. StampsUnique'
    BY <2>1, <2>3, <2>4, <2>9 DEF Inv, StampsUnique
  <2>12. IdsExist' /\ ReadersEdit'
    BY <2>4, <2>7, <2>8, <2>9 DEF Inv, IdsExist, ReadersEdit
  <2>13. StampsIdentify'
    <3>1. \A g \in Readers : request[g].id \in Ids /\ request[h].ts # request[g].seen_ts
      BY <2>1 DEF Inv, IdsExist, ReadersEdit, Readers, StampsUnique
    <3> QED BY <2>3, <2>4, <2>9, <3>1 DEF Inv, StampsIdentify
  <2> QED BY <2>6, <2>10, <2>11, <2>12, <2>13 DEF Inv
<1> QED BY <1>2, <1>3 DEF Commit

(* Every step keeps the invariant.                                         *)
LEMMA NextInv == Inv /\ [Next]_vars => Inv'
<1> SUFFICES ASSUME Inv, [Next]_vars PROVE Inv'
  OBVIOUS
<1>1. CASE UNCHANGED vars
  <2>1. UNCHANGED <<clock, notices, at, request, scopeFailures, failures>>
    BY <1>1 DEF vars
  <2> QED BY <2>1 DEF Inv, TypeOK, StampsPast, StampsUnique, IdsExist, ReadersEdit,
                      StampsIdentify, Ids, InFlight, Readers
<1>2. CASE Tick
  <2>1. /\ clock' = clock + 1 /\ clock < MaxTime /\ clock \in Nat /\ Ids' = Ids
        /\ UNCHANGED <<notices, at, request, scopeFailures, failures>>
    BY <1>2, TypeFacts DEF Tick, Inv, Ids
  <2>2. TypeOK'
    BY <2>1, TypeFacts DEF Inv, TypeOK
  <2>3. InFlight' = InFlight /\ Readers' = Readers
    BY <2>1 DEF InFlight, Readers
  <2>4. StampsPast'
    <3>1. /\ \A h \in InFlight : request[h].ts \in Nat
          /\ \A h \in Readers : request[h].seen_ts \in Nat
          /\ \A n \in Ids : notices[n].updated_ts \in Nat
      BY TypeFacts DEF Inv, InFlight, Readers
    <3> QED BY <2>1, <2>3, <3>1 DEF Inv, StampsPast
  <2>5. StampsUnique' /\ IdsExist' /\ ReadersEdit' /\ StampsIdentify'
    BY <2>1, <2>3 DEF Inv, StampsUnique, IdsExist, ReadersEdit, StampsIdentify
  <2> QED BY <2>2, <2>4, <2>5 DEF Inv
<1>3. ASSUME NEW h \in Handlers, Handle(h) PROVE Inv'
  <2>1. CASE TurnAway(h)
    BY <2>1, FinishInv DEF TurnAway, Inv, TypeOK
  <2>2. CASE Count(h)
    <3>1. CASE Finish(h)
      BY <2>2, <3>1, FinishInv DEF Count, Inv, TypeOK
    <3>2. CASE ~Finish(h)
      BY <2>2, <3>2, MoveInv DEF Count, Inv, TypeOK
    <3> QED BY <3>1, <3>2
  <2>3. CASE Deny(h)
    BY <2>3, MoveInv DEF Deny, Inv, TypeOK
  <2>4. CASE RecordScope(h)
    <3>1. at[h] = "denied" /\ request[h].scope \in Scopes
      BY <2>4, TypeFacts DEF RecordScope, Inv
    <3>2. scopeFailures' \in [Scopes -> Nat]
      BY <2>4, <3>1 DEF RecordScope, Inv, TypeOK
    <3> QED BY <2>4, <3>1, <3>2, MoveInv DEF RecordScope, Inv, TypeOK
  <2>5. CASE RecordGlobal(h)
    BY <2>5, FinishInv DEF RecordGlobal, Inv, TypeOK
  <2>6. CASE Reject(h)
    BY <2>6, FinishInv DEF Reject, Inv, TypeOK
  <2> QED BY <1>3, <2>1, <2>2, <2>3, <2>4, <2>5, <2>6, CheckInv, EnterInv, EnterAddInv,
             InsertInv, ReadInv, CommitInv DEF Handle
<1> QED BY <1>1, <1>2, <1>3 DEF Next

(* The invariant holds of every state the handlers can reach.              *)
THEOREM Invariance == Spec => []Inv
BY InitInv, NextInv, PTL DEF Spec

-------------------------------------------------------------------------------
(* Nobody writes over contents he has not seen: updated_ts is as good as a *)
(* version number, however the handlers interleave.                        *)
THEOREM WritesAreInformed == Spec => NoBlindWrite
<1> DEFINE Informed ==
      \A n \in Ids : notices'[n] # notices[n] =>
        \E h \in Handlers : /\ at[h] = "read" /\ at'[h] = "idle"
                            /\ request[h].id = n
                            /\ request[h].seen = notices[n].version
<1>1. Inv /\ [Next]_vars => [Informed]_vars
  <2> SUFFICES ASSUME Inv, Next PROVE Informed
    OBVIOUS
  <2>1. CASE UNCHANGED notices
    BY <2>1
  <2>2. ASSUME NEW h \in Handlers, Insert(h) PROVE Informed
    <3>1. \A n \in Ids : notices'[n] = notices[n]
      BY <2>2, TypeFacts DEF Insert, Inv, TypeOK, Ids
    <3> QED BY <3>1
  <2>3. ASSUME NEW h \in Handlers, Commit(h) PROVE Informed
    <3> SUFFICES ASSUME NEW n \in Ids, notices'[n] # notices[n]
                 PROVE  /\ at[h] = "read" /\ at'[h] = "idle"
                        /\ request[h].id = n /\ request[h].seen = notices[n].version
      OBVIOUS
    <3>1. at[h] = "read" /\ at'[h] = "idle" /\ h \in Readers
      BY <2>3 DEF Commit, Finish, Inv, TypeOK, Readers
    <3>2. request[h].id = n /\ StillThere(h, notices[n])
      BY <2>3, TypeFacts DEF Commit, Inv, TypeOK, Ids
    <3> QED BY <3>1, <3>2 DEF Inv, StampsIdentify, StillThere
  <2> QED BY <2>1, <2>2, <2>3 DEF Next, Tick, Handle, Check, Enter, TurnAway, EnterAdd,
             Count, Read, Deny, Reject, RecordScope, RecordGlobal
<1> QED BY <1>1, Invariance, PTL DEF Spec, NoBlindWrite

(* A write needs the notice to be active at the time of the write, not at   *)
(* the time of the request.                                                *)
LEMMA GoneStep ==
  ASSUME Inv, Next, NEW n \in Ids, Live(notices'[n], clock')
  PROVE  Live(notices[n], clock)
<1>1. notices[n].expires \in Nat /\ clock \in Nat
  BY TypeFacts DEF Inv
<1>2. CASE notices' = notices /\ clock' \in {clock, clock + 1}
  BY <1>1, <1>2 DEF Live
<1>3. ASSUME NEW h \in Handlers, Insert(h) PROVE Live(notices[n], clock)
  <2>1. notices'[n] = notices[n] /\ clock' = clock
    BY <1>3, TypeFacts DEF Insert, Inv, TypeOK, Ids
  <2> QED BY <2>1
<1>4. ASSUME NEW h \in Handlers, Commit(h) PROVE Live(notices[n], clock)
  <2>1. CASE notices'[n] = notices[n]
    BY <1>4, <2>1 DEF Commit
  <2>2. CASE notices'[n] # notices[n]
    BY <1>4, <2>2, TypeFacts DEF Commit, StillThere, Inv, TypeOK, Ids
  <2> QED BY <2>1, <2>2
<1> QED BY <1>2, <1>3, <1>4 DEF Next, Tick, Handle, Check, Enter, TurnAway, EnterAdd,
           Count, Read, Deny, Reject, RecordScope, RecordGlobal

(* A notice that is gone stays gone (update_announcement and               *)
(* delete_announcement ask for the time again when they write).            *)
THEOREM GoneForGood == Spec => NoResurrection
<1>1. Inv /\ [Next]_vars =>
        [\A n \in Ids : Live(notices'[n], clock') => Live(notices[n], clock)]_vars
  BY GoneStep
<1> QED BY <1>1, Invariance, PTL DEF Spec, NoResurrection

-------------------------------------------------------------------------------
(* The cap.                                                                *)

(* The active notices can be counted.                                      *)
LEMMA ActiveFinite ==
  Inv => \A ts : IsFiniteSet(Active(ts)) /\ Cardinality(Active(ts)) \in Nat
<1> SUFFICES ASSUME Inv, NEW ts
             PROVE  IsFiniteSet(Active(ts)) /\ Cardinality(Active(ts)) \in Nat
  OBVIOUS
<1>1. IsFiniteSet(Ids)
  <2>1. Ids = 1 .. Len(notices) /\ Len(notices) \in Nat
    BY TypeFacts DEF Inv
  <2>2. IsFiniteSet(1 .. Len(notices))
    BY <2>1, FS_Interval
  <2> QED BY <2>1, <2>2
<1>2. Active(ts) \subseteq Ids
  BY DEF Active
<1> QED BY <1>1, <1>2, FS_Subset, FS_CardinalityType

(* An element more adds at most one.                                       *)
LEMMA OneMore ==
  ASSUME NEW S, NEW x, IsFiniteSet(S)
  PROVE  /\ IsFiniteSet(S \union {x}) /\ Cardinality(S) \in Nat
         /\ Cardinality(S \union {x}) \in Nat
         /\ Cardinality(S \union {x}) <= Cardinality(S) + 1
<1>1. /\ IsFiniteSet(S \union {x})
      /\ Cardinality(S \union {x}) = IF x \in S THEN Cardinality(S) ELSE Cardinality(S) + 1
  BY FS_AddElement
<1>2. Cardinality(S) \in Nat
  BY FS_CardinalityType
<1> QED BY <1>1, <1>2

(* Whatever else a step does, only Insert can make the number grow, and it *)
(* has counted the notices that are active now among those of its request. *)
LEMMA CapStep == Inv /\ Inv' /\ CapRespected /\ [Next]_vars => CapRespected'
<1> SUFFICES ASSUME Inv, Inv', CapRespected, [Next]_vars PROVE CapRespected'
  OBVIOUS
<1>1. /\ IsFiniteSet(Active(clock)) /\ Cardinality(Active(clock)) \in Nat
      /\ Cap \in Nat
  BY ActiveFinite, LimitsAssumption
<1>2. CASE Active(clock)' \subseteq Active(clock)
  <2>1. /\ Cardinality(Active(clock)') <= Cardinality(Active(clock))
        /\ Cardinality(Active(clock)') \in Nat
    BY <1>1, <1>2, FS_Subset, FS_CardinalityType
  <2> QED BY <1>1, <2>1 DEF CapRespected
<1>3. ASSUME NEW h \in Handlers, Insert(h), notices' # notices PROVE CapRespected'
  <2> DEFINE ts  == request[h].ts
             new == Len(notices) + 1
  <2>1. /\ h \in InFlight /\ ts \in Nat /\ clock \in Nat /\ ts <= clock /\ clock' = clock
        /\ \A n \in Ids : notices[n].expires \in Nat
    BY <1>3, TypeFacts DEF Insert, InFlight, Inv, StampsPast
  <2>2. Ids' = Ids \union {new}
    BY <1>3, TypeFacts DEF Insert, Inv, TypeOK, Ids
  <2>3. \A n \in Ids : Live(notices'[n], clock') => Live(notices[n], ts)
    <3>1. ASSUME NEW n \in Ids, Live(notices'[n], clock') PROVE Live(notices[n], ts)
      <4>1. Live(notices[n], clock)
        BY <1>3, <3>1, GoneStep DEF Next, Handle
      <4> QED BY <2>1, <4>1 DEF Live
    <3> QED BY <3>1
  <2>4. Active(clock)' \subseteq Active(ts) \union {new}
    BY <2>2, <2>3 DEF Active
  <2>5. /\ IsFiniteSet(Active(ts)) /\ Cardinality(Active(ts)) \in Nat
        /\ Cardinality(Active(ts)) < Cap
    BY <1>3, ActiveFinite DEF Insert, RoomFor
  <2>6. /\ IsFiniteSet(Active(ts) \union {new})
        /\ Cardinality(Active(ts) \union {new}) \in Nat
        /\ Cardinality(Active(ts) \union {new}) <= Cardinality(Active(ts)) + 1
    BY <2>5, OneMore
  <2>7. /\ Cardinality(Active(clock)') \in Nat
        /\ Cardinality(Active(clock)') <= Cardinality(Active(ts) \union {new})
    BY <2>4, <2>6, FS_Subset, FS_CardinalityType
  <2>8. Cardinality(Active(clock)') <= Cap
    BY <1>1, <2>5, <2>6, <2>7
  <2> QED BY <2>8 DEF CapRespected
<1>4. ASSUME Next, Ids' = Ids PROVE Active(clock)' \subseteq Active(clock)
  <2> SUFFICES ASSUME NEW n \in Ids, Live(notices'[n], clock') PROVE Live(notices[n], clock)
    BY <1>4 DEF Active
  <2> QED BY <1>4, GoneStep
<1>5. ASSUME UNCHANGED vars PROVE Active(clock)' = Active(clock)
  BY <1>5 DEF vars, Active, Ids
<1>6. ASSUME Next
      PROVE  \/ Ids' = Ids
             \/ \E h \in Handlers : Insert(h) /\ notices' # notices
  <2>1. ASSUME NEW h \in Handlers, Commit(h) PROVE Ids' = Ids
    BY <2>1 DEF Commit, Ids, Inv, TypeOK
  <2> QED BY <1>6, <2>1 DEF Next, Tick, Handle, Check, Enter, TurnAway, EnterAdd, Ids,
             Count, Read, Deny, Reject, RecordScope, RecordGlobal
<1> QED BY <1>2, <1>3, <1>4, <1>5, <1>6

(* There are never more active notices than MAX_ACTIVE_ANNOUNCEMENTS: the  *)
(* second count of add_announcement is enough, whoever else is at work.    *)
THEOREM CapHolds == Spec => []CapRespected
<1>1. Init => CapRespected
  <2> SUFFICES ASSUME Init PROVE CapRespected
    OBVIOUS
  <2>1. Active(clock) = {}
    BY DEF Init, Active, Ids
  <2> QED BY <2>1, FS_EmptySet, LimitsAssumption DEF CapRespected
<1> QED BY <1>1, CapStep, Invariance, PTL DEF Spec

-------------------------------------------------------------------------------
(* The budget for failed passphrases.                                      *)

(* The handlers whose failure, if it comes to that, is not recorded yet.   *)
Passed == {h \in Handlers : /\ at[h] # "idle"
                            /\ at[h] \in {"denied", "counted"} \/ request[h].kind # "add"}
PassedFrom(s) == {h \in Passed : at[h] # "counted" /\ request[h].scope = s}

(* A failure that is recorded was one of those: the budget was not used up *)
(* when the last of them came in, and they are no more than the handlers.  *)
Budget ==
  /\ failures + Cardinality(Passed) < GlobalLimit + Cardinality(Handlers)
  /\ \A s \in Scopes :
       scopeFailures[s] + Cardinality(PassedFrom(s)) < ScopeLimit + Cardinality(Handlers)

(* Sets of handlers are finite, and their sizes are ordered as they are.   *)
LEMMA Sizes ==
  /\ Cardinality(Handlers) \in Nat
  /\ \A S \in SUBSET Handlers : /\ IsFiniteSet(S) /\ Cardinality(S) \in Nat
                                /\ Cardinality(S) <= Cardinality(Handlers)
  /\ \A S \in SUBSET Handlers : \A T \in SUBSET S : Cardinality(T) <= Cardinality(S)
  /\ \A S \in SUBSET Handlers : \A h \in S : Cardinality(S \ {h}) = Cardinality(S) - 1
BY HandlersAssumption, FS_Subset, FS_CardinalityType, FS_RemoveElement

(* Steps other than Check let nobody in, and keep the scopes they have.    *)
LEMMA PassedShrinks ==
  ASSUME Inv, Next, \A h \in Handlers : ~Check(h)
  PROVE  /\ Passed' \subseteq Passed
         /\ \A s \in Scopes : PassedFrom(s)' \subseteq PassedFrom(s)
<1>1. CASE UNCHANGED <<at, request>>
  BY <1>1 DEF Passed, PassedFrom
<1>2. ASSUME NEW h \in Handlers, Handle(h)
      PROVE  /\ \A g \in Handlers : g # h => at'[g] = at[g] /\ request'[g] = request[g]
             /\ h \in Passed' => /\ h \in Passed /\ request'[h].scope = request[h].scope
                                 /\ at'[h] # "counted" => at[h] # "counted"
  <2>1. request \in [Handlers -> Requests \union {NoRequest}]
        /\ at \in [Handlers -> {"idle", "checked", "admitted", "hashed", "read", "denied", "counted"}]
    BY DEF Inv, TypeOK
  <2>2. CASE at' = [at EXCEPT ![h] = "idle"] /\ request' = [request EXCEPT ![h] = NoRequest]
    BY <2>1, <2>2 DEF Passed
  <2>3. CASE Enter(h)
    <3>1. PICK expires : request' = [request EXCEPT ![h].ts = clock', ![h].expires = expires]
      BY <2>3 DEF Enter
    <3>2. at[h] = "checked" /\ request[h] \in Requests /\ at' = [at EXCEPT ![h] = "admitted"]
      BY <2>3, TypeFacts DEF Enter, Inv
    <3>3. request'[h].kind = request[h].kind /\ request'[h].scope = request[h].scope
      BY <2>1, <3>1, <3>2 DEF Requests
    <3> QED BY <2>1, <3>1, <3>2, <3>3 DEF Passed
  <2>4. CASE EnterAdd(h)
    <3>1. PICK s \in Scopes, expires \in Expiries(clock') :
            request' = [request EXCEPT ![h] =
              [kind |-> "add", scope |-> s, id |-> 0, ts |-> clock', expires |-> expires,
               seen_ts |-> 0, seen |-> 0]]
      BY <2>4 DEF EnterAdd
    <3>2. at' = [at EXCEPT ![h] = "admitted"]
      BY <2>4 DEF EnterAdd
    <3>3. h \notin Passed'
      BY <2>1, <3>1, <3>2 DEF Passed
    <3> QED BY <2>1, <3>1, <3>2, <3>3
  <2>5. CASE Count(h) /\ ~Finish(h)
    BY <2>1, <2>5 DEF Count, Passed
  <2>6. CASE Read(h) /\ ~Finish(h)
    <3>1. /\ at[h] = "admitted" /\ request[h].kind # "add" /\ request[h] \in Requests
          /\ at' = [at EXCEPT ![h] = "read"]
          /\ request' = [request EXCEPT ![h].seen_ts = notices[request[h].id].updated_ts,
                                        ![h].seen = notices[request[h].id].version]
      BY <2>6, TypeFacts DEF Read, Inv
    <3>2. request'[h].kind = request[h].kind /\ request'[h].scope = request[h].scope
      BY <2>1, <3>1 DEF Requests
    <3> QED BY <2>1, <3>1, <3>2 DEF Passed
  <2>7. CASE Deny(h)
    BY <2>1, <2>7 DEF Deny, Passed, Inv, ReadersEdit, Readers
  <2>8. CASE RecordScope(h)
    BY <2>1, <2>8 DEF RecordScope, Passed
  <2> QED BY <1>2, <2>2, <2>3, <2>4, <2>5, <2>6, <2>7, <2>8
          DEF Handle, TurnAway, Count, Insert, Read, Commit, Reject, RecordGlobal, Finish
<1> QED BY <1>1, <1>2 DEF Next, Tick, Passed, PassedFrom

(* Check is the only way in, and what is recorded leaves.                  *)
LEMMA BudgetStep == Inv /\ Budget /\ [Next]_vars => Budget'
<1> SUFFICES ASSUME Inv, Budget, [Next]_vars PROVE Budget'
  OBVIOUS
<1>1. /\ failures \in Nat /\ scopeFailures \in [Scopes -> Nat]
      /\ GlobalLimit \in Nat /\ ScopeLimit \in Nat
      /\ Passed \in SUBSET Handlers /\ Passed' \in SUBSET Handlers
      /\ \A s \in Scopes : /\ PassedFrom(s) \in SUBSET Handlers
                           /\ PassedFrom(s)' \in SUBSET Handlers
  BY LimitsAssumption DEF Inv, TypeOK, Passed, PassedFrom
<1>2. CASE UNCHANGED vars
  BY <1>2 DEF vars, Budget, Passed, PassedFrom
<1>3. ASSUME NEW h \in Handlers, Check(h) PROVE Budget'
  <2>1. PICK s \in Scopes :
          /\ BudgetAllows(s)
          /\ request'[h].scope = s /\ at'[h] = "checked" /\ at[h] = "idle"
          /\ \A g \in Handlers : g # h => at'[g] = at[g] /\ request'[g] = request[g]
          /\ UNCHANGED <<scopeFailures, failures>>
    BY <1>3 DEF Check, Inv, TypeOK
  <2>2. failures < GlobalLimit /\ scopeFailures[s] < ScopeLimit
    BY <2>1 DEF BudgetAllows
  <2>3. failures' + Cardinality(Passed') < GlobalLimit + Cardinality(Handlers)
    BY <1>1, <2>1, <2>2, Sizes
  <2>4. scopeFailures'[s] + Cardinality(PassedFrom(s)') < ScopeLimit + Cardinality(Handlers)
    BY <1>1, <2>1, <2>2, Sizes
  <2>5. ASSUME NEW z \in Scopes, z # s
        PROVE scopeFailures'[z] + Cardinality(PassedFrom(z)') < ScopeLimit + Cardinality(Handlers)
    <3>1. PassedFrom(z)' = PassedFrom(z)
      BY <2>1, <2>5 DEF PassedFrom, Passed
    <3> QED BY <2>1, <3>1 DEF Budget
  <2> QED BY <2>3, <2>4, <2>5 DEF Budget
<1>4. ASSUME Next, \A h \in Handlers : ~Check(h), UNCHANGED <<failures, scopeFailures>>
      PROVE  Budget'
  <2>1. /\ Cardinality(Passed') <= Cardinality(Passed)
        /\ \A s \in Scopes : Cardinality(PassedFrom(s)') <= Cardinality(PassedFrom(s))
    BY <1>1, <1>4, PassedShrinks, Sizes
  <2> QED BY <1>1, <1>4, <2>1, Sizes DEF Budget
<1>5. ASSUME NEW h \in Handlers, RecordScope(h) PROVE Budget'
  <2>1. PICK s \in Scopes :
        /\ s = request[h].scope /\ at[h] = "denied" /\ at'[h] = "counted"
        /\ scopeFailures' = [scopeFailures EXCEPT ![s] = scopeFailures[s] + 1]
        /\ UNCHANGED <<request, failures>>
        /\ \A g \in Handlers : g # h => at'[g] = at[g]
    BY <1>5, TypeFacts DEF RecordScope, Inv, TypeOK
  <2>2. Passed' = Passed /\ h \in PassedFrom(s)
    BY <2>1 DEF Passed, PassedFrom
  <2>3. PassedFrom(s)' = PassedFrom(s) \ {h}
    BY <1>1, <2>1, <2>2 DEF PassedFrom
  <2>4. Cardinality(PassedFrom(s)') = Cardinality(PassedFrom(s)) - 1
    BY <1>1, <2>1, <2>2, <2>3, Sizes
  <2>5. ASSUME NEW z \in Scopes, z # s
        PROVE  PassedFrom(z)' = PassedFrom(z) /\ scopeFailures'[z] = scopeFailures[z]
    BY <1>1, <2>1, <2>2, <2>5 DEF PassedFrom
  <2>6. scopeFailures'[s] = scopeFailures[s] + 1
    BY <1>1, <2>1
  <2>7. Cardinality(PassedFrom(s)) \in Nat /\ Cardinality(Handlers) \in Nat
    BY <1>1, <2>1, Sizes
  <2>8. scopeFailures'[s] + Cardinality(PassedFrom(s)') < ScopeLimit + Cardinality(Handlers)
    BY <1>1, <2>1, <2>4, <2>6, <2>7 DEF Budget
  <2>9. \A z \in Scopes :
          scopeFailures'[z] + Cardinality(PassedFrom(z)') < ScopeLimit + Cardinality(Handlers)
    BY <2>1, <2>5, <2>8 DEF Budget
  <2>10. failures' + Cardinality(Passed') < GlobalLimit + Cardinality(Handlers)
    BY <2>1, <2>2 DEF Budget
  <2> QED BY <2>9, <2>10 DEF Budget
<1>6. ASSUME NEW h \in Handlers, RecordGlobal(h) PROVE Budget'
  <2>1. /\ at[h] = "counted" /\ at'[h] = "idle"
        /\ failures' = failures + 1 /\ UNCHANGED scopeFailures
        /\ \A g \in Handlers : g # h => at'[g] = at[g] /\ request'[g] = request[g]
    BY <1>6 DEF RecordGlobal, Finish, Inv, TypeOK
  <2>2. h \in Passed /\ Passed' = Passed \ {h}
    BY <2>1 DEF Passed
  <2>3. Cardinality(Passed') = Cardinality(Passed) - 1
    BY <1>1, <2>2, Sizes
  <2>4. \A s \in Scopes : PassedFrom(s)' = PassedFrom(s)
    BY <1>1, <2>1, <2>2 DEF PassedFrom
  <2> QED BY <1>1, <2>1, <2>3, <2>4, Sizes DEF Budget
<1>7. ASSUME Next
      PROVE  \/ \E h \in Handlers : Check(h) \/ RecordScope(h) \/ RecordGlobal(h)
             \/ UNCHANGED <<failures, scopeFailures>>
  BY <1>7 DEF Next, Tick, Handle, Enter, TurnAway, EnterAdd, Count, Insert, Read, Deny,
              Reject, Commit
<1> QED BY <1>2, <1>3, <1>4, <1>5, <1>6, <1>7

(* Failed passphrases stay within AUTH_FAILURE_GLOBAL_LIMIT and, for every *)
(* network, AUTH_FAILURE_SUBNET_LIMIT, but for the handlers that were past *)
(* auth_failure_budget_allowed together when the last one was recorded.    *)
THEOREM BudgetHolds == Spec => []FailuresBounded
<1>1. Init => Budget
  <2> SUFFICES ASSUME Init PROVE Budget
    OBVIOUS
  <2>1. Passed = {} /\ \A s \in Scopes : PassedFrom(s) = {}
    BY DEF Init, Passed, PassedFrom
  <2> QED BY <2>1, FS_EmptySet, Sizes, LimitsAssumption DEF Init, Budget
<1>2. Inv /\ Budget => FailuresBounded
  <2>1. /\ Passed \in SUBSET Handlers
        /\ \A s \in Scopes : PassedFrom(s) \in SUBSET Handlers
    BY DEF Passed, PassedFrom
  <2> QED BY <2>1, Sizes, LimitsAssumption DEF Inv, TypeOK, Budget, FailuresBounded
<1> QED BY <1>1, <1>2, BudgetStep, Invariance, PTL DEF Spec

(* The handlers, their requests and the table keep their types.            *)
THEOREM TypeCorrectness == Spec => []TypeOK
<1>1. Inv => TypeOK
  BY DEF Inv
<1> QED BY <1>1, Invariance, PTL

===============================================================================
