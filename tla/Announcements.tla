----------------------------- MODULE Announcements -----------------------------
(***************************************************************************)
(* Notices of the dashboard and the request handlers that write them.      *)
(* Every handler is a thread.  A request to add, change or remove a notice *)
(* takes its timestamp first, looks at the table under Store.lock, spends  *)
(* a long time on PBKDF2 without the lock and then writes under the lock   *)
(* again; the failure budget and the attempt semaphore of do_POST and      *)
(* do_DELETE stand in front of it.                                         *)
(*                                                                         *)
(* Two requests never read the same time: every begin advances the clock.  *)
(***************************************************************************)
EXTENDS Integers, Sequences, FiniteSets

CONSTANTS
  Handlers,       (* request handler threads                               *)
  Scopes,         (* client networks                                       *)
  Cap,            (* MAX_ACTIVE_ANNOUNCEMENTS, 20                          *)
  Slots,          (* AUTH_ATTEMPT_SEMAPHORE, 2                             *)
  ScopeLimit,     (* AUTH_FAILURE_SUBNET_LIMIT, 10                         *)
  GlobalLimit,    (* AUTH_FAILURE_GLOBAL_LIMIT, 20                         *)
  Lifetimes,      (* how long after the request a notice may expire        *)
  MaxTime         (* bound: the clock stops here                           *)

NoExpiry == -1                                                   \* a mutant
Forever  == MaxTime + 1        (* a permanent notice outlives the clock     *)

ASSUME LimitsAssumption == /\ Cap \in Nat /\ Slots \in Nat
                           /\ ScopeLimit \in Nat \ {0} /\ GlobalLimit \in Nat \ {0}
ASSUME TimesAssumption  == Lifetimes \subseteq Nat \ {0} /\ MaxTime \in Nat
ASSUME HandlersAssumption == IsFiniteSet(Handlers)

VARIABLES
  clock,          (* now_ts()                                              *)
  notices,        (* the announcements table, by id                        *)
  at,             (* where each handler is                                 *)
  request,        (* what it works on                                      *)
  scopeFailures,  (* hits of auth-failure:subnet:* within the hour         *)
  failures        (* hits of auth-failure:global within the hour           *)

vars == <<clock, notices, at, request, scopeFailures, failures>>

Kinds == {"add", "update", "delete"}
Ids   == DOMAIN notices

(* version counts the contents a notice has had; it is not in the table.   *)
Notices  == [expires : Nat, deleted : BOOLEAN, updated_ts : Nat, version : Nat]
Requests == [kind : Kinds, scope : Scopes, id : Nat, ts : Nat, expires : Nat,
             seen_ts : Nat, seen : Nat]

NoRequest == <<>>

TypeOK ==
  /\ clock \in 0 .. MaxTime
  /\ notices \in Seq(Notices)
  /\ at \in [Handlers -> {"idle", "checked", "admitted", "hashed", "read", "denied", "counted"}]
  /\ request \in [Handlers -> Requests \union {NoRequest}]
  /\ \A h \in Handlers : at[h] # "idle" => request[h] \in Requests
  /\ scopeFailures \in [Scopes -> Nat]
  /\ failures \in Nat

Init ==
  /\ clock = 0
  /\ notices = <<>>
  /\ at = [h \in Handlers |-> "idle"]
  /\ request = [h \in Handlers |-> NoRequest]
  /\ scopeFailures = [s \in Scopes |-> 0]
  /\ failures = 0

-------------------------------------------------------------------------------
(* deleted_ts is null and (permanent=1 or expires_ts>?)                    *)
Live(notice, ts) == ~notice.deleted /\ (notice.expires = Forever \/ notice.expires > ts)
Active(ts) == {n \in Ids : Live(notices[n], ts)}

(* AUTH_ATTEMPT_SEMAPHORE is held from the acquire to the finally.         *)
Holding == {h \in Handlers : at[h] \in {"admitted", "hashed", "read"}}

Finish(h) ==
  /\ at' = [at EXCEPT ![h] = "idle"]
  /\ request' = [request EXCEPT ![h] = NoRequest]

(* _validated_announcement_content: an expiry after the request, or none.  *)
Expiries(ts) == {ts + d : d \in {l \in Lifetimes : ts + l < Forever}} \union {Forever}

-------------------------------------------------------------------------------
(* Getting in.                                                             *)

BudgetIgnored(s) == TRUE                                         \* a mutant
BudgetAllows(s) == scopeFailures[s] < ScopeLimit /\ failures < GlobalLimit

(* auth_failure_budget_allowed, for a request to change or remove.         *)
Check(h) ==
  /\ at[h] = "idle"
  /\ \E kind \in {"update", "delete"}, s \in Scopes, n \in Ids :
       /\ BudgetAllows(s)
       /\ request' = [request EXCEPT ![h] =
            [kind |-> kind, scope |-> s, id |-> n, ts |-> 0, expires |-> Forever,
             seen_ts |-> 0, seen |-> 0]]
  /\ at' = [at EXCEPT ![h] = "checked"]
  /\ UNCHANGED <<clock, notices, scopeFailures, failures>>

(* acquire_auth_attempt does not wait, and then the timestamp is taken.    *)
Enter(h) ==
  /\ at[h] = "checked"
  /\ clock < MaxTime
  /\ Cardinality(Holding) < Slots
  /\ clock' = clock + 1
  /\ at' = [at EXCEPT ![h] = "admitted"]
  /\ \E expires \in IF request[h].kind = "update" THEN Expiries(clock') ELSE {Forever} :
       request' = [request EXCEPT ![h].ts = clock', ![h].expires = expires]
  /\ UNCHANGED <<notices, scopeFailures, failures>>

TurnAway(h) ==
  /\ at[h] = "checked"
  /\ Cardinality(Holding) >= Slots
  /\ Finish(h)
  /\ UNCHANGED <<clock, notices, scopeFailures, failures>>

(* A request to add a notice needs no passphrase to be right.              *)
EnterAdd(h) ==
  /\ at[h] = "idle"
  /\ clock < MaxTime
  /\ Cardinality(Holding) < Slots
  /\ clock' = clock + 1
  /\ at' = [at EXCEPT ![h] = "admitted"]
  /\ \E s \in Scopes, expires \in Expiries(clock') :
       request' = [request EXCEPT ![h] =
         [kind |-> "add", scope |-> s, id |-> 0, ts |-> clock', expires |-> expires,
          seen_ts |-> 0, seen |-> 0]]
  /\ UNCHANGED <<notices, scopeFailures, failures>>

-------------------------------------------------------------------------------
(* add_announcement.                                                       *)

(* The first count, before the passphrase is hashed.                       *)
Count(h) ==
  /\ at[h] = "admitted" /\ request[h].kind = "add"
  /\ IF Cardinality(Active(request[h].ts)) >= Cap
     THEN Finish(h)
     ELSE at' = [at EXCEPT ![h] = "hashed"] /\ UNCHANGED request
  /\ UNCHANGED <<clock, notices, scopeFailures, failures>>

(* The second count, in the transaction that inserts.  Mutant: none.       *)
NotRecounted(ts) == TRUE
RoomFor(ts) == Cardinality(Active(ts)) < Cap

Insert(h) ==
  /\ at[h] = "hashed"
  /\ notices' = IF RoomFor(request[h].ts)
                THEN Append(notices, [expires |-> request[h].expires, deleted |-> FALSE,
                                      updated_ts |-> request[h].ts, version |-> 1])
                ELSE notices
  /\ Finish(h)
  /\ UNCHANGED <<clock, scopeFailures, failures>>

-------------------------------------------------------------------------------
(* update_announcement and delete_announcement.                            *)

(* The row whose pin_hash and updated_ts the request goes by.              *)
Read(h) ==
  /\ at[h] = "admitted" /\ request[h].kind # "add"
  /\ LET n == request[h].id IN
     IF Live(notices[n], request[h].ts)
     THEN /\ at' = [at EXCEPT ![h] = "read"]
          /\ request' = [request EXCEPT ![h].seen_ts = notices[n].updated_ts,
                                        ![h].seen = notices[n].version]
     ELSE Finish(h)
  /\ UNCHANGED <<clock, notices, scopeFailures, failures>>

(* verify_pin says no, or an update carries a malformed passphrase.        *)
Deny(h) ==
  /\ \/ at[h] = "read"
     \/ at[h] = "admitted" /\ request[h].kind = "update"
  /\ at' = [at EXCEPT ![h] = "denied"]
  /\ UNCHANGED <<clock, notices, request, scopeFailures, failures>>

(* The body is malformed, or the database raises: 400 or 500, no failure   *)
(* is recorded and the semaphore is released all the same.                 *)
Reject(h) ==
  /\ h \in Holding
  /\ Finish(h)
  /\ UNCHANGED <<clock, notices, scopeFailures, failures>>

(* The where clause of the write, with the time of the write.  Mutants:    *)
(* the time of the request, and no updated_ts.                             *)
StillThereAtRequest(h, row) == Live(row, request[h].ts) /\ row.updated_ts = request[h].seen_ts
StillThereChanged(h, row)   == Live(row, clock)
StillThere(h, row)          == Live(row, clock) /\ row.updated_ts = request[h].seen_ts

Written(h, row) ==
  IF request[h].kind = "delete"
  THEN [row EXCEPT !.deleted = TRUE]
  ELSE [expires |-> request[h].expires, deleted |-> FALSE,
        updated_ts |-> request[h].ts, version |-> row.version + 1]

Commit(h) ==
  /\ at[h] = "read"
  /\ LET n == request[h].id IN
     notices' = IF StillThere(h, notices[n])
                THEN [notices EXCEPT ![n] = Written(h, @)]
                ELSE notices
  /\ Finish(h)
  /\ UNCHANGED <<clock, scopeFailures, failures>>

(* record_auth_failure, one key at a time.                                 *)
RecordScope(h) ==
  /\ at[h] = "denied"
  /\ scopeFailures' = [scopeFailures EXCEPT ![request[h].scope] = @ + 1]
  /\ at' = [at EXCEPT ![h] = "counted"]
  /\ UNCHANGED <<clock, notices, request, failures>>

RecordGlobal(h) ==
  /\ at[h] = "counted"
  /\ failures' = failures + 1
  /\ Finish(h)
  /\ UNCHANGED <<clock, notices, scopeFailures>>

-------------------------------------------------------------------------------

Tick ==
  /\ clock < MaxTime
  /\ clock' = clock + 1
  /\ UNCHANGED <<notices, at, request, scopeFailures, failures>>

Handle(h) ==
  \/ Check(h) \/ Enter(h) \/ TurnAway(h) \/ EnterAdd(h)
  \/ Count(h) \/ Insert(h)
  \/ Read(h) \/ Deny(h) \/ Commit(h) \/ Reject(h)
  \/ RecordScope(h) \/ RecordGlobal(h)

Next == Tick \/ \E h \in Handlers : Handle(h)

Spec == Init /\ [][Next]_vars

-------------------------------------------------------------------------------
(* Safety.                                                                 *)

(* There are never more active notices than the list shows, however many   *)
(* requests hash their passphrases at the same time; so no notice is       *)
(* displaced from the page by newer ones.                                  *)
CapRespected == Cardinality(Active(clock)) <= Cap

(* A notice that has expired or was removed does not come back, although a *)
(* request that began while it was active may end later.                   *)
NoResurrection ==
  [][\A n \in Ids : Live(notices'[n], clock') => Live(notices[n], clock)]_vars

(* Nobody overwrites or removes what he has not seen: the contents that a  *)
(* write replaces are those its request was checked against.               *)
NoBlindWrite ==
  [][\A n \in Ids : notices'[n] # notices[n] =>
       \E h \in Handlers : /\ at[h] = "read" /\ at'[h] = "idle"
                           /\ request[h].id = n
                           /\ request[h].seen = notices[n].version]_vars

(* Failed passphrases stay within the budget, up to the requests that were *)
(* let in together.                                                        *)
FailuresBounded ==
  /\ failures < GlobalLimit + Cardinality(Handlers)
  /\ \A s \in Scopes : scopeFailures[s] < ScopeLimit + Cardinality(Handlers)

===============================================================================
