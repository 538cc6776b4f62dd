---------------------------- MODULE DeliveryStore ----------------------------
(***************************************************************************)
(* The outbound half of the SQLite store (internal/store/deliveries.go and *)
(* the recovery step of internal/store/store.go): the tables deliveries,   *)
(* delivery_idempotency, delivery_aliases and provider_cooldowns, and the  *)
(* operations on them.  Every operation that writes runs in one immediate  *)
(* SQLite transaction and is one action here; a failed transaction is      *)
(* rolled back and leaves the tables alone.                                *)
(*                                                                         *)
(* Data.  A request is [d, i, c]: its delivery ID, its idempotency ID and  *)
(* everything else (route and text).  Delivery and idempotency IDs share   *)
(* one namespace, as delivery_aliases does.  SHA-256 of the JSON of a      *)
(* request is the request itself: two digests are equal iff the hashed     *)
(* requests are.                                                           *)
(*                                                                         *)
(* Time.  The code stores absolute milliseconds and only ever compares     *)
(* them with the present.  A row holds the differences instead: age, the   *)
(* time since updated_at_ms (counted while the row is sending, the only    *)
(* state in which it is read, and up to Lease), and wait, the time left    *)
(* until retry_not_before_ms (0: none, or passed).  So does cooldown.      *)
(***************************************************************************)
EXTENDS Naturals

CONSTANTS
  IDs,            \* delivery IDs and idempotency IDs
  Contents,       \* what a delivery says and where it goes
  None,           \* no row, no alias, nobody
  Lease,          \* deliverySendingLease
  MaxRetryAfter   \* bound: the longest retry_after Telegram asks for

ASSUME NoneAssumption  == None \notin IDs
ASSUME LeaseAssumption == Lease \in Nat \ {0}
ASSUME RetryAssumption == MaxRetryAfter \in Nat

VARIABLES
  deliveries,   \* table deliveries; a row that is not there is "absent"
  idempotency,  \* table delivery_idempotency; version 1: no row
  aliases,      \* table delivery_aliases; None: no row
  cooldown      \* table provider_cooldowns, the time left; 0: none

storeVars == <<deliveries, idempotency, aliases, cooldown>>

Request  == [d : IDs, i : IDs, c : Contents]
Outcomes == {"retryable", "delivered", "permanent", "unknown"}
States   == {"absent", "sending"} \cup Outcomes
Final    == {"delivered", "permanent", "unknown"}
\* safe_message, by where it comes from
Messages == {"", "ambiguous", "cooldown", "interrupted", "provider", "routing"}

Rows == [state : States, legacy : Request \cup {None}, msg : Nat,
         message : Messages, wait : 0..MaxRetryAfter, age : 0..Lease]

NoRow == [state |-> "absent", legacy |-> None, msg |-> 0, message |-> "",
          wait |-> 0, age |-> 0]

IdempotencyRows == [version : {1, 2}, i : IDs \cup {None},
                    digest : Request \cup {None}]

NoIdempotency == [version |-> 1, i |-> None, digest |-> None]

\* What a SELECT on one identity returns; state "absent" is ErrNotFound.
Records == [d : IDs \cup {None}, i : IDs \cup {None}, version : {1, 2},
            digest : Request \cup {None}, legacy : Request \cup {None},
            state : States]

NotFound == [d |-> None, i |-> None, version |-> 1, digest |-> None,
             legacy |-> None, state |-> "absent"]

StoreTypeOK ==
  /\ deliveries \in [IDs -> Rows]
  /\ idempotency \in [IDs -> IdempotencyRows]
  /\ aliases \in [IDs -> IDs \cup {None}]
  /\ cooldown \in 0..MaxRetryAfter

-----------------------------------------------------------------------------
(* Digests and reads.                                                      *)

\* The logical digest hashes the request with its delivery ID replaced by
\* its idempotency ID; the legacy digest hashes the request as it is.
Logical(r) == [r EXCEPT !.d = r.i]

Exists(d) == deliveries[d].state # "absent"

\* The joined row, with the COALESCE defaults of a version 1 record.
getDelivery(d) ==
  LET idem == idempotency[d]
      v1   == idem.version = 1
  IN  [d |-> d,
       i |-> IF v1 THEN d ELSE idem.i,
       version |-> idem.version,
       digest |-> IF v1 THEN deliveries[d].legacy ELSE idem.digest,
       legacy |-> deliveries[d].legacy,
       state |-> deliveries[d].state]

getDeliveryByAlias(x) ==
  IF aliases[x] = None THEN NotFound ELSE getDelivery(aliases[x])

\* The n-th SELECT of resolveDelivery.
Read(r, n) == CASE n = 1 -> getDeliveryByAlias(r.d)
                [] n = 2 -> getDelivery(r.d)
                [] n = 3 -> getDeliveryByAlias(r.i)
                [] n = 4 -> getDelivery(r.i)

\* resolveDelivery and getDeliveryByIdentity over the four records read, in
\* that order: two different records are a conflict, else the first found.
Disagree(s) ==
  \E m, n \in 1..4 : /\ s[m].state # "absent"
                     /\ s[n].state # "absent"
                     /\ s[m].d # s[n].d

FirstFound(s) ==
  IF s[1].state # "absent" THEN s[1]
  ELSE IF s[2].state # "absent" THEN s[2]
  ELSE IF s[3].state # "absent" THEN s[3]
  ELSE s[4]

\* The version 1 and version 2 digest checks.
Matches(record, r) ==
  IF record.version = 1
  THEN \/ record.d = r.d /\ record.legacy = r
       \/ record.d = r.i /\ record.legacy = Logical(r)
  ELSE record.i = r.i /\ record.digest = Logical(r)

\* The check of InspectDeliveryWithIdempotency over the records it read.
InspectConflict(s, r) ==
  \/ Disagree(s)
  \/ FirstFound(s).state # "absent" /\ ~Matches(FirstFound(s), r)

-----------------------------------------------------------------------------
(* BeginDeliveryWithIdempotency: createOrBeginDelivery that claims.        *)

Resolved(r) == [n \in 1..4 |-> Read(r, n)]

\* The primary ID of the record the request resolves to, or will create.
Canonical(r) ==
  IF FirstFound(Resolved(r)).state # "absent"
  THEN FirstFound(Resolved(r)).d ELSE r.d

\* ensureDeliveryAlias refuses to point x at d.
AliasTaken(x, d) ==
  \/ Exists(x) /\ x # d
  \/ aliases[x] # None /\ aliases[x] # d

BeginConflict(r) ==
  \/ InspectConflict(Resolved(r), r)
  \/ AliasTaken(r.d, Canonical(r))
  \/ AliasTaken(r.i, Canonical(r))

\* Fault: only the record's own retry time counts.
PermittedByRecord(row) == row.wait = 0

\* Neither the record nor the bot is cooling down.
Permitted(row) == row.wait = 0 /\ cooldown = 0

ShouldSend(r) ==
  LET row == deliveries[Canonical(r)]
  IN  row.state \in {"absent", "retryable"} /\ Permitted(row)

\* Fault: an unaccounted claim is reported as a definitive refusal.
InterruptedAsRefused(row) ==
  [row EXCEPT !.state = "permanent", !.msg = 0, !.message = "provider",
              !.wait = 0, !.age = 0]

\* Fault: an unaccounted claim may be claimed again.
InterruptedAsRetryable(row) ==
  [row EXCEPT !.state = "retryable", !.msg = 0, !.message = "interrupted",
              !.wait = 0, !.age = 0]

\* A sending claim nobody can account for.
Interrupted(row) ==
  [row EXCEPT !.state = "unknown", !.msg = 0, !.message = "interrupted",
              !.wait = 0, !.age = 0]

Claimed(row) ==
  [row EXCEPT !.state = "sending", !.msg = 0, !.message = "", !.wait = 0,
              !.age = 0]

Created(r) ==
  IF cooldown > 0
  THEN [NoRow EXCEPT !.state = "retryable", !.legacy = r,
                     !.message = "cooldown", !.wait = cooldown]
  ELSE [NoRow EXCEPT !.state = "sending", !.legacy = r]

\* Fault: an unknown outcome is claimed again.
BeginRowUnknown(row, r) ==
  IF row.state = "absent" THEN Created(r)
  ELSE IF row.state = "sending" /\ row.age >= Lease THEN Interrupted(row)
  ELSE IF row.state \in {"retryable", "unknown"} /\ Permitted(row)
       THEN Claimed(row)
  ELSE row

\* Fault: a sending claim has no lease.
BeginRowNoLease(row, r) ==
  IF row.state = "absent" THEN Created(r)
  ELSE IF row.state = "retryable" /\ Permitted(row) THEN Claimed(row)
  ELSE row

BeginRow(row, r) ==
  IF row.state = "absent" THEN Created(r)
  ELSE IF row.state = "sending" /\ row.age >= Lease THEN Interrupted(row)
  ELSE IF row.state = "retryable" /\ Permitted(row) THEN Claimed(row)
  ELSE row

\* Fault: the idempotency ID is not aliased.
BeginDeliveryNoAlias(r) ==
  LET d == Canonical(r)
  IN  /\ deliveries' = [deliveries EXCEPT ![d] = BeginRow(@, r)]
      /\ idempotency' = [idempotency EXCEPT
                           ![d] = [version |-> 2, i |-> r.i,
                                   digest |-> Logical(r)]]
      /\ aliases' = [aliases EXCEPT ![r.d] = d]
      /\ cooldown' = cooldown

\* Fault: aliases point at the request's delivery ID.
BeginDeliveryOwnAlias(r) ==
  LET d == Canonical(r)
  IN  /\ deliveries' = [deliveries EXCEPT ![d] = BeginRow(@, r)]
      /\ idempotency' = [idempotency EXCEPT
                           ![d] = [version |-> 2, i |-> r.i,
                                   digest |-> Logical(r)]]
      /\ aliases' = [aliases EXCEPT ![r.d] = r.d, ![r.i] = d]
      /\ cooldown' = cooldown

\* Commits; the caller has checked ~BeginConflict(r).
BeginDelivery(r) ==
  LET d == Canonical(r)
  IN  /\ deliveries' = [deliveries EXCEPT ![d] = BeginRow(@, r)]
      /\ idempotency' = [idempotency EXCEPT
                           ![d] = [version |-> 2, i |-> r.i,
                                   digest |-> Logical(r)]]
      /\ aliases' = [aliases EXCEPT ![r.d] = d, ![r.i] = d]
      /\ cooldown' = cooldown

-----------------------------------------------------------------------------
(* updateDelivery and the start of the process.                            *)

\* A result to record: [state, msg, message, wait].
Results == [state : Outcomes, msg : Nat, message : Messages,
            wait : 0..MaxRetryAfter]

SameResult(row, result) ==
  /\ row.state = result.state
  /\ row.msg = result.msg
  /\ row.message = result.message
  /\ row.wait = result.wait

\* ErrNotFound, ErrDigestConflict or ErrInvalidTransition.
UpdateRefused(d, digest, result) ==
  \/ ~Exists(d)
  \/ getDelivery(d).digest # digest
  \/ deliveries[d].state # "sending" /\ ~SameResult(deliveries[d], result)

MaxOf(m, n) == IF m < n THEN n ELSE m

\* Fault: the bot-wide cooldown is not extended.
updateDeliveryOnly(d, result) ==
  /\ deliveries' = [deliveries EXCEPT
                      ![d] = [@ EXCEPT !.state = result.state,
                                       !.msg = result.msg,
                                       !.message = result.message,
                                       !.wait = result.wait,
                                       !.age = 0]]
  /\ UNCHANGED <<idempotency, aliases, cooldown>>

\* Commits; the caller has checked ~UpdateRefused(d, digest, result).
updateDelivery(d, result) ==
  /\ deliveries' = [deliveries EXCEPT
                      ![d] = [@ EXCEPT !.state = result.state,
                                       !.msg = result.msg,
                                       !.message = result.message,
                                       !.wait = result.wait,
                                       !.age = 0]]
  /\ cooldown' = MaxOf(cooldown, result.wait)
  /\ UNCHANGED <<idempotency, aliases>>

\* Fault: an interrupted claim is handed back for another try.
recoverForRetry ==
  /\ deliveries' = [d \in IDs |-> IF deliveries[d].state = "sending"
                                  THEN InterruptedAsRetryable(deliveries[d])
                                  ELSE deliveries[d]]
  /\ UNCHANGED <<idempotency, aliases, cooldown>>

recoverInterruptedDeliveries ==
  /\ deliveries' = [d \in IDs |-> IF deliveries[d].state = "sending"
                                  THEN Interrupted(deliveries[d])
                                  ELSE deliveries[d]]
  /\ UNCHANGED <<idempotency, aliases, cooldown>>

\* One unit of time passes.
Older(row) ==
  [row EXCEPT !.age = IF row.state = "sending" /\ row.age < Lease
                      THEN row.age + 1 ELSE row.age,
              !.wait = IF row.wait > 0 THEN row.wait - 1 ELSE 0]

StoreTick ==
  /\ deliveries' = [d \in IDs |-> Older(deliveries[d])]
  /\ cooldown' = IF cooldown > 0 THEN cooldown - 1 ELSE 0
  /\ UNCHANGED <<idempotency, aliases>>

=============================================================================
