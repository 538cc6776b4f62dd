------------------------------ MODULE AnswerProofs ------------------------------
(***************************************************************************)
(* What DeliveryHandler says about identities and about time: that final   *)
(* answers agree, that a conflict found without a transaction is one, and  *)
(* that Telegram's retry_after is respected; and that it implements        *)
(* AtMostOnceDelivery, for every instance.                                 *)
(*                                                                         *)
(* The argument.  Which delivery a record is of, and with what content, is *)
(* settled when the record is made (IsOf), and an alias stays once it is   *)
(* made.  So a request that clashes with what its identities name does so  *)
(* for ever, and one that owns both of its identities owns them for ever:  *)
(* no request is answered with a conflict and with something else.  As for *)
(* time, a claim is made when the bot-wide cooldown is over, and until the *)
(* claim's own result is known nobody else can hear of a longer one.       *)
(***************************************************************************)
EXTENDS DeliveryProofs

Digest(d) == IF idempotency[d].version = 1 THEN deliveries[d].legacy
             ELSE idempotency[d].digest

\* The record d is of the logical delivery r, with its content.
IsOf(d, r) == Key(d) = r.i /\ Digest(d) = Logical(r)

\* The records that a request's identities name.
Named(r) == {aliases[r.d], aliases[r.i]} \ {None}

Clash(r) == \E d \in Named(r) : ~IsOf(d, r)
Owned(r) == None \notin {aliases[r.d], aliases[r.i]} /\ ~Clash(r)

\* A record that was read differs from the request only if the record does.
Faithful(record, r) ==
  record.state # "absent" /\ IsOf(record.d, r) => Matches(record, r)

\* A conflict is one for good, and another final response none.
Fixed(r, response) ==
  /\ response = Conflict => Clash(r)
  /\ response # Conflict /\ response.status # "retryable" => Owned(r)

AgreeInv ==
  /\ \A w \in Workers :
       pc[w] = "inspect" => \A n \in 1..Len(seen[w]) : Faithful(seen[w][n], req[w])
  /\ \A w \in Workers : Holds(w) => Owned(req[w])
  /\ \A w \in Workers : pc[w] = "answer" => Fixed(req[w], reply[w])
  /\ \A a \in answers : Fixed(a.req, a.reply)
  /\ schema = 1 => answers = {}

\* The longest retry_after is in the store, or about to be; and nobody who may
\* call Telegram has one to respect.
CooldownInv ==
  /\ \/ unrecorded \/ asked <= cooldown
     \/ \E w \in Workers : pc[w] = "persist" /\ asked <= result[w].wait
  /\ \A w \in Workers : pc[w] \in {"claimed", "await"} => unrecorded \/ asked = 0

-----------------------------------------------------------------------------
(* Identities.                                                             *)

\* The digest checks of both versions ask whether the record is of the request.
LEMMA MatchIsOf ==
  ASSUME StoreTypeOK, IdentityInv, NEW d \in IDs, Exists(d), NEW r \in Request
  PROVE  Matches(getDelivery(d), r) <=> IsOf(d, r)
<1>1. Logical(r) \in Request /\ r.i = Logical(r).i /\ r.i = Logical(r).d
  BY LogicalType
<1>2. r.d = r.i => Logical(r) = r
  BY DEF Logical, Request
<1>3. CASE idempotency[d].version = 1
  <2>1. deliveries[d].legacy.d = d /\ deliveries[d].legacy.i = d
    BY <1>3 DEF IdentityInv
  <2>2. Matches(getDelivery(d), r) <=>
          \/ d = r.d /\ deliveries[d].legacy = r
          \/ d = r.i /\ deliveries[d].legacy = Logical(r)
    BY <1>3 DEF Matches, getDelivery
  <2>3. IsOf(d, r) <=> d = r.i /\ deliveries[d].legacy = Logical(r)
    BY <1>3 DEF IsOf, Key, Digest
  <2> QED BY <1>2, <2>1, <2>2, <2>3
<1>4. CASE idempotency[d].version # 1
  BY <1>4 DEF Matches, getDelivery, IsOf, Key, Digest
<1> QED BY <1>3, <1>4

\* What a request names exists, and the record a SELECT finds is named.
LEMMA NamedIs ==
  ASSUME StoreTypeOK, IdentityInv, schema = 3, NEW r \in Request
  PROVE  /\ \A d \in Named(r) : d \in IDs /\ Exists(d)
         /\ \A d \in Named(r) : \E n \in 1..4 : Read(r, n) = getDelivery(d)
         /\ \A n \in 1..4 : Read(r, n).state # "absent" =>
              Read(r, n).d \in Named(r) /\ Read(r, n) = getDelivery(Read(r, n).d)
<1>1. r.d \in IDs /\ r.i \in IDs
  BY DEF Request
<1>2. ASSUME NEW d \in Named(r)
      PROVE  d \in IDs /\ Exists(d)
  BY <1>1 DEF Named, StoreTypeOK, IdentityInv
<1>3. ASSUME NEW d \in Named(r)
      PROVE  \E n \in 1..4 : Read(r, n) = getDelivery(d)
  <2>1. CASE d = aliases[r.d]
    <3>1. Read(r, 1) = getDelivery(d)
      BY <2>1 DEF Read, getDeliveryByAlias, Named
    <3> QED BY <3>1
  <2>2. CASE d = aliases[r.i]
    <3>1. Read(r, 3) = getDelivery(d)
      BY <2>2 DEF Read, getDeliveryByAlias, Named
    <3> QED BY <3>1
  <2> QED BY <2>1, <2>2 DEF Named
<1>4. ASSUME NEW n \in 1..4, Read(r, n).state # "absent"
      PROVE  Read(r, n).d \in Named(r) /\ Read(r, n) = getDelivery(Read(r, n).d)
  <2> DEFINE x == IF n <= 2 THEN r.d ELSE r.i
  <2>1. Read(r, n).d \in IDs /\ aliases[x] = Read(r, n).d
    BY <1>4, ReadFinds
  <2>2. Read(r, n).d \in Named(r)
    BY <2>1, NoneAssumption DEF Named
  <2>3. Read(r, n) = getDeliveryByAlias(x) \/ Read(r, n) = getDelivery(x)
    BY DEF Read
  <2>4. CASE Read(r, n) = getDelivery(x)
    BY <2>2, <2>4 DEF getDelivery
  <2>5. CASE Read(r, n) = getDeliveryByAlias(x)
    <3>1. Read(r, n) = getDelivery(aliases[x])
      BY <2>5, <1>4 DEF getDeliveryByAlias, NotFound
    <3> QED BY <2>1, <2>2, <3>1
  <2> QED BY <2>2, <2>3, <2>4, <2>5
<1> QED BY <1>2, <1>3, <1>4

\* Two records of one request are the same.
LEMMA OneOf ==
  ASSUME StoreTypeOK, ProcTypeOK, IdentityInv, schema = 3, NEW r \in Request, ~Clash(r)
  PROVE  \A d, e \in Named(r) : d = e
BY Unique, NamedIs DEF Clash, IsOf

\* A request that clashes is refused.
LEMMA ClashRefused ==
  ASSUME StoreTypeOK, IdentityInv, schema = 3, NEW r \in Request, Clash(r)
  PROVE  BeginConflict(r)
<1> DEFINE s == Resolved(r)
<1>1. \A n \in 1..4 : s[n] = Read(r, n)
  BY DEF Resolved
<1>2. PICK d \in Named(r) : ~IsOf(d, r)
  BY DEF Clash
<1>3. d \in IDs /\ Exists(d)
  BY NamedIs
<1>4. PICK n \in 1..4 : Read(r, n) = getDelivery(d)
  BY NamedIs
<1>5. s[n].state # "absent" /\ s[n].d = d
  BY <1>1, <1>3, <1>4 DEF getDelivery, Exists
<1> HIDE DEF s
<1>6. FirstFound(s).state # "absent"
  BY <1>5 DEF FirstFound
<1>7. PICK m \in 1..4 : FirstFound(s) = s[m]
  BY FoundOne
<1>8. CASE FirstFound(s).d = d
  <2>1. FirstFound(s) = getDelivery(d)
    <3>1. Read(r, m).state # "absent" /\ Read(r, m).d = d
      BY <1>1, <1>6, <1>7, <1>8
    <3> QED BY <3>1, <1>1, <1>7, NamedIs
  <2>2. ~Matches(FirstFound(s), r)
    BY <1>2, <1>3, <2>1, MatchIsOf
  <2> QED BY <1>6, <2>2 DEF BeginConflict, InspectConflict, s
<1>9. CASE FirstFound(s).d # d
  <2>1. Disagree(s)
    BY <1>5, <1>6, <1>7, <1>9 DEF Disagree
  <2> QED BY <2>1 DEF BeginConflict, InspectConflict, s
<1> QED BY <1>8, <1>9

\* Nothing else is.
LEMMA RefusedClash ==
  ASSUME StoreTypeOK, ProcTypeOK, IdentityInv, schema = 3, NEW r \in Request, ~Clash(r)
  PROVE  ~BeginConflict(r)
<1> DEFINE s == Resolved(r)
<1>1. \A n \in 1..4 : s[n] = Read(r, n)
  BY DEF Resolved
<1>2. r.d \in IDs /\ r.i \in IDs
  BY DEF Request
<1>3. ASSUME NEW n \in 1..4, s[n].state # "absent"
      PROVE  s[n].d \in Named(r) /\ s[n] = getDelivery(s[n].d)
  BY <1>1, <1>3, NamedIs
<1> HIDE DEF s
<1>4. ~Disagree(s)
  BY <1>3, OneOf DEF Disagree
<1>5. FirstFound(s).state # "absent" =>
        FirstFound(s).d \in Named(r) /\ FirstFound(s) = getDelivery(FirstFound(s).d)
  <2>1. PICK n \in 1..4 : FirstFound(s) = s[n]
    BY FoundOne
  <2> QED BY <1>3, <2>1
<1>6. FirstFound(s).state # "absent" => Matches(FirstFound(s), r)
  <2> SUFFICES ASSUME FirstFound(s).state # "absent",
                      NEW d, d = FirstFound(s).d
      PROVE  Matches(FirstFound(s), r)
    OBVIOUS
  <2>1. d \in Named(r) /\ FirstFound(s) = getDelivery(d)
    BY <1>5
  <2>2. d \in IDs /\ Exists(d) /\ IsOf(d, r)
    BY <2>1, NamedIs DEF Clash
  <2> QED BY <2>1, <2>2, MatchIsOf
<1>7. ASSUME NEW d \in Named(r)
      PROVE  Canonical(r) = d
  <2>1. PICK n \in 1..4 : Read(r, n) = getDelivery(d)
    BY NamedIs
  <2>2. s[n].state # "absent"
    BY <1>1, <2>1, <1>7, NamedIs DEF getDelivery, Exists
  <2>3. FirstFound(s).state # "absent"
    BY <2>2 DEF FirstFound
  <2>4. FirstFound(s).d = d
    BY <2>3, <1>5, <1>7, OneOf
  <2> QED BY <2>3, <2>4 DEF Canonical, s
<1>8. ASSUME NEW x \in {r.d, r.i}
      PROVE  ~AliasTaken(x, Canonical(r))
  <2>1. aliases[x] # None => aliases[x] \in Named(r)
    BY <1>8 DEF Named
  <2>2. Exists(x) => aliases[x] = x /\ x # None
    BY <1>2, <1>8, NoneAssumption DEF IdentityInv
  <2> QED BY <1>7, <2>1, <2>2 DEF AliasTaken
<1> QED BY <1>4, <1>6, <1>8 DEF BeginConflict, InspectConflict, s

\* A conflict that an inspection finds is one now.
LEMMA InspectedClash ==
  ASSUME StoreTypeOK, ProcTypeOK, IdentityInv, schema = 3, NEW r \in Request, NEW s,
         \A n \in 1..4 : Sound(s[n], n, r) /\ Faithful(s[n], r),
         InspectConflict(s, r)
  PROVE  Clash(r)
<1>1. ASSUME NEW n \in 1..4, s[n].state # "absent"
      PROVE  s[n].d \in Named(r)
  <2>1. Sound(s[n], n, r)
    OBVIOUS
  <2> QED BY <1>1, <2>1, NoneAssumption DEF Sound, Named
<1>2. CASE Disagree(s)
  BY <1>1, <1>2, OneOf DEF Disagree
<1>3. CASE FirstFound(s).state # "absent" /\ ~Matches(FirstFound(s), r)
  <2>1. PICK n \in 1..4 : FirstFound(s) = s[n]
    BY FoundOne
  <2>2. s[n].d \in Named(r) /\ ~IsOf(s[n].d, r)
    BY <1>1, <1>3, <2>1 DEF Faithful
  <2> QED BY <2>2 DEF Clash
<1> QED BY <1>2, <1>3 DEF InspectConflict

\* A request that has begun owns its identities.
LEMMA BeginOwns ==
  ASSUME StoreTypeOK, IdentityInv, schema = 3, NEW r \in Request,
         ~BeginConflict(r), BeginDelivery(r)
  PROVE  Owned(r)'
<1>0. SUFFICES ASSUME NEW d, d = Canonical(r)
      PROVE  Owned(r)'
  OBVIOUS
<1>1. /\ d \in IDs /\ aliases'[r.d] = d /\ aliases'[r.i] = d
      /\ idempotency'[d] = [version |-> 2, i |-> r.i, digest |-> Logical(r)]
  BY <1>0, BeginEffect
<1>2. IsOf(d, r)'
  BY <1>1 DEF IsOf, Key, Digest, Logical
<1>3. \A x : x \in {aliases'[r.d], aliases'[r.i]} => x = d
  BY <1>1
<1>4. None \notin {aliases'[r.d], aliases'[r.i]}
  BY <1>1, <1>3, NoneAssumption
<1>5. ~Clash(r)'
  BY <1>2, <1>3 DEF Clash, Named
<1> QED BY <1>4, <1>5 DEF Owned

\* Once the schema is migrated, no step drops or moves an alias.
LEMMA AliasesKept ==
  ASSUME Inv, Next, schema = 3, NEW x \in IDs, aliases[x] # None
  PROVE  aliases'[x] = aliases[x]
<1> USE DEF Inv, TypeOK
<1>1. CASE UNCHANGED storeVars
  BY <1>1 DEF storeVars
<1>2. ASSUME NEW w \in Workers, ReplayTerminal(w) \/ BeginInGate(w)
      PROVE  aliases'[x] = aliases[x]
  <2>1. CASE ~BeginConflict(req[w]) /\ BeginDelivery(req[w])
    BY <1>2, <2>1, HandlerBegins, BeginEffect
  <2> QED BY <1>1, <1>2, <2>1, HandlerBegins
<1>3. CASE \/ \E w \in Workers : Persist(w) /\ updateDelivery(canon[w], result[w])
           \/ Tick \/ Migrate \/ Recover
  BY <1>3 DEF updateDelivery, Tick, StoreTick, Migrate, Recover, recoverInterruptedDeliveries
<1> QED BY <1>1, <1>2, <1>3, StoreSteps

\* No step changes what a record is of; an upgrade to version 2 writes down
\* the digest of what version 1 had recorded.
LEMMA DigestStays ==
  ASSUME Inv, Next, NEW d \in IDs, Exists(d)
  PROVE  Digest(d)' = Digest(d)
<1> USE DEF Inv, TypeOK
<1>0. deliveries[d] \in Rows
  BY DEF StoreTypeOK
<1>1. CASE UNCHANGED storeVars
  BY <1>1 DEF storeVars, Digest
<1>2. ASSUME NEW w \in Workers, ReplayTerminal(w) \/ BeginInGate(w)
      PROVE  Digest(d)' = Digest(d)
  <2>1. CASE ~BeginConflict(req[w]) /\ BeginDelivery(req[w])
    <3> SUFFICES ASSUME NEW r, r = req[w], NEW e, e = Canonical(r)
        PROVE  Digest(d)' = Digest(d)
      OBVIOUS
    <3>0. schema = 3 /\ r \in Request
      BY <1>2, HandlerBegins
    <3>1. /\ idempotency'[e] = [version |-> 2, i |-> r.i, digest |-> Logical(r)]
          /\ d # e => deliveries'[d] = deliveries[d] /\ idempotency'[d] = idempotency[d]
      BY <2>1, <3>0, BeginEffect
    <3>2. CASE d # e
      BY <3>1, <3>2 DEF Digest
    <3>3. CASE d = e
      <4>1. d \in {aliases[r.d], aliases[r.i]}
        BY <2>1, <3>0, <3>3, BeginFacts
      <4>2. d \in Named(r)
        BY <4>1, NoneAssumption DEF Named
      <4>3. ~Clash(r)
        BY <2>1, <3>0, ClashRefused
      <4>4. Digest(d) = Logical(r)
        BY <4>2, <4>3 DEF Clash, IsOf
      <4>5. Digest(d)' = Logical(r)
        BY <3>1, <3>3 DEF Digest
      <4> QED BY <4>4, <4>5
    <3> QED BY <3>2, <3>3
  <2> QED BY <1>1, <1>2, <2>1, HandlerBegins
<1>3. ASSUME NEW w \in Workers, Persist(w), updateDelivery(canon[w], result[w])
      PROVE  Digest(d)' = Digest(d)
  <2>1. deliveries'[d].legacy = deliveries[d].legacy /\ idempotency' = idempotency
    BY <1>0, <1>3, Recorded DEF updateDelivery, StoreTypeOK, Rows
  <2> QED BY <2>1 DEF Digest
<1>4. CASE Tick
  <2>1. Older(deliveries[d]).legacy = deliveries[d].legacy
    BY <1>0 DEF Older, Rows
  <2> QED BY <1>4, <2>1 DEF Tick, StoreTick, Digest
<1>5. CASE Migrate
  BY <1>5 DEF Migrate, Digest
<1>6. CASE Recover
  <2>1. Interrupted(deliveries[d]).legacy = deliveries[d].legacy
    BY <1>0 DEF Interrupted, Rows
  <2> QED BY <1>6, <2>1 DEF Recover, recoverInterruptedDeliveries, Digest
<1> QED BY <1>1, <1>2, <1>3, <1>4, <1>5, <1>6, StoreSteps

\* What a record is of does not change.
LEMMA IsOfStays ==
  ASSUME Inv, Next, NEW d \in IDs, Exists(d), NEW r
  PROVE  IsOf(d, r)' <=> IsOf(d, r)
BY DigestStays, KeysStay DEF IsOf, Logical

\* A clash is one for ever, and what is owned is.
LEMMA ClashStays ==
  ASSUME Inv, Next, schema = 3, NEW r \in Request
  PROVE  (Clash(r) => Clash(r)') /\ (Owned(r) => Owned(r)')
<1>0. r.d \in IDs /\ r.i \in IDs
  BY DEF Request
<1>1. \A d \in Named(r) : d \in IDs /\ Exists(d)
  BY NamedIs DEF Inv, TypeOK
<1>2. \A x \in {r.d, r.i} : aliases[x] # None => aliases'[x] = aliases[x]
  BY <1>0, AliasesKept
<1>3. ASSUME Clash(r)
      PROVE  Clash(r)'
  <2>1. PICK d \in Named(r) : ~IsOf(d, r)
    BY <1>3 DEF Clash
  <2>2. d \in Named(r)'
    BY <1>2 DEF Named
  <2>3. ~IsOf(d, r)'
    BY <1>1, <2>1, IsOfStays
  <2> QED BY <2>2, <2>3 DEF Clash
<1>4. ASSUME Owned(r)
      PROVE  Owned(r)'
  <2>1. aliases'[r.d] = aliases[r.d] /\ aliases'[r.i] = aliases[r.i]
    BY <1>2, <1>4 DEF Owned
  <2>2. Named(r)' = Named(r)
    BY <2>1 DEF Named
  <2>3. \A d \in Named(r) : IsOf(d, r)'
    BY <1>1, <1>4, IsOfStays DEF Owned, Clash
  <2> QED BY <1>4, <2>1, <2>2, <2>3 DEF Owned, Clash
<1> QED BY <1>3, <1>4

LEMMA FixedStays ==
  ASSUME Inv, Next, schema = 3, NEW r \in Request, NEW response, Fixed(r, response)
  PROVE  Fixed(r, response)'
BY ClashStays DEF Fixed

-----------------------------------------------------------------------------
(* What is read, held and answered.                                        *)

\* What is read differs from the request only if the record does,
LEMMA FaithfulRead ==
  ASSUME StoreTypeOK, IdentityInv, schema = 3, NEW r \in Request, NEW n \in 1..4
  PROVE  Faithful(Read(r, n), r)
<1> SUFFICES ASSUME NEW e, e = Read(r, n), e.state # "absent", IsOf(e.d, r)
    PROVE  Matches(e, r)
  BY DEF Faithful
<1>1. e.d \in Named(r) /\ e = getDelivery(e.d)
  BY NamedIs
<1>2. e.d \in IDs /\ Exists(e.d)
  BY <1>1, NamedIs
<1>3. Matches(getDelivery(e.d), r)
  BY <1>2, MatchIsOf
<1> QED BY <1>1, <1>3

\* and so it stays.
LEMMA FaithfulStays ==
  ASSUME Inv, Next, NEW r \in Request, NEW n \in 1..4, NEW record,
         Sound(record, n, r), Faithful(record, r)
  PROVE  Faithful(record, r)'
<1> SUFFICES ASSUME record.state # "absent", IsOf(record.d, r)' PROVE Matches(record, r)
  BY DEF Faithful, Matches, Logical
<1> DEFINE x == IF n <= 2 THEN r.d ELSE r.i
<1>1. x \in IDs
  BY DEF Request
<1>2. record.d \in IDs /\ aliases[x] = record.d
  BY DEF Sound
<1> HIDE DEF x
<1>3. Exists(record.d)
  BY <1>1, <1>2, NoneAssumption DEF Inv, IdentityInv
<1>4. IsOf(record.d, r)
  BY <1>2, <1>3, IsOfStays
<1> QED BY <1>4 DEF Faithful

\* The replay of a record is no conflict.
LEMMA ReplayNoConflict ==
  ASSUME NEW row \in Rows
  PROVE  replayDelivery(row) # Conflict
<1>1. row.message # "conflict" /\ Conflict.message = "conflict"
  BY DEF Rows, Messages, Conflict
<1>2. CASE row.state = "delivered"
  <2>1. replayDelivery(row).message = ""
    BY <1>2, Success
  <2>2. replayDelivery(row).message # Conflict.message
    BY <1>1, <2>1
  <2> QED BY <2>2
<1>3. CASE row.state \in {"permanent", "unknown"}
  <2>1. replayDelivery(row) = [status |-> "nonRetryable", msg |-> 0, message |-> row.message]
    BY <1>3, Refusal
  <2>2. replayDelivery(row).message = row.message
    BY <2>1
  <2>3. replayDelivery(row).message # Conflict.message
    BY <1>1, <2>2
  <2> QED BY <2>3
<1>4. CASE row.state \notin {"delivered", "permanent", "unknown"}
  BY <1>4 DEF replayDelivery, Conflict, Retry
<1> QED BY <1>2, <1>3, <1>4

\* Retryable responses bind nobody; the replay of a record of one's own does.
LEMMA RetryFixed ==
  ASSUME NEW r PROVE Fixed(r, Retry)'
<1>1. Retry # Conflict /\ Retry.status = "retryable"
  BY DEF Retry, Conflict
<1> QED BY <1>1 DEF Fixed

LEMMA ReplayFixed ==
  ASSUME NEW r, Owned(r)', StoreTypeOK', NEW d \in IDs,
         NEW response, response = replayDelivery(deliveries'[d])
  PROVE  Fixed(r, response)'
<1>1. deliveries'[d] \in Rows
  BY DEF StoreTypeOK
<1>2. response # Conflict
  BY <1>1, ReplayNoConflict
<1> QED BY <1>2 DEF Fixed

\* A worker that waits for its fourth read finds real conflicts only.
LEMMA InspectionClash ==
  ASSUME Inv, AgreeInv, NEW v \in Workers, InspectDecide(v), NEW r, r = req[v],
         reply'[v] = Conflict, pc'[v] = "answer"
  PROVE  Clash(r)
<1> USE DEF Inv, TypeOK
<1>0. /\ pc[v] = "inspect" /\ Len(seen[v]) = 3 /\ schema = 3 /\ r \in Request
      /\ seen[v] \in Seq(Records)
  BY OwnStep DEF WorkerStep, InspectDecide, WorkerTypeOK
<1> SUFFICES ASSUME NEW s, s = Append(seen[v], Read(r, 4))
    PROVE  Clash(r)
  OBVIOUS
<1>1. (\A n \in 1..3 : s[n] = seen[v][n]) /\ s[4] = Read(r, 4)
  BY <1>0, ReadType, FourthRead
<1>2. \A n \in 1..3 : Sound(s[n], n, r) /\ Faithful(s[n], r)
  BY <1>0, <1>1 DEF SeenInv, AgreeInv
<1>3. Sound(s[4], 4, r) /\ Faithful(s[4], r)
  BY <1>0, <1>1, ReadFinds, FaithfulRead DEF Sound
<1>4. ASSUME NEW n \in 1..4 PROVE n \in 1..3 \/ n = 4
  OBVIOUS
<1>5. \A n \in 1..4 : Sound(s[n], n, r) /\ Faithful(s[n], r)
  BY <1>2, <1>3, <1>4
<1>6. InspectConflict(s, r)
  BY <1>0 DEF InspectDecide, Goto, Answer, WorkerTypeOK
<1> QED BY <1>0, <1>5, <1>6, InspectedClash

\* A worker that is about to answer has a response that stays true.
LEMMA OwnFixed ==
  ASSUME Inv, AgreeInv, Next, NEW v \in Workers, WorkerStep(v), pc'[v] = "answer",
         NEW r, r = req[v], NEW response, response = reply'[v]
  PROVE  req'[v] = r /\ Fixed(r, response)'
<1> USE DEF Inv, TypeOK, WorkerTypeOK, Goto, Answer, Outcome
<1>0. /\ ~InspectRead(v) /\ ~AcquireGate(v) /\ ~RefuseLocally(v) /\ ~NotWritten(v)
      /\ ~CallTelegram(v) /\ ~ReceiveMessage(v) /\ ~ReceiveNothing(v) /\ ~Respond(v)
      /\ \A state, wait : ~ReceiveRefusal(v, state, wait)
  BY DEF InspectRead, AcquireGate, RefuseLocally, NotWritten, CallTelegram,
     ReceiveMessage, ReceiveNothing, Respond, ReceiveRefusal
<1>a. schema = 3 /\ r \in Request /\ StoreTypeOK'
  BY OwnStep, TypeStep
<1>b. Conflict.status # "retryable" /\ Conflict # Retry
  BY DEF Conflict, Retry
<1>c. ASSUME Clash(r), response = Conflict
      PROVE  Fixed(r, response)'
  BY <1>a, <1>c, ClashStays DEF Fixed
<1>1. CASE InspectDecide(v)
  <2>1. req'[v] = r /\ response = Conflict
    BY <1>1 DEF InspectDecide
  <2>2. Clash(r)
    BY <1>1, <2>1, InspectionClash
  <2> QED BY <1>c, <2>1, <2>2
<1>2. CASE StoreFails(v) \/ CancelWait(v) \/ PersistFails(v)
  <2>1. req'[v] = r /\ response = Retry
    BY <1>2 DEF StoreFails, CancelWait, PersistFails
  <2> QED BY <2>1, RetryFixed
<1>3. CASE ReplayTerminal(v) \/ BeginInGate(v)
  <2> SUFFICES ASSUME NEW d, d = Canonical(r)
      PROVE  req'[v] = r /\ Fixed(r, response)'
    OBVIOUS
  <2>1. \/ response = Retry
        \/ response = Conflict /\ BeginConflict(r)
        \/ /\ ~BeginConflict(r) /\ BeginDelivery(r)
           /\ response = replayDelivery(deliveries'[d])
    BY <1>3 DEF ReplayTerminal, BeginInGate
  <2>2. req'[v] = r
    BY <1>3 DEF ReplayTerminal, BeginInGate
  <2>3. CASE ~BeginConflict(r) /\ BeginDelivery(r)
             /\ response = replayDelivery(deliveries'[d])
    <3>1. d \in IDs
      BY <1>a, <2>3, BeginEffect
    <3>2. Owned(r)'
      BY <1>a, <2>3, BeginOwns
    <3> QED BY <1>a, <2>2, <2>3, <3>1, <3>2, ReplayFixed
  <2>4. CASE response = Conflict /\ BeginConflict(r)
    <3>1. Clash(r)
      BY <1>a, <2>4, RefusedClash
    <3> QED BY <1>c, <2>2, <2>4, <3>1
  <2> QED BY <2>1, <2>2, <2>3, <2>4, RetryFixed
<1>4. CASE Persist(v)
  <2> SUFFICES ASSUME NEW d, d = canon[v]
      PROVE  req'[v] = r /\ Fixed(r, response)'
    OBVIOUS
  <2>1. \/ response = Retry
        \/ updateDelivery(d, result[v]) /\ response = replayDelivery(deliveries'[d])
    BY <1>4 DEF Persist
  <2>2. req'[v] = r
    BY <1>4 DEF Persist
  <2>3. CASE updateDelivery(d, result[v]) /\ response = replayDelivery(deliveries'[d])
    <3>1. d \in IDs
      BY <1>4, <2>3, Recorded
    <3>2. Owned(r)
      BY <1>4 DEF AgreeInv, Holds, Persist
    <3>3. Owned(r)'
      BY <1>a, <3>2, ClashStays
    <3> QED BY <1>a, <2>2, <2>3, <3>1, <3>3, ReplayFixed
  <2> QED BY <2>1, <2>2, <2>3, RetryFixed
<1> QED BY <1>0, <1>1, <1>2, <1>3, <1>4 DEF WorkerStep

\* A worker that holds a claim owns its request's identities.
LEMMA OwnHeld ==
  ASSUME Inv, AgreeInv, Next, NEW v \in Workers, WorkerStep(v), NEW r, r = req[v],
         pc'[v] \in {"claimed", "await", "persist"}
  PROVE  req'[v] = r /\ Owned(r)'
<1> USE DEF Inv, TypeOK, WorkerTypeOK, Goto, Answer, Outcome
<1>a. schema = 3 /\ r \in Request
  BY OwnStep
<1>1. CASE BeginInGate(v)
  <2>1. ~BeginConflict(r) /\ BeginDelivery(r) /\ req'[v] = r
    BY <1>1 DEF BeginInGate
  <2> QED BY <1>a, <2>1, BeginOwns
<1>2. CASE \/ RefuseLocally(v) \/ NotWritten(v) \/ CallTelegram(v)
           \/ ReceiveMessage(v) \/ ReceiveNothing(v)
           \/ \E state \in {"retryable", "permanent"}, wait \in 0..MaxRetryAfter :
                ReceiveRefusal(v, state, wait)
  <2>1. Holds(v) /\ req'[v] = r
    BY <1>2 DEF RefuseLocally, NotWritten, CallTelegram, ReceiveMessage, ReceiveNothing,
       ReceiveRefusal, Holds
  <2>2. Owned(r)
    BY <2>1 DEF AgreeInv
  <2> QED BY <1>a, <2>1, <2>2, ClashStays
<1>3. CASE \/ InspectRead(v) \/ InspectDecide(v) \/ StoreFails(v)
           \/ ReplayTerminal(v) \/ AcquireGate(v) \/ CancelWait(v)
           \/ Persist(v) \/ PersistFails(v) \/ Respond(v)
  <2>1. pc'[v] \in {"inspect", "answer", "replay", "waiting", "begin", "idle"}
    BY <1>3 DEF InspectRead, InspectDecide, StoreFails, ReplayTerminal, AcquireGate,
       CancelWait, Persist, PersistFails, Respond
  <2> QED BY <2>1
<1> QED BY <1>1, <1>2, <1>3 DEF WorkerStep

\* A worker's next read is faithful, as those before it.
LEMMA OwnRead ==
  ASSUME Inv, AgreeInv, Next, NEW v \in Workers, InspectRead(v), NEW r, r = req[v],
         NEW n \in 1..Len(seen'[v])
  PROVE  req'[v] = r /\ Faithful(seen[v][n], r)'
<1> USE DEF Inv, TypeOK
<1>0. schema = 3 /\ r \in Request
  BY OwnStep DEF WorkerStep
<1>1. /\ pc[v] = "inspect" /\ req' = req /\ Len(seen[v]) < 3
      /\ deliveries' = deliveries /\ idempotency' = idempotency
      /\ seen[v] \in Seq(Records) /\ Len(seen[v]) \in Nat /\ Len(seen[v]) + 1 \in 1..4
  BY DEF InspectRead, WorkerTypeOK, storeVars
<1> SUFFICES ASSUME NEW q, q = seen[v], NEW e, e = Read(r, Len(q) + 1),
                    NEW record, record = seen'[v][n]
    PROVE  Faithful(record, r)'
  BY <1>1 DEF Faithful
<1>2. seen'[v] = Append(q, e) /\ e \in Records
  BY <1>0, <1>1, ReadType DEF InspectRead, WorkerTypeOK
<1>3. Len(Append(q, e)) = Len(q) + 1 /\ Append(q, e)[Len(q) + 1] = e
  BY <1>1, <1>2, AppendLast
<1>4. Faithful(record, r)
  <2>1. CASE n = Len(q) + 1
    <3>1. record = e
      BY <1>2, <1>3, <2>1
    <3> QED BY <1>0, <1>1, <3>1, FaithfulRead
  <2>2. CASE n # Len(q) + 1
    <3>1. n \in 1..Len(q)
      BY <1>1, <1>2, <1>3, <2>2
    <3>2. record = q[n]
      BY <1>1, <1>2, <3>1, AppendKeeps
    <3> QED BY <1>1, <3>1, <3>2 DEF AgreeInv
  <2> QED BY <2>1, <2>2
<1>5. IsOf(record.d, r)' <=> IsOf(record.d, r)
  BY <1>1 DEF IsOf, Key, Digest, Logical
<1> QED BY <1>4, <1>5 DEF Faithful, Matches, Logical

\* Steps of nobody leave the workers where they are, or end them.
LEMMA NobodySteps ==
  ASSUME Environment, ~\E w \in Workers, r \in Requests : Submit(w, r)
  PROVE  \/ UNCHANGED workerVars
         \/ \A w \in Workers : pc'[w] = "idle"
<1>1. CASE \/ \E k \in IDs : \E n \in wire[k] : TelegramPosts(k, n) \/ TelegramDrops(k, n)
           \/ Tick \/ Migrate \/ Recover \/ Serve
  BY <1>1 DEF TelegramPosts, TelegramDrops, Tick, Migrate, Recover, Serve
<1>2. CASE Crash
  BY <1>2 DEF Crash
<1> QED BY <1>1, <1>2 DEF Environment

\* The part of a worker, in the next state.
Part(p, q, r, response) ==
  /\ p = "inspect" => \A n \in 1..Len(q) : Faithful(q[n], r)
  /\ p \in {"claimed", "await", "persist"} => Owned(r)
  /\ p = "answer" => Fixed(r, response)

\* Every step of its own, or of others, keeps a worker's part.
LEMMA PartStep ==
  ASSUME Inv, AgreeInv, Next, NEW v \in Workers,
         NEW p, p = pc'[v], NEW q, q = seen'[v], NEW r, r = req'[v],
         NEW response, response = reply'[v]
  PROVE  Part(p, q, r, response)'
<1> USE DEF Inv, TypeOK
<1>0. pc[v] # "idle" => schema = 3 /\ req[v] \in Request
  BY RequestsAssumption DEF GateInv, IdentityInv, ProcTypeOK
<1>1. CASE p = pc[v] /\ q = seen[v] /\ r = req[v] /\ response = reply[v]
  <2>1. ASSUME p = "inspect", NEW n \in 1..Len(q)
        PROVE  Faithful(q[n], r)'
    <3>0. Len(q) <= 3 /\ q \in Seq(Records)
      BY <1>1, <2>1 DEF SeenInv, WorkerTypeOK
    <3>1. n \in 1..4
      BY <3>0
    <3>2. Sound(q[n], n, r) /\ Faithful(q[n], r) /\ r \in Request
      BY <1>0, <1>1, <2>1 DEF SeenInv, AgreeInv
    <3> QED BY <3>1, <3>2, FaithfulStays
  <2>2. ASSUME p \in {"claimed", "await", "persist"}
        PROVE  Owned(r)'
    BY <1>0, <1>1, <2>2, ClashStays DEF AgreeInv, Holds
  <2>3. ASSUME p = "answer"
        PROVE  Fixed(r, response)'
    BY <1>0, <1>1, <2>3, FixedStays DEF AgreeInv
  <2> QED BY <2>1, <2>2, <2>3 DEF Part
<1>2. CASE WorkerStep(v)
  <2>1. ASSUME p = "inspect", NEW n \in 1..Len(q)
        PROVE  Faithful(q[n], r)'
    <3>1. InspectRead(v)
      BY <1>2, <2>1 DEF WorkerStep, InspectDecide, StoreFails, ReplayTerminal, AcquireGate,
         CancelWait, BeginInGate, RefuseLocally, NotWritten, CallTelegram, ReceiveMessage,
         ReceiveNothing, ReceiveRefusal, Persist, PersistFails, Respond, Goto, Answer,
         Outcome, WorkerTypeOK
    <3>2. req'[v] = req[v]
      BY <3>1 DEF InspectRead
    <3>3. Faithful(seen[v][n], req[v])'
      BY <2>1, <3>1, <3>2, OwnRead DEF Faithful, Matches, IsOf, Key, Digest, Logical
    <3> QED BY <3>3 DEF Faithful, Matches, IsOf, Key, Digest, Logical
  <2>2. ASSUME p \in {"claimed", "await", "persist"}
        PROVE  Owned(r)'
    BY <1>2, <2>2, OwnHeld
  <2>3. ASSUME p = "answer"
        PROVE  Fixed(r, response)'
    BY <1>2, <2>3, OwnFixed
  <2> QED BY <2>1, <2>2, <2>3 DEF Part
<1>3. ASSUME NEW s \in Requests, Submit(v, s)
      PROVE  Part(p, q, r, response)'
  <2>1. p = "inspect" /\ q = <<>>
    BY <1>3 DEF Submit, Goto, WorkerTypeOK
  <2>2. Len(q) = 0
    BY <2>1, EmptySeq
  <2> QED BY <2>1, <2>2 DEF Part
<1>4. ASSUME NEW w \in Workers, w # v,
             WorkerStep(w) \/ (\E s \in Requests : Submit(w, s))
      PROVE  Part(p, q, r, response)'
  BY <1>1, <1>4, OthersStay
<1>5. CASE Environment /\ ~\E w \in Workers, s \in Requests : Submit(w, s)
  <2>1. CASE UNCHANGED workerVars
    BY <1>1, <2>1 DEF workerVars
  <2>2. CASE pc'[v] = "idle"
    BY <2>2 DEF Part
  <2> QED BY <1>5, <2>1, <2>2, NobodySteps
<1> QED BY <1>2, <1>3, <1>4, <1>5 DEF Next

\* Every step keeps what is said of identities.
LEMMA AgreeStep == Inv /\ AgreeInv /\ Next => AgreeInv'
<1> SUFFICES ASSUME Inv, AgreeInv, Next PROVE AgreeInv'
  OBVIOUS
<1> USE DEF Inv, TypeOK
<1>1. ASSUME NEW v \in Workers
      PROVE  /\ pc'[v] = "inspect" =>
                  \A n \in 1..Len(seen'[v]) : Faithful(seen[v][n], req[v])'
             /\ Holds(v)' => Owned(req[v])'
             /\ pc'[v] = "answer" => Fixed(req[v], reply[v])'
  <2> SUFFICES ASSUME NEW p, p = pc'[v], NEW q, q = seen'[v], NEW r, r = req'[v],
                      NEW response, response = reply'[v]
      PROVE  /\ p = "inspect" => \A n \in 1..Len(q) : Faithful(q[n], r)'
             /\ p \in {"claimed", "await", "persist"} => Owned(r)'
             /\ p = "answer" => Fixed(r, response)'
    BY DEF Faithful, Holds, Owned, Fixed, Clash, Named, IsOf, Matches, Logical
  <2>1. Part(p, q, r, response)'
    BY PartStep
  <2> QED BY <2>1 DEF Part
<1>2. \/ answers' = answers
      \/ \E w \in Workers : Respond(w)
  BY DEF Next, Environment, WorkerStep, Submit, InspectRead, InspectDecide, StoreFails,
     ReplayTerminal, AcquireGate, CancelWait, BeginInGate, RefuseLocally, NotWritten,
     CallTelegram, ReceiveMessage, ReceiveNothing, ReceiveRefusal, Persist,
     PersistFails, TelegramPosts, TelegramDrops, Tick, Crash, Migrate, Recover, Serve,
     histVars
<1>3. ASSUME NEW a \in answers'
      PROVE  Fixed(a.req, a.reply)'
  <2> SUFFICES ASSUME NEW r, r = a.req, NEW response, response = a.reply
      PROVE  Fixed(r, response)'
    OBVIOUS
  <2>1. CASE a \in answers
    <3>1. schema = 3 /\ r \in Request /\ Fixed(r, response)
      BY <2>1, RequestsAssumption DEF AgreeInv, HistTypeOK, ProcTypeOK
    <3> QED BY <3>1, FixedStays
  <2>2. ASSUME NEW w \in Workers, Respond(w), a \notin answers
        PROVE  Fixed(r, response)'
    <3>1. pc[w] = "answer" /\ r = req[w] /\ response = reply[w]
      BY <2>2 DEF Respond
    <3>2. schema = 3 /\ r \in Request
      BY <2>2, <3>1, OwnStep DEF WorkerStep
    <3>3. Fixed(r, response)
      BY <3>1 DEF AgreeInv
    <3> QED BY <3>2, <3>3, FixedStays
  <2> QED BY <1>2, <2>1, <2>2
<1>4. schema' = 1 => answers' = {}
  <2>1. schema = 3 => schema' = 3
    BY DEF Next, Environment, WorkerStep, Submit, InspectRead, InspectDecide, StoreFails,
       ReplayTerminal, AcquireGate, CancelWait, BeginInGate, RefuseLocally, NotWritten,
       CallTelegram, ReceiveMessage, ReceiveNothing, ReceiveRefusal, Persist,
       PersistFails, Respond, TelegramPosts, TelegramDrops, Tick, Crash, Migrate, Recover,
       Serve, procVars
  <2>2. ASSUME NEW w \in Workers, Respond(w) PROVE schema = 3
    BY <2>2, OwnStep DEF WorkerStep
  <2> QED BY <1>2, <2>1, <2>2 DEF AgreeInv, ProcTypeOK
<1> QED BY <1>1, <1>3, <1>4 DEF AgreeInv

-----------------------------------------------------------------------------
(* Time.                                                                   *)

\* Numbers of the histories.
LEMMA Numbers ==
  ASSUME TypeOK
  PROVE  /\ asked \in Nat /\ cooldown \in Nat /\ unrecorded \in BOOLEAN
         /\ \A w \in Workers : result[w].wait \in Nat
<1>1. \A w \in Workers : result[w] \in Results
  BY DEF TypeOK, WorkerTypeOK
<1> QED BY <1>1, RetryAssumption DEF TypeOK, HistTypeOK, StoreTypeOK, Results

\* Steps that neither hear of a retry_after nor record one.
LEMMA CoolSame ==
  ASSUME Inv, CooldownInv, asked' = asked, unrecorded' = unrecorded, cooldown' = cooldown,
         \A w \in Workers :
           /\ pc[w] = "persist" => pc'[w] = "persist" /\ result'[w] = result[w]
           /\ pc'[w] \in {"claimed", "await"} =>
                pc[w] \in {"claimed", "await"} \/ unrecorded \/ asked = 0
  PROVE  CooldownInv'
<1>1. \/ unrecorded' \/ asked' <= cooldown'
      \/ \E w \in Workers : pc'[w] = "persist" /\ asked' <= result'[w].wait
  BY DEF CooldownInv
<1>2. \A w \in Workers : pc'[w] \in {"claimed", "await"} => unrecorded' \/ asked' = 0
  BY DEF CooldownInv
<1> QED BY <1>1, <1>2 DEF CooldownInv

\* Every step keeps the longest retry_after in the store or in one hand.
LEMMA CooldownStep == Inv /\ CooldownInv /\ Next => CooldownInv'
<1> SUFFICES ASSUME Inv, CooldownInv, Next PROVE CooldownInv'
  OBVIOUS
<1> USE DEF Inv, TypeOK
<1>0. /\ asked \in Nat /\ cooldown \in Nat /\ unrecorded \in BOOLEAN
      /\ \A w \in Workers : result[w].wait \in Nat
  BY Numbers
<1>1. ASSUME NEW w \in Workers,
             \/ \E r \in Requests : Submit(w, r)
             \/ InspectRead(w) \/ InspectDecide(w) \/ StoreFails(w)
             \/ AcquireGate(w) \/ CancelWait(w)
             \/ RefuseLocally(w) \/ NotWritten(w) \/ CallTelegram(w)
             \/ ReceiveMessage(w) \/ ReceiveNothing(w) \/ Respond(w)
      PROVE  CooldownInv'
  <2>1. asked' = asked /\ unrecorded' = unrecorded /\ cooldown' = cooldown
    BY <1>1 DEF Submit, InspectRead, InspectDecide, StoreFails, AcquireGate, CancelWait,
       RefuseLocally, NotWritten, CallTelegram, ReceiveMessage, ReceiveNothing, Respond,
       histVars, storeVars
  <2>2. /\ pc[w] = "persist" => pc'[w] = "persist" /\ result'[w] = result[w]
        /\ pc'[w] \in {"claimed", "await"} => pc[w] \in {"claimed", "await"}
    BY <1>1 DEF Submit, InspectRead, InspectDecide, StoreFails, AcquireGate, CancelWait,
       RefuseLocally, NotWritten, CallTelegram, ReceiveMessage, ReceiveNothing, Respond,
       Goto, Answer, Outcome, WorkerTypeOK
  <2>3. \A v \in Workers : v # w => pc'[v] = pc[v] /\ result'[v] = result[v]
    BY <1>1, OthersStay DEF WorkerStep
  <2> QED BY <2>1, <2>2, <2>3, CoolSame
<1>2. ASSUME NEW w \in Workers, ReplayTerminal(w) \/ BeginInGate(w)
      PROVE  CooldownInv'
  <2>1. asked' = asked /\ unrecorded' = unrecorded /\ cooldown' = cooldown
    <3>1. UNCHANGED histVars
      BY <1>2 DEF ReplayTerminal, BeginInGate
    <3>2. cooldown' = cooldown
      BY <1>2, HandlerBegins DEF BeginDelivery, storeVars
    <3> QED BY <3>1, <3>2 DEF histVars
  <2>2. pc[w] \in {"replay", "begin"}
    BY <1>2, HandlerBegins
  <2>3. \A v \in Workers : v # w => pc'[v] = pc[v] /\ result'[v] = result[v]
    BY <1>2, OthersStay DEF WorkerStep
  <2>4. pc'[w] \in {"claimed", "await"} => unrecorded \/ asked = 0
    <3>1. SUFFICES ASSUME pc'[w] \in {"claimed", "await"} PROVE unrecorded \/ asked = 0
      OBVIOUS
    <3>2. pc[w] = "begin" /\ ShouldSend(req[w])
      BY <1>2, <3>1 DEF ReplayTerminal, BeginInGate, Goto, Answer, WorkerTypeOK
    <3>3. cooldown = 0
      BY <3>2 DEF ShouldSend, Permitted
    <3>4. \A v \in Workers : pc[v] # "persist"
      BY <3>2, OneInside
    <3> QED BY <1>0, <3>3, <3>4 DEF CooldownInv
  <2> QED BY <2>1, <2>2, <2>3, <2>4, CoolSame
<1>3. ASSUME NEW w \in Workers, NEW state, NEW wait \in 0..MaxRetryAfter,
             ReceiveRefusal(w, state, wait)
      PROVE  CooldownInv'
  <2>1. /\ pc[w] = "await" /\ pc' = [pc EXCEPT ![w] = "persist"]
        /\ result' = [result EXCEPT ![w] = Result(state, 0, "provider", wait)]
        /\ asked' = MaxOf(asked, wait) /\ unrecorded' = unrecorded
    BY <1>3 DEF ReceiveRefusal, Outcome, Goto
  <2>2. pc'[w] = "persist" /\ result'[w].wait = wait /\ wait \in Nat
    BY <2>1, RetryAssumption DEF WorkerTypeOK, Result
  <2>3. unrecorded \/ asked = 0
    BY <2>1 DEF CooldownInv
  <2>4. unrecorded' \/ asked' <= result'[w].wait
    BY <1>0, <2>1, <2>2, <2>3 DEF MaxOf
  <2>5. \A v \in Workers : pc'[v] \notin {"claimed", "await"}
    <3>1. \A v \in Workers : v # w => pc[v] \notin {"claimed", "await"}
      BY <2>1, OneInside
    <3> QED BY <2>1, <3>1 DEF WorkerTypeOK
  <2> QED BY <2>2, <2>4, <2>5 DEF CooldownInv
<1>4. ASSUME NEW w \in Workers, Persist(w) \/ PersistFails(w)
      PROVE  CooldownInv'
  <2>1. /\ pc[w] = "persist" /\ asked' = asked
        /\ \A v \in Workers : pc'[v] \notin {"claimed", "await", "persist"}
    <3>1. /\ pc[w] = "persist" /\ asked' = asked
          /\ pc' = [pc EXCEPT ![w] = "answer"]
      BY <1>4 DEF Persist, PersistFails, Answer, Goto
    <3>2. \A v \in Workers : v # w => pc[v] \notin {"claimed", "await", "persist"}
      BY <3>1, OneInside
    <3> QED BY <3>1, <3>2 DEF WorkerTypeOK
  <2>2. \/ unrecorded \/ asked <= cooldown \/ asked <= result[w].wait
    BY <2>1, OneInside DEF CooldownInv
  <2>3. CASE Persist(w) /\ updateDelivery(canon[w], result[w])
    <3>1. /\ cooldown' = MaxOf(cooldown, result[w].wait)
          /\ unrecorded => unrecorded'
      BY <2>3 DEF Persist, updateDelivery
    <3>2. unrecorded' \/ asked' <= cooldown'
      BY <1>0, <2>1, <2>2, <3>1 DEF MaxOf
    <3> QED BY <2>1, <3>2 DEF CooldownInv
  <2>4. CASE UNCHANGED storeVars /\ (PersistFails(w) \/
               UpdateRefused(canon[w], Logical(req[w]), result[w]))
    <3>1. /\ cooldown' = cooldown
          /\ unrecorded' <=> (unrecorded \/ result[w].wait > 0)
      BY <1>4, <2>4 DEF Persist, PersistFails, storeVars
    <3>2. unrecorded' \/ asked' <= cooldown'
      BY <1>0, <2>1, <2>2, <3>1
    <3> QED BY <2>1, <3>2 DEF CooldownInv
  <2>5. \/ Persist(w) /\ updateDelivery(canon[w], result[w])
        \/ UNCHANGED storeVars /\ (PersistFails(w) \/
             UpdateRefused(canon[w], Logical(req[w]), result[w]))
    BY <1>4 DEF Persist, PersistFails
  <2> QED BY <2>3, <2>4, <2>5
<1>5. CASE Tick
  <2>1. /\ asked' = IF asked > 0 THEN asked - 1 ELSE 0
        /\ cooldown' = IF cooldown > 0 THEN cooldown - 1 ELSE 0
        /\ unrecorded' <=> (unrecorded /\ asked > 1)
        /\ pc' = pc /\ result' = result
    BY <1>5 DEF Tick, StoreTick, workerVars
  <2>2. asked' <= asked /\ (unrecorded => unrecorded' \/ asked' = 0)
        /\ cooldown' \in Nat /\ asked' \in Nat
    BY <1>0, <2>1
  <2>3. \/ unrecorded' \/ asked' <= cooldown'
        \/ \E w \in Workers : pc'[w] = "persist" /\ asked' <= result'[w].wait
    <3>1. CASE unrecorded
      BY <2>2, <3>1
    <3>2. CASE asked <= cooldown
      BY <1>0, <2>1, <3>2
    <3>3. ASSUME NEW w \in Workers, pc[w] = "persist", asked <= result[w].wait
          PROVE  pc'[w] = "persist" /\ asked' <= result'[w].wait
      BY <1>0, <2>1, <2>2, <3>3
    <3> QED BY <3>1, <3>2, <3>3 DEF CooldownInv
  <2>4. \A w \in Workers : pc'[w] \in {"claimed", "await"} => unrecorded' \/ asked' = 0
    BY <1>0, <2>1, <2>2 DEF CooldownInv
  <2> QED BY <2>3, <2>4 DEF CooldownInv
<1>6. CASE Crash
  <2>1. /\ cooldown' = cooldown /\ asked' = asked
        /\ \A w \in Workers : pc'[w] = "idle"
        /\ unrecorded' <=> (unrecorded \/ \E w \in Workers :
                              pc[w] = "persist" /\ result[w].wait > 0)
    BY <1>6 DEF Crash, storeVars
  <2>2. unrecorded' \/ asked' <= cooldown'
    <3>1. ASSUME NEW w \in Workers, pc[w] = "persist", asked <= result[w].wait
          PROVE  unrecorded' \/ asked' <= cooldown'
      BY <1>0, <2>1, <3>1
    <3> QED BY <2>1, <3>1 DEF CooldownInv
  <2> QED BY <2>1, <2>2 DEF CooldownInv
<1>7. CASE \/ \E k \in IDs : \E n \in wire[k] : TelegramPosts(k, n) \/ TelegramDrops(k, n)
           \/ Migrate \/ Recover \/ Serve
  <2>1. UNCHANGED <<cooldown, workerVars, histVars>>
    BY <1>7 DEF TelegramPosts, TelegramDrops, Migrate, Recover, recoverInterruptedDeliveries,
       Serve, storeVars
  <2> QED BY <2>1, CoolSame DEF workerVars, histVars
<1> QED BY <1>1, <1>2, <1>3, <1>4, <1>5, <1>6, <1>7 DEF Next, Environment, WorkerStep

-----------------------------------------------------------------------------
(* The theorems.                                                           *)

AnswersInv == Inv /\ AgreeInv /\ CooldownInv

LEMMA AnswersInit == Init => AnswersInv
<1> SUFFICES ASSUME Init PROVE AgreeInv /\ CooldownInv
  BY InitInv DEF AnswersInv
<1>1. /\ \A w \in Workers : pc[w] = "idle"
      /\ answers = {} /\ asked = 0 /\ cooldown = 0
  BY DEF Init
<1> QED BY <1>1 DEF AgreeInv, CooldownInv, Holds

LEMMA AnswersStutter == AnswersInv /\ UNCHANGED vars => AnswersInv'
<1> SUFFICES ASSUME AnswersInv, UNCHANGED vars PROVE AgreeInv' /\ CooldownInv'
  BY Stutter DEF AnswersInv
<1> USE DEF vars, storeVars, procVars, workerVars, histVars, AnswersInv
<1>1. AgreeInv'
  BY DEF AgreeInv, Holds, Faithful, Fixed, Owned, Clash, Named, IsOf, Key, Digest, Matches,
     Logical
<1>2. CooldownInv'
  BY DEF CooldownInv
<1> QED BY <1>1, <1>2

\* The invariant is inductive.
THEOREM AnswersInvariance == Spec => []AnswersInv
<1>1. AnswersInv /\ [Next]_vars => AnswersInv'
  <2>1. Inv /\ Next => Inv'
    BY TypeStep, IdentityStep, EffectStep, GateStep, ClaimStep, SeenStep, AnswerStep,
       WaitStep DEF Inv
  <2> QED BY <2>1, AgreeStep, CooldownStep, AnswersStutter DEF AnswersInv
<1> QED BY AnswersInit, <1>1, PTL DEF Spec

\* Final responses never change their mind (the terminal replay, and the
\* conflicts of BeginDelivery and of the inspection).
THEOREM NeverChangesItsMind == Spec => []AnswersAgree
<1>1. AnswersInv => AnswersAgree
  <2> SUFFICES ASSUME AnswersInv, NEW a \in answers, NEW b \in answers,
                      Logical(a.req) = Logical(b.req),
                      a.req = b.req \/ Conflict \notin {a.reply, b.reply}
      PROVE  a.reply = b.reply
    BY DEF AnswersAgree
  <2> USE DEF AnswersInv, Inv, TypeOK
  <2>1. /\ a.req.i = b.req.i
        /\ Backed(a.req, a.reply) /\ a.reply.status # "retryable" /\ Fixed(a.req, a.reply)
        /\ Backed(b.req, b.reply) /\ b.reply.status # "retryable" /\ Fixed(b.req, b.reply)
    <3>1. a.req \in Request /\ b.req \in Request
      BY RequestsAssumption DEF HistTypeOK
    <3>2. a.req.i = b.req.i
      BY <3>1, LogicalType
    <3> QED BY <3>2 DEF AnswerInv, AgreeInv
  <2>2. CASE a.reply # Conflict /\ b.reply # Conflict
    <3>1. PICK d \in IDs : /\ deliveries[d].state \in Final /\ Key(d) = a.req.i
                           /\ a.reply = replayDelivery(deliveries[d])
      BY <2>1, <2>2 DEF Backed
    <3>2. PICK e \in IDs : /\ deliveries[e].state \in Final /\ Key(e) = b.req.i
                           /\ b.reply = replayDelivery(deliveries[e])
      BY <2>1, <2>2 DEF Backed
    <3>3. d = e
      BY <2>1, <3>1, <3>2, Unique DEF Exists, Final
    <3> QED BY <3>1, <3>2, <3>3
  <2>3. CASE a.reply = Conflict \/ b.reply = Conflict
    BY <2>1, <2>3 DEF Fixed, Owned
  <2> QED BY <2>2, <2>3
<1> QED BY AnswersInvariance, <1>1, PTL

\* A conflict found by four SELECTs outside any transaction is a conflict also
\* for a transaction at that moment (InspectDeliveryWithIdempotency).
THEOREM ConflictsAreReal == Spec => InspectedConflictsAreReal
<1>1. ASSUME AnswersInv, Next, NEW w \in Workers,
             pc[w] = "inspect", pc'[w] = "answer", reply'[w] = Conflict
      PROVE  BeginConflict(req[w])
  <2>0. Inv /\ AgreeInv /\ WorkerTypeOK /\ StoreTypeOK /\ IdentityInv
    BY <1>1 DEF AnswersInv, Inv, TypeOK
  <2>1. ~\E v \in Workers : v # w /\ (WorkerStep(v) \/ \E r \in Requests : Submit(v, r))
    BY <1>1, <2>0, OthersStay
  <2>2. \A r : ~Submit(w, r)
    BY <1>1, <2>0 DEF Submit, Goto, WorkerTypeOK
  <2>3. CASE WorkerStep(w)
    <3>1. InspectDecide(w) \/ StoreFails(w)
      BY <1>1, <2>0, <2>3 DEF WorkerStep, InspectRead, ReplayTerminal, AcquireGate, CancelWait,
         BeginInGate, RefuseLocally, NotWritten, CallTelegram, ReceiveMessage,
         ReceiveNothing, ReceiveRefusal, Persist, PersistFails, Respond
    <3>2. ~StoreFails(w)
      <4>1. Retry # Conflict
        BY DEF Retry, Conflict
      <4> QED BY <1>1, <2>0, <4>1 DEF StoreFails, Answer, WorkerTypeOK
    <3>3. Clash(req[w])
      BY <1>1, <2>0, <3>1, <3>2, InspectionClash
    <3>4. schema = 3 /\ req[w] \in Request
      BY <2>0, <2>3, OwnStep
    <3> QED BY <2>0, <3>3, <3>4, ClashRefused
  <2>4. CASE Environment /\ ~\E v \in Workers, r \in Requests : Submit(v, r)
    <3>1. pc'[w] = pc[w] \/ pc'[w] = "idle"
      BY <2>4, NobodySteps DEF workerVars
    <3> QED BY <1>1, <3>1
  <2> QED BY <1>1, <2>1, <2>2, <2>3, <2>4 DEF Next
<1>2. AnswersInv /\ [Next]_vars =>
        [\A w \in Workers :
           pc[w] = "inspect" /\ pc'[w] = "answer" /\ reply'[w] = Conflict =>
             BeginConflict(req[w])]_vars
  BY <1>1
<1> QED BY AnswersInvariance, <1>2, PTL DEF Spec, InspectedConflictsAreReal

\* No sendMessage call before the longest retry_after has passed, unless
\* recording it failed (the provider gate, provider_cooldowns).
THEOREM NoCallTooEarly == Spec => CooldownRespected
<1>1. ASSUME AnswersInv, Next, NEW w \in Workers, pc[w] = "claimed"
      PROVE  asked = 0 \/ unrecorded
  BY <1>1 DEF AnswersInv, CooldownInv
<1>2. AnswersInv /\ [Next]_vars =>
        [\A w \in Workers :
           pc[w] = "claimed" /\ pc'[w] = "await" => asked = 0 \/ unrecorded]_vars
  BY <1>1
<1> QED BY AnswersInvariance, <1>2, PTL DEF Spec, CooldownRespected

-----------------------------------------------------------------------------
(***************************************************************************)
(* The refinement.  Final rows never change and rows keep their key, so    *)
(* the verdict of a delivery only changes when a row becomes final, and a  *)
(* delivery has one row: the verdict was open.  A row becomes final when   *)
(* its holder records a result, which Chat says is true, or when nobody    *)
(* can account for it, which is "unknown".                                 *)
(***************************************************************************)

Verdict(k) == {Meaning(replayDelivery(deliveries[d])) : d \in Decided(k)}
Told == {[key |-> a.req.i, verdict |-> Meaning(a.reply)] :
           a \in {b \in answers : b.reply # Conflict}}

\* The row d becomes final in this step.
Settles(d) == deliveries[d].state \notin Final /\ deliveries'[d].state \in Final

\* What the refinement mapping makes of a step, action by action.
LEMMA AbstractNext ==
  ASSUME NEW k \in IDs
  PROVE  /\ Abstract!Free(k) <=> wire[k] = {} /\ posted[k] = {}
         /\ Abstract!Possible(k) =
              {[kind |-> "delivered", msg |-> n] : n \in posted[k]}
              \cup {[kind |-> "unknown", msg |-> 0]}
              \cup {v \in {[kind |-> "refused", msg |-> 0]} : Abstract!Free(k)}
BY DEF Abstract!Free, Abstract!Possible, Abstract!Delivered, Abstract!Unknown,
       Abstract!Refused

\* A decided delivery is decided by one row.
LEMMA DecidedOnce ==
  ASSUME Inv, NEW k \in IDs, NEW d \in Decided(k)
  PROVE  /\ d \in IDs /\ Exists(d) /\ Key(d) = k
         /\ Decided(k) = {d}
         /\ Verdict(k) = {Meaning(replayDelivery(deliveries[d]))}
<1>1. \A e \in Decided(k) : e \in IDs /\ Exists(e) /\ Key(e) = k
  BY DEF Decided, getDelivery, Key, Exists, Final
<1>2. Decided(k) = {d}
  BY <1>1, Unique DEF Inv, TypeOK
<1> QED BY <1>1, <1>2 DEF Verdict

\* A row that is not final decides nothing, and its delivery is open.
LEMMA OpenRow ==
  ASSUME Inv, NEW d \in IDs, Exists(d), deliveries[d].state \notin Final
  PROVE  Verdict(Key(d)) = {}
<1>1. Key(d) \in IDs
  BY DEF Inv, TypeOK, IdentityInv, Key, StoreTypeOK, IdempotencyRows
<1>2. \A e \in Decided(Key(d)) : FALSE
  <2>1. \A e \in Decided(Key(d)) : e \in IDs /\ Exists(e) /\ Key(e) = Key(d)
                                   /\ deliveries[e].state \in Final
    BY DEF Decided, getDelivery, Key, Exists, Final
  <2> QED BY <2>1, Unique DEF Inv, TypeOK
<1> QED BY <1>2 DEF Verdict

\* A step changes the verdicts of the rows that it makes final.
LEMMA VerdictStays ==
  ASSUME Inv, Inv', Next, NEW k \in IDs,
         \A d \in IDs : Settles(d) => Key(d)' # k
  PROVE  Verdict(k)' = Verdict(k)
<1>1. ASSUME NEW d \in IDs, deliveries[d].state \in Final
      PROVE  deliveries'[d] = deliveries[d] /\ Key(d)' = Key(d)
  BY <1>1, FinalStays, KeysStay DEF Exists, Final
<1>2. \A d \in IDs : d \in Decided(k)' <=> d \in Decided(k)
  BY <1>1 DEF Decided, getDelivery, Key, Settles
<1>3. Decided(k)' = Decided(k)
  BY <1>2 DEF Decided
<1>4. \A d \in Decided(k) : deliveries'[d] = deliveries[d]
  BY <1>1 DEF Decided
<1>5. \A d \in Decided(k) :
        replayDelivery(deliveries[d])' = replayDelivery(deliveries[d])
  BY <1>4 DEF replayDelivery, Retry
<1> QED BY <1>3, <1>5 DEF Verdict, Meaning

\* A logical delivery has one row, also after a step.
LEMMA OneRow == Inv => OneRecordPerDelivery
BY Unique DEF Inv, TypeOK, OneRecordPerDelivery, getDelivery, Key

LEMMA OneRowNext == Inv' => OneRecordPerDelivery'
BY OneRow, PTL

\* The delivery of a row that becomes final was open.
LEMMA WasOpen ==
  ASSUME Inv, Inv', Next, NEW d \in IDs, Settles(d), NEW k, k = Key(d)'
  PROVE  /\ k \in IDs
         /\ Verdict(k) = {}
         /\ Verdict(k)' = {Meaning(replayDelivery(deliveries'[d]))}
<1>1. k \in IDs /\ Exists(d)'
  BY DEF Inv, TypeOK, IdentityInv, Key, StoreTypeOK, IdempotencyRows, Settles,
         Exists, Final
<1>2. \A e \in IDs : Exists(e)' /\ Key(e)' = k => e = d
  BY <1>1, OneRowNext DEF OneRecordPerDelivery, getDelivery, Key
<1>3. \A e \in Decided(k) : FALSE
  <2>1. ASSUME NEW e \in Decided(k)
        PROVE  e \in IDs /\ Exists(e) /\ Key(e) = k /\ deliveries[e].state \in Final
    BY DEF Decided, getDelivery, Key, Exists, Final
  <2>2. ASSUME NEW e \in Decided(k)
        PROVE  Exists(e)' /\ Key(e)' = k
    BY <2>1, KeysStay
  <2> QED BY <1>2, <2>1, <2>2 DEF Settles
<1>4. Verdict(k) = {}
  BY <1>3 DEF Verdict
<1>5. Decided(k)' = {d}
  <2>1. \A e \in Decided(k)' : e \in IDs /\ Exists(e)' /\ Key(e)' = k
    BY DEF Decided, getDelivery, Key, Exists, Final
  <2>2. d \in Decided(k)'
    BY DEF Settles, Decided, getDelivery, Key
  <2> QED BY <1>2, <2>1, <2>2
<1>6. Verdict(k)' = {Meaning(replayDelivery(deliveries'[d]))}
  BY <1>5 DEF Verdict, Meaning, replayDelivery, Retry
<1> QED BY <1>1, <1>4, <1>6
-----------------------------------------------------------------------------
(* The steps.                                                              *)

Verdicts == [k \in IDs |-> Verdict(k)]

AbstractStep == Abstract!Next \/ UNCHANGED <<wire, posted, Verdicts, Told>>

\* No row becomes final: no verdict changes.
LEMMA NothingSettled ==
  ASSUME Inv, Inv', Next, \A d \in IDs : ~Settles(d)
  PROVE  Verdicts' = Verdicts
<1>1. \A k \in IDs : Verdict(k)' = Verdict(k)
  BY VerdictStays
<1> QED BY <1>1 DEF Verdicts

\* Every row that becomes final is given up.
LEMMA AllGivenUp ==
  ASSUME Inv, Inv', Next, UNCHANGED <<wire, posted, answers>>,
         \A d \in IDs : Settles(d) => deliveries'[d].state = "unknown"
  PROVE  AbstractStep
<1> DEFINE K == {k \in IDs : \E d \in IDs : Settles(d) /\ Key(d)' = k}
<1>1. \A k \in K : Verdict(k) = {}
  BY WasOpen
<1>2. ASSUME NEW k \in K
      PROVE  Verdict(k)' = {[kind |-> "unknown", msg |-> 0]}
  <2>1. PICK d \in IDs : Settles(d) /\ Key(d)' = k
    OBVIOUS
  <2>2. /\ deliveries'[d].state = "unknown"
        /\ deliveries'[d].message \notin {"provider", "routing"}
    BY <2>1 DEF Inv, AnswerInv
  <2>3. Meaning(replayDelivery(deliveries'[d])) = [kind |-> "unknown", msg |-> 0]
    BY <2>2 DEF Meaning, replayDelivery
  <2> QED BY <2>1, <2>3, WasOpen
<1>3. \A k \in IDs \ K : Verdict(k)' = Verdict(k)
  BY VerdictStays
<1> HIDE DEF K
<1>4. K \subseteq IDs
  BY DEF K
<1>5. Verdicts' = [k \in IDs |-> IF k \in K THEN {[kind |-> "unknown", msg |-> 0]}
                                           ELSE Verdicts[k]]
  BY <1>2, <1>3 DEF Verdicts
<1>6. Told' = Told
  BY DEF Told, Meaning
<1>7. Abstract!GiveUp(K)
  BY <1>1, <1>4, <1>5, <1>6 DEF Abstract!GiveUp, Abstract!Unknown, Verdicts, Verdict, Told
<1> QED BY <1>4, <1>7 DEF AbstractStep, Abstract!Next

\* What a true result of the holder of a claim decides.
LEMMA Settled ==
  ASSUME Inv, Inv', Next, UNCHANGED <<wire, posted, answers>>,
         NEW e \in IDs, Settles(e), \A d \in IDs \ {e} : ~Settles(d),
         NEW k, k = Key(e)', deliveries'[e].state \in {"delivered", "permanent"}
  PROVE  AbstractStep
<1> DEFINE v == Meaning(replayDelivery(deliveries'[e]))
<1>1. k \in IDs /\ Verdict(k) = {} /\ Verdict(k)' = {v}
  BY WasOpen
<1>2. \A j \in IDs \ {k} : Verdict(j)' = Verdict(j)
  BY VerdictStays
<1>3. v \in Abstract!Possible(k)
  <2>1. /\ deliveries'[e].state = "delivered" => posted[k] = {deliveries'[e].msg}
        /\ deliveries'[e].state = "permanent" => posted[k] = {} /\ wire[k] = {}
    BY DEF Inv, EffectInv, Effects
  <2>2. /\ deliveries'[e].state = "delivered" =>
             v = [kind |-> "delivered", msg |-> deliveries'[e].msg]
        /\ deliveries'[e].state = "permanent" =>
             v \in {[kind |-> "refused", msg |-> 0], [kind |-> "unknown", msg |-> 0]}
    BY DEF Meaning, replayDelivery
  <2> HIDE DEF v
  <2> QED BY <1>1, <2>1, <2>2, AbstractNext
<1> HIDE DEF v
<1>4. Verdicts' = [Verdicts EXCEPT ![k] = {v}]
  BY <1>1, <1>2 DEF Verdicts
<1>5. Told' = Told
  BY DEF Told, Meaning
<1>6. Abstract!Decide(k, v)
  BY <1>1, <1>3, <1>4, <1>5 DEF Abstract!Decide, Verdicts, Verdict, Told
<1> QED BY <1>1, <1>3, <1>6 DEF AbstractStep, Abstract!Next, Abstract!Step
\* Begin: nothing becomes final but an interrupted claim.
LEMMA BeginImplements ==
  ASSUME Inv, Inv', Next, NEW w \in Workers, ReplayTerminal(w) \/ BeginInGate(w)
  PROVE  AbstractStep
<1>1. UNCHANGED <<wire, posted, answers>>
  BY DEF ReplayTerminal, BeginInGate, chatVars, histVars
<1>2. CASE ~BeginConflict(req[w]) /\ BeginDelivery(req[w])
  <2> DEFINE r == req[w]
  <2> SUFFICES ASSUME NEW e, e = Canonical(r)
      PROVE  AbstractStep
    OBVIOUS
  <2>0. schema = 3 /\ r \in Request
    BY HandlerBegins
  <2> HIDE DEF r
  <2>1. StoreTypeOK /\ IdentityInv /\ ProcTypeOK /\ EffectInv /\ WaitInv
    BY DEF Inv, TypeOK
  <2>2. ~BeginConflict(r) /\ BeginDelivery(r)
    BY <1>2 DEF r
  <2>3. /\ e \in IDs /\ deliveries'[e] = BeginRow(deliveries[e], r)
        /\ \A x \in IDs \ {e} : deliveries'[x] = deliveries[x]
    BY <2>0, <2>1, <2>2, BeginEffect
  <2>4. \/ deliveries'[e].state \in {"sending", "unknown", "retryable"}
        \/ deliveries'[e] = deliveries[e]
    BY <2>0, <2>1, <2>2, <2>3, BeginOutcome
  <2>5. \A d \in IDs : Settles(d) => deliveries'[d].state = "unknown"
    BY <2>3, <2>4 DEF Settles, Final
  <2> QED BY <1>1, <2>5, AllGivenUp
<1>3. CASE UNCHANGED storeVars
  BY <1>1, <1>3, AllGivenUp DEF storeVars, Settles
<1> QED BY <1>2, <1>3, HandlerBegins

\* Persist: a true result, or nothing.
LEMMA PersistImplements ==
  ASSUME Inv, Inv', Next, NEW w \in Workers, Persist(w)
  PROVE  AbstractStep
<1>1. UNCHANGED <<wire, posted, answers>>
  BY DEF Persist, chatVars
<1>2. CASE updateDelivery(canon[w], result[w])
  <2>1. /\ canon[w] \in IDs
        /\ \A d \in IDs \ {canon[w]} : deliveries'[d] = deliveries[d]
        /\ deliveries[canon[w]].state = "sending"
        /\ deliveries'[canon[w]].state \in Outcomes
    BY <1>2, Recorded DEF Results
  <2>2. \A d \in IDs \ {canon[w]} : ~Settles(d)
    BY <2>1 DEF Settles
  <2>3. CASE deliveries'[canon[w]].state \in {"unknown", "retryable"}
    BY <1>1, <2>1, <2>2, <2>3, AllGivenUp DEF Settles, Final
  <2>4. CASE deliveries'[canon[w]].state \in {"delivered", "permanent"}
    <3>1. Settles(canon[w])
      BY <2>1, <2>4 DEF Settles, Final
    <3> QED BY <1>1, <2>1, <2>2, <2>4, <3>1, Settled
  <2> QED BY <2>1, <2>3, <2>4 DEF Outcomes
<1>3. CASE UNCHANGED storeVars
  BY <1>1, <1>3, AllGivenUp DEF storeVars, Settles
<1> QED BY <1>2, <1>3 DEF Persist

\* Respond: Orka is told what was decided, or nothing.
LEMMA RespondImplements ==
  ASSUME Inv, Inv', Next, NEW w \in Workers, Respond(w)
  PROVE  AbstractStep
<1>1. UNCHANGED <<wire, posted, deliveries>> /\ pc[w] = "answer"
  BY DEF Respond, chatVars, storeVars
<1>2. Verdicts' = Verdicts
  BY <1>1, NothingSettled DEF Settles
<1>3. CASE reply[w].status = "retryable" \/ reply[w] = Conflict
  <2>1. {b \in answers' : b.reply # Conflict} = {b \in answers : b.reply # Conflict}
    BY <1>3 DEF Respond
  <2>2. Told' = Told
    BY <2>1 DEF Told, Meaning, Conflict
  <2> QED BY <1>1, <1>2, <2>2 DEF AbstractStep
<1>4. CASE reply[w].status # "retryable" /\ reply[w] # Conflict
  <2> SUFFICES ASSUME NEW k, k = req[w].i, NEW v, v = Meaning(reply[w])
      PROVE  AbstractStep
    OBVIOUS
  <2>1. PICK d \in IDs : /\ deliveries[d].state \in Final
                         /\ Key(d) = k
                         /\ reply[w] = replayDelivery(deliveries[d])
    BY <1>1, <1>4 DEF Inv, AnswerInv, Backed
  <2>2. k \in IDs
    BY <2>1 DEF Inv, TypeOK, IdentityInv, Key, Exists, Final, StoreTypeOK,
                IdempotencyRows
  <2>3. d \in Decided(k)
    BY <2>1 DEF Decided, getDelivery, Key
  <2>4. Verdict(k) = {v}
    BY <2>1, <2>2, <2>3, DecidedOnce
  <2>5. answers' = answers \cup {[req |-> req[w], reply |-> reply[w]]}
    BY <1>4 DEF Respond
  <2>6. {b \in answers' : b.reply # Conflict} =
          {b \in answers : b.reply # Conflict}
            \cup {[req |-> req[w], reply |-> reply[w]]}
    BY <1>4, <2>5
  <2>7. Told' = Told \cup {[key |-> k, verdict |-> v]}
    <3> DEFINE T(S) == {[key |-> a.req.i, verdict |-> Meaning(a.reply)] : a \in S}
    <3>1. ASSUME NEW S, NEW x
          PROVE  T(S \cup {x}) =
                   T(S) \cup {[key |-> x.req.i, verdict |-> Meaning(x.reply)]}
      OBVIOUS
    <3>3. Told' = T({b \in answers' : b.reply # Conflict})
      BY DEF Told, Meaning, Conflict
    <3>4. Told = T({b \in answers : b.reply # Conflict})
      BY DEF Told
    <3>5. T({b \in answers : b.reply # Conflict}
              \cup {[req |-> req[w], reply |-> reply[w]]}) =
            T({b \in answers : b.reply # Conflict})
              \cup {[key |-> k, verdict |-> v]}
      <4> DEFINE x == [req |-> req[w], reply |-> reply[w]]
      <4>1. x.req.i = k /\ Meaning(x.reply) = v
        OBVIOUS
      <4> HIDE DEF T, x
      <4> QED BY <3>1, <4>1 DEF x
    <3> HIDE DEF T
    <3> QED BY <2>6, <3>3, <3>4, <3>5
  <2>8. Abstract!Tell(k, v)
    BY <1>1, <1>2, <2>2, <2>4, <2>7 DEF Abstract!Tell, Verdicts, Verdict, Told
  <2> QED BY <2>2, <2>4, <2>8 DEF AbstractStep, Abstract!Next, Abstract!Step, Verdict
<1> QED BY <1>3, <1>4

\* CallTelegram: a try of an open delivery whose chat is free.
LEMMA CallImplements ==
  ASSUME Inv, Inv', Next, NEW w \in Workers, CallTelegram(w)
  PROVE  AbstractStep
<1> SUFFICES ASSUME NEW k, k = req[w].i PROVE AbstractStep
  OBVIOUS
<1>1. /\ UNCHANGED <<deliveries, posted, answers>>
      /\ wire' = [wire EXCEPT ![k] = @ \cup {calls + 1}]
      /\ pc[w] = "claimed" /\ calls < MaxCalls
  BY DEF CallTelegram, storeVars, histVars
<1>2. Verdicts' = Verdicts /\ Told' = Told
  BY <1>1, NothingSettled DEF Settles, Told, Meaning
<1>3. /\ canon[w] \in IDs /\ deliveries[canon[w]].state = "sending"
      /\ Key(canon[w]) = k /\ wire[k] = {} /\ posted[k] = {}
  <2>1. /\ canon[w] \in IDs
        /\ deliveries[canon[w]].state = "sending"
        /\ idempotency[canon[w]] = [version |-> 2, i |-> k,
                                    digest |-> Logical(req[w])]
        /\ Effects(k) = {}
    BY <1>1 DEF Holds, ClaimInv, Chat, Inv
  <2> QED BY <2>1 DEF Key, Effects
<1>4. k \in IDs /\ Verdict(k) = {}
  <2>1. k \in IDs
    BY <1>1, RequestsAssumption DEF Inv, GateInv, Request
  <2>2. Verdict(Key(canon[w])) = {}
    BY <1>3, OpenRow DEF Exists, Final
  <2> QED BY <1>3, <2>1, <2>2
<1>5. wire' = [wire EXCEPT ![k] = {calls + 1}]
  BY <1>1, <1>3, <1>4 DEF Inv, TypeOK, ChatTypeOK
<1>6. calls + 1 \in 1..MaxCalls
  BY <1>1, CallsAssumption DEF Inv, TypeOK, ChatTypeOK
<1>7. Abstract!Try(k, calls + 1)
  BY <1>1, <1>2, <1>3, <1>4, <1>5, AbstractNext
     DEF Abstract!Try, Verdicts, Verdict, Told
<1> QED BY <1>4, <1>6, <1>7 DEF AbstractStep, Abstract!Next, Abstract!Step

\* A call ends: it becomes a message, or never will.
LEMMA WireImplements ==
  ASSUME Inv, Inv', Next, UNCHANGED <<deliveries, answers>>,
         NEW k \in IDs, NEW n \in wire[k],
         wire' = [wire EXCEPT ![k] = @ \ {n}],
         posted' \in {posted, [posted EXCEPT ![k] = @ \cup {n}]}
  PROVE  AbstractStep
<1>1. Verdicts' = Verdicts /\ Told' = Told
  BY NothingSettled DEF Settles, Told, Meaning
<1>2. wire[k] = {n} /\ posted[k] = {}
  BY DEF Inv, EffectInv, Effects
<1>3. wire' = [wire EXCEPT ![k] = {}]
  BY <1>2
<1>4. CASE posted' = posted
  <2>1. Abstract!Lose(k)
    BY <1>1, <1>3, <1>4 DEF Abstract!Lose, Verdicts, Verdict, Told
  <2> QED BY <2>1 DEF AbstractStep, Abstract!Next, Abstract!Step
<1>5. CASE posted' = [posted EXCEPT ![k] = @ \cup {n}]
  <2>1. posted' = [posted EXCEPT ![k] = {n}]
    BY <1>2, <1>5
  <2>2. Abstract!Land(k, n)
    BY <1>1, <1>2, <1>3, <2>1 DEF Abstract!Land, Verdicts, Verdict, Told
  <2> QED BY <2>2 DEF AbstractStep, Abstract!Next, Abstract!Step
<1> QED BY <1>4, <1>5

\* Every step of the handlers, the store, the process and Telegram is a step
\* of the abstract machine, or none.
LEMMA StepImplements == Inv /\ Inv' /\ Next => AbstractStep
<1> SUFFICES ASSUME Inv, Inv', Next PROVE AbstractStep
  OBVIOUS
<1>1. ASSUME UNCHANGED <<wire, posted, answers>>,
             \A d \in IDs : deliveries'[d].state \in {deliveries[d].state, "unknown"}
      PROVE  AbstractStep
  BY <1>1, AllGivenUp DEF Settles
<1>2. ASSUME NEW w \in Workers,
             \/ \E r \in Requests : Submit(w, r)
             \/ InspectRead(w) \/ InspectDecide(w) \/ StoreFails(w)
             \/ AcquireGate(w) \/ CancelWait(w) \/ RefuseLocally(w) \/ NotWritten(w)
             \/ ReceiveMessage(w) \/ ReceiveNothing(w) \/ PersistFails(w)
      PROVE  AbstractStep
  BY <1>1, <1>2 DEF Submit, InspectRead, InspectDecide, StoreFails, AcquireGate,
     CancelWait, RefuseLocally, NotWritten, ReceiveMessage, ReceiveNothing,
     PersistFails, chatVars, histVars, storeVars
<1>3. CASE Tick
  <2>1. \A d \in IDs : Older(deliveries[d]).state = deliveries[d].state
    BY DEF Older, Inv, TypeOK, StoreTypeOK, Rows
  <2> QED BY <1>1, <1>3, <2>1 DEF Tick, StoreTick, chatVars
<1>4. CASE Recover
  <2>1. \A d \in IDs : Interrupted(deliveries[d]).state = "unknown"
    BY DEF Interrupted, Inv, TypeOK, StoreTypeOK, Rows
  <2> QED BY <1>1, <1>4, <2>1 DEF Recover, recoverInterruptedDeliveries, chatVars,
                                  histVars
<1>5. CASE Migrate \/ Crash \/ Serve
  BY <1>1, <1>5 DEF Migrate, Crash, Serve, chatVars, histVars, storeVars
<1>6. ASSUME NEW k \in IDs, NEW n \in wire[k], TelegramPosts(k, n) \/ TelegramDrops(k, n)
      PROVE  AbstractStep
  BY <1>6, WireImplements DEF TelegramPosts, TelegramDrops, storeVars, histVars
<1>7. ASSUME NEW w \in Workers, NEW state, NEW wait, ReceiveRefusal(w, state, wait)
      PROVE  AbstractStep
  <2>1. req[w].i \in IDs
    BY <1>7, RequestsAssumption DEF ReceiveRefusal, Inv, GateInv, Request
  <2> QED BY <1>7, <2>1, WireImplements DEF ReceiveRefusal, storeVars
<1> QED BY <1>2, <1>3, <1>4, <1>5, <1>6, <1>7, BeginImplements, PersistImplements,
           RespondImplements, CallImplements DEF Next, Environment, WorkerStep

-----------------------------------------------------------------------------
\* A database of the version 1 adapter is an initial state of the machine.
LEMMA InitImplements == Init => Abstract!Init
<1> SUFFICES ASSUME Init PROVE Abstract!Init
  OBVIOUS
<1>1. LegacyInit /\ idempotency = [d \in IDs |-> NoIdempotency] /\ answers = {}
  BY DEF Init
<1>2. ASSUME NEW k \in IDs
      PROVE  /\ Verdict(k) \subseteq Abstract!Possible(k)
             /\ Verdict(k) \in {{}, {Abstract!Refused}, {Abstract!Unknown}, {Abstract!Delivered(1)}}
  <2>1. \A d \in Decided(k) : d = k /\ deliveries[k].state \in Final
    BY <1>1 DEF Decided, getDelivery, NoIdempotency
  <2>2. CASE k \notin Decided(k)
    BY <2>1, <2>2 DEF Verdict
  <2>3. CASE k \in Decided(k)
    <3> DEFINE v == Meaning(replayDelivery(deliveries[k]))
    <3>1. Verdict(k) = {v}
      BY <2>1, <2>3 DEF Verdict
    <3>2. Exists(k) /\ deliveries[k].state \in Final
      BY <2>1, <2>3 DEF Exists, Final
    <3>3. /\ deliveries[k].state = "delivered" => deliveries[k].msg = 1
          /\ deliveries[k].message = ""
      BY <1>1, <3>2, LegacyRows
    <3>4. deliveries[k].state = "delivered" => posted[k] = {1}
      BY <1>1 DEF LegacyInit
    <3>5. \/ v = Abstract!Unknown
          \/ v = Abstract!Delivered(1) /\ posted[k] = {1}
      BY <3>2, <3>3, <3>4 DEF Meaning, replayDelivery, Final, Abstract!Unknown, Abstract!Delivered
    <3> HIDE DEF v
    <3>6. v \in Abstract!Possible(k)
      BY <3>5 DEF Abstract!Possible
    <3> QED BY <3>1, <3>5, <3>6
  <2> QED BY <2>2, <2>3
<1>3. /\ wire \in [IDs -> {{}, {1}}] /\ posted \in [IDs -> {{}, {1}}]
      /\ \A k \in IDs : wire[k] = {} \/ posted[k] = {}
  BY <1>1 DEF LegacyInit
<1>4. Told = {}
  BY <1>1 DEF Told
<1> QED BY <1>2, <1>3, <1>4 DEF Abstract!Init, Verdict, Told

\* Outbound delivery, with its store, its handlers, its crashes and Telegram
\* behind it, implements at-most-once delivery (handleDelivery).
THEOREM Implements == Spec => DeliversAtMostOnce
<1>1. Inv /\ Inv' /\ [Next]_vars => [Abstract!Next]_<<wire, posted, Verdicts, Told>>
  <2>1. UNCHANGED vars => UNCHANGED <<wire, posted, Verdicts, Told>>
    BY DEF vars, storeVars, chatVars, histVars, Verdicts, Verdict, Decided, getDelivery,
           Told, Meaning, replayDelivery, Retry
  <2> QED BY <2>1, StepImplements DEF AbstractStep
<1>3. Inv /\ Inv' /\ [Next]_vars => [Abstract!Next]_(Abstract!vars)
  BY <1>1 DEF Abstract!vars, Verdicts, Verdict, Told
<1> QED BY Invariance, InitImplements, <1>3, PTL
        DEF Spec, DeliversAtMostOnce, Abstract!Spec

\* What Orka is told of a delivery, by whichever handler, process and schema,
\* is one thing and is so for ever: "delivered" names the one message of the
\* delivery, and after "refused" no message ever comes.
THEOREM PromiseKept == Spec => []Abstract!Promise
BY Implements, Abstract!PromiseKept, PTL DEF DeliversAtMostOnce
=============================================================================
