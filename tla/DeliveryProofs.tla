--------------------------- MODULE DeliveryProofs ---------------------------
(***************************************************************************)
(* TLAPS proofs about DeliveryHandler, for every set of identities,        *)
(* contents, requests and workers, every lease and every bound.            *)
(*                                                                         *)
(* The argument.  A logical delivery k has at most one record (identities).*)
(* A record that may be claimed, being absent or retryable, has no effect  *)
(* in the chat and none on the wire (effects).  A claim is only made under *)
(* the gate, the gate is held until its result is recorded, and nobody     *)
(* else touches the record in the meantime (claims).                       *)
(***************************************************************************)
EXTENDS DeliveryHandler, SequenceTheorems, TLAPS

\* The logical delivery a record is about.
Key(d) == IF idempotency[d].version = 1 THEN d ELSE idempotency[d].i

\* Identities: aliases point at records and every record but those of an
\* unmigrated database is reachable by its own ID and by its key.
IdentityInv ==
  /\ \A d \in IDs : Exists(d) => deliveries[d].legacy \in Request
  /\ \A d \in IDs : Exists(d) /\ idempotency[d].version = 1 =>
       deliveries[d].legacy.d = d /\ deliveries[d].legacy.i = d
  /\ \A d \in IDs : idempotency[d].version = 2 =>
       /\ Exists(d)
       /\ idempotency[d].i \in IDs
       /\ aliases[idempotency[d].i] = d
  /\ \A x \in IDs : aliases[x] # None =>
       Exists(aliases[x]) /\ (Exists(x) => aliases[x] = x)
  /\ schema = 3 => \A d \in IDs : Exists(d) => aliases[d] = d
  /\ schema = 1 => mode = "down"
  /\ schema = 1 => \A d \in IDs : idempotency[d].version = 1 /\ aliases[d] = None

\* Effects: what a record says about the chat is true.
EffectInv ==
  /\ \A k \in IDs : \A m, n \in Effects(k) : m = n
  /\ \A k \in IDs : posted[k] \cap wire[k] = {}
  /\ \A k \in IDs : Effects(k) # {} => \E d \in IDs : Exists(d) /\ Key(d) = k
  /\ \A d \in IDs : deliveries[d].state \in {"retryable", "permanent"} =>
       Effects(Key(d)) = {}
  /\ \A d \in IDs : deliveries[d].state = "delivered" =>
       posted[Key(d)] = {deliveries[d].msg} /\ wire[Key(d)] = {}

\* The process: nothing runs while it does not serve; one worker at a time
\* is between Begin and the end of persisting.
GateInv ==
  /\ mode # "up" => gate = None /\ \A w \in Workers : pc[w] = "idle"
  /\ \A w \in Workers :
       pc[w] \in {"begin", "claimed", "await", "persist"} => gate = w
  /\ \A w \in Workers : pc[w] # "idle" => req[w] \in Requests

Holds(w) == pc[w] \in {"claimed", "await", "persist"}

\* What a worker that holds a claim knows of the chat.
Chat(w) ==
  /\ pc[w] = "claimed" => Effects(req[w].i) = {}
  /\ pc[w] = "await" => Effects(req[w].i) = {call[w]}
  /\ pc[w] = "persist" =>
       /\ result[w].state \in {"retryable", "permanent"} =>
            Effects(req[w].i) = {}
       /\ result[w].state = "delivered" =>
            posted[req[w].i] = {result[w].msg} /\ wire[req[w].i] = {}

\* Claims: the record a worker has claimed is its own until it is done.
ClaimInv ==
  \A w \in Workers :
    /\ Holds(w) =>
         /\ canon[w] \in IDs
         /\ deliveries[canon[w]].state = "sending"
         /\ idempotency[canon[w]] = [version |-> 2, i |-> req[w].i,
                                     digest |-> Logical(req[w])]
    /\ Chat(w)

\* A record read by one of the SELECTs is still there, and final if it was.
Sound(record, n, r) ==
  record.state # "absent" =>
    /\ record.d \in IDs
    /\ aliases[IF n <= 2 THEN r.d ELSE r.i] = record.d
    /\ record.state \in Final => deliveries[record.d].state \in Final

\* Inspection: what a worker has read is sound.
SeenInv ==
  \A w \in Workers :
    /\ pc[w] = "inspect" =>
         /\ Len(seen[w]) <= 3
         /\ \A n \in 1..Len(seen[w]) : Sound(seen[w][n], n, req[w])
    /\ pc[w] = "replay" =>
         /\ canon[w] \in IDs
         /\ deliveries[canon[w]].state \in Final
         /\ canon[w] \in {aliases[req[w].d], aliases[req[w].i]}

\* Responses: a final response other than a conflict is what the record of
\* the delivery says.
Backed(r, response) ==
  response.status = "retryable" \/ response = Conflict \/
  \E d \in IDs : /\ deliveries[d].state \in Final
                 /\ Key(d) = r.i
                 /\ response = replayDelivery(deliveries[d])

AnswerInv ==
  /\ \A w \in Workers : pc[w] = "answer" => Backed(req[w], reply[w])
  /\ \A a \in answers : Backed(a.req, a.reply) /\ a.reply.status # "retryable"
  /\ \A d \in IDs : deliveries[d].state = "unknown" =>
       deliveries[d].message \notin {"provider", "routing"}
  /\ \A w \in Workers : pc[w] = "persist" /\ result[w].state = "unknown" =>
       result[w].message \notin {"provider", "routing"}

\* Only a retryable result, or the record of one, has a retry time.
WaitInv ==
  /\ \A d \in IDs : deliveries[d].state \in Final \cup {"absent"} =>
       deliveries[d].wait = 0
  /\ \A w \in Workers :
       pc[w] = "persist" /\ result[w].state \in Final => result[w].wait = 0

Inv == TypeOK /\ IdentityInv /\ EffectInv /\ GateInv /\ ClaimInv /\ SeenInv
       /\ AnswerInv /\ WaitInv

-----------------------------------------------------------------------------
(* Types.                                                                  *)

\* The values the model writes are values of their types.
LEMMA Members ==
  /\ {"absent", "sending", "retryable", "delivered", "permanent", "unknown"}
       \subseteq States
  /\ {"retryable", "delivered", "permanent", "unknown"} \subseteq Outcomes
  /\ Outcomes \subseteq States
  /\ {"", "ambiguous", "cooldown", "interrupted", "provider", "routing"}
       \subseteq Messages
  /\ 0 \in 0..MaxRetryAfter
  /\ 0 \in 0..Lease
BY LeaseAssumption, RetryAssumption DEF States, Outcomes, Messages

\* Whatever createOrBeginDelivery makes of a row is a row.
LEMMA BeginRowType ==
  ASSUME NEW row \in Rows, NEW r \in Request, cooldown \in 0..MaxRetryAfter
  PROVE  BeginRow(row, r) \in Rows
<1>1. Created(r) \in Rows
  BY Members DEF Created, Rows, NoRow
<1>2. Interrupted(row) \in Rows /\ Claimed(row) \in Rows
  BY Members DEF Interrupted, Claimed, Rows
<1> QED BY <1>1, <1>2 DEF BeginRow

\* Recording an interruption, or growing older, makes a row of a row.
LEMMA RowType ==
  ASSUME NEW row \in Rows
  PROVE  Interrupted(row) \in Rows /\ Older(row) \in Rows
<1>1. Interrupted(row) \in Rows
  BY Members DEF Interrupted, Rows
<1>2. /\ (IF row.wait > 0 THEN row.wait - 1 ELSE 0) \in 0..MaxRetryAfter
      /\ (IF row.state = "sending" /\ row.age < Lease
          THEN row.age + 1 ELSE row.age) \in 0..Lease
  BY LeaseAssumption, RetryAssumption DEF Rows
<1>3. Older(row) \in Rows
  BY <1>2 DEF Older, Rows
<1> QED BY <1>1, <1>3

\* Time does not change a row that waits for nothing.
LEMMA OlderStays ==
  ASSUME NEW row \in Rows, row.wait = 0, row.state # "sending"
  PROVE  Older(row) = row
<1>1. Older(row) = [row EXCEPT !.age = row.age, !.wait = row.wait]
  BY DEF Older
<1>2. [row EXCEPT !.age = row.age, !.wait = row.wait] = row
  BY Zenon DEF Rows
<1> QED BY <1>1, <1>2

\* replayDelivery makes a response of a row.
LEMMA ReplyType ==
  ASSUME NEW row \in Rows
  PROVE  replayDelivery(row) \in Replies
BY Members DEF replayDelivery, Rows, Replies, Retry

\* The logical digest is a digest.
LEMMA LogicalType ==
  ASSUME NEW r \in Request
  PROVE  Logical(r) \in Request /\ Logical(r).i = r.i /\ Logical(r).d = r.i
BY DEF Logical, Request

\* A SELECT returns a record, of an existing delivery unless it is absent.
LEMMA ReadType ==
  ASSUME StoreTypeOK, NEW r \in Request, NEW n \in 1..4
  PROVE  /\ Read(r, n) \in Records
         /\ Read(r, n).state # "absent" => Read(r, n).d \in IDs
<1> DEFINE x == IF n <= 2 THEN r.d ELSE r.i
<1>0. x \in IDs
  BY DEF Request
<1>1. ASSUME NEW d \in IDs
      PROVE  /\ getDelivery(d) \in Records
             /\ getDelivery(d).d = d
             /\ getDelivery(d).state = deliveries[d].state
  BY DEF getDelivery, StoreTypeOK, Records, Rows, IdempotencyRows
<1>2. NotFound \in Records /\ NotFound.state = "absent"
  BY Members DEF NotFound, Records
<1>3. getDeliveryByAlias(x) = NotFound
      \/ (aliases[x] \in IDs /\ getDeliveryByAlias(x) = getDelivery(aliases[x]))
  BY <1>0 DEF getDeliveryByAlias, StoreTypeOK
<1>4. Read(r, n) = getDeliveryByAlias(x) \/ Read(r, n) = getDelivery(x)
  BY DEF Read
<1> HIDE DEF x
<1> QED BY <1>0, <1>1, <1>2, <1>3, <1>4

\* createOrBeginDelivery keeps the tables well-formed.
LEMMA BeginType ==
  ASSUME StoreTypeOK, NEW r \in Request, BeginDelivery(r)
  PROVE  /\ StoreTypeOK'
         /\ Canonical(r) \in IDs
         /\ replayDelivery(deliveries'[Canonical(r)]) \in Replies
<1> DEFINE d == Canonical(r)
<1>1. d \in IDs
  <2>1. \A n \in 1..4 : /\ Resolved(r)[n].state # "absent" => Resolved(r)[n].d \in IDs
    BY ReadType DEF Resolved
  <2> QED BY <2>1 DEF Canonical, FirstFound, Request
<1> HIDE DEF d
<1>2. deliveries' \in [IDs -> Rows]
  <2>1. BeginRow(deliveries[d], r) \in Rows
    BY <1>1, BeginRowType DEF StoreTypeOK
  <2> QED BY <1>1, <2>1 DEF BeginDelivery, StoreTypeOK, d
<1>3. idempotency' \in [IDs -> IdempotencyRows]
  <2>1. [version |-> 2, i |-> r.i, digest |-> Logical(r)] \in IdempotencyRows
    BY LogicalType DEF IdempotencyRows, Request
  <2> QED BY <1>1, <2>1 DEF BeginDelivery, StoreTypeOK, d
<1>4. aliases' \in [IDs -> IDs \cup {None}]
  BY <1>1 DEF BeginDelivery, StoreTypeOK, d, Request
<1>5. replayDelivery(deliveries'[d]) \in Replies
  BY <1>1, <1>2, ReplyType
<1> QED BY <1>1, <1>2, <1>3, <1>4, <1>5 DEF BeginDelivery, StoreTypeOK, d

\* So does updateDelivery.
LEMMA UpdateType ==
  ASSUME StoreTypeOK, NEW d \in IDs, NEW res \in Results,
         updateDelivery(d, res)
  PROVE  StoreTypeOK' /\ replayDelivery(deliveries'[d]) \in Replies
<1> DEFINE row == [deliveries[d] EXCEPT !.state = res.state, !.msg = res.msg,
                     !.message = res.message, !.wait = res.wait, !.age = 0]
<1>1. row \in Rows
  BY Members DEF StoreTypeOK, Rows, Results
<1>2. deliveries' = [deliveries EXCEPT ![d] = row]
  BY DEF updateDelivery
<1> HIDE DEF row
<1>3. deliveries' \in [IDs -> Rows]
  BY <1>1, <1>2 DEF StoreTypeOK
<1>4. cooldown' \in 0..MaxRetryAfter
  BY DEF updateDelivery, StoreTypeOK, MaxOf, Results
<1>5. replayDelivery(deliveries'[d]) \in Replies
  BY <1>3, ReplyType
<1> QED BY <1>3, <1>4, <1>5 DEF updateDelivery, StoreTypeOK

\* Under the checks of createOrBeginDelivery, the record a request resolves
\* to is the record of its logical delivery, or the first one.
LEMMA BeginFacts ==
  ASSUME StoreTypeOK, IdentityInv, schema = 3, NEW r \in Request,
         ~BeginConflict(r), NEW d, d = Canonical(r)
  PROVE  /\ d \in IDs
         /\ aliases[r.d] \in {None, d} /\ aliases[r.i] \in {None, d}
         /\ (Exists(r.d) => r.d = d) /\ (Exists(r.i) => r.i = d)
         /\ Exists(d) =>
              /\ Key(d) = r.i
              /\ d \in {aliases[r.d], aliases[r.i]}
              /\ idempotency[d].version = 2 =>
                   idempotency[d] = [version |-> 2, i |-> r.i,
                                     digest |-> Logical(r)]
         /\ ~Exists(d) =>
              d = r.d /\ aliases[r.d] = None /\ aliases[r.i] = None
<1>1. r.d \in IDs /\ r.i \in IDs
  BY DEF Request
<1>2. ~AliasTaken(r.d, d) /\ ~AliasTaken(r.i, d)
      /\ ~InspectConflict(Resolved(r), r)
  BY DEF BeginConflict
<1> DEFINE s == Resolved(r)
<1>3. \A n \in 1..4 : s[n] = Read(r, n)
  BY DEF Resolved
<1>4. ASSUME NEW e \in IDs
      PROVE  getDelivery(e).d = e /\ getDelivery(e).state = deliveries[e].state
  BY DEF getDelivery
<1>5. ASSUME NEW n \in 1..4, s[n].state # "absent"
      PROVE  /\ s[n].d \in IDs /\ Exists(s[n].d)
             /\ s[n] = getDelivery(s[n].d)
             /\ s[n].d \in {aliases[r.d], aliases[r.i]}
  <2> DEFINE x == IF n <= 2 THEN r.d ELSE r.i
  <2>1. x \in IDs /\ aliases[x] \in IDs \cup {None}
    BY <1>1 DEF StoreTypeOK
  <2>2. s[n] = getDeliveryByAlias(x) \/ s[n] = getDelivery(x)
    BY <1>3 DEF Read
  <2>3. CASE s[n] = getDelivery(x)
    <3>1. Exists(x) /\ s[n].d = x
      BY <2>1, <2>3, <1>4, <1>5 DEF Exists
    <3>2. aliases[x] = x
      BY <3>1, <2>1 DEF IdentityInv
    <3> QED BY <3>1, <3>2, <2>1, <2>3
  <2>4. CASE s[n] = getDeliveryByAlias(x)
    <3>1. aliases[x] \in IDs /\ s[n] = getDelivery(aliases[x])
      BY <2>1, <2>4, <1>5 DEF getDeliveryByAlias, NotFound
    <3> QED BY <3>1, <1>4, <1>5 DEF Exists
  <2> QED BY <2>2, <2>3, <2>4
<1> DEFINE f == FirstFound(s)
<1>6. \E n \in 1..4 : f = s[n]
  BY DEF FirstFound
<1>7. CASE f.state # "absent"
  <2>1. d = f.d /\ d \in IDs /\ Exists(d) /\ f = getDelivery(d)
        /\ d \in {aliases[r.d], aliases[r.i]}
    BY <1>5, <1>6, <1>7 DEF Canonical
  <2>2. Matches(getDelivery(d), r)
    BY <1>2, <1>7, <2>1 DEF InspectConflict
  <2>3. Logical(r) \in Request /\ Logical(r).i = r.i /\ Logical(r).d = r.i
    BY LogicalType
  <2>4. CASE idempotency[d].version = 1
    <3>1. deliveries[d].legacy.d = d /\ deliveries[d].legacy.i = d
      BY <2>1, <2>4 DEF IdentityInv
    <3>2. d = r.i
      BY <2>2, <2>3, <2>4, <3>1 DEF Matches, getDelivery
    <3> QED BY <1>1, <1>2, <2>1, <2>4, <3>2 DEF AliasTaken, Key
  <2>5. CASE idempotency[d].version = 2
    <3>1. idempotency[d].i = r.i /\ idempotency[d].digest = Logical(r)
      BY <2>2, <2>5 DEF Matches, getDelivery
    <3>2. idempotency[d] = [version |-> 2, i |-> r.i, digest |-> Logical(r)]
      BY <2>1, <2>5, <3>1 DEF StoreTypeOK, IdempotencyRows
    <3> QED BY <1>1, <1>2, <2>1, <2>5, <3>1, <3>2 DEF AliasTaken, Key
  <2>6. idempotency[d].version \in {1, 2}
    BY <2>1 DEF StoreTypeOK, IdempotencyRows
  <2> QED BY <2>4, <2>5, <2>6
<1>8. CASE f.state = "absent"
  <2>1. \A n \in 1..4 : s[n].state = "absent"
    BY <1>8 DEF FirstFound
  <2>2. d = r.d
    BY <1>8 DEF Canonical
  <2>3. aliases[r.d] = None
    <3>1. SUFFICES ASSUME aliases[r.d] # None PROVE FALSE
      OBVIOUS
    <3>2. aliases[r.d] \in IDs /\ Exists(aliases[r.d])
      BY <1>1, <3>1 DEF StoreTypeOK, IdentityInv
    <3>3. s[1] = getDelivery(aliases[r.d])
      BY <1>3, <3>1 DEF Read, getDeliveryByAlias
    <3> QED BY <3>2, <3>3, <2>1, <1>4 DEF Exists
  <2>4. aliases[r.i] = None
    <3>1. SUFFICES ASSUME aliases[r.i] # None PROVE FALSE
      OBVIOUS
    <3>2. aliases[r.i] \in IDs /\ Exists(aliases[r.i])
      BY <1>1, <3>1 DEF StoreTypeOK, IdentityInv
    <3>3. s[3] = getDelivery(aliases[r.i])
      BY <1>3, <3>1 DEF Read, getDeliveryByAlias
    <3> QED BY <3>2, <3>3, <2>1, <1>4 DEF Exists
  <2>5. ~Exists(r.d) /\ ~Exists(r.i)
    <3>1. s[2] = getDelivery(r.d) /\ s[4] = getDelivery(r.i)
      BY <1>3 DEF Read
    <3> QED BY <3>1, <2>1, <1>1, <1>4 DEF Exists
  <2> QED BY <1>1, <2>2, <2>3, <2>4, <2>5
<1> QED BY <1>7, <1>8

\* Appending leaves what was there in place.
LEMMA AppendKeeps ==
  ASSUME NEW S, NEW q \in Seq(S), NEW e \in S, NEW i \in 1..Len(q)
  PROVE  Append(q, e)[i] = q[i]
BY AppendProperties, SMT

\* The appended element comes last.
LEMMA AppendLast ==
  ASSUME NEW S, NEW q \in Seq(S), NEW e \in S
  PROVE  Len(Append(q, e)) = Len(q) + 1 /\ Append(q, e)[Len(q) + 1] = e
<1>1. Len(Append(q, e)) = Len(q) + 1
  BY AppendProperties, Zenon
<1>2. Append(q, e)[Len(q) + 1] = e
  BY AppendProperties, Zenon
<1> QED BY <1>1, <1>2

\* Three records read and a fourth.
LEMMA FourthRead ==
  ASSUME NEW S, NEW q \in Seq(S), Len(q) = 3, NEW e \in S
  PROVE  (\A n \in 1..3 : Append(q, e)[n] = q[n]) /\ Append(q, e)[4] = e
<1>1. ASSUME NEW n \in 1..3 PROVE Append(q, e)[n] = q[n]
  <2>1. n \in 1..Len(q)
    OBVIOUS
  <2> QED BY <2>1, AppendKeeps
<1>2. Append(q, e)[Len(q) + 1] = e
  BY AppendLast
<1>3. Len(q) + 1 = 4
  OBVIOUS
<1> QED BY <1>1, <1>2, <1>3, Zenon

\* Every step keeps every variable in its type.
LEMMA TypeStep == Inv /\ Next => TypeOK'
<1> SUFFICES ASSUME Inv, Next PROVE TypeOK'
  OBVIOUS
<1> USE DEF Inv, TypeOK
<1> USE RequestsAssumption
<1>0. /\ \A w \in Workers : pc[w] # "idle" => req[w] \in Requests /\ req[w] \in Request
      /\ Retry \in Replies /\ Conflict \in Replies /\ NoResult \in Results
      /\ \A w \in Workers : Holds(w) => canon[w] \in IDs
  BY Members DEF GateInv, ClaimInv, Replies, Retry, Conflict, NoResult, Result, Results
<1>a. UNCHANGED storeVars => StoreTypeOK'
  BY DEF storeVars, StoreTypeOK
<1>b. UNCHANGED procVars => ProcTypeOK'
  BY DEF procVars, ProcTypeOK
<1>c. UNCHANGED workerVars => WorkerTypeOK'
  BY DEF workerVars, WorkerTypeOK
<1>d. UNCHANGED chatVars => ChatTypeOK'
  BY DEF chatVars, ChatTypeOK
<1>e. UNCHANGED histVars => HistTypeOK'
  BY DEF histVars, HistTypeOK
<1>f. ASSUME NEW w \in Workers, NEW res \in Replies, Answer(w, res),
             UNCHANGED <<req, call, result>>,
             seen' = seen \/ seen' = [seen EXCEPT ![w] = <<>>],
             canon' = canon
      PROVE  WorkerTypeOK'
  <2>1. seen' \in [Workers -> Seq(Records)]
    <3>1. <<>> \in Seq(Records)
      BY EmptySeq
    <3> QED BY <1>f, <3>1 DEF WorkerTypeOK
  <2>2. pc' \in [Workers -> Labels] /\ reply' \in [Workers -> Replies]
    BY <1>f DEF WorkerTypeOK, Answer, Goto, Labels
  <2> QED BY <1>f, <2>1, <2>2 DEF WorkerTypeOK
<1>1. ASSUME NEW w \in Workers, NEW r \in Requests, Submit(w, r)
      PROVE  TypeOK'
  <2>1. WorkerTypeOK'
    BY <1>1 DEF Submit, Goto, WorkerTypeOK, Labels
  <2> QED BY <1>1, <1>a, <1>b, <1>d, <1>e, <2>1 DEF Submit
<1>2. ASSUME NEW w \in Workers, InspectRead(w)
      PROVE  TypeOK'
  <2>1. Len(seen[w]) + 1 \in 1..4
    BY <1>2 DEF InspectRead, WorkerTypeOK
  <2>2. Read(req[w], Len(seen[w]) + 1) \in Records
    BY <1>0, <1>2, <2>1, ReadType DEF InspectRead
  <2>3. WorkerTypeOK'
    BY <1>2, <2>2 DEF InspectRead, WorkerTypeOK
  <2> QED BY <1>2, <1>a, <1>b, <1>d, <1>e, <2>3 DEF InspectRead
<1>3. ASSUME NEW w \in Workers, InspectDecide(w)
      PROVE  TypeOK'
  <2> DEFINE s == Append(seen[w], Read(req[w], 4))
  <2>1. FirstFound(s).d \in IDs \cup {None}
    <3>1. Read(req[w], 4) \in Records
      BY <1>0, <1>3, ReadType DEF InspectDecide
    <3>2. seen[w] \in Seq(Records) /\ Len(seen[w]) = 3
      BY <1>3 DEF InspectDecide, WorkerTypeOK
    <3>3. \A n \in 1..4 : s[n] \in Records
      <4>1. /\ \A n \in 1..3 : s[n] = seen[w][n]
            /\ s[4] = Read(req[w], 4)
        BY <3>1, <3>2, FourthRead
      <4>2. \A n \in 1..3 : seen[w][n] \in Records
        BY <3>2
      <4> HIDE DEF s
      <4> QED BY <3>1, <4>1, <4>2
    <3> HIDE DEF s
    <3> QED BY <3>3 DEF FirstFound, Records
  <2> HIDE DEF s
  <2>2. /\ seen' = [seen EXCEPT ![w] = <<>>]
        /\ \/ Answer(w, Conflict) /\ UNCHANGED canon
           \/ /\ Goto(w, "replay")
              /\ canon' = [canon EXCEPT ![w] = FirstFound(s).d]
              /\ UNCHANGED reply
           \/ Goto(w, "waiting") /\ UNCHANGED <<canon, reply>>
        /\ UNCHANGED <<storeVars, procVars, req, call, result, chatVars, histVars>>
    BY <1>3 DEF InspectDecide, s
  <2>3. WorkerTypeOK'
    <3>1. CASE Answer(w, Conflict) /\ UNCHANGED canon
      BY <1>0, <2>2, <3>1, <1>f
    <3>2. CASE Goto(w, "replay") /\ UNCHANGED reply
               /\ canon' = [canon EXCEPT ![w] = FirstFound(s).d]
      <4>1. pc' \in [Workers -> Labels]
        BY <3>2 DEF Goto, WorkerTypeOK, Labels
      <4>2. seen' \in [Workers -> Seq(Records)]
        BY <2>2, EmptySeq DEF WorkerTypeOK
      <4>3. canon' \in [Workers -> IDs \cup {None}]
        BY <2>1, <3>2 DEF WorkerTypeOK
      <4> QED BY <2>2, <3>2, <4>1, <4>2, <4>3 DEF WorkerTypeOK
    <3>3. CASE Goto(w, "waiting") /\ UNCHANGED <<canon, reply>>
      <4>1. pc' \in [Workers -> Labels]
        BY <3>3 DEF Goto, WorkerTypeOK, Labels
      <4>2. seen' \in [Workers -> Seq(Records)]
        BY <2>2, EmptySeq DEF WorkerTypeOK
      <4> QED BY <2>2, <3>3, <4>1, <4>2 DEF WorkerTypeOK
    <3> QED BY <2>2, <3>1, <3>2, <3>3
  <2> QED BY <2>2, <2>3, <1>a, <1>b, <1>d, <1>e
<1>4. ASSUME NEW w \in Workers, StoreFails(w) \/ CancelWait(w)
      PROVE  TypeOK'
  <2>1. CASE StoreFails(w)
    BY <1>0, <2>1, <1>a, <1>b, <1>d, <1>e, <1>f DEF StoreFails
  <2>2. CASE CancelWait(w)
    BY <1>0, <2>2, <1>a, <1>b, <1>d, <1>e, <1>f DEF CancelWait
  <2> QED BY <1>4, <2>1, <2>2
<1>5. ASSUME NEW w \in Workers, ReplayTerminal(w)
      PROVE  TypeOK'
  <2>1. StoreTypeOK' /\ \E res \in Replies : Answer(w, res)
    <3>1. CASE UNCHANGED storeVars /\ Answer(w, Retry)
      BY <3>1, <1>0, <1>a
    <3>2. CASE BeginDelivery(req[w])
               /\ Answer(w, replayDelivery(deliveries'[Canonical(req[w])]))
      BY <1>0, <1>5, <3>2, BeginType DEF ReplayTerminal
    <3> QED BY <1>5, <3>1, <3>2 DEF ReplayTerminal
  <2>2. WorkerTypeOK'
    BY <1>5, <2>1, <1>f DEF ReplayTerminal
  <2> QED BY <1>5, <2>1, <2>2, <1>b, <1>d, <1>e DEF ReplayTerminal
<1>6. ASSUME NEW w \in Workers, AcquireGate(w)
      PROVE  TypeOK'
  <2>1. WorkerTypeOK' /\ ProcTypeOK'
    BY <1>6 DEF AcquireGate, Goto, WorkerTypeOK, ProcTypeOK, Labels
  <2> QED BY <1>6, <2>1, <1>a, <1>d, <1>e DEF AcquireGate
<1>8. ASSUME NEW w \in Workers, BeginInGate(w)
      PROVE  TypeOK'
  <2>1. CASE UNCHANGED <<storeVars, canon>> /\ Answer(w, Conflict)
    <3>1. WorkerTypeOK'
      BY <1>0, <1>8, <2>1, <1>f DEF BeginInGate
    <3> QED BY <1>8, <2>1, <3>1, <1>a, <1>b, <1>d, <1>e DEF BeginInGate
  <2>2. CASE /\ BeginDelivery(req[w]) /\ UNCHANGED canon
             /\ Answer(w, replayDelivery(deliveries'[Canonical(req[w])]))
    <3>1. StoreTypeOK' /\ replayDelivery(deliveries'[Canonical(req[w])]) \in Replies
      BY <1>0, <1>8, <2>2, BeginType DEF BeginInGate
    <3>2. WorkerTypeOK'
      BY <1>8, <2>2, <3>1, <1>f DEF BeginInGate
    <3> QED BY <1>8, <3>1, <3>2, <1>b, <1>d, <1>e DEF BeginInGate
  <2>3. CASE /\ BeginDelivery(req[w]) /\ Goto(w, "claimed") /\ UNCHANGED reply
             /\ canon' = [canon EXCEPT ![w] = Canonical(req[w])]
    <3>1. StoreTypeOK' /\ Canonical(req[w]) \in IDs
      BY <1>0, <1>8, <2>3, BeginType DEF BeginInGate
    <3>2. WorkerTypeOK'
      BY <1>8, <2>3, <3>1 DEF BeginInGate, Goto, WorkerTypeOK, Labels
    <3> QED BY <1>8, <3>1, <3>2, <1>b, <1>d, <1>e DEF BeginInGate
  <2> QED BY <1>8, <2>1, <2>2, <2>3 DEF BeginInGate
<1>9. ASSUME NEW w \in Workers, NEW res \in Results, Outcome(w, res),
             UNCHANGED <<req, seen, canon, call, reply>>
      PROVE  WorkerTypeOK'
  BY <1>9 DEF Outcome, Goto, WorkerTypeOK, Labels
<1>10. ASSUME NEW w \in Workers,
              RefuseLocally(w) \/ NotWritten(w) \/ ReceiveMessage(w) \/ ReceiveNothing(w)
       PROVE  TypeOK'
  <2>1. /\ Result("permanent", 0, "routing", 0) \in Results
        /\ Result("retryable", 0, "provider", 0) \in Results
        /\ Result("delivered", call[w], "", 0) \in Results
        /\ Result("unknown", 0, "ambiguous", 0) \in Results
    BY Members DEF Result, Results, WorkerTypeOK
  <2>2. WorkerTypeOK'
    BY <1>10, <2>1, <1>9 DEF RefuseLocally, NotWritten, ReceiveMessage, ReceiveNothing
  <2> QED BY <1>10, <2>2, <1>a, <1>b, <1>d, <1>e
          DEF RefuseLocally, NotWritten, ReceiveMessage, ReceiveNothing
<1>11. ASSUME NEW w \in Workers, CallTelegram(w)
       PROVE  TypeOK'
  <2>1. req[w].i \in IDs
    BY <1>0, <1>11 DEF CallTelegram, Request
  <2>2. WorkerTypeOK'
    BY <1>11 DEF CallTelegram, Goto, WorkerTypeOK, ChatTypeOK, Labels
  <2>3. ChatTypeOK'
    BY <1>11, <2>1 DEF CallTelegram, ChatTypeOK
  <2> QED BY <1>11, <2>2, <2>3, <1>a, <1>b, <1>e DEF CallTelegram
<1>12. ASSUME NEW w \in Workers, NEW state \in {"retryable", "permanent"},
              NEW wait \in 0..MaxRetryAfter, ReceiveRefusal(w, state, wait)
       PROVE  TypeOK'
  <2>1. Result(state, 0, "provider", wait) \in Results
    BY Members DEF Result, Results
  <2>2. WorkerTypeOK'
    BY <1>12, <2>1, <1>9 DEF ReceiveRefusal
  <2>3. ChatTypeOK'
    BY <1>0, <1>12 DEF ReceiveRefusal, ChatTypeOK
  <2>4. HistTypeOK'
    BY <1>12 DEF ReceiveRefusal, HistTypeOK, MaxOf
  <2> QED BY <1>12, <2>2, <2>3, <2>4, <1>a, <1>b DEF ReceiveRefusal
<1>13. ASSUME NEW w \in Workers, Persist(w) \/ PersistFails(w)
       PROVE  TypeOK'
  <2>1. StoreTypeOK' /\ \E res \in Replies : Answer(w, res)
    <3>1. CASE UNCHANGED storeVars /\ Answer(w, Retry)
      BY <3>1, <1>0, <1>a
    <3>2. CASE /\ pc[w] = "persist" /\ updateDelivery(canon[w], result[w])
               /\ Answer(w, replayDelivery(deliveries'[canon[w]]))
      <4>1. canon[w] \in IDs /\ result[w] \in Results
        BY <1>0, <3>2 DEF Holds, WorkerTypeOK
      <4> QED BY <4>1, <3>2, UpdateType
    <3> QED BY <1>13, <3>1, <3>2 DEF Persist, PersistFails
  <2>2. WorkerTypeOK'
    BY <1>13, <2>1, <1>f DEF Persist, PersistFails
  <2>3. HistTypeOK'
    BY <1>13 DEF Persist, PersistFails, HistTypeOK
  <2> QED BY <1>13, <2>1, <2>2, <2>3, <1>b, <1>d DEF Persist, PersistFails
<1>14. ASSUME NEW w \in Workers, Respond(w)
       PROVE  TypeOK'
  <2>1. WorkerTypeOK'
    BY <1>0, <1>14 DEF Respond, Goto, WorkerTypeOK, Labels
  <2>2. ProcTypeOK'
    BY <1>14 DEF Respond, ProcTypeOK
  <2>3. HistTypeOK'
    <3>1. [req |-> req[w], reply |-> reply[w]] \in [req : Requests, reply : Replies]
      BY <1>0, <1>14 DEF Respond, WorkerTypeOK
    <3> QED BY <1>14, <3>1 DEF Respond, HistTypeOK
  <2> QED BY <1>14, <2>1, <2>2, <2>3, <1>a, <1>d DEF Respond
<1>15. ASSUME NEW k \in IDs, NEW n \in wire[k], TelegramPosts(k, n) \/ TelegramDrops(k, n)
       PROVE  TypeOK'
  <2>1. ChatTypeOK'
    BY <1>15 DEF TelegramPosts, TelegramDrops, ChatTypeOK
  <2> QED BY <1>15, <2>1, <1>a, <1>b, <1>c, <1>e DEF TelegramPosts, TelegramDrops
<1>16. ASSUME Tick
       PROVE  TypeOK'
  <2>1. StoreTypeOK'
    BY <1>16, RowType, RetryAssumption DEF Tick, StoreTick, StoreTypeOK
  <2>2. HistTypeOK'
    BY <1>16, RetryAssumption DEF Tick, HistTypeOK
  <2> QED BY <1>16, <2>1, <2>2, <1>b, <1>c, <1>d DEF Tick
<1>17. ASSUME Crash
       PROVE  TypeOK'
  <2>1. WorkerTypeOK'
    BY <1>0, <1>17 DEF Crash, WorkerTypeOK, Labels
  <2>2. ProcTypeOK' /\ HistTypeOK'
    BY <1>17 DEF Crash, ProcTypeOK, HistTypeOK
  <2> QED BY <1>17, <2>1, <2>2, <1>a, <1>d DEF Crash
<1>18. ASSUME Migrate \/ Serve
       PROVE  TypeOK'
  <2>1. StoreTypeOK' /\ ProcTypeOK'
    BY <1>18 DEF Migrate, Serve, ProcTypeOK, StoreTypeOK, storeVars
  <2> QED BY <1>18, <2>1, <1>c, <1>d, <1>e DEF Migrate, Serve
<1>19. ASSUME Recover
       PROVE  TypeOK'
  <2>1. StoreTypeOK'
    BY <1>19, RowType DEF Recover, recoverInterruptedDeliveries, StoreTypeOK
  <2>2. ProcTypeOK'
    BY <1>19 DEF Recover, ProcTypeOK
  <2> QED BY <1>19, <2>1, <2>2, <1>c, <1>d, <1>e DEF Recover
<1> QED BY <1>1, <1>2, <1>3, <1>4, <1>5, <1>6, <1>8, <1>10, <1>11, <1>12,
        <1>13, <1>14, <1>15, <1>16, <1>17, <1>18, <1>19
        DEF Next, Environment, WorkerStep

-----------------------------------------------------------------------------
(* Identities.                                                             *)

\* What a permitted Begin does: it touches the row d of its own delivery,
\* which exists from then on, and forgets no identity.
LEMMA BeginEffect ==
  ASSUME StoreTypeOK, IdentityInv, schema = 3, NEW r \in Request,
         ~BeginConflict(r), BeginDelivery(r), NEW d, d = Canonical(r)
  PROVE  /\ d \in IDs
         /\ Exists(d)' /\ Key(d)' = r.i
         /\ deliveries'[d] = BeginRow(deliveries[d], r)
         /\ idempotency'[d] = [version |-> 2, i |-> r.i, digest |-> Logical(r)]
         /\ \A e \in IDs \ {d} : /\ deliveries'[e] = deliveries[e]
                                 /\ idempotency'[e] = idempotency[e]
         /\ aliases'[r.d] = d /\ aliases'[r.i] = d
         /\ \A x \in IDs : x \in {r.d, r.i} \/ aliases'[x] = aliases[x]
         /\ \A x \in IDs : aliases[x] # None => aliases'[x] = aliases[x]
         /\ \A e \in IDs : Exists(e) => Exists(e)' /\ Key(e)' = Key(e)
<1>1. r.d \in IDs /\ r.i \in IDs
  BY DEF Request
<1>2. d \in IDs
  BY BeginFacts
<1>3. /\ deliveries'[d] = BeginRow(deliveries[d], r)
      /\ idempotency'[d] = [version |-> 2, i |-> r.i, digest |-> Logical(r)]
      /\ \A e \in IDs \ {d} : /\ deliveries'[e] = deliveries[e]
                              /\ idempotency'[e] = idempotency[e]
      /\ aliases'[r.d] = d /\ aliases'[r.i] = d
      /\ \A x \in IDs : x \in {r.d, r.i} \/ aliases'[x] = aliases[x]
  BY <1>1, <1>2 DEF BeginDelivery, StoreTypeOK
<1>4. \A x \in IDs : aliases[x] # None => aliases'[x] = aliases[x]
  BY <1>3, BeginFacts
<1>5. BeginRow(deliveries[d], r).state # "absent"
  <2>1. Created(r).state # "absent"
    BY DEF Created, NoRow
  <2>2. deliveries[d] \in Rows
    BY <1>2 DEF StoreTypeOK
  <2>3. Interrupted(deliveries[d]).state # "absent" /\ Claimed(deliveries[d]).state # "absent"
    BY <2>2 DEF Interrupted, Claimed, Rows
  <2> QED BY <2>1, <2>3 DEF BeginRow
<1>6. Exists(d)' /\ Key(d)' = r.i
  BY <1>3, <1>5 DEF Exists, Key
<1>7. ASSUME NEW e \in IDs, Exists(e)
      PROVE  Exists(e)' /\ Key(e)' = Key(e)
  <2>1. CASE e = d
    BY <2>1, <1>6, <1>7, BeginFacts
  <2>2. CASE e # d
    BY <2>2, <1>3, <1>7 DEF Exists, Key
  <2> QED BY <2>1, <2>2
<1> QED BY <1>2, <1>3, <1>4, <1>6, <1>7

\* A Begin keeps the identities sound.
LEMMA BeginIdentity ==
  ASSUME StoreTypeOK, IdentityInv, schema = 3, schema' = 3, NEW r \in Request,
         ~BeginConflict(r), BeginDelivery(r)
  PROVE  IdentityInv'
<1>0. SUFFICES ASSUME NEW d, d = Canonical(r) PROVE IdentityInv'
  OBVIOUS
<1>1. /\ d \in IDs
      /\ Exists(d)' /\ Key(d)' = r.i
      /\ deliveries'[d] = BeginRow(deliveries[d], r)
      /\ idempotency'[d] = [version |-> 2, i |-> r.i, digest |-> Logical(r)]
      /\ \A e \in IDs \ {d} : /\ deliveries'[e] = deliveries[e]
                              /\ idempotency'[e] = idempotency[e]
      /\ aliases'[r.d] = d /\ aliases'[r.i] = d
      /\ \A x \in IDs : x \in {r.d, r.i} \/ aliases'[x] = aliases[x]
      /\ \A x \in IDs : aliases[x] # None => aliases'[x] = aliases[x]
      /\ \A e \in IDs : Exists(e) => Exists(e)' /\ Key(e)' = Key(e)
  BY <1>0, BeginEffect
<1>2. /\ (Exists(r.d) => r.d = d) /\ (Exists(r.i) => r.i = d)
      /\ Exists(d) => d \in {aliases[r.d], aliases[r.i]}
      /\ ~Exists(d) => d = r.d /\ aliases[r.d] = None /\ aliases[r.i] = None
  BY <1>0, BeginFacts
<1>3. r.d \in IDs /\ r.i \in IDs
  BY DEF Request
<1>4. ASSUME NEW e \in IDs, Exists(e)'
      PROVE  /\ deliveries'[e].legacy \in Request
             /\ idempotency'[e].version = 1 =>
                  deliveries'[e].legacy.d = e /\ deliveries'[e].legacy.i = e
             /\ aliases'[e] = e
  <2>1. CASE e = d
    <3>1. deliveries'[d].legacy \in Request
      <4>1. deliveries[d] \in Rows
        BY <1>1 DEF StoreTypeOK
      <4>2. CASE Exists(d)
        <5>1. deliveries[d].legacy \in Request
          BY <1>1, <4>2 DEF IdentityInv
        <5> QED BY <1>1, <4>1, <4>2, <5>1 DEF BeginRow, Interrupted, Claimed, Exists, Rows
      <4>3. CASE ~Exists(d)
        BY <1>1, <4>3 DEF BeginRow, Created, NoRow, Exists
      <4> QED BY <4>2, <4>3
    <3>2. aliases'[d] = d
      BY <1>1, <1>2 DEF IdentityInv
    <3> QED BY <2>1, <3>1, <3>2, <1>1
  <2>2. CASE e # d
    <3>1. Exists(e) /\ aliases[e] = e
      BY <1>1, <1>4, <2>2 DEF Exists, IdentityInv
    <3>2. aliases'[e] = e
      BY <1>1, <3>1, NoneAssumption
    <3> QED BY <3>1, <3>2, <1>1, <2>2 DEF IdentityInv
  <2> QED BY <2>1, <2>2
<1>5. ASSUME NEW e \in IDs, idempotency'[e].version = 2
      PROVE  Exists(e)' /\ idempotency'[e].i \in IDs /\ aliases'[idempotency'[e].i] = e
  <2>1. CASE e = d
    BY <2>1, <1>1, <1>3 DEF Exists
  <2>2. CASE e # d
    <3>1. idempotency[e].version = 2
      BY <1>1, <1>5, <2>2
    <3>2. Exists(e) /\ idempotency[e].i \in IDs /\ aliases[idempotency[e].i] = e
      BY <3>1 DEF IdentityInv
    <3> QED BY <1>1, <2>2, <3>2, NoneAssumption
  <2> QED BY <2>1, <2>2
<1>6. ASSUME NEW x \in IDs, aliases'[x] # None
      PROVE  Exists(aliases[x])' /\ (Exists(x)' => aliases'[x] = x)
  <2>1. CASE x \in {r.d, r.i}
    BY <1>1, <1>4, <2>1 DEF Exists
  <2>2. CASE x \notin {r.d, r.i}
    <3>1. aliases'[x] = aliases[x]
      BY <1>1, <2>2
    <3>2. aliases[x] \in IDs /\ Exists(aliases[x])
      BY <1>6, <3>1 DEF IdentityInv, StoreTypeOK
    <3> QED BY <1>1, <1>4, <3>1, <3>2 DEF Exists
  <2> QED BY <2>1, <2>2
<1> QED BY <1>4, <1>5, <1>6 DEF IdentityInv, Exists

\* Steps that neither add a row nor change an identity keep them sound.
LEMMA SameIdentity ==
  ASSUME StoreTypeOK, IdentityInv, UNCHANGED <<idempotency, aliases, schema>>,
         schema = 1 => mode' = "down",
         \A d \in IDs : /\ Exists(d)' = Exists(d)
                        /\ deliveries'[d].legacy = deliveries[d].legacy
  PROVE  IdentityInv'
<1>1. /\ idempotency' = idempotency /\ aliases' = aliases /\ schema' = schema
      /\ \A d \in IDs : /\ Exists(d)' <=> Exists(d)
                       /\ deliveries'[d].legacy = deliveries[d].legacy
  OBVIOUS
<1>2. /\ \A d \in IDs : Exists(d)' => deliveries'[d].legacy \in Request
      /\ \A d \in IDs : Exists(d)' /\ idempotency'[d].version = 1 =>
           deliveries'[d].legacy.d = d /\ deliveries'[d].legacy.i = d
      /\ \A d \in IDs : idempotency'[d].version = 2 =>
           /\ Exists(d)'
           /\ idempotency'[d].i \in IDs
           /\ aliases'[idempotency'[d].i] = d
      /\ schema' = 3 => \A d \in IDs : Exists(d)' => aliases'[d] = d
      /\ schema' = 1 => mode' = "down"
      /\ schema' = 1 => \A d \in IDs : idempotency'[d].version = 1 /\ aliases'[d] = None
  BY <1>1 DEF IdentityInv
<1>3. \A x \in IDs : aliases[x] # None =>
         aliases[x] \in IDs /\ Exists(aliases[x]) /\ (Exists(x) => aliases[x] = x)
  BY DEF IdentityInv, StoreTypeOK
<1>4. \A x \in IDs : aliases'[x] # None =>
         Exists(aliases[x])' /\ (Exists(x)' => aliases'[x] = x)
  BY <1>1, <1>3 DEF Exists
<1> QED BY <1>2, <1>4 DEF IdentityInv

\* Every step keeps the identities sound.
LEMMA IdentityStep == Inv /\ Next => IdentityInv'
<1> SUFFICES ASSUME Inv, Next PROVE IdentityInv'
  OBVIOUS
<1> USE DEF Inv, TypeOK
<1>0. \A w \in Workers : pc[w] # "idle" => schema = 3 /\ mode = "up" /\ req[w] \in Request
  BY RequestsAssumption DEF GateInv, IdentityInv, ProcTypeOK
<1>1. ASSUME UNCHANGED <<storeVars, schema>>, mode' = mode \/ mode' = "down" \/ schema = 3
      PROVE  IdentityInv'
  <2>1. schema = 1 => mode' = "down"
    BY <1>1 DEF IdentityInv
  <2> QED BY <1>1, <2>1, SameIdentity DEF storeVars, Exists
<1>2. ASSUME NEW w \in Workers, ReplayTerminal(w) \/ BeginInGate(w)
      PROVE  IdentityInv'
  <2>1. pc[w] # "idle" /\ UNCHANGED schema /\ mode' = mode
    BY <1>2 DEF ReplayTerminal, BeginInGate, procVars, AcquireGate
  <2>2. CASE UNCHANGED storeVars
    BY <2>1, <2>2, <1>1
  <2>3. CASE ~BeginConflict(req[w]) /\ BeginDelivery(req[w])
    BY <2>1, <2>3, <1>0, BeginIdentity
  <2> QED BY <1>2, <2>2, <2>3 DEF ReplayTerminal, BeginInGate
<1>3. ASSUME NEW w \in Workers, Persist(w)
      PROVE  IdentityInv'
  <2>1. CASE UNCHANGED storeVars
    BY <1>1, <1>3, <2>1 DEF Persist, procVars
  <2>2. CASE updateDelivery(canon[w], result[w])
    <3>1. /\ canon[w] \in IDs /\ deliveries[canon[w]].state = "sending"
          /\ result[w] \in Results
      BY <1>3 DEF ClaimInv, Holds, Persist, WorkerTypeOK
    <3>2. result[w].state # "absent"
      BY <3>1 DEF Results, Outcomes
    <3>3. \A d \in IDs : /\ Exists(d)' = Exists(d)
                         /\ deliveries'[d].legacy = deliveries[d].legacy
      BY <2>2, <3>1, <3>2 DEF updateDelivery, Exists, StoreTypeOK, Rows
    <3>4. schema = 1 => mode' = "down"
      BY <1>3 DEF Persist, procVars, IdentityInv
    <3> QED BY <1>3, <2>2, <3>3, <3>4, SameIdentity DEF Persist, procVars, updateDelivery
  <2> QED BY <1>3, <2>1, <2>2 DEF Persist
<1>4. ASSUME Tick
      PROVE  IdentityInv'
  <2>1. \A d \in IDs : /\ Exists(d)' = Exists(d)
                       /\ deliveries'[d].legacy = deliveries[d].legacy
    BY <1>4 DEF Tick, StoreTick, Older, Exists, StoreTypeOK, Rows
  <2>2. schema = 1 => mode' = "down"
    BY <1>4 DEF Tick, procVars, IdentityInv
  <2> QED BY <1>4, <2>1, <2>2, SameIdentity DEF Tick, StoreTick, procVars
<1>5. ASSUME Recover
      PROVE  IdentityInv'
  <2>1. \A d \in IDs : /\ Exists(d)' = Exists(d)
                       /\ deliveries'[d].legacy = deliveries[d].legacy
    BY <1>5 DEF Recover, recoverInterruptedDeliveries, Interrupted, Exists,
       StoreTypeOK, Rows
  <2>2. schema # 1
    BY <1>5 DEF Recover, IdentityInv
  <2> QED BY <1>5, <2>1, <2>2, SameIdentity DEF Recover, recoverInterruptedDeliveries
<1>6. ASSUME Migrate
      PROVE  IdentityInv'
  <2>1. CASE schema = 3
    BY <1>6, <2>1, <1>1 DEF Migrate, storeVars
  <2>2. CASE schema = 1
    <3>1. \A k \in IDs : idempotency[k].version = 1
      BY <2>2 DEF IdentityInv
    <3>2. /\ schema' = 3 /\ deliveries' = deliveries /\ idempotency' = idempotency
          /\ \A k \in IDs : aliases'[k] = IF Exists(k) THEN k ELSE None
      BY <1>6, <2>2 DEF Migrate
    <3> QED BY <3>1, <3>2, NoneAssumption DEF IdentityInv, Exists
  <2> QED BY <2>1, <2>2 DEF ProcTypeOK
<1>7. ASSUME NEW w \in Workers,
             \/ \E r \in Requests : Submit(w, r)
             \/ InspectRead(w) \/ InspectDecide(w) \/ StoreFails(w)
             \/ AcquireGate(w) \/ CancelWait(w)
             \/ RefuseLocally(w) \/ NotWritten(w) \/ CallTelegram(w)
             \/ ReceiveMessage(w) \/ ReceiveNothing(w)
             \/ \E state \in {"retryable", "permanent"}, wait \in 0..MaxRetryAfter :
                  ReceiveRefusal(w, state, wait)
             \/ PersistFails(w) \/ Respond(w)
      PROVE  UNCHANGED <<storeVars, schema, mode>>
  BY <1>7 DEF Submit, InspectRead, InspectDecide, StoreFails, AcquireGate, CancelWait,
     RefuseLocally, NotWritten, CallTelegram, ReceiveMessage, ReceiveNothing,
     ReceiveRefusal, PersistFails, Respond, procVars
<1>8. ASSUME \/ \E k \in IDs : \E n \in wire[k] : TelegramPosts(k, n) \/ TelegramDrops(k, n)
             \/ Crash \/ Serve
      PROVE  IdentityInv'
  <2>1. UNCHANGED <<storeVars, schema>> /\ (mode' = mode \/ mode' = "down" \/ schema # 1)
    BY <1>8 DEF TelegramPosts, TelegramDrops, Crash, Serve, procVars, IdentityInv
  <2> QED BY <2>1, <1>1 DEF ProcTypeOK
<1> QED BY <1>1, <1>2, <1>3, <1>4, <1>5, <1>6, <1>7, <1>8
        DEF Next, Environment, WorkerStep

-----------------------------------------------------------------------------
(* Building blocks of the other steps.                                     *)

\* A logical delivery has one record.
LEMMA Unique ==
  ASSUME StoreTypeOK, ProcTypeOK, IdentityInv
  PROVE  \A d, e \in IDs : Exists(d) /\ Exists(e) /\ Key(d) = Key(e) => d = e
<1>1. CASE schema = 1
  BY <1>1 DEF IdentityInv, Key
<1>2. CASE schema = 3
  <2>1. ASSUME NEW d \in IDs, Exists(d) PROVE aliases[Key(d)] = d
    BY <1>2, <2>1 DEF IdentityInv, Key, StoreTypeOK, IdempotencyRows
  <2> QED BY <2>1
<1> QED BY <1>1, <1>2 DEF ProcTypeOK

\* A worker's step leaves the other workers where they are.
LEMMA OthersStay ==
  ASSUME NEW w \in Workers, WorkerStep(w) \/ (\E r \in Requests : Submit(w, r)),
         WorkerTypeOK, NEW v \in Workers, v # w
  PROVE  /\ pc'[v] = pc[v] /\ req'[v] = req[v] /\ seen'[v] = seen[v]
         /\ canon'[v] = canon[v] /\ call'[v] = call[v]
         /\ result'[v] = result[v] /\ reply'[v] = reply[v]
<1> USE DEF WorkerTypeOK, Goto, Answer, Outcome
<1>1. CASE \/ \E r \in Requests : Submit(w, r)
           \/ InspectRead(w) \/ InspectDecide(w) \/ StoreFails(w)
  BY <1>1 DEF Submit, InspectRead, InspectDecide, StoreFails
<1>2. CASE ReplayTerminal(w) \/ AcquireGate(w) \/ CancelWait(w) \/ BeginInGate(w)
  BY <1>2 DEF ReplayTerminal, AcquireGate, CancelWait, BeginInGate
<1>3. CASE RefuseLocally(w) \/ NotWritten(w) \/ CallTelegram(w)
           \/ ReceiveMessage(w) \/ ReceiveNothing(w)
  BY <1>3 DEF RefuseLocally, NotWritten, CallTelegram, ReceiveMessage, ReceiveNothing
<1>4. CASE \E state \in {"retryable", "permanent"}, wait \in 0..MaxRetryAfter :
             ReceiveRefusal(w, state, wait)
  BY <1>4 DEF ReceiveRefusal
<1>5. CASE Persist(w) \/ PersistFails(w) \/ Respond(w)
  BY <1>5 DEF Persist, PersistFails, Respond
<1> QED BY <1>1, <1>2, <1>3, <1>4, <1>5 DEF WorkerStep

\* Where a worker's step comes from and leads to.
LEMMA OwnStep ==
  ASSUME NEW w \in Workers, Inv, WorkerStep(w)
  PROVE  pc[w] # "idle" /\ mode = "up" /\ schema = 3 /\ mode' = mode
         /\ schema' = schema /\ req[w] \in Requests /\ req[w] \in Request
<1>1. pc[w] # "idle" /\ mode' = mode /\ schema' = schema
  BY DEF WorkerStep, InspectRead, InspectDecide, StoreFails, ReplayTerminal,
     AcquireGate, CancelWait, BeginInGate, RefuseLocally, NotWritten, CallTelegram,
     ReceiveMessage, ReceiveNothing, ReceiveRefusal, Persist, PersistFails, Respond,
     procVars
<1> QED BY <1>1, RequestsAssumption DEF Inv, TypeOK, GateInv, IdentityInv, ProcTypeOK

\* The replay outside the gate finds the terminal record it inspected.
LEMMA ReplayKeeps ==
  ASSUME NEW w \in Workers, Inv, ReplayTerminal(w), ~BeginConflict(req[w]),
         BeginDelivery(req[w])
  PROVE  /\ Canonical(req[w]) \in IDs
         /\ deliveries[Canonical(req[w])].state \in Final
         /\ deliveries' = deliveries
<1>1. pc[w] = "replay" /\ WorkerStep(w)
  BY DEF ReplayTerminal, WorkerStep
<1>2. schema = 3 /\ req[w] \in Request
  BY <1>1, OwnStep
<1> SUFFICES ASSUME NEW d, d = Canonical(req[w])
    PROVE  d \in IDs /\ deliveries[d].state \in Final /\ deliveries' = deliveries
  OBVIOUS
<1>3. d \in IDs /\ aliases[req[w].d] \in {None, d} /\ aliases[req[w].i] \in {None, d}
  BY <1>2, BeginFacts DEF Inv, TypeOK
<1>4. d = canon[w] /\ deliveries[d].state \in Final
  BY <1>1, <1>3, NoneAssumption DEF Inv, SeenInv
<1>5. BeginRow(deliveries[d], req[w]) = deliveries[d]
  BY <1>4 DEF BeginRow, Final
<1> QED BY <1>3, <1>4, <1>5 DEF BeginDelivery, Inv, TypeOK, StoreTypeOK

\* The rows a Begin may leave behind, and what is true of the chat.
LEMMA BeginOutcome ==
  ASSUME StoreTypeOK, ProcTypeOK, IdentityInv, EffectInv, WaitInv,
         schema = 3, NEW r \in Request, ~BeginConflict(r), NEW d, d = Canonical(r)
  PROVE  LET row == deliveries[d] new == BeginRow(row, r)
         IN  /\ ShouldSend(r) => new.state = "sending" /\ Effects(r.i) = {}
             /\ ~ShouldSend(r) =>
                  \/ new = row
                  \/ row.state = "absent" /\ new = Created(r)
                     /\ new.state = "retryable" /\ Effects(r.i) = {}
                  \/ row.state = "sending" /\ new = Interrupted(row)
                     /\ new.state = "unknown"
<1>1. /\ d \in IDs
      /\ Exists(d) => Key(d) = r.i
      /\ ~Exists(d) => aliases[r.i] = None
  BY BeginFacts
<1>2. r.i \in IDs /\ deliveries[d] \in Rows
  BY <1>1 DEF Request, StoreTypeOK
<1>3. ~Exists(d) => Effects(r.i) = {}
  <2>1. SUFFICES ASSUME ~Exists(d), Effects(r.i) # {} PROVE FALSE
    OBVIOUS
  <2>2. PICK e \in IDs : Exists(e) /\ Key(e) = r.i
    BY <1>2, <2>1 DEF EffectInv
  <2>3. aliases[Key(e)] = e
    BY <2>2 DEF IdentityInv, Key, StoreTypeOK, IdempotencyRows
  <2> QED BY <1>1, <2>1, <2>2, <2>3, NoneAssumption
<1>4. deliveries[d].state = "retryable" => Effects(r.i) = {}
  BY <1>1 DEF EffectInv, Exists
<1>5. /\ Interrupted(deliveries[d]).state = "unknown"
      /\ Claimed(deliveries[d]).state = "sending"
      /\ cooldown = 0 => Created(r).state = "sending"
      /\ cooldown # 0 => Created(r).state = "retryable"
  BY <1>2 DEF Interrupted, Claimed, Created, Rows, NoRow, StoreTypeOK
<1>6. CASE deliveries[d].state = "absent"
  <2>1. BeginRow(deliveries[d], r) = Created(r) /\ Effects(r.i) = {}
    BY <1>3, <1>6 DEF BeginRow, Exists
  <2>2. ShouldSend(r) <=> cooldown = 0
    BY <1>1, <1>6 DEF ShouldSend, Permitted, WaitInv
  <2> QED BY <1>5, <1>6, <2>1, <2>2
<1>7. CASE deliveries[d].state # "absent"
  <2>1. ShouldSend(r) <=> deliveries[d].state = "retryable" /\ Permitted(deliveries[d])
    BY <1>7 DEF ShouldSend
  <2> QED BY <1>4, <1>5, <1>7, <2>1 DEF BeginRow
<1> QED BY <1>6, <1>7

\* The steps that change the tables.
LEMMA StoreSteps ==
  ASSUME Inv, Next
  PROVE  \/ UNCHANGED storeVars
         \/ \E w \in Workers :
              \/ ReplayTerminal(w) \/ BeginInGate(w)
              \/ Persist(w) /\ updateDelivery(canon[w], result[w])
         \/ Tick \/ Migrate \/ Recover
<1>1. ASSUME NEW w \in Workers, WorkerStep(w),
             ~(ReplayTerminal(w) \/ BeginInGate(w) \/ Persist(w))
      PROVE  UNCHANGED storeVars
  BY <1>1 DEF WorkerStep, InspectRead, InspectDecide, StoreFails,
     AcquireGate, CancelWait, RefuseLocally, NotWritten, CallTelegram,
     ReceiveMessage, ReceiveNothing, ReceiveRefusal, PersistFails, Respond
<1>2. ASSUME NEW w \in Workers, Persist(w)
      PROVE  UNCHANGED storeVars \/ updateDelivery(canon[w], result[w])
  BY <1>2 DEF Persist
<1>3. ASSUME Environment, ~(Tick \/ Migrate \/ Recover)
      PROVE  UNCHANGED storeVars
  BY <1>3 DEF Environment, Submit, TelegramPosts, TelegramDrops, Crash, Serve
<1> QED BY <1>1, <1>2, <1>3 DEF Next

\* A Begin of the handler, in the gate or at the replay, and its record.
LEMMA HandlerBegins ==
  ASSUME NEW w \in Workers, Inv, ReplayTerminal(w) \/ BeginInGate(w)
  PROVE  /\ schema = 3 /\ schema' = 3 /\ req[w] \in Request /\ mode = "up"
         /\ pc[w] \in {"replay", "begin"}
         /\ UNCHANGED storeVars \/ (~BeginConflict(req[w]) /\ BeginDelivery(req[w]))
<1>1. WorkerStep(w) /\ pc[w] \in {"replay", "begin"}
  BY DEF WorkerStep, ReplayTerminal, BeginInGate
<1> QED BY <1>1, OwnStep DEF ReplayTerminal, BeginInGate

\* The record a worker has claimed, when it is about to record its result.
LEMMA Recorded ==
  ASSUME NEW w \in Workers, Inv, Persist(w), updateDelivery(canon[w], result[w])
  PROVE  /\ canon[w] \in IDs /\ result[w] \in Results
         /\ deliveries[canon[w]].state = "sending"
         /\ Key(canon[w]) = req[w].i
         /\ deliveries'[canon[w]] \in Rows
         /\ deliveries'[canon[w]].state = result[w].state
         /\ deliveries'[canon[w]].msg = result[w].msg
         /\ deliveries'[canon[w]].message = result[w].message
         /\ deliveries'[canon[w]].wait = result[w].wait
         /\ \A d \in IDs \ {canon[w]} : deliveries'[d] = deliveries[d]
         /\ UNCHANGED <<idempotency, aliases>>
<1>1. /\ canon[w] \in IDs /\ result[w] \in Results
      /\ deliveries[canon[w]].state = "sending"
      /\ Key(canon[w]) = req[w].i
  <2>1. /\ canon[w] \in IDs
        /\ deliveries[canon[w]].state = "sending"
        /\ idempotency[canon[w]] = [version |-> 2, i |-> req[w].i,
                                    digest |-> Logical(req[w])]
    BY DEF Persist, Holds, ClaimInv, Inv
  <2>2. Key(canon[w]) = req[w].i
    BY <2>1 DEF Key
  <2> QED BY <2>1, <2>2 DEF Inv, TypeOK, WorkerTypeOK
<1>2. StoreTypeOK'
  BY <1>1, UpdateType DEF Inv, TypeOK
<1> QED BY <1>1, <1>2 DEF updateDelivery, Inv, TypeOK, StoreTypeOK, Rows

\* No step deletes a record or renames its logical delivery.
LEMMA KeysStay ==
  ASSUME Inv, Next, NEW d \in IDs, Exists(d)
  PROVE  Exists(d)' /\ Key(d)' = Key(d)
<1> USE DEF Inv, TypeOK
<1>1. CASE UNCHANGED storeVars
  BY <1>1 DEF storeVars, Exists, Key
<1>2. ASSUME NEW w \in Workers, ReplayTerminal(w) \/ BeginInGate(w)
      PROVE  Exists(d)' /\ Key(d)' = Key(d)
  <2>1. CASE ~BeginConflict(req[w]) /\ BeginDelivery(req[w])
    BY <1>2, <2>1, HandlerBegins, BeginEffect
  <2> QED BY <1>1, <1>2, <2>1, HandlerBegins
<1>3. ASSUME NEW w \in Workers, Persist(w), updateDelivery(canon[w], result[w])
      PROVE  Exists(d)' /\ Key(d)' = Key(d)
  <2>1. result[w].state # "absent"
    BY <1>3, Recorded DEF Results, Outcomes
  <2> QED BY <1>3, <2>1, Recorded DEF Exists, Key
<1>4. CASE Tick
  BY <1>4 DEF Tick, StoreTick, Older, Exists, Key, StoreTypeOK, Rows
<1>5. CASE Migrate
  BY <1>5 DEF Migrate, Exists, Key
<1>6. CASE Recover
  BY <1>6 DEF Recover, recoverInterruptedDeliveries, Interrupted, Exists, Key,
     StoreTypeOK, Rows
<1> QED BY <1>1, <1>2, <1>3, <1>4, <1>5, <1>6, StoreSteps

\* No step changes a terminal record.
LEMMA FinalStays ==
  ASSUME Inv, Next, NEW d \in IDs, deliveries[d].state \in Final
  PROVE  deliveries'[d] = deliveries[d]
<1> USE DEF Inv, TypeOK
<1>1. CASE UNCHANGED storeVars
  BY <1>1 DEF storeVars
<1>2. ASSUME NEW w \in Workers, ReplayTerminal(w) \/ BeginInGate(w)
      PROVE  deliveries'[d] = deliveries[d]
  <2>1. CASE ~BeginConflict(req[w]) /\ BeginDelivery(req[w])
    <3> SUFFICES ASSUME NEW e, e = Canonical(req[w])
        PROVE  deliveries'[d] = deliveries[d]
      OBVIOUS
    <3>1. /\ deliveries'[e] = BeginRow(deliveries[e], req[w])
          /\ \A x \in IDs \ {e} : deliveries'[x] = deliveries[x]
      <4>1. schema = 3 /\ req[w] \in Request
        BY <1>2, HandlerBegins
      <4> QED BY <2>1, <4>1, BeginEffect
    <3>2. BeginRow(deliveries[d], req[w]) = deliveries[d]
      BY DEF BeginRow, Final
    <3> QED BY <3>1, <3>2
  <2> QED BY <1>1, <1>2, <2>1, HandlerBegins
<1>3. ASSUME NEW w \in Workers, Persist(w), updateDelivery(canon[w], result[w])
      PROVE  deliveries'[d] = deliveries[d]
  <2>1. d # canon[w]
    BY <1>3, Recorded DEF Final
  <2> QED BY <1>3, <2>1, Recorded
<1>4. CASE Tick
  <2>1. deliveries[d] \in Rows /\ deliveries[d].wait = 0
        /\ deliveries[d].state # "sending"
    BY DEF StoreTypeOK, WaitInv, Final
  <2>2. Older(deliveries[d]) = deliveries[d]
    BY <2>1, OlderStays
  <2> QED BY <1>4, <2>2 DEF Tick, StoreTick
<1>5. CASE Migrate
  BY <1>5 DEF Migrate
<1>6. CASE Recover
  BY <1>6 DEF Recover, recoverInterruptedDeliveries, Final
<1> QED BY <1>1, <1>2, <1>3, <1>4, <1>5, <1>6, StoreSteps

\* While the process serves, no step drops or moves an alias.
LEMMA AliasesStay ==
  ASSUME Inv, Next, mode = "up", NEW x \in IDs, aliases[x] # None
  PROVE  aliases'[x] = aliases[x]
<1> USE DEF Inv, TypeOK
<1>1. CASE UNCHANGED storeVars
  BY <1>1 DEF storeVars
<1>2. ASSUME NEW w \in Workers, ReplayTerminal(w) \/ BeginInGate(w)
      PROVE  aliases'[x] = aliases[x]
  <2>1. CASE ~BeginConflict(req[w]) /\ BeginDelivery(req[w])
    BY <1>2, <2>1, HandlerBegins, BeginEffect
  <2> QED BY <1>1, <1>2, <2>1, HandlerBegins
<1>3. CASE \/ \E w \in Workers : Persist(w) /\ updateDelivery(canon[w], result[w])
           \/ Tick
  BY <1>3 DEF updateDelivery, Tick, StoreTick
<1>4. ~Migrate /\ ~Recover
  BY DEF Migrate, Recover
<1> QED BY <1>1, <1>2, <1>3, <1>4, StoreSteps

-----------------------------------------------------------------------------
(* The gate.                                                               *)

\* Every step keeps the gate with the worker that is between its Begin and
\* its response.
LEMMA GateStep == Inv /\ Next => GateInv'
<1> SUFFICES ASSUME Inv, Next PROVE GateInv'
  OBVIOUS
<1> USE DEF Inv, TypeOK, WorkerTypeOK, Goto, Answer, Outcome, procVars
<1> DEFINE Inside == {"begin", "claimed", "await", "persist"}
<1>1. ASSUME NEW w \in Workers, mode = "up", mode' = "up",
             gate' = gate,
             pc' = [pc EXCEPT ![w] = pc'[w]],
             req' = [req EXCEPT ![w] = req'[w]],
             req'[w] \in Requests,
             pc'[w] \in Inside => pc[w] \in Inside
      PROVE  GateInv'
  BY <1>1 DEF GateInv
<1>2. ASSUME NEW w \in Workers, WorkerStep(w), ~AcquireGate(w), ~Respond(w)
      PROVE  GateInv'
  <2>1. mode = "up" /\ mode' = "up" /\ req[w] \in Requests
    BY <1>2, OwnStep
  <2>2. /\ gate' = gate /\ req' = req
        /\ pc' = [pc EXCEPT ![w] = pc'[w]]
        /\ pc'[w] \in Inside => pc[w] \in Inside
    BY <1>2 DEF WorkerStep, InspectRead, InspectDecide, StoreFails, ReplayTerminal,
       CancelWait, BeginInGate, RefuseLocally, NotWritten, CallTelegram,
       ReceiveMessage, ReceiveNothing, ReceiveRefusal, Persist, PersistFails
  <2> QED BY <1>1, <2>1, <2>2
<1>3. ASSUME NEW w \in Workers, NEW r \in Requests, Submit(w, r)
      PROVE  GateInv'
  BY <1>1, <1>3 DEF Submit
<1>4. ASSUME NEW w \in Workers, AcquireGate(w)
      PROVE  GateInv'
  <2>1. mode = "up" /\ mode' = "up" /\ req[w] \in Requests
    BY <1>4, OwnStep DEF WorkerStep
  <2> QED BY <1>4, <2>1, NoneAssumption, WorkersAssumption DEF AcquireGate, GateInv
<1>5. ASSUME NEW w \in Workers, Respond(w)
      PROVE  GateInv'
  <2>1. mode = "up" /\ mode' = "up"
    BY <1>5, OwnStep DEF WorkerStep
  <2> QED BY <1>5, <2>1 DEF Respond, GateInv
<1>6. ASSUME \/ \E k \in IDs : \E n \in wire[k] : TelegramPosts(k, n) \/ TelegramDrops(k, n)
             \/ Tick
      PROVE  GateInv'
  BY <1>6 DEF TelegramPosts, TelegramDrops, Tick, workerVars, GateInv
<1>7. CASE Crash
  BY <1>7 DEF Crash, GateInv
<1>8. CASE Migrate \/ Recover \/ Serve
  BY <1>8 DEF Migrate, Recover, Serve, workerVars, GateInv
<1> QED BY <1>2, <1>3, <1>4, <1>5, <1>6, <1>7, <1>8 DEF Next, Environment

\* Only one worker at a time is between its Begin and its response.
LEMMA OneInside ==
  ASSUME Inv, NEW v \in Workers, NEW w \in Workers,
         pc[v] \in {"begin", "claimed", "await", "persist"},
         pc[w] \in {"begin", "claimed", "await", "persist"}
  PROVE  v = w
BY DEF Inv, GateInv

\* Every step keeps the retry times where they belong.
LEMMA WaitStep == Inv /\ Next => WaitInv'
<1> SUFFICES ASSUME Inv, Next PROVE WaitInv'
  OBVIOUS
<1> USE DEF Inv, TypeOK
<1>1. ASSUME NEW d \in IDs, deliveries'[d].state \in Final \cup {"absent"}
      PROVE  deliveries'[d].wait = 0
  <2>0. /\ deliveries[d] \in Rows
        /\ deliveries[d].state \in Final \cup {"absent"} => deliveries[d].wait = 0
    BY DEF StoreTypeOK, WaitInv
  <2>1. CASE deliveries'[d] = deliveries[d]
    BY <1>1, <2>0, <2>1
  <2>2. ASSUME NEW w \in Workers, ReplayTerminal(w) \/ BeginInGate(w)
        PROVE  deliveries'[d].wait = 0
    <3>1. CASE ~BeginConflict(req[w]) /\ BeginDelivery(req[w])
      <4> SUFFICES ASSUME NEW e, e = Canonical(req[w])
          PROVE  deliveries'[d].wait = 0
        OBVIOUS
      <4>0. schema = 3 /\ req[w] \in Request
        BY <2>2, HandlerBegins
      <4>1. /\ deliveries'[e] = BeginRow(deliveries[e], req[w])
            /\ \A x \in IDs \ {e} : deliveries'[x] = deliveries[x]
        BY <3>1, <4>0, BeginEffect
      <4>2. \/ BeginRow(deliveries[d], req[w]) = deliveries[d]
            \/ /\ deliveries[d].state = "absent"
               /\ BeginRow(deliveries[d], req[w]) = Created(req[w])
            \/ BeginRow(deliveries[d], req[w]) = Interrupted(deliveries[d])
            \/ BeginRow(deliveries[d], req[w]) = Claimed(deliveries[d])
        BY DEF BeginRow
      <4>3. /\ Interrupted(deliveries[d]).wait = 0
            /\ Claimed(deliveries[d]).wait = 0
            /\ Created(req[w]).state \notin Final \cup {"absent"}
        BY <2>0 DEF Interrupted, Claimed, Created, Rows, NoRow, Final
      <4> QED BY <1>1, <2>1, <4>1, <4>2, <4>3
    <3> QED BY <2>1, <2>2, <3>1, HandlerBegins DEF storeVars
  <2>3. ASSUME NEW w \in Workers, Persist(w), updateDelivery(canon[w], result[w])
        PROVE  deliveries'[d].wait = 0
    <3>1. CASE d = canon[w]
      <4>1. /\ deliveries'[d].state = result[w].state
            /\ deliveries'[d].wait = result[w].wait
            /\ result[w].state # "absent"
        BY <2>3, <3>1, Recorded DEF Results, Outcomes
      <4> QED BY <1>1, <2>3, <4>1 DEF WaitInv, Persist
    <3>2. CASE d # canon[w]
      BY <2>1, <2>3, <3>2, Recorded
    <3> QED BY <3>1, <3>2
  <2>4. CASE Tick
    <3>1. Older(deliveries[d]).state = deliveries[d].state
          /\ (deliveries[d].wait = 0 => Older(deliveries[d]).wait = 0)
      BY <2>0 DEF Older, Rows
    <3> QED BY <1>1, <2>0, <2>4, <3>1 DEF Tick, StoreTick
  <2>5. CASE Recover
    <3>1. Interrupted(deliveries[d]).wait = 0
      BY <2>0 DEF Interrupted, Rows
    <3> QED BY <2>1, <2>5, <3>1 DEF Recover, recoverInterruptedDeliveries
  <2> QED BY <2>1, <2>2, <2>3, <2>4, <2>5, StoreSteps DEF storeVars, Migrate
<1>2. ASSUME NEW v \in Workers, pc'[v] = "persist", result'[v].state \in Final
      PROVE  result'[v].wait = 0
  <2> USE DEF WorkerTypeOK, Goto, Answer, Outcome, Result
  <2>1. CASE pc[v] = "persist" /\ result'[v] = result[v]
    BY <1>2, <2>1 DEF WaitInv
  <2>2. ASSUME NEW w \in Workers,
               WorkerStep(w) \/ (\E r \in Requests : Submit(w, r))
        PROVE  result'[v].wait = 0
    <3>1. CASE v # w
      BY <1>2, <2>1, <2>2, <3>1, OthersStay
    <3>2. CASE v = w /\ (RefuseLocally(w) \/ NotWritten(w) \/ ReceiveMessage(w)
                         \/ ReceiveNothing(w))
      <4>1. \E state, msg, message :
              result' = [result EXCEPT ![w] = [state |-> state, msg |-> msg,
                                               message |-> message, wait |-> 0]]
        BY <3>2 DEF RefuseLocally, NotWritten, ReceiveMessage, ReceiveNothing
      <4> QED BY <3>2, <4>1
    <3>3. CASE v = w /\ \E state \in {"retryable", "permanent"},
                           wait \in 0..MaxRetryAfter : ReceiveRefusal(w, state, wait)
      BY <1>2, <3>3 DEF ReceiveRefusal, Final
    <3>4. CASE v = w /\ (\/ \E r \in Requests : Submit(w, r)
                         \/ InspectRead(w) \/ InspectDecide(w) \/ StoreFails(w)
                         \/ ReplayTerminal(w) \/ AcquireGate(w) \/ CancelWait(w)
                         \/ BeginInGate(w) \/ CallTelegram(w)
                         \/ Persist(w) \/ PersistFails(w) \/ Respond(w))
      <4>1. pc'[w] # "persist"
        BY <3>4 DEF Submit, InspectRead, InspectDecide, StoreFails, ReplayTerminal,
           AcquireGate, CancelWait, BeginInGate, CallTelegram, Persist,
           PersistFails, Respond
      <4> QED BY <1>2, <3>4, <4>1
    <3> QED BY <2>2, <3>1, <3>2, <3>3, <3>4 DEF WorkerStep
  <2>3. CASE \/ \E k \in IDs : \E n \in wire[k] : TelegramPosts(k, n) \/ TelegramDrops(k, n)
             \/ Tick \/ Migrate \/ Recover \/ Serve
    BY <1>2, <2>1, <2>3 DEF TelegramPosts, TelegramDrops, Tick, Migrate, Recover, Serve,
       workerVars
  <2>4. ~Crash
    BY <1>2 DEF Crash
  <2> QED BY <2>2, <2>3, <2>4 DEF Next, Environment
<1> QED BY <1>1, <1>2 DEF WaitInv

-----------------------------------------------------------------------------
(* Effects.                                                                *)

\* A step that leaves the chat alone and gives no row a state it has not
\* earned keeps the records true.
LEMMA ChatStays ==
  ASSUME Inv, Next, UNCHANGED <<wire, posted>>,
         \A d \in IDs :
           /\ deliveries'[d].state \in {"retryable", "permanent"} =>
                deliveries[d].state = deliveries'[d].state \/ Effects(Key(d)') = {}
           /\ deliveries'[d].state = "delivered" =>
                \/ /\ deliveries[d].state = "delivered"
                   /\ deliveries[d].msg = deliveries'[d].msg
                \/ posted[Key(d)'] = {deliveries'[d].msg} /\ wire[Key(d)'] = {}
  PROVE  EffectInv'
<1> USE DEF Inv, TypeOK
<1>1. \A k : Effects(k)' = Effects(k)
  BY DEF Effects
<1>2. \A d \in IDs : Exists(d) => Exists(d)' /\ Key(d)' = Key(d)
  BY KeysStay
<1>3. \A k \in IDs : Effects(k) # {} => \E d \in IDs : Exists(d)' /\ Key(d)' = k
  BY <1>2 DEF EffectInv
<1>4. ASSUME NEW d \in IDs, deliveries'[d].state \in {"retryable", "permanent"}
      PROVE  Effects(Key(d)') = {}
  BY <1>2, <1>4 DEF EffectInv, Exists
<1>5. ASSUME NEW d \in IDs, deliveries'[d].state = "delivered"
      PROVE  posted[Key(d)'] = {deliveries'[d].msg} /\ wire[Key(d)'] = {}
  BY <1>2, <1>5 DEF EffectInv, Exists
<1> QED BY <1>1, <1>3, <1>4, <1>5 DEF EffectInv, Effects

\* Every step keeps what the records say about the chat true.
LEMMA EffectStep == Inv /\ Next => EffectInv'
<1> SUFFICES ASSUME Inv, Next PROVE EffectInv'
  OBVIOUS
<1> USE DEF Inv, TypeOK
<1>1. ASSUME UNCHANGED <<wire, posted>>,
             \A d \in IDs : \/ deliveries'[d] = deliveries[d]
                            \/ deliveries'[d].state \in {"sending", "unknown"}
                            \/ /\ deliveries'[d].state = deliveries[d].state
                               /\ deliveries'[d].msg = deliveries[d].msg
      PROVE  EffectInv'
  BY <1>1, ChatStays
<1>2. ASSUME NEW w \in Workers, ReplayTerminal(w) \/ BeginInGate(w)
      PROVE  EffectInv'
  <2>1. UNCHANGED <<wire, posted>>
    BY <1>2 DEF ReplayTerminal, BeginInGate, chatVars
  <2>2. CASE ~BeginConflict(req[w]) /\ BeginDelivery(req[w])
    <3> DEFINE r == req[w]
    <3> SUFFICES ASSUME NEW e, e = Canonical(r)
        PROVE  EffectInv'
      OBVIOUS
    <3>0. schema = 3 /\ r \in Request
      BY <1>2, HandlerBegins
    <3> HIDE DEF r
    <3>1. /\ deliveries'[e] = BeginRow(deliveries[e], r)
          /\ \A x \in IDs \ {e} : deliveries'[x] = deliveries[x]
          /\ Key(e)' = r.i
      <4>1. StoreTypeOK /\ IdentityInv
        OBVIOUS
      <4>2. ~BeginConflict(r) /\ BeginDelivery(r)
        BY <2>2 DEF r
      <4> HIDE DEF Inv, TypeOK
      <4> QED BY <4>1, <4>2, <3>0, BeginEffect
    <3>2. \/ deliveries'[e].state \in {"sending", "unknown"}
          \/ deliveries'[e] = deliveries[e]
          \/ deliveries'[e].state = "retryable" /\ Effects(r.i) = {}
      BY <2>2, <3>0, <3>1, BeginOutcome DEF r
    <3>3. CASE deliveries'[e].state = "retryable" /\ Effects(r.i) = {}
      BY <2>1, <3>1, <3>3, ChatStays
    <3> QED BY <1>1, <2>1, <3>1, <3>2, <3>3
  <2>3. CASE UNCHANGED storeVars
    BY <1>1, <2>1, <2>3 DEF storeVars
  <2> QED BY <1>2, <2>2, <2>3, HandlerBegins
<1>3. ASSUME NEW w \in Workers, Persist(w)
      PROVE  EffectInv'
  <2>1. UNCHANGED <<wire, posted>> /\ pc[w] = "persist"
    BY <1>3 DEF Persist, chatVars
  <2>2. CASE updateDelivery(canon[w], result[w])
    <3> SUFFICES ASSUME NEW e, e = canon[w] PROVE EffectInv'
      OBVIOUS
    <3>0. Key(e) = req[w].i /\ idempotency' = idempotency
      BY <1>3, <2>2, Recorded
    <3>1. /\ deliveries'[e].state = result[w].state
          /\ deliveries'[e].msg = result[w].msg
          /\ \A d \in IDs \ {e} : deliveries'[d] = deliveries[d]
          /\ Key(e)' = req[w].i
      BY <1>3, <2>2, <3>0, Recorded DEF Key
    <3>2. /\ result[w].state \in {"retryable", "permanent"} =>
               Effects(req[w].i) = {}
          /\ result[w].state = "delivered" =>
               posted[req[w].i] = {result[w].msg} /\ wire[req[w].i] = {}
      BY <2>1 DEF ClaimInv, Chat
    <3> QED BY <2>1, <3>1, <3>2, ChatStays
  <2>3. CASE UNCHANGED storeVars
    BY <1>1, <2>1, <2>3 DEF storeVars
  <2> QED BY <1>3, <2>2, <2>3 DEF Persist
<1>4. CASE Tick
  <2>1. \A d \in IDs : /\ Older(deliveries[d]).state = deliveries[d].state
                       /\ Older(deliveries[d]).msg = deliveries[d].msg
    BY DEF Older, StoreTypeOK, Rows
  <2> QED BY <1>1, <1>4, <2>1 DEF Tick, StoreTick, chatVars
<1>5. CASE Migrate
  BY <1>1, <1>5 DEF Migrate, chatVars
<1>6. CASE Recover
  <2>1. \A d \in IDs : Interrupted(deliveries[d]).state = "unknown"
    BY DEF Interrupted, StoreTypeOK, Rows
  <2> QED BY <1>1, <1>6, <2>1 DEF Recover, recoverInterruptedDeliveries, chatVars
<1>7. CASE UNCHANGED <<storeVars, wire, posted>>
  BY <1>1, <1>7 DEF storeVars
<1>8. ASSUME UNCHANGED storeVars,
             \A k \in IDs : \/ wire'[k] = wire[k] /\ posted'[k] = posted[k]
                            \/ \E n \in wire[k] :
                                 /\ wire'[k] = wire[k] \ {n}
                                 /\ posted'[k] \in {posted[k], posted[k] \cup {n}}
      PROVE  EffectInv'
  <2>1. /\ \A d : Exists(d)' = Exists(d) /\ Key(d)' = Key(d)
        /\ deliveries' = deliveries
    BY <1>8 DEF storeVars, Exists, Key
  <2>2. \A k \in IDs : /\ Effects(k)' \subseteq Effects(k)
                       /\ Effects(k) = {} \/ Effects(k) # {}
                       /\ wire[k] = {} => posted'[k] = posted[k] /\ wire'[k] = {}
    BY <1>8 DEF Effects
  <2>3. \A d \in IDs : Exists(d) => Key(d) \in IDs
    BY DEF IdentityInv, Key, StoreTypeOK, IdempotencyRows
  <2>4. /\ \A k \in IDs : \A m, n \in Effects(k)' : m = n
        /\ \A k \in IDs : Effects(k)' # {} => \E d \in IDs : Exists(d)' /\ Key(d)' = k
    BY <2>1, <2>2 DEF EffectInv
  <2>5. \A k \in IDs : posted'[k] \cap wire'[k] = {}
    BY <1>8 DEF EffectInv
  <2>6. \A d \in IDs : deliveries'[d].state \in {"retryable", "permanent"} =>
          Effects(Key(d))' = {}
    BY <2>1, <2>2, <2>3 DEF EffectInv, Exists
  <2>7. \A d \in IDs : deliveries'[d].state = "delivered" =>
          posted'[Key(d)'] = {deliveries'[d].msg} /\ wire'[Key(d)'] = {}
    BY <2>1, <2>2, <2>3 DEF EffectInv, Exists
  <2> QED BY <2>4, <2>5, <2>6, <2>7 DEF EffectInv, Effects
<1>9. ASSUME NEW k \in IDs, NEW n \in wire[k], TelegramPosts(k, n) \/ TelegramDrops(k, n)
      PROVE  EffectInv'
  BY <1>8, <1>9 DEF TelegramPosts, TelegramDrops, ChatTypeOK
<1>10. ASSUME NEW w \in Workers, NEW state, NEW wait, ReceiveRefusal(w, state, wait)
       PROVE  EffectInv'
  BY <1>8, <1>10 DEF ReceiveRefusal, ChatTypeOK
<1>11. ASSUME NEW w \in Workers, CallTelegram(w)
       PROVE  EffectInv'
  <2> SUFFICES ASSUME NEW k, k = req[w].i PROVE EffectInv'
    OBVIOUS
  <2>1. k \in IDs
    BY <1>11, OwnStep DEF WorkerStep, Request
  <2>2. /\ \A d : Exists(d)' = Exists(d) /\ Key(d)' = Key(d)
        /\ deliveries' = deliveries /\ posted' = posted
        /\ wire' = [wire EXCEPT ![k] = @ \cup {calls + 1}]
    BY <1>11 DEF CallTelegram, storeVars, Exists, Key
  <2>3. /\ canon[w] \in IDs /\ deliveries[canon[w]].state = "sending"
        /\ Key(canon[w]) = k /\ Effects(k) = {}
    <3>1. /\ canon[w] \in IDs
          /\ deliveries[canon[w]].state = "sending"
          /\ idempotency[canon[w]] = [version |-> 2, i |-> req[w].i,
                                      digest |-> Logical(req[w])]
          /\ Effects(k) = {}
      BY <1>11 DEF CallTelegram, Holds, ClaimInv, Chat
    <3> QED BY <3>1 DEF Key
  <2>4. /\ Effects(k)' = {calls + 1} /\ posted'[k] \cap wire'[k] = {}
        /\ \A x \in IDs \ {k} : Effects(x)' = Effects(x) /\ wire'[x] = wire[x]
    <3>1. /\ wire'[k] = wire[k] \cup {calls + 1}
          /\ \A x \in IDs \ {k} : wire'[x] = wire[x]
      BY <2>1, <2>2 DEF ChatTypeOK
    <3>2. wire[k] = {} /\ posted[k] = {}
      BY <2>3 DEF Effects
    <3> QED BY <2>2, <3>1, <3>2 DEF Effects
  <2>5. \A d \in IDs : deliveries[d].state \in {"retryable", "permanent", "delivered"} =>
          Key(d) # k /\ Key(d) \in IDs
    <3>1. ASSUME NEW d \in IDs,
                 deliveries[d].state \in {"retryable", "permanent", "delivered"}
          PROVE  Key(d) # k /\ Key(d) \in IDs
      <4>1. Exists(d) /\ Exists(canon[w]) /\ d # canon[w]
        BY <2>3, <3>1 DEF Exists
      <4>2. Key(d) \in IDs
        BY <4>1 DEF IdentityInv, Key, StoreTypeOK, IdempotencyRows
      <4> QED BY <2>3, <4>1, <4>2, Unique
    <3> QED BY <3>1
  <2>6. /\ \A x \in IDs : \A m, n \in Effects(x)' : m = n
        /\ \A x \in IDs : Effects(x)' # {} => \E d \in IDs : Exists(d)' /\ Key(d)' = x
    <3>1. ASSUME NEW x \in IDs
          PROVE  /\ \A m, n \in Effects(x)' : m = n
                 /\ Effects(x)' # {} => \E d \in IDs : Exists(d) /\ Key(d) = x
      <4>1. CASE x = k
        BY <2>3, <2>4, <4>1 DEF Exists
      <4>2. CASE x # k
        <5>1. Effects(x)' = Effects(x)
          BY <2>4, <4>2
        <5> QED BY <5>1 DEF EffectInv
      <4> QED BY <4>1, <4>2
    <3> QED BY <2>2, <3>1
  <2>7. \A x \in IDs : posted'[x] \cap wire'[x] = {}
    BY <2>2, <2>4 DEF EffectInv
  <2>8. \A d \in IDs : deliveries'[d].state \in {"retryable", "permanent"} =>
          Effects(Key(d))' = {}
    BY <2>2, <2>4, <2>5 DEF EffectInv
  <2>9. \A d \in IDs : deliveries'[d].state = "delivered" =>
          posted'[Key(d)'] = {deliveries'[d].msg} /\ wire'[Key(d)'] = {}
    BY <2>2, <2>4, <2>5 DEF EffectInv
  <2> QED BY <2>6, <2>7, <2>8, <2>9 DEF EffectInv, Effects
<1>12. ASSUME NEW w \in Workers,
              \/ \E r \in Requests : Submit(w, r)
              \/ InspectRead(w) \/ InspectDecide(w) \/ StoreFails(w)
              \/ AcquireGate(w) \/ CancelWait(w) \/ RefuseLocally(w) \/ NotWritten(w)
              \/ ReceiveMessage(w) \/ ReceiveNothing(w)
              \/ PersistFails(w) \/ Respond(w)
       PROVE  EffectInv'
  BY <1>7, <1>12 DEF Submit, InspectRead, InspectDecide, StoreFails, AcquireGate,
     CancelWait, RefuseLocally, NotWritten, ReceiveMessage, ReceiveNothing,
     PersistFails, Respond, chatVars
<1>13. CASE Crash \/ Serve
  BY <1>7, <1>13 DEF Crash, Serve, chatVars
<1> QED BY <1>2, <1>3, <1>4, <1>5, <1>6, <1>9, <1>10, <1>11, <1>12, <1>13
        DEF Next, Environment, WorkerStep

-----------------------------------------------------------------------------
(* Claims.                                                                 *)

\* Nobody but its holder touches a claimed record.
LEMMA ClaimedRow ==
  ASSUME Inv, Next, NEW v \in Workers, Holds(v), pc'[v] # "answer", pc'[v] # "idle"
  PROVE  /\ deliveries'[canon[v]].state = "sending"
         /\ idempotency'[canon[v]] = idempotency[canon[v]]
<1> USE DEF Inv, TypeOK
<1> SUFFICES ASSUME NEW c, c = canon[v]
    PROVE  /\ deliveries'[c].state = "sending"
           /\ idempotency'[c] = idempotency[c]
  OBVIOUS
<1>0. /\ c \in IDs /\ deliveries[c].state = "sending"
      /\ idempotency[c].version = 2
      /\ mode = "up" /\ pc[v] \in {"claimed", "await", "persist"}
  <2>1. c \in IDs /\ deliveries[c].state = "sending"
        /\ idempotency[c] = [version |-> 2, i |-> req[v].i, digest |-> Logical(req[v])]
    BY DEF ClaimInv
  <2>2. mode = "up" /\ pc[v] \in {"claimed", "await", "persist"}
    BY DEF GateInv, Holds
  <2> QED BY <2>1, <2>2
<1>1. CASE UNCHANGED storeVars
  BY <1>0, <1>1 DEF storeVars
<1>2. ASSUME NEW w \in Workers, ReplayTerminal(w)
      PROVE  deliveries'[c].state = "sending" /\ idempotency'[c] = idempotency[c]
  <2>1. CASE ~BeginConflict(req[w]) /\ BeginDelivery(req[w])
    <3> SUFFICES ASSUME NEW e, e = Canonical(req[w])
        PROVE  deliveries'[c].state = "sending" /\ idempotency'[c] = idempotency[c]
      OBVIOUS
    <3>0. schema = 3 /\ req[w] \in Request
      BY <1>2, HandlerBegins
    <3>1. deliveries' = deliveries
      BY <1>2, <2>1, ReplayKeeps
    <3>2. /\ idempotency'[e] = [version |-> 2, i |-> req[w].i,
                                digest |-> Logical(req[w])]
          /\ \A x \in IDs \ {e} : idempotency'[x] = idempotency[x]
      BY <2>1, <3>0, BeginEffect
    <3>3. e = c => idempotency[e] = [version |-> 2, i |-> req[w].i,
                                     digest |-> Logical(req[w])]
      <4>1. Exists(e) /\ idempotency[e].version = 2 =>
              idempotency[e] = [version |-> 2, i |-> req[w].i,
                                digest |-> Logical(req[w])]
        BY <2>1, <3>0, BeginFacts
      <4> QED BY <1>0, <4>1 DEF Exists
    <3> QED BY <1>0, <3>1, <3>2, <3>3
  <2> QED BY <1>1, <1>2, <2>1, HandlerBegins
<1>3. ASSUME NEW w \in Workers, BeginInGate(w)
      PROVE  FALSE
  <2>1. pc[w] = "begin"
    BY <1>3 DEF BeginInGate
  <2> QED BY <1>0, <2>1, OneInside
<1>4. ASSUME NEW w \in Workers, Persist(w)
      PROVE  FALSE
  <2>1. pc[w] = "persist" /\ pc'[w] = "answer"
    BY <1>4 DEF Persist, Answer, Goto, WorkerTypeOK
  <2> QED BY <1>0, <2>1, OneInside
<1>5. CASE Tick
  <2>1. Older(deliveries[c]).state = deliveries[c].state
    BY <1>0 DEF Older, StoreTypeOK, Rows
  <2> QED BY <1>0, <1>5, <2>1 DEF Tick, StoreTick
<1>6. ~Migrate /\ ~Recover
  BY <1>0 DEF Migrate, Recover
<1> QED BY <1>1, <1>2, <1>3, <1>4, <1>5, <1>6, StoreSteps

\* A worker that goes on knows what its own step did to the chat.
LEMMA OwnChat ==
  ASSUME Inv, NEW v \in Workers, WorkerStep(v)
  PROVE  Chat(v)'
<1> USE DEF Inv, TypeOK, Goto, Answer, Outcome, Result
<1> DEFINE k == req[v].i
<1>0. k \in IDs /\ Chat(v)
  BY OwnStep DEF Request, ClaimInv, Chat
<1>1. CASE pc'[v] \notin {"claimed", "await", "persist"}
  BY <1>1 DEF Chat
<1>2. CASE BeginInGate(v)
  <2>1. CASE ~BeginConflict(req[v]) /\ ShouldSend(req[v]) /\ BeginDelivery(req[v])
    <3>1. schema = 3 /\ req[v] \in Request
      BY <1>2, HandlerBegins
    <3>2. Effects(k) = {}
      BY <2>1, <3>1, BeginOutcome
    <3>3. pc'[v] = "claimed" \/ pc'[v] = "answer"
      BY <1>2 DEF BeginInGate, WorkerTypeOK
    <3> QED BY <1>2, <3>2, <3>3 DEF BeginInGate, Chat, Effects, chatVars
  <2>2. CASE ~(~BeginConflict(req[v]) /\ ShouldSend(req[v]) /\ BeginDelivery(req[v]))
    BY <1>1, <1>2, <2>2 DEF BeginInGate, WorkerTypeOK
  <2> QED BY <2>1, <2>2
<1>3. CASE RefuseLocally(v) \/ NotWritten(v)
  <2>1. /\ pc'[v] = "persist" /\ req' = req /\ Effects(k) = {}
        /\ wire' = wire /\ posted' = posted
        /\ result'[v].state \in {"retryable", "permanent"}
    BY <1>0, <1>3 DEF RefuseLocally, NotWritten, Chat, WorkerTypeOK, chatVars
  <2> QED BY <2>1 DEF Chat, Effects
<1>4. CASE CallTelegram(v)
  <2>1. /\ pc'[v] = "await" /\ req' = req /\ Effects(k) = {} /\ posted' = posted
        /\ call'[v] = calls + 1 /\ wire' = [wire EXCEPT ![k] = @ \cup {calls + 1}]
    BY <1>0, <1>4 DEF CallTelegram, Chat, WorkerTypeOK
  <2>2. wire'[k] = {calls + 1} /\ posted'[k] = {}
    BY <1>0, <2>1 DEF Effects, ChatTypeOK
  <2> QED BY <2>1, <2>2 DEF Chat, Effects
<1>5. CASE ReceiveMessage(v)
  <2>1. /\ pc'[v] = "persist" /\ req' = req /\ Effects(k) = {call[v]}
        /\ wire' = wire /\ posted' = posted /\ call[v] \in posted[k]
        /\ result'[v].state = "delivered" /\ result'[v].msg = call[v]
    BY <1>0, <1>5 DEF ReceiveMessage, Chat, WorkerTypeOK, chatVars
  <2>2. posted[k] = {call[v]} /\ wire[k] = {}
    BY <1>0, <2>1 DEF Effects, EffectInv
  <2> QED BY <2>1, <2>2 DEF Chat
<1>6. ASSUME NEW state \in {"retryable", "permanent"}, NEW wait \in 0..MaxRetryAfter,
             ReceiveRefusal(v, state, wait)
      PROVE  Chat(v)'
  <2>1. /\ pc'[v] = "persist" /\ req' = req /\ Effects(k) = {call[v]}
        /\ posted' = posted /\ call[v] \in wire[k]
        /\ wire' = [wire EXCEPT ![k] = @ \ {call[v]}]
        /\ result'[v].state # "delivered"
    BY <1>0, <1>6 DEF ReceiveRefusal, Chat, WorkerTypeOK
  <2>2. posted'[k] = {} /\ wire'[k] = {}
    <3>1. posted[k] = {} /\ wire[k] = {call[v]}
      BY <1>0, <2>1 DEF Effects, EffectInv
    <3> QED BY <1>0, <2>1, <3>1 DEF ChatTypeOK
  <2> QED BY <2>1, <2>2 DEF Chat, Effects
<1>7. CASE ReceiveNothing(v)
  <2>1. pc'[v] = "persist" /\ result'[v].state = "unknown"
    BY <1>7 DEF ReceiveNothing, WorkerTypeOK
  <2> QED BY <2>1 DEF Chat
<1>8. CASE \/ InspectRead(v) \/ InspectDecide(v) \/ StoreFails(v)
           \/ ReplayTerminal(v) \/ AcquireGate(v) \/ CancelWait(v)
           \/ Persist(v) \/ PersistFails(v) \/ Respond(v)
  <2>1. pc'[v] \in {"inspect", "answer", "replay", "waiting", "begin", "idle"}
    BY <1>8 DEF InspectRead, InspectDecide, StoreFails, ReplayTerminal, AcquireGate,
       CancelWait, Persist, PersistFails, Respond, WorkerTypeOK
  <2> QED BY <1>1, <2>1
<1> QED BY <1>2, <1>3, <1>4, <1>5, <1>6, <1>7, <1>8 DEF WorkerStep

\* Every step keeps the claims with their holders.
LEMMA ClaimStep == Inv /\ Next => ClaimInv'
<1> SUFFICES ASSUME Inv, Next, NEW v \in Workers
    PROVE  /\ Chat(v)'
           /\ Holds(v)' =>
                /\ canon'[v] \in IDs
                /\ deliveries'[canon'[v]].state = "sending"
                /\ idempotency'[canon'[v]] = [version |-> 2, i |-> req'[v].i,
                                              digest |-> Logical(req'[v])]
  BY DEF ClaimInv, Chat, Logical, Effects
<1> USE DEF Inv, TypeOK, Goto, Answer, Outcome
<1> DEFINE Row == Holds(v)' =>
                    /\ canon'[v] \in IDs
                    /\ deliveries'[canon'[v]].state = "sending"
                    /\ idempotency'[canon'[v]] = [version |-> 2, i |-> req'[v].i,
                                                  digest |-> Logical(req'[v])]
<1>0. Chat(v) /\ (Holds(v) => mode = "up")
  BY DEF ClaimInv, Chat, GateInv, Holds
<1>1. ASSUME Holds(v), canon'[v] = canon[v], req'[v] = req[v]
      PROVE  Row
  <2>1. Holds(v)' => pc'[v] # "answer" /\ pc'[v] # "idle"
    BY DEF Holds
  <2>2. /\ canon[v] \in IDs
        /\ idempotency[canon[v]] = [version |-> 2, i |-> req[v].i,
                                    digest |-> Logical(req[v])]
    BY <1>1 DEF ClaimInv
  <2> QED BY <1>1, <2>1, <2>2, ClaimedRow
<1>2. ASSUME WorkerStep(v)
      PROVE  Row
  <2>1. CASE RefuseLocally(v) \/ NotWritten(v) \/ CallTelegram(v)
             \/ ReceiveMessage(v) \/ ReceiveNothing(v)
             \/ \E state \in {"retryable", "permanent"}, wait \in 0..MaxRetryAfter :
                  ReceiveRefusal(v, state, wait)
    <3>1. Holds(v) /\ canon' = canon /\ req' = req
      BY <2>1 DEF RefuseLocally, NotWritten, CallTelegram, ReceiveMessage,
         ReceiveNothing, ReceiveRefusal, Holds
    <3> QED BY <1>1, <3>1
  <2>2. CASE BeginInGate(v)
    <3>1. CASE ~BeginConflict(req[v]) /\ ShouldSend(req[v]) /\ BeginDelivery(req[v])
               /\ canon' = [canon EXCEPT ![v] = Canonical(req[v])]
      <4> SUFFICES ASSUME NEW d, d = Canonical(req[v]) PROVE Row
        OBVIOUS
      <4>1. schema = 3 /\ req[v] \in Request /\ req' = req
        BY <2>2, HandlerBegins DEF BeginInGate
      <4>2. /\ d \in IDs /\ deliveries'[d] = BeginRow(deliveries[d], req[v])
            /\ idempotency'[d] = [version |-> 2, i |-> req[v].i,
                                  digest |-> Logical(req[v])]
        BY <3>1, <4>1, BeginEffect
      <4>3. BeginRow(deliveries[d], req[v]).state = "sending"
        BY <3>1, <4>1, BeginOutcome
      <4> QED BY <3>1, <4>1, <4>2, <4>3 DEF WorkerTypeOK
    <3>2. CASE ~Holds(v)'
      BY <3>2
    <3>3. pc'[v] \in {"answer", "claimed"}
          /\ (pc'[v] = "claimed" =>
                /\ ~BeginConflict(req[v]) /\ ShouldSend(req[v])
                /\ BeginDelivery(req[v])
                /\ canon' = [canon EXCEPT ![v] = Canonical(req[v])])
      BY <2>2 DEF BeginInGate, WorkerTypeOK
    <3> QED BY <3>1, <3>2, <3>3 DEF Holds
  <2>3. CASE \/ InspectRead(v) \/ InspectDecide(v) \/ StoreFails(v)
             \/ ReplayTerminal(v) \/ AcquireGate(v) \/ CancelWait(v)
             \/ Persist(v) \/ PersistFails(v) \/ Respond(v)
    <3>1. ~Holds(v)'
      BY <2>3 DEF InspectRead, InspectDecide, StoreFails, ReplayTerminal, AcquireGate,
         CancelWait, Persist, PersistFails, Respond, WorkerTypeOK, Holds
    <3> QED BY <3>1
  <2> QED BY <1>2, <2>1, <2>2, <2>3 DEF WorkerStep
<1>3. ASSUME NEW w \in Workers, w # v,
             WorkerStep(w) \/ (\E r \in Requests : Submit(w, r))
      PROVE  Row /\ Chat(v)'
  <2>1. /\ pc'[v] = pc[v] /\ req'[v] = req[v] /\ canon'[v] = canon[v]
        /\ call'[v] = call[v] /\ result'[v] = result[v]
    BY <1>3, OthersStay
  <2>2. CASE Holds(v)
    <3>1. wire' = wire /\ posted' = posted
      <4>1. ~CallTelegram(w)
            /\ \A state, wait : ~ReceiveRefusal(w, state, wait)
        BY <1>3, <2>2, OneInside DEF Holds, CallTelegram, ReceiveRefusal
      <4> QED BY <1>3, <4>1 DEF WorkerStep, Submit, InspectRead, InspectDecide,
              StoreFails, ReplayTerminal, AcquireGate, CancelWait, BeginInGate,
              RefuseLocally, NotWritten, ReceiveMessage, ReceiveNothing, Persist,
              PersistFails, Respond, chatVars
    <3>2. Chat(v)'
      BY <1>0, <2>1, <3>1 DEF Chat, Effects
    <3> QED BY <1>1, <2>1, <2>2, <3>2
  <2>3. CASE ~Holds(v)
    BY <2>1, <2>3 DEF Holds, Chat
  <2> QED BY <2>2, <2>3
<1>4. ASSUME UNCHANGED workerVars,
             ~Holds(v) \/ \A k \in IDs :
               \/ wire'[k] = wire[k] /\ posted'[k] = posted[k]
               \/ \E n \in wire[k] :
                    /\ wire'[k] = wire[k] \ {n}
                    /\ \/ posted'[k] = posted[k] \cup {n}
                       \/ /\ posted'[k] = posted[k]
                          /\ ~(pc[v] = "await" /\ req[v].i = k /\ call[v] = n)
      PROVE  Row /\ Chat(v)'
  <2>1. pc' = pc /\ req' = req /\ canon' = canon /\ call' = call /\ result' = result
    BY <1>4 DEF workerVars
  <2>2. CASE Holds(v)
    <3> SUFFICES ASSUME NEW k, k = req[v].i PROVE Chat(v)'
      BY <1>1, <2>1, <2>2
    <3>1. k \in IDs
      BY <2>2, RequestsAssumption DEF Holds, GateInv, Request
    <3>2. \/ wire'[k] = wire[k] /\ posted'[k] = posted[k]
          \/ \E n \in wire[k] :
               /\ wire'[k] = wire[k] \ {n}
               /\ \/ posted'[k] = posted[k] \cup {n}
                  \/ /\ posted'[k] = posted[k]
                     /\ ~(pc[v] = "await" /\ call[v] = n)
      BY <1>4, <2>2, <3>1
    <3>3. /\ Effects(k) = {} => Effects(k)' = {}
          /\ pc[v] = "await" /\ Effects(k) = {call[v]} => Effects(k)' = {call[v]}
          /\ wire[k] = {} => wire'[k] = {} /\ posted'[k] = posted[k]
      BY <3>2 DEF Effects
    <3> QED BY <1>0, <2>1, <3>3 DEF Chat, Effects
  <2>3. CASE ~Holds(v)
    BY <2>1, <2>3 DEF Holds, Chat
  <2> QED BY <2>2, <2>3
<1>5. ASSUME NEW k \in IDs, NEW n \in wire[k], TelegramPosts(k, n) \/ TelegramDrops(k, n)
      PROVE  Row /\ Chat(v)'
  BY <1>4, <1>5 DEF TelegramPosts, TelegramDrops, ChatTypeOK
<1>6. CASE Tick \/ Migrate \/ Recover \/ Serve
  BY <1>4, <1>6 DEF Tick, Migrate, Recover, Serve, chatVars
<1>7. CASE Crash
  BY <1>7 DEF Crash, Holds, Chat
<1>8. ASSUME NEW r \in Requests, Submit(v, r)
      PROVE  Row /\ Chat(v)'
  BY <1>8 DEF Submit, Holds, Chat, WorkerTypeOK
<1> QED BY <1>2, <1>3, <1>5, <1>6, <1>7, <1>8, OwnChat DEF Next, Environment

-----------------------------------------------------------------------------
(* Inspection.                                                             *)

\* A SELECT that finds a record finds the one its identity is aliased to.
LEMMA ReadFinds ==
  ASSUME StoreTypeOK, IdentityInv, schema = 3, NEW r \in Request, NEW n \in 1..4,
         Read(r, n).state # "absent"
  PROVE  /\ Read(r, n).d \in IDs
         /\ aliases[IF n <= 2 THEN r.d ELSE r.i] = Read(r, n).d
         /\ Read(r, n).state = deliveries[Read(r, n).d].state
<1> DEFINE x == IF n <= 2 THEN r.d ELSE r.i
<1>1. x \in IDs /\ aliases[x] \in IDs \cup {None}
  BY DEF Request, StoreTypeOK
<1>2. ASSUME NEW e \in IDs
      PROVE  getDelivery(e).d = e /\ getDelivery(e).state = deliveries[e].state
  BY DEF getDelivery
<1>3. Read(r, n) = getDeliveryByAlias(x) \/ Read(r, n) = getDelivery(x)
  BY DEF Read
<1> HIDE DEF x
<1>4. CASE Read(r, n) = getDelivery(x)
  <2>1. Exists(x) /\ Read(r, n).d = x
    BY <1>1, <1>2, <1>4 DEF Exists
  <2>2. aliases[x] = x
    BY <1>1, <2>1 DEF IdentityInv
  <2> QED BY <1>1, <1>2, <1>4, <2>1, <2>2 DEF x
<1>5. CASE Read(r, n) = getDeliveryByAlias(x)
  <2>1. aliases[x] \in IDs /\ Read(r, n) = getDelivery(aliases[x])
    BY <1>1, <1>5 DEF getDeliveryByAlias, NotFound
  <2> QED BY <1>2, <2>1 DEF x
<1> QED BY <1>3, <1>4, <1>5

\* The first record found is one of the four.
LEMMA FoundOne ==
  ASSUME NEW s
  PROVE  \E n \in 1..4 : FirstFound(s) = s[n]
<1>1. 1 \in 1..4 /\ 2 \in 1..4 /\ 3 \in 1..4 /\ 4 \in 1..4
  OBVIOUS
<1>2. \/ FirstFound(s) = s[1] \/ FirstFound(s) = s[2]
      \/ FirstFound(s) = s[3] \/ FirstFound(s) = s[4]
  BY Zenon DEF FirstFound
<1> QED BY <1>1, <1>2, Zenon

\* What was read stays so.
LEMMA SoundStays ==
  ASSUME Inv, Next, mode = "up", NEW record, NEW n \in 1..4, NEW r \in Request,
         Sound(record, n, r)
  PROVE  Sound(record, n, r)'
<1> SUFFICES ASSUME record.state # "absent"
    PROVE  /\ record.d \in IDs
           /\ aliases'[IF n <= 2 THEN r.d ELSE r.i] = record.d
           /\ record.state \in Final => deliveries'[record.d].state \in Final
  BY DEF Sound
<1> DEFINE x == IF n <= 2 THEN r.d ELSE r.i
<1>1. x \in IDs
  BY DEF Request
<1>2. /\ record.d \in IDs /\ aliases[x] = record.d
      /\ record.state \in Final => deliveries[record.d].state \in Final
  BY DEF Sound
<1> HIDE DEF x
<1>3. aliases'[x] = record.d
  BY <1>1, <1>2, AliasesStay, NoneAssumption
<1>4. record.state \in Final => deliveries'[record.d].state \in Final
  BY <1>2, FinalStays
<1> QED BY <1>2, <1>3, <1>4 DEF x

\* Every step keeps what the workers have read sound.
LEMMA SeenStep == Inv /\ Next => SeenInv'
<1> SUFFICES ASSUME Inv, Next, NEW v \in Workers
    PROVE  /\ pc'[v] = "inspect" =>
                /\ Len(seen'[v]) <= 3
                /\ \A n \in 1..Len(seen'[v]) : Sound(seen[v][n], n, req[v])'
           /\ pc'[v] = "replay" =>
                /\ canon'[v] \in IDs
                /\ deliveries'[canon'[v]].state \in Final
                /\ canon'[v] \in {aliases'[req'[v].d], aliases'[req'[v].i]}
  BY DEF SeenInv, Sound
<1> USE DEF Inv, TypeOK, Goto, Answer, Outcome
<1> DEFINE Seen == pc'[v] = "inspect" =>
                     /\ Len(seen'[v]) <= 3
                     /\ \A n \in 1..Len(seen'[v]) : Sound(seen[v][n], n, req[v])'
           Replay == pc'[v] = "replay" =>
                       /\ canon'[v] \in IDs
                       /\ deliveries'[canon'[v]].state \in Final
                       /\ canon'[v] \in {aliases'[req'[v].d], aliases'[req'[v].i]}
<1>0. /\ pc[v] = "inspect" =>
           /\ Len(seen[v]) <= 3
           /\ \A n \in 1..Len(seen[v]) : Sound(seen[v][n], n, req[v])
      /\ pc[v] # "idle" => mode = "up" /\ schema = 3 /\ req[v] \in Request
  BY RequestsAssumption DEF SeenInv, Sound, GateInv, IdentityInv, ProcTypeOK
<1>1. ASSUME pc'[v] = pc[v], req'[v] = req[v], seen'[v] = seen[v], canon'[v] = canon[v]
      PROVE  Seen /\ Replay
  <2>1. CASE pc[v] = "inspect"
    <3>1. ASSUME NEW n \in 1..Len(seen[v])
          PROVE  Sound(seen[v][n], n, req[v])'
      <4> SUFFICES ASSUME NEW record, record = seen[v][n], NEW r, r = req[v]
          PROVE  Sound(record, n, r)'
        BY <1>1 DEF Sound
      <4>1. Sound(record, n, r) /\ r \in Request /\ mode = "up"
        BY <1>0, <2>1
      <4>2. n \in 1..4
        BY <1>0, <2>1 DEF WorkerTypeOK
      <4> QED BY <4>1, <4>2, SoundStays
    <3> QED BY <1>0, <1>1, <2>1, <3>1
  <2>2. CASE pc[v] = "replay"
    <3>1. /\ canon[v] \in IDs /\ deliveries[canon[v]].state \in Final
          /\ canon[v] \in {aliases[req[v].d], aliases[req[v].i]}
          /\ req[v].d \in IDs /\ req[v].i \in IDs
      BY <1>0, <2>2 DEF SeenInv, Request
    <3>2. deliveries'[canon[v]].state \in Final
      BY <3>1, FinalStays
    <3>3. canon[v] \in {aliases'[req[v].d], aliases'[req[v].i]}
      BY <1>0, <2>2, <3>1, AliasesStay, NoneAssumption
    <3> QED BY <1>1, <2>2, <3>1, <3>2, <3>3
  <2> QED BY <1>1, <2>1, <2>2
<1>2. CASE InspectRead(v)
  <2>1. /\ pc[v] = "inspect" /\ pc' = pc /\ req' = req /\ Len(seen[v]) < 3
        /\ seen' = [seen EXCEPT ![v] = Append(@, Read(req[v], Len(seen[v]) + 1))]
        /\ aliases' = aliases /\ deliveries' = deliveries
    BY <1>2 DEF InspectRead, storeVars
  <2>2. seen[v] \in Seq(Records) /\ Len(seen[v]) \in Nat /\ Len(seen[v]) + 1 \in 1..4
    BY <2>1 DEF WorkerTypeOK
  <2> SUFFICES ASSUME NEW q, q = seen[v], NEW r, r = req[v], NEW e, e = Read(r, Len(q) + 1)
      PROVE  Seen
    BY <2>1
  <2>3. seen'[v] = Append(q, e) /\ r \in Request /\ e \in Records
    BY <1>0, <2>1, <2>2, ReadType DEF WorkerTypeOK
  <2>4. Len(Append(q, e)) = Len(q) + 1 /\ Append(q, e)[Len(q) + 1] = e
    BY <2>2, <2>3, AppendLast
  <2>5. Sound(e, Len(q) + 1, r)
    BY <1>0, <2>1, <2>2, ReadFinds DEF Sound
  <2>6. ASSUME NEW n \in 1..(Len(q) + 1)
        PROVE  Sound(Append(q, e)[n], n, r)
    <3>1. CASE n = Len(q) + 1
      BY <2>4, <2>5, <3>1
    <3>2. CASE n # Len(q) + 1
      <4>1. n \in 1..Len(q)
        BY <2>2, <3>2
      <4>2. Append(q, e)[n] = q[n]
        BY <2>2, <2>3, <4>1, AppendKeeps
      <4> QED BY <1>0, <2>1, <4>1, <4>2
    <3> QED BY <3>1, <3>2
  <2> QED BY <2>1, <2>2, <2>3, <2>4, <2>6 DEF Sound
<1>3. CASE InspectDecide(v)
  <2>1. /\ pc[v] = "inspect" /\ req' = req /\ Len(seen[v]) = 3
        /\ aliases' = aliases /\ deliveries' = deliveries
    BY <1>3 DEF InspectDecide, storeVars
  <2> SUFFICES ASSUME NEW s, s = Append(seen[v], Read(req[v], 4)),
                      NEW r, r = req[v]
      PROVE  Seen /\ Replay
    OBVIOUS
  <2>2. \A n \in 1..4 : Sound(s[n], n, r)
    <3>1. seen[v] \in Seq(Records) /\ r \in Request /\ Read(r, 4) \in Records
      BY <1>0, <2>1, ReadType DEF WorkerTypeOK
    <3>2. (\A n \in 1..3 : s[n] = seen[v][n]) /\ s[4] = Read(r, 4)
      BY <2>1, <3>1, FourthRead
    <3>3. Sound(Read(r, 4), 4, r)
      BY <1>0, <2>1, ReadFinds DEF Sound
    <3>4. \A n \in 1..3 : Sound(s[n], n, r)
      BY <1>0, <2>1, <3>2
    <3>5. ASSUME NEW n \in 1..4 PROVE n \in 1..3 \/ n = 4
      OBVIOUS
    <3> QED BY <3>2, <3>3, <3>4, <3>5
  <2>3. pc'[v] # "inspect"
        /\ (pc'[v] = "replay" => /\ canon'[v] = FirstFound(s).d
                                 /\ FirstFound(s).state \in Final)
    <3>1. /\ pc'[v] \in {"answer", "replay", "waiting"}
          /\ pc'[v] = "replay" => /\ FirstFound(s).state \in Final
                                 /\ canon' = [canon EXCEPT ![v] = FirstFound(s).d]
      BY <1>3 DEF InspectDecide, WorkerTypeOK
    <3> QED BY <3>1 DEF WorkerTypeOK
  <2>4. \E n \in 1..4 : FirstFound(s) = s[n]
    BY FoundOne
  <2>5. pc'[v] = "replay" => Sound(FirstFound(s), 1, r) \/ Sound(FirstFound(s), 3, r)
    <3>1. PICK n \in 1..4 : FirstFound(s) = s[n]
      BY <2>4
    <3>2. Sound(FirstFound(s), n, r)
      BY <2>2, <3>1
    <3> QED BY <3>2 DEF Sound
  <2>6. ASSUME pc'[v] = "replay"
        PROVE  /\ canon'[v] \in IDs
               /\ deliveries[canon'[v]].state \in Final
               /\ canon'[v] \in {aliases[r.d], aliases[r.i]}
    <3>1. canon'[v] = FirstFound(s).d /\ FirstFound(s).state \in Final
      BY <2>3, <2>6
    <3>2. FirstFound(s).state # "absent"
      BY <3>1 DEF Final
    <3> QED BY <2>5, <2>6, <3>1, <3>2 DEF Sound
  <2> QED BY <2>1, <2>3, <2>6
<1>4. ASSUME NEW r \in Requests, Submit(v, r)
      PROVE  Seen /\ Replay
  <2>1. pc'[v] = "inspect" /\ seen'[v] = <<>>
    BY <1>4 DEF Submit, WorkerTypeOK
  <2>2. Len(<<>>) = 0
    BY EmptySeq
  <2> QED BY <2>1, <2>2
<1>5. CASE \/ StoreFails(v) \/ ReplayTerminal(v) \/ AcquireGate(v) \/ CancelWait(v)
           \/ BeginInGate(v) \/ RefuseLocally(v) \/ NotWritten(v) \/ CallTelegram(v)
           \/ ReceiveMessage(v) \/ ReceiveNothing(v)
           \/ (\E state \in {"retryable", "permanent"}, wait \in 0..MaxRetryAfter :
                 ReceiveRefusal(v, state, wait))
           \/ Persist(v) \/ PersistFails(v) \/ Respond(v)
  <2>1. pc'[v] \in {"answer", "begin", "claimed", "await", "persist", "idle"}
    BY <1>5 DEF StoreFails, ReplayTerminal, AcquireGate, CancelWait, BeginInGate,
       RefuseLocally, NotWritten, CallTelegram, ReceiveMessage, ReceiveNothing,
       ReceiveRefusal, Persist, PersistFails, Respond, WorkerTypeOK
  <2> QED BY <2>1
<1>6. ASSUME NEW w \in Workers, w # v,
             WorkerStep(w) \/ (\E r \in Requests : Submit(w, r))
      PROVE  Seen /\ Replay
  BY <1>1, <1>6, OthersStay
<1>7. CASE \/ \E k \in IDs : \E n \in wire[k] : TelegramPosts(k, n) \/ TelegramDrops(k, n)
           \/ Tick \/ Migrate \/ Recover \/ Serve
  <2>1. UNCHANGED workerVars
    BY <1>7 DEF TelegramPosts, TelegramDrops, Tick, Migrate, Recover, Serve
  <2> QED BY <1>1, <2>1 DEF workerVars
<1>8. CASE Crash
  BY <1>8 DEF Crash
<1>9. CASE WorkerStep(v)
  <2>1. Replay
    BY <1>2, <1>3, <1>5, <1>9 DEF WorkerStep, InspectRead
  <2>2. Seen
    BY <1>2, <1>3, <1>5, <1>9 DEF WorkerStep
  <2> QED BY <2>1, <2>2
<1> QED BY <1>4, <1>6, <1>7, <1>8, <1>9 DEF Next, Environment

-----------------------------------------------------------------------------
(* Responses.                                                              *)

\* What a record backs, it backs for ever.
LEMMA BackedStays ==
  ASSUME Inv, Next, NEW r, NEW response, Backed(r, response)
  PROVE  Backed(r, response)'
<1>1. ASSUME NEW d \in IDs, deliveries[d].state \in Final, Key(d) = r.i,
             response = replayDelivery(deliveries[d])
      PROVE  /\ deliveries'[d].state \in Final /\ Key(d)' = r.i
             /\ response = replayDelivery(deliveries'[d])
  <2>1. deliveries'[d] = deliveries[d]
    BY <1>1, FinalStays
  <2>2. Key(d)' = Key(d)
    BY <1>1, KeysStay DEF Exists, Final
  <2> QED BY <1>1, <2>1, <2>2
<1> QED BY <1>1 DEF Backed

\* Retryable responses and conflicts need no record.
LEMMA PlainBacked ==
  ASSUME NEW r, NEW response, response \in {Retry, Conflict}
  PROVE  Backed(r, response)'
<1>1. Retry.status = "retryable"
  BY DEF Retry
<1>2. response.status = "retryable" \/ response = Conflict
  BY <1>1
<1> QED BY <1>2 DEF Backed

\* A replay is backed by the record replayed.
LEMMA ReplayBacked ==
  ASSUME NEW d \in IDs, NEW r, Key(d)' = r.i,
         NEW response, response = replayDelivery(deliveries'[d])
  PROVE  Backed(r, response)'
<1>1. CASE deliveries'[d].state \in Final
  BY <1>1 DEF Backed
<1>2. CASE deliveries'[d].state \notin Final
  <2>1. response = Retry
    BY <1>2 DEF replayDelivery, Final
  <2> QED BY <2>1, PlainBacked
<1> QED BY <1>1, <1>2

\* A worker that is about to answer has an answer that is backed.
LEMMA OwnAnswer ==
  ASSUME Inv, Next, NEW v \in Workers, WorkerStep(v), pc'[v] = "answer",
         NEW response, response = reply'[v]
  PROVE  req'[v] = req[v] /\ Backed(req[v], response)'
<1> USE DEF Inv, TypeOK, WorkerTypeOK, Goto, Answer, Outcome
<1>0. /\ ~InspectRead(v) /\ ~AcquireGate(v) /\ ~RefuseLocally(v) /\ ~NotWritten(v)
      /\ ~CallTelegram(v) /\ ~ReceiveMessage(v) /\ ~ReceiveNothing(v) /\ ~Respond(v)
      /\ \A state, wait : ~ReceiveRefusal(v, state, wait)
  BY DEF InspectRead, AcquireGate, RefuseLocally, NotWritten, CallTelegram,
     ReceiveMessage, ReceiveNothing, Respond, ReceiveRefusal
<1>1. CASE InspectDecide(v) \/ StoreFails(v) \/ CancelWait(v) \/ PersistFails(v)
  <2>1. req'[v] = req[v] /\ response \in {Retry, Conflict}
    BY <1>1 DEF InspectDecide, StoreFails, CancelWait, PersistFails
  <2> QED BY <2>1, PlainBacked DEF Backed
<1>2. CASE ReplayTerminal(v) \/ BeginInGate(v)
  <2> SUFFICES ASSUME NEW r, r = req[v], NEW d, d = Canonical(r)
      PROVE  req'[v] = req[v] /\ Backed(r, response)'
    BY DEF Backed
  <2>1. \/ response \in {Retry, Conflict}
        \/ /\ ~BeginConflict(r) /\ BeginDelivery(r)
           /\ response = replayDelivery(deliveries'[d])
    BY <1>2 DEF ReplayTerminal, BeginInGate
  <2>2. req'[v] = req[v]
    BY <1>2 DEF ReplayTerminal, BeginInGate
  <2>3. CASE ~BeginConflict(r) /\ BeginDelivery(r)
             /\ response = replayDelivery(deliveries'[d])
    <3>1. schema = 3 /\ r \in Request
      BY <1>2, HandlerBegins
    <3>2. d \in IDs /\ Key(d)' = r.i
      BY <2>3, <3>1, BeginEffect
    <3> QED BY <2>2, <2>3, <3>2, ReplayBacked
  <2> QED BY <2>1, <2>2, <2>3, PlainBacked
<1>3. CASE Persist(v)
  <2> SUFFICES ASSUME NEW r, r = req[v], NEW d, d = canon[v]
      PROVE  req'[v] = req[v] /\ Backed(r, response)'
    BY DEF Backed
  <2>1. \/ response = Retry
        \/ updateDelivery(d, result[v]) /\ response = replayDelivery(deliveries'[d])
    BY <1>3 DEF Persist
  <2>2. req'[v] = req[v]
    BY <1>3 DEF Persist
  <2>3. CASE updateDelivery(d, result[v]) /\ response = replayDelivery(deliveries'[d])
    <3>1. d \in IDs /\ Key(d) = r.i /\ idempotency' = idempotency
      BY <1>3, <2>3, Recorded
    <3> QED BY <2>2, <2>3, <3>1, ReplayBacked DEF Key
  <2> QED BY <2>1, <2>2, <2>3, PlainBacked
<1> QED BY <1>0, <1>1, <1>2, <1>3 DEF WorkerStep

\* Every step keeps the responses true.
LEMMA AnswerStep == Inv /\ Next => AnswerInv'
<1> SUFFICES ASSUME Inv, Next PROVE AnswerInv'
  OBVIOUS
<1> USE DEF Inv, TypeOK
<1>1. ASSUME NEW v \in Workers, pc'[v] = "answer"
      PROVE  Backed(req[v], reply[v])'
  <2> SUFFICES ASSUME NEW r, r = req'[v], NEW response, response = reply'[v]
      PROVE  Backed(r, response)'
    BY DEF Backed
  <2>1. CASE pc[v] = "answer" /\ req'[v] = req[v] /\ reply'[v] = reply[v]
    BY <2>1, BackedStays DEF AnswerInv
  <2>2. CASE WorkerStep(v)
    BY <1>1, <2>2, OwnAnswer
  <2>3. ASSUME NEW w \in Workers, w # v,
               WorkerStep(w) \/ (\E q \in Requests : Submit(w, q))
        PROVE  Backed(r, response)'
    BY <1>1, <2>1, <2>3, OthersStay
  <2>4. CASE \/ \E k \in IDs : \E n \in wire[k] : TelegramPosts(k, n) \/ TelegramDrops(k, n)
             \/ Tick \/ Migrate \/ Recover \/ Serve
    <3>1. UNCHANGED workerVars
      BY <2>4 DEF TelegramPosts, TelegramDrops, Tick, Migrate, Recover, Serve
    <3> QED BY <1>1, <2>1, <3>1 DEF workerVars
  <2>5. ~Crash /\ \A q : ~Submit(v, q)
    BY <1>1 DEF Crash, Submit, Goto, WorkerTypeOK
  <2> QED BY <2>2, <2>3, <2>4, <2>5 DEF Next, Environment
<1>2. ASSUME NEW a \in answers'
      PROVE  Backed(a.req, a.reply)' /\ a.reply.status # "retryable"
  <2>1. CASE a \in answers
    <3> SUFFICES ASSUME NEW r, r = a.req, NEW response, response = a.reply
        PROVE  Backed(r, response)' /\ response.status # "retryable"
      BY DEF Backed
    <3> QED BY <2>1, BackedStays DEF AnswerInv
  <2>2. ASSUME NEW w \in Workers, Respond(w), a \notin answers
        PROVE  Backed(a.req, a.reply)' /\ a.reply.status # "retryable"
    <3> SUFFICES ASSUME NEW r, r = a.req, NEW response, response = a.reply
        PROVE  Backed(r, response)' /\ response.status # "retryable"
      BY DEF Backed
    <3>1. /\ pc[w] = "answer" /\ reply[w].status # "retryable"
          /\ r = req[w] /\ response = reply[w]
      BY <2>2 DEF Respond
    <3> QED BY <3>1, BackedStays DEF AnswerInv
  <2>3. (\A w \in Workers : ~Respond(w)) => answers' = answers
    BY DEF Next, Environment, WorkerStep, Submit, InspectRead, InspectDecide, StoreFails,
       ReplayTerminal, AcquireGate, CancelWait, BeginInGate, RefuseLocally, NotWritten,
       CallTelegram, ReceiveMessage, ReceiveNothing, ReceiveRefusal, Persist,
       PersistFails, TelegramPosts, TelegramDrops, Tick, Crash, Migrate, Recover, Serve,
       histVars
  <2> QED BY <2>1, <2>2, <2>3
<1>3. ASSUME NEW d \in IDs, deliveries'[d].state = "unknown"
      PROVE  deliveries'[d].message \notin {"provider", "routing"}
  <2>0. deliveries[d] \in Rows
    BY DEF StoreTypeOK
  <2>1. CASE deliveries[d].state = "unknown"
    <3>1. deliveries'[d] = deliveries[d]
      BY <2>1, FinalStays DEF Final
    <3> QED BY <2>1, <3>1 DEF AnswerInv
  <2>2. Interrupted(deliveries[d]).message = "interrupted"
    BY <2>0 DEF Interrupted, Rows
  <2>3. CASE deliveries[d].state # "unknown"
    <3>1. ASSUME NEW w \in Workers, ReplayTerminal(w) \/ BeginInGate(w)
          PROVE  deliveries'[d].message \notin {"provider", "routing"}
      <4>1. CASE ~BeginConflict(req[w]) /\ BeginDelivery(req[w])
        <5> SUFFICES ASSUME NEW e, e = Canonical(req[w])
            PROVE  deliveries'[d].message \notin {"provider", "routing"}
          OBVIOUS
        <5>0. schema = 3 /\ req[w] \in Request
          BY <3>1, HandlerBegins
        <5>1. /\ deliveries'[e] = BeginRow(deliveries[e], req[w])
              /\ \A x \in IDs \ {e} : deliveries'[x] = deliveries[x]
          BY <4>1, <5>0, BeginEffect
        <5>2. \/ BeginRow(deliveries[d], req[w]) = deliveries[d]
              \/ BeginRow(deliveries[d], req[w]).state \in {"sending", "retryable"}
              \/ BeginRow(deliveries[d], req[w]) = Interrupted(deliveries[d])
          BY <2>0 DEF BeginRow, Created, Claimed, NoRow, Rows
        <5> QED BY <1>3, <2>2, <2>3, <5>1, <5>2
      <4> QED BY <1>3, <2>3, <3>1, <4>1, HandlerBegins DEF storeVars
    <3>2. ASSUME NEW w \in Workers, Persist(w), updateDelivery(canon[w], result[w])
          PROVE  deliveries'[d].message \notin {"provider", "routing"}
      <4>1. CASE d = canon[w]
        <5>1. /\ deliveries'[d].state = result[w].state
              /\ deliveries'[d].message = result[w].message
              /\ pc[w] = "persist"
          BY <3>2, <4>1, Recorded DEF Persist
        <5> QED BY <1>3, <5>1 DEF AnswerInv
      <4>2. CASE d # canon[w]
        BY <1>3, <2>3, <3>2, <4>2, Recorded
      <4> QED BY <4>1, <4>2
    <3>3. CASE Tick
      <4>1. Older(deliveries[d]).state = deliveries[d].state
        BY <2>0 DEF Older, Rows
      <4> QED BY <1>3, <2>3, <3>3, <4>1 DEF Tick, StoreTick
    <3>4. CASE Migrate \/ UNCHANGED storeVars
      BY <1>3, <2>3, <3>4 DEF Migrate, storeVars
    <3>5. CASE Recover
      BY <1>3, <2>2, <2>3, <3>5 DEF Recover, recoverInterruptedDeliveries
    <3> QED BY <3>1, <3>2, <3>3, <3>4, <3>5, StoreSteps
  <2> QED BY <2>1, <2>3
<1>4. ASSUME NEW v \in Workers, pc'[v] = "persist", result'[v].state = "unknown"
      PROVE  result'[v].message \notin {"provider", "routing"}
  <2> USE DEF WorkerTypeOK, Goto, Answer, Outcome, Result
  <2>1. CASE pc[v] = "persist" /\ result'[v] = result[v]
    BY <1>4, <2>1 DEF AnswerInv
  <2>2. CASE WorkerStep(v)
    <3>1. CASE RefuseLocally(v) \/ NotWritten(v) \/ ReceiveMessage(v)
      <4>1. result'[v].state # "unknown"
        <5>1. \E state \in {"permanent", "retryable", "delivered"} :
                \E msg, message :
                  result' = [result EXCEPT ![v] =
                               [state |-> state, msg |-> msg,
                                message |-> message, wait |-> 0]]
          BY <3>1 DEF RefuseLocally, NotWritten, ReceiveMessage
        <5> QED BY <5>1
      <4> QED BY <1>4, <4>1
    <3>2. CASE ReceiveNothing(v)
      BY <3>2 DEF ReceiveNothing
    <3>3. CASE \E state \in {"retryable", "permanent"}, wait \in 0..MaxRetryAfter :
                 ReceiveRefusal(v, state, wait)
      BY <1>4, <3>3 DEF ReceiveRefusal
    <3>4. CASE \/ InspectRead(v) \/ InspectDecide(v) \/ StoreFails(v)
               \/ ReplayTerminal(v) \/ AcquireGate(v) \/ CancelWait(v)
               \/ BeginInGate(v) \/ CallTelegram(v)
               \/ Persist(v) \/ PersistFails(v) \/ Respond(v)
      <4>1. pc'[v] # "persist"
        BY <3>4 DEF InspectRead, InspectDecide, StoreFails, ReplayTerminal,
           AcquireGate, CancelWait, BeginInGate, CallTelegram, Persist,
           PersistFails, Respond
      <4> QED BY <1>4, <4>1
    <3> QED BY <2>2, <3>1, <3>2, <3>3, <3>4 DEF WorkerStep
  <2>3. ASSUME NEW w \in Workers, w # v,
               WorkerStep(w) \/ (\E q \in Requests : Submit(w, q))
        PROVE  result'[v].message \notin {"provider", "routing"}
    BY <1>4, <2>1, <2>3, OthersStay
  <2>4. CASE \/ \E k \in IDs : \E n \in wire[k] : TelegramPosts(k, n) \/ TelegramDrops(k, n)
             \/ Tick \/ Migrate \/ Recover \/ Serve
    <3>1. UNCHANGED workerVars
      BY <2>4 DEF TelegramPosts, TelegramDrops, Tick, Migrate, Recover, Serve
    <3> QED BY <1>4, <2>1, <3>1 DEF workerVars
  <2>5. ~Crash /\ \A q : ~Submit(v, q)
    BY <1>4 DEF Crash, Submit
  <2> QED BY <2>2, <2>3, <2>4, <2>5 DEF Next, Environment
<1> QED BY <1>1, <1>2, <1>3, <1>4 DEF AnswerInv

-----------------------------------------------------------------------------
(* The initial states, and the theorems.                                   *)

\* The rows of a version 1 database.
LEMMA LegacyRows ==
  ASSUME LegacyInit, NEW k \in IDs
  PROVE  /\ deliveries[k] \in Rows /\ deliveries[k].wait = 0
         /\ Exists(k) => /\ deliveries[k].legacy \in Request
                         /\ deliveries[k].legacy.d = k
                         /\ deliveries[k].legacy.i = k
                         /\ deliveries[k].message = ""
         /\ deliveries[k].state = "delivered" => deliveries[k].msg = 1
<1>1. ASSUME NEW r \in Legacy, NEW state \in States \ {"absent"}
      PROVE  /\ LegacyRow(r, state) \in Rows
             /\ LegacyRow(r, state).legacy = r
             /\ LegacyRow(r, state).state = "delivered" => LegacyRow(r, state).msg = 1
             /\ LegacyRow(r, state).message = "" /\ LegacyRow(r, state).wait = 0
  BY Members, RequestsAssumption, LegacyAssumption DEF LegacyRow, NoRow, Rows
<1>2. NoRow \in Rows /\ NoRow.state = "absent" /\ NoRow.wait = 0
  BY Members DEF NoRow, Rows
<1>3. \A r \in Legacy : r \in Request /\ r.d = r.i
  BY RequestsAssumption, LegacyAssumption
<1>4. /\ deliveries[k] = NoRow
         \/ \E r \in Legacy, state \in States \ {"absent"} :
              deliveries[k] = LegacyRow(r, state)
      /\ Exists(k) => deliveries[k].legacy.d = k
  BY DEF LegacyInit
<1>5. CASE deliveries[k] = NoRow
  BY <1>2, <1>5 DEF Exists
<1>6. CASE \E r \in Legacy, state \in States \ {"absent"} :
             deliveries[k] = LegacyRow(r, state)
  <2>1. PICK r \in Legacy, state \in States \ {"absent"} :
               deliveries[k] = LegacyRow(r, state)
    BY <1>6
  <2>2. /\ LegacyRow(r, state) \in Rows
        /\ LegacyRow(r, state).legacy = r
        /\ LegacyRow(r, state).state = "delivered" => LegacyRow(r, state).msg = 1
        /\ LegacyRow(r, state).message = "" /\ LegacyRow(r, state).wait = 0
    BY <1>1
  <2> QED BY <1>3, <1>4, <2>1, <2>2
<1> QED BY <1>4, <1>5, <1>6

\* A database of the version 1 adapter satisfies the invariant.
LEMMA InitInv == Init => Inv
<1> SUFFICES ASSUME Init PROVE Inv
  OBVIOUS
<1>1. ASSUME NEW k \in IDs
      PROVE  /\ deliveries[k] \in Rows /\ deliveries[k].wait = 0
             /\ Exists(k) => /\ deliveries[k].legacy \in Request
                             /\ deliveries[k].legacy.d = k
                             /\ deliveries[k].legacy.i = k
                             /\ deliveries[k].message = ""
             /\ deliveries[k].state = "delivered" => deliveries[k].msg = 1
  BY LegacyRows DEF Init
<1> USE DEF Init
<1>2. /\ idempotency = [k \in IDs |-> NoIdempotency]
      /\ \A k \in IDs : idempotency[k].version = 1 /\ Key(k) = k
      /\ \A k \in IDs : aliases[k] = None
  BY DEF NoIdempotency, Key
<1>3. TypeOK
  <2>1. StoreTypeOK
    <3>1. deliveries \in [IDs -> Rows]
      <4>1. deliveries = [k \in IDs |-> deliveries[k]]
        BY DEF LegacyInit
      <4> QED BY <1>1, <4>1
    <3>2. NoIdempotency \in IdempotencyRows
      BY DEF NoIdempotency, IdempotencyRows
    <3> QED BY <3>1, <3>2, RetryAssumption DEF StoreTypeOK
  <2>2. WorkerTypeOK
    <3>1. Retry \in Replies /\ NoResult \in Results
      BY Members DEF Retry, Replies, NoResult, Result, Results
    <3>2. <<>> \in Seq(Records)
      BY EmptySeq
    <3> QED BY <3>1, <3>2 DEF WorkerTypeOK, Labels
  <2>3. ChatTypeOK
    <3>1. {{}, {1}} \subseteq SUBSET Nat
      OBVIOUS
    <3>2. wire \in [IDs -> {{}, {1}}] /\ posted \in [IDs -> {{}, {1}}] /\ calls = 1
      BY DEF LegacyInit
    <3> QED BY <3>1, <3>2 DEF ChatTypeOK
  <2>4. ProcTypeOK /\ HistTypeOK
    <3>1. mode = "down" /\ schema = 1 /\ gate = None /\ answers = {} /\ asked = 0
      OBVIOUS
    <3>2. unrecorded \in BOOLEAN
      BY Zenon
    <3> HIDE DEF Init
    <3> QED BY <3>1, <3>2, RetryAssumption DEF ProcTypeOK, HistTypeOK
  <2> QED BY <2>1, <2>2, <2>3, <2>4 DEF TypeOK
<1>4. IdentityInv
  <2>1. schema = 1 /\ mode = "down"
    OBVIOUS
  <2> HIDE DEF Init
  <2>2. /\ \A d \in IDs : Exists(d) => deliveries[d].legacy \in Request
        /\ \A d \in IDs : Exists(d) /\ idempotency[d].version = 1 =>
             deliveries[d].legacy.d = d /\ deliveries[d].legacy.i = d
    BY <1>1
  <2>3. /\ \A d \in IDs : idempotency[d].version # 2
        /\ \A d \in IDs : idempotency[d].version = 1 /\ aliases[d] = None
    BY <1>2
  <2>4. schema # 3
    BY <2>1
  <2> QED BY <2>1, <2>2, <2>3, <2>4, Zenon DEF IdentityInv
<1>5. EffectInv
  <2>1. ASSUME NEW k \in IDs
        PROVE  /\ posted[k] \in {{}, {1}} /\ wire[k] \in {{}, {1}}
               /\ deliveries[k].state \in {"absent", "retryable", "permanent"} =>
                    posted[k] = {} /\ wire[k] = {}
               /\ deliveries[k].state = "delivered" => posted[k] = {1}
               /\ posted[k] = {} \/ wire[k] = {}
    BY DEF LegacyInit
  <2>2. \A k \in IDs : Effects(k) # {} => Exists(k)
    BY <2>1 DEF Effects, Exists
  <2>3. \A k \in IDs : deliveries[k].state \in {"retryable", "permanent"} => Effects(k) = {}
    BY <2>1 DEF Effects
  <2>4. \A k \in IDs : deliveries[k].state = "delivered" =>
          posted[k] = {deliveries[k].msg} /\ wire[k] = {}
    BY <1>1, <2>1 DEF Exists
  <2>5. \A k \in IDs : posted[k] \cap wire[k] = {} /\ \A m, n \in Effects(k) : m = n
    BY <2>1 DEF Effects
  <2> QED BY <1>2, <2>2, <2>3, <2>4, <2>5 DEF EffectInv
<1>6. GateInv /\ ClaimInv /\ SeenInv
  BY DEF GateInv, ClaimInv, SeenInv, Holds, Chat
<1>7. AnswerInv /\ WaitInv
  BY <1>1 DEF AnswerInv, WaitInv, Exists
<1> QED BY <1>3, <1>4, <1>5, <1>6, <1>7 DEF Inv

\* A stuttering step changes nothing Inv speaks of.
LEMMA Stutter == Inv /\ UNCHANGED vars => Inv'
<1> SUFFICES ASSUME Inv, UNCHANGED vars PROVE Inv'
  OBVIOUS
<1> USE DEF vars, storeVars, procVars, workerVars, chatVars, histVars
<1>1. TypeOK'
  BY DEF Inv, TypeOK, StoreTypeOK, ProcTypeOK, WorkerTypeOK, ChatTypeOK, HistTypeOK
<1>2. IdentityInv' /\ EffectInv' /\ WaitInv'
  BY DEF Inv, IdentityInv, EffectInv, WaitInv, Exists, Key, Effects
<1>3. GateInv' /\ ClaimInv' /\ SeenInv'
  BY DEF Inv, GateInv, ClaimInv, SeenInv, Holds, Chat, Sound, Effects
<1>4. AnswerInv'
  BY DEF Inv, AnswerInv, Backed, Key
<1> QED BY <1>1, <1>2, <1>3, <1>4 DEF Inv

\* The invariant of the handlers, the store and the chat is inductive.
THEOREM Invariance == Spec => []Inv
<1>1. Inv /\ [Next]_vars => Inv'
  BY TypeStep, IdentityStep, EffectStep, GateStep, ClaimStep, SeenStep, AnswerStep,
     WaitStep, Stutter DEF Inv
<1> QED BY InitInv, <1>1, PTL DEF Spec

\* Every variable always has its type.
THEOREM TypeCorrect == Spec => []TypeOK
<1>1. Inv => TypeOK
  BY DEF Inv
<1> QED BY Invariance, <1>1, PTL

\* At most one message per logical delivery, whatever is retried, crashes,
\* times out or is not recorded (handleDelivery, BeginDelivery).
THEOREM AtMostOneMessage == Spec => []AtMostOnce
<1>1. Inv => AtMostOnce
  BY DEF Inv, EffectInv, AtMostOnce
<1> QED BY Invariance, <1>1, PTL

\* What is replayed for a delivered message.
LEMMA Success ==
  ASSUME NEW row, row.state = "delivered"
  PROVE  replayDelivery(row).msg = row.msg /\ replayDelivery(row).message = ""
<1>1. replayDelivery(row) = [status |-> "delivered", msg |-> row.msg, message |-> ""]
  BY Zenon DEF replayDelivery
<1>2. /\ [status |-> "delivered", msg |-> row.msg, message |-> ""].msg = row.msg
      /\ [status |-> "delivered", msg |-> row.msg, message |-> ""].message = ""
  OBVIOUS
<1> QED BY <1>1, <1>2, Zenon

\* What is replayed for a refusal, or for an unknown outcome.
LEMMA Refusal ==
  ASSUME NEW row, row.state \in {"permanent", "unknown"}
  PROVE  replayDelivery(row) =
           [status |-> "nonRetryable", msg |-> 0, message |-> row.message]
<1>1. row.state # "delivered"
  OBVIOUS
<1> QED BY <1>1 DEF replayDelivery

\* A final response is true for good (replayDelivery, persistSendResult).
THEOREM AnswersTrue == Spec => []TruthfulAnswers
<1>1. Inv => TruthfulAnswers
  <2> SUFFICES ASSUME Inv, NEW a \in answers
      PROVE  /\ a.reply.status = "delivered" => posted[a.req.i] = {a.reply.msg}
             /\ a.reply.message \in {"provider", "routing"} => Effects(a.req.i) = {}
    BY DEF TruthfulAnswers
  <2>1. Backed(a.req, a.reply) /\ a.reply.status # "retryable"
    BY DEF Inv, AnswerInv
  <2>2. Conflict.status # "delivered" /\ Conflict.message \notin {"provider", "routing"}
    BY DEF Conflict
  <2>3. ASSUME NEW d \in IDs, deliveries[d].state \in Final, Key(d) = a.req.i,
               a.reply = replayDelivery(deliveries[d])
        PROVE  /\ a.reply.status = "delivered" => posted[a.req.i] = {a.reply.msg}
               /\ a.reply.message \in {"provider", "routing"} => Effects(a.req.i) = {}
    <3>1. CASE deliveries[d].state = "delivered"
      <4>1. a.reply.msg = deliveries[d].msg /\ a.reply.message = ""
        BY <2>3, <3>1, Success
      <4> QED BY <2>3, <3>1, <4>1 DEF Inv, EffectInv
    <3>2. CASE deliveries[d].state \in {"permanent", "unknown"}
      <4>1. /\ a.reply.status = "nonRetryable"
            /\ a.reply.message = deliveries[d].message
        <5>1. a.reply = [status |-> "nonRetryable", msg |-> 0,
                         message |-> deliveries[d].message]
          BY <2>3, <3>2, Refusal
        <5> QED BY <5>1
      <4> QED BY <2>3, <3>2, <4>1 DEF Inv, EffectInv, AnswerInv
    <3> QED BY <2>3, <3>1, <3>2 DEF Final
  <2> QED BY <2>1, <2>2, <2>3 DEF Backed
<1> QED BY Invariance, <1>1, PTL

\* A worker that comes to record its result finds its claim untouched
\* (updateDelivery never answers ErrInvalidTransition).
THEOREM ClaimsAreKept == Spec => []PersistAccepted
<1>1. Inv => PersistAccepted
  <2> SUFFICES ASSUME Inv, NEW w \in Workers, pc[w] = "persist"
      PROVE  ~UpdateRefused(canon[w], Logical(req[w]), result[w])
    BY DEF PersistAccepted
  <2>1. /\ deliveries[canon[w]].state = "sending"
        /\ idempotency[canon[w]] = [version |-> 2, i |-> req[w].i,
                                    digest |-> Logical(req[w])]
    BY DEF Inv, ClaimInv, Holds
  <2>2. getDelivery(canon[w]).digest = Logical(req[w])
    BY <2>1 DEF getDelivery
  <2> QED BY <2>1, <2>2 DEF UpdateRefused, Exists
<1> QED BY Invariance, <1>1, PTL

\* A logical delivery has at most one record (idempotency_id is UNIQUE).
THEOREM RecordsUnique == Spec => []OneRecordPerDelivery
<1>1. Inv => OneRecordPerDelivery
  <2>1. \A d : getDelivery(d).i = Key(d)
    BY DEF getDelivery, Key
  <2> QED BY <2>1, Unique DEF Inv, TypeOK, OneRecordPerDelivery
<1> QED BY Invariance, <1>1, PTL

\* An alias names a record that exists and hides no other record.
THEOREM AliasesNameRecords == Spec => []AliasesSound
<1>1. Inv => AliasesSound
  BY DEF Inv, IdentityInv, AliasesSound
<1> QED BY Invariance, <1>1, PTL

\* A terminal record is immutable.
THEOREM FinalRecordsAreImmutable == Spec => FinalRecordsStay
<1>1. Inv /\ [Next]_vars =>
        [\A d \in IDs : deliveries[d].state \in Final =>
                            deliveries'[d] = deliveries[d]]_vars
  BY FinalStays
<1> QED BY Invariance, <1>1, PTL DEF Spec, FinalRecordsStay

\* The replay outside the gate never claims or changes a delivery.
THEOREM ReplaysChangeNothing == Spec => ReplayNeverClaims
<1>1. ASSUME Inv, Next, NEW w \in Workers, pc[w] = "replay", pc'[w] = "answer"
      PROVE  deliveries' = deliveries
  <2>1. ASSUME NEW v \in Workers, v # w,
               WorkerStep(v) \/ (\E r \in Requests : Submit(v, r))
        PROVE  FALSE
    BY <1>1, <2>1, OthersStay DEF Inv, TypeOK
  <2>2. CASE WorkerStep(w)
    <3>1. ReplayTerminal(w) \/ StoreFails(w)
      BY <1>1, <2>2 DEF WorkerStep, InspectRead, InspectDecide, AcquireGate, CancelWait,
         BeginInGate, RefuseLocally, NotWritten, CallTelegram, ReceiveMessage,
         ReceiveNothing, ReceiveRefusal, Persist, PersistFails, Respond
    <3>2. CASE StoreFails(w)
      BY <3>2 DEF StoreFails, storeVars
    <3>3. CASE ReplayTerminal(w)
      <4>1. CASE UNCHANGED storeVars
        BY <4>1 DEF storeVars
      <4>2. CASE ~BeginConflict(req[w]) /\ BeginDelivery(req[w])
        BY <1>1, <3>3, <4>2, ReplayKeeps
      <4> QED BY <1>1, <3>3, <4>1, <4>2, HandlerBegins
    <3> QED BY <3>1, <3>2, <3>3
  <2>3. \A r : ~Submit(w, r)
    BY <1>1 DEF Submit
  <2>4. CASE Environment /\ ~\E v \in Workers, r \in Requests : Submit(v, r)
    <3>1. pc' = pc \/ Crash
      BY <2>4 DEF Environment, TelegramPosts, TelegramDrops, Tick, Migrate, Recover,
         Serve, workerVars
    <3>2. ~Crash
      BY <1>1 DEF Crash
    <3> QED BY <1>1, <3>1, <3>2
  <2> QED BY <1>1, <2>1, <2>2, <2>3, <2>4 DEF Next
<1>2. Inv /\ [Next]_vars =>
        [\A w \in Workers : pc[w] = "replay" /\ pc'[w] = "answer" =>
                                deliveries' = deliveries]_vars
  BY <1>1
<1> QED BY Invariance, <1>2, PTL DEF Spec, ReplayNeverClaims

\* A record never makes Orka wait longer than the bot-wide cooldown does.
THEOREM CooldownIsLongest == Spec => []CooldownCoversRecords
<1>1. Init => CooldownCoversRecords
  <2> SUFFICES ASSUME Init, NEW d \in IDs PROVE deliveries[d].wait <= cooldown
    BY DEF CooldownCoversRecords
  <2>1. LegacyInit /\ cooldown = 0
    BY DEF Init
  <2>2. deliveries[d].wait = 0
    BY <2>1, LegacyRows
  <2> QED BY <2>1, <2>2
<1>2. Inv /\ CooldownCoversRecords /\ Next => CooldownCoversRecords'
  <2> SUFFICES ASSUME Inv, CooldownCoversRecords, Next, NEW d \in IDs
      PROVE  deliveries'[d].wait <= cooldown'
    BY DEF CooldownCoversRecords
  <2> USE DEF Inv, TypeOK
  <2>0. /\ deliveries[d] \in Rows /\ deliveries[d].wait <= cooldown
        /\ cooldown \in Nat /\ deliveries[d].wait \in Nat
    BY RetryAssumption DEF StoreTypeOK, Rows, CooldownCoversRecords
  <2>1. CASE UNCHANGED storeVars
    BY <2>0, <2>1 DEF storeVars
  <2>2. ASSUME NEW w \in Workers, ReplayTerminal(w) \/ BeginInGate(w)
        PROVE  deliveries'[d].wait <= cooldown'
    <3>1. CASE ~BeginConflict(req[w]) /\ BeginDelivery(req[w])
      <4> SUFFICES ASSUME NEW e, e = Canonical(req[w])
          PROVE  deliveries'[d].wait <= cooldown'
        OBVIOUS
      <4>0. schema = 3 /\ req[w] \in Request
        BY <2>2, HandlerBegins
      <4>1. /\ deliveries'[e] = BeginRow(deliveries[e], req[w])
            /\ \A x \in IDs \ {e} : deliveries'[x] = deliveries[x]
        BY <3>1, <4>0, BeginEffect
      <4>3. cooldown' = cooldown
        BY <3>1 DEF BeginDelivery
      <4>2. \/ BeginRow(deliveries[d], req[w]) = deliveries[d]
            \/ BeginRow(deliveries[d], req[w]).wait \in {0, cooldown}
        <5>1. /\ Claimed(deliveries[d]).wait = 0 /\ Interrupted(deliveries[d]).wait = 0
              /\ Created(req[w]).wait \in {0, cooldown}
          BY <2>0 DEF Created, Claimed, Interrupted, NoRow, Rows
        <5> QED BY <5>1 DEF BeginRow
      <4> QED BY <2>0, <4>1, <4>2, <4>3
    <3> QED BY <2>1, <2>2, <3>1, HandlerBegins
  <2>3. ASSUME NEW w \in Workers, Persist(w), updateDelivery(canon[w], result[w])
        PROVE  deliveries'[d].wait <= cooldown'
    <3>1. /\ cooldown' = MaxOf(cooldown, result[w].wait)
          /\ result[w].wait \in Nat
      <4>1. result[w] \in Results
        BY <2>3, Recorded
      <4> QED BY <2>3, <4>1, RetryAssumption DEF updateDelivery, Results
    <3>2. deliveries'[d].wait \in {deliveries[d].wait, result[w].wait}
      BY <2>3, Recorded
    <3> QED BY <2>0, <3>1, <3>2 DEF MaxOf
  <2>4. CASE Tick
    <3>1. Older(deliveries[d]).wait =
            IF deliveries[d].wait > 0 THEN deliveries[d].wait - 1 ELSE 0
      BY <2>0 DEF Older, Rows
    <3> QED BY <2>0, <2>4, <3>1 DEF Tick, StoreTick
  <2>5. CASE Migrate
    BY <2>0, <2>5 DEF Migrate
  <2>6. CASE Recover
    <3>1. Interrupted(deliveries[d]).wait = 0
      BY <2>0 DEF Interrupted, Rows
    <3> QED BY <2>0, <2>6, <3>1 DEF Recover, recoverInterruptedDeliveries
  <2> QED BY <2>1, <2>2, <2>3, <2>4, <2>5, <2>6, StoreSteps
<1>3. CooldownCoversRecords /\ UNCHANGED vars => CooldownCoversRecords'
  BY DEF CooldownCoversRecords, vars, storeVars
<1> QED BY Invariance, <1>1, <1>2, <1>3, PTL DEF Spec
=============================================================================
