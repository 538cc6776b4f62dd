---------------------------- MODULE WebhookProofs ----------------------------
(***************************************************************************)
(* Proofs about WebhookHandler, for any number of handlers, locks, chats   *)
(* and updates.  The inductive invariant Inv says what a handler may rely  *)
(* on at each place: its lock is its own (LockInv), the row it read is     *)
(* still what it was (ClaimInv), what is at Orka or under way is what the  *)
(* row says (SentInv), and an acknowledgement, a stored response or a 200  *)
(* means that Orka has the event (AckInv, CodeInv).  That the handlers     *)
(* implement Admission when Telegram alone posts takes StreamInv too.      *)
(***************************************************************************)
EXTENDS WebhookHandler, TLAPS

Busy    == {"create", "admit", "ingress", "save"}
Holding == {"admit", "ingress", "save"}

\* The row of an update ID belongs to an update with that ID, and holds a
\* response only when Orka has the event.
RowInv ==
  /\ \A k \in UpdateIds :
       /\ updates[k].digest # None => updates[k].digest.id = k
       /\ updates[k].response # None => updates[k].digest # None
  /\ \A u \in Update :
       updates[u.id].digest = u /\ updates[u.id].response # None =>
         Admitted(u)

\* A handler that is past its lock holds it, and nobody else does.
LockInv ==
  /\ \A w \in Workers : pc[w] # "idle" => upd[w] \in Update
  /\ \A w \in Workers : pc[w] \in Busy => lock[w] = LockIndex(upd[w].chat)
  /\ \A v, w \in Workers :
       v # w /\ pc[v] \in Busy /\ pc[w] \in Busy =>
         LockIndex(upd[v].chat) # LockIndex(upd[w].chat)

\* From CreateUpdate to SaveUpdateResponse the row stays as it was read.
ClaimInv ==
  \A w \in Workers :
    pc[w] \in Holding =>
      /\ updates[upd[w].id].digest = upd[w]
      /\ updates[upd[w].id].response = None

\* An event at Orka or on its way is the one the row of its ID names.
SentInv == /\ \A u \in Update : Admitted(u) => updates[u.id].digest = u
           /\ \A u \in stray : updates[u.id].digest = u

\* An acknowledgement means that Orka has the event.
AckInv == \A w \in Workers : /\ inbox[w] # None => pc[w] = "ingress"
                             /\ inbox[w] # None => Admitted(upd[w])
                             /\ pc[w] = "save" => Admitted(upd[w])
                             /\ pc[w] = "save" => body[w] \in Bodies

\* A 200 means that Orka has the event, or that there is none.
CodeInv ==
  /\ \A w \in Workers :
       /\ pc[w] = "answer" /\ code[w] = 200 =>
            upd[w].text \in Ignored \/ Admitted(upd[w])
       /\ pc[w] \in Busy \cup {"locking"} =>
            upd[w].text \notin Ignored \cup Refused
  /\ \A u \in stray : u.text \notin Ignored \cup Refused

\* Telegram waits for a handler of the update at the head of its queue.
OpenInv ==
  open # None => /\ head <= Len(Stream)
                 /\ pc[open] # "idle" /\ upd[open] = Stream[head]

Inv == /\ TypeOK /\ RowInv /\ LockInv /\ ClaimInv /\ SentInv /\ AckInv
       /\ CodeInv /\ OpenInv /\ ForgottenMeansAdmitted

USE IdsAssumption, ChatsAssumption, BodyAssumption, NoneIsNoUpdate,
    WebhookWorkers, LocksAssumption, StreamAssumption, DirectAssumption,
    AckAssumption

-----------------------------------------------------------------------------
\* The index of a chat's lock is an index of chatLocks, whatever the sign of
\* the chat ID (the correction of Go's remainder).
LEMMA LockIndexInRange ==
  ASSUME NEW c \in Int PROVE LockIndex(c) \in 0..(NumLocks - 1)
<1>1. CASE c >= 0
  BY <1>1 DEF LockIndex, Remainder
<1>2. CASE ~(c >= 0)
  <2>1. (-c) % NumLocks \in 0..(NumLocks - 1)
    BY <1>2
  <2> QED BY <1>2, <2>1 DEF LockIndex, Remainder
<1> QED BY <1>1, <1>2

LEMMA UpdateFields ==
  ASSUME NEW u \in Update
  PROVE  u.id \in UpdateIds /\ u.chat \in Chats /\ u.chat \in Int
BY DEF Update

\* Stream positions hold updates.
LEMMA StreamFacts ==
  ASSUME NEW n \in 1..Len(Stream)
  PROVE  Stream[n] \in Update
OBVIOUS

LEMMA LenStream == Len(Stream) \in Nat
OBVIOUS

\* Orka's log only grows, and by the event it takes.
LEMMA TakeFacts ==
  ASSUME NEW u \in Update, log \in Seq(Update), Take(u)
  PROVE  /\ log' \in Seq(Update)
         /\ \A x : Admitted(x) => Admitted(x)'
         /\ \A x : Admitted(x)' => Admitted(x) \/ x = u
         /\ Admitted(u)' \/ Has(u)
         /\ Has(u) => log' = log
         /\ ~Has(u) => log' = Append(log, u) /\ ~Admitted(u) /\ Admitted(u)'
<1>1. CASE Has(u)
  <2>1. log' = log
    BY <1>1 DEF Take
  <2> QED BY <1>1, <2>1 DEF Admitted
<1>2. CASE ~Has(u)
  <2>1. log' = Append(log, u)
    BY <1>2 DEF Take
  <2>2. Len(log) \in Nat /\ DOMAIN log = 1..Len(log)
    OBVIOUS
  <2>3. /\ log' \in Seq(Update) /\ DOMAIN log' = 1..(Len(log) + 1)
        /\ log'[Len(log) + 1] = u
        /\ \A n \in 1..Len(log) : log'[n] = log[n]
    BY <2>1, <2>2
  <2>4. ~Admitted(u)
    BY <1>2 DEF Admitted, Has
  <2>5. Admitted(u)'
    BY <2>2, <2>3 DEF Admitted
  <2>6. \A x : Admitted(x) => Admitted(x)'
    BY <2>2, <2>3 DEF Admitted
  <2>7. \A x : Admitted(x)' => Admitted(x) \/ x = u
    <3> SUFFICES ASSUME NEW x, Admitted(x)' PROVE Admitted(x) \/ x = u
      OBVIOUS
    <3>1. PICK n \in 1..(Len(log) + 1) : log'[n] = x
      BY <2>3 DEF Admitted
    <3>2. CASE n = Len(log) + 1
      BY <3>1, <3>2, <2>3
    <3>3. CASE n \in 1..Len(log)
      BY <3>1, <3>3, <2>2, <2>3 DEF Admitted
    <3> QED BY <3>1, <3>2, <3>3, <2>2
  <2> QED BY <1>2, <2>1, <2>3, <2>4, <2>5, <2>6, <2>7
<1> QED BY <1>1, <1>2

\* An event Orka has under its ID is that event.
LEMMA HasMeansAdmitted ==
  ASSUME NEW u \in Update, log \in Seq(Update), SentInv, Has(u),
         updates[u.id].digest = u
  PROVE  Admitted(u)
<1>1. PICK n \in DOMAIN log : log[n].id = u.id
  BY DEF Has
<1>2. log[n] \in Update /\ Admitted(log[n])
  BY DEF Admitted
<1>3. updates[log[n].id].digest = log[n]
  BY <1>2 DEF SentInv
<1> QED BY <1>1, <1>2, <1>3

-----------------------------------------------------------------------------
(* Every step of a worker, and the rest, one by one.                       *)

\* The disjuncts of the next-state relation.
LEMMA NextCases ==
  ASSUME Next
  PROVE  \/ \E w \in Workers : Deliver(w)
         \/ \E w \in Workers, u \in Direct : Post(w, u)
         \/ \E w \in Workers : Lock(w)
         \/ \E w \in Workers : Create(w)
         \/ \E w \in Workers : PostEvent(w)
         \/ \E w \in Workers : ReceiveAck(w)
         \/ \E w \in Workers : Save(w)
         \/ \E w \in Workers : Respond(w)
         \/ \E w \in Workers : StoreFails(w)
         \/ \E w \in Workers : AdmitFails(w)
         \/ \E w \in Workers : OrkaTakes(w)
         \/ \E u \in stray : OrkaTakesStray(u)
         \/ Abandon \/ Crash \/ Restart
BY DEF Next, Progress

LEMMA InitInv == Init => Inv
<1> SUFFICES ASSUME Init PROVE Inv
  OBVIOUS
<1>1. TypeOK
  <2>1. NoUpdate \in UpdateRows
    BY DEF NoUpdate, UpdateRows
  <2>2. head \in 1..(Len(Stream) + 1)
    BY LenStream DEF Init
  <2>3. log \in Seq(Update)
    BY DEF Init
  <2> QED BY <2>1, <2>2, <2>3 DEF Init, TypeOK, Labels
<1>2. \A u : ~Admitted(u)
  BY DEF Init, Admitted
<1>3. RowInv
  <2>1. \A k \in UpdateIds :
          updates[k].digest = None /\ updates[k].response = None
    BY DEF Init, NoUpdate
  <2> QED BY <2>1, UpdateFields DEF RowInv
<1>4. LockInv /\ ClaimInv
  BY DEF Init, LockInv, ClaimInv, Busy, Holding
<1>5. SentInv /\ AckInv /\ CodeInv
  BY <1>2 DEF Init, SentInv, AckInv, CodeInv, Busy
<1>6. OpenInv /\ ForgottenMeansAdmitted
  BY DEF Init, OpenInv, ForgottenMeansAdmitted
<1> QED BY <1>1, <1>3, <1>4, <1>5, <1>6 DEF Inv

\* A position of Telegram's queue.
LEMMA HeadFacts ==
  ASSUME TypeOK
  PROVE  /\ head \in Nat /\ Len(Stream) \in Nat /\ head >= 1
         /\ head <= Len(Stream) => head \in 1..Len(Stream)
                                   /\ Stream[head] \in Update
                                   /\ head + 1 \in 1..(Len(Stream) + 1)
<1>1. head \in 1..(Len(Stream) + 1) /\ Len(Stream) \in Nat
  BY LenStream DEF TypeOK
<1>2. head \in Nat /\ head >= 1
  BY <1>1
<1>3. head <= Len(Stream) => head \in 1..Len(Stream)
                             /\ head + 1 \in 1..(Len(Stream) + 1)
  BY <1>1, <1>2
<1> QED BY <1>1, <1>2, <1>3, StreamFacts

\* Answering with a status code keeps the types.
LEMMA AnswerTypes ==
  ASSUME TypeOK, NEW w \in Workers, NEW status \in {0, 200, 400, 409, 503},
         Answer(w, status)
  PROVE  /\ pc' \in [Workers -> Labels]
         /\ code' \in [Workers -> {0, 200, 400, 409, 503}]
BY DEF TypeOK, Answer, Labels

\* A row keeps its type when either field gets a value.
LEMMA RowTypes ==
  ASSUME NEW row \in UpdateRows
  PROVE  /\ \A u \in Update : [row EXCEPT !.digest = u] \in UpdateRows
         /\ \A b \in Bodies : [row EXCEPT !.response = b] \in UpdateRows
BY DEF UpdateRows

\* What arrives is an update.
LEMMA ArriveTypes ==
  ASSUME TypeOK, NEW w \in Workers, NEW u \in Update, Arrive(w, u)
  PROVE  /\ upd' \in [Workers -> Update \cup {None}]
         /\ pc' \in [Workers -> Labels]
         /\ code' \in [Workers -> {0, 200, 400, 409, 503}]
<1>1. upd' \in [Workers -> Update \cup {None}]
  BY DEF TypeOK, Arrive
<1>2. CASE Answer(w, 200) \/ Answer(w, 400)
  BY <1>1, <1>2, AnswerTypes
<1>3. CASE pc' = [pc EXCEPT ![w] = "locking"] /\ code' = code
  BY <1>1, <1>3 DEF TypeOK, Labels
<1> QED BY <1>2, <1>3 DEF Arrive

LEMMA StraysTypes ==
  ASSUME TypeOK, LockInv, NEW ws \in SUBSET Workers
  PROVE  /\ Strays(ws) \in SUBSET Update
         /\ \A u \in Strays(ws) :
              \E w \in ws : pc[w] = "ingress" /\ upd[w] = u
<1>1. \A u \in Strays(ws) : \E w \in ws : pc[w] = "ingress" /\ upd[w] = u
  BY DEF Strays
<1>2. \A u \in Strays(ws) : u \in Update
  BY <1>1 DEF LockInv
<1> QED BY <1>1, <1>2

LEMMA TypeStep == Inv /\ Next => TypeOK'
<1> SUFFICES ASSUME Inv, Next PROVE TypeOK'
  OBVIOUS
<1>0. TypeOK /\ LockInv /\ AckInv /\ OpenInv
  BY DEF Inv
<1>1. ASSUME NEW w \in Workers, Deliver(w) PROVE TypeOK'
  <2>1. Stream[head] \in Update
    BY <1>0, <1>1, HeadFacts DEF Deliver
  <2>2. Arrive(w, Stream[head])
    BY <1>1 DEF Deliver
  <2>3. UNCHANGED <<updates, running, lock, body, head, inbox, stray, log>>
    BY <2>2 DEF Arrive, orkaVars
  <2>4. open' = w
    BY <1>1 DEF Deliver
  <2>5. /\ upd' \in [Workers -> Update \cup {None}]
        /\ pc' \in [Workers -> Labels]
        /\ code' \in [Workers -> {0, 200, 400, 409, 503}]
    BY <1>0, <2>1, <2>2, ArriveTypes
  <2> QED BY <1>0, <2>3, <2>4, <2>5 DEF TypeOK
<1>2. ASSUME NEW w \in Workers, NEW u \in Direct, Post(w, u) PROVE TypeOK'
  <2>1. u \in Update /\ Arrive(w, u)
    BY <1>2 DEF Post
  <2>2. UNCHANGED <<updates, running, lock, body, head, open, inbox, stray,
                    log>>
    BY <1>2, <2>1 DEF Post, Arrive, orkaVars
  <2>3. /\ upd' \in [Workers -> Update \cup {None}]
        /\ pc' \in [Workers -> Labels]
        /\ code' \in [Workers -> {0, 200, 400, 409, 503}]
    BY <1>0, <2>1, ArriveTypes
  <2> QED BY <1>0, <2>2, <2>3 DEF TypeOK
<1>3. ASSUME NEW w \in Workers, Lock(w) PROVE TypeOK'
  <2>1. upd[w] \in Update
    BY <1>0, <1>3 DEF LockInv, Lock
  <2>2. LockIndex(upd[w].chat) \in 0..(NumLocks - 1)
    BY <2>1, UpdateFields, LockIndexInRange
  <2> QED BY <1>0, <1>3, <2>2
          DEF TypeOK, Lock, Labels, telegramVars, orkaVars
<1>4. ASSUME NEW w \in Workers, Create(w) PROVE TypeOK'
  <2>1. upd[w] \in Update /\ upd[w].id \in UpdateIds
    BY <1>0, <1>4, UpdateFields DEF LockInv, Create
  <2>2. updates' \in [UpdateIds -> UpdateRows]
    <3>1. CASE updates' = updates
      BY <1>0, <3>1 DEF TypeOK
    <3>2. CASE CreateUpdate(upd[w])
      <4>1. [NoUpdate EXCEPT !.digest = upd[w]] \in UpdateRows
        BY <2>1 DEF NoUpdate, UpdateRows
      <4> QED BY <1>0, <2>1, <3>2, <4>1 DEF TypeOK, CreateUpdate
    <3> QED BY <1>4, <3>1, <3>2 DEF Create
  <2>3. pc' \in [Workers -> Labels]
        /\ code' \in [Workers -> {0, 200, 400, 409, 503}]
    <3>1. CASE Answer(w, 200) \/ Answer(w, 409)
      BY <1>0, <3>1, AnswerTypes
    <3>2. CASE pc' = [pc EXCEPT ![w] = "admit"] /\ code' = code
      BY <1>0, <3>2 DEF TypeOK, Labels
    <3> QED BY <1>4, <3>1, <3>2 DEF Create
  <2>4. UNCHANGED <<running, lock, upd, body, head, open, inbox, stray, log>>
    BY <1>4 DEF Create, telegramVars, orkaVars
  <2> QED BY <1>0, <2>2, <2>3, <2>4 DEF TypeOK
<1>5. ASSUME NEW w \in Workers, PostEvent(w) PROVE TypeOK'
  BY <1>0, <1>5 DEF TypeOK, PostEvent, Labels, telegramVars, orkaVars
<1>6. ASSUME NEW w \in Workers, ReceiveAck(w) PROVE TypeOK'
  BY <1>0, <1>6 DEF TypeOK, ReceiveAck, Labels, telegramVars
<1>7. ASSUME NEW w \in Workers, Save(w) PROVE TypeOK'
  <2>1. upd[w] \in Update /\ upd[w].id \in UpdateIds
    BY <1>0, <1>7, UpdateFields DEF LockInv, Save
  <2>2. updates' \in [UpdateIds -> UpdateRows]
    <3>1. CASE updates' = updates
      BY <1>0, <3>1 DEF TypeOK
    <3>2. CASE SaveUpdateResponse(upd[w], body[w])
      <4>1. body[w] \in Bodies
        BY <1>0, <1>7 DEF AckInv, Save
      <4>2. [updates[upd[w].id] EXCEPT !.response = body[w]] \in UpdateRows
        BY <1>0, <2>1, <4>1, RowTypes DEF TypeOK
      <4> QED BY <1>0, <2>1, <3>2, <4>2 DEF TypeOK, SaveUpdateResponse
    <3> QED BY <1>7, <3>1, <3>2 DEF Save
  <2>3. Answer(w, 200) \/ Answer(w, 503)
    BY <1>7 DEF Save
  <2>4. pc' \in [Workers -> Labels]
        /\ code' \in [Workers -> {0, 200, 400, 409, 503}]
    BY <1>0, <2>3 DEF TypeOK, Answer, Labels
  <2>5. UNCHANGED <<running, lock, upd, body, head, open, inbox, stray, log>>
    BY <1>7 DEF Save, telegramVars, orkaVars
  <2> QED BY <1>0, <2>2, <2>4, <2>5 DEF TypeOK
<1>8. ASSUME NEW w \in Workers, Respond(w) PROVE TypeOK'
  <2>1. head' \in 1..(Len(Stream) + 1)
    BY <1>0, <1>8, HeadFacts DEF TypeOK, OpenInv, Respond, Leave
  <2>2. open' \in Workers \cup {None}
    BY <1>0, <1>8 DEF TypeOK, Respond, Leave
  <2> QED BY <1>0, <1>8, <2>1, <2>2
          DEF TypeOK, Respond, Leave, Labels, orkaVars
<1>9. ASSUME NEW w \in Workers, StoreFails(w) PROVE TypeOK'
  BY <1>0, <1>9 DEF TypeOK, StoreFails, Answer, Labels, telegramVars, orkaVars
<1>10. ASSUME NEW w \in Workers, AdmitFails(w) PROVE TypeOK'
  <2>1. Strays({w}) \in SUBSET Update
    BY <1>0, StraysTypes
  <2> QED BY <1>0, <1>10, <2>1
          DEF TypeOK, AdmitFails, Answer, Labels, telegramVars
<1>11. ASSUME NEW w \in Workers, OrkaTakes(w) PROVE TypeOK'
  <2>1. upd[w] \in Update
    BY <1>0, <1>11 DEF LockInv, OrkaTakes
  <2>2. log' \in Seq(Update)
    BY <1>0, <1>11, <2>1, TakeFacts DEF TypeOK, OrkaTakes
  <2> QED BY <1>0, <1>11, <2>2
          DEF TypeOK, OrkaTakes, handlerVars, telegramVars
<1>12. ASSUME NEW u \in stray, OrkaTakesStray(u) PROVE TypeOK'
  <2>1. u \in Update
    BY <1>0 DEF TypeOK
  <2>2. log' = log \/ Take(u)
    BY <1>12 DEF OrkaTakesStray, Take
  <2>3. log' \in Seq(Update)
    BY <1>0, <2>1, <2>2, TakeFacts DEF TypeOK
  <2> QED BY <1>0, <1>12, <2>3
          DEF TypeOK, OrkaTakesStray, handlerVars, telegramVars
<1>13. CASE Abandon
  BY <1>0, <1>13 DEF TypeOK, Abandon, handlerVars, orkaVars
<1>14. CASE Crash
  <2>1. Strays(Workers) \in SUBSET Update
    BY <1>0, StraysTypes
  <2> QED BY <1>0, <1>14, <2>1 DEF TypeOK, Crash, Labels
<1>15. CASE Restart
  BY <1>0, <1>15 DEF TypeOK, Restart, handlerVars, telegramVars, orkaVars
<1> QED BY NextCases, <1>1, <1>2, <1>3, <1>4, <1>5, <1>6, <1>7, <1>8, <1>9,
           <1>10, <1>11, <1>12, <1>13, <1>14, <1>15

\* A row appears, or gets its response.
Appears(w, k) ==
  /\ pc[w] = "create" /\ upd[w].id = k
  /\ updates[k].digest = None
  /\ updates'[k].digest = upd[w] /\ updates'[k].response = None

Answered(w, k) ==
  /\ pc[w] = "save" /\ pc'[w] = "answer" /\ upd[w].id = k
  /\ updates[k].digest = upd[w]
  /\ updates'[k].digest = upd[w] /\ updates'[k].response = body[w]

LEMMA CreateRow ==
  ASSUME Inv, NEW w \in Workers, Create(w), NEW k \in UpdateIds
  PROVE  updates'[k] = updates[k] \/ Appears(w, k)
<1>1. TypeOK /\ upd[w] \in Update /\ pc[w] = "create"
  BY DEF Inv, LockInv, Create
<1>2. upd[w].id \in UpdateIds
  BY <1>1, UpdateFields
<1>3. updates' = updates \/ CreateUpdate(upd[w])
  BY DEF Create
<1>4. CASE CreateUpdate(upd[w]) /\ ~Known(upd[w]) /\ upd[w].id = k
  <2>1. updates'[k] = [NoUpdate EXCEPT !.digest = upd[w]]
    BY <1>1, <1>4 DEF TypeOK, CreateUpdate
  <2>2. updates'[k].digest = upd[w] /\ updates'[k].response = None
    BY <2>1 DEF NoUpdate
  <2> QED BY <1>1, <1>4, <2>2 DEF Known, Appears
<1>5. CASE CreateUpdate(upd[w]) /\ ~(~Known(upd[w]) /\ upd[w].id = k)
  BY <1>1, <1>2, <1>5 DEF TypeOK, CreateUpdate
<1> QED BY <1>3, <1>4, <1>5

LEMMA SaveRow ==
  ASSUME Inv, NEW w \in Workers, Save(w), NEW k \in UpdateIds
  PROVE  updates'[k] = updates[k] \/ Answered(w, k)
<1>1. TypeOK /\ upd[w] \in Update /\ pc[w] = "save"
  BY DEF Inv, LockInv, Save
<1>2. upd[w].id \in UpdateIds /\ pc'[w] = "answer"
  BY <1>1, UpdateFields DEF Save, Answer, TypeOK
<1>3. updates[upd[w].id].digest = upd[w]
  BY <1>1 DEF Inv, ClaimInv, Holding
<1>4. updates' = updates \/ SaveUpdateResponse(upd[w], body[w])
  BY DEF Save
<1>5. CASE SaveUpdateResponse(upd[w], body[w]) /\ upd[w].id = k
  <2>1. updates'[k] = [updates[k] EXCEPT !.response = body[w]]
    BY <1>1, <1>5 DEF TypeOK, SaveUpdateResponse
  <2>2. updates[k] \in UpdateRows
    BY <1>1 DEF TypeOK
  <2>3. /\ updates'[k].digest = updates[k].digest
        /\ updates'[k].response = body[w]
    BY <2>1, <2>2 DEF UpdateRows
  <2> QED BY <1>1, <1>2, <1>3, <1>5, <2>3 DEF Answered
<1>6. CASE SaveUpdateResponse(upd[w], body[w]) /\ upd[w].id # k
  BY <1>1, <1>2, <1>6 DEF TypeOK, SaveUpdateResponse
<1> QED BY <1>4, <1>5, <1>6

\* How the table changes in a step.
LEMMA RowChanges ==
  ASSUME Inv, Next, NEW k \in UpdateIds
  PROVE  \/ updates'[k] = updates[k]
         \/ \E w \in Workers : Appears(w, k)
         \/ \E w \in Workers : Answered(w, k)
<1>1. \/ updates' = updates
      \/ \E w \in Workers : Create(w) \/ Save(w)
  BY NextCases DEF Deliver, Post, Arrive, Lock, PostEvent, ReceiveAck,
     Respond, StoreFails, AdmitFails, OrkaTakes, OrkaTakesStray, Abandon,
     Crash, Restart
<1> QED BY <1>1, CreateRow, SaveRow

\* How Orka's log changes in a step: by an event on its way.
LEMMA LogChanges ==
  ASSUME Inv, Next
  PROVE  /\ \A x : Admitted(x) => Admitted(x)'
         /\ \A x : Admitted(x)' =>
              \/ Admitted(x) \/ x \in stray
              \/ \E w \in Workers : pc[w] = "ingress" /\ upd[w] = x
<1>0. TypeOK /\ LockInv
  BY DEF Inv
<1>1. CASE log' = log
  BY <1>1 DEF Admitted
<1>2. ASSUME NEW w \in Workers, OrkaTakes(w)
      PROVE  /\ upd[w] \in Update /\ Take(upd[w])
             /\ pc[w] = "ingress"
  BY <1>0, <1>2 DEF LockInv, OrkaTakes
<1>3. ASSUME NEW u \in stray, OrkaTakesStray(u)
      PROVE  u \in Update /\ (log' = log \/ Take(u))
  BY <1>0, <1>3 DEF TypeOK, OrkaTakesStray, Take
<1>4. \/ log' = log
      \/ \E w \in Workers : OrkaTakes(w)
      \/ \E u \in stray : OrkaTakesStray(u)
  BY NextCases DEF Deliver, Post, Arrive, Lock, PostEvent, ReceiveAck,
     Respond, StoreFails, AdmitFails, Create, Save, Abandon,
     Crash, Restart, orkaVars
<1>5. log \in Seq(Update)
  BY <1>0 DEF TypeOK
<1>6. ASSUME NEW w \in Workers, OrkaTakes(w)
      PROVE  /\ \A x : Admitted(x) => Admitted(x)'
             /\ \A x : Admitted(x)' => Admitted(x) \/ x = upd[w]
  BY <1>2, <1>5, <1>6, TakeFacts
<1>7. ASSUME NEW u \in stray, OrkaTakesStray(u), log' # log
      PROVE  /\ \A x : Admitted(x) => Admitted(x)'
             /\ \A x : Admitted(x)' => Admitted(x) \/ x = u
  BY <1>3, <1>5, <1>7, TakeFacts
<1> QED BY <1>1, <1>2, <1>4, <1>6, <1>7

LEMMA RowStep == Inv /\ Next => RowInv'
<1> SUFFICES ASSUME Inv, Next PROVE RowInv'
  OBVIOUS
<1>0. RowInv /\ AckInv /\ LockInv
  BY DEF Inv
<1>1. ASSUME NEW k \in UpdateIds
      PROVE  /\ updates'[k].digest # None => updates'[k].digest.id = k
             /\ updates'[k].response # None => updates'[k].digest # None
  <2>1. CASE updates'[k] = updates[k]
    BY <1>0, <2>1 DEF RowInv
  <2>2. ASSUME NEW w \in Workers, Appears(w, k)
        PROVE  updates'[k].digest.id = k /\ updates'[k].response = None
    BY <2>2 DEF Appears
  <2>3. ASSUME NEW w \in Workers, Answered(w, k)
        PROVE  updates'[k].digest.id = k /\ updates'[k].digest # None
    <3>1. upd[w] \in Update
      BY <1>0, <2>3 DEF LockInv, Answered
    <3> QED BY <2>3, <3>1 DEF Answered
  <2> QED BY <2>1, <2>2, <2>3, RowChanges
<1>2. ASSUME NEW u \in Update, updates'[u.id].digest = u,
             updates'[u.id].response # None
      PROVE  Admitted(u)'
  <2>1. u.id \in UpdateIds
    BY UpdateFields
  <2>2. CASE updates'[u.id] = updates[u.id]
    BY <1>0, <1>2, <2>2, LogChanges DEF RowInv
  <2>3. ASSUME NEW w \in Workers, Appears(w, u.id)
        PROVE  FALSE
    BY <1>2, <2>3 DEF Appears
  <2>4. ASSUME NEW w \in Workers, Answered(w, u.id)
        PROVE  Admitted(u)'
    <3>1. u = upd[w] /\ pc[w] = "save"
      BY <1>2, <2>4 DEF Answered
    <3>2. Admitted(u)
      BY <1>0, <3>1 DEF AckInv
    <3> QED BY <3>2, LogChanges
  <2>5. \/ updates'[u.id] = updates[u.id]
        \/ \E w \in Workers : Appears(w, u.id)
        \/ \E w \in Workers : Answered(w, u.id)
    BY <2>1, RowChanges
  <2> QED BY <2>2, <2>3, <2>4, <2>5
<1> QED BY <1>1, <1>2 DEF RowInv

\* A row that names an update names it for ever.
LEMMA DigestsStay ==
  ASSUME Inv, Next, NEW u \in Update, updates[u.id].digest = u
  PROVE  updates'[u.id].digest = u
<1>1. u # None
  OBVIOUS
<1>2. \/ updates'[u.id] = updates[u.id]
      \/ \E w \in Workers : Appears(w, u.id)
      \/ \E w \in Workers : Answered(w, u.id)
  BY UpdateFields, RowChanges
<1>3. ASSUME NEW w \in Workers, Appears(w, u.id)
      PROVE  FALSE
  BY <1>1, <1>3 DEF Appears
<1>4. ASSUME NEW w \in Workers, Answered(w, u.id)
      PROVE  updates'[u.id].digest = u
  BY <1>4 DEF Answered
<1> QED BY <1>2, <1>3, <1>4

\* An event that goes stray was on its way from a handler.
LEMMA StrayChanges ==
  ASSUME Inv, Next, NEW u \in stray'
  PROVE  /\ u \in Update
         /\ u \in stray \/ \E w \in Workers : pc[w] = "ingress" /\ upd[w] = u
<1>0. TypeOK /\ LockInv
  BY DEF Inv
<1>1. CASE stray' \subseteq stray
  BY <1>0, <1>1 DEF TypeOK
<1>2. ASSUME NEW ws \in SUBSET Workers, stray' = stray \cup Strays(ws)
      PROVE  /\ u \in Update
             /\ u \in stray
                \/ \E w \in Workers : pc[w] = "ingress" /\ upd[w] = u
  BY <1>0, <1>2, StraysTypes DEF TypeOK
<1>3. \/ stray' \subseteq stray
      \/ \E ws \in SUBSET Workers : stray' = stray \cup Strays(ws)
  <2>1. ASSUME NEW w \in Workers, AdmitFails(w)
        PROVE  \E ws \in SUBSET Workers : stray' = stray \cup Strays(ws)
    BY <2>1 DEF AdmitFails
  <2>2. CASE Crash
    BY <2>2 DEF Crash
  <2> QED BY NextCases, <2>1, <2>2 DEF Deliver, Post, Arrive, Lock, PostEvent,
          ReceiveAck, Respond, StoreFails, OrkaTakes, OrkaTakesStray, Create,
          Save, Abandon, Restart, orkaVars
<1> QED BY <1>1, <1>2, <1>3

LEMMA SentStep == Inv /\ Next => SentInv'
<1> SUFFICES ASSUME Inv, Next PROVE SentInv'
  OBVIOUS
<1>0. SentInv /\ ClaimInv /\ LockInv
  BY DEF Inv
<1>1. ASSUME NEW w \in Workers, pc[w] = "ingress"
      PROVE  upd[w] \in Update /\ updates[upd[w].id].digest = upd[w]
  <2>1. upd[w] \in Update
    BY <1>0, <1>1 DEF LockInv
  <2>2. updates[upd[w].id].digest = upd[w]
    BY <1>0, <1>1 DEF ClaimInv, Holding
  <2> QED BY <2>1, <2>2
<1>2. ASSUME NEW u \in Update, Admitted(u)' PROVE updates'[u.id].digest = u
  <2>1. updates[u.id].digest = u
    BY <1>0, <1>1, <1>2, LogChanges DEF SentInv
  <2> QED BY <2>1, DigestsStay
<1>3. ASSUME NEW u \in stray' PROVE updates'[u.id].digest = u
  <2>1. u \in Update /\ updates[u.id].digest = u
    BY <1>0, <1>1, <1>3, StrayChanges DEF SentInv
  <2> QED BY <2>1, DigestsStay
<1> QED BY <1>2, <1>3 DEF SentInv
-----------------------------------------------------------------------------
(* The places of the workers, action by action.                            *)

\* A step moves one worker at most, except a crash, which moves all of them.
Still(v) == pc'[v] = pc[v] /\ upd'[v] = upd[v] /\ lock'[v] = lock[v]

LEMMA Moves ==
  ASSUME Inv, Next
  PROVE  \/ \A v \in Workers : pc'[v] = "idle"
         \/ \E w \in Workers :
              /\ \A v \in Workers \ {w} : Still(v)
              /\ \/ Still(w)
                 \/ /\ pc[w] = "idle" /\ pc'[w] \in {"answer", "locking"}
                    /\ upd'[w] \in Update /\ lock'[w] = lock[w]
                 \/ /\ pc[w] # "idle" /\ pc'[w] = "answer"
                    /\ upd'[w] = upd[w] /\ lock'[w] = lock[w]
                 \/ /\ pc[w] \in Busy /\ pc'[w] \in Busy
                    /\ upd'[w] = upd[w] /\ lock'[w] = lock[w]
                 \/ Lock(w) /\ pc'[w] = "create" /\ upd'[w] = upd[w]
                 \/ Respond(w) /\ pc'[w] = "idle"
<1>0. TypeOK
  BY DEF Inv
<1>1. ASSUME NEW w \in Workers, NEW u \in Update, Arrive(w, u)
      PROVE  /\ \A v \in Workers \ {w} : Still(v)
             /\ pc[w] = "idle" /\ pc'[w] \in {"answer", "locking"}
             /\ upd'[w] \in Update /\ lock'[w] = lock[w]
  BY <1>0, <1>1 DEF TypeOK, Arrive, Answer, Still
<1>2. ASSUME NEW w \in Workers, Deliver(w) \/ \E u \in Direct : Post(w, u)
      PROVE  \E u \in Update : Arrive(w, u)
  <2>1. CASE Deliver(w)
    BY <1>0, <2>1, HeadFacts DEF Deliver
  <2> QED BY <1>2, <2>1 DEF Post
<1>3. ASSUME NEW w \in Workers, Lock(w)
      PROVE  /\ \A v \in Workers \ {w} : Still(v)
             /\ pc'[w] = "create" /\ upd'[w] = upd[w]
  BY <1>0, <1>3 DEF TypeOK, Lock, Still
<1>4. ASSUME NEW w \in Workers,
             Create(w) \/ Save(w) \/ StoreFails(w) \/ AdmitFails(w)
      PROVE  /\ \A v \in Workers \ {w} : Still(v)
             /\ upd'[w] = upd[w] /\ lock'[w] = lock[w]
             /\ pc[w] # "idle"
             /\ pc'[w] = "answer" \/ (pc[w] \in Busy /\ pc'[w] \in Busy)
  BY <1>0, <1>4 DEF TypeOK, Create, Save, StoreFails, AdmitFails, Answer,
                    Still, Busy
<1>5. ASSUME NEW w \in Workers, PostEvent(w) \/ ReceiveAck(w)
      PROVE  /\ \A v \in Workers \ {w} : Still(v)
             /\ upd'[w] = upd[w] /\ lock'[w] = lock[w]
             /\ pc[w] \in Busy /\ pc'[w] \in Busy
  BY <1>0, <1>5 DEF TypeOK, PostEvent, ReceiveAck, Still, Busy
<1>6. ASSUME NEW w \in Workers, Respond(w)
      PROVE  (\A v \in Workers \ {w} : Still(v)) /\ pc'[w] = "idle"
  BY <1>0, <1>6 DEF TypeOK, Respond, Leave, Still
<1>7. CASE Crash
  BY <1>7 DEF Crash
<1>8. ASSUME UNCHANGED handlerVars PROVE \A v \in Workers : Still(v)
  BY <1>8 DEF handlerVars, Still
<1>9. ASSUME NEW w \in Workers, OrkaTakes(w) PROVE \A v \in Workers : Still(v)
  BY <1>8, <1>9 DEF OrkaTakes
<1>10. ASSUME (\E u \in stray : OrkaTakesStray(u)) \/ Abandon \/ Restart
       PROVE  \A v \in Workers : Still(v)
  BY <1>8, <1>10 DEF OrkaTakesStray, Abandon, Restart
<1>11. CASE Workers = {}
  BY <1>11
<1>12. CASE (\E u \in stray : OrkaTakesStray(u)) \/ Abandon \/ Restart
  BY <1>10, <1>11, <1>12
<1>13. CASE \E w \in Workers : OrkaTakes(w)
  BY <1>9, <1>13
<1>14. CASE \E w \in Workers : Deliver(w) \/ \E u \in Direct : Post(w, u)
  BY <1>1, <1>2, <1>14
<1>15. CASE \E w \in Workers :
              Create(w) \/ Save(w) \/ StoreFails(w) \/ AdmitFails(w)
  BY <1>4, <1>15
<1>16. CASE \E w \in Workers : PostEvent(w) \/ ReceiveAck(w)
  BY <1>5, <1>16
<1>17. CASE \E w \in Workers : Lock(w)
  BY <1>3, <1>17
<1>18. CASE \E w \in Workers : Respond(w)
  BY <1>6, <1>18
<1> QED BY NextCases, <1>7, <1>12, <1>13, <1>14, <1>15, <1>16, <1>17, <1>18

LEMMA LockStep == Inv /\ Next => LockInv'
<1> SUFFICES ASSUME Inv, Next PROVE LockInv'
  OBVIOUS
<1>0. LockInv /\ TypeOK
  BY DEF Inv
<1>1. CASE \A v \in Workers : pc'[v] = "idle"
  BY <1>1 DEF LockInv, Busy
<1>2. ASSUME NEW w \in Workers, \A v \in Workers \ {w} : Still(v),
             \/ pc'[w] \in {"idle", "answer", "locking"}
             \/ lock'[w] = lock[w] /\ upd'[w] = upd[w] /\ pc[w] \in Busy,
             pc'[w] # "idle" => upd'[w] \in Update
      PROVE  LockInv'
  BY <1>0, <1>2 DEF LockInv, Still, Busy
<1>3. ASSUME NEW w \in Workers, \A v \in Workers \ {w} : Still(v), Lock(w),
             pc'[w] = "create", upd'[w] = upd[w]
      PROVE  LockInv'
  <2>1. /\ lock'[w] = LockIndex(upd[w].chat)
        /\ \A v \in Workers : lock[v] # LockIndex(upd[w].chat)
    BY <1>0, <1>3 DEF TypeOK, Lock
  <2>2. pc[w] # "idle"
    BY <1>3 DEF Lock
  <2> QED BY <1>0, <1>3, <2>1, <2>2 DEF LockInv, Still, Busy
<1>4. ASSUME NEW w \in Workers, \A v \in Workers \ {w} : Still(v), Still(w)
      PROVE  LockInv'
  BY <1>0, <1>4 DEF LockInv, Still
<1> QED
  <2>1. ASSUME NEW w \in Workers, pc[w] # "idle" PROVE upd[w] \in Update
    BY <1>0, <2>1 DEF LockInv
  <2>2. \A w \in Workers : pc[w] \in Busy => pc[w] # "idle"
    BY DEF Busy
  <2> QED BY Moves, <1>1, <1>2, <1>3, <1>4, <2>1, <2>2

\* From CreateUpdate on, a worker relies on a row that its lock protects.
LEMMA ClaimStep == Inv /\ Next => ClaimInv'
<1> SUFFICES ASSUME Inv, Next, NEW w \in Workers, pc'[w] \in Holding
             PROVE  /\ updates'[upd'[w].id].digest = upd'[w]
                    /\ updates'[upd'[w].id].response = None
  BY DEF ClaimInv
<1>0. TypeOK /\ LockInv /\ ClaimInv
  BY DEF Inv
<1>1. ASSUME pc[w] \in Holding, upd'[w] = upd[w]
      PROVE  /\ updates'[upd'[w].id].digest = upd'[w]
             /\ updates'[upd'[w].id].response = None
  <2>1. upd[w] \in Update /\ upd[w].id \in UpdateIds /\ upd[w] # None
    BY <1>0, <1>1, UpdateFields DEF LockInv, Holding
  <2>2. /\ updates[upd[w].id].digest = upd[w]
        /\ updates[upd[w].id].response = None
    BY <1>0, <1>1 DEF ClaimInv
  <2>3. ASSUME NEW x \in Workers, Appears(x, upd[w].id) PROVE FALSE
    BY <2>1, <2>2, <2>3 DEF Appears
  <2>4. ASSUME NEW x \in Workers, Answered(x, upd[w].id) PROVE FALSE
    <3>1. upd[x] = upd[w] /\ pc[x] = "save" /\ pc'[x] = "answer"
      BY <2>2, <2>4 DEF Answered
    <3>2. x # w
      BY <3>1 DEF Holding
    <3>3. pc[x] \in Busy /\ pc[w] \in Busy
      BY <1>1, <3>1 DEF Busy, Holding
    <3> QED BY <1>0, <3>1, <3>2, <3>3 DEF LockInv
  <2>5. \/ updates'[upd[w].id] = updates[upd[w].id]
        \/ \E x \in Workers : Appears(x, upd[w].id)
        \/ \E x \in Workers : Answered(x, upd[w].id)
    BY <2>1, RowChanges
  <2>6. updates'[upd[w].id] = updates[upd[w].id]
    BY <2>3, <2>4, <2>5
  <2> QED BY <1>1, <2>2, <2>6
<1>2. ASSUME Create(w), pc'[w] = "admit"
      PROVE  /\ updates'[upd'[w].id].digest = upd'[w]
             /\ updates'[upd'[w].id].response = None
  <2>1. upd[w] \in Update /\ upd[w].id \in UpdateIds /\ upd'[w] = upd[w]
    BY <1>0, <1>2, UpdateFields DEF LockInv, Create
  <2>2. /\ ~DigestConflict(upd[w]) /\ ~HasOrkaResponse(upd[w])
        /\ CreateUpdate(upd[w])
    BY <1>0, <1>2 DEF Create, Answer, TypeOK
  <2>3. CASE Known(upd[w])
    BY <2>1, <2>2, <2>3
       DEF CreateUpdate, DigestConflict, HasOrkaResponse, Known
  <2>4. CASE ~Known(upd[w])
    <3>1. updates'[upd[w].id] = [NoUpdate EXCEPT !.digest = upd[w]]
      BY <1>0, <2>1, <2>2, <2>4 DEF TypeOK, CreateUpdate
    <3> QED BY <2>1, <3>1 DEF NoUpdate
  <2> QED BY <2>3, <2>4
<1>3. \/ pc[w] \in Holding /\ upd'[w] = upd[w]
      \/ Create(w) /\ pc'[w] = "admit"
  <2>1. ASSUME NEW v \in Workers, NEW u \in Update, Arrive(v, u)
        PROVE  pc[w] \in Holding /\ upd'[w] = upd[w]
    BY <1>0, <2>1 DEF TypeOK, Arrive, Answer, Holding
  <2>2. ASSUME NEW v \in Workers, Deliver(v) \/ \E u \in Direct : Post(v, u)
        PROVE  pc[w] \in Holding /\ upd'[w] = upd[w]
    <3>1. CASE Deliver(v)
      BY <1>0, <2>1, <3>1, HeadFacts DEF Deliver
    <3> QED BY <2>1, <2>2, <3>1 DEF Post
  <2>3. ASSUME NEW v \in Workers, Create(v)
        PROVE  \/ pc[w] \in Holding /\ upd'[w] = upd[w]
               \/ Create(w) /\ pc'[w] = "admit"
    BY <1>0, <2>3 DEF TypeOK, Create, Answer, Holding
  <2>4. ASSUME NEW v \in Workers,
               \/ Save(v) \/ StoreFails(v) \/ AdmitFails(v)
               \/ PostEvent(v) \/ ReceiveAck(v) \/ Lock(v)
        PROVE  pc[w] \in Holding /\ upd'[w] = upd[w]
    BY <1>0, <2>4 DEF TypeOK, Save, StoreFails, AdmitFails, PostEvent,
                      ReceiveAck, Lock, Answer, Holding
  <2>5. ASSUME NEW v \in Workers, Respond(v)
        PROVE  pc[w] \in Holding /\ upd'[w] = upd[w]
    BY <1>0, <2>5 DEF TypeOK, Respond, Leave, Holding
  <2>6. CASE UNCHANGED handlerVars
    BY <2>6 DEF handlerVars
  <2>7. CASE Crash
    BY <2>7 DEF Crash, Holding
  <2> QED BY NextCases, <2>2, <2>3, <2>4, <2>5, <2>6, <2>7
          DEF OrkaTakes, OrkaTakesStray, Abandon, Restart
<1> QED BY <1>1, <1>2, <1>3

\* Where an acknowledgement comes from.
LEMMA AckSources ==
  ASSUME Inv, Next, NEW w \in Workers
  PROVE  /\ inbox'[w] # None =>
              \/ inbox[w] # None /\ Still(w)
              \/ OrkaTakes(w) /\ Still(w)
         /\ pc'[w] = "save" =>
              \/ pc[w] = "save" /\ upd'[w] = upd[w] /\ body'[w] = body[w]
              \/ /\ pc[w] = "ingress" /\ inbox[w] # None
                 /\ upd'[w] = upd[w] /\ body'[w] = inbox[w]
<1> DEFINE Got == \/ inbox[w] # None /\ Still(w)
                  \/ OrkaTakes(w) /\ Still(w)
           Due ==
             \/ pc[w] = "save" /\ upd'[w] = upd[w] /\ body'[w] = body[w]
             \/ /\ pc[w] = "ingress" /\ inbox[w] # None
                /\ upd'[w] = upd[w] /\ body'[w] = inbox[w]
           Goal == (inbox'[w] # None => Got) /\ (pc'[w] = "save" => Due)
<1>0. TypeOK /\ (inbox[w] # None => pc[w] = "ingress")
  BY DEF Inv, AckInv
<1>1. ASSUME NEW v \in Workers, NEW u \in Update, Arrive(v, u) PROVE Goal
  BY <1>0, <1>1 DEF TypeOK, Arrive, Answer, Still, orkaVars
<1>2. ASSUME NEW v \in Workers, Deliver(v) \/ \E u \in Direct : Post(v, u)
      PROVE  Goal
  <2>1. CASE Deliver(v)
    BY <1>0, <1>1, <2>1, HeadFacts DEF Deliver
  <2> QED BY <1>1, <1>2, <2>1 DEF Post
<1>3. ASSUME NEW v \in Workers, Create(v) \/ PostEvent(v) \/ Lock(v)
      PROVE  Goal
  BY <1>0, <1>3 DEF TypeOK, Create, PostEvent, Lock, Answer, Still, orkaVars
<1>4. ASSUME NEW v \in Workers, Save(v) \/ StoreFails(v) PROVE Goal
  BY <1>0, <1>4 DEF TypeOK, Save, StoreFails, Answer, Still, orkaVars
<1>5. ASSUME NEW v \in Workers, AdmitFails(v) PROVE Goal
  BY <1>0, <1>5 DEF TypeOK, AdmitFails, Answer, Still
<1>6. ASSUME NEW v \in Workers, ReceiveAck(v) PROVE Goal
  BY <1>0, <1>6 DEF TypeOK, ReceiveAck, Still
<1>7. ASSUME NEW v \in Workers, Respond(v) PROVE Goal
  BY <1>0, <1>7 DEF TypeOK, Respond, Leave, Still, orkaVars
<1>8. ASSUME NEW v \in Workers, OrkaTakes(v) PROVE Goal
  <2>1. UNCHANGED handlerVars
    BY <1>8 DEF OrkaTakes
  <2>2. Still(w) /\ body'[w] = body[w] /\ pc'[w] = pc[w]
    BY <2>1 DEF handlerVars, Still
  <2>3. CASE v = w
    BY <1>8, <2>2, <2>3 DEF Still
  <2>4. CASE v # w
    <3>1. inbox'[w] = inbox[w]
      BY <1>0, <1>8, <2>4 DEF TypeOK, OrkaTakes
    <3> QED BY <2>2, <3>1 DEF Still
  <2> QED BY <2>3, <2>4
<1>9. CASE UNCHANGED <<handlerVars, inbox>>
  BY <1>0, <1>9 DEF Still, handlerVars
<1>10. CASE Crash
  BY <1>10 DEF Crash
<1> QED BY NextCases, <1>2, <1>3, <1>4, <1>5, <1>6, <1>7, <1>8, <1>9, <1>10
        DEF OrkaTakesStray, Abandon, Restart, orkaVars

\* What Orka acknowledges it has.
LEMMA TakenIsAdmitted ==
  ASSUME Inv, NEW w \in Workers, OrkaTakes(w)
  PROVE  Admitted(upd[w])'  /\ upd[w] \in Update /\ inbox'[w] \in Bodies
<1>0. TypeOK /\ LockInv /\ ClaimInv /\ SentInv
  BY DEF Inv
<1>1. upd[w] \in Update /\ updates[upd[w].id].digest = upd[w]
  BY <1>0 DEF LockInv, ClaimInv, Holding, OrkaTakes
<1>2. upd' = upd /\ Take(upd[w]) /\ log \in Seq(Update)
  BY <1>0 DEF OrkaTakes, handlerVars, TypeOK
<1>3. \E n \in DOMAIN log' : log'[n] = upd[w]
  <2>1. CASE Has(upd[w])
    BY <1>0, <1>1, <1>2, <2>1, HasMeansAdmitted, TakeFacts DEF Admitted
  <2>2. CASE ~Has(upd[w])
    <3>1. log' = Append(log, upd[w])
      BY <1>2, <2>2 DEF Take
    <3>2. Len(log) \in Nat
      BY <1>2
    <3>3. /\ Len(log) + 1 \in DOMAIN log'
          /\ log'[Len(log) + 1] = upd[w]
      BY <1>1, <1>2, <3>1, <3>2
    <3> QED BY <3>3
  <2> QED BY <2>1, <2>2
<1>4. inbox'[w] \in Bodies
  BY <1>0 DEF OrkaTakes, TypeOK
<1> QED BY <1>1, <1>2, <1>3, <1>4 DEF Admitted

LEMMA AckStep == Inv /\ Next => AckInv'
<1> SUFFICES ASSUME Inv, Next, NEW w \in Workers
             PROVE  /\ inbox'[w] # None => pc'[w] = "ingress"
                    /\ inbox'[w] # None => Admitted(upd[w])'
                    /\ pc'[w] = "save" => Admitted(upd[w])'
                    /\ pc'[w] = "save" => body'[w] \in Bodies
  BY DEF AckInv
<1>0. TypeOK /\ AckInv
  BY DEF Inv
<1>1. ASSUME Admitted(upd[w]), upd'[w] = upd[w] PROVE Admitted(upd[w])'
  BY <1>1, LogChanges DEF Admitted
<1>2. ASSUME inbox'[w] # None
      PROVE  pc'[w] = "ingress" /\ Admitted(upd[w])'
  <2>1. CASE inbox[w] # None /\ Still(w)
    BY <1>0, <1>1, <2>1 DEF AckInv, Still
  <2>2. CASE OrkaTakes(w) /\ Still(w)
    BY <2>2, TakenIsAdmitted DEF OrkaTakes, Still
  <2> QED BY <1>2, <2>1, <2>2, AckSources
<1>3. ASSUME pc'[w] = "save"
      PROVE  Admitted(upd[w])' /\ body'[w] \in Bodies
  <2>1. CASE pc[w] = "save" /\ upd'[w] = upd[w] /\ body'[w] = body[w]
    BY <1>0, <1>1, <2>1 DEF AckInv
  <2>2. CASE /\ pc[w] = "ingress" /\ inbox[w] # None
             /\ upd'[w] = upd[w] /\ body'[w] = inbox[w]
    BY <1>0, <1>1, <2>2 DEF AckInv, TypeOK
  <2> QED BY <1>3, <2>1, <2>2, AckSources
<1> QED BY <1>2, <1>3

\* Where a 200 comes from, and what a worker on its way carries.
LEMMA CodeSources ==
  ASSUME Inv, Next, NEW w \in Workers
  PROVE  /\ pc'[w] = "answer" /\ code'[w] = 200 =>
              \/ pc[w] = "answer" /\ code[w] = 200 /\ upd'[w] = upd[w]
              \/ upd'[w].text \in Ignored
              \/ Create(w) /\ ~DigestConflict(upd[w])
                 /\ HasOrkaResponse(upd[w]) /\ upd'[w] = upd[w]
              \/ pc[w] = "save" /\ upd'[w] = upd[w]
         /\ pc'[w] \in Busy \cup {"locking"} =>
              \/ pc[w] \in Busy \cup {"locking"} /\ upd'[w] = upd[w]
              \/ upd'[w].text \notin Ignored \cup Refused
<1> DEFINE Told ==
             \/ pc[w] = "answer" /\ code[w] = 200 /\ upd'[w] = upd[w]
             \/ upd'[w].text \in Ignored
             \/ Create(w) /\ ~DigestConflict(upd[w])
                /\ HasOrkaResponse(upd[w]) /\ upd'[w] = upd[w]
             \/ pc[w] = "save" /\ upd'[w] = upd[w]
           Under ==
             \/ pc[w] \in Busy \cup {"locking"} /\ upd'[w] = upd[w]
             \/ upd'[w].text \notin Ignored \cup Refused
           Goal == /\ pc'[w] = "answer" /\ code'[w] = 200 => Told
                   /\ pc'[w] \in Busy \cup {"locking"} => Under
<1> SUFFICES Goal
  OBVIOUS
<1>0. TypeOK
  BY DEF Inv
<1>1. ASSUME NEW v \in Workers, NEW u \in Update, Arrive(v, u) PROVE Goal
  <2>1. CASE v = w
    <3>1. upd'[w] = u
      BY <1>0, <1>1, <2>1 DEF TypeOK, Arrive
    <3>2. CASE MapUpdate(u) = "unsupported" /\ Answer(w, 200)
      <4>1. u.text \in Ignored
        BY <3>2 DEF MapUpdate
      <4>2. pc'[w] = "answer"
        BY <1>0, <3>2 DEF TypeOK, Answer
      <4> QED BY <3>1, <4>1, <4>2 DEF Busy
    <3>3. CASE MapUpdate(u) = "invalid" /\ Answer(w, 400)
      BY <1>0, <3>3 DEF TypeOK, Answer, Busy
    <3>4. CASE MapUpdate(u) = "event" /\ pc' = [pc EXCEPT ![w] = "locking"]
      <4>1. u.text \notin Ignored \cup Refused
        BY <3>4 DEF MapUpdate
      <4>2. pc'[w] = "locking"
        BY <1>0, <3>4 DEF TypeOK
      <4> QED BY <3>1, <4>1, <4>2
    <3> QED BY <1>1, <2>1, <3>2, <3>3, <3>4 DEF Arrive
  <2>2. CASE v # w
    BY <1>0, <1>1, <2>2 DEF TypeOK, Arrive, Answer
  <2> QED BY <2>1, <2>2
<1>2. ASSUME NEW v \in Workers, Deliver(v) \/ \E u \in Direct : Post(v, u)
      PROVE  Goal
  <2>1. CASE Deliver(v)
    BY <1>0, <1>1, <2>1, HeadFacts DEF Deliver
  <2> QED BY <1>1, <1>2, <2>1 DEF Post
<1>3. ASSUME NEW v \in Workers, Create(v) PROVE Goal
  <2>1. CASE v = w
    <3>1. upd'[w] = upd[w] /\ pc[w] = "create"
      BY <1>3, <2>1 DEF Create
    <3>2. CASE Answer(w, 409)
      BY <1>0, <3>2 DEF TypeOK, Answer, Busy
    <3>3. CASE ~DigestConflict(upd[w]) /\ HasOrkaResponse(upd[w])
      BY <1>3, <2>1, <3>1, <3>3 DEF Busy
    <3>4. CASE pc' = [pc EXCEPT ![w] = "admit"]
      BY <1>0, <3>1, <3>4 DEF TypeOK, Busy
    <3> QED BY <1>3, <2>1, <3>2, <3>3, <3>4 DEF Create
  <2>2. CASE v # w
    BY <1>0, <1>3, <2>2 DEF TypeOK, Create, Answer
  <2> QED BY <2>1, <2>2
<1>4. ASSUME NEW v \in Workers, StoreFails(v) PROVE Goal
  BY <1>0, <1>4 DEF TypeOK, StoreFails, Answer, Busy
<1>5. ASSUME NEW v \in Workers, AdmitFails(v) PROVE Goal
  BY <1>0, <1>5 DEF TypeOK, AdmitFails, Answer, Busy
<1>6. ASSUME NEW v \in Workers, PostEvent(v) PROVE Goal
  BY <1>0, <1>6 DEF TypeOK, PostEvent, Busy
<1>7. ASSUME NEW v \in Workers, ReceiveAck(v) PROVE Goal
  BY <1>0, <1>7 DEF TypeOK, ReceiveAck, Busy
<1>8. ASSUME NEW v \in Workers, Lock(v) PROVE Goal
  BY <1>0, <1>8 DEF TypeOK, Lock, Busy
<1>9. ASSUME NEW v \in Workers, Save(v) PROVE Goal
  <2>1. upd' = upd /\ pc[v] = "save" /\ (Answer(v, 200) \/ Answer(v, 503))
    BY <1>9 DEF Save
  <2>2. CASE v = w
    BY <1>0, <2>1, <2>2 DEF TypeOK, Answer, Busy
  <2>3. CASE v # w
    BY <1>0, <2>1, <2>3 DEF TypeOK, Answer
  <2> QED BY <2>2, <2>3
<1>10. ASSUME NEW v \in Workers, Respond(v) PROVE Goal
  <2>1. CASE v = w
    BY <1>0, <1>10, <2>1 DEF TypeOK, Respond, Leave, Busy
  <2>2. CASE v # w
    BY <1>0, <1>10, <2>2 DEF TypeOK, Respond, Leave
  <2> QED BY <2>1, <2>2
<1>11. CASE UNCHANGED handlerVars
  BY <1>11 DEF handlerVars
<1>12. CASE Crash
  BY <1>12 DEF Crash, Busy
<1>13. CASE \/ \E v \in Workers : OrkaTakes(v)
            \/ \E u \in stray : OrkaTakesStray(u)
            \/ Abandon \/ Restart
  <2>1. UNCHANGED handlerVars
    BY <1>13 DEF OrkaTakes, OrkaTakesStray, Abandon, Restart
  <2> QED BY <1>11, <2>1
<1> HIDE DEF Goal, Told, Under
<1> QED
  BY NextCases, <1>2, <1>3, <1>4, <1>5, <1>6, <1>7, <1>8, <1>9, <1>10, <1>12,
     <1>13

LEMMA CodeStep == Inv /\ Next => CodeInv'
<1> SUFFICES ASSUME Inv, Next PROVE CodeInv'
  OBVIOUS
<1>0. RowInv /\ LockInv /\ AckInv /\ CodeInv
  BY DEF Inv
<1>1. ASSUME NEW w \in Workers, pc'[w] = "answer", code'[w] = 200
      PROVE  upd'[w].text \in Ignored \/ Admitted(upd[w])'
  <2>1. ASSUME Admitted(upd[w]), upd'[w] = upd[w] PROVE Admitted(upd[w])'
    BY <2>1, LogChanges DEF Admitted
  <2>2. CASE pc[w] = "answer" /\ code[w] = 200 /\ upd'[w] = upd[w]
    BY <1>0, <2>1, <2>2 DEF CodeInv
  <2>3. CASE /\ Create(w) /\ ~DigestConflict(upd[w])
             /\ HasOrkaResponse(upd[w]) /\ upd'[w] = upd[w]
    <3>1. upd[w] \in Update /\ upd[w].id \in UpdateIds
      BY <1>0, <2>3, UpdateFields DEF LockInv, Create
    <3>2. updates[upd[w].id].response # None
      BY <2>3 DEF HasOrkaResponse
    <3>3. updates[upd[w].id].digest # None
      BY <1>0, <3>1, <3>2 DEF RowInv
    <3>4. updates[upd[w].id].digest = upd[w]
      BY <2>3, <3>3 DEF DigestConflict, Known
    <3>5. Admitted(upd[w])
      BY <1>0, <3>1, <3>2, <3>4 DEF RowInv
    <3> QED BY <2>1, <2>3, <3>5
  <2>4. CASE pc[w] = "save" /\ upd'[w] = upd[w]
    BY <1>0, <2>1, <2>4 DEF AckInv
  <2> QED BY <1>1, <2>2, <2>3, <2>4, CodeSources
<1>2. ASSUME NEW w \in Workers, pc'[w] \in Busy \cup {"locking"}
      PROVE  upd'[w].text \notin Ignored \cup Refused
  BY <1>0, <1>2, CodeSources DEF CodeInv
<1>3. ASSUME NEW u \in stray' PROVE u.text \notin Ignored \cup Refused
  BY <1>0, <1>3, StrayChanges DEF CodeInv, Busy
<1> QED BY <1>1, <1>2, <1>3 DEF CodeInv

\* How Telegram's queue moves.
LEMMA HeadChanges ==
  ASSUME Inv, Next
  PROVE  \/ head' = head
         \/ \E w \in Workers : /\ pc[w] = "answer" /\ code[w] = 200
                               /\ open = w /\ open' = None
                               /\ head' = head + 1
BY NextCases DEF Deliver, Post, Arrive, Lock, PostEvent, ReceiveAck,
   Respond, Leave, StoreFails, AdmitFails, OrkaTakes, OrkaTakesStray, Create,
   Save, Abandon, Crash, Restart, telegramVars

\* Telegram's queue moves past an update that Orka has, or nobody wants.
LEMMA ForgottenStep == Inv /\ Next => ForgottenMeansAdmitted'
<1> SUFFICES ASSUME Inv, Next, NEW n \in 1..(head' - 1),
                    Stream[n].text \notin Ignored
             PROVE  Admitted(Stream[n])'
  BY DEF ForgottenMeansAdmitted, Admitted
<1>0. TypeOK /\ OpenInv /\ CodeInv /\ ForgottenMeansAdmitted
  BY DEF Inv
<1>1. head \in Nat
  BY <1>0, HeadFacts
<1>2. CASE n \in 1..(head - 1)
  <2>1. Admitted(Stream[n])
    BY <1>0, <1>2 DEF ForgottenMeansAdmitted
  <2> QED BY <2>1, LogChanges
<1>3. CASE n \notin 1..(head - 1)
  <2>0. head' # head
    BY <1>3
  <2>1. PICK w \in Workers : /\ pc[w] = "answer" /\ code[w] = 200
                             /\ open = w /\ head' = head + 1
    BY <2>0, HeadChanges
  <2>2. n = head
    BY <1>1, <1>3, <2>1
  <2>3. upd[w] = Stream[head]
    BY <1>0, <2>1 DEF OpenInv
  <2>4. Admitted(Stream[n])
    BY <1>0, <2>1, <2>2, <2>3 DEF CodeInv
  <2> QED BY <2>4, LogChanges
<1> QED BY <1>2, <1>3

LEMMA OpenStep == Inv /\ Next => OpenInv'
<1> SUFFICES ASSUME Inv, Next, open' # None
             PROVE  /\ head' <= Len(Stream)
                    /\ pc'[open'] # "idle" /\ upd'[open'] = Stream[head']
  BY DEF OpenInv
<1>0. TypeOK /\ OpenInv
  BY DEF Inv
<1>1. ASSUME NEW w \in Workers, Deliver(w)
      PROVE  /\ head' <= Len(Stream)
             /\ pc'[open'] # "idle" /\ upd'[open'] = Stream[head']
  <2>1. Arrive(w, Stream[head]) /\ head <= Len(Stream) /\ open' = w
    BY <1>1 DEF Deliver
  <2> QED BY <1>0, <2>1 DEF TypeOK, Arrive, Answer
<1>2. ASSUME open' = open, head' = head,
             \A v \in Workers :
               pc[v] # "idle" => pc'[v] # "idle" /\ upd'[v] = upd[v]
      PROVE  /\ head' <= Len(Stream)
             /\ pc'[open'] # "idle" /\ upd'[open'] = Stream[head']
  BY <1>0, <1>2 DEF OpenInv, TypeOK
<1>3. ASSUME NEW w \in Workers, NEW u \in Direct, Post(w, u)
      PROVE  /\ open' = open /\ head' = head
             /\ \A v \in Workers :
                  pc[v] # "idle" => pc'[v] # "idle" /\ upd'[v] = upd[v]
  BY <1>0, <1>3 DEF TypeOK, Post, Arrive, Answer
<1>4. ASSUME NEW w \in Workers,
             \/ Create(w) \/ Save(w) \/ StoreFails(w) \/ AdmitFails(w)
             \/ PostEvent(w) \/ ReceiveAck(w) \/ Lock(w)
      PROVE  /\ open' = open /\ head' = head
             /\ \A v \in Workers :
                  pc[v] # "idle" => pc'[v] # "idle" /\ upd'[v] = upd[v]
  <2>1. open' = open /\ head' = head /\ upd' = upd
    BY <1>4 DEF Create, Save, StoreFails, AdmitFails, PostEvent, ReceiveAck,
                Lock, telegramVars
  <2>2. \A v \in Workers : pc[v] # "idle" => pc'[v] # "idle"
    BY <1>0, <1>4 DEF TypeOK, Create, Save, StoreFails, AdmitFails,
                      PostEvent, ReceiveAck, Lock, Answer
  <2> QED BY <2>1, <2>2
<1>5. ASSUME NEW w \in Workers, Respond(w)
      PROVE  /\ open' = open /\ head' = head /\ open # w
             /\ \A v \in Workers \ {w} : pc'[v] = pc[v] /\ upd'[v] = upd[v]
  <2>1. open # w
    BY <1>5 DEF Respond, Leave
  <2> QED BY <1>0, <1>5, <2>1 DEF TypeOK, Respond, Leave
<1>6. CASE \E w \in Workers : Respond(w)
  <2>1. PICK w \in Workers : Respond(w)
    BY <1>6
  <2>2. open' = open /\ head' = head /\ open \in Workers \ {w}
    BY <1>0, <1>5, <2>1 DEF TypeOK
  <2>3. pc'[open] = pc[open] /\ upd'[open] = upd[open]
    BY <1>5, <2>1, <2>2
  <2> QED BY <1>0, <2>2, <2>3 DEF OpenInv
<1>7. ASSUME UNCHANGED <<handlerVars, open, head>>
      PROVE  /\ open' = open /\ head' = head
             /\ \A v \in Workers :
                  pc[v] # "idle" => pc'[v] # "idle" /\ upd'[v] = upd[v]
  BY <1>7 DEF handlerVars
<1>8. CASE UNCHANGED <<handlerVars, open, head>>
  BY <1>2, <1>7, <1>8
<1>9. CASE Abandon \/ Crash
  BY <1>9 DEF Abandon, Crash
<1> QED
  BY NextCases, <1>1, <1>2, <1>3, <1>4, <1>6, <1>8, <1>9
     DEF OrkaTakes, OrkaTakesStray, Restart, telegramVars

LEMMA Stutter == Inv /\ UNCHANGED vars => Inv'
<1> SUFFICES ASSUME Inv, UNCHANGED vars PROVE Inv'
  OBVIOUS
<1>1. UNCHANGED <<updates, running, lock, pc, upd, body, code, head, open,
                  inbox, stray, log>>
  BY DEF vars, handlerVars, telegramVars, orkaVars
<1>2. \A x : Admitted(x)' <=> Admitted(x)
  BY <1>1 DEF Admitted
<1>3. TypeOK'
  BY <1>1 DEF Inv, TypeOK
<1>4. RowInv' /\ SentInv'
  BY <1>1, <1>2 DEF Inv, RowInv, SentInv
<1>5. LockInv' /\ ClaimInv' /\ OpenInv'
  BY <1>1 DEF Inv, LockInv, ClaimInv, OpenInv
<1>6. AckInv'
  BY <1>1 DEF Inv, AckInv, Admitted
<1>7. CodeInv' /\ ForgottenMeansAdmitted'
  BY <1>1 DEF Inv, CodeInv, ForgottenMeansAdmitted, Admitted
<1> QED BY <1>3, <1>4, <1>5, <1>6, <1>7 DEF Inv

-----------------------------------------------------------------------------
\* Inv holds in every state of every behaviour, whatever the handlers,
\* Telegram, Orka and the crashes do.
THEOREM Invariance == Spec => []Inv
<1>1. Inv /\ [Next]_vars => Inv'
  <2>1. Inv /\ Next => Inv'
    BY TypeStep, RowStep, LockStep, ClaimStep, SentStep, AckStep, CodeStep,
       OpenStep, ForgottenStep DEF Inv
  <2> QED BY <2>1, Stutter
<1> QED BY InitInv, <1>1, PTL DEF Spec

\* The variables keep their types; the chat lock is always one of chatLocks,
\* whatever chat ID Telegram sends (handleTelegramWebhook, server.go:218).
THEOREM TypesHold == Spec => []TypeOK
<1>1. Inv => TypeOK
  BY DEF Inv
<1> QED BY Invariance, <1>1, PTL

\* One update ID, one event: whoever posts what, and whatever crashes, two
\* events at Orka or on their way there under one ID are the same
\* (CreateUpdate's digest check, updates.go:48).
THEOREM OneEvent == Spec => []OneEventPerId
<1>1. Inv => OneEventPerId
  <2> SUFFICES ASSUME Inv, NEW u \in Reached, NEW v \in Reached, u.id = v.id
               PROVE  u = v
    BY DEF OneEventPerId
  <2>0. TypeOK /\ LockInv /\ ClaimInv /\ SentInv
    BY DEF Inv
  <2>1. \A x \in Reached : x \in Update /\ updates[x.id].digest = x
    <3> SUFFICES ASSUME NEW x \in Reached
                 PROVE  x \in Update /\ updates[x.id].digest = x
      OBVIOUS
    <3>1. CASE x \in stray
      BY <2>0, <3>1 DEF TypeOK, SentInv
    <3>2. CASE \E n \in DOMAIN log : log[n] = x
      <4>1. x \in Update
        BY <2>0, <3>2 DEF TypeOK
      <4> QED BY <2>0, <3>2, <4>1 DEF SentInv, Admitted
    <3>3. CASE \E w \in Workers : pc[w] = "ingress" /\ upd[w] = x
      BY <2>0, <3>3 DEF LockInv, ClaimInv, Holding
    <3> QED BY <3>1, <3>2, <3>3 DEF Reached
  <2> QED BY <2>1
<1> QED BY Invariance, <1>1, PTL

\* Telegram forgets a supported update only when Orka has it: a 200 is
\* written after Orka's 202, or after one that an earlier attempt stored
\* (handleTelegramWebhook, server.go:242 and 265).
THEOREM NothingForgotten == Spec => []ForgottenMeansAdmitted
<1>1. Inv => ForgottenMeansAdmitted
  BY DEF Inv
<1> QED BY Invariance, <1>1, PTL

\* The worker that saves an acknowledgement is the first to do so: the chat
\* lock holds from CreateUpdate to SaveUpdateResponse.
THEOREM SaveFirst == Spec => []SaveIsFirst
<1>1. Inv => SaveIsFirst
  BY DEF Inv, ClaimInv, SaveIsFirst, Holding, HasOrkaResponse
<1> QED BY Invariance, <1>1, PTL

\* No event goes to Orka whose acknowledgement is stored, although the row
\* was read in an earlier transaction.
THEOREM NotAgain == Spec => NeverAdmittedAgain
<1>1. Inv /\ [Next]_vars =>
        [\A w \in Workers :
           pc[w] = "admit" /\ pc'[w] = "ingress" =>
             ~HasOrkaResponse(upd[w])]_vars
  BY DEF Inv, ClaimInv, Holding, HasOrkaResponse
<1> QED BY Invariance, <1>1, PTL DEF Spec, NeverAdmittedAgain

-----------------------------------------------------------------------------
(* With nobody but Telegram posting, Admission is implemented.             *)

\* What is under way is an update of Telegram's queue, not behind its head.
StreamInv ==
  /\ \A w \in Workers :
       pc[w] # "idle" =>
         \E m \in 1..Len(Stream) : m <= head /\ upd[w] = Stream[m]
  /\ \A u \in stray : \E m \in 1..Len(Stream) : m <= head /\ u = Stream[m]

\* Where a worker's update comes from.
LEMMA UpdateSources ==
  ASSUME Inv, Next, Direct = {}, NEW w \in Workers, pc'[w] # "idle"
  PROVE  \/ pc[w] # "idle" /\ upd'[w] = upd[w]
         \/ head <= Len(Stream) /\ upd'[w] = Stream[head]
<1> DEFINE Goal == \/ pc[w] # "idle" /\ upd'[w] = upd[w]
                   \/ head <= Len(Stream) /\ upd'[w] = Stream[head]
<1> SUFFICES Goal
  OBVIOUS
<1>0. TypeOK
  BY DEF Inv
<1>1. ASSUME NEW v \in Workers, Deliver(v) PROVE Goal
  <2>1. head <= Len(Stream) /\ Arrive(v, Stream[head])
    BY <1>1 DEF Deliver
  <2>2. CASE v = w
    BY <1>0, <2>1, <2>2 DEF TypeOK, Arrive
  <2>3. CASE v # w
    BY <1>0, <2>1, <2>3 DEF TypeOK, Arrive, Answer
  <2> QED BY <2>2, <2>3
<1>2. ASSUME NEW v \in Workers,
             \/ Create(v) \/ Save(v) \/ StoreFails(v) \/ AdmitFails(v)
             \/ PostEvent(v) \/ ReceiveAck(v) \/ Lock(v)
      PROVE  Goal
  <2>1. upd' = upd
    BY <1>2 DEF Create, Save, StoreFails, AdmitFails, PostEvent, ReceiveAck,
                Lock
  <2>2. pc[w] # "idle"
    BY <1>0, <1>2 DEF TypeOK, Create, Save, StoreFails, AdmitFails,
                      PostEvent, ReceiveAck, Lock, Answer
  <2> QED BY <2>1, <2>2
<1>3. ASSUME NEW v \in Workers, Respond(v) PROVE Goal
  BY <1>0, <1>3 DEF TypeOK, Respond, Leave
<1>4. CASE UNCHANGED handlerVars
  BY <1>4 DEF handlerVars
<1>5. CASE \/ \E v \in Workers : OrkaTakes(v)
           \/ \E u \in stray : OrkaTakesStray(u)
           \/ Abandon \/ Restart
  <2>1. UNCHANGED handlerVars
    BY <1>5 DEF OrkaTakes, OrkaTakesStray, Abandon, Restart
  <2> QED BY <1>4, <2>1
<1>6. CASE Crash
  BY <1>6 DEF Crash
<1> QED BY NextCases, <1>1, <1>2, <1>3, <1>5, <1>6

LEMMA StreamStep ==
  ASSUME Inv, Next, Direct = {}, StreamInv
  PROVE  StreamInv'
<1>0. TypeOK
  BY DEF Inv
<1>1. head \in Nat /\ head >= 1 /\ Len(Stream) \in Nat
  BY <1>0, HeadFacts
<1>2. head' \in Nat /\ head' >= head
  BY <1>1, HeadChanges
<1>3. \A m \in 1..Len(Stream) : m <= head => m <= head'
  BY <1>1, <1>2
<1>4. ASSUME NEW w \in Workers, pc'[w] # "idle"
      PROVE  \E m \in 1..Len(Stream) : m <= head' /\ upd'[w] = Stream[m]
  <2>1. CASE pc[w] # "idle" /\ upd'[w] = upd[w]
    BY <1>3, <2>1 DEF StreamInv
  <2>2. CASE head <= Len(Stream) /\ upd'[w] = Stream[head]
    <3>1. head \in 1..Len(Stream) /\ head <= head
      BY <1>1, <2>2
    <3> QED BY <1>3, <2>2, <3>1
  <2> QED BY <1>4, <2>1, <2>2, UpdateSources
<1>5. ASSUME NEW u \in stray'
      PROVE  \E m \in 1..Len(Stream) : m <= head' /\ u = Stream[m]
  <2>1. \E m \in 1..Len(Stream) : m <= head /\ u = Stream[m]
    BY <1>5, StrayChanges DEF StreamInv
  <2> QED BY <1>3, <2>1
<1> QED BY <1>4, <1>5 DEF StreamInv

\* An event that is new to Orka is the one Telegram offers.
LEMMA NewIsOffered ==
  ASSUME Inv, StreamInv, NEW u \in Update, ~Has(u),
         u.text \notin Ignored \cup Refused,
         \E m \in 1..Len(Stream) : m <= head /\ u = Stream[m]
  PROVE  head <= Len(Stream) /\ u = Stream[head]
<1>0. TypeOK /\ ForgottenMeansAdmitted
  BY DEF Inv
<1>1. PICK m \in 1..Len(Stream) : m <= head /\ u = Stream[m]
  OBVIOUS
<1>2. head \in Nat /\ Len(Stream) \in Nat
  BY <1>0, HeadFacts
<1>3. CASE m = head
  BY <1>1, <1>2, <1>3
<1>4. CASE m # head
  <2>1. m \in 1..(head - 1)
    BY <1>1, <1>2, <1>4
  <2>2. Admitted(u)
    BY <1>0, <1>1, <2>1 DEF ForgottenMeansAdmitted
  <2> QED BY <2>2 DEF Admitted, Has
<1> QED BY <1>3, <1>4

\* Orka takes what Admission lets it take.
LEMMA TakeImplements ==
  ASSUME Inv, StreamInv, NEW u \in Update, Take(u), head' = head,
         u.text \notin Ignored \cup Refused,
         \E m \in 1..Len(Stream) : m <= head /\ u = Stream[m]
  PROVE  Abstract!Next \/ UNCHANGED <<head, log>>
<1>1. CASE Has(u)
  BY <1>1 DEF Take
<1>2. CASE ~Has(u)
  <2>1. head <= Len(Stream) /\ u = Stream[head]
    BY <1>2, NewIsOffered
  <2>2. log' = Append(log, u)
    BY <1>2 DEF Take
  <2>3. ~Abstract!Admitted(u)
    BY <1>2 DEF Has, Abstract!Admitted
  <2> QED BY <2>1, <2>2, <2>3
          DEF Abstract!Next, Abstract!Admit, Abstract!Offered
<1> QED BY <1>1, <1>2

LEMMA StepImplements ==
  ASSUME Inv, StreamInv, Next
  PROVE  Abstract!Next \/ UNCHANGED <<head, log>>
<1>0. TypeOK /\ LockInv /\ CodeInv /\ OpenInv
  BY DEF Inv
<1>1. ASSUME NEW w \in Workers, OrkaTakes(w)
      PROVE  Abstract!Next \/ UNCHANGED <<head, log>>
  <2>1. Take(upd[w]) /\ head' = head /\ pc[w] = "ingress"
    BY <1>1 DEF OrkaTakes, telegramVars
  <2>2. upd[w] \in Update /\ upd[w].text \notin Ignored \cup Refused
    BY <1>0, <2>1 DEF LockInv, CodeInv, Busy
  <2>3. \E m \in 1..Len(Stream) : m <= head /\ upd[w] = Stream[m]
    BY <2>1 DEF StreamInv
  <2> QED BY <2>1, <2>2, <2>3, TakeImplements
<1>2. ASSUME NEW u \in stray, OrkaTakesStray(u)
      PROVE  Abstract!Next \/ UNCHANGED <<head, log>>
  <2>1. (Take(u) \/ log' = log) /\ head' = head
    BY <1>2 DEF OrkaTakesStray, telegramVars, Take
  <2>2. u \in Update /\ u.text \notin Ignored \cup Refused
    BY <1>0 DEF TypeOK, CodeInv
  <2>3. \E m \in 1..Len(Stream) : m <= head /\ u = Stream[m]
    BY DEF StreamInv
  <2> QED BY <2>1, <2>2, <2>3, TakeImplements
<1>3. ASSUME NEW w \in Workers, Respond(w)
      PROVE  Abstract!Next \/ UNCHANGED <<head, log>>
  <2>1. log' = log
    BY <1>3 DEF Respond, orkaVars
  <2>2. CASE open = w /\ code[w] = 200
    <3>1. pc[w] = "answer" /\ head' = head + 1
      BY <1>3, <2>2 DEF Respond, Leave
    <3>2. head <= Len(Stream) /\ upd[w] = Stream[head]
      BY <1>0, <2>2 DEF OpenInv
    <3>3. Stream[head].text \in Ignored \/ Admitted(Stream[head])
      BY <1>0, <2>2, <3>1, <3>2 DEF CodeInv
    <3> QED BY <2>1, <3>1, <3>2, <3>3
            DEF Abstract!Next, Abstract!Forget, Abstract!Offered,
                Abstract!Admitted, Admitted
  <2>3. CASE ~(open = w /\ code[w] = 200)
    BY <1>3, <2>1, <2>3 DEF Respond, Leave
  <2> QED BY <2>2, <2>3
<1>4. \/ UNCHANGED <<head, log>>
      \/ \E w \in Workers : OrkaTakes(w) \/ Respond(w)
      \/ \E u \in stray : OrkaTakesStray(u)
  BY NextCases DEF Deliver, Post, Arrive, Lock, PostEvent, ReceiveAck,
     StoreFails, AdmitFails, Create, Save, Abandon, Crash, Restart,
     telegramVars, orkaVars
<1> QED BY <1>1, <1>2, <1>3, <1>4

\* Between Telegram and Orka nothing shows of concurrent handlers, retries,
\* late events and crashes when Telegram alone posts: Orka gets the supported
\* updates of the queue one by one, in its order, each once, and none is
\* forgotten before.
THEOREM InOrder ==
  ASSUME Direct = {} PROVE Spec => AdmittedInOrder
<1>1. Init => StreamInv
  BY DEF Init, StreamInv
<1>2. Inv /\ StreamInv /\ [Next]_vars => StreamInv'
  <2>1. CASE Next
    BY <2>1, StreamStep
  <2>2. CASE UNCHANGED vars
    BY <2>2 DEF StreamInv, vars, handlerVars, telegramVars, orkaVars
  <2> QED BY <2>1, <2>2
<1>3. Init => Abstract!Init
  BY DEF Init, Abstract!Init
<1>4. Inv /\ StreamInv /\ [Next]_vars => [Abstract!Next]_<<head, log>>
  <2>1. UNCHANGED vars => UNCHANGED <<head, log>>
    BY DEF vars, telegramVars, orkaVars
  <2> QED BY <2>1, StepImplements
<1> QED
  BY Invariance, <1>1, <1>2, <1>3, <1>4, PTL
     DEF Spec, AdmittedInOrder, Abstract!Spec
=============================================================================
