--------------------------- MODULE DeliveryHandler ---------------------------
(***************************************************************************)
(* Outbound deliveries: concurrent executions of handleDelivery            *)
(* (internal/adapter/server.go) over the store of DeliveryStore, the       *)
(* provider gate, the Telegram client's classification of a send           *)
(* (internal/telegram/client.go), Telegram itself (external), and the      *)
(* process that crashes, opens its database and serves again               *)
(* (cmd/orka-gateway-telegram/main.go, internal/store/store.go).           *)
(*                                                                         *)
(* A worker is one execution of handleDelivery.  Its pc names the next     *)
(* thing it does:                                                          *)
(*   idle     no request                                                   *)
(*   inspect  the four SELECTs of InspectDeliveryWithIdempotency, which    *)
(*            run outside any transaction                                  *)
(*   replay   BeginDeliveryWithIdempotency for a terminal record, outside  *)
(*            the gate                                                     *)
(*   waiting  the select on providerGate                                   *)
(*   begin    BeginDeliveryWithIdempotency inside the gate                 *)
(*   claimed  holds a sending claim: route check, then SendMessage         *)
(*   await    the sendMessage call is on the wire                          *)
(*   persist  the result is known and not yet recorded                     *)
(*   answer   writes the response; the deferred release of the gate        *)
(*                                                                         *)
(* Orka (external) submits any request of Requests at any time, as often   *)
(* as it likes, also while an earlier attempt is under way.                *)
(*                                                                         *)
(* What a result says of a call is what CallIsOneTry of TelegramClient     *)
(* says it is.  A call that SendMessage reports as not sent while it is    *)
(* still being written (left, over HTTP/2 only) is not in this model.      *)
(***************************************************************************)
EXTENDS DeliveryStore, Sequences

CONSTANTS
  Workers,    \* executions of handleDelivery
  Requests,   \* the delivery requests Orka makes
  Routable,   \* contents whose reply target, route and text are valid
  Legacy,     \* requests the version 1 adapter may have recorded
  MaxCalls    \* bound: sendMessage calls

ASSUME WorkersAssumption  == None \notin Workers
ASSUME RequestsAssumption == Requests \subseteq Request
ASSUME CallsAssumption    == MaxCalls \in Nat
\* V1 did not retain idempotency IDs; Orka uses equal IDs (store.go:196).
ASSUME LegacyAssumption   == /\ Legacy \subseteq Requests
                             /\ \A r \in Legacy : r.d = r.i

VARIABLES
  mode,      \* of the process: down, migrated, starting, up
  schema,    \* 1: a database of the version 1 adapter; 3: migrated
  gate,      \* the worker that holds providerGate, or None
  pc, req,   \* of each worker, and its request
  seen,      \* the records a worker's inspection has read so far
  canon,     \* canonicalDeliveryID; at replay, the inspected record's
  call,      \* the number of the worker's sendMessage call; 0: none
  result,    \* the result to record
  reply,     \* the response to write
  calls,     \* sendMessage calls made
  wire,      \* per logical delivery, calls Telegram may still act on
  posted,    \* per logical delivery, calls that became a message
  answers,   \* history: final responses written, with their request
  asked,     \* history: time left of the longest retry_after received
  unrecorded \* history: a retry_after was lost before it was recorded

procVars   == <<mode, schema, gate>>
workerVars == <<pc, req, seen, canon, call, result, reply>>
chatVars   == <<calls, wire, posted>>
histVars   == <<answers, asked, unrecorded>>
vars       == <<storeVars, procVars, workerVars, chatVars, histVars>>

Replies == [status : {"delivered", "retryable", "nonRetryable"},
            msg : Nat, message : Messages \cup {"conflict"}]

Retry    == [status |-> "retryable", msg |-> 0, message |-> ""]
Conflict == [status |-> "nonRetryable", msg |-> 0, message |-> "conflict"]

Result(state, msg, message, wait) ==
  [state |-> state, msg |-> msg, message |-> message, wait |-> wait]
NoResult == Result("retryable", 0, "", 0)

\* replayDelivery; the wording of a retryable response tells nothing apart.
replayDelivery(row) ==
  IF row.state = "delivered"
  THEN [status |-> "delivered", msg |-> row.msg, message |-> ""]
  ELSE IF row.state \in {"permanent", "unknown"}
  THEN [status |-> "nonRetryable", msg |-> 0, message |-> row.message]
  ELSE Retry

-----------------------------------------------------------------------------
\* A row of the version 1 adapter.  Its call, number 1, may have become a
\* message or be on the wire unless the row says that it was refused.
LegacyRow(r, state) ==
  [NoRow EXCEPT !.state = state, !.legacy = r,
                !.msg = IF state = "delivered" THEN 1 ELSE 0]

LegacyInit ==
  /\ deliveries \in [IDs -> {NoRow} \cup
       {LegacyRow(r, state) : r \in Legacy, state \in States \ {"absent"}}]
  /\ posted \in [IDs -> {{}, {1}}]
  /\ wire \in [IDs -> {{}, {1}}]
  /\ \A k \in IDs :
       /\ Exists(k) => deliveries[k].legacy.d = k
       /\ deliveries[k].state \in {"absent", "retryable", "permanent"} =>
            posted[k] = {} /\ wire[k] = {}
       /\ deliveries[k].state = "delivered" => posted[k] = {1}
       /\ posted[k] = {} \/ wire[k] = {}

Init ==
  /\ LegacyInit
  /\ idempotency = [k \in IDs |-> NoIdempotency]
  /\ aliases = [k \in IDs |-> None]
  /\ cooldown = 0
  /\ mode = "down" /\ schema = 1 /\ gate = None
  /\ pc = [w \in Workers |-> "idle"]
  /\ req = [w \in Workers |-> None]
  /\ seen = [w \in Workers |-> <<>>]
  /\ canon = [w \in Workers |-> None]
  /\ call = [w \in Workers |-> 0]
  /\ result = [w \in Workers |-> NoResult]
  /\ reply = [w \in Workers |-> Retry]
  /\ calls = 1
  /\ answers = {} /\ asked = 0 /\ unrecorded = FALSE

-----------------------------------------------------------------------------
(* Steps of a worker.                                                      *)

Goto(w, label) == pc' = [pc EXCEPT ![w] = label]

\* Write this response next.
Answer(w, response) ==
  /\ Goto(w, "answer")
  /\ reply' = [reply EXCEPT ![w] = response]

\* Orka posts a delivery and the handler has decoded it.
Submit(w, r) ==
  /\ mode = "up" /\ pc[w] = "idle"
  /\ Goto(w, "inspect")
  /\ req' = [req EXCEPT ![w] = r]
  /\ seen' = [seen EXCEPT ![w] = <<>>]
  /\ UNCHANGED <<storeVars, procVars, canon, call, result, reply, chatVars,
                 histVars>>

\* One of the first three SELECTs of the inspection.
InspectRead(w) ==
  /\ pc[w] = "inspect" /\ Len(seen[w]) < 3
  /\ seen' = [seen EXCEPT
                ![w] = Append(@, Read(req[w], Len(seen[w]) + 1))]
  /\ UNCHANGED <<storeVars, procVars, pc, req, canon, call, result, reply,
                 chatVars, histVars>>

\* Fault: any record found is replayed outside the gate.
InspectDecideReplay(w) ==
  LET s == Append(seen[w], Read(req[w], 4))
  IN  /\ pc[w] = "inspect" /\ Len(seen[w]) = 3
      /\ seen' = [seen EXCEPT ![w] = <<>>]
      /\ \/ InspectConflict(s, req[w]) /\ Answer(w, Conflict)
            /\ UNCHANGED canon
         \/ /\ ~InspectConflict(s, req[w])
            /\ FirstFound(s).state # "absent"
            /\ Goto(w, "replay")
            /\ canon' = [canon EXCEPT ![w] = FirstFound(s).d]
            /\ UNCHANGED reply
         \/ /\ ~InspectConflict(s, req[w])
            /\ FirstFound(s).state = "absent"
            /\ Goto(w, "waiting")
            /\ UNCHANGED <<canon, reply>>
      /\ UNCHANGED <<storeVars, procVars, req, call, result, chatVars,
                     histVars>>

\* Fault: whole records are compared, not their delivery IDs.
InspectDecideWhole(w) ==
  LET s == Append(seen[w], Read(req[w], 4))
      differ == \E m, n \in 1..4 : /\ s[m].state # "absent"
                                   /\ s[n].state # "absent"
                                   /\ s[m] # s[n]
  IN  /\ pc[w] = "inspect" /\ Len(seen[w]) = 3
      /\ seen' = [seen EXCEPT ![w] = <<>>]
      /\ \/ differ /\ Answer(w, Conflict)
         \/ ~differ /\ Goto(w, "waiting") /\ UNCHANGED reply
      /\ UNCHANGED <<storeVars, procVars, req, canon, call, result, chatVars,
                     histVars>>

\* The fourth SELECT and what the handler makes of the inspection.
InspectDecide(w) ==
  LET s == Append(seen[w], Read(req[w], 4))
  IN  /\ pc[w] = "inspect" /\ Len(seen[w]) = 3
      /\ seen' = [seen EXCEPT ![w] = <<>>]
      /\ \/ InspectConflict(s, req[w]) /\ Answer(w, Conflict)
            /\ UNCHANGED canon
         \/ /\ ~InspectConflict(s, req[w])
            /\ FirstFound(s).state \in Final
            /\ Goto(w, "replay")
            /\ canon' = [canon EXCEPT ![w] = FirstFound(s).d]
            /\ UNCHANGED reply
         \/ /\ ~InspectConflict(s, req[w])
            /\ FirstFound(s).state \notin Final
            /\ Goto(w, "waiting")
            /\ UNCHANGED <<canon, reply>>
      /\ UNCHANGED <<storeVars, procVars, req, call, result, chatVars,
                     histVars>>

\* A read fails, a transaction is rolled back, or the request's context is
\* canceled under it.
StoreFails(w) ==
  /\ pc[w] \in {"inspect", "replay", "begin"}
  /\ Answer(w, Retry)
  /\ seen' = [seen EXCEPT ![w] = <<>>]
  /\ UNCHANGED <<storeVars, procVars, req, canon, call, result, chatVars,
                 histVars>>

\* The terminal record is canonicalized and replayed; shouldSend is ignored.
ReplayTerminal(w) ==
  /\ pc[w] = "replay"
  /\ \/ BeginConflict(req[w]) /\ Answer(w, Retry) /\ UNCHANGED storeVars
     \/ /\ ~BeginConflict(req[w])
        /\ BeginDelivery(req[w])
        /\ Answer(w, replayDelivery(deliveries'[Canonical(req[w])]))
  /\ UNCHANGED <<procVars, req, seen, canon, call, result, chatVars,
                 histVars>>

\* Fault: there is no gate.
AcquireNoGate(w) ==
  /\ pc[w] = "waiting"
  /\ gate' = w
  /\ Goto(w, "begin")
  /\ UNCHANGED <<storeVars, mode, schema, req, seen, canon, call, result,
                 reply, chatVars, histVars>>

AcquireGate(w) ==
  /\ pc[w] = "waiting" /\ gate = None
  /\ gate' = w
  /\ Goto(w, "begin")
  /\ UNCHANGED <<storeVars, mode, schema, req, seen, canon, call, result,
                 reply, chatVars, histVars>>

\* The request's context is done before the gate is free.
CancelWait(w) ==
  /\ pc[w] = "waiting"
  /\ Answer(w, Retry)
  /\ UNCHANGED <<storeVars, procVars, req, seen, canon, call, result,
                 chatVars, histVars>>

BeginInGate(w) ==
  /\ pc[w] = "begin"
  /\ \/ /\ BeginConflict(req[w])
        /\ Answer(w, Conflict)
        /\ UNCHANGED <<storeVars, canon>>
     \/ /\ ~BeginConflict(req[w]) /\ ~ShouldSend(req[w])
        /\ BeginDelivery(req[w])
        /\ Answer(w, replayDelivery(deliveries'[Canonical(req[w])]))
        /\ UNCHANGED canon
     \/ /\ ~BeginConflict(req[w]) /\ ShouldSend(req[w])
        /\ BeginDelivery(req[w])
        /\ Goto(w, "claimed")
        /\ canon' = [canon EXCEPT ![w] = Canonical(req[w])]
        /\ UNCHANGED reply
  /\ UNCHANGED <<procVars, req, seen, call, result, chatVars, histVars>>

\* The result of the send, for persistSendResult.
Outcome(w, r) ==
  /\ result' = [result EXCEPT ![w] = r]
  /\ Goto(w, "persist")

\* ParseReplyTarget, validDeliveryRoute or SendMessage's own checks refuse.
RefuseLocally(w) ==
  /\ pc[w] = "claimed" /\ req[w].c \notin Routable
  /\ Outcome(w, Result("permanent", 0, "routing", 0))
  /\ UNCHANGED <<storeVars, procVars, req, seen, canon, call, reply,
                 chatVars, histVars>>

\* The request to Telegram was never written, and will not be: retryable.
NotWritten(w) ==
  /\ pc[w] = "claimed" /\ req[w].c \in Routable
  /\ Outcome(w, Result("retryable", 0, "provider", 0))
  /\ UNCHANGED <<storeVars, procVars, req, seen, canon, call, reply,
                 chatVars, histVars>>

CallTelegram(w) ==
  /\ pc[w] = "claimed" /\ req[w].c \in Routable /\ calls < MaxCalls
  /\ calls' = calls + 1
  /\ wire' = [wire EXCEPT ![req[w].i] = @ \cup {calls + 1}]
  /\ call' = [call EXCEPT ![w] = calls + 1]
  /\ Goto(w, "await")
  /\ UNCHANGED <<storeVars, procVars, req, seen, canon, result, reply,
                 posted, histVars>>

\* A valid sendMessage result.
ReceiveMessage(w) ==
  /\ pc[w] = "await" /\ call[w] \in posted[req[w].i]
  /\ Outcome(w, Result("delivered", call[w], "", 0))
  /\ UNCHANGED <<storeVars, procVars, req, seen, canon, call, reply,
                 chatVars, histVars>>

\* An {"ok": false} envelope: Telegram did not and will not post the message.
ReceiveRefusal(w, state, wait) ==
  /\ pc[w] = "await" /\ call[w] \in wire[req[w].i]
  /\ state = "permanent" => wait = 0
  /\ wire' = [wire EXCEPT ![req[w].i] = @ \ {call[w]}]
  /\ Outcome(w, Result(state, 0, "provider", wait))
  /\ asked' = MaxOf(asked, wait)
  /\ UNCHANGED <<storeVars, procVars, req, seen, canon, call, reply, calls,
                 posted, answers, unrecorded>>

\* Fault: the state of an ambiguous outcome is left unset.
ReceiveNothingUnset(w) ==
  /\ pc[w] = "await"
  /\ Outcome(w, Result("absent", 0, "ambiguous", 0))
  /\ UNCHANGED <<storeVars, procVars, req, seen, canon, call, reply,
                 chatVars, histVars>>

\* Fault: an ambiguous outcome is retryable.
ReceiveNothingRetryable(w) ==
  /\ pc[w] = "await"
  /\ Outcome(w, Result("retryable", 0, "ambiguous", 0))
  /\ UNCHANGED <<storeVars, procVars, req, seen, canon, call, reply,
                 chatVars, histVars>>

\* A timeout, a cancellation, a broken connection or a response that is not
\* a valid envelope, whatever Telegram made of the call: ambiguous.
ReceiveNothing(w) ==
  /\ pc[w] = "await"
  /\ Outcome(w, Result("unknown", 0, "ambiguous", 0))
  /\ UNCHANGED <<storeVars, procVars, req, seen, canon, call, reply,
                 chatVars, histVars>>

\* persistSendResult, or MarkDeliveryPermanent for a routing mismatch.
Persist(w) ==
  LET digest  == Logical(req[w])
      refused == UpdateRefused(canon[w], digest, result[w])
  IN  /\ pc[w] = "persist"
      /\ IF refused THEN UNCHANGED storeVars
                    ELSE updateDelivery(canon[w], result[w])
      /\ Answer(w, IF refused THEN Retry
                              ELSE replayDelivery(deliveries'[canon[w]]))
      /\ unrecorded' = (unrecorded \/ (refused /\ result[w].wait > 0))
      /\ UNCHANGED <<procVars, req, seen, canon, call, result, chatVars,
                     answers, asked>>

\* Fault: Orka is told a result that was not recorded.
PersistFailsTold(w) ==
  /\ pc[w] = "persist"
  /\ Answer(w, replayDelivery(result[w]))
  /\ unrecorded' = (unrecorded \/ result[w].wait > 0)
  /\ UNCHANGED <<storeVars, procVars, req, seen, canon, call, result,
                 chatVars, answers, asked>>

\* The transaction fails; the claim stays in the table.
PersistFails(w) ==
  /\ pc[w] = "persist"
  /\ Answer(w, Retry)
  /\ unrecorded' = (unrecorded \/ result[w].wait > 0)
  /\ UNCHANGED <<storeVars, procVars, req, seen, canon, call, result,
                 chatVars, answers, asked>>

\* Fault: the gate is released only after a retryable response.
RespondKeepsGate(w) ==
  /\ pc[w] = "answer"
  /\ answers' = IF reply[w].status = "retryable" THEN answers
                ELSE answers \cup {[req |-> req[w], reply |-> reply[w]]}
  /\ gate' = IF gate = w /\ reply[w].status = "retryable" THEN None ELSE gate
  /\ Goto(w, "idle")
  /\ req' = [req EXCEPT ![w] = None]
  /\ canon' = [canon EXCEPT ![w] = None]
  /\ call' = [call EXCEPT ![w] = 0]
  /\ result' = [result EXCEPT ![w] = NoResult]
  /\ reply' = [reply EXCEPT ![w] = Retry]
  /\ UNCHANGED <<storeVars, mode, schema, seen, chatVars, asked, unrecorded>>

\* The response is written and the deferred release runs.
Respond(w) ==
  /\ pc[w] = "answer"
  /\ answers' = IF reply[w].status = "retryable" THEN answers
                ELSE answers \cup {[req |-> req[w], reply |-> reply[w]]}
  /\ gate' = IF gate = w THEN None ELSE gate
  /\ Goto(w, "idle")
  /\ req' = [req EXCEPT ![w] = None]
  /\ canon' = [canon EXCEPT ![w] = None]
  /\ call' = [call EXCEPT ![w] = 0]
  /\ result' = [result EXCEPT ![w] = NoResult]
  /\ reply' = [reply EXCEPT ![w] = Retry]
  /\ UNCHANGED <<storeVars, mode, schema, seen, chatVars, asked, unrecorded>>

-----------------------------------------------------------------------------
(* Telegram, time and the process.                                         *)

\* Telegram acts on a call, whether or not anybody still waits for it.
TelegramPosts(k, n) ==
  /\ n \in wire[k]
  /\ wire' = [wire EXCEPT ![k] = @ \ {n}]
  /\ posted' = [posted EXCEPT ![k] = @ \cup {n}]
  /\ UNCHANGED <<storeVars, procVars, workerVars, calls, histVars>>

\* A call nobody waits for any more is lost on its way, or refused.
TelegramDrops(k, n) ==
  /\ n \in wire[k]
  /\ \A w \in Workers : ~(pc[w] = "await" /\ req[w].i = k /\ call[w] = n)
  /\ wire' = [wire EXCEPT ![k] = @ \ {n}]
  /\ UNCHANGED <<storeVars, procVars, workerVars, calls, posted, histVars>>

Tick ==
  /\ StoreTick
  /\ asked' = IF asked > 0 THEN asked - 1 ELSE 0
  /\ unrecorded' = (unrecorded /\ asked > 1)
  /\ UNCHANGED <<procVars, workerVars, chatVars, answers>>

\* The process is killed, or stops: every execution is gone, the database
\* and what is on the wire are not.
Crash ==
  /\ mode # "down"
  /\ mode' = "down" /\ gate' = None
  /\ pc' = [w \in Workers |-> "idle"]
  /\ req' = [w \in Workers |-> None]
  /\ seen' = [w \in Workers |-> <<>>]
  /\ canon' = [w \in Workers |-> None]
  /\ call' = [w \in Workers |-> 0]
  /\ result' = [w \in Workers |-> NoResult]
  /\ reply' = [w \in Workers |-> Retry]
  /\ unrecorded' = (unrecorded \/ \E w \in Workers :
                       pc[w] = "persist" /\ result[w].wait > 0)
  /\ UNCHANGED <<storeVars, schema, chatVars, answers, asked>>

\* OpenContext, first half: one transaction brings the schema up to date and
\* aliases every version 1 row to itself.
Migrate ==
  /\ mode = "down"
  /\ mode' = "migrated" /\ schema' = 3
  /\ aliases' = IF schema = 3 THEN aliases
                ELSE [k \in IDs |-> IF Exists(k) THEN k ELSE None]
  /\ UNCHANGED <<deliveries, idempotency, cooldown, gate, workerVars,
                 chatVars, histVars>>

\* OpenContext, second half.
Recover ==
  /\ mode = "migrated"
  /\ recoverInterruptedDeliveries
  /\ mode' = "starting"
  /\ UNCHANGED <<schema, gate, workerVars, chatVars, histVars>>

\* GetMe and SetWebhook succeed and the server listens.
Serve ==
  /\ mode = "starting"
  /\ mode' = "up"
  /\ UNCHANGED <<storeVars, schema, gate, workerVars, chatVars, histVars>>

-----------------------------------------------------------------------------
WorkerStep(w) ==
  \/ InspectRead(w) \/ InspectDecide(w) \/ StoreFails(w)
  \/ ReplayTerminal(w)
  \/ AcquireGate(w) \/ CancelWait(w) \/ BeginInGate(w)
  \/ RefuseLocally(w) \/ NotWritten(w) \/ CallTelegram(w)
  \/ ReceiveMessage(w) \/ ReceiveNothing(w)
  \/ \E state \in {"retryable", "permanent"}, wait \in 0..MaxRetryAfter :
       ReceiveRefusal(w, state, wait)
  \/ Persist(w) \/ PersistFails(w) \/ Respond(w)

Environment ==
  \/ \E w \in Workers, r \in Requests : Submit(w, r)
  \/ \E k \in IDs : \E n \in wire[k] : TelegramPosts(k, n)
                                       \/ TelegramDrops(k, n)
  \/ Tick \/ Crash \/ Migrate \/ Recover \/ Serve

Next == Environment \/ \E w \in Workers : WorkerStep(w)

Spec == Init /\ [][Next]_vars

\* What the scheduling of the code guarantees.  A handler that can go on goes
\* on: transactions, route checks and the HTTP client (it has a timeout) end.
\* Goroutines blocked on a channel are served first come, first served.
\* Orka keeps retrying.  The process is restarted, and does not crash in the
\* same place for ever.  From some time on the store works: what looks like a
\* failure is a retryable response of a transaction that changed nothing.
Progress(w) ==
  \/ InspectRead(w) \/ InspectDecide(w) \/ ReplayTerminal(w)
  \/ BeginInGate(w)
  \/ RefuseLocally(w) \/ NotWritten(w) \/ CallTelegram(w)
  \/ ReceiveMessage(w) \/ ReceiveNothing(w)
  \/ Persist(w) \/ PersistFails(w) \/ Respond(w)

Fairness ==
  /\ \A w \in Workers : WF_vars(Progress(w)) /\ SF_vars(AcquireGate(w))
  /\ WF_vars(\E w \in Workers, r \in Requests : Submit(w, r))
  /\ WF_vars(Tick) /\ WF_vars(Migrate) /\ SF_vars(Recover) /\ WF_vars(Serve)
  /\ <>[][\A w \in Workers :
             StoreFails(w) => ReplayTerminal(w) \/ BeginInGate(w)]_vars

FairSpec == Spec /\ Fairness

-----------------------------------------------------------------------------
(* What outbound delivery promises.                                        *)

Labels == {"idle", "inspect", "replay", "waiting", "begin", "claimed",
           "await", "persist", "answer"}

ProcTypeOK ==
  /\ mode \in {"down", "migrated", "starting", "up"}
  /\ schema \in {1, 3}
  /\ gate \in Workers \cup {None}

WorkerTypeOK ==
  /\ pc \in [Workers -> Labels]
  /\ req \in [Workers -> Requests \cup {None}]
  /\ seen \in [Workers -> Seq(Records)]
  /\ canon \in [Workers -> IDs \cup {None}]
  /\ call \in [Workers -> Nat]
  /\ result \in [Workers -> Results]
  /\ reply \in [Workers -> Replies]

ChatTypeOK ==
  /\ calls \in Nat
  /\ wire \in [IDs -> SUBSET Nat]
  /\ posted \in [IDs -> SUBSET Nat]

HistTypeOK ==
  /\ answers \in SUBSET [req : Requests, reply : Replies]
  /\ asked \in 0..MaxRetryAfter
  /\ unrecorded \in BOOLEAN

\* Every variable of the handlers, the store, the process and Telegram has
\* its type.
TypeOK ==
  StoreTypeOK /\ ProcTypeOK /\ WorkerTypeOK /\ ChatTypeOK /\ HistTypeOK

\* The calls made for logical delivery k that are, or may yet become, a
\* message in the chat.
Effects(k) == posted[k] \cup wire[k]

\* However often Orka retries, under whatever delivery IDs, and whatever
\* crashes, times out or fails to be recorded in between: at most one
\* message per logical delivery (handleDelivery, BeginDelivery).
AtMostOnce == \A k \in IDs : \A m, n \in Effects(k) : m = n

\* A response is true for good: "delivered" names the one message in the
\* chat, and a definitive refusal means there is none and there will be
\* none (replayDelivery, persistSendResult).
TruthfulAnswers ==
  \A a \in answers :
    /\ a.reply.status = "delivered" => posted[a.req.i] = {a.reply.msg}
    /\ a.reply.message \in {"provider", "routing"} => Effects(a.req.i) = {}

\* Final responses never change their mind: repeating a request repeats the
\* response, and another delivery ID of the same logical delivery gets the
\* same one unless its identity is taken (the terminal replay).
AnswersAgree ==
  \A a, b \in answers :
    /\ Logical(a.req) = Logical(b.req)
    /\ a.req = b.req \/ Conflict \notin {a.reply, b.reply}
    => a.reply = b.reply

\* Nobody touches the claim of the worker that is sending: when it comes to
\* record its result, the record is there, is still sending, and carries
\* its digest (updateDelivery never answers ErrInvalidTransition).
PersistAccepted ==
  \A w \in Workers :
    pc[w] = "persist" =>
      ~UpdateRefused(canon[w], Logical(req[w]), result[w])

\* Two records never share a logical delivery, so the UNIQUE constraint on
\* idempotency_id never fires.
OneRecordPerDelivery ==
  \A d, e \in IDs :
    Exists(d) /\ Exists(e) /\ getDelivery(d).i = getDelivery(e).i => d = e

\* An alias names a record that exists, and never hides another record
\* whose primary ID it is (ensureDeliveryAlias).
AliasesSound ==
  \A x \in IDs :
    aliases[x] # None => Exists(aliases[x]) /\ (Exists(x) => aliases[x] = x)

\* A record never makes Orka wait longer than the bot-wide cooldown does.
CooldownCoversRecords == \A d \in IDs : deliveries[d].wait <= cooldown

\* A terminal record is immutable.
FinalRecordsStay ==
  [][\A d \in IDs : deliveries[d].state \in Final =>
                        deliveries'[d] = deliveries[d]]_vars

\* The replay outside the gate canonicalizes aliases and legacy metadata but
\* never claims or changes a delivery, although it acts on an inspection
\* that was not part of its transaction.
ReplayNeverClaims ==
  [][\A w \in Workers : pc[w] = "replay" /\ pc'[w] = "answer" =>
                            deliveries' = deliveries]_vars

\* A conflict found by four SELECTs outside any transaction is a conflict
\* also for a transaction at that moment.
InspectedConflictsAreReal ==
  [][\A w \in Workers :
       pc[w] = "inspect" /\ pc'[w] = "answer" /\ reply'[w] = Conflict =>
         BeginConflict(req[w])]_vars

\* No sendMessage call before the longest retry_after Telegram has asked for
\* has passed, unless recording it failed (the provider gate).
CooldownRespected ==
  [][\A w \in Workers :
       pc[w] = "claimed" /\ pc'[w] = "await" => asked = 0 \/ unrecorded]_vars

\* The same whatever happens, as the comment at store.go:217 says: Orka
\* retries cannot contact Telegram before retry_after has elapsed.
CooldownExact ==
  [][\A w \in Workers :
       pc[w] = "claimed" /\ pc'[w] = "await" => asked = 0]_vars

\* A request that waits for the gate gets it, is canceled, or dies with the
\* process: no holder keeps the gate (the deferred release of providerGate).
GateIsServed ==
  \A w \in Workers : (pc[w] = "waiting") ~> (pc[w] # "waiting")

\* No delivery stays "in progress" for ever: its holder records a result, or
\* a retry finds the lease expired, or a restart finds the claim (the lease
\* of createOrBeginDelivery, recoverInterruptedDeliveries).
ClaimsEnd ==
  \A d \in IDs :
    (deliveries[d].state = "sending") ~> (deliveries[d].state # "sending")

-----------------------------------------------------------------------------
(* Outbound delivery implements AtMostOnceDelivery.                        *)

\* A final response, but for its wording.
Meaning(response) ==
  IF response.status = "delivered"
  THEN [kind |-> "delivered", msg |-> response.msg]
  ELSE [kind |-> IF response.message \in {"provider", "routing"}
                 THEN "refused" ELSE "unknown", msg |-> 0]

\* The records that decide logical delivery k.
Decided(k) ==
  {d \in IDs : deliveries[d].state \in Final /\ getDelivery(d).i = k}

Abstract ==
  INSTANCE AtMostOnceDelivery WITH
    Keys    <- IDs,
    Tries   <- 1..MaxCalls,
    flying  <- wire,
    posted  <- posted,
    verdict <- [k \in IDs |->
                  {Meaning(replayDelivery(deliveries[d])) : d \in Decided(k)}],
    told    <- {[key |-> a.req.i, verdict |-> Meaning(a.reply)] :
                  a \in {b \in answers : b.reply # Conflict}}

\* Through retries, aliases, unlocked inspections, lost writes, upgrades and
\* crashes, handlers, store and Telegram together look to Orka like a machine
\* that tries, decides once, and tells what it decided.
DeliversAtMostOnce == Abstract!Spec

=============================================================================
