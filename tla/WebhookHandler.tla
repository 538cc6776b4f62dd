---------------------------- MODULE WebhookHandler ----------------------------
(***************************************************************************)
(* Inbound updates: concurrent executions of handleTelegramWebhook         *)
(* (internal/adapter/server.go) over the store of UpdateStore and the chat *)
(* locks; Telegram's webhook queue and Orka's event ingress (external);    *)
(* the process that crashes and starts again.                              *)
(*                                                                         *)
(* A worker is one execution of the handler.  Its pc:                      *)
(*   idle      no request                                                  *)
(*   locking   the update is mapped to an event; waits for the chat's lock *)
(*   create    CreateUpdate, holding the lock                              *)
(*   admit     the row exists without a response; posts the event next     *)
(*   ingress   the event is on its way to Orka or Orka's answer back       *)
(*   save      Orka answered 202; SaveUpdateResponse                       *)
(*   answer    writes the status code; the deferred unlock                 *)
(*                                                                         *)
(* The webhook is registered with max_connections 1 (client.go:31): while  *)
(* Telegram waits for an answer it sends nothing else.  It stops waiting   *)
(* when it likes, and offers the update again until it is answered 200.    *)
(***************************************************************************)
EXTENDS UpdateStore, Sequences

CONSTANTS
  Workers,    \* executions of handleTelegramWebhook
  NumLocks,   \* len(chatLocks)
  Stream,     \* the updates Telegram has for the bot, in order
  Direct,     \* updates others who hold the secret post, at any time
  Ignored,    \* texts of updates MapUpdate does not support
  Refused,    \* texts of updates MapUpdate finds invalid
  First,      \* Orka's acknowledgement of a new event
  Again       \* and of an event it has already

ASSUME WebhookWorkers == None \notin Workers
ASSUME LocksAssumption == NumLocks \in Nat \ {0}
ASSUME StreamAssumption ==
  /\ Stream \in Seq(Update)
  /\ \A m, n \in 1..Len(Stream) : Stream[m].id = Stream[n].id => m = n
ASSUME DirectAssumption == Direct \subseteq Update
ASSUME AckAssumption == First \in Bodies /\ Again \in Bodies

VARIABLES
  running,   \* the process serves
  lock,      \* of each worker, the index of the chat lock it holds, or None
  pc, upd,   \* of each worker, and its update
  body,      \* Orka's acknowledgement, as received
  code,      \* the status code to write
  head,      \* the position in Stream of the update Telegram offers next
  open,      \* the worker Telegram waits for, or None
  inbox,     \* of each worker, Orka's acknowledgement on its way back
  stray,     \* events posted to Orka that nobody waits for any more
  log        \* the events Orka has, in order of first arrival

handlerVars  == <<lock, pc, upd, body, code>>
telegramVars == <<head, open>>
orkaVars     == <<inbox, stray, log>>
vars == <<updates, running, handlerVars, telegramVars, orkaVars>>

Init ==
  /\ updates = [k \in UpdateIds |-> NoUpdate]
  /\ running = TRUE
  /\ lock = [w \in Workers |-> None]
  /\ pc = [w \in Workers |-> "idle"]
  /\ upd = [w \in Workers |-> None]
  /\ body = [w \in Workers |-> None]
  /\ code = [w \in Workers |-> 0]
  /\ head = 1 /\ open = None
  /\ inbox = [w \in Workers |-> None]
  /\ stray = {} /\ log = <<>>

-----------------------------------------------------------------------------
(* Steps of a worker.                                                      *)

\* Go's % truncates: the remainder has the sign of the chat ID.
Remainder(c, n) == IF c >= 0 THEN c % n ELSE -((-c) % n)

\* Fault: the remainder is the index.
LockIndexSigned(c) == Remainder(c, NumLocks)

LockIndex(c) ==
  LET r == Remainder(c, NumLocks) IN IF r < 0 THEN r + NumLocks ELSE r

Answer(w, status) ==
  /\ pc' = [pc EXCEPT ![w] = "answer"]
  /\ code' = [code EXCEPT ![w] = status]

\* nil (an event), ErrUnsupportedUpdate or ErrInvalidUpdate.
MapUpdate(u) == IF u.text \in Ignored THEN "unsupported"
                ELSE IF u.text \in Refused THEN "invalid" ELSE "event"

\* A POST is authenticated, decoded and mapped to an event.
Arrive(w, u) ==
  /\ running /\ pc[w] = "idle"
  /\ upd' = [upd EXCEPT ![w] = u]
  /\ \/ MapUpdate(u) = "unsupported" /\ Answer(w, 200)
     \/ MapUpdate(u) = "invalid" /\ Answer(w, 400)
     \/ /\ MapUpdate(u) = "event"
        /\ pc' = [pc EXCEPT ![w] = "locking"] /\ code' = code
  /\ UNCHANGED <<updates, running, lock, body, head, orkaVars>>

\* Telegram offers the head of its queue.
Deliver(w) ==
  /\ open = None /\ head <= Len(Stream)
  /\ Arrive(w, Stream[head])
  /\ open' = w

\* Somebody else posts an update.
Post(w, u) == Arrive(w, u) /\ open' = open

\* Fault: there are no chat locks.
LockNone(w) ==
  /\ pc[w] = "locking"
  /\ pc' = [pc EXCEPT ![w] = "create"]
  /\ UNCHANGED <<updates, running, lock, upd, body, code, telegramVars,
                 orkaVars>>

Lock(w) ==
  LET index == LockIndex(upd[w].chat)
  IN  /\ pc[w] = "locking"
      /\ \A v \in Workers : lock[v] # index
      /\ lock' = [lock EXCEPT ![w] = index]
      /\ pc' = [pc EXCEPT ![w] = "create"]
      /\ UNCHANGED <<updates, running, upd, body, code, telegramVars,
                     orkaVars>>

\* CreateUpdate and what the handler makes of the record.
Create(w) ==
  /\ pc[w] = "create"
  /\ \/ DigestConflict(upd[w]) /\ Answer(w, 409) /\ UNCHANGED updates
     \/ /\ ~DigestConflict(upd[w]) /\ HasOrkaResponse(upd[w])
        /\ CreateUpdate(upd[w])
        /\ Answer(w, 200)
     \/ /\ ~DigestConflict(upd[w]) /\ ~HasOrkaResponse(upd[w])
        /\ CreateUpdate(upd[w])
        /\ pc' = [pc EXCEPT ![w] = "admit"] /\ code' = code
  /\ UNCHANGED <<running, lock, upd, body, telegramVars, orkaVars>>

\* A transaction fails or is canceled.
StoreFails(w) ==
  /\ pc[w] \in {"create", "save"}
  /\ Answer(w, 503)
  /\ UNCHANGED <<updates, running, lock, upd, body, telegramVars, orkaVars>>

\* admitEvent: the event goes to Orka.
PostEvent(w) ==
  /\ pc[w] = "admit"
  /\ pc' = [pc EXCEPT ![w] = "ingress"]
  /\ UNCHANGED <<updates, running, lock, upd, body, code, telegramVars,
                 orkaVars>>

\* The events of workers ws that Orka has not answered go on without them.
Strays(ws) == {upd[w] : w \in {v \in ws : pc[v] = "ingress" /\ inbox[v] = None}}

\* Fault: whatever Orka made of the event, Telegram is told that it is done.
AdmitFailsTold(w) ==
  /\ pc[w] \in {"admit", "ingress"}
  /\ Answer(w, 200)
  /\ stray' = stray \cup Strays({w})
  /\ inbox' = [inbox EXCEPT ![w] = None]
  /\ UNCHANGED <<updates, running, lock, upd, body, telegramVars, log>>

\* Orka cannot be reached, does not answer in time, refuses, or answers with
\* something that is no acknowledgement; or the request is canceled.
AdmitFails(w) ==
  /\ pc[w] \in {"admit", "ingress"}
  /\ Answer(w, 503)
  /\ stray' = stray \cup Strays({w})
  /\ inbox' = [inbox EXCEPT ![w] = None]
  /\ UNCHANGED <<updates, running, lock, upd, body, telegramVars, log>>

ReceiveAck(w) ==
  /\ pc[w] = "ingress" /\ inbox[w] # None
  /\ body' = [body EXCEPT ![w] = inbox[w]]
  /\ inbox' = [inbox EXCEPT ![w] = None]
  /\ pc' = [pc EXCEPT ![w] = "save"]
  /\ UNCHANGED <<updates, running, lock, upd, code, telegramVars, stray, log>>

\* Another response that is there already will do.
Save(w) ==
  LET u == upd[w]
  IN  /\ pc[w] = "save"
      /\ IF SaveRefused(u, body[w])
         THEN /\ updates' = updates
              /\ Answer(w, IF Known(u) /\ ~DigestConflict(u) THEN 200 ELSE 503)
         ELSE SaveUpdateResponse(u, body[w]) /\ Answer(w, 200)
      /\ UNCHANGED <<running, lock, upd, body, telegramVars, orkaVars>>

\* What is left of worker w when it is done.
Leave(w) ==
  /\ pc' = [pc EXCEPT ![w] = "idle"]
  /\ upd' = [upd EXCEPT ![w] = None]
  /\ body' = [body EXCEPT ![w] = None]
  /\ code' = [code EXCEPT ![w] = 0]
  /\ open' = IF open = w THEN None ELSE open
  /\ head' = IF open = w /\ code[w] = 200 THEN head + 1 ELSE head

\* Fault: the lock is released only on success.
RespondKeepsLock(w) ==
  /\ pc[w] = "answer"
  /\ Leave(w)
  /\ lock' = IF code[w] = 503 THEN lock ELSE [lock EXCEPT ![w] = None]
  /\ UNCHANGED <<updates, running, orkaVars>>

\* The response is written, which Telegram sees if it still waits, and the
\* deferred unlock runs.
Respond(w) ==
  /\ pc[w] = "answer"
  /\ Leave(w)
  /\ lock' = [lock EXCEPT ![w] = None]
  /\ UNCHANGED <<updates, running, orkaVars>>

-----------------------------------------------------------------------------
(* Telegram, Orka and the process.                                         *)

\* Telegram's wait times out, or the connection breaks.
Abandon ==
  /\ open # None /\ open' = None
  /\ UNCHANGED <<updates, running, handlerVars, head, orkaVars>>

\* Orka tells events apart by externalEventId, made of the update ID.
Has(u) == \E n \in DOMAIN log : log[n].id = u.id

Take(u) == log' = IF Has(u) THEN log ELSE Append(log, u)

OrkaTakes(w) ==
  /\ pc[w] = "ingress" /\ inbox[w] = None
  /\ Take(upd[w])
  /\ inbox' = [inbox EXCEPT ![w] = IF Has(upd[w]) THEN Again ELSE First]
  /\ UNCHANGED <<updates, running, handlerVars, telegramVars, stray>>

OrkaTakesStray(u) ==
  /\ u \in stray
  /\ stray' = stray \ {u}
  /\ log' \in {log, IF Has(u) THEN log ELSE Append(log, u)}
  /\ UNCHANGED <<updates, running, handlerVars, telegramVars, inbox>>

Crash ==
  /\ running /\ running' = FALSE
  /\ lock' = [w \in Workers |-> None]
  /\ pc' = [w \in Workers |-> "idle"]
  /\ upd' = [w \in Workers |-> None]
  /\ body' = [w \in Workers |-> None]
  /\ code' = [w \in Workers |-> 0]
  /\ open' = None
  /\ inbox' = [w \in Workers |-> None]
  /\ stray' = stray \cup Strays(Workers)
  /\ UNCHANGED <<updates, head, log>>

\* The webhook is registered again, DROP_PENDING_UPDATES unset.
Restart ==
  /\ ~running /\ running' = TRUE
  /\ UNCHANGED <<updates, handlerVars, telegramVars, orkaVars>>

-----------------------------------------------------------------------------
Progress(w) ==
  Create(w) \/ PostEvent(w) \/ ReceiveAck(w) \/ Save(w) \/ Respond(w)

Next ==
  \/ \E w \in Workers :
       \/ Deliver(w) \/ \E u \in Direct : Post(w, u)
       \/ Lock(w) \/ Progress(w) \/ StoreFails(w) \/ AdmitFails(w)
       \/ OrkaTakes(w)
  \/ \E u \in stray : OrkaTakesStray(u)
  \/ Abandon \/ Crash \/ Restart

Spec == Init /\ [][Next]_vars

\* A handler that can go on goes on; sync.Mutex starves nobody; Telegram
\* offers again what was not answered 200; the process is restarted.  From
\* some time on the store works, Orka answers in time, and Telegram waits.
Fairness ==
  /\ \A w \in Workers :
       WF_vars(Progress(w)) /\ SF_vars(Lock(w)) /\ WF_vars(OrkaTakes(w))
  /\ WF_vars(\E w \in Workers : Deliver(w))
  /\ WF_vars(Restart)
  /\ <>[][~(\/ Abandon \/ Crash
            \/ \E w \in Workers : StoreFails(w) \/ AdmitFails(w))]_vars

FairSpec == Spec /\ Fairness

-----------------------------------------------------------------------------
(* What the webhook promises.                                              *)

Labels == {"idle", "locking", "create", "admit", "ingress", "save", "answer"}

\* Every variable has its type; in particular the index of a chat lock is an
\* index of chatLocks, or the handler would panic.
TypeOK ==
  /\ updates \in [UpdateIds -> UpdateRows]
  /\ running \in BOOLEAN
  /\ lock \in [Workers -> 0..(NumLocks - 1) \cup {None}]
  /\ pc \in [Workers -> Labels]
  /\ upd \in [Workers -> Update \cup {None}]
  /\ body \in [Workers -> Bodies \cup {None}]
  /\ code \in [Workers -> {0, 200, 400, 409, 503}]
  /\ head \in 1..(Len(Stream) + 1)
  /\ open \in Workers \cup {None}
  /\ inbox \in [Workers -> Bodies \cup {None}]
  /\ stray \in SUBSET Update
  /\ log \in Seq(Update)

Admitted(u) == \E n \in DOMAIN log : log[n] = u

\* The events that are at Orka or may still get there.
Reached == {log[n] : n \in DOMAIN log} \cup stray
           \cup {upd[w] : w \in {v \in Workers : pc[v] = "ingress"}}

\* An update ID stands for one update for ever, whatever is posted under it
\* and whoever crashes: two events at Orka, or on their way, under one
\* externalEventId are the same (the digest check of CreateUpdate).
OneEventPerId == \A u, v \in Reached : u.id = v.id => u = v

\* Telegram forgets a supported update only when Orka has it
\* (handleTelegramWebhook answers 200 after Orka's 202 alone).
ForgottenMeansAdmitted ==
  \A n \in 1..(head - 1) :
    Stream[n].text \notin Ignored => Admitted(Stream[n])

\* The worker that comes to save Orka's acknowledgement finds its own row
\* without one, so that ErrInvalidTransition is never answered (chat locks).
SaveIsFirst ==
  \A w \in Workers :
    pc[w] = "save" =>
      updates[upd[w].id].digest = upd[w] /\ ~HasOrkaResponse(upd[w])

\* No event goes to Orka whose acknowledgement is stored, although the row
\* was read in an earlier transaction (chat locks).
NeverAdmittedAgain ==
  [][\A w \in Workers :
       pc[w] = "admit" /\ pc'[w] = "ingress" => ~HasOrkaResponse(upd[w])]_vars

Abstract == INSTANCE Admission WITH head <- head, log <- log

\* With nobody but Telegram posting, concurrency, retries and crashes do not
\* show: Orka gets every supported update once, in Telegram's order.
AdmittedInOrder == Abstract!Spec

\* No update that is not invalid blocks the ones behind it for ever.
QueueMoves ==
  \A n \in 1..Len(Stream) :
    Stream[n].text \notin Refused => ((head = n) ~> (head > n))

=============================================================================
