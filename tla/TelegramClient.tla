---------------------------- MODULE TelegramClient ----------------------------
(***************************************************************************)
(* One sendMessage call: Client.SendMessage and Client.do                  *)
(* (internal/telegram/client.go), up to the state and cooldown that        *)
(* persistSendResult (internal/adapter/server.go) asks the store for.      *)
(*                                                                         *)
(* Three parties run at once.  The caller (at) checks, waits in            *)
(* httpClient.Do, reads the body and classifies what came of it.  The      *)
(* transport's writer, a goroutine of net/http, puts the request on the    *)
(* wire and runs the trace hook WroteRequest.  Telegram, and               *)
(* intermediaries on the way, answer when they like.                       *)
(*                                                                         *)
(* net/http is external.  The default transport, which main.go leaves in   *)
(* place, speaks HTTP/2 with an https server that offers it and HTTP/1.1   *)
(* with the others, and they differ in what the caller relies on.  Over    *)
(* HTTP/1.1 Do returns no error before the writer has stopped, and the     *)
(* hook runs before the last byte leaves or after.  Over HTTP/2 the hook   *)
(* is the last thing the writer does, and a call that is over returns at   *)
(* once, while the writer goes on.                                         *)
(*                                                                         *)
(* An envelope [kind |-> "refusal", ...] is {"ok": false}; "broken" stands *)
(* for a body that is cut, too long, not JSON, followed by more, or silent *)
(* about ok; "unusable" for {"ok": true} with a result that is missing,    *)
(* malformed or names another chat or thread.                              *)
(***************************************************************************)
EXTENDS Integers

CONSTANTS
  Protocols,    \* what servers and transport may agree on
  Statuses,     \* HTTP status codes of refusals
  Codes,        \* their error_code; 0: none
  RetryAfters,  \* their parameters.retry_after, in seconds; 0: none
  Second,       \* time.Second
  Modulus       \* 2^w for a time.Duration of w bits

ASSUME ProtocolsAssumption == Protocols \subseteq {"HTTP/1.1", "HTTP/2"}
ASSUME CodesAssumption   == Statuses \subseteq Nat /\ Codes \subseteq Nat
ASSUME AfterAssumption   == RetryAfters \subseteq Int
ASSUME SecondAssumption  == Second \in Nat \ {0}
ASSUME ModulusAssumption == Modulus \in Nat \ {0, 1}

VARIABLES
  valid,   \* the reply target and the text pass SendMessage's checks
  proto,   \* the protocol of the connection
  left,    \* history: Do has failed, no hook, and the writer went on
  at,      \* of the caller: check, dial, wait, body, persist, done
  writer,  \* of the transport: none, writing, stopped
  wrote,   \* wroteRequest: the trace hook has run
  over,    \* the context or the client's timeout has ended the call
  remote,  \* the request, for Telegram: unsent, pending, posted, refused
  back,    \* the answer on its way back, or Nothing
  result,  \* SendResult
  mark     \* the state and retry time to record

callVars == <<valid, proto, left>>
clientVars == <<callVars, at, wrote, result, mark>>
vars == <<clientVars, writer, over, remote, back>>

Refusals == [kind : {"refusal"}, status : Statuses, code : Codes,
             after : RetryAfters]
Plain(kind) == [kind |-> kind, status |-> 200, code |-> 0, after |-> 0]
Nothing == Plain("nothing")
Answers == Refusals \cup {Plain("message"), Plain("broken"), Plain("unusable")}

Classes == {"delivered", "retryable", "non-retryable", "ambiguous"}
Send(class, after) == [class |-> class, after |-> after]
NoSend == Send("none", 0)

-----------------------------------------------------------------------------
(* Classification.                                                         *)

\* Two's complement.
Wrap(n) == IF n % Modulus >= Modulus \div 2 THEN (n % Modulus) - Modulus
           ELSE n % Modulus

\* Fault: retry_after is taken for a duration.
retryAfterUnscaled(after) == IF after <= 0 THEN 0 ELSE after

retryAfterDuration(after) == IF after <= 0 THEN 0 ELSE Wrap(after * Second)

Transient == {408, 409, 420, 425, 429} \cup 500..599

ClassifyTelegramFailure(status, error) ==
  LET code == IF error = 0 THEN status ELSE error
  IN  IF code \in Transient THEN "retryable"
      ELSE IF code \in 400..499 \/ status \in 300..499 THEN "non-retryable"
      ELSE IF status \in 500..599 THEN "retryable"
      ELSE "ambiguous"

\* Fault: a call whose context is over is taken for one that was not sent.
transportErrorCanceled ==
  Send(IF wrote /\ ~over THEN "ambiguous" ELSE "retryable", 0)

transportError == Send(IF wrote THEN "ambiguous" ELSE "retryable", 0)

\* What do and SendMessage make of an answer.
Reading(answer) ==
  CASE answer.kind = "message" -> Send("delivered", 0)
    [] answer.kind = "refusal" ->
         Send(ClassifyTelegramFailure(answer.status, answer.code),
              retryAfterDuration(answer.after))
    [] OTHER -> Send("ambiguous", 0)

\* persistSendResult; retry_after counts for retryable results only.
Marked(send) ==
  [state |-> CASE send.class = "delivered" -> "delivered"
               [] send.class = "retryable" -> "retryable"
               [] send.class = "non-retryable" -> "permanent"
               [] OTHER -> "unknown",
   wait |-> IF send.class = "retryable" /\ send.after > 0
            THEN send.after ELSE 0]

-----------------------------------------------------------------------------
Init ==
  /\ valid \in BOOLEAN /\ proto = "none" /\ left = FALSE
  /\ at = "check" /\ writer = "none" /\ wrote = FALSE /\ over = FALSE
  /\ remote = "unsent" /\ back = Nothing
  /\ result = NoSend /\ mark = Marked(NoSend)

\* SendMessage returns.
Return(send) == at' = "persist" /\ result' = send

\* The checks of SendMessage.
Check ==
  /\ at = "check"
  /\ IF valid THEN at' = "dial" /\ UNCHANGED result
              ELSE Return(Send("non-retryable", 0))
  /\ UNCHANGED <<callVars, wrote, mark, writer, over, remote, back>>

\* A connection, new or pooled; the writer starts.
Dial ==
  /\ at = "dial" /\ ~over
  /\ at' = "wait" /\ writer' = "writing" /\ proto' \in Protocols
  /\ UNCHANGED <<valid, left, wrote, result, mark, over, remote, back>>

\* The trace hook, which sees failed attempts to write too; over HTTP/2 it
\* runs when all is written, or the stream was aborted, and the writer is done.
WroteRequest ==
  /\ writer = "writing"
  /\ wrote' = TRUE
  /\ writer' = IF proto = "HTTP/2" THEN "stopped" ELSE writer
  /\ UNCHANGED <<callVars, at, result, mark, over, remote, back>>

\* The last byte leaves.
Flush ==
  /\ writer = "writing" /\ remote = "unsent"
  /\ remote' = "pending"
  /\ UNCHANGED <<clientVars, writer, over, back>>

\* The writer stops: all is written and the hook has run, or writing failed.
WriterStops ==
  /\ writer = "writing" /\ (remote = "unsent" \/ wrote)
  /\ writer' = "stopped"
  /\ UNCHANGED <<clientVars, over, remote, back>>

\* An HTTP/2 server turns the stream away (REFUSED_STREAM, GOAWAY).
TurnAway ==
  /\ at = "wait" /\ proto = "HTTP/2" /\ remote = "pending"
  /\ remote' = "unsent" /\ writer' = "stopped"
  /\ UNCHANGED <<clientVars, over, back>>

\* The pooled connection was closed before a byte was written, or the stream
\* was turned away: dial again.
Redial ==
  /\ at = "wait" /\ writer = "stopped" /\ remote = "unsent" /\ back = Nothing
  /\ at' = "dial" /\ writer' = "none"
  /\ UNCHANGED <<callVars, wrote, result, mark, over, remote, back>>

\* Fault: the timeout is one of connecting only.
ExpireDialing ==
  /\ at = "dial" /\ ~over
  /\ over' = TRUE
  /\ UNCHANGED <<clientVars, writer, remote, back>>

\* The request context is done, or the client's timeout has run out.
Expire ==
  /\ at \in {"dial", "wait", "body"} /\ ~over
  /\ over' = TRUE
  /\ UNCHANGED <<clientVars, writer, remote, back>>

\* Do returns an error: no connection, a broken one, or the call is over.
TransportFails ==
  /\ at \in {"dial", "wait"}
  /\ writer # "writing" \/ (proto = "HTTP/2" /\ over)
  /\ Return(transportError)
  /\ left' = (writer = "writing" /\ ~wrote)
  /\ UNCHANGED <<valid, proto, wrote, mark, writer, over, remote, back>>

\* Do returns a response.
ReceiveHeader ==
  /\ at = "wait" /\ back # Nothing
  /\ at' = "body"
  /\ UNCHANGED <<callVars, wrote, result, mark, writer, over, remote, back>>

\* The body is read and decoded; a failure to read it makes it a broken one.
ReadBody ==
  /\ at = "body"
  /\ Return(Reading(back)) \/ Return(Reading(Plain("broken")))
  /\ UNCHANGED <<callVars, wrote, mark, writer, over, remote, back>>

Persist ==
  /\ at = "persist"
  /\ at' = "done" /\ mark' = Marked(result)
  /\ UNCHANGED <<callVars, wrote, result, writer, over, remote, back>>

\* Telegram acts on the request, whoever still waits.
TelegramPosts ==
  /\ remote = "pending"
  /\ remote' = "posted"
  /\ \/ back = Nothing /\ back' = Plain("message")
     \/ UNCHANGED back
  /\ UNCHANGED <<clientVars, writer, over>>

TelegramRefuses ==
  /\ remote = "pending"
  /\ remote' = "refused"
  /\ \/ back = Nothing /\ \E refusal \in Refusals : back' = refusal
     \/ UNCHANGED back
  /\ UNCHANGED <<clientVars, writer, over>>

\* Telegram's answer is replaced on its way, or an intermediary answers in
\* its place, whatever becomes of the request.
Interfere ==
  /\ at = "wait" /\ writer # "none"
  /\ back' \in {Plain("broken"), Plain("unusable")}
  /\ UNCHANGED <<clientVars, writer, over, remote>>

Caller == Check \/ Dial \/ TransportFails \/ ReceiveHeader \/ ReadBody
          \/ Persist

Next ==
  \/ Caller
  \/ WroteRequest \/ Flush \/ WriterStops \/ TurnAway \/ Redial
  \/ Expire \/ TelegramPosts \/ TelegramRefuses \/ Interfere

Spec == Init /\ [][Next]_vars

\* The caller goes on when it can; a call that is over fails, over HTTP/1.1
\* once its writer has stopped, and a writer whose connection is closed stops;
\* http.Client has a timeout.
FairSpec ==
  /\ Spec
  /\ WF_vars(Check) /\ WF_vars(ReadBody) /\ WF_vars(Persist)
  /\ WF_vars(over /\ TransportFails)
  /\ WF_vars(over /\ (WroteRequest \/ WriterStops))
  /\ WF_vars(Expire)

-----------------------------------------------------------------------------
(* What SendMessage promises its caller.                                   *)

\* The classes a caller may act on as "not sent" are two: retryable and
\* non-retryable.
Verdict(class) ==
  CASE class = "none" -> {}
    [] class = "delivered" -> {[kind |-> "delivered", msg |-> 1]}
    [] class = "ambiguous" -> {[kind |-> "unknown", msg |-> 0]}
    [] OTHER -> {[kind |-> "refused", msg |-> 0]}

Told(state) ==
  CASE state = "delivered" -> [kind |-> "delivered", msg |-> 1]
    [] state = "unknown" -> [kind |-> "unknown", msg |-> 0]
    [] OTHER -> [kind |-> "refused", msg |-> 0]

Abstract ==
  INSTANCE AtMostOnceDelivery WITH
    Keys    <- {"call"},
    Tries   <- {1},
    flying  <- [k \in {"call"} |->
                  IF remote = "pending" \/ (remote = "unsent" /\ writer = "writing")
                  THEN {1} ELSE {}],
    posted  <- [k \in {"call"} |-> IF remote = "posted" THEN {1} ELSE {}],
    verdict <- [k \in {"call"} |-> IF left THEN {} ELSE Verdict(result.class)],
    told    <- IF at = "done" /\ ~left
               THEN {[key |-> "call", verdict |-> Told(mark.state)]} ELSE {}

\* One call is an at-most-once delivery: a result that says "not sent" is
\* given only of a request that Telegram does not have and will never get,
\* whatever the writer, Telegram and intermediaries still do after SendMessage
\* has returned; and what is recorded says the same.  Not so of a call that Do
\* has left to its writer (left): that one has a result and no decision.
CallIsOneTry == Abstract!Spec

\* "Retryable" is safe to retry (types.go:106): no message comes of the call,
\* then or later.  transportError says it of every request whose hook has not
\* run, over HTTP/2 also of one that is still being written.
RetryableIsSafe == result.class = "retryable" => remote # "posted"

Representable(after) == after * Second < Modulus \div 2

\* The wait that is recorded is the one Telegram asked for, no shorter, when
\* it is a time.Duration at all and the answer found a caller.
RetryAfterMarked ==
  at = "done" /\ ~left /\ mark.state = "retryable" /\ back.after > 0 =>
    (Representable(back.after) => mark.wait = back.after * Second)

\* A call ends in a recorded result, whoever is silent (http.Client.Timeout).
SendReturns == <>(at = "done")

=============================================================================
