----------------------------- MODULE ClientProofs -----------------------------
(***************************************************************************)
(* TelegramClient implements AtMostOnceDelivery, for all status codes,     *)
(* error codes and retry times.                                            *)
(*                                                                         *)
(* The argument.  A result of class retryable or non-retryable comes from  *)
(* the checks, before a writer exists; from a refusal, which only Telegram *)
(* sends and only of a request it did not act on; or from an error of the  *)
(* transport without the trace hook, when the writer has stopped short of  *)
(* the last byte.  In each case the request never reaches Telegram again.  *)
(* The exception is a call that Do has left to its writer (left), which    *)
(* needs HTTP/2.                                                           *)
(***************************************************************************)
EXTENDS TelegramClient, TLAPS

Definite == {"retryable", "non-retryable"}

\* Who is where.
PhaseInv ==
  /\ at \in {"check", "dial", "wait", "body", "persist", "done"}
  /\ writer \in {"none", "writing", "stopped"}
  /\ wrote \in BOOLEAN
  /\ proto \in Protocols \cup {"none"}
  /\ left \in BOOLEAN
  /\ left => /\ proto = "HTTP/2" /\ over /\ at \in {"persist", "done"}
             /\ result.class = "retryable"
  /\ remote \in {"unsent", "pending", "posted", "refused"}
  /\ at \in {"check", "dial"} => writer = "none"
  /\ result.class \in Classes \cup {"none"}
  /\ result.class = "none" <=> at \in {"check", "dial", "wait", "body"}

\* What the request and the answer have to do with each other.
WireInv ==
  /\ writer = "none" => remote = "unsent"
  /\ writer = "stopped" /\ ~wrote => remote = "unsent"
  /\ back.kind = "message" => remote = "posted"
  /\ back.kind = "refusal" => remote = "refused"
  /\ back.kind = "nothing" => back = Nothing

\* What a result says of the request is so, and is what is recorded.
ResultInv ==
  /\ result.class \in Definite /\ ~left =>
       remote = "refused" \/ (remote = "unsent" /\ writer # "writing")
  /\ result.class = "delivered" => remote = "posted"
  /\ at = "done" => mark.state = Marked(result).state

Inv == PhaseInv /\ WireInv /\ ResultInv

\* Reading an answer: definite of a refusal only, delivered of a message only.
LEMMA ReadingSays ==
  ASSUME NEW answer
  PROVE  /\ Reading(answer).class \in Classes
         /\ Reading(answer).class \in Definite => answer.kind = "refusal"
         /\ Reading(answer).class = "delivered" => answer.kind = "message"
         /\ Reading(Plain("broken")).class = "ambiguous"
<1>1. \A status, code :
        ClassifyTelegramFailure(status, code) \in Definite \cup {"ambiguous"}
  BY DEF ClassifyTelegramFailure, Definite
<1>2. CASE answer.kind = "message"
  BY <1>2 DEF Reading, Send, Classes, Definite, Plain
<1>3. CASE answer.kind = "refusal"
  <2>1. Reading(answer).class =
          ClassifyTelegramFailure(answer.status, answer.code)
    BY <1>3 DEF Reading, Send
  <2> QED BY <1>1, <1>3, <2>1 DEF Classes, Definite, Reading, Plain, Send
<1>4. CASE answer.kind \notin {"message", "refusal"}
  BY <1>4 DEF Reading, Send, Classes, Definite, Plain
<1> QED BY <1>2, <1>3, <1>4

LEMMA InitInv == Init => Inv
<1> SUFFICES ASSUME Init PROVE Inv
  OBVIOUS
<1>1. result.class = "none" /\ at = "check" /\ back.kind = "nothing" /\ back = Nothing
  BY DEF Init, NoSend, Send, Nothing, Plain
<1>2. PhaseInv
  BY <1>1 DEF Init, PhaseInv, Classes
<1>3. WireInv
  BY <1>1 DEF Init, WireInv
<1>4. ResultInv
  BY <1>1 DEF Init, ResultInv, Definite
<1> QED BY <1>2, <1>3, <1>4 DEF Inv

\* Every step keeps the invariant.
LEMMA Step == Inv /\ [Next]_vars => Inv'
<1> SUFFICES ASSUME Inv, [Next]_vars PROVE Inv'
  OBVIOUS
<1> USE DEF Inv, PhaseInv, WireInv, ResultInv, clientVars, callVars
<1>1. CASE Check
  BY <1>1 DEF Check, Return, Send, Definite, Classes
<1>2. CASE Dial
  BY <1>2 DEF Dial, Definite
<1>3. CASE WroteRequest
  BY <1>3 DEF WroteRequest
<1>4. CASE Flush
  BY <1>4 DEF Flush
<1>5. CASE WriterStops
  BY <1>5 DEF WriterStops
<1>6. CASE Redial
  BY <1>6 DEF Redial, Definite, Nothing, Plain
<1>7. CASE Expire
  BY <1>7 DEF Expire
<1>8. CASE TransportFails
  <2>1. transportError.class = IF wrote THEN "ambiguous" ELSE "retryable"
    BY DEF transportError, Send
  <2>2. ~wrote /\ ~left' => remote = "unsent" /\ writer # "writing"
    BY <1>8 DEF TransportFails
  <2> QED BY <1>8, <2>1, <2>2 DEF TransportFails, Return, Definite, Classes
<1>9. CASE ReceiveHeader
  BY <1>9 DEF ReceiveHeader
<1>10. CASE ReadBody
  <2>1. /\ at' = "persist" /\ at = "body" /\ ~left
        /\ UNCHANGED <<left, proto, over, writer, wrote, remote, back, mark>>
        /\ result' \in {Reading(back), Reading(Plain("broken"))}
    BY <1>10 DEF ReadBody, Return
  <2>2. Reading(Plain("broken")).class = "ambiguous"
    BY ReadingSays
  <2>3. /\ result'.class \in Classes
        /\ result'.class \in Definite => back.kind = "refusal"
        /\ result'.class = "delivered" => back.kind = "message"
    BY <2>1, <2>2, ReadingSays DEF Definite, Classes
  <2> QED BY <2>1, <2>3 DEF Classes
<1>11. CASE Persist
  BY <1>11 DEF Persist
<1>12. CASE TelegramPosts
  BY <1>12 DEF TelegramPosts, Nothing, Plain
<1>13. CASE TelegramRefuses
  BY <1>13 DEF TelegramRefuses, Refusals, Nothing, Plain
<1>14. CASE Interfere
  BY <1>14 DEF Interfere, Plain
<1>15. CASE TurnAway
  BY <1>15 DEF TurnAway
<1>16. CASE UNCHANGED vars
  BY <1>16 DEF vars, Marked
<1> QED BY <1>1, <1>2, <1>3, <1>4, <1>5, <1>6, <1>7, <1>8, <1>9, <1>10, <1>11, <1>12,
           <1>13, <1>14, <1>15, <1>16 DEF Next, Caller

\* A result says of the request what is so, unless Do has left the call to its
\* writer, and Do does that over HTTP/2 only.
THEOREM Invariance == Spec => []Inv
BY InitInv, Step, PTL DEF Spec

-----------------------------------------------------------------------------
(* The refinement.                                                         *)

Flying == [k \in {"call"} |->
             IF remote = "pending" \/ (remote = "unsent" /\ writer = "writing")
             THEN {1} ELSE {}]
Posted == [k \in {"call"} |-> IF remote = "posted" THEN {1} ELSE {}]
Decision == [k \in {"call"} |-> IF left THEN {} ELSE Verdict(result.class)]
Heard == IF at = "done" /\ ~left
         THEN {[key |-> "call", verdict |-> Told(mark.state)]} ELSE {}

AbstractStep == Abstract!Next \/ UNCHANGED <<Flying, Posted, Decision, Heard>>

\* A result is a decision, and one the chat allows.
LEMMA Returns ==
  ASSUME Inv, Inv', at \in {"check", "dial", "wait", "body"}, at' = "persist",
         UNCHANGED <<remote, writer>>
  PROVE  AbstractStep
<1> SUFFICES ASSUME ~left' PROVE AbstractStep
  <2>1. CASE left'
    BY <2>1 DEF AbstractStep, Flying, Posted, Decision, Heard, Verdict, Inv, PhaseInv
  <2> QED BY <2>1
<1> DEFINE v == CHOOSE x \in Verdict(result'.class) : TRUE
<1>1. /\ result.class = "none" /\ ~left
      /\ result'.class \in Classes
      /\ result'.class \in Definite =>
           remote = "refused" \/ (remote = "unsent" /\ writer # "writing")
      /\ result'.class = "delivered" => remote = "posted"
  BY DEF Inv, PhaseInv, ResultInv
<1>2. /\ Verdict(result'.class) = {v}
      /\ v \in Abstract!Possible("call")
  <2>1. CASE result'.class = "delivered"
    BY <1>1, <2>1 DEF Verdict, Abstract!Possible, Abstract!Delivered
  <2>2. CASE result'.class = "ambiguous"
    BY <1>1, <2>2 DEF Verdict, Abstract!Possible, Abstract!Unknown
  <2>3. CASE result'.class \in Definite
    BY <1>1, <2>3 DEF Verdict, Definite, Abstract!Possible, Abstract!Refused, Abstract!Free
  <2> QED BY <1>1, <2>1, <2>2, <2>3 DEF Classes, Definite
<1> HIDE DEF v
<1>3. Decision["call"] = {} /\ Decision' = [Decision EXCEPT !["call"] = {v}]
  BY <1>1, <1>2 DEF Decision, Verdict
<1>4. UNCHANGED <<Flying, Posted, Heard>>
  BY DEF Flying, Posted, Heard
<1>5. Abstract!Decide("call", v)
  BY <1>2, <1>3, <1>4 DEF Abstract!Decide, Flying, Posted, Decision, Heard
<1> QED BY <1>2, <1>5 DEF AbstractStep, Abstract!Next, Abstract!Step

\* The request can no longer become a message.
LEMMA Loses ==
  ASSUME Flying' = [k \in {"call"} |-> {}], UNCHANGED <<Posted, at, left, result, mark>>
  PROVE  AbstractStep
<1>1. UNCHANGED <<Decision, Heard>> /\ Flying' = [Flying EXCEPT !["call"] = {}]
  BY DEF Decision, Heard, Flying
<1>2. Abstract!Lose("call")
  BY <1>1 DEF Abstract!Lose, Flying, Posted, Decision, Heard
<1> QED BY <1>2 DEF AbstractStep, Abstract!Next, Abstract!Step

LEMMA StepImplements == Inv /\ Inv' /\ Next => AbstractStep
<1> SUFFICES ASSUME Inv, Inv', Next PROVE AbstractStep
  OBVIOUS
<1>1. ASSUME UNCHANGED <<remote, writer, left, result, mark>>, at # "done", at' # "done"
      PROVE  AbstractStep
  BY <1>1 DEF AbstractStep, Flying, Posted, Decision, Heard
<1>2. CASE Check
  <2>1. CASE valid
    BY <1>1, <1>2, <2>1 DEF Check, callVars
  <2>2. CASE ~valid
    BY <1>2, <2>2, Returns DEF Check, Return
  <2> QED BY <2>1, <2>2
<1>3. CASE Dial
  <2>1. /\ Flying' = [Flying EXCEPT !["call"] = {1}] /\ UNCHANGED <<Posted, Decision, Heard>>
        /\ Flying["call"] = {} /\ Posted["call"] = {} /\ Decision["call"] = {}
    BY <1>3 DEF Dial, Inv, PhaseInv, WireInv, Flying, Posted, Decision, Heard, Verdict
  <2>2. Abstract!Try("call", 1)
    BY <2>1 DEF Abstract!Try, Abstract!Free, Flying, Posted, Decision, Heard
  <2> QED BY <2>2 DEF AbstractStep, Abstract!Next, Abstract!Step
<1>4. CASE WroteRequest
  <2>1. UNCHANGED <<remote, at, left, result, mark>>
    BY <1>4 DEF WroteRequest, callVars
  <2>2. CASE writer' = writer \/ remote # "unsent"
    BY <2>1, <2>2 DEF AbstractStep, Flying, Posted, Decision, Heard
  <2>3. CASE writer' = "stopped" /\ remote = "unsent"
    BY <2>1, <2>3, Loses DEF Flying, Posted
  <2> QED BY <1>4, <2>2, <2>3 DEF WroteRequest
<1>5. CASE Flush
  BY <1>5 DEF Flush, clientVars, callVars, AbstractStep, Flying, Posted, Decision, Heard
<1>6. CASE WriterStops
  <2>1. CASE remote = "unsent"
    BY <1>6, <2>1, Loses DEF WriterStops, clientVars, callVars, Flying, Posted
  <2>2. CASE remote # "unsent"
    BY <1>6, <2>2 DEF WriterStops, clientVars, callVars, AbstractStep, Flying, Posted, Decision, Heard
  <2> QED BY <2>1, <2>2
<1>7. CASE Redial
  BY <1>7 DEF Redial, callVars, AbstractStep, Flying, Posted, Decision, Heard
<1>8. CASE Expire \/ Interfere
  BY <1>8 DEF Expire, Interfere, clientVars, callVars, AbstractStep, Flying, Posted, Decision, Heard
<1>9. CASE TransportFails \/ ReadBody
  BY <1>9, Returns DEF TransportFails, ReadBody, Return
<1>10. CASE ReceiveHeader
  BY <1>1, <1>10 DEF ReceiveHeader, callVars
<1>11. CASE Persist
  <2> DEFINE v == Told(mark'.state)
  <2>1. result.class \in Classes /\ mark' = Marked(result)
    BY <1>11 DEF Persist, Inv, PhaseInv
  <2>2. UNCHANGED <<Flying, Posted, Decision, left>>
    BY <1>11 DEF Persist, callVars, Flying, Posted, Decision
  <2>3. CASE left
    BY <1>11, <2>2, <2>3 DEF Persist, AbstractStep, Heard
  <2>4. CASE ~left
    <3>1. Decision["call"] = {v}
      BY <2>1, <2>4 DEF Decision, Verdict, Told, Marked, Classes
    <3> HIDE DEF v
    <3>2. Heard' = Heard \cup {[key |-> "call", verdict |-> v]}
      BY <1>11, <2>2, <2>4 DEF Persist, Heard, v
    <3>3. Abstract!Tell("call", v)
      BY <2>2, <3>1, <3>2 DEF Abstract!Tell, Flying, Posted, Decision, Heard
    <3> QED BY <3>1, <3>3 DEF AbstractStep, Abstract!Next, Abstract!Step, Decision
  <2> QED BY <2>3, <2>4
<1>12. CASE TelegramPosts
  <2>1. /\ Flying["call"] = {1}
        /\ Flying' = [Flying EXCEPT !["call"] = {}]
        /\ Posted' = [Posted EXCEPT !["call"] = {1}]
        /\ UNCHANGED <<Decision, Heard>>
    BY <1>12 DEF TelegramPosts, clientVars, callVars, Flying, Posted, Decision, Heard
  <2>2. Abstract!Land("call", 1)
    BY <2>1 DEF Abstract!Land, Flying, Posted, Decision, Heard
  <2> QED BY <2>1, <2>2 DEF AbstractStep, Abstract!Next, Abstract!Step, Flying
<1>13. CASE TelegramRefuses
  BY <1>13, Loses DEF TelegramRefuses, clientVars, callVars, Flying, Posted
<1>14. CASE TurnAway
  BY <1>14, Loses DEF TurnAway, clientVars, callVars, Flying, Posted
<1> QED BY <1>2, <1>3, <1>4, <1>5, <1>6, <1>7, <1>8, <1>9, <1>10, <1>11, <1>12, <1>13, <1>14
        DEF Next, Caller

\* A sendMessage call, with its transport, Telegram and whoever is on the way,
\* is one try of an at-most-once delivery, and what SendMessage says of it and
\* persistSendResult records is true, unless Do has left it to its writer.
THEOREM Implements == Spec => CallIsOneTry
<1>1. Inv /\ Inv' /\ [Next]_vars => [Abstract!Next]_<<Flying, Posted, Decision, Heard>>
  <2>1. UNCHANGED vars => UNCHANGED <<Flying, Posted, Decision, Heard>>
    BY DEF vars, clientVars, callVars, Flying, Posted, Decision, Heard
  <2> QED BY <2>1, StepImplements DEF AbstractStep
<1>2. Inv /\ Inv' /\ [Next]_vars => [Abstract!Next]_(Abstract!vars)
  BY <1>1 DEF Abstract!vars, Flying, Posted, Decision, Heard
<1>3. Init => Abstract!Init
  <2> SUFFICES ASSUME Init PROVE Abstract!Init
    OBVIOUS
  <2>1. /\ remote = "unsent" /\ writer = "none" /\ at = "check"
        /\ Verdict(result.class) = {} /\ ~left
    BY DEF Init, NoSend, Send, Verdict
  <2> QED BY <2>1 DEF Abstract!Init
<1> QED BY Invariance, <1>2, <1>3, PTL DEF Spec, CallIsOneTry, Abstract!Spec

\* What persistSendResult records of a call stays true after SendMessage has
\* returned, of every call that Do has not left to its writer: no request turns
\* a recorded refusal into a message, and none posts a second one.
THEOREM RecordStaysTrue == Spec => []Abstract!Promise
BY Implements, Abstract!PromiseKept, PTL DEF CallIsOneTry

\* Only over HTTP/2, and only when the context or the timeout ends the call, is
\* a call left to its writer; a "retryable" is unsafe of no other
\* (transportError).
THEOREM OnlyLeftIsUnsafe ==
  Spec => [](RetryableIsSafe \/ (left /\ over /\ proto = "HTTP/2"))
<1>1. Inv => RetryableIsSafe \/ (left /\ over /\ proto = "HTTP/2")
  BY DEF Inv, PhaseInv, ResultInv, RetryableIsSafe, Definite
<1> QED BY Invariance, <1>1, PTL

\* Where HTTP/2 is not spoken, as with a Bot API server at an http URL, every
\* "retryable" is safe to retry.
THEOREM SafeOverHTTP1 ==
  ASSUME "HTTP/2" \notin Protocols
  PROVE  Spec => []RetryableIsSafe
<1>1. Inv => RetryableIsSafe
  <2>1. Inv => ~left
    BY DEF Inv, PhaseInv
  <2> QED BY <2>1 DEF Inv, ResultInv, RetryableIsSafe, Definite
<1> QED BY Invariance, <1>1, PTL

-----------------------------------------------------------------------------
(* The wait Telegram asks for.                                             *)

\* What an answer carries, what was read of it, and what is recorded.
WaitInv ==
  /\ back.after \in Int
  /\ back.kind # "refusal" => back.after = 0
  /\ result.class = "retryable" /\ ~left /\ back.kind = "refusal" =>
       result.after = retryAfterDuration(back.after)
  /\ at = "done" => mark = Marked(result)

\* A number that fits in its width is itself.
LEMMA WrapFits ==
  ASSUME NEW n \in Nat, n < Modulus \div 2
  PROVE  Wrap(n) = n
<1>1. Modulus \div 2 \in Int /\ n < Modulus
  BY ModulusAssumption
<1>2. n % Modulus = n
  BY <1>1, ModulusAssumption
<1> QED BY <1>1, <1>2 DEF Wrap

LEMMA RetryAfterRead ==
  ASSUME NEW answer, Reading(answer).class = "retryable"
  PROVE  Reading(answer).after = retryAfterDuration(answer.after)
<1>1. answer.kind = "refusal"
  BY ReadingSays DEF Definite
<1> QED BY <1>1 DEF Reading, Send

LEMMA WaitStep == Inv /\ WaitInv /\ [Next]_vars => WaitInv'
<1> SUFFICES ASSUME Inv, WaitInv, [Next]_vars PROVE WaitInv'
  OBVIOUS
<1> USE DEF WaitInv
<1>1. CASE UNCHANGED <<at, left, result, mark, back>>
  BY <1>1 DEF Marked
<1>2. CASE \/ Dial \/ WroteRequest \/ Flush \/ WriterStops \/ TurnAway \/ Redial
           \/ Expire \/ ReceiveHeader
  BY <1>2 DEF Dial, WroteRequest, Flush, WriterStops, TurnAway, Redial, Expire, ReceiveHeader,
              clientVars, callVars
<1>3. CASE Check
  BY <1>3 DEF Check, Return, Send, callVars
<1>4. CASE TransportFails
  <2>1. /\ back' = back /\ at' = "persist" /\ result' = transportError
        /\ ~wrote /\ ~left' => remote = "unsent"
    BY <1>4 DEF TransportFails, Return, Inv, WireInv, PhaseInv
  <2>2. transportError.class = "retryable" => ~wrote
    BY DEF transportError, Send
  <2>3. result'.class = "retryable" /\ ~left' => back'.kind # "refusal"
    BY <2>1, <2>2 DEF Inv, WireInv
  <2> QED BY <2>1, <2>3
<1>5. CASE ReadBody
  <2>1. /\ back' = back /\ at' = "persist" /\ left' = left
        /\ result' \in {Reading(back), Reading(Plain("broken"))}
    BY <1>5 DEF ReadBody, Return, callVars
  <2>2. result'.class = "retryable" => result' = Reading(back)
    BY <2>1, ReadingSays
  <2> QED BY <2>1, <2>2, RetryAfterRead
<1>6. CASE Persist
  BY <1>6 DEF Persist, callVars, Marked
<1>7. CASE TelegramPosts
  BY <1>7 DEF TelegramPosts, clientVars, callVars, Plain, Marked
<1>8. CASE TelegramRefuses
  <2>1. result.class # "retryable" \/ left
    BY <1>8 DEF TelegramRefuses, Inv, ResultInv, Definite
  <2>2. back' = back \/ (back'.after \in Int /\ back'.kind = "refusal")
    BY <1>8, AfterAssumption DEF TelegramRefuses, Refusals
  <2> QED BY <1>8, <2>1, <2>2 DEF TelegramRefuses, clientVars, callVars, Marked
<1>9. CASE Interfere
  BY <1>9 DEF Interfere, clientVars, callVars, Plain
<1> QED BY <1>1, <1>2, <1>3, <1>4, <1>5, <1>6, <1>7, <1>8, <1>9
        DEF Next, Caller, vars, clientVars, callVars

\* The wait that is recorded of a retryable result is the one Telegram asked for.
THEOREM WaitIsKept == Spec => []RetryAfterMarked
<1>1. Init => WaitInv
  BY DEF Init, WaitInv, Nothing, Plain, NoSend, Send
<1>2. Inv /\ WaitInv => RetryAfterMarked
  <2> SUFFICES ASSUME Inv, WaitInv, at = "done", ~left, mark.state = "retryable",
                      back.after > 0, Representable(back.after)
               PROVE  mark.wait = back.after * Second
    BY DEF RetryAfterMarked
  <2>1. result.class = "retryable" /\ back.kind = "refusal" /\ mark = Marked(result)
    BY DEF WaitInv, Marked
  <2>2. result.after = retryAfterDuration(back.after) /\ back.after \in Nat
    BY <2>1 DEF WaitInv
  <2>3. back.after * Second \in Nat /\ back.after * Second > 0
    BY <2>2, SecondAssumption
  <2>4. result.after = back.after * Second
    BY <2>2, <2>3, WrapFits DEF retryAfterDuration, Representable
  <2> QED BY <2>1, <2>3, <2>4 DEF Marked
<1> QED BY Invariance, <1>1, <1>2, WaitStep, PTL DEF Spec
=============================================================================
