------------------------------ MODULE ReplyRoute ------------------------------
(***************************************************************************)
(* The way of a reply: MapUpdate (internal/telegram/mapping.go) writes the *)
(* route of a message into an event; Orka hands routes back in deliveries; *)
(* ParseReplyTarget (reply_target.go) and validDeliveryRoute               *)
(* (internal/adapter/server.go) read and compare them; SendMessage         *)
(* (client.go) sends, and compares the answer.                             *)
(*                                                                         *)
(* Text is modelled as far as these functions tell texts apart: a decimal  *)
(* numeral with its sign, leading zeros and magnitude, or another word.    *)
(* The reply target is the sequence of its parts between colons.  The      *)
(* process may restart with the token of another bot: events of the former *)
(* one are still at Orka.  Handlers share nothing here but the bot, so one *)
(* runs at a time.                                                         *)
(***************************************************************************)
EXTENDS Integers, Sequences

CONSTANTS
  Limit,            \* int64 is -Limit .. Limit - 1
  Bots,             \* IDs getMe may report
  ChatIDs, ThreadIDs, MessageIDs,  \* of Telegram's messages; thread 0: none
  ConformanceChatID,               \* TELEGRAM_CONFORMANCE_CHAT_ID; 0: none
  Texts,            \* other texts Orka may put into a field
  Targets           \* other reply targets Orka may send

Int64 == -Limit .. (Limit - 1)

ASSUME LimitAssumption == Limit \in Nat \ {0}
ASSUME BotAssumption   == Bots \subseteq Int64
ASSUME ChatAssumption  == ChatIDs \subseteq Int64
ASSUME ThreadAssumption ==
  ThreadIDs \subseteq Int64 /\ \A thread \in ThreadIDs : thread >= 0
ASSUME MessageAssumption == MessageIDs \subseteq Int64
ASSUME ConformanceAssumption == ConformanceChatID \in Int64

-----------------------------------------------------------------------------
(* Texts.                                                                  *)

Word(w) == [word |-> w, sign |-> "", zeros |-> 0, magnitude |-> 0]
Numeral(sign, zeros, magnitude) ==
  [word |-> "", sign |-> sign, zeros |-> zeros, magnitude |-> magnitude]
Empty == Word("empty")

Abs(n) == IF n < 0 THEN -n ELSE n

\* strconv.FormatInt, and %d.
FormatInt(n) == Numeral(IF n < 0 THEN "-" ELSE "", 0, Abs(n))

\* strconv.ParseInt takes signs and leading zeros, and minds the range.
Value(text) == IF text.sign = "-" THEN -text.magnitude ELSE text.magnitude
ParseIntFails(text) == text.word # "" \/ Value(text) \notin Int64

\* One spelling per number: "+1", "01" and "-0" are none.
parseCanonicalInt64(text) ==
  [ok |-> ~ParseIntFails(text) /\ FormatInt(Value(text)) = text,
   value |-> Value(text)]

FormatReplyTarget(chat, thread, message) ==
  <<Word("tg"), Word("v1"), FormatInt(chat), FormatInt(thread), FormatInt(message)>>

ConformanceReplyTarget == <<Word("conformance")>>

Target(chat, thread, message) ==
  [chat |-> chat, thread |-> thread, message |-> message]
Validate(target) == target.chat # 0 /\ target.thread >= 0 /\ target.message >= 0

\* The parts of tg:v1:chat:thread:message.
ParsedParts(value) ==
  Target(parseCanonicalInt64(value[3]).value, parseCanonicalInt64(value[4]).value,
         parseCanonicalInt64(value[5]).value)
WellFormed(value) ==
  /\ Len(value) = 5 /\ value[1] = Word("tg") /\ value[2] = Word("v1")
  /\ \A i \in 3..5 : parseCanonicalInt64(value[i]).ok

\* The target a text names, or none (an error).
ParseReplyTarget(value) ==
  LET target == IF value = ConformanceReplyTarget THEN Target(ConformanceChatID, 0, 0)
                ELSE IF WellFormed(value) THEN ParsedParts(value)
                ELSE Target(0, 0, 0)
  IN  {t \in {target} : Validate(t)}

-----------------------------------------------------------------------------
(* Events and deliveries.                                                  *)

\* Fault: thread 0 is written out, as it is in the reply target.
ThreadAlways(thread) == FormatInt(thread)

\* Thread 0, of an ordinary chat, is left out (MapUpdate, validDeliveryRoute).
ThreadText(thread) == IF thread = 0 THEN Empty ELSE FormatInt(thread)

\* MapUpdate: none for an invalid update; Telegram's threads are not negative.
MapUpdate(b, m) ==
  {[account |-> FormatInt(b), context |-> FormatInt(x.chat),
    thread |-> IF x.thread > 0 THEN FormatInt(x.thread) ELSE Empty,
    target |-> FormatReplyTarget(x.chat, x.thread, x.message)] :
     x \in {y \in {m} : b > 0 /\ y.message > 0 /\ y.chat # 0}}

\* Fault: the context is not compared.
routeIgnoresContext(b, request, target) ==
  /\ request.account = FormatInt(b)
  /\ request.thread = ThreadText(target.thread)

validDeliveryRoute(b, request, target) ==
  IF request.target = ConformanceReplyTarget
  THEN /\ request.account = Word("conformance")
       /\ request.context = Word("conformance")
       /\ request.thread = Empty
       /\ target = Target(ConformanceChatID, 0, 0)
  ELSE /\ request.account = FormatInt(b)
       /\ request.context = FormatInt(target.chat)
       /\ request.thread = ThreadText(target.thread)

\* The target of a request on which handleDelivery calls SendMessage.
Routed(b, request) ==
  {target \in ParseReplyTarget(request.target) :
     validDeliveryRoute(b, request, target)}

\* Fault: any message is taken for the one that was asked for.
AnyMessage(target, answer) == answer.message > 0

\* SendMessage takes the answer for a message in the chat and thread it named.
Confirmed(target, answer) ==
  /\ answer.message > 0 /\ answer.chat = target.chat
  /\ target.thread > 0 => answer.thread = target.thread

-----------------------------------------------------------------------------
VARIABLES
  bot,     \* of the running process (adapter.Config.BotID)
  events,  \* at Orka: the event, and the bot and message it is of
  last     \* the delivery being answered: by which bot, request and outcome

vars == <<bot, events, last>>

Messages == [chat : ChatIDs, thread : ThreadIDs, message : MessageIDs]
Answers == [chat : ChatIDs, thread : ThreadIDs, message : MessageIDs]

\* What Orka may put into a field: one of the events it has, or anything else.
Field(name) == {e.event[name] : e \in events}
Requests ==
  [account : Field("account") \cup Texts, context : Field("context") \cup Texts,
   thread : Field("thread") \cup Texts \cup {Empty}, target : Field("target") \cup Targets]

NoDelivery == [kind |-> "none"]
RefusedDelivery(b, request) == [kind |-> "refused", bot |-> b, request |-> request]
SentDelivery(b, request, target, answer) ==
  [kind |-> "sent", bot |-> b, request |-> request, target |-> target,
   answer |-> answer, delivered |-> Confirmed(target, answer)]

Init == bot \in Bots /\ events = {} /\ last = NoDelivery

\* A message of Telegram's becomes an event.
Admit(m) ==
  /\ last = NoDelivery
  /\ \E event \in MapUpdate(bot, m) :
       events' = events \cup {[event |-> event, origin |-> [bot |-> bot, of |-> m]]}
  /\ UNCHANGED <<bot, last>>

\* The route check fails: MarkDeliveryPermanent, "delivery routing mismatch".
Refuse(request) ==
  /\ Routed(bot, request) = {}
  /\ last' = RefusedDelivery(bot, request)
  /\ UNCHANGED <<bot, events>>

\* The route check passes: SendMessage, and Telegram's message, whatever it is.
Send(request, answer) ==
  /\ \E target \in Routed(bot, request) :
       last' = SentDelivery(bot, request, target, answer)
  /\ UNCHANGED <<bot, events>>

\* The process starts with another bot's token, or the same again.
Restart(other) ==
  /\ bot' = other /\ last' = NoDelivery
  /\ UNCHANGED events

\* Orka has its answer.
Answered ==
  /\ last # NoDelivery
  /\ last' = NoDelivery
  /\ UNCHANGED <<bot, events>>

Next ==
  \/ \E m \in Messages : Admit(m)
  \/ /\ last = NoDelivery
     /\ \E request \in Requests :
          Refuse(request) \/ \E answer \in Answers : Send(request, answer)
  \/ \E other \in Bots : Restart(other)
  \/ Answered

Spec == Init /\ [][Next]_vars

-----------------------------------------------------------------------------
(* Properties.                                                             *)

Routes(fields) == <<fields.account, fields.context, fields.thread, fields.target>>

\* A delivery with the route of an event, as it came, reaches the chat and the
\* thread of that event's message, as a reply to it; if the bot is still the
\* one that got the message, it is not refused (MapUpdate, validDeliveryRoute).
EchoReaches ==
  \A e \in events :
    last.kind # "none" /\ Routes(last.request) = Routes(e.event) =>
      /\ last.kind = "refused" => last.bot # e.origin.bot
      /\ last.kind = "sent" => last.target = e.origin.of

\* However Orka mixes the fields of events and other texts, a message is never
\* sent to another chat or thread than the one its context or thread came
\* from, nor by another bot than its account came from.
NoMisdelivery ==
  \A e \in events :
    last.kind = "sent" =>
      /\ last.request.account = e.event.account => last.bot = e.origin.bot
      /\ last.request.context = e.event.context => last.target.chat = e.origin.of.chat
      /\ last.request.thread = e.event.thread /\ last.request.target # ConformanceReplyTarget
           => last.target.thread = e.origin.of.thread

\* "delivered" is answered only of a message in the chat, and the thread if
\* any, that the request's context and thread came from, even if Telegram
\* answers with another.
DeliveredThere ==
  \A e \in events :
    last.kind = "sent" /\ last.delivered =>
      /\ last.request.context = e.event.context => last.answer.chat = e.origin.of.chat
      /\ last.request.thread = e.event.thread /\ e.origin.of.thread # 0
           => last.answer.thread = e.origin.of.thread

=============================================================================
