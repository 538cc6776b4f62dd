------------------------------ MODULE MCMessages ------------------------------
(* Instances for TLC of ReplyRoute, the route of a message, and of MessageText, *)
(* its text.  They share nothing, so a behaviour is of one of the two: it       *)
(* writes a text, or it admits and delivers.                                    *)
EXTENDS ReplyRoute, MessageText

\* Texts do not depend on the bot.
FirstBot == CHOOSE b \in Bots : TRUE

RouteOrText ==
  \/ text = <<>> /\ Next /\ UNCHANGED text
  \/ /\ bot = FirstBot /\ events = {} /\ last = NoDelivery
     /\ NextText /\ UNCHANGED vars

MCInit == Init /\ InitText

MCSpec == MCInit /\ [][RouteOrText]_<<vars, text>>

\* A negative ID and both ends of int64; 5 is also a thread, a message, a bot.
Chats == {-8, 5, 7}
Threads == {0, 5}
OfMessages == {0, 5}
BotIDs == {5, 6}

\* Spellings of 0, 5 and 8 that FormatInt does not produce, and no numbers.
OtherTexts == {Numeral("", 1, 5), Word("conformance")}
TargetOf(chat, thread) == <<Word("tg"), Word("v1"), chat, thread, FormatInt(5)>>
OtherTargets ==
  {ConformanceReplyTarget,
   TargetOf(Numeral("+", 0, 5), FormatInt(0)),
   TargetOf(FormatInt(5), Numeral("-", 0, 0)), TargetOf(FormatInt(5), FormatInt(-5)),
   TargetOf(Numeral("", 0, 8), FormatInt(0)), TargetOf(FormatInt(0), FormatInt(0)),
   <<Word("tg"), Word("v1"), FormatInt(5)>>}

\* Orka has at most so many events.
TwoEvents == \A e, f, g \in events : e = f \/ f = g \/ e = g
=============================================================================
