\* Texts end at MaxLength runes; every limit is met within them.
SPECIFICATION MCSpec
CHECK_DEADLOCK FALSE
CONSTANTS
  Limit = 8
  Bots <- BotIDs
  ChatIDs <- Chats
  ThreadIDs <- Threads
  MessageIDs <- OfMessages
  ConformanceChatID = 3
  Texts <- OtherTexts
  Targets <- OtherTargets
  MaxTextBytes = 9
  MaxIdentityBytes = 4
  MaxMessageBytes = 5
  MaxCharacters = 4
  MaxLength = 5
CONSTRAINT TwoEvents
INVARIANTS
  EchoReaches
  NoMisdelivery
  DeliveredThere
  OnlyUnsafeRefused
  NamesFolded
  AcceptedPasses
  SentWhole
  CutBetweenRunes
