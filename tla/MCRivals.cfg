SPECIFICATION Spec
CONSTANTS
  w1 = w1
  w2 = w2
  w3 = w3
  hello = hello
  bye = bye
  sticker = sticker
  control = control
  None = None
  UpdateIds = {1, 2, 3, 4}
  Chats <- SomeChats
  Texts = {hello, bye, sticker, control}
  Bodies = {"accepted", "duplicate"}
  First = "accepted"
  Again = "duplicate"
  Workers = {w1, w2, w3}
  NumLocks = 2
  Stream <- Few
  Direct <- Rivals
  Ignored = {sticker}
  Refused = {control}
SYMMETRY Swap
INVARIANTS
  TypeOK
  OneEventPerId
  ForgottenMeansAdmitted
  SaveIsFirst
PROPERTIES
  NeverAdmittedAgain
