------------------------------ MODULE Admission ------------------------------
(***************************************************************************)
(* What the webhook promises between Telegram and Orka, as if there were   *)
(* neither concurrency nor failure: updates reach Orka one by one, in the  *)
(* order Telegram has them, each once, and Telegram forgets an update only *)
(* when Orka has it or the adapter does not support it.                    *)
(***************************************************************************)
EXTENDS Naturals, Sequences

CONSTANTS
  Stream,    \* the updates Telegram has for the bot, in order
  Ignored,   \* texts of updates that are not supported
  Refused    \* texts of updates that are not valid

VARIABLES
  head,   \* the position in Stream of the update Telegram offers next
  log     \* the updates Orka has, in order of first arrival

Offered == Stream[head]

Admitted(u) == \E n \in DOMAIN log : log[n] = u

Init == head = 1 /\ log = <<>>

Admit ==
  /\ head <= Len(Stream)
  /\ Offered.text \notin Ignored \cup Refused
  /\ ~Admitted(Offered)
  /\ log' = Append(log, Offered)
  /\ head' = head

Forget ==
  /\ head <= Len(Stream)
  /\ Offered.text \in Ignored \/ Admitted(Offered)
  /\ head' = head + 1
  /\ log' = log

Next == Admit \/ Forget

Spec == Init /\ [][Next]_<<head, log>>

=============================================================================
