----------------------------- MODULE UpdateStore -----------------------------
(***************************************************************************)
(* The inbound half of the SQLite store (internal/store/updates.go): table *)
(* telegram_updates and its two writes, each one immediate transaction.    *)
(*                                                                         *)
(* An update is [id, chat, text].  The digest of an update is the update:  *)
(* SHA-256 of its normalized JSON (server.go:226-231).  A response is the  *)
(* compacted JSON of Orka's acknowledgement.                               *)
(***************************************************************************)
EXTENDS Integers

CONSTANTS
  UpdateIds,   \* Telegram's update IDs
  Chats,       \* chat IDs, integers of either sign
  Texts,       \* what an update says
  Bodies,      \* acknowledgements of Orka
  None         \* no row, no response, nobody

ASSUME IdsAssumption   == UpdateIds \subseteq Nat
ASSUME ChatsAssumption == Chats \subseteq Int
ASSUME BodyAssumption  == None \notin Bodies

VARIABLE updates   \* table telegram_updates; NoUpdate: no row

Update == [id : UpdateIds, chat : Chats, text : Texts]

ASSUME NoneIsNoUpdate == None \notin Update

NoUpdate == [digest |-> None, response |-> None]

UpdateRows == [digest : Update \cup {None}, response : Bodies \cup {None}]

Known(u) == updates[u.id].digest # None

\* Fault: the digest of a known update is not compared.
DigestConflictNever(u) == FALSE

DigestConflict(u) == Known(u) /\ updates[u.id].digest # u

\* Fault: an update that was seen is taken for one that was answered.
KnownIsAnswered(u) == Known(u)

HasOrkaResponse(u) == updates[u.id].response # None

\* Commits; the caller has checked ~DigestConflict(u).
CreateUpdate(u) ==
  updates' = IF Known(u) THEN updates
             ELSE [updates EXCEPT ![u.id] = [NoUpdate EXCEPT !.digest = u]]

\* ErrNotFound, ErrDigestConflict or ErrInvalidTransition.
SaveRefused(u, body) ==
  \/ ~Known(u) \/ DigestConflict(u)
  \/ HasOrkaResponse(u) /\ updates[u.id].response # body

\* Commits; the caller has checked ~SaveRefused(u, body).
SaveUpdateResponse(u, body) ==
  updates' = [updates EXCEPT ![u.id].response = body]

=============================================================================
