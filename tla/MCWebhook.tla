------------------------------ MODULE MCWebhook ------------------------------
(* Instances of WebhookHandler for TLC. *)
EXTENDS WebhookHandler, TLC

CONSTANTS w1, w2, w3, hello, bye, sticker, control

U(id, chat, text) == [id |-> id, chat |-> chat, text |-> text]

\* Chats 3 and -5 share a lock, chat 4 has another.
SomeChats == {-5, 3, 4}

\* Two messages, one that is not supported between them, and one that is not
\* valid, which stays at the head of the queue.
Queue == <<U(1, 3, hello), U(2, 3, sticker), U(3, 4, bye), U(4, 3, control)>>
Nobody == {}

\* Telegram's update is posted by others too, and its ID with other content
\* from another chat, and from a chat that has the same lock.
Few == <<U(1, 3, hello), U(2, 4, bye)>>
Rivals == {U(1, 3, hello), U(1, 4, bye), U(2, -5, bye)}

Swap == Permutations({w1, w2, w3})
=============================================================================
