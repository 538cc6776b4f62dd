------------------------------- MODULE MCClient -------------------------------
(* Instances of TelegramClient for TLC. *)
EXTENDS TelegramClient

\* A status or error code on each side of every comparison.
Edges == {0, 100, 200, 302, 400, 404, 409, 429, 499, 500, 599, 600}
\* In range, and three that are not: negative, 0 and short after wrapping.
Asked == {-1, 0, 1, 2, 3}
Fewer == {200, 404, 429, 502}
=============================================================================
