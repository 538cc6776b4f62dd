-------------------------------- MODULE MCStart --------------------------------
(* Instances of ProcessStart for TLC. *)
EXTENDS ProcessStart

CONSTANTS A, s1, s2

\* The secret is rotated, with or without updates being dropped, and the URL
\* taken away.
Operator ==
  {[bot |-> A, secret |-> s1, url |-> TRUE, drop |-> FALSE],
   [bot |-> A, secret |-> s2, url |-> TRUE, drop |-> TRUE],
   [bot |-> A, secret |-> s1, url |-> FALSE, drop |-> FALSE]}
=============================================================================
