------------------------------ MODULE MCAccess ------------------------------
(***************************************************************************)
(* Access for TLC: requests are alike, and so are tokens.                  *)
(***************************************************************************)
EXTENDS Access, TLC

Permutable == Permutations(Requests) \cup Permutations(Tokens)
=============================================================================
