--------------------------- MODULE MCAuthSession ---------------------------
(* Overlapping requests on one family of tokens: AuthSession for TLC. *)
EXTENDS AuthSession
=============================================================================
