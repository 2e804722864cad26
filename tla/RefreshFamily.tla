--------------------------- MODULE RefreshFamily ---------------------------
(***************************************************************************)
(* What refresh token rotation promises, with no row, lock or transaction  *)
(* in sight: a session has one token that is worth something, a rotation   *)
(* replaces it by the next one, and a revocation ends all of that for good.*)
(***************************************************************************)
EXTENDS Integers

VARIABLES current,   \* generation of the latest token, -1 before the login
          alive      \* the session has not been revoked

vars == <<current, alive>>

Init == current = -1 /\ alive = TRUE

Login == current = -1 /\ current' = 0 /\ UNCHANGED alive

Rotate == current >= 0 /\ alive /\ current' = current + 1 /\ UNCHANGED alive

Revoke == current >= 0 /\ alive /\ alive' = FALSE /\ UNCHANGED current

Next == Login \/ Rotate \/ Revoke

Spec == Init /\ [][Next]_vars
=============================================================================
