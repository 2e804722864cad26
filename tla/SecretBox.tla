----------------------------- MODULE SecretBox -----------------------------
(***************************************************************************)
(* What the credential vault promises: a box per credential profile with   *)
(* one secret in it, and no keys, ciphertexts, rows or locks in sight.     *)
(*                                                                         *)
(* A caller asks for a secret to be put into a box.  Later the secret is   *)
(* put there, all at once, or it never is; a caller who is told "kept" can *)
(* rely on it.  A box that was closed is never opened again; a secret that *)
(* was asked for earlier may still go into the closed box, where nobody    *)
(* sees it.  Nothing else ever touches the secret.                         *)
(***************************************************************************)
CONSTANTS Profile,     \* credential profiles
          Secret,      \* the secrets that callers send
          Call,        \* calls in progress
          None         \* no box, no request, no answer

VARIABLES box,         \* per profile: None, or its secret and whether it is open
          asked,       \* per call: None, or the secret it wants in a box
          told         \* per call: None, or what its caller was told

vars == <<box, asked, told>>

Init == /\ box = [p \in Profile |-> None]
        /\ asked = [c \in Call |-> None]
        /\ told = [c \in Call |-> None]

Ask(c, p, s) == /\ asked[c] = None
                /\ told[c] = None
                /\ asked' = [asked EXCEPT ![c] = [profile |-> p, secret |-> s]]
                /\ UNCHANGED <<box, told>>

\* The secret goes into its box, a new one if need be.  The answer may get lost.
Keep(c) == /\ asked[c] # None
           /\ LET p == asked[c].profile
              IN  box' = [box EXCEPT ![p] = [secret |-> asked[c].secret,
                                             open |-> box[p] = None \/ box[p].open]]
           /\ asked' = [asked EXCEPT ![c] = None]
           /\ \E answer \in {"kept", "failed"} : told' = [told EXCEPT ![c] = answer]

GiveUp(c) == /\ asked[c] # None
             /\ asked' = [asked EXCEPT ![c] = None]
             /\ told' = [told EXCEPT ![c] = "failed"]
             /\ UNCHANGED box

\* The caller has its answer and the call is over.
Leave(c) == /\ told[c] # None
            /\ told' = [told EXCEPT ![c] = None]
            /\ UNCHANGED <<box, asked>>

Close(p) == /\ box[p] # None
            /\ box[p].open
            /\ box' = [box EXCEPT ![p] = [secret |-> box[p].secret, open |-> FALSE]]
            /\ UNCHANGED <<asked, told>>

Next == \/ \E c \in Call, p \in Profile, s \in Secret : Ask(c, p, s)
        \/ \E c \in Call : Keep(c) \/ GiveUp(c) \/ Leave(c)
        \/ \E p \in Profile : Close(p)

Spec == Init /\ [][Next]_vars
=============================================================================
