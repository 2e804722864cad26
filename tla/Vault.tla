------------------------------- MODULE Vault -------------------------------
(***************************************************************************)
(* The credential vault of crates/security-store and crates/security:      *)
(* profiles with an encrypted secret each, and any number of processes     *)
(* that hold a CredentialVaultStore with a key ring of their own.          *)
(*                                                                         *)
(* A call is one method of a store, executed for a caller.  Locks are      *)
(* those of READ COMMITTED: FOR UPDATE and UPDATE hold a row until their   *)
(* transaction ends and see what was committed when they got it.           *)
(*                                                                         *)
(* Encryption is perfect: a ciphertext opens only with the associated data *)
(* it was made for and a ring that has its key.  All processes agree on    *)
(* the key behind a version.                                               *)
(***************************************************************************)
EXTENDS Integers

CONSTANTS Profile,     \* credential_profiles.id
          Org,         \* organizations
          Kind,        \* kinds as callers write them
          Trim,        \* str::trim on kinds
          Secret,      \* the secrets that callers send
          Store,       \* CredentialVaultStore instances, one per process
          Key,         \* versions of the master key
          Ring,        \* the versions in the key ring of a store
          Current,     \* current_version of the key ring of a store
          Call,        \* calls that can be in progress at a time
          None         \* no row, no value

\* CredentialVaultStore::new refuses a ring without a current key.
ASSUME VaultAssumption ==
  /\ Trim \in [Kind -> Kind]
  /\ Ring \in [Store -> SUBSET Key]
  /\ Current \in [Store -> Key]
  /\ \A st \in Store : Current[st] \in Ring[st]

VARIABLES profile,     \* credential_profiles
          cipher,      \* credential_ciphertexts
          call,        \* the calls in progress
          seen         \* history: secrets that were in force during a call

vars == <<profile, cipher, call, seen>>

-----------------------------------------------------------------------------
Aad == Org \X Profile \X Kind

Row == [org : Org, kind : Kind, active : BOOLEAN]
Cipher == [version : Key, aad : Aad, plain : Secret]

Request ==
  LET Args(ops, kinds, secrets) == [op : ops, store : Store, org : Org, profile : Profile,
                                    kind : kinds, secret : secrets]
  IN  Args({"create"}, Kind, Secret) \cup Args({"replace"}, {None}, Secret)
        \cup Args({"resolve", "deactivate", "rotate"}, {None}, {None})

Answer == {"ok", "unchanged", "NotFound", "Inactive", "MissingMasterKey",
           "AssociatedDataMismatch", "Error"}

\* What is absent is none of the values.
ASSUME NoneAssumption ==
  /\ None \notin Secret \cup Row \cup Cipher \cup Request
  /\ None \notin [secret : Secret, open : BOOLEAN] \cup [profile : Profile, secret : Secret]
  /\ None \notin {"kept", "failed"}

\* encrypt: a fresh data key, wrapped by the store's current master key.
\* Mutant: with the newest key of the ring.
EncryptNewest(secret, aad, st) ==
  [version |-> CHOOSE k \in Ring[st] : \A j \in Ring[st] : j <= k,
   aad |-> aad, plain |-> secret]

Encrypt(secret, aad, st) == [version |-> Current[st], aad |-> aad, plain |-> secret]

\* The outcome of decrypt, in the order of its checks.
Decrypt(c, aad, st) == IF c.aad # aad THEN "AssociatedDataMismatch"
                       ELSE IF c.version \notin Ring[st] THEN "MissingMasterKey"
                       ELSE "ok"

\* Mutant: the organization is not part of the search.
FoundById(r) == profile[r.profile] # None

\* WHERE p.id = $1 AND p.organization_id = $2.
Found(r) == profile[r.profile] # None /\ profile[r.profile].org = r.org

\* profile_aad from the request and the stored kind.
StoredAad(r) == <<r.org, r.profile, profile[r.profile].kind>>

-----------------------------------------------------------------------------
(* Calls and locks. *)

Pc == {"idle", "begun", "inserted", "encrypted", "updated", "half", "rotated", "done"}

CallState == [pc : Pc, req : Request \cup {None}, box : Cipher \cup {None},
              answer : Answer \cup {None}, got : Secret \cup {None}]

Idle == [pc |-> "idle", req |-> None, box |-> None, answer |-> None, got |-> None]

Begun(r) == [pc |-> "begun", req |-> r, box |-> None, answer |-> None, got |-> None]

\* A call moves on with a ciphertext in hand.
Carry(c, pc, box) ==
  call' = [call EXCEPT ![c] = [pc |-> pc, req |-> call[c].req, box |-> box,
                               answer |-> None, got |-> None]]

\* A call has its result; whatever transaction it had is over.
Reply(c, answer, secret) ==
  call' = [call EXCEPT ![c] = [pc |-> "done", req |-> call[c].req, box |-> None,
                               answer |-> answer, got |-> secret]]

At(c, op, pc) == call[c].pc = pc /\ call[c].req.op = op

\* Row locks of open transactions: rotation takes the profile first, then the
\* ciphertext; replacement the ciphertext alone.
HoldsProfile(c) == call[c].pc \in {"half", "rotated"}
HoldsCipher(c) == call[c].pc \in {"rotated", "updated"}

ProfileFree(p) == ~\E c \in Call : HoldsProfile(c) /\ call[c].req.profile = p

\* Mutant: rotation reads without a lock.
CipherFreeUnlocked(p) == TRUE

CipherFree(p) == ~\E c \in Call : HoldsCipher(c) /\ call[c].req.profile = p

-----------------------------------------------------------------------------
(* create. *)

\* A request arrives.  A new profile gets an id nobody has (Uuid::now_v7).
Start(c) ==
  /\ call[c].pc = "idle"
  /\ \E r \in Request :
       /\ r.op = "create" =>
            /\ profile[r.profile] = None
            /\ ~\E d \in Call : call[d].pc # "idle" /\ call[d].req.profile = r.profile
       /\ call' = [call EXCEPT ![c] = Begun(r)]
  /\ UNCHANGED <<profile, cipher>>

\* The secret is encrypted for the kind as it was written, and both rows are inserted
\* in one transaction.
Insert(c) ==
  /\ At(c, "create", "begun")
  /\ LET r == call[c].req
     IN  Carry(c, "inserted", Encrypt(r.secret, <<r.org, r.profile, r.kind>>, r.store))
  /\ UNCHANGED <<profile, cipher>>

\* Mutant: the profile is committed before its ciphertext is written.
CreatedCipherLater(c) == cipher

CreatedCipher(c) == [cipher EXCEPT ![call[c].req.profile] = call[c].box]

\* The kind is stored trimmed.  After a lost connection the caller gets an error although
\* the transaction has committed; so do the other commits below.
CommitCreate(c) ==
  /\ At(c, "create", "inserted")
  /\ LET r == call[c].req
     IN  profile' = [profile EXCEPT ![r.profile] =
                       [org |-> r.org, kind |-> Trim[r.kind], active |-> TRUE]]
  /\ cipher' = CreatedCipher(c)
  /\ \E answer \in {"ok", "Error"} : Reply(c, answer, None)

-----------------------------------------------------------------------------
(* resolve_secret, replace_secret and deactivate. *)

\* Mutant: an inactive profile resolves.
UsableAnyway(r) == TRUE

Usable(r) == profile[r.profile].active

\* One statement reads both rows; the rest happens on the copy.
Resolve(c) ==
  /\ At(c, "resolve", "begun")
  /\ LET r == call[c].req
         outcome == Decrypt(cipher[r.profile], StoredAad(r), r.store)
     IN  IF ~Found(r) THEN Reply(c, "NotFound", None)
         ELSE IF ~Usable(r) THEN Reply(c, "Inactive", None)
         ELSE Reply(c, outcome, IF outcome = "ok" THEN cipher[r.profile].plain ELSE None)
  /\ UNCHANGED <<profile, cipher>>

\* The profile is read without a lock, and the new secret encrypted.
CheckReplace(c) ==
  /\ At(c, "replace", "begun")
  /\ LET r == call[c].req
     IN  IF Found(r) /\ profile[r.profile].active
         THEN Carry(c, "encrypted", Encrypt(r.secret, StoredAad(r), r.store))
         ELSE Reply(c, "NotFound", None)
  /\ UNCHANGED <<profile, cipher>>

\* update_ciphertext: the ciphertext is found by id alone, whatever became of the profile.
UpdateCipher(c) ==
  /\ At(c, "replace", "encrypted")
  /\ CipherFree(call[c].req.profile)
  /\ Carry(c, "updated", call[c].box)
  /\ UNCHANGED <<profile, cipher>>

CommitReplace(c) ==
  /\ At(c, "replace", "updated")
  /\ cipher' = [cipher EXCEPT ![call[c].req.profile] = call[c].box]
  /\ \E answer \in {"ok", "Error"} : Reply(c, answer, None)
  /\ UNCHANGED profile

\* One UPDATE, which waits for a rotation that holds the profile.
Deactivate(c) ==
  /\ At(c, "deactivate", "begun")
  /\ LET r == call[c].req
     IN  IF Found(r) /\ profile[r.profile].active
         THEN /\ ProfileFree(r.profile)
              /\ profile' = [profile EXCEPT ![r.profile] =
                               [org |-> r.org, kind |-> profile[r.profile].kind,
                                active |-> FALSE]]
              /\ \E answer \in {"ok", "Error"} : Reply(c, answer, None)
         ELSE /\ Reply(c, "unchanged", None)
              /\ UNCHANGED profile
  /\ UNCHANGED cipher

-----------------------------------------------------------------------------
(* rotate_profile_key. *)

\* SELECT ... FOR UPDATE of the joined rows, locked one after the other.
LockProfile(c) ==
  /\ At(c, "rotate", "begun")
  /\ LET r == call[c].req
     IN  IF Found(r)
         THEN ProfileFree(r.profile) /\ Carry(c, "half", None)
         ELSE Reply(c, "NotFound", None)
  /\ UNCHANGED <<profile, cipher>>

\* A ciphertext that already has the current key of this store is left alone, whether
\* that key is newer or older than the one of another store.
LockCipher(c) ==
  /\ At(c, "rotate", "half")
  /\ CipherFree(call[c].req.profile)
  /\ LET r == call[c].req
         stored == cipher[r.profile]
         outcome == Decrypt(stored, StoredAad(r), r.store)
     IN  IF stored.version = Current[r.store] THEN Reply(c, "unchanged", None)
         ELSE IF outcome # "ok" THEN Reply(c, outcome, None)
         ELSE Carry(c, "rotated", Encrypt(stored.plain, StoredAad(r), r.store))
  /\ UNCHANGED <<profile, cipher>>

CommitRotate(c) ==
  /\ At(c, "rotate", "rotated")
  /\ cipher' = [cipher EXCEPT ![call[c].req.profile] = call[c].box]
  /\ \E answer \in {"ok", "Error"} : Reply(c, answer, None)
  /\ UNCHANGED profile

-----------------------------------------------------------------------------
(* The end of a call. *)

\* An error, a cancelled call or a dead process: the transaction is rolled back.
Drop(c) ==
  /\ call[c].pc \notin {"idle", "done"}
  /\ Reply(c, "Error", None)
  /\ UNCHANGED <<profile, cipher>>

Finish(c) ==
  /\ call[c].pc = "done"
  /\ call' = [call EXCEPT ![c] = Idle]
  /\ UNCHANGED <<profile, cipher>>

-----------------------------------------------------------------------------
\* The secret in force: that of the committed rows while the profile is active.
InForce(rows, ciphers, p) ==
  IF rows[p] # None /\ ciphers[p] # None /\ rows[p].active THEN {ciphers[p].plain} ELSE {}

\* What each call could have found since it began.
Watch ==
  seen' = [c \in Call |->
             IF call'[c].pc = "idle" THEN {}
             ELSE seen[c] \cup InForce(profile', cipher', call'[c].req.profile)]

Init ==
  /\ profile = [p \in Profile |-> None]
  /\ cipher = [p \in Profile |-> None]
  /\ call = [c \in Call |-> Idle]
  /\ seen = [c \in Call |-> {}]

Create(c) == Insert(c) \/ CommitCreate(c)
Replace(c) == CheckReplace(c) \/ UpdateCipher(c) \/ CommitReplace(c)
Rotate(c) == LockProfile(c) \/ LockCipher(c) \/ CommitRotate(c)

Step(c) == \/ Start(c) \/ Create(c) \/ Resolve(c) \/ Replace(c) \/ Deactivate(c)
           \/ Rotate(c) \/ Drop(c) \/ Finish(c)

Next == /\ \E c \in Call : Step(c)
        /\ Watch

Spec == Init /\ [][Next]_vars

-----------------------------------------------------------------------------
(* Properties. *)

\* The tables and calls keep their shape; in particular every committed profile has a
\* ciphertext and no ciphertext is without its profile, so the inner join of the reads
\* loses none (create inserts both in one transaction).
TypeOK ==
  /\ profile \in [Profile -> Row \cup {None}]
  /\ cipher \in [Profile -> Cipher \cup {None}]
  /\ \A p \in Profile : profile[p] = None <=> cipher[p] = None
  /\ call \in [Call -> CallState]
  /\ \A c \in Call : call[c].req = None <=> call[c].pc = "idle"
  /\ seen \in [Call -> SUBSET Secret]

\* What resolve_secret hands out was in force at some moment between the beginning of the
\* call and its answer, and the caller's organization owns the profile: never a secret
\* that was replaced before, none of a profile deactivated before, none in transit.
ResolvesWhatIsInForce ==
  \A c \in Call :
    call[c].pc = "done" /\ call[c].got # None
      => /\ call[c].got \in seen[c]
         /\ profile[call[c].req.profile].org = call[c].req.org

\* A store whose ring has the current keys of all stores never misses a key, whoever
\* rotates to and fro: a new key may be made current anywhere once it is in every ring.
NoMissingKeyAfterRollout ==
  \A c \in Call :
    call[c].pc = "done" /\ call[c].answer = "MissingMasterKey"
      => \E st \in Store : Current[st] \notin Ring[call[c].req.store]

\* Some store can open the committed ciphertext of a profile.
Readable(p) ==
  /\ profile[p] # None
  /\ \E st \in Store :
       Decrypt(cipher[p], <<profile[p].org, p, profile[p].kind>>, st) = "ok"

\* What could be opened once can be opened for ever: no rotation or replacement, by
\* whatever store and however late, leaves a ciphertext that no ring and no associated
\* data fit.
StaysReadable == [][\A p \in Profile : Readable(p) => Readable(p)']_vars

\* The vault is a box per profile: a rotation never shows and never brings back a secret
\* that a finished replacement had overwritten, an acknowledged replacement has happened,
\* and a profile is deactivated for good.
Boxes == [p \in Profile |-> IF profile[p] = None THEN None
                            ELSE [secret |-> cipher[p].plain, open |-> profile[p].active]]

Pending(st) == /\ st.pc \in {"begun", "inserted", "encrypted", "updated"}
               /\ st.req.op \in {"create", "replace"}

AskedBy(st) == IF Pending(st) THEN [profile |-> st.req.profile, secret |-> st.req.secret]
               ELSE None

ToldTo(st) == IF st.pc # "done" THEN None
              ELSE IF st.req.op \notin {"create", "replace"} THEN None
              ELSE IF st.answer = "ok" THEN "kept"
              ELSE "failed"

Promise == INSTANCE SecretBox WITH box <- Boxes,
                                 asked <- [c \in Call |-> AskedBy(call[c])],
                                 told <- [c \in Call |-> ToldTo(call[c])]

ImplementsSecretBox == Promise!Spec

\* What create has stored is what resolve_secret finds: the test
\* database_never_stores_plaintext_secret asserts it for one kind.
CreatedResolves ==
  \A c \in Call :
    call[c].pc = "done" /\ call[c].req.op = "resolve"
      => call[c].answer # "AssociatedDataMismatch"
=============================================================================
