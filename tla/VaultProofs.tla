---------------------------- MODULE VaultProofs ----------------------------
(***************************************************************************)
(* Theorems about Vault, for any number of profiles, callers, stores and   *)
(* keys: what is resolved is in force, rotations and late replacements     *)
(* leave nothing unreadable, and the tables implement SecretBox.           *)
(***************************************************************************)
EXTENDS Vault, TLAPS

-----------------------------------------------------------------------------
(* The inductive invariant. *)

\* Written with the current key of some store.
Written(x) == \E st \in Store : x.version = Current[st]

CiphersWritten == \A p \in Profile : profile[p] # None => Written(cipher[p])

Creates(st) == st.pc \in {"begun", "inserted"} /\ st.req.op = "create"

\* The id of a profile that is being created belongs to nobody else.
NewIdsAreFresh ==
  /\ \A c \in Call : Creates(call[c]) => profile[call[c].req.profile] = None
  /\ \A c, d \in Call : /\ Creates(call[c])
                        /\ Creates(call[d])
                        /\ call[c].req.profile = call[d].req.profile
                        => c = d

\* The row lock of a ciphertext excludes.
LocksExclude ==
  \A c, d \in Call : /\ HoldsCipher(c)
                     /\ HoldsCipher(d)
                     /\ call[c].req.profile = call[d].req.profile
                     => c = d

\* What a call has in hand was made for the rows it will be written to; a rotation still
\* has the secret that is stored.
CarriesCreated(st) ==
  st.pc = "inserted" =>
    /\ st.req.op = "create"
    /\ st.box = Encrypt(st.req.secret, <<st.req.org, st.req.profile, st.req.kind>>, st.req.store)

CarriesReplacement(st) ==
  st.pc \in {"encrypted", "updated"} =>
    /\ st.req.op = "replace"
    /\ Found(st.req)
    /\ st.box = Encrypt(st.req.secret, StoredAad(st.req), st.req.store)

CarriesRotated(st) ==
  /\ st.pc \in {"half", "rotated"} => st.req.op = "rotate" /\ Found(st.req)
  /\ st.pc = "rotated" =>
       st.box = Encrypt(cipher[st.req.profile].plain, StoredAad(st.req), st.req.store)

\* What a caller was told has its reasons.
AnsweredWell(st) ==
  /\ st.pc = "done" /\ st.got # None => Found(st.req)
  /\ st.pc = "done" /\ st.answer = "MissingMasterKey"
       => \E o \in Store : Current[o] \notin Ring[st.req.store]

CallOk(st) == /\ CarriesCreated(st)
              /\ CarriesReplacement(st)
              /\ CarriesRotated(st)
              /\ AnsweredWell(st)

GotIsSeen == \A c \in Call : call[c].pc = "done" /\ call[c].got # None => call[c].got \in seen[c]

IInv == /\ TypeOK
        /\ CiphersWritten
        /\ NewIdsAreFresh
        /\ LocksExclude
        /\ \A c \in Call : CallOk(call[c])
        /\ GotIsSeen
-----------------------------------------------------------------------------
(* Facts about the data. *)

LEMMA RequestType ==
  ASSUME NEW r \in Request
  PROVE  /\ r.op \in {"create", "replace", "resolve", "deactivate", "rotate"}
         /\ r.store \in Store /\ r.org \in Org /\ r.profile \in Profile
         /\ r.op = "create" => r.kind \in Kind
         /\ r.op \in {"create", "replace"} => r.secret \in Secret
BY DEF Request

LEMMA CallRequest ==
  ASSUME TypeOK, NEW c \in Call, call[c].pc # "idle"
  PROVE  call[c].req \in Request
BY DEF TypeOK, CallState

LEMMA RowType ==
  ASSUME TypeOK, NEW p \in Profile, profile[p] # None
  PROVE  /\ profile[p] \in Row
         /\ profile[p].org \in Org /\ profile[p].kind \in Kind /\ profile[p].active \in BOOLEAN
         /\ cipher[p] \in Cipher
         /\ cipher[p].version \in Key /\ cipher[p].aad \in Aad /\ cipher[p].plain \in Secret
<1>1. profile[p] \in Row /\ cipher[p] \in Cipher
  BY DEF TypeOK
<1>. QED  BY <1>1 DEF Row, Cipher

\* A ciphertext made by a store is one of the table, written with a current key.
LEMMA EncryptType ==
  ASSUME NEW s \in Secret, NEW a \in Aad, NEW st \in Store
  PROVE  /\ Encrypt(s, a, st) \in Cipher
         /\ Written(Encrypt(s, a, st))
         /\ Encrypt(s, a, st).plain = s /\ Encrypt(s, a, st).aad = a
         /\ Encrypt(s, a, st).version = Current[st]
         /\ Decrypt(Encrypt(s, a, st), a, st) = "ok"
<1>1. Current[st] \in Key /\ Current[st] \in Ring[st]
  BY VaultAssumption DEF VaultAssumption
<1>. QED  BY <1>1 DEF Encrypt, Cipher, Written, Decrypt

LEMMA StoredAadType ==
  ASSUME TypeOK, NEW r \in Request, Found(r)
  PROVE  StoredAad(r) \in Aad
BY RequestType, RowType DEF Found, StoredAad, Aad

\* Only a committed profile has something in force, namely its secret.
LEMMA InForceType ==
  ASSUME TypeOK, NEW p \in Profile
  PROVE  InForce(profile, cipher, p) \subseteq Secret
BY RowType DEF InForce

-----------------------------------------------------------------------------
(* Every step preserves the invariant. *)

LEMMA IInvInit == Init => IInv
<1>. SUFFICES ASSUME Init PROVE IInv
  OBVIOUS
<1>1. TypeOK
  BY DEF Init, TypeOK, Idle, CallState, Pc
<1>2. \A c \in Call : call[c].pc = "idle"
  BY DEF Init, Idle
<1>3. \A p \in Profile : profile[p] = None
  BY DEF Init
<1>. QED
  BY <1>1, <1>2, <1>3 DEF IInv, CiphersWritten, NewIdsAreFresh, Creates, LocksExclude, HoldsCipher,
       CallOk, CarriesCreated, CarriesReplacement, CarriesRotated, AnsweredWell, GotIsSeen

\* Rows are never removed, and keep their organization and kind.
RowsStay == \A p \in Profile : profile[p] # None => /\ profile'[p] # None
                                                    /\ profile'[p].org = profile[p].org
                                                    /\ profile'[p].kind = profile[p].kind

\* The history follows whatever the tables do.
LEMMA SeenGrows ==
  ASSUME IInv, Watch, NEW c \in Call, NEW x, call' = [call EXCEPT ![c] = x],
         (profile \in [Profile -> Row \cup {None}])', (cipher \in [Profile -> Cipher \cup {None}])',
         (\A p \in Profile : profile[p] = None <=> cipher[p] = None)',
         x \in CallState, x.req = None <=> x.pc = "idle",
         x.pc = "done" /\ x.got # None => x.got \in seen'[c]
  PROVE  TypeOK' /\ GotIsSeen'
<1>1. call' \in [Call -> CallState] /\ \A d \in Call : call'[d].req = None <=> call'[d].pc = "idle"
  BY DEF IInv, TypeOK
<1>2. \A d \in Call : call'[d].pc # "idle" => call'[d].req.profile \in Profile
  BY <1>1, RequestType DEF CallState
<1>3. ASSUME NEW p \in Profile PROVE InForce(profile', cipher', p) \subseteq Secret
  <2>1. profile'[p] # None => cipher'[p] \in Cipher /\ cipher'[p].plain \in Secret
    BY DEF Cipher
  <2>. QED  BY <2>1 DEF InForce
<1>4. seen' \in [Call -> SUBSET Secret]
  BY <1>2, <1>3 DEF Watch, IInv, TypeOK
<1>5. ASSUME NEW d \in Call, d # c, call'[d].pc = "done", call'[d].got # None
      PROVE  call'[d].got \in seen'[d]
  <2>1. call'[d] = call[d]
    BY <1>5 DEF IInv, TypeOK
  <2>2. call[d].got \in seen[d]
    BY <2>1, <1>5 DEF IInv, GotIsSeen
  <2>. QED  BY <2>1, <2>2, <1>5 DEF Watch
<1>6. call'[c] = x
  BY DEF IInv, TypeOK
<1>. QED  BY <1>1, <1>4, <1>5, <1>6 DEF TypeOK, GotIsSeen

\* A call moves on and the tables stay: only what is said of that call is at stake.
LEMMA QuietStep ==
  ASSUME IInv, Watch, UNCHANGED <<profile, cipher>>,
         NEW c \in Call, NEW x, call' = [call EXCEPT ![c] = x],
         x \in CallState, x.req = None <=> x.pc = "idle",
         x.pc = "done" /\ x.got # None => x.got \in seen'[c],
         CallOk(x),
         Creates(x) => /\ profile[x.req.profile] = None
                       /\ \A d \in Call \ {c} : Creates(call[d]) => call[d].req.profile # x.req.profile,
         x.pc \in {"rotated", "updated"} =>
           \A d \in Call \ {c} : HoldsCipher(d) => call[d].req.profile # x.req.profile
  PROVE  IInv'
<1>1. TypeOK' /\ GotIsSeen'
  BY SeenGrows DEF IInv, TypeOK
<1>2. CiphersWritten'
  BY DEF IInv, CiphersWritten, Written
<1>3. call'[c] = x /\ \A d \in Call \ {c} : call'[d] = call[d]
  BY DEF IInv, TypeOK
<1>4. NewIdsAreFresh'
  BY <1>3 DEF IInv, NewIdsAreFresh, Creates
<1>5. LocksExclude'
  BY <1>3 DEF IInv, LocksExclude, HoldsCipher
<1>6. ASSUME NEW d \in Call PROVE CallOk(call[d])'
  <2>1. CallOk(call'[d])
    BY <1>3 DEF IInv
  <2>. QED  BY <2>1 DEF CallOk, CarriesCreated, CarriesReplacement, CarriesRotated, AnsweredWell,
                        Found, StoredAad
<1>. QED  BY <1>1, <1>2, <1>4, <1>5, <1>6 DEF IInv

LEMMA StartPreserves == ASSUME IInv, Watch, NEW c \in Call, Start(c) PROVE IInv'
<1>1. PICK r \in Request :
        /\ r.op = "create" =>
             /\ profile[r.profile] = None
             /\ ~\E d \in Call : call[d].pc # "idle" /\ call[d].req.profile = r.profile
        /\ call' = [call EXCEPT ![c] = Begun(r)]
  BY DEF Start
<1>2. Begun(r) \in CallState /\ Begun(r).req # None
  BY NoneAssumption DEF NoneAssumption, Begun, CallState, Pc
<1>3. CallOk(Begun(r))
  BY DEF Begun, CallOk, CarriesCreated, CarriesReplacement, CarriesRotated, AnsweredWell
<1>4. UNCHANGED <<profile, cipher>>
  BY DEF Start
<1>. QED  BY <1>1, <1>2, <1>3, <1>4, QuietStep DEF Begun, Creates

\* A call that has its answer.
Answered(r, answer, secret) ==
  [pc |-> "done", req |-> r, box |-> None, answer |-> answer, got |-> secret]

\* A call that gets its answer and leaves the tables alone.
LEMMA QuietReply ==
  ASSUME IInv, Watch, UNCHANGED <<profile, cipher>>, NEW c \in Call, call[c].pc # "idle",
         NEW answer \in Answer, NEW secret \in Secret \cup {None}, Reply(c, answer, secret),
         secret # None => secret \in seen'[c] /\ Found(call[c].req),
         answer = "MissingMasterKey" => \E o \in Store : Current[o] \notin Ring[call[c].req.store]
  PROVE  IInv'
<1>1. PICK x : x = Answered(call[c].req, answer, secret)
  OBVIOUS
<1>2. call' = [call EXCEPT ![c] = x]
  BY <1>1 DEF Reply, Answered
<1>3. x.req \in Request /\ x.req # None
  BY <1>1, CallRequest, NoneAssumption DEF IInv, NoneAssumption, Answered
<1>4. x \in CallState
  BY <1>1, <1>3 DEF Answered, CallState, Pc
<1>5. CallOk(x)
  BY <1>1 DEF Answered, CallOk, CarriesCreated, CarriesReplacement, CarriesRotated, AnsweredWell
<1>. QED  BY <1>1, <1>2, <1>3, <1>4, <1>5, QuietStep DEF Answered, Creates

\* The state of a call with a ciphertext in hand.
Carrying(pc, r, box) == [pc |-> pc, req |-> r, box |-> box, answer |-> None, got |-> None]

LEMMA QuietCarry ==
  ASSUME IInv, Watch, UNCHANGED <<profile, cipher>>, NEW c \in Call, call[c].pc # "idle",
         NEW pc \in {"inserted", "encrypted", "updated", "half", "rotated"},
         NEW box \in Cipher \cup {None}, Carry(c, pc, box),
         CallOk(Carrying(pc, call[c].req, box)),
         Creates(Carrying(pc, call[c].req, box)) => Creates(call[c]),
         pc \in {"rotated", "updated"} => CipherFree(call[c].req.profile)
  PROVE  IInv'
<1>1. PICK x : x = Carrying(pc, call[c].req, box)
  OBVIOUS
<1>2. call' = [call EXCEPT ![c] = x]
  BY <1>1 DEF Carry, Carrying
<1>3. x.req = call[c].req /\ x.req \in Request /\ x.req # None
  BY <1>1, CallRequest, NoneAssumption DEF IInv, NoneAssumption, Carrying
<1>4. x \in CallState
  BY <1>1, <1>3 DEF Carrying, CallState, Pc
<1>5. x.pc = pc
  BY <1>1 DEF Carrying
<1>6. CallOk(x)
  BY <1>1
<1>7. Creates(x) => /\ profile[x.req.profile] = None
                    /\ \A d \in Call \ {c} : Creates(call[d]) => call[d].req.profile # x.req.profile
  BY <1>1, <1>3 DEF IInv, NewIdsAreFresh
<1>8. pc \in {"rotated", "updated"} =>
        \A d \in Call \ {c} : HoldsCipher(d) => call[d].req.profile # x.req.profile
  BY <1>3 DEF CipherFree
<1>. QED  BY <1>2, <1>3, <1>4, <1>5, <1>6, <1>7, <1>8, QuietStep

LEMMA InsertPreserves == ASSUME IInv, Watch, NEW c \in Call, Insert(c) PROVE IInv'
<1>. DEFINE r == call[c].req
            box == Encrypt(r.secret, <<r.org, r.profile, r.kind>>, r.store)
<1>1. call[c].pc = "begun" /\ r.op = "create" /\ r \in Request
  BY CallRequest DEF IInv, Insert, At
<1>2. r.secret \in Secret /\ <<r.org, r.profile, r.kind>> \in Aad /\ r.store \in Store
  BY <1>1, RequestType DEF Aad
<1>3. box \in Cipher
  BY <1>2, EncryptType
<1>4. Carry(c, "inserted", box) /\ UNCHANGED <<profile, cipher>>
  BY DEF Insert
<1>5. CallOk(Carrying("inserted", r, box))
  BY <1>1 DEF Carrying, CallOk, CarriesCreated, CarriesReplacement, CarriesRotated, AnsweredWell
<1>6. Creates(call[c])
  BY <1>1 DEF Creates
<1>. QED  BY <1>1, <1>3, <1>4, <1>5, <1>6, QuietCarry

\* The version of a stored ciphertext is current somewhere: a store that misses it does
\* not have every current key.
LEMMA MissingHasReason ==
  ASSUME IInv, NEW r \in Request, Found(r),
         Decrypt(cipher[r.profile], StoredAad(r), r.store) = "MissingMasterKey"
  PROVE  \E o \in Store : Current[o] \notin Ring[r.store]
<1>1. Written(cipher[r.profile])
  BY RequestType DEF IInv, CiphersWritten, Found
<1>. QED  BY <1>1 DEF Written, Decrypt

LEMMA ResolvePreserves == ASSUME IInv, Watch, NEW c \in Call, Resolve(c) PROVE IInv'
<1>1. PICK r \in Request : r = call[c].req /\ call[c].pc = "begun"
  BY CallRequest DEF IInv, Resolve, At
<1>2. PICK outcome : outcome = Decrypt(cipher[r.profile], StoredAad(r), r.store)
  OBVIOUS
<1>3. outcome \in Answer
  BY <1>2 DEF Decrypt, Answer
<1>4. UNCHANGED <<profile, cipher>>
  BY DEF Resolve
<1>5. CASE ~Found(r)
  <2>1. Reply(c, "NotFound", None)
    BY <1>1, <1>5 DEF Resolve
  <2>. QED  BY <1>1, <1>4, <2>1, QuietReply DEF Answer
<1>6. CASE Found(r) /\ ~Usable(r)
  <2>1. Reply(c, "Inactive", None)
    BY <1>1, <1>6 DEF Resolve
  <2>. QED  BY <1>1, <1>4, <2>1, QuietReply DEF Answer
<1>7. CASE Found(r) /\ Usable(r) /\ outcome = "ok"
  <2>1. PICK s \in Secret : s = cipher[r.profile].plain
    BY <1>7, RequestType, RowType DEF IInv, Found
  <2>2. Reply(c, "ok", s)
    BY <1>1, <1>2, <1>7, <2>1 DEF Resolve
  <2>3. call'[c].pc = "done" /\ call'[c].req = r
    BY <1>1, <2>2 DEF Reply, IInv, TypeOK
  <2>4. s \in InForce(profile', cipher', r.profile)
    <3>1. cipher[r.profile] # None
      BY <1>7, RequestType DEF IInv, TypeOK, Found
    <3>. QED  BY <1>4, <1>7, <2>1, <3>1 DEF InForce, Found, Usable
  <2>5. s \in seen'[c]
    BY <2>3, <2>4 DEF Watch
  <2>. QED  BY <1>1, <1>4, <1>7, <2>2, <2>5, QuietReply DEF Answer
<1>8. CASE Found(r) /\ Usable(r) /\ outcome # "ok"
  <2>1. Reply(c, outcome, None)
    BY <1>1, <1>2, <1>8 DEF Resolve
  <2>2. outcome = "MissingMasterKey" => \E o \in Store : Current[o] \notin Ring[r.store]
    BY <1>2, <1>8, MissingHasReason
  <2>. QED  BY <1>1, <1>3, <1>4, <2>1, <2>2, QuietReply
<1>. QED  BY <1>5, <1>6, <1>7, <1>8

LEMMA CheckReplacePreserves == ASSUME IInv, Watch, NEW c \in Call, CheckReplace(c) PROVE IInv'
<1>1. PICK r \in Request : r = call[c].req /\ call[c].pc = "begun" /\ r.op = "replace"
  BY CallRequest DEF IInv, CheckReplace, At
<1>2. UNCHANGED <<profile, cipher>>
  BY DEF CheckReplace
<1>3. CASE Found(r) /\ profile[r.profile].active
  <2>1. PICK box : box = Encrypt(r.secret, StoredAad(r), r.store)
    OBVIOUS
  <2>2. Carry(c, "encrypted", box)
    BY <1>1, <1>3, <2>1 DEF CheckReplace
  <2>3. box \in Cipher
    BY <1>1, <1>3, <2>1, RequestType, StoredAadType, EncryptType DEF IInv
  <2>4. CallOk(Carrying("encrypted", r, box))
    BY <1>1, <1>3, <2>1
       DEF Carrying, CallOk, CarriesCreated, CarriesReplacement, CarriesRotated, AnsweredWell
  <2>. QED  BY <1>1, <1>2, <2>2, <2>3, <2>4, QuietCarry DEF Carrying, Creates
<1>4. CASE ~(Found(r) /\ profile[r.profile].active)
  <2>1. Reply(c, "NotFound", None)
    BY <1>1, <1>4 DEF CheckReplace
  <2>. QED  BY <1>1, <1>2, <2>1, QuietReply DEF Answer
<1>. QED  BY <1>3, <1>4

LEMMA UpdateCipherPreserves == ASSUME IInv, Watch, NEW c \in Call, UpdateCipher(c) PROVE IInv'
<1>1. PICK r \in Request : r = call[c].req /\ call[c].pc = "encrypted" /\ r.op = "replace"
  BY CallRequest DEF IInv, UpdateCipher, At
<1>2. PICK box : box = call[c].box
  OBVIOUS
<1>3. Found(r) /\ box = Encrypt(r.secret, StoredAad(r), r.store)
  BY <1>1, <1>2 DEF IInv, CallOk, CarriesReplacement
<1>4. box \in Cipher \cup {None}
  BY <1>2 DEF IInv, TypeOK, CallState
<1>5. Carry(c, "updated", box) /\ CipherFree(r.profile) /\ UNCHANGED <<profile, cipher>>
  BY <1>1, <1>2 DEF UpdateCipher
<1>6. CallOk(Carrying("updated", r, box))
  BY <1>1, <1>3
     DEF Carrying, CallOk, CarriesCreated, CarriesReplacement, CarriesRotated, AnsweredWell
<1>. QED  BY <1>1, <1>4, <1>5, <1>6, QuietCarry DEF Carrying, Creates

LEMMA LockProfilePreserves == ASSUME IInv, Watch, NEW c \in Call, LockProfile(c) PROVE IInv'
<1>1. PICK r \in Request : r = call[c].req /\ call[c].pc = "begun" /\ r.op = "rotate"
  BY CallRequest DEF IInv, LockProfile, At
<1>2. UNCHANGED <<profile, cipher>>
  BY DEF LockProfile
<1>3. CASE Found(r)
  <2>1. Carry(c, "half", None)
    BY <1>1, <1>3 DEF LockProfile
  <2>2. CallOk(Carrying("half", r, None))
    BY <1>1, <1>3
       DEF Carrying, CallOk, CarriesCreated, CarriesReplacement, CarriesRotated, AnsweredWell
  <2>. QED  BY <1>1, <1>2, <2>1, <2>2, QuietCarry DEF Carrying, Creates
<1>4. CASE ~Found(r)
  <2>1. Reply(c, "NotFound", None)
    BY <1>1, <1>4 DEF LockProfile
  <2>. QED  BY <1>1, <1>2, <2>1, QuietReply DEF Answer
<1>. QED  BY <1>3, <1>4

LEMMA LockCipherPreserves == ASSUME IInv, Watch, NEW c \in Call, LockCipher(c) PROVE IInv'
<1>1. PICK r \in Request : r = call[c].req /\ call[c].pc = "half" /\ r.op = "rotate"
  BY CallRequest DEF IInv, LockCipher, At
<1>2. PICK outcome : outcome = Decrypt(cipher[r.profile], StoredAad(r), r.store)
  OBVIOUS
<1>3. UNCHANGED <<profile, cipher>> /\ CipherFree(r.profile)
  BY <1>1 DEF LockCipher
<1>4. Found(r)
  BY <1>1 DEF IInv, CallOk, CarriesRotated
<1>5. CASE cipher[r.profile].version = Current[r.store]
  <2>1. Reply(c, "unchanged", None)
    BY <1>1, <1>5 DEF LockCipher
  <2>. QED  BY <1>1, <1>3, <2>1, QuietReply DEF Answer
<1>6. CASE cipher[r.profile].version # Current[r.store] /\ outcome # "ok"
  <2>1. Reply(c, outcome, None)
    BY <1>1, <1>2, <1>6 DEF LockCipher
  <2>2. outcome \in Answer
    BY <1>2 DEF Decrypt, Answer
  <2>3. outcome = "MissingMasterKey" => \E o \in Store : Current[o] \notin Ring[r.store]
    BY <1>2, <1>4, MissingHasReason
  <2>. QED  BY <1>1, <1>3, <2>1, <2>2, <2>3, QuietReply
<1>7. CASE cipher[r.profile].version # Current[r.store] /\ outcome = "ok"
  <2>1. PICK box : box = Encrypt(cipher[r.profile].plain, StoredAad(r), r.store)
    OBVIOUS
  <2>2. Carry(c, "rotated", box)
    BY <1>1, <1>2, <1>7, <2>1 DEF LockCipher
  <2>3. box \in Cipher
    BY <1>4, <2>1, RequestType, RowType, StoredAadType, EncryptType DEF IInv, Found
  <2>4. CallOk(Carrying("rotated", r, box))
    BY <1>1, <1>4, <2>1
       DEF Carrying, CallOk, CarriesCreated, CarriesReplacement, CarriesRotated, AnsweredWell
  <2>. QED  BY <1>1, <1>3, <2>2, <2>3, <2>4, QuietCarry DEF Carrying, Creates
<1>. QED  BY <1>5, <1>6, <1>7

LEMMA DropPreserves == ASSUME IInv, Watch, NEW c \in Call, Drop(c) PROVE IInv'
<1>1. call[c].pc # "idle" /\ Reply(c, "Error", None) /\ UNCHANGED <<profile, cipher>>
  BY DEF Drop
<1>. QED  BY <1>1, QuietReply DEF Answer

LEMMA FinishPreserves == ASSUME IInv, Watch, NEW c \in Call, Finish(c) PROVE IInv'
<1>1. call' = [call EXCEPT ![c] = Idle] /\ UNCHANGED <<profile, cipher>>
  BY DEF Finish
<1>2. Idle \in CallState /\ Idle.req = None /\ Idle.pc = "idle"
  BY DEF Idle, CallState, Pc
<1>3. CallOk(Idle)
  BY <1>2 DEF CallOk, CarriesCreated, CarriesReplacement, CarriesRotated, AnsweredWell
<1>. QED  BY <1>1, <1>2, <1>3, QuietStep DEF Creates

\* A call commits both rows of a profile, changed or not, and is done.
Writes(c, q, row, box) ==
  /\ call[c].pc # "idle"
  /\ profile' = [profile EXCEPT ![q] = row]
  /\ cipher' = [cipher EXCEPT ![q] = box]
  /\ \E answer \in {"ok", "Error"} : Reply(c, answer, None)

\* A call writes the rows of its profile and is done.  Nobody else creates that profile
\* or is about to write back a secret read from it.
LEMMA WriteStep ==
  ASSUME IInv, Watch, NEW c \in Call, NEW q \in Profile, NEW row \in Row, NEW box \in Cipher,
         Writes(c, q, row, box), Written(box), RowsStay,
         \A d \in Call \ {c} : Creates(call[d]) => call[d].req.profile # q,
         \A d \in Call \ {c} : call[d].pc = "rotated" /\ call[d].req.profile = q
                                 => box.plain = cipher[q].plain
  PROVE  IInv'
<1>. PICK answer \in {"ok", "Error"} : Reply(c, answer, None)
  BY DEF Writes
<1>1. PICK x : x = Answered(call[c].req, answer, None)
  OBVIOUS
<1>2. call' = [call EXCEPT ![c] = x] /\ call'[c] = x /\ \A d \in Call \ {c} : call'[d] = call[d]
  BY <1>1 DEF Reply, Answered, IInv, TypeOK
<1>3. x.req \in Request /\ x.req # None /\ x.pc = "done" /\ x.got = None /\ x.answer = answer
  BY <1>1, CallRequest, NoneAssumption DEF IInv, NoneAssumption, Answered, Writes
<1>4. x \in CallState
  BY <1>1, <1>3 DEF Answered, CallState, Pc, Answer
<1>5. /\ profile' \in [Profile -> Row \cup {None}]
      /\ cipher' \in [Profile -> Cipher \cup {None}]
      /\ profile'[q] = row /\ cipher'[q] = box /\ row # None /\ box # None
      /\ \A p \in Profile \ {q} : profile'[p] = profile[p] /\ cipher'[p] = cipher[p]
  BY NoneAssumption DEF IInv, TypeOK, NoneAssumption, Writes
<1>6. \A p \in Profile : profile'[p] = None <=> cipher'[p] = None
  BY <1>5 DEF IInv, TypeOK
<1>7. TypeOK' /\ GotIsSeen'
  BY <1>2, <1>3, <1>4, <1>5, <1>6, SeenGrows
<1>8. CiphersWritten'
  BY <1>5 DEF IInv, CiphersWritten, Written
<1>9. NewIdsAreFresh'
  <2>1. \A d \in Call : Creates(call'[d]) => d # c /\ Creates(call[d]) /\ call'[d] = call[d]
    BY <1>2, <1>3 DEF Creates
  <2>2. \A d \in Call : Creates(call[d]) => call[d].req.profile \in Profile
    BY CallRequest, RequestType DEF IInv, Creates
  <2>3. \A d \in Call : Creates(call'[d]) => profile'[call'[d].req.profile] = None
    BY <1>5, <2>1, <2>2 DEF IInv, NewIdsAreFresh
  <2>4. \A d, e \in Call : /\ Creates(call'[d])
                           /\ Creates(call'[e])
                           /\ call'[d].req.profile = call'[e].req.profile
                           => d = e
    BY <2>1 DEF IInv, NewIdsAreFresh
  <2>. QED  BY <2>3, <2>4 DEF NewIdsAreFresh, Creates
<1>10. LocksExclude'
  BY <1>2, <1>3 DEF IInv, LocksExclude, HoldsCipher
<1>11. CallOk(call[c])'
  <2>1. (call[c].pc = "done" /\ call[c].got = None /\ call[c].answer # "MissingMasterKey")'
    BY <1>2, <1>3
  <2>. QED  BY <2>1 DEF CallOk, CarriesCreated, CarriesReplacement, CarriesRotated, AnsweredWell
<1>12. ASSUME NEW d \in Call \ {c} PROVE CallOk(call[d])'
  <2>1. PICK y : y = call[d] /\ y = call'[d]
    BY <1>2
  <2>2. CallOk(y) /\ (y.pc # "idle" => y.req \in Request)
    BY <2>1, CallRequest DEF IInv
  <2>3. y.pc # "idle" /\ Found(y.req) => Found(y.req)' /\ StoredAad(y.req)' = StoredAad(y.req)
    BY <2>2, RequestType DEF RowsStay, Found, StoredAad
  <2>4. y.pc = "rotated" => cipher'[y.req.profile].plain = cipher[y.req.profile].plain
    BY <1>5, <2>1, <2>2, RequestType
  <2>5. CarriesCreated(y)'
    BY <2>2 DEF CallOk, CarriesCreated, Encrypt
  <2>6. CarriesReplacement(y)'
    BY <2>2, <2>3 DEF CallOk, CarriesReplacement, Encrypt
  <2>7. CarriesRotated(y)'
    BY <2>2, <2>3, <2>4 DEF CallOk, CarriesRotated, Encrypt
  <2>8. AnsweredWell(y)'
    BY <2>2, <2>3 DEF CallOk, AnsweredWell
  <2>. QED
    BY <2>1, <2>5, <2>6, <2>7, <2>8 DEF CallOk, CarriesCreated, CarriesReplacement, CarriesRotated, AnsweredWell
<1>. QED  BY <1>7, <1>8, <1>9, <1>10, <1>11, <1>12 DEF IInv

\* What the writing steps do, each on one profile.
LEMMA CommitCreateWrites ==
  ASSUME IInv, NEW c \in Call, CommitCreate(c)
  PROVE  \E q \in Profile, row \in Row, box \in Cipher, answer \in {"ok", "Error"} :
           /\ q = call[c].req.profile
           /\ call[c].pc = "inserted" /\ call[c].req.op = "create"
           /\ profile[q] = None
           /\ row.active = TRUE
           /\ box = Encrypt(call[c].req.secret, <<row.org, q, call[c].req.kind>>, call[c].req.store)
           /\ box.plain = call[c].req.secret
           /\ Written(box)
           /\ profile' = [profile EXCEPT ![q] = row]
           /\ cipher' = [cipher EXCEPT ![q] = box]
           /\ Reply(c, answer, None)
<1>1. PICK r \in Request : r = call[c].req /\ call[c].pc = "inserted" /\ r.op = "create"
  BY CallRequest DEF IInv, CommitCreate, At
<1>2. PICK row : row = [org |-> r.org, kind |-> Trim[r.kind], active |-> TRUE]
  OBVIOUS
<1>3. row \in Row /\ row.org = r.org /\ row.active = TRUE
  BY <1>1, <1>2, RequestType, VaultAssumption DEF VaultAssumption, Row
<1>4. PICK box : box = call[c].box
  OBVIOUS
<1>5. box = Encrypt(r.secret, <<r.org, r.profile, r.kind>>, r.store)
  BY <1>1, <1>4 DEF IInv, CallOk, CarriesCreated
<1>6. r.secret \in Secret /\ <<r.org, r.profile, r.kind>> \in Aad /\ r.store \in Store /\ r.profile \in Profile
  BY <1>1, RequestType DEF Aad
<1>7. box \in Cipher /\ Written(box) /\ box.plain = r.secret
  BY <1>5, <1>6, EncryptType
<1>8. profile[r.profile] = None
  BY <1>1 DEF IInv, NewIdsAreFresh, Creates
<1>9. /\ profile' = [profile EXCEPT ![r.profile] = row]
      /\ cipher' = [cipher EXCEPT ![r.profile] = box]
      /\ \E answer \in {"ok", "Error"} : Reply(c, answer, None)
  BY <1>1, <1>2, <1>4 DEF CommitCreate, CreatedCipher
<1>. QED  BY <1>1, <1>3, <1>5, <1>6, <1>7, <1>8, <1>9

LEMMA CommitCreatePreserves == ASSUME IInv, Watch, NEW c \in Call, CommitCreate(c) PROVE IInv'
<1>1. PICK q \in Profile, row \in Row, box \in Cipher, answer \in {"ok", "Error"} :
        /\ q = call[c].req.profile
        /\ call[c].pc = "inserted" /\ call[c].req.op = "create"
        /\ profile[q] = None
        /\ Written(box)
        /\ profile' = [profile EXCEPT ![q] = row]
        /\ cipher' = [cipher EXCEPT ![q] = box]
        /\ Reply(c, answer, None)
  BY CommitCreateWrites
<1>2. RowsStay
  BY <1>1 DEF RowsStay, IInv, TypeOK
<1>3. \A d \in Call \ {c} : Creates(call[d]) => call[d].req.profile # q
  BY <1>1 DEF IInv, NewIdsAreFresh, Creates
<1>4. \A d \in Call \ {c} : ~(call[d].pc = "rotated" /\ call[d].req.profile = q)
  BY <1>1 DEF IInv, CallOk, CarriesRotated, Found
<1>5. Writes(c, q, row, box)
  BY <1>1 DEF Writes
<1>6. Written(box)
  BY <1>1
<1>. QED  BY <1>2, <1>3, <1>4, <1>5, <1>6, WriteStep

LEMMA CommitReplaceWrites ==
  ASSUME IInv, NEW c \in Call, CommitReplace(c)
  PROVE  \E q \in Profile, box \in Cipher, answer \in {"ok", "Error"} :
           /\ q = call[c].req.profile
           /\ call[c].pc = "updated" /\ call[c].req.op = "replace"
           /\ Found(call[c].req)
           /\ box = Encrypt(call[c].req.secret, StoredAad(call[c].req), call[c].req.store)
           /\ box.plain = call[c].req.secret
           /\ Written(box)
           /\ UNCHANGED profile
           /\ cipher' = [cipher EXCEPT ![q] = box]
           /\ Reply(c, answer, None)
<1>1. PICK r \in Request : r = call[c].req /\ call[c].pc = "updated" /\ r.op = "replace"
  BY CallRequest DEF IInv, CommitReplace, At
<1>2. PICK box : box = call[c].box
  OBVIOUS
<1>3. Found(r) /\ box = Encrypt(r.secret, StoredAad(r), r.store)
  BY <1>1, <1>2 DEF IInv, CallOk, CarriesReplacement
<1>4. r.secret \in Secret /\ StoredAad(r) \in Aad /\ r.store \in Store /\ r.profile \in Profile
  BY <1>1, <1>3, RequestType, StoredAadType DEF IInv
<1>5. box \in Cipher /\ Written(box) /\ box.plain = r.secret
  BY <1>3, <1>4, EncryptType
<1>6. /\ UNCHANGED profile
      /\ cipher' = [cipher EXCEPT ![r.profile] = box]
      /\ \E answer \in {"ok", "Error"} : Reply(c, answer, None)
  BY <1>1, <1>2 DEF CommitReplace
<1>. QED  BY <1>1, <1>3, <1>4, <1>5, <1>6

LEMMA CommitRotateWrites ==
  ASSUME IInv, NEW c \in Call, CommitRotate(c)
  PROVE  \E q \in Profile, box \in Cipher, answer \in {"ok", "Error"} :
           /\ q = call[c].req.profile
           /\ call[c].pc = "rotated" /\ call[c].req.op = "rotate"
           /\ Found(call[c].req)
           /\ box = Encrypt(cipher[q].plain, StoredAad(call[c].req), call[c].req.store)
           /\ box.plain = cipher[q].plain
           /\ Written(box)
           /\ UNCHANGED profile
           /\ cipher' = [cipher EXCEPT ![q] = box]
           /\ Reply(c, answer, None)
<1>1. PICK r \in Request : r = call[c].req /\ call[c].pc = "rotated" /\ r.op = "rotate"
  BY CallRequest DEF IInv, CommitRotate, At
<1>2. PICK box : box = call[c].box
  OBVIOUS
<1>3. Found(r) /\ box = Encrypt(cipher[r.profile].plain, StoredAad(r), r.store)
  BY <1>1, <1>2 DEF IInv, CallOk, CarriesRotated
<1>4. cipher[r.profile].plain \in Secret /\ StoredAad(r) \in Aad /\ r.store \in Store /\ r.profile \in Profile
  BY <1>1, <1>3, RequestType, RowType, StoredAadType DEF IInv, Found
<1>5. box \in Cipher /\ Written(box) /\ box.plain = cipher[r.profile].plain
  BY <1>3, <1>4, EncryptType
<1>6. /\ UNCHANGED profile
      /\ cipher' = [cipher EXCEPT ![r.profile] = box]
      /\ \E answer \in {"ok", "Error"} : Reply(c, answer, None)
  BY <1>1, <1>2 DEF CommitRotate
<1>. QED  BY <1>1, <1>3, <1>4, <1>5, <1>6

\* Both hold the ciphertext, so that nobody else is rotating it.
LEMMA CommitCipherPreserves ==
  ASSUME IInv, Watch, NEW c \in Call, CommitReplace(c) \/ CommitRotate(c)
  PROVE  IInv'
<1>1. PICK q \in Profile, box \in Cipher, answer \in {"ok", "Error"} :
        /\ q = call[c].req.profile
        /\ call[c].pc \in {"updated", "rotated"}
        /\ Found(call[c].req)
        /\ Written(box)
        /\ UNCHANGED profile
        /\ cipher' = [cipher EXCEPT ![q] = box]
        /\ Reply(c, answer, None)
  BY CommitReplaceWrites, CommitRotateWrites
<1>2. PICK row \in Row : row = profile[q]
  BY <1>1, RowType DEF IInv, Found
<1>3. profile' = [profile EXCEPT ![q] = row]
  BY <1>1, <1>2 DEF IInv, TypeOK
<1>4. RowsStay
  BY <1>1 DEF RowsStay
<1>5. \A d \in Call \ {c} : Creates(call[d]) => call[d].req.profile # q
  BY <1>1 DEF IInv, NewIdsAreFresh, Found
<1>6. \A d \in Call \ {c} : ~(call[d].pc = "rotated" /\ call[d].req.profile = q)
  BY <1>1 DEF IInv, LocksExclude, HoldsCipher
<1>7. Writes(c, q, row, box)
  BY <1>1, <1>3 DEF Writes
<1>8. Written(box)
  BY <1>1
<1>. QED  BY <1>4, <1>5, <1>6, <1>7, <1>8, WriteStep

LEMMA DeactivateWrites ==
  ASSUME IInv, NEW c \in Call, Deactivate(c), ~(UNCHANGED profile)
  PROVE  \E q \in Profile, row \in Row, answer \in {"ok", "Error"} :
           /\ q = call[c].req.profile
           /\ call[c].pc = "begun" /\ call[c].req.op = "deactivate"
           /\ profile[q] # None
           /\ profile[q].active
           /\ row = [org |-> profile[q].org, kind |-> profile[q].kind, active |-> FALSE]
           /\ profile' = [profile EXCEPT ![q] = row]
           /\ UNCHANGED cipher
           /\ Reply(c, answer, None)
<1>1. PICK r \in Request : r = call[c].req /\ call[c].pc = "begun" /\ r.op = "deactivate"
  BY CallRequest DEF IInv, Deactivate, At
<1>2. Found(r) /\ profile[r.profile].active /\ UNCHANGED cipher
  BY <1>1 DEF Deactivate
<1>3. r.profile \in Profile /\ profile[r.profile] # None /\ profile[r.profile].org = r.org
  BY <1>1, <1>2, RequestType DEF Found
<1>4. PICK row : row = [org |-> r.org, kind |-> profile[r.profile].kind, active |-> FALSE]
  OBVIOUS
<1>5. row \in Row
  BY <1>1, <1>3, <1>4, RequestType, RowType DEF IInv, Row
<1>6. /\ profile' = [profile EXCEPT ![r.profile] = row]
      /\ \E answer \in {"ok", "Error"} : Reply(c, answer, None)
  BY <1>1, <1>2, <1>4 DEF Deactivate
<1>. QED  BY <1>1, <1>2, <1>3, <1>4, <1>5, <1>6

LEMMA DeactivatePreserves == ASSUME IInv, Watch, NEW c \in Call, Deactivate(c) PROVE IInv'
<1>1. CASE UNCHANGED profile
  <2>1. call[c].pc # "idle" /\ UNCHANGED cipher
    BY DEF Deactivate, At
  <2>2. \E answer \in Answer : answer # "MissingMasterKey" /\ Reply(c, answer, None)
    BY DEF Deactivate, Answer
  <2>. QED  BY <1>1, <2>1, <2>2, QuietReply
<1>2. CASE ~(UNCHANGED profile)
  <2>1. PICK q \in Profile, row \in Row, answer \in {"ok", "Error"} :
          /\ q = call[c].req.profile
          /\ call[c].pc = "begun" /\ call[c].req.op = "deactivate"
          /\ profile[q] # None
          /\ row = [org |-> profile[q].org, kind |-> profile[q].kind, active |-> FALSE]
          /\ profile' = [profile EXCEPT ![q] = row]
          /\ UNCHANGED cipher
          /\ Reply(c, answer, None)
    BY <1>2, DeactivateWrites
  <2>2. PICK box \in Cipher : box = cipher[q]
    BY <2>1, RowType DEF IInv
  <2>3. cipher' = [cipher EXCEPT ![q] = box] /\ Written(box)
    BY <2>1, <2>2 DEF IInv, TypeOK, CiphersWritten
  <2>4. RowsStay
    BY <2>1, NoneAssumption DEF RowsStay, IInv, TypeOK, NoneAssumption
  <2>5. \A d \in Call \ {c} : Creates(call[d]) => call[d].req.profile # q
    BY <2>1 DEF IInv, NewIdsAreFresh
  <2>6. \A d \in Call \ {c} : box.plain = cipher[q].plain
    BY <2>2
  <2>7. Writes(c, q, row, box)
    BY <2>1, <2>3 DEF Writes
  <2>8. Written(box)
    BY <2>3
  <2>. QED  BY <2>4, <2>5, <2>6, <2>7, <2>8, WriteStep
<1>. QED  BY <1>1, <1>2

THEOREM IInvNext == IInv /\ [Next]_vars => IInv'
<1>. SUFFICES ASSUME IInv, [Next]_vars PROVE IInv'
  OBVIOUS
<1>1. CASE UNCHANGED vars
  BY <1>1 DEF vars, IInv, TypeOK, CiphersWritten, Written, NewIdsAreFresh, LocksExclude, HoldsCipher,
     CallOk, CarriesCreated, CarriesReplacement, CarriesRotated, AnsweredWell, Found, StoredAad,
     GotIsSeen
<1>2. ASSUME NEW c \in Call, Step(c), Watch PROVE IInv'
  BY <1>2, StartPreserves, InsertPreserves, CommitCreatePreserves, ResolvePreserves,
     CheckReplacePreserves, UpdateCipherPreserves, CommitCipherPreserves, DeactivatePreserves,
     LockProfilePreserves, LockCipherPreserves, DropPreserves, FinishPreserves
     DEF Step, Create, Replace, Rotate
<1>. QED  BY <1>1, <1>2 DEF Next

\* The strengthened invariant, for every instance of the constants.
THEOREM Inductive == Spec => []IInv
BY IInvInit, IInvNext, PTL DEF Spec

-----------------------------------------------------------------------------
(* The properties. *)

\* Tables, calls and history keep their shape, and every committed profile has its
\* ciphertext (create).
THEOREM TypeCorrect == Spec => []TypeOK
<1>1. IInv => TypeOK
  BY DEF IInv
<1>. QED  BY <1>1, Inductive, PTL

\* Nobody resolves a secret that was not in force during the call, or one of another
\* organization (resolve_secret).
THEOREM ResolvesInForce == Spec => []ResolvesWhatIsInForce
<1>1. IInv => ResolvesWhatIsInForce
  BY DEF IInv, GotIsSeen, CallOk, AnsweredWell, Found, ResolvesWhatIsInForce
<1>. QED  BY <1>1, Inductive, PTL

\* Once every ring has every current key, no store misses a key (KeyRing::get).
THEOREM RolloutIsSafe == Spec => []NoMissingKeyAfterRollout
<1>1. IInv => NoMissingKeyAfterRollout
  BY DEF IInv, CallOk, AnsweredWell, NoMissingKeyAfterRollout
<1>. QED  BY <1>1, Inductive, PTL

\* Every step leaves the tables alone, creates a profile, replaces or rotates a
\* ciphertext, or deactivates a profile.
LEMMA WhatStepsWrite ==
  ASSUME NEW c \in Call, Step(c)
  PROVE  \/ UNCHANGED <<profile, cipher>>
         \/ CommitCreate(c)
         \/ CommitReplace(c)
         \/ CommitRotate(c)
         \/ Deactivate(c) /\ ~(UNCHANGED profile)
BY DEF Step, Create, Replace, Rotate, Start, Insert, Resolve, CheckReplace, UpdateCipher,
       Deactivate, LockProfile, LockCipher, Drop, Finish

\* No step makes a readable ciphertext unreadable (replace_secret, rotate_profile_key).
THEOREM NothingGetsLost == Spec => StaysReadable
<1>1. ASSUME IInv, [Next]_vars, NEW p \in Profile, Readable(p) PROVE Readable(p)'
  <2>1. CASE UNCHANGED <<profile, cipher>>
    BY <1>1, <2>1 DEF Readable
  <2>2. ASSUME NEW c \in Call, CommitCreate(c) PROVE Readable(p)'
    <3>1. PICK q \in Profile, row \in Row, box \in Cipher, answer \in {"ok", "Error"} :
            /\ q = call[c].req.profile
            /\ call[c].pc = "inserted" /\ call[c].req.op = "create"
            /\ profile[q] = None
            /\ Written(box)
            /\ profile' = [profile EXCEPT ![q] = row]
            /\ cipher' = [cipher EXCEPT ![q] = box]
            /\ Reply(c, answer, None)
      BY <1>1, <2>2, CommitCreateWrites
    <3>2. p # q
      BY <1>1, <3>1 DEF Readable
    <3>3. profile'[p] = profile[p] /\ cipher'[p] = cipher[p]
      BY <1>1, <3>1, <3>2 DEF IInv, TypeOK
    <3>. QED  BY <1>1, <3>3 DEF Readable
  <2>3. ASSUME NEW c \in Call, CommitReplace(c) \/ CommitRotate(c) PROVE Readable(p)'
    <3>1. PICK q \in Profile, box \in Cipher :
            /\ q = call[c].req.profile
            /\ call[c].pc \in {"updated", "rotated"}
            /\ Found(call[c].req)
            /\ \E s \in Secret : box = Encrypt(s, StoredAad(call[c].req), call[c].req.store)
            /\ UNCHANGED profile
            /\ cipher' = [cipher EXCEPT ![q] = box]
      <4>1. CASE CommitReplace(c)
        <5>1. call[c].req \in Request /\ call[c].req.op = "replace"
          BY <1>1, <4>1, CallRequest DEF IInv, CommitReplace, At
        <5>2. call[c].req.secret \in Secret
          BY <5>1, RequestType
        <5>. QED  BY <1>1, <4>1, <5>2, CommitReplaceWrites
      <4>2. CASE CommitRotate(c)
        <5>1. \A q \in Profile : profile[q] # None => cipher[q].plain \in Secret
          BY <1>1, RowType DEF IInv
        <5>. QED  BY <1>1, <4>2, <5>1, CommitRotateWrites DEF Found
      <4>. QED  BY <2>3, <4>1, <4>2
    <3>2. CASE p # q
      <4>1. profile'[p] = profile[p] /\ cipher'[p] = cipher[p]
        BY <1>1, <3>1, <3>2 DEF IInv, TypeOK
      <4>. QED  BY <1>1, <4>1 DEF Readable
    <3>3. CASE p = q
      <4>1. PICK r \in Request : r = call[c].req
        BY <1>1, <3>1, CallRequest DEF IInv
      <4>2. PICK s \in Secret : box = Encrypt(s, StoredAad(r), r.store)
        BY <3>1, <4>1
      <4>3. PICK aad \in Aad : aad = StoredAad(r)
        BY <1>1, <3>1, <4>1, StoredAadType DEF IInv
      <4>4. Decrypt(box, aad, r.store) = "ok" /\ r.store \in Store
        BY <4>1, <4>2, <4>3, RequestType, EncryptType
      <4>5. profile' = profile /\ cipher'[p] = box /\ profile[p] # None
        BY <1>1, <3>1, <3>3 DEF IInv, TypeOK, Found
      <4>6. aad = <<profile[p].org, p, profile[p].kind>>
        BY <3>1, <3>3, <4>1, <4>3 DEF Found, StoredAad
      <4>7. Decrypt(cipher'[p], <<profile'[p].org, p, profile'[p].kind>>, r.store) = "ok"
        BY <4>4, <4>5, <4>6
      <4>. QED  BY <4>4, <4>5, <4>7 DEF Readable, Decrypt
    <3>. QED  BY <3>2, <3>3
  <2>4. ASSUME NEW c \in Call, Deactivate(c), ~(UNCHANGED profile) PROVE Readable(p)'
    <3>1. PICK q \in Profile, row \in Row :
            /\ row = [org |-> profile[q].org, kind |-> profile[q].kind, active |-> FALSE]
            /\ profile' = [profile EXCEPT ![q] = row]
            /\ UNCHANGED cipher
      BY <1>1, <2>4, DeactivateWrites
    <3>2. profile'[p] # None /\ profile'[p].org = profile[p].org /\ profile'[p].kind = profile[p].kind
      BY <1>1, <3>1, NoneAssumption DEF IInv, TypeOK, Readable, NoneAssumption
    <3>. QED  BY <1>1, <3>1, <3>2 DEF Readable, Decrypt
  <2>. QED  BY <1>1, <2>1, <2>2, <2>3, <2>4, WhatStepsWrite DEF Next, vars
<1>2. IInv /\ [Next]_vars => [\A p \in Profile : Readable(p) => Readable(p)']_vars
  BY <1>1
<1>. QED  BY <1>2, Inductive, PTL DEF Spec, StaysReadable

-----------------------------------------------------------------------------
(* The vault implements SecretBox. *)

AbsAsked == [c \in Call |-> AskedBy(call[c])]
AbsTold == [c \in Call |-> ToldTo(call[c])]

\* Writing one profile writes one box.
LEMMA BoxWritten ==
  ASSUME NEW q \in Profile, NEW row \in Row, NEW box \in Cipher, IInv,
         profile' = [profile EXCEPT ![q] = row], cipher' = [cipher EXCEPT ![q] = box]
  PROVE  Boxes' = [Boxes EXCEPT ![q] = [secret |-> box.plain, open |-> row.active]]
<1>1. profile'[q] = row /\ cipher'[q] = box /\ row # None
  BY NoneAssumption DEF IInv, TypeOK, NoneAssumption
<1>2. \A p \in Profile \ {q} : profile'[p] = profile[p] /\ cipher'[p] = cipher[p]
  BY DEF IInv, TypeOK
<1>. QED  BY <1>1, <1>2 DEF Boxes

\* A call that moves on moves on in its own two variables.
LEMMA CallMoves ==
  ASSUME IInv, NEW c \in Call, NEW x, call' = [call EXCEPT ![c] = x]
  PROVE  /\ AbsAsked' = [AbsAsked EXCEPT ![c] = AskedBy(x)]
         /\ AbsTold' = [AbsTold EXCEPT ![c] = ToldTo(x)]
<1>1. call'[c] = x /\ \A d \in Call \ {c} : call'[d] = call[d]
  BY DEF IInv, TypeOK
<1>2. ASSUME NEW d \in Call
      PROVE  /\ AbsAsked'[d] = AskedBy(call'[d])
             /\ AbsTold'[d] = ToldTo(call'[d])
             /\ AbsAsked[d] = AskedBy(call[d])
             /\ AbsTold[d] = ToldTo(call[d])
  BY DEF AbsAsked, AbsTold
<1>. QED  BY <1>1, <1>2 DEF AbsAsked, AbsTold

\* What a request to write asks for.
LEMMA AskedType ==
  ASSUME NEW r \in Request, r.op \in {"create", "replace"}
  PROVE  [profile |-> r.profile, secret |-> r.secret] # None
BY RequestType, NoneAssumption DEF NoneAssumption

\* A call that writes is pending until it is answered.
LEMMA WriterIsPending ==
  ASSUME IInv, NEW c \in Call, call[c].pc \notin {"idle", "done"},
         call[c].req.op \in {"create", "replace"}
  PROVE  Pending(call[c])
BY DEF IInv, TypeOK, CallState, Pc, CallOk, CarriesRotated, Pending

\* A quiet answer gives a pending request up and is nothing otherwise.
LEMMA QuietReplyMaps ==
  ASSUME IInv, NEW c \in Call, call[c].pc \notin {"idle", "done"}, UNCHANGED <<profile, cipher>>,
         NEW answer, NEW secret, Reply(c, answer, secret),
         answer = "ok" => call[c].req.op \notin {"create", "replace"}
  PROVE  [Promise!Next]_(Promise!vars)
<1>1. PICK x : x = Answered(call[c].req, answer, secret)
  OBVIOUS
<1>2. call' = [call EXCEPT ![c] = x]
  BY <1>1 DEF Reply, Answered
<1>3. /\ AbsAsked' = [AbsAsked EXCEPT ![c] = AskedBy(x)]
      /\ AbsTold' = [AbsTold EXCEPT ![c] = ToldTo(x)]
  BY <1>2, CallMoves
<1>4. UNCHANGED Boxes
  BY DEF Boxes
<1>5. AskedBy(x) = None /\ AbsAsked[c] = AskedBy(call[c]) /\ AbsTold[c] = None
  BY <1>1 DEF Answered, AskedBy, Pending, AbsAsked, AbsTold, ToldTo
<1>6. CASE call[c].req.op \in {"create", "replace"}
  <2>1. AbsAsked[c] # None
    BY <1>5, <1>6, WriterIsPending, CallRequest, AskedType DEF AskedBy, IInv
  <2>2. ToldTo(x) = "failed"
    BY <1>1, <1>6 DEF Answered, ToldTo
  <2>3. Promise!GiveUp(c)
    BY <1>3, <1>4, <1>5, <2>1, <2>2 DEF Promise!GiveUp, AbsAsked, AbsTold
  <2>. QED  BY <2>3 DEF Promise!Next
<1>7. CASE call[c].req.op \notin {"create", "replace"}
  <2>1. ToldTo(x) = None /\ AbsAsked[c] = None
    BY <1>1, <1>5, <1>7 DEF Answered, ToldTo, AskedBy, Pending
  <2>2. AbsAsked' = AbsAsked /\ AbsTold' = AbsTold
    BY <1>3, <1>5, <2>1 DEF AbsAsked, AbsTold
  <2>. QED  BY <1>4, <2>2 DEF Promise!vars, AbsAsked, AbsTold
<1>. QED  BY <1>6, <1>7

\* A call that carries on is still asking for the same.
LEMMA QuietCarryMaps ==
  ASSUME IInv, NEW c \in Call, call[c].pc \notin {"idle", "done"}, UNCHANGED <<profile, cipher>>,
         NEW pc \in {"inserted", "encrypted", "updated", "half", "rotated"},
         NEW box, Carry(c, pc, box),
         pc \in {"half", "rotated"} => call[c].req.op = "rotate"
  PROVE  [Promise!Next]_(Promise!vars)
<1>1. PICK x : x = Carrying(pc, call[c].req, box)
  OBVIOUS
<1>2. call' = [call EXCEPT ![c] = x]
  BY <1>1 DEF Carry, Carrying
<1>3. /\ AbsAsked' = [AbsAsked EXCEPT ![c] = AskedBy(x)]
      /\ AbsTold' = [AbsTold EXCEPT ![c] = ToldTo(x)]
  BY <1>2, CallMoves
<1>4. UNCHANGED Boxes
  BY DEF Boxes
<1>5. AskedBy(x) = AskedBy(call[c])
  <2>1. CASE call[c].req.op \in {"create", "replace"}
    <3>1. Pending(call[c]) /\ Pending(x) /\ x.req = call[c].req
      BY <1>1, <2>1, WriterIsPending DEF Carrying, Pending
    <3>. QED  BY <3>1 DEF AskedBy
  <2>2. CASE call[c].req.op \notin {"create", "replace"}
    BY <1>1, <2>2 DEF AskedBy, Pending, Carrying
  <2>. QED  BY <2>1, <2>2
<1>6. ToldTo(x) = None /\ ToldTo(call[c]) = None
  BY <1>1 DEF ToldTo, Carrying
<1>7. AbsAsked' = AbsAsked /\ AbsTold' = AbsTold
  BY <1>3, <1>5, <1>6 DEF AbsAsked, AbsTold
<1>. QED  BY <1>4, <1>7 DEF Promise!vars, AbsAsked, AbsTold

LEMMA StartMaps ==
  ASSUME IInv, NEW c \in Call, Start(c)
  PROVE  [Promise!Next]_(Promise!vars)
<1>1. PICK r \in Request : call' = [call EXCEPT ![c] = Begun(r)]
  BY DEF Start
<1>2. PICK x : x = Begun(r)
  OBVIOUS
<1>3. /\ AbsAsked' = [AbsAsked EXCEPT ![c] = AskedBy(x)]
      /\ AbsTold' = [AbsTold EXCEPT ![c] = ToldTo(x)]
  BY <1>1, <1>2, CallMoves
<1>4. UNCHANGED Boxes
  BY DEF Start, Boxes
<1>5. AbsAsked[c] = None /\ AbsTold[c] = None /\ ToldTo(x) = None
  BY <1>2 DEF Start, Begun, AbsAsked, AbsTold, AskedBy, Pending, ToldTo
<1>6. AbsTold' = AbsTold
  BY <1>3, <1>5 DEF AbsTold
<1>7. CASE r.op \in {"create", "replace"}
  <2>1. AskedBy(x) = [profile |-> r.profile, secret |-> r.secret]
    BY <1>2, <1>7 DEF Begun, AskedBy, Pending
  <2>2. r.profile \in Profile /\ r.secret \in Secret
    BY <1>7, RequestType
  <2>3. Promise!Ask(c, r.profile, r.secret)
    BY <1>3, <1>4, <1>5, <1>6, <2>1 DEF Promise!Ask, AbsAsked, AbsTold
  <2>. QED  BY <2>2, <2>3 DEF Promise!Next
<1>8. CASE r.op \notin {"create", "replace"}
  <2>1. AskedBy(x) = None
    BY <1>2, <1>8 DEF Begun, AskedBy, Pending
  <2>2. AbsAsked' = AbsAsked
    BY <1>3, <1>5, <2>1 DEF AbsAsked
  <2>. QED  BY <1>4, <1>6, <2>2 DEF Promise!vars, AbsAsked, AbsTold
<1>. QED  BY <1>7, <1>8

LEMMA FinishMaps ==
  ASSUME IInv, NEW c \in Call, Finish(c)
  PROVE  [Promise!Next]_(Promise!vars)
<1>1. PICK x : x = Idle
  OBVIOUS
<1>2. /\ AbsAsked' = [AbsAsked EXCEPT ![c] = AskedBy(x)]
      /\ AbsTold' = [AbsTold EXCEPT ![c] = ToldTo(x)]
  BY <1>1, CallMoves DEF Finish
<1>3. UNCHANGED Boxes
  BY DEF Finish, Boxes
<1>4. AskedBy(x) = None /\ ToldTo(x) = None /\ AbsAsked[c] = None
  BY <1>1 DEF Finish, Idle, AskedBy, Pending, ToldTo, AbsAsked
<1>5. AbsAsked' = AbsAsked
  BY <1>2, <1>4 DEF AbsAsked
<1>6. CASE AbsTold[c] = None
  <2>1. AbsTold' = AbsTold
    BY <1>2, <1>4, <1>6 DEF AbsTold
  <2>. QED  BY <1>3, <1>5, <2>1 DEF Promise!vars, AbsAsked, AbsTold
<1>7. CASE AbsTold[c] # None
  <2>1. Promise!Leave(c)
    BY <1>2, <1>3, <1>4, <1>5, <1>7 DEF Promise!Leave, AbsAsked, AbsTold
  <2>. QED  BY <2>1 DEF Promise!Next
<1>. QED  BY <1>6, <1>7

\* A commit that puts the secret of its call into the box.
LEMMA KeepMaps ==
  ASSUME IInv, NEW c \in Call, call[c].pc \notin {"idle", "done"},
         call[c].req.op \in {"create", "replace"},
         NEW q \in Profile, q = call[c].req.profile, NEW row \in Row, NEW box \in Cipher,
         Writes(c, q, row, box), box.plain = call[c].req.secret,
         row.active = (profile[q] = None \/ profile[q].active)
  PROVE  [Promise!Next]_(Promise!vars)
<1>1. PICK answer \in {"ok", "Error"} : Reply(c, answer, None)
  BY DEF Writes
<1>2. PICK x : x = Answered(call[c].req, answer, None)
  OBVIOUS
<1>3. call' = [call EXCEPT ![c] = x]
  BY <1>1, <1>2 DEF Reply, Answered
<1>4. /\ AbsAsked' = [AbsAsked EXCEPT ![c] = AskedBy(x)]
      /\ AbsTold' = [AbsTold EXCEPT ![c] = ToldTo(x)]
  BY <1>3, CallMoves
<1>5. AskedBy(x) = None /\ ToldTo(x) \in {"kept", "failed"}
  BY <1>2 DEF Answered, AskedBy, Pending, ToldTo
<1>6. Boxes' = [Boxes EXCEPT ![q] = [secret |-> box.plain, open |-> row.active]]
  BY BoxWritten DEF Writes
<1>7. AbsAsked[c] = [profile |-> q, secret |-> box.plain] /\ AbsAsked[c] # None
  BY WriterIsPending, CallRequest, AskedType DEF IInv, AbsAsked, AskedBy
<1>8. row.active = (Boxes[q] = None \/ Boxes[q].open)
  <2>1. CASE profile[q] = None
    <3>1. Boxes[q] = None
      BY <2>1 DEF Boxes
    <3>. QED  BY <2>1, <3>1
  <2>2. CASE profile[q] # None
    <3>1. cipher[q].plain \in Secret /\ profile[q].active \in BOOLEAN
      BY <2>2, RowType DEF IInv
    <3>2. Boxes[q] = [secret |-> cipher[q].plain, open |-> profile[q].active]
      BY <2>2 DEF Boxes
    <3>3. Boxes[q] # None
      BY <3>1, <3>2, NoneAssumption DEF NoneAssumption
    <3>4. Boxes[q].open = profile[q].active
      BY <3>2
    <3>. QED  BY <2>2, <3>3, <3>4
  <2>. QED  BY <2>1, <2>2
<1>9. Promise!Keep(c)
  <2>1. AbsAsked[c].profile = q /\ AbsAsked[c].secret = box.plain
    BY <1>7
  <2>2. Boxes' = [Boxes EXCEPT ![q] = [secret |-> box.plain,
                                       open |-> Boxes[q] = None \/ Boxes[q].open]]
    BY <1>6, <1>8, Zenon
  <2>3. Boxes' = [Boxes EXCEPT ![AbsAsked[c].profile] =
                    [secret |-> AbsAsked[c].secret,
                     open |-> Boxes[AbsAsked[c].profile] = None \/ Boxes[AbsAsked[c].profile].open]]
    BY <2>1, <2>2, Zenon
  <2>. QED  BY <1>4, <1>5, <1>7, <2>3 DEF Promise!Keep, AbsAsked, AbsTold
<1>. QED  BY <1>9 DEF Promise!Next

\* A new profile starts active, a replacement leaves the profile alone.
LEMMA CommitKeeps ==
  ASSUME IInv, NEW c \in Call, CommitCreate(c) \/ CommitReplace(c)
  PROVE  [Promise!Next]_(Promise!vars)
<1>1. CASE CommitCreate(c)
  <2>1. PICK q \in Profile, row \in Row, box \in Cipher, answer \in {"ok", "Error"} :
          /\ q = call[c].req.profile
          /\ call[c].pc = "inserted" /\ call[c].req.op = "create"
          /\ profile[q] = None
          /\ row.active = TRUE
          /\ box = Encrypt(call[c].req.secret, <<row.org, q, call[c].req.kind>>, call[c].req.store)
          /\ box.plain = call[c].req.secret
          /\ Written(box)
          /\ profile' = [profile EXCEPT ![q] = row]
          /\ cipher' = [cipher EXCEPT ![q] = box]
          /\ Reply(c, answer, None)
    BY <1>1, CommitCreateWrites
  <2>2. Writes(c, q, row, box)
    BY <2>1 DEF Writes
  <2>3. row.active = (profile[q] = None \/ profile[q].active)
    BY <2>1
  <2>. QED  BY <2>1, <2>2, <2>3, KeepMaps
<1>2. CASE CommitReplace(c)
  <2>1. PICK q \in Profile, box \in Cipher, answer \in {"ok", "Error"} :
          /\ q = call[c].req.profile
          /\ call[c].pc = "updated" /\ call[c].req.op = "replace"
          /\ Found(call[c].req)
          /\ box.plain = call[c].req.secret
          /\ UNCHANGED profile
          /\ cipher' = [cipher EXCEPT ![q] = box]
          /\ Reply(c, answer, None)
    BY <1>2, CommitReplaceWrites
  <2>2. PICK row \in Row : row = profile[q]
    BY <2>1, RowType DEF IInv, Found
  <2>3. profile' = [profile EXCEPT ![q] = row]
    BY <2>1, <2>2 DEF IInv, TypeOK
  <2>4. Writes(c, q, row, box)
    BY <2>1, <2>3 DEF Writes
  <2>5. row.active \in BOOLEAN /\ profile[q] # None
    BY <2>1, <2>2 DEF Row, Found
  <2>6. row.active = (profile[q] = None \/ profile[q].active)
    BY <2>2, <2>5
  <2>. QED  BY <2>1, <2>4, <2>6, KeepMaps
<1>. QED  BY <1>1, <1>2

\* A rotation shows nowhere.
LEMMA CommitRotateMaps ==
  ASSUME IInv, NEW c \in Call, CommitRotate(c)
  PROVE  [Promise!Next]_(Promise!vars)
<1>1. PICK q \in Profile, box \in Cipher, answer \in {"ok", "Error"} :
        /\ q = call[c].req.profile
        /\ call[c].pc = "rotated" /\ call[c].req.op = "rotate"
        /\ Found(call[c].req)
        /\ box.plain = cipher[q].plain
        /\ UNCHANGED profile
        /\ cipher' = [cipher EXCEPT ![q] = box]
        /\ Reply(c, answer, None)
  BY CommitRotateWrites
<1>2. PICK x : x = Answered(call[c].req, answer, None)
  OBVIOUS
<1>3. call' = [call EXCEPT ![c] = x]
  BY <1>1, <1>2 DEF Reply, Answered
<1>4. /\ AbsAsked' = [AbsAsked EXCEPT ![c] = AskedBy(x)]
      /\ AbsTold' = [AbsTold EXCEPT ![c] = ToldTo(x)]
  BY <1>3, CallMoves
<1>5. /\ AskedBy(x) = None /\ AbsAsked[c] = None
      /\ ToldTo(x) = None /\ AbsTold[c] = None
  BY <1>1, <1>2 DEF Answered, AskedBy, Pending, ToldTo, AbsAsked, AbsTold
<1>6. AbsAsked' = AbsAsked /\ AbsTold' = AbsTold
  BY <1>4, <1>5 DEF AbsAsked, AbsTold
<1>7. Boxes' = Boxes
  <2>1. cipher'[q].plain = cipher[q].plain
        /\ \A p \in Profile \ {q} : cipher'[p] = cipher[p]
    BY <1>1 DEF IInv, TypeOK
  <2>2. \A p \in Profile : cipher'[p].plain = cipher[p].plain
    BY <2>1
  <2>. QED  BY <1>1, <2>2 DEF Boxes
<1>. QED  BY <1>6, <1>7 DEF Promise!vars, AbsAsked, AbsTold

\* A profile that is deactivated is a box that is closed.
LEMMA DeactivateMaps ==
  ASSUME IInv, NEW c \in Call, Deactivate(c), ~(UNCHANGED profile)
  PROVE  [Promise!Next]_(Promise!vars)
<1>1. PICK q \in Profile, row \in Row, answer \in {"ok", "Error"} :
        /\ q = call[c].req.profile
        /\ call[c].pc = "begun" /\ call[c].req.op = "deactivate"
        /\ profile[q] # None
        /\ profile[q].active
        /\ row = [org |-> profile[q].org, kind |-> profile[q].kind, active |-> FALSE]
        /\ profile' = [profile EXCEPT ![q] = row]
        /\ UNCHANGED cipher
        /\ Reply(c, answer, None)
  BY DeactivateWrites
<1>2. PICK x : x = Answered(call[c].req, answer, None)
  OBVIOUS
<1>3. call' = [call EXCEPT ![c] = x]
  BY <1>1, <1>2 DEF Reply, Answered
<1>4. /\ AbsAsked' = [AbsAsked EXCEPT ![c] = AskedBy(x)]
      /\ AbsTold' = [AbsTold EXCEPT ![c] = ToldTo(x)]
  BY <1>3, CallMoves
<1>5. /\ AskedBy(x) = None /\ AbsAsked[c] = None
      /\ ToldTo(x) = None /\ AbsTold[c] = None
  BY <1>1, <1>2 DEF Answered, AskedBy, Pending, ToldTo, AbsAsked, AbsTold
<1>6. AbsAsked' = AbsAsked /\ AbsTold' = AbsTold
  BY <1>4, <1>5 DEF AbsAsked, AbsTold
<1>7. PICK box \in Cipher : box = cipher[q] /\ box.plain \in Secret
  BY <1>1, RowType DEF IInv
<1>8. cipher' = [cipher EXCEPT ![q] = box]
  BY <1>1, <1>7 DEF IInv, TypeOK
<1>9. row.active = FALSE
  BY <1>1
<1>10. Boxes' = [Boxes EXCEPT ![q] = [secret |-> box.plain, open |-> row.active]]
  BY <1>1, <1>8, BoxWritten
<1>11. Boxes[q] = [secret |-> box.plain, open |-> profile[q].active] /\ profile[q].active \in BOOLEAN
  BY <1>1, <1>7, RowType DEF Boxes, IInv
<1>12. Boxes[q] # None /\ Boxes[q].open /\ Boxes[q].secret = box.plain
  <2>1. Boxes[q] # None
    BY <1>7, <1>11, NoneAssumption DEF NoneAssumption
  <2>2. profile[q].active = TRUE
    BY <1>1, <1>11, Zenon
  <2>3. Boxes[q] = [secret |-> box.plain, open |-> TRUE]
    BY <1>11, <2>2, Zenon
  <2>4. Boxes[q].open = TRUE /\ Boxes[q].secret = box.plain
    BY <2>3
  <2>. QED  BY <2>1, <2>4, Zenon
<1>13. Boxes' = [Boxes EXCEPT ![q] = [secret |-> Boxes[q].secret, open |-> FALSE]]
  BY <1>9, <1>10, <1>12
<1>14. Promise!Close(q)
  BY <1>6, <1>12, <1>13 DEF Promise!Close, AbsAsked, AbsTold
<1>. QED  BY <1>14 DEF Promise!Next

\* The tables, calls and answers implement the abstract box: rotation never shows and never
\* undoes a replacement, and what was acknowledged has happened.
THEOREM KeepsThePromise == Spec => ImplementsSecretBox
<1>1. Init => Promise!Init
  BY DEF Init, Promise!Init, Boxes, AskedBy, Pending, ToldTo, Idle
<1>2. IInv /\ [Next]_vars => [Promise!Next]_(Promise!vars)
  <2>. SUFFICES ASSUME IInv, [Next]_vars PROVE [Promise!Next]_(Promise!vars)
    OBVIOUS
  <2>1. CASE UNCHANGED vars
    BY <2>1 DEF vars, Promise!vars, Boxes
  <2>2. ASSUME NEW c \in Call, Step(c) PROVE [Promise!Next]_(Promise!vars)
    <3>1. CASE Insert(c) \/ UpdateCipher(c)
      <4>1. \E pc \in {"inserted", "updated"} : \E box : Carry(c, pc, box)
        BY <3>1 DEF Insert, UpdateCipher
      <4>2. call[c].pc \notin {"idle", "done"} /\ UNCHANGED <<profile, cipher>>
        BY <3>1 DEF Insert, UpdateCipher, At
      <4>. QED  BY <4>1, <4>2, QuietCarryMaps
    <3>2. CASE Resolve(c)
      <4>1. call[c].pc = "begun" /\ call[c].req.op = "resolve" /\ UNCHANGED <<profile, cipher>>
        BY <3>2 DEF Resolve, At
      <4>2. \E answer, secret : Reply(c, answer, secret)
        BY <3>2 DEF Resolve
      <4>. QED  BY <4>1, <4>2, QuietReplyMaps
    <3>3. CASE CheckReplace(c)
      <4>1. call[c].pc = "begun" /\ UNCHANGED <<profile, cipher>>
        BY <3>3 DEF CheckReplace, At
      <4>2. Reply(c, "NotFound", None) \/ \E box : Carry(c, "encrypted", box)
        BY <3>3 DEF CheckReplace
      <4>. QED  BY <4>1, <4>2, QuietReplyMaps, QuietCarryMaps
    <3>4. CASE LockProfile(c) \/ LockCipher(c)
      <4>1. /\ call[c].pc \in {"begun", "half"} /\ call[c].req.op = "rotate"
            /\ UNCHANGED <<profile, cipher>>
        BY <3>4 DEF LockProfile, LockCipher, At
      <4>2. \/ \E answer : Reply(c, answer, None)
            \/ \E pc \in {"half", "rotated"} : \E box : Carry(c, pc, box)
        BY <3>4 DEF LockProfile, LockCipher
      <4>. QED  BY <4>1, <4>2, QuietReplyMaps, QuietCarryMaps
    <3>5. CASE Drop(c)
      <4>1. call[c].pc \notin {"idle", "done"} /\ Reply(c, "Error", None) /\ UNCHANGED <<profile, cipher>>
        BY <3>5 DEF Drop
      <4>. QED  BY <4>1, QuietReplyMaps
    <3>6. CASE Deactivate(c) /\ UNCHANGED profile
      <4>1. /\ call[c].pc = "begun" /\ call[c].req.op = "deactivate"
            /\ UNCHANGED <<profile, cipher>>
        BY <3>6 DEF Deactivate, At
      <4>2. \E answer : Reply(c, answer, None)
        BY <3>6 DEF Deactivate
      <4>. QED  BY <4>1, <4>2, QuietReplyMaps
    <3>. QED  BY <2>2, <3>1, <3>2, <3>3, <3>4, <3>5, <3>6, StartMaps, FinishMaps, CommitKeeps,
                 CommitRotateMaps, DeactivateMaps
                 DEF Step, Create, Replace, Rotate
  <2>. QED  BY <2>1, <2>2 DEF Next
<1>. QED  BY <1>1, <1>2, Inductive, PTL DEF Spec, ImplementsSecretBox, Promise!Spec
=============================================================================
