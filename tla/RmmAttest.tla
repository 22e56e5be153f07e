------------------------------ MODULE RmmAttest ------------------------------
(***************************************************************************)
(* Attestation in the RMM: the keys and the platform token that it asks of *)
(* EL3 when it boots (rmm_el3), the measurements of realms (measurement),  *)
(* and the RSI calls that hand out tokens, measurements and sealing keys   *)
(* (rsi, rsi/attestation, rsi/sealing).                                    *)
(*                                                                         *)
(* A realm's RECs run on different CPUs.  The RSI calls here hold the RD's *)
(* lock, or touch nothing but their own REC, so each is one step.          *)
(***************************************************************************)
EXTENDS Naturals, Sequences, KeyTerms

CONSTANTS
    Realm,         \* realms
    Rec,           \* RECs
    OwnerOf,       \* [Rec -> Realm]
    Params,        \* what measure_realm_create hashes
    Desc,          \* what is measured into a RIM after that (data, RECs, RIPAS)
    Rpv,           \* personalization values
    Metadata,      \* realm metadata: public key, realm id and version (svn)
    Flag,          \* of a sealing key: USE_VHUK_M, RIM, REALM_ID, SVN
    Challenge,
    RemCount,      \* extensible measurements of a realm (4)
    TokenLen,      \* length of an encoded token, in units of the parts below
    MaxMeasured    \* bound: extensions of one measurement

(* Metadata that verify_signature() has accepted names a key, not the zeros of KdfInfo. *)
ASSUME RmmAssumption ==
    /\ \A c \in Rec : OwnerOf[c] \in Realm
    /\ RemCount \in Nat /\ TokenLen \in Nat \ {0}
    /\ None \notin Metadata /\ \A m \in Metadata : m.publicKey # None

VARIABLES
    rmmBoot,       \* where setup_el3_ifc() is
    attestKey,     \* REALM_ATTEST_KEY
    platToken,     \* PLAT_TOKEN
    vhuk,          \* VHUK_A and VHUK_M
    rlm,           \* per realm: its state, identity and measurements
    att,           \* per REC: attest_state, challenge and offset
    got            \* history: per REC, the parts of its token so far

rmmVars == <<rmmBoot, attestKey, platToken, vhuk, rlm, att, got>>
bootVars == <<rmmBoot, attestKey, platToken, vhuk>>

Vhuk == {"VHUK_A", "VHUK_M"}
Svn == 0 .. 1

(* Measurement 0 is the RIM; an empty one is all zeros. *)
Rem == 1 .. RemCount
EmptyMeasurement == <<>>
NoRealm == [state |-> "Null", rim |-> EmptyMeasurement, rems |-> [i \in Rem |-> EmptyMeasurement],
            rpv |-> None, meta |-> None]

RmmInit ==
    /\ rmmBoot = "key"
    /\ attestKey = None /\ platToken = None
    /\ vhuk = [k \in Vhuk |-> [default |-> k]]
    /\ rlm = [r \in Realm |-> NoRealm]
    /\ att = [c \in Rec |-> [state |-> "NoAttestInProgress", challenge |-> None, offset |-> 0]]
    /\ got = [c \in Rec |-> <<>>]

-----------------------------------------------------------------------------
(* setup_el3_ifc(), on the boot CPU: four calls of EL3, in this order.  An error
   code that the RMM knows is only logged, and what the shared buffer holds is stored. *)

(* The hash of the realm attestation key, which RMM_GET_PLAT_TOKEN sends. *)
DakPubHash == PublicKeyHash("Sha256", attestKey)

(* No key parses: get_realm_public_key_hash() of the next call panics. *)
GetRealmAttestKey(ok, key) ==
    /\ rmmBoot = "key"
    /\ IF ok THEN attestKey' = key /\ rmmBoot' = "token"
             ELSE attestKey' = Junk /\ rmmBoot' = "panicked"
    /\ UNCHANGED <<platToken, vhuk, rlm, att, got>>

GetPlatToken(ok, token) ==
    /\ rmmBoot = "token"
    /\ platToken' = IF ok THEN token ELSE Junk
    /\ rmmBoot' = "VHUK_A"
    /\ UNCHANGED <<attestKey, vhuk, rlm, att, got>>

(* The registers are stored even if the call failed. *)
GetVhuk(id, ok, key) ==
    /\ rmmBoot = id
    /\ vhuk' = [vhuk EXCEPT ![id] = IF ok THEN key ELSE [junk |-> id]]
    /\ rmmBoot' = IF id = "VHUK_A" THEN "VHUK_M" ELSE "up"
    /\ UNCHANGED <<attestKey, platToken, rlm, att, got>>

(* RmmEl3IfcError::from panics at a code it does not know. *)
UnknownErrorCode ==
    /\ rmmBoot \in {"key", "token"} \cup Vhuk
    /\ rmmBoot' = "panicked"
    /\ UNCHANGED <<attestKey, platToken, vhuk, rlm, att, got>>

-----------------------------------------------------------------------------
(* Measurements *)

(* A measurement is what was hashed into it, in order. *)
Hashed(measurement, v) == Append(measurement, v)

(* The RIM: the hash of the parameters, then one descriptor after another. *)
MeasureRealmCreate(p) == Hashed(EmptyMeasurement, p)
MeasureRim(rim, desc) == Hashed(rim, desc)
ExtendRem(rem, v) == Hashed(rem, v)

(* The realm's life as far as it concerns its identity.  RealmLifecycle has the
   handlers; a realm's metadata is optional. *)
RealmCreate(r, p, v, m) ==
    /\ rmmBoot = "up" /\ rlm[r].state = "Null"
    /\ rlm' = [rlm EXCEPT ![r] = [NoRealm EXCEPT !.state = "New", !.rpv = v, !.meta = m,
                                                 !.rim = MeasureRealmCreate(p)]]
    /\ UNCHANGED <<rmmBoot, attestKey, platToken, vhuk, att, got>>

RealmMeasure(r, desc) ==
    /\ rlm[r].state = "New" /\ Len(rlm[r].rim) <= MaxMeasured
    /\ rlm' = [rlm EXCEPT ![r].rim = MeasureRim(@, desc)]
    /\ UNCHANGED <<rmmBoot, attestKey, platToken, vhuk, att, got>>

RealmActivate(r) ==
    /\ rlm[r].state = "New"
    /\ rlm' = [rlm EXCEPT ![r].state = "Active"]
    /\ UNCHANGED <<rmmBoot, attestKey, platToken, vhuk, att, got>>

Runs(c) == rlm[OwnerOf[c]].state = "Active"

(* RSI_MEASUREMENT_EXTEND of an extensible measurement; the RIM's index and those
   past the last are refused, and nothing changes. *)
MeasurementExtend(c, i, v) ==
    /\ Runs(c) /\ i \in Rem
    /\ Len(rlm[OwnerOf[c]].rems[i]) < MaxMeasured
    /\ rlm' = [rlm EXCEPT ![OwnerOf[c]].rems[i] = ExtendRem(@, v)]
    /\ UNCHANGED <<rmmBoot, attestKey, platToken, vhuk, att, got>>

-----------------------------------------------------------------------------
(* Tokens *)

(* The hash algorithms are the same for every realm. *)
RealmClaims(r, ch) ==
    [challenge |-> ch, rpv |-> rlm[r].rpv, rim |-> rlm[r].rim, rems |-> rlm[r].rems,
     rak |-> attestKey]

(* get_token(): the platform token, and the realm's claims signed with the RAK. *)
CcaToken(r, ch) ==
    [platform |-> platToken, realm |-> [claims |-> RealmClaims(r, ch), signedBy |-> attestKey]]

(* Variant: the offset of a token that was not fetched to its end is kept. *)
AttestTokenInitKeepsOffset(c, ch) ==
    /\ Runs(c)
    /\ att' = [att EXCEPT ![c].state = "AttestInProgress", ![c].challenge = ch]
    /\ got' = [got EXCEPT ![c] = <<>>]
    /\ UNCHANGED <<rmmBoot, attestKey, platToken, vhuk, rlm>>
AttestTokenInit(c, ch) ==
    /\ Runs(c)
    /\ att' = [att EXCEPT ![c] = [state |-> "AttestInProgress", challenge |-> ch, offset |-> 0]]
    /\ got' = [got EXCEPT ![c] = <<>>]
    /\ UNCHANGED <<rmmBoot, attestKey, platToken, vhuk, rlm>>

Smaller(a, b) == IF a <= b THEN a ELSE b

(* Variant: a part is as long as the buffer. *)
TokenPartUnclamped(c, size) ==
    [token |-> CcaToken(OwnerOf[c], att[c].challenge), from |-> att[c].offset,
     to |-> att[c].offset + size]
(* get_token_part(): the token is made anew for every part. *)
TokenPart(c, size) ==
    LET from == att[c].offset
    IN  [token |-> CcaToken(OwnerOf[c], att[c].challenge), from |-> from,
         to |-> from + Smaller(size, TokenLen - from)]

(* RSI_ATTEST_TOKEN_CONTINUE with a buffer of the realm; refused without a token
   in progress or with a buffer outside of its page. *)
AttestTokenContinue(c, size) ==
    /\ Runs(c) /\ att[c].state = "AttestInProgress"
    /\ LET part == TokenPart(c, size)
       IN  /\ got' = [got EXCEPT ![c] = IF part.to = part.from THEN @ ELSE Append(@, part)]
           /\ att' = [att EXCEPT ![c].offset = part.to,
                                 ![c].state = IF part.to = TokenLen THEN "NoAttestInProgress"
                                              ELSE @]
    /\ UNCHANGED <<rmmBoot, attestKey, platToken, vhuk, rlm>>

-----------------------------------------------------------------------------
(* Sealing keys *)

(* KdfInfo::new(): all zeros *)
NewKdfInfo ==
    [publicKey |-> None, realmId |-> None, rpv |-> None, flags |-> {},
     rim |-> EmptyMeasurement, svn |-> 0]

(* Variant: the RIM only if it is asked for. *)
KdfInfoRimOptional(r, flags, svn) ==
    LET m == rlm[r].meta
    IN  [NewKdfInfo EXCEPT
            !.rpv = rlm[r].rpv, !.flags = flags,
            !.publicKey = IF m = None THEN @ ELSE m.publicKey,
            !.realmId = IF m # None /\ "REALM_ID" \in flags THEN m.realmId ELSE @,
            !.svn = IF m # None /\ "SVN" \in flags THEN svn ELSE @,
            !.rim = IF "RIM" \in flags THEN rlm[r].rim ELSE @]
KdfInfo(r, flags, svn) ==
    LET m == rlm[r].meta
    IN  [NewKdfInfo EXCEPT
            !.rpv = rlm[r].rpv, !.flags = flags,
            !.publicKey = IF m = None THEN @ ELSE m.publicKey,
            !.realmId = IF m # None /\ "REALM_ID" \in flags THEN m.realmId ELSE @,
            !.svn = IF m # None /\ "SVN" \in flags THEN svn ELSE @,
            !.rim = IF "RIM" \in flags \/ m = None THEN rlm[r].rim ELSE @]

(* ISLET_REALM_SEALING_KEY: refused if the version asked for is newer than the
   metadata's; it changes nothing of the RMM's state. *)
SealingKeyAllowed(r, flags, svn) ==
    /\ rlm[r].state = "Active"
    /\ ~(rlm[r].meta # None /\ "SVN" \in flags /\ rlm[r].meta.svn < svn)
RealmSealingKey(r, flags, svn) ==
    DeriveKey(vhuk[IF "USE_VHUK_M" \in flags THEN "VHUK_M" ELSE "VHUK_A"],
              KdfInfo(r, flags, svn))

-----------------------------------------------------------------------------
(* Properties *)

RmmTypeOK ==
    /\ rmmBoot \in {"key", "token", "VHUK_A", "VHUK_M", "up", "panicked"}
    /\ DOMAIN vhuk = Vhuk
    /\ \A r \in Realm : rlm[r].state \in {"Null", "New", "Active"}
    /\ \A c \in Rec : /\ att[c].state \in {"NoAttestInProgress", "AttestInProgress"}
                       /\ att[c].challenge \in Challenge \cup {None}
                       /\ att[c].offset \in 0 .. TokenLen

(* get_token_part and ATTEST_TOKEN_INIT: the parts a realm has collected since its
   last ATTEST_TOKEN_INIT are the token from its start up to the offset, without a
   gap or an overlap; the last CONTINUE says SUCCESS exactly when all of it is
   there; every part is of a token over the last challenge; and they are parts of
   one and the same token unless a measurement was extended between the first
   and the last. *)
TokenWhole ==
    \A c \in Rec :
        LET g == got[c]
            n == Len(g)
        IN  g # <<>> =>
              /\ g[1].from = 0
              /\ \A i \in 1 .. n - 1 : g[i].to = g[i + 1].from
              /\ g[n].to = att[c].offset
              /\ att[c].state = "NoAttestInProgress" <=> att[c].offset = TokenLen
              /\ \A i \in 1 .. n : g[i].token.realm.claims.challenge = att[c].challenge
              /\ g[1].token.realm.claims.rems = g[n].token.realm.claims.rems
                    => \A i \in 1 .. n : g[i].token = g[1].token

(* realm_sealing_key: two realms are given the same sealing key only if they have
   the same personalization value and the same signer of their metadata, and, if
   they have none, the same RIM; and a realm is given different keys for
   different versions. *)
SealedToIdentity ==
    \A r, q \in {x \in Realm : rlm[x].state = "Active"} : \A f \in SUBSET Flag : \A s, t \in Svn :
        /\ SealingKeyAllowed(r, f, s) /\ SealingKeyAllowed(q, f, t)
        /\ RealmSealingKey(r, f, s) = RealmSealingKey(q, f, t)
        => /\ rlm[r].rpv = rlm[q].rpv
           /\ rlm[r].meta = None <=> rlm[q].meta = None
           /\ rlm[r].meta # None => rlm[r].meta.publicKey = rlm[q].meta.publicKey
           /\ rlm[r].meta = None => rlm[r].rim = rlm[q].rim
           /\ rlm[r].meta # None /\ "SVN" \in f => s = t
=============================================================================
