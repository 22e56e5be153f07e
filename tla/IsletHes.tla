------------------------------- MODULE IsletHes -------------------------------
(***************************************************************************)
(* The library of the Hardware Enforced Security component (islet-hes):    *)
(* the measured boot slots, the delegated attestation key (DAK), the       *)
(* platform token and the virtual unique keys (VHUK).  Its calls are       *)
(* operators on the slots and the DAK; HesHost serves them to clients.     *)
(*                                                                         *)
(* Hashes, key derivation and signatures are free constructors (KeyTerms). *)
(* A slot's value is the sequence of what was hashed into it.              *)
(***************************************************************************)
EXTENDS Naturals, Sequences, KeyTerms

CONSTANTS
    SlotCount,     \* NUM_OF_MEASUREMENT_SLOTS (32)
    BootTables,    \* what the hardware may report: sequences of boot measurements
    TextLen        \* [text -> length in bytes] of software types and versions

VARIABLES
    slots,         \* MeasurementMgr.measurement_slots
    dak            \* AttestationMgr.dak: None or the key last delegated

Slot == 0 .. SlotCount - 1
Algorithm == {"Sha256", "Sha384", "Sha512"}

SIGNER_ID_SIZE == 32 .. 64
MEASUREMENT_VALUE_SIZE == 32 .. 64
SW_TYPE_MAX_SIZE == 20
VERSION_MAX_SIZE == 14

-----------------------------------------------------------------------------
(* Measured boot *)

EmptySlot == [populated |-> FALSE, locked |-> FALSE, algorithm |-> "Sha256",
              signer |-> None, swType |-> None, swVersion |-> None, value |-> <<>>]

(* The old value and the new one are hashed together with the slot's algorithm. *)
ExtendValue(s, v, lock) ==
    [s EXCEPT !.value = Append(@, v), !.populated = TRUE, !.locked = lock]

(* A populated slot: only the type and the version of the software change. *)
ExtendSlot(s, m, lock) ==
    ExtendValue([s EXCEPT !.swType = m.swType, !.swVersion = m.swVersion], m.value, lock)

(* An empty slot takes all of the metadata, and zeros as its first value. *)
InitializeSlot(s, m, lock) ==
    ExtendValue([s EXCEPT !.algorithm = m.algorithm, !.signer = m.signer,
                          !.swType = m.swType, !.swVersion = m.swVersion, !.value = <<>>],
                m.value, lock)

IsProhibited(s, m) == s.signer # m.signer \/ s.algorithm # m.algorithm

(* What the hardware reports is accepted only with these sizes and encodings. *)
BootMeasurementValid(b) ==
    /\ b.signerLen \in SIGNER_ID_SIZE
    /\ TextLen[b.swVersion] <= VERSION_MAX_SIZE
    /\ TextLen[b.swType] <= SW_TYPE_MAX_SIZE
    /\ b.valueLen \in MEASUREMENT_VALUE_SIZE
    /\ b.utf8
    /\ b.algorithm \in Algorithm

(* MeasurementMgr::init asserts and unwraps: a table it refuses ends the program. *)
BootTableAccepted(boot) ==
    /\ Len(boot) <= SlotCount
    /\ \A i \in 1 .. Len(boot) : BootMeasurementValid(boot[i])

(* Boot measurement i goes to slot i - 1, unlocked. *)
BootSlots(boot) ==
    [i \in Slot |-> IF i < Len(boot)
                    THEN InitializeSlot(EmptySlot, boot[i + 1], FALSE)
                    ELSE EmptySlot]

ReadMeasurementError(i) ==
    IF i \notin Slot THEN "InvalidArgument"
    ELSE IF ~slots[i].populated THEN "DoesNotExist" ELSE "Ok"

(* Variant: the lock is not looked at. *)
ExtendMeasurementErrorUnlocked(i, m) ==
    IF i \notin Slot THEN "InvalidArgument"
    ELSE IF slots[i].populated /\ IsProhibited(slots[i], m) THEN "NotPermitted" ELSE "Ok"
ExtendMeasurementError(i, m) ==
    IF i \notin Slot THEN "InvalidArgument"
    ELSE IF slots[i].locked THEN "BadState"
    ELSE IF slots[i].populated /\ IsProhibited(slots[i], m) THEN "NotPermitted" ELSE "Ok"

ExtendMeasurement(i, m, lock) ==
    slots' = [slots EXCEPT ![i] = IF @.populated THEN ExtendSlot(@, m, lock)
                                                 ELSE InitializeSlot(@, m, lock)]

-----------------------------------------------------------------------------
(* Attestation *)

EncodeMeasurement(s) ==
    [title |-> s.swType, algorithm |-> s.algorithm, value |-> s.value,
     version |-> s.swVersion, signer |-> s.signer]

(* The populated slots, in the order of the slots but without their numbers. *)
FetchCurrentMeasurements ==
    LET inOrder == [i \in 1 .. SlotCount |-> slots[i - 1]]
        Populated(s) == s.populated
        kept == SelectSeq(inOrder, Populated)
    IN  [i \in 1 .. Len(kept) |-> EncodeMeasurement(kept[i])]

(* What the hardware gives is fixed for a run. *)
HWData == [huk |-> "huk", guk |-> "guk", blHash |-> "bl_hash", lcs |-> "security_lifecycle"]

(* The platform key (CPAK), for a life cycle state that is written into the code *)
Cpak ==
    DeriveKey(GenerateSeed(HWData.guk, <<HWData.blHash, 3>>, "BL1_CPAK_SEED_DERIVATION"), <<>>)

DakSeed == GenerateSeed(HWData.guk, <<HWData.blHash, HWData.lcs>>, "BL1_DAK_SEED_DERIVATION")

GetDelegatedKeyError(bits) == IF bits = "Bits521" THEN "NotSupported" ELSE "Ok"
DelegatedKey(bits, hashAlgo) ==
    [bits |-> bits, hashAlgo |-> hashAlgo,
     key |-> DeriveKey(DakSeed, FetchCurrentMeasurements)]

GetPlatformTokenError(hash) ==
    IF dak = None THEN "InvalidArgument"
    ELSE IF hash # PublicKeyHash(dak.hashAlgo, dak.key) THEN "InvalidArgument" ELSE "Ok"

(* Variant: the key is derived again, from what the slots hold now. *)
PlatformTokenRederives(hash) ==
    [challenge |-> PublicKeyHash(dak.hashAlgo, DelegatedKey(dak.bits, dak.hashAlgo).key),
     swComponents |-> FetchCurrentMeasurements, hashAlgo |-> dak.hashAlgo, signedBy |-> Cpak]
(* The claims, signed with the platform key. *)
PlatformToken(hash) ==
    [challenge |-> hash, swComponents |-> FetchCurrentMeasurements,
     hashAlgo |-> dak.hashAlgo, signedBy |-> Cpak]

-----------------------------------------------------------------------------
(* Virtual unique keys *)

(* VHUK_A: of the signers and the software types only. *)
AuthorityVhuk ==
    LET ms == FetchCurrentMeasurements
        authorities == [i \in 1 .. Len(ms) |-> <<ms[i].signer, ms[i].title>>]
    IN  GenerateSeed(HWData.huk, <<authorities, HWData.lcs>>, "VHUK_A")

(* VHUK_M: of everything that was measured. *)
MeasurementVhuk ==
    GenerateSeed(HWData.huk, <<FetchCurrentMeasurements, HWData.lcs>>, "VHUK_M")

-----------------------------------------------------------------------------
(* IsletHES::init and reset: the slots as the hardware reports them, no DAK. *)
HesInit(boot) == slots = BootSlots(boot) /\ dak = None

(* Variant: the key of the last connection is kept. *)
HesResetKeepsDak(boot) == slots' = BootSlots(boot) /\ UNCHANGED dak
HesReset(boot) == slots' = BootSlots(boot) /\ dak' = None
=============================================================================
