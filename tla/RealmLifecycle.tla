--------------------------- MODULE RealmLifecycle ---------------------------
(***************************************************************************)
(* The Granule Status Table and the objects whose life it records: realm   *)
(* descriptors (RD), root stage 2 tables (RTT), RECs (vCPUs), their        *)
(* auxiliary granules and the realm metadata, with the RMI handlers that   *)
(* create and destroy them (rmi/gpt.rs, rmi/realm/mod.rs,                  *)
(* rmi/rec/handlers.rs, granule/array).                                    *)
(*                                                                         *)
(* One action is one handler that runs to its end.  A handler that refuses *)
(* its arguments returns an error code and writes nothing, which is a      *)
(* stuttering step.  Two handlers can fail after they have written,        *)
(* because they check granules, drop the locks and check again; each of    *)
(* those failures is an action of its own.  RmiHandlers.tla has the locks  *)
(* and the steps in between, and is checked to implement this module.      *)
(*                                                                         *)
(* Host pages (the parameters of a command) come from memory outside the   *)
(* modelled granules.  What a Delegated granule holds is never read before *)
(* an object is written over it, so rd, rec and meta say what a granule    *)
(* holds in the state RD, Rec or Metadata and are zero in any other; that  *)
(* an object was given up and left behind is recorded in dirty.            *)
(***************************************************************************)
EXTENDS Naturals, FiniteSets

CONSTANTS
    Granule,      \* the granules tracked by the Granule Status Table
    Vmid,         \* the VMIDs a host may ask for
    Algo,         \* the measurement hash algorithms
    NumAux,       \* rmi::MAX_REC_AUX_GRANULES, 16 in the code
    RootCounts,   \* the values of rtt_num_start a realm may ask for
    MaxRecIndex,  \* bound of the model: RECs a host tries to create in a realm
    None          \* no granule, no VMID: a zeroed field

ASSUME NoneAssumption == None \notin Granule /\ None \notin Vmid /\ None \notin Algo
ASSUME CountAssumption ==
    /\ NumAux \in Nat
    /\ RootCounts \subseteq Nat
    /\ MaxRecIndex \in Nat
ASSUME GranuleAssumption == IsFiniteSet(Granule)

VARIABLES
    gst,      \* state of every granule
    gpt,      \* who may access the granule, as EL3 has it (GPT)
    refcnt,   \* ref_count of every granule, an AtomicU8
    rd,       \* content of a granule read as an Rd
    rec,      \* content of a granule read as a Rec
    meta,     \* content of a granule read as an IsletRealmMetadata
    dirty,    \* the granules that hold something other than zeros
    vmids     \* VMID_SET

vars == <<gst, gpt, refcnt, rd, rec, meta, dirty, vmids>>

GranuleState ==
    {"Undelegated", "Delegated", "RD", "Rec", "RecAux", "RTT", "Metadata"}
RdState == {"Null", "New", "Active", "SystemOff"}
Rim == 0 .. MaxRecIndex + 1    \* the RIM, as the number of its extensions
U8 == 0 .. 255

RdContent ==
    [vmid : Vmid \cup {None}, state : RdState, roots : SUBSET Granule,
     recIndex : 0 .. MaxRecIndex, rim : Rim, algo : Algo \cup {None},
     metadata : Granule \cup {None}]
RecContent ==
    [owner : Granule \cup {None}, aux : SUBSET Granule, vcpuid : 0 .. MaxRecIndex]
MetaContent == [rim : Rim, algo : Algo \cup {None}]

\* What the three types read in a granule that zeroize() has cleared.
ZeroRd == [vmid |-> None, state |-> "Null", roots |-> {}, recIndex |-> 0,
           rim |-> 0, algo |-> None, metadata |-> None]
ZeroRec == [owner |-> None, aux |-> {}, vcpuid |-> 0]
ZeroMeta == [rim |-> 0, algo |-> None]

\* set_state() wipes the granules S that become Delegated or Undelegated.
Zeroize(S) == dirty' = dirty \ S

RecsOf(r) == {c \in Granule : gst[c] = "Rec" /\ rec[c].owner = r}

\* Every granule of S goes to state s.
SetGranules(S, s) == [g \in Granule |-> IF g \in S THEN s ELSE gst[g]]

AllDelegated(S) == \A g \in S : gst[g] = "Delegated"

\* A loop over S stops at the first granule that is not Delegated, when it has
\* converted `done`.  That granule may have been taken by a handler that is still
\* running on another CPU, so nothing is asked of it here.
StopsAfter(S, done) ==
    /\ done \subseteq S
    /\ done # S
    /\ AllDelegated(done)

Init ==
    /\ gst = [g \in Granule |-> "Undelegated"]
    /\ gpt = [g \in Granule |-> "NS"]
    /\ refcnt = [g \in Granule |-> 0]
    /\ rd = [g \in Granule |-> ZeroRd]
    /\ rec = [g \in Granule |-> ZeroRec]
    /\ meta = [g \in Granule |-> ZeroMeta]
    /\ dirty = {}
    /\ vmids = {}

-----------------------------------------------------------------------------
(* EL3 moves memory that is not the realm world's to and from other worlds. *)
GptChange(g) ==
    /\ gpt[g] \in {"NS", "Other"}
    /\ gpt' = [gpt EXCEPT ![g] = IF gpt[g] = "NS" THEN "Other" ELSE "NS"]
    /\ UNCHANGED <<gst, refcnt, rd, rec, meta, dirty, vmids>>

\* Variant: the result of smc(MARK_REALM) is not looked at.
GranuleDelegateIgnoresSmc(g) ==
    /\ gst[g] = "Undelegated"
    /\ gpt' = [gpt EXCEPT ![g] = IF @ = "NS" THEN "Realm" ELSE @]
    /\ gst' = [gst EXCEPT ![g] = "Delegated"]
    /\ Zeroize({g})
    /\ UNCHANGED <<refcnt, rd, rec, meta, vmids>>

GranuleDelegate(g) ==
    /\ gst[g] = "Undelegated"
    /\ gpt[g] = "NS"                 \* or smc(MARK_REALM) fails
    /\ gpt' = [gpt EXCEPT ![g] = "Realm"]
    /\ gst' = [gst EXCEPT ![g] = "Delegated"]
    /\ Zeroize({g})
    /\ UNCHANGED <<refcnt, rd, rec, meta, vmids>>

\* Variant: only a granule that becomes Delegated is wiped.
GranuleUndelegateKeeps(g) ==
    /\ gst[g] = "Delegated"
    /\ gpt' = [gpt EXCEPT ![g] = "NS"]
    /\ gst' = [gst EXCEPT ![g] = "Undelegated"]
    /\ UNCHANGED <<refcnt, rd, rec, meta, dirty, vmids>>

\* smc(MARK_NONSECURE) fails when the granule is not the realm world's, and
\* the handler then panics: GptConsistent shows that it does not.
GranuleUndelegate(g) ==
    /\ gst[g] = "Delegated"
    /\ gpt' = [gpt EXCEPT ![g] = "NS"]
    /\ gst' = [gst EXCEPT ![g] = "Undelegated"]
    /\ Zeroize({g})
    /\ UNCHANGED <<refcnt, rd, rec, meta, vmids>>

-----------------------------------------------------------------------------
\* Rd::init, set_hash_algo and measure_realm_create
NewRd(v, roots, algo) ==
    [vmid |-> v, state |-> "New", roots |-> roots, recIndex |-> 0,
     rim |-> 1, algo |-> algo, metadata |-> None]

\* Variant: the epilogue does not look at the tables again.
RealmCreateUnchecked(r, v, roots, algo) ==
    /\ gst[r] = "Delegated"
    /\ Cardinality(roots) \in RootCounts
    /\ r \notin roots
    /\ \A g \in roots : gst[g] \in {"Delegated", "RTT"}
    /\ v \notin vmids
    /\ vmids' = vmids \cup {v}
    /\ rd' = [rd EXCEPT ![r] = NewRd(v, roots, algo)]
    /\ gst' = [SetGranules(roots, "RTT") EXCEPT ![r] = "RD"]
    /\ dirty' = dirty \cup {r} \cup roots
    /\ UNCHANGED <<gpt, refcnt, rec, meta>>

RealmCreate(r, v, roots, algo) ==
    /\ gst[r] = "Delegated"
    /\ Cardinality(roots) \in RootCounts
    /\ r \notin roots
    /\ AllDelegated(roots)
    /\ v \notin vmids
    /\ vmids' = vmids \cup {v}
    /\ rd' = [rd EXCEPT ![r] = NewRd(v, roots, algo)]
    /\ gst' = [SetGranules(roots, "RTT") EXCEPT ![r] = "RD"]
    /\ dirty' = dirty \cup {r} \cup roots
    /\ UNCHANGED <<gpt, refcnt, rec, meta>>

\* Variant: the VMID is not given back.
RealmCreateFailsLeaks(r, v, roots, done) ==
    /\ gst[r] = "Delegated"
    /\ Cardinality(roots) \in RootCounts
    /\ r \notin roots
    /\ v \notin vmids
    /\ StopsAfter(roots, done)
    /\ gst' = SetGranules(done, "RTT")
    /\ vmids' = vmids \cup {v}
    /\ dirty' = dirty \cup {r} \cup done
    /\ UNCHANGED <<gpt, refcnt, rd, rec, meta>>

\* The epilogue finds that a root table is no longer Delegated: the tables it
\* has converted stay RTT, the VMID is given back and the granule of the RD stays
\* Delegated, with the Rd that was written into it.
RealmCreateFails(r, v, roots, done) ==
    /\ gst[r] = "Delegated"
    /\ Cardinality(roots) \in RootCounts
    /\ r \notin roots
    /\ v \notin vmids
    /\ StopsAfter(roots, done)
    /\ gst' = SetGranules(done, "RTT")
    /\ dirty' = dirty \cup {r} \cup done
    /\ UNCHANGED <<gpt, refcnt, rd, rec, meta, vmids>>

\* Variant: set_granule without the check that the granule is Delegated.
RealmSetMetadataAnyGranule(r, g, m) ==
    /\ gst[r] = "RD"
    /\ rd[r].state = "New"
    /\ rd[r].metadata = None
    /\ gst[g] \in {"Delegated", "Metadata", "RTT"}
    /\ gst' = [gst EXCEPT ![g] = "Metadata"]
    /\ meta' = [meta EXCEPT ![g] = m]
    /\ dirty' = dirty \cup {g}
    /\ rd' = [rd EXCEPT ![r].metadata = g]
    /\ UNCHANGED <<gpt, refcnt, rec, vmids>>

RealmSetMetadata(r, g, m) ==
    /\ gst[r] = "RD"
    /\ rd[r].state = "New"
    /\ rd[r].metadata = None
    /\ gst[g] = "Delegated"
    /\ gst' = [gst EXCEPT ![g] = "Metadata"]
    /\ meta' = [meta EXCEPT ![g] = m]
    /\ dirty' = dirty \cup {g}
    /\ rd' = [rd EXCEPT ![r].metadata = g]
    /\ UNCHANGED <<gpt, refcnt, rec, vmids>>

\* equal_rd_rim and equal_rd_hash_algo
MetadataAgrees(r) ==
    LET m == rd[r].metadata
    IN  m # None =>
          /\ gst[m] = "Metadata"
          /\ meta[m].rim = rd[r].rim
          /\ meta[m].algo = rd[r].algo

\* Variant: the metadata is not compared with the realm.
RealmActivateUnchecked(r) ==
    /\ gst[r] = "RD"
    /\ rd[r].state = "New"
    /\ rd' = [rd EXCEPT ![r].state = "Active"]
    /\ UNCHANGED <<gst, gpt, refcnt, rec, meta, dirty, vmids>>

RealmActivate(r) ==
    /\ gst[r] = "RD"
    /\ MetadataAgrees(r)
    /\ rd[r].state = "New"
    /\ rd' = [rd EXCEPT ![r].state = "Active"]
    /\ UNCHANGED <<gst, gpt, refcnt, rec, meta, dirty, vmids>>

\* The granules that REALM_DESTROY gives back along with the RD.
Reclaimed(r) ==
    {r} \cup rd[r].roots \cup
    (IF rd[r].metadata = None THEN {} ELSE {rd[r].metadata})

\* Variant: ref_count of the RD is not looked at.
RealmDestroyWithRecs(r) ==
    /\ gst[r] = "RD"
    /\ rd[r].metadata # None => gst[rd[r].metadata] = "Metadata"
    /\ \A g \in rd[r].roots : refcnt[g] = 0
    /\ gst' = SetGranules(Reclaimed(r), "Delegated")
    /\ Zeroize(Reclaimed(r))
    /\ rd' = [rd EXCEPT ![r] = ZeroRd]
    /\ meta' = [g \in Granule |-> IF g = rd[r].metadata THEN ZeroMeta ELSE meta[g]]
    /\ vmids' = vmids \ {rd[r].vmid}
    /\ UNCHANGED <<gpt, refcnt, rec>>

RealmDestroy(r) ==
    /\ gst[r] = "RD"
    /\ refcnt[r] = 0
    /\ rd[r].metadata # None => gst[rd[r].metadata] = "Metadata"
    /\ \A g \in rd[r].roots : refcnt[g] = 0
    /\ gst' = SetGranules(Reclaimed(r), "Delegated")
    /\ Zeroize(Reclaimed(r))
    /\ rd' = [rd EXCEPT ![r] = ZeroRd]
    /\ meta' = [g \in Granule |-> IF g = rd[r].metadata THEN ZeroMeta ELSE meta[g]]
    /\ vmids' = vmids \ {rd[r].vmid}
    /\ UNCHANGED <<gpt, refcnt, rec>>

-----------------------------------------------------------------------------
\* Variant: a realm takes RECs after its activation.
RecCreateChecksAnyState(r, c, aux) ==
    /\ Cardinality(aux) = NumAux
    /\ c # r /\ c \notin aux /\ r \notin aux
    /\ gst[r] = "RD"
    /\ gst[c] = "Delegated"
    /\ rd[r].recIndex < MaxRecIndex

\* What REC_CREATE has checked when it begins to write: the host names the
\* next index in params.mpidr, and the realm still takes RECs.
RecCreateChecks(r, c, aux) ==
    /\ Cardinality(aux) = NumAux
    /\ c # r /\ c \notin aux /\ r \notin aux
    /\ gst[r] = "RD"
    /\ rd[r].state = "New"
    /\ gst[c] = "Delegated"
    /\ rd[r].recIndex < MaxRecIndex     \* bound

\* Variants: the REC is measured twice; the index is not stored.
RecMeasuredTwice(r) ==
    rd' = [rd EXCEPT ![r].recIndex = @ + 1, ![r].rim = @ + 2]
RecIndexStays(r) ==
    rd' = [rd EXCEPT ![r].rim = IF @ = MaxRecIndex + 1 THEN @ ELSE @ + 1]

\* vcpu_index, rec_index and the RIM advance before the auxiliary granules are
\* taken.
RecIndexAdvances(r) ==
    rd' = [rd EXCEPT ![r].recIndex = @ + 1, ![r].rim = @ + 1]

\* Rec::init
NewRec(r, aux) == [owner |-> r, aux |-> aux, vcpuid |-> rd[r].recIndex]

\* Variant: the auxiliary granules are taken in whatever state they are.
RecCreateUnchecked(r, c, aux) ==
    /\ RecCreateChecks(r, c, aux)
    /\ \A g \in aux : gst[g] \in {"Delegated", "RecAux"}
    /\ RecIndexAdvances(r)
    /\ rec' = [rec EXCEPT ![c] = NewRec(r, aux)]
    /\ refcnt' = [refcnt EXCEPT ![r] = (@ + 1) % 256]
    /\ gst' = [SetGranules(aux, "RecAux") EXCEPT ![c] = "Rec"]
    /\ dirty' = dirty \cup {c} \cup aux
    /\ UNCHANGED <<gpt, meta, vmids>>

RecCreate(r, c, aux) ==
    /\ RecCreateChecks(r, c, aux)
    /\ AllDelegated(aux)
    /\ RecIndexAdvances(r)
    /\ rec' = [rec EXCEPT ![c] = NewRec(r, aux)]
    /\ refcnt' = [refcnt EXCEPT ![r] = (@ + 1) % 256]
    /\ gst' = [SetGranules(aux, "RecAux") EXCEPT ![c] = "Rec"]
    /\ dirty' = dirty \cup {c} \cup aux
    /\ UNCHANGED <<gpt, meta, vmids>>

\* An auxiliary granule is no longer Delegated when its turn comes: the ones
\* before it stay RecAux, the index is used up and the granule of the REC stays
\* Delegated, with the Rec that was written into it.
RecCreateFails(r, c, aux, done) ==
    /\ RecCreateChecks(r, c, aux)
    /\ StopsAfter(aux, done)
    /\ RecIndexAdvances(r)
    /\ gst' = SetGranules(done, "RecAux")
    /\ dirty' = dirty \cup {c} \cup done
    /\ UNCHANGED <<gpt, refcnt, rec, meta, vmids>>

\* Variant: dec_count is forgotten.
RecDestroyKeepsCount(c) ==
    LET r == rec[c].owner
        alive == gst[r] = "RD"
        freed == rec[c].aux \cup (IF alive THEN {c} ELSE {})
    IN  /\ gst[c] = "Rec"
        /\ \A g \in rec[c].aux : gst[g] = "RecAux"
        /\ gst' = SetGranules(freed, "Delegated")
        /\ Zeroize(freed)
        /\ rec' = IF alive THEN [rec EXCEPT ![c] = ZeroRec] ELSE rec
        /\ UNCHANGED <<gpt, refcnt, rd, meta, vmids>>

\* The auxiliary granules go back first.  An owner that is no longer an RD
\* ends the handler there, and the REC stays.
RecDestroy(c) ==
    LET r == rec[c].owner
        alive == gst[r] = "RD"
        freed == rec[c].aux \cup (IF alive THEN {c} ELSE {})
    IN  /\ gst[c] = "Rec"
        /\ \A g \in rec[c].aux : gst[g] = "RecAux"
        /\ gst' = SetGranules(freed, "Delegated")
        /\ Zeroize(freed)
        /\ rec' = IF alive THEN [rec EXCEPT ![c] = ZeroRec] ELSE rec
        /\ refcnt' = IF alive THEN [refcnt EXCEPT ![r] = (@ + 255) % 256] ELSE refcnt
        /\ UNCHANGED <<gpt, rd, meta, vmids>>

\* RSI PSCI_SYSTEM_OFF and PSCI_SYSTEM_RESET, from a REC that was entered.
PsciSystemOff(c) ==
    LET r == rec[c].owner
    IN  /\ gst[c] = "Rec"
        /\ gst[r] = "RD"
        /\ rd[r].state = "Active"
        /\ rd' = [rd EXCEPT ![r].state = "SystemOff"]
        /\ UNCHANGED <<gst, gpt, refcnt, rec, meta, dirty, vmids>>

Next ==
    \/ \E g \in Granule : GptChange(g) \/ GranuleDelegate(g) \/ GranuleUndelegate(g)
    \/ \E r \in Granule, v \in Vmid, roots \in SUBSET Granule :
          \/ \E a \in Algo : RealmCreate(r, v, roots, a)
          \/ \E done \in SUBSET roots : RealmCreateFails(r, v, roots, done)
    \/ \E r, g \in Granule, m \in [rim : Rim, algo : Algo] : RealmSetMetadata(r, g, m)
    \/ \E r \in Granule : RealmActivate(r) \/ RealmDestroy(r)
    \/ \E r, c \in Granule, aux \in SUBSET Granule :
          \/ RecCreate(r, c, aux)
          \/ \E done \in SUBSET aux : RecCreateFails(r, c, aux, done)
    \/ \E c \in Granule : RecDestroy(c) \/ PsciSystemOff(c)

Spec == Init /\ [][Next]_vars

-----------------------------------------------------------------------------
(* Properties.                                                             *)

IsRd(r) == gst[r] = "RD"
IsRec(c) == gst[c] = "Rec"

\* Every variable holds a value of its type: no counter leaves its width and no
\* field is read that the handlers did not write.
TypeOK ==
    /\ gst \in [Granule -> GranuleState]
    /\ gpt \in [Granule -> {"NS", "Other", "Realm"}]
    /\ refcnt \in [Granule -> U8]
    /\ rd \in [Granule -> RdContent]
    /\ rec \in [Granule -> RecContent]
    /\ meta \in [Granule -> MetaContent]
    /\ dirty \subseteq Granule
    /\ vmids \subseteq Vmid

\* The state that the RMM records and the protection EL3 applies agree for every
\* granule (Granule::is_valid), so the smc of GRANULE_UNDELEGATE cannot fail and
\* its panic is not reached.
GptConsistent == \A g \in Granule : gst[g] # "Undelegated" <=> gpt[g] = "Realm"

\* A granule that the host has back holds nothing that the RMM wrote, although a
\* REALM_CREATE or REC_CREATE that failed leaves its object in a Delegated granule.
NoResidue == \A g \in dirty : gst[g] # "Undelegated"

\* The root tables of a realm are RTT granules that no other realm uses: what
\* REALM_CREATE checked, unlocked and checked again cannot have been given to
\* two realms, and REALM_DESTROY, which takes them in whatever state they are,
\* reclaims only its own.
RootsOwned ==
    /\ \A r \in Granule : IsRd(r) => \A g \in rd[r].roots : gst[g] = "RTT"
    /\ \A r, s \in Granule : IsRd(r) /\ IsRd(s) /\ r # s => rd[r].roots \cap rd[s].roots = {}

\* The auxiliary granules of a REC are RecAux and belong to it alone, so that
\* REC_DESTROY finds them all and never stops half way.
AuxOwned ==
    /\ \A c \in Granule : IsRec(c) => \A g \in rec[c].aux : gst[g] = "RecAux"
    /\ \A c, d \in Granule : IsRec(c) /\ IsRec(d) /\ c # d => rec[c].aux \cap rec[d].aux = {}

\* The metadata granule of a realm is a Metadata granule of that realm alone, so
\* REALM_ACTIVATE and REALM_DESTROY find it.
MetadataOwned ==
    /\ \A r \in Granule :
          IsRd(r) /\ rd[r].metadata # None => gst[rd[r].metadata] = "Metadata"
    /\ \A r, s \in Granule :
          IsRd(r) /\ IsRd(s) /\ r # s /\ rd[r].metadata # None
             => rd[r].metadata # rd[s].metadata

\* VMID_SET holds the VMIDs of the living realms and no other, and no two realms
\* share one (RTT_TABLES is keyed by VMID): no failure path of REALM_CREATE leaks
\* a VMID, and remove() in REALM_DESTROY finds it.
VmidsExact ==
    /\ \A v \in Vmid : v \in vmids <=> \E r \in Granule : IsRd(r) /\ rd[r].vmid = v
    /\ \A r, s \in Granule : IsRd(r) /\ IsRd(s) /\ r # s => rd[r].vmid # rd[s].vmid

\* ref_count of a granule counts the RECs that name it as their owner, modulo
\* the width of the AtomicU8; in particular it is zero again whenever the granule
\* is handed out anew, although set_state never resets it.
RefCountExact == \A r \in Granule : refcnt[r] = Cardinality(RecsOf(r)) % 256

\* No realm has more RECs than ref_count can count.  The code does not enforce it.
FewRecs == \A r \in Granule : Cardinality(RecsOf(r)) < 256

\* The realm of a REC outlives it: REALM_DESTROY, which looks only at ref_count,
\* never runs while a REC holds a pointer to the Rd (Rec::owner).
OwnerAlive == \A c \in Granule : IsRec(c) => rec[c].owner \in Granule /\ IsRd(rec[c].owner)

\* A vcpuid names one REC of its realm, and only indices handed out are in use:
\* what PSCI_COMPLETE relies on to recognise the target.
VcpuidUnique ==
    /\ \A c \in Granule : IsRec(c) => rec[c].vcpuid < rd[rec[c].owner].recIndex
    /\ \A c, d \in Granule :
          IsRec(c) /\ IsRec(d) /\ c # d /\ rec[c].owner = rec[d].owner
             => rec[c].vcpuid # rec[d].vcpuid

\* A realm that was activated with metadata still has the RIM and the hash
\* algorithm that the metadata was signed for, whatever was called since.
ActiveMatchesMetadata ==
    \A r \in Granule : IsRd(r) /\ rd[r].state \in {"Active", "SystemOff"} => MetadataAgrees(r)

\* Once a realm has left New its RIM is final for as long as the realm exists,
\* and it never becomes New again.
RimStep ==
    \A r \in Granule :
       IsRd(r) /\ rd[r].state # "New" /\ gst'[r] = "RD"
          => rd'[r].rim = rd[r].rim /\ rd'[r].state # "New"
RimFrozen == [][RimStep]_vars

\* The transitions that granule/page_table checks at run time (Granule::set_state)
\* are the only ones the array build, which checks nothing, ever makes: a granule
\* changes use only by way of Delegated.
GstStep ==
    \A g \in Granule :
       gst'[g] # gst[g] =>
          \/ gst[g] = "Undelegated" /\ gst'[g] = "Delegated"
          \/ gst[g] = "Delegated"
          \/ gst[g] # "Undelegated" /\ gst'[g] = "Delegated"
GstTransitions == [][GstStep]_vars
=============================================================================
