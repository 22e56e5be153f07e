------------------------ MODULE RealmLifecycleProofs ------------------------
(***************************************************************************)
(* Proofs about RealmLifecycle, for every memory, every set of VMIDs and   *)
(* every bound on the number of RECs.                                      *)
(***************************************************************************)
EXTENDS RealmLifecycle, FiniteSetTheorems, TLAPS

\* The RIM of a realm in this module is extended once by REALM_CREATE and once
\* for each index that REC_CREATE hands out.
RimCounts == \A r \in Granule : IsRd(r) => rd[r].rim = rd[r].recIndex + 1

\* The RIM bound is what makes the type invariant inductive.
TypeInv == TypeOK /\ RimCounts

\* What fetch_add and fetch_sub do to an AtomicU8 that holds n modulo 256.
LEMMA Mod256 ==
    \A n \in Nat : /\ n % 256 \in U8
                   /\ ((n % 256) + 1) % 256 = (n + 1) % 256
                   /\ n # 0 => ((n % 256) + 255) % 256 = (n - 1) % 256
BY SMTT(30), Zenon DEF U8

LEMMA TypeInvariant == Spec => []TypeInv
<1>ZeroTypes. /\ ZeroRd \in RdContent
              /\ ZeroRec \in RecContent
              /\ ZeroMeta \in MetaContent
  BY CountAssumption, SMTT(30), Zenon DEF ZeroRd, ZeroRec, ZeroMeta, RdContent, RecContent, MetaContent, RdState, Rim
<1>TypeInit. Init => TypeInv
  BY <1>ZeroTypes, SMTT(30), Zenon DEF Init, TypeInv, TypeOK, RimCounts, GranuleState, U8, IsRd
<1>TypeNext. TypeInv /\ [Next]_vars => TypeInv'
  <2> USE Zenon
  <2>SetGranulesType. ASSUME TypeOK, NEW S, NEW s \in GranuleState
                      PROVE  SetGranules(S, s) \in [Granule -> GranuleState]
    BY <2>SetGranulesType DEF SetGranules, TypeOK
  <2> SUFFICES ASSUME TypeInv, [Next]_vars PROVE TypeInv'
    OBVIOUS
  <2> USE CountAssumption DEF TypeInv, TypeOK, RimCounts, IsRd
  <2>1. ASSUME NEW g \in Granule, GptChange(g) PROVE TypeInv'
    BY <2>1 DEF GptChange
  <2>2. ASSUME NEW g \in Granule, GranuleDelegate(g) PROVE TypeInv'
    BY <2>2 DEF GranuleDelegate, Zeroize, GranuleState
  <2>3. ASSUME NEW g \in Granule, GranuleUndelegate(g) PROVE TypeInv'
    BY <2>3 DEF GranuleUndelegate, Zeroize, GranuleState
  <2>4. ASSUME NEW r \in Granule, NEW v \in Vmid, NEW roots \in SUBSET Granule,
               NEW a \in Algo, RealmCreate(r, v, roots, a)
        PROVE  TypeInv'
    <3>1. gst' \in [Granule -> GranuleState]
      BY <2>4, <2>SetGranulesType DEF RealmCreate, NewRd, GranuleState
    <3>2. [vmid |-> v, state |-> "New", roots |-> roots, recIndex |-> 0,
           rim |-> 1, algo |-> a, metadata |-> None] \in RdContent
      BY SMTT(30) DEF RdContent, RdState, Rim
    <3>3. rd' \in [Granule -> RdContent]
      BY <2>4, <3>2 DEF RealmCreate, NewRd
    <3>4. RimCounts'
      BY <2>4, SMTT(30) DEF RealmCreate, NewRd, SetGranules
    <3> QED BY <2>4, <3>1, <3>3, <3>4 DEF RealmCreate, NewRd
  <2>5. ASSUME NEW r \in Granule, NEW v \in Vmid, NEW roots \in SUBSET Granule,
               NEW done \in SUBSET roots, RealmCreateFails(r, v, roots, done)
        PROVE  TypeInv'
    <3>1. gst' \in [Granule -> GranuleState]
      BY <2>5, <2>SetGranulesType DEF RealmCreateFails, GranuleState
    <3> QED BY <2>5, <3>1 DEF RealmCreateFails, SetGranules
  <2>6. ASSUME NEW r \in Granule, NEW g \in Granule, NEW m \in [rim : Rim, algo : Algo],
               RealmSetMetadata(r, g, m)
        PROVE  TypeInv'
    <3>1. gst' \in [Granule -> GranuleState]
      BY <2>6 DEF RealmSetMetadata, GranuleState
    <3>2. m \in MetaContent
      BY DEF MetaContent
    <3>3. meta' \in [Granule -> MetaContent]
      BY <2>6, <3>2 DEF RealmSetMetadata
    <3>4. rd' \in [Granule -> RdContent]
      BY <2>6, SMTT(30) DEF RealmSetMetadata, RdContent
    <3>5. RimCounts'
      BY <2>6, SMTT(30) DEF RealmSetMetadata, RdContent
    <3> QED BY <2>6, <3>1, <3>3, <3>4, <3>5 DEF RealmSetMetadata
  <2>7. ASSUME NEW r \in Granule, RealmActivate(r) PROVE TypeInv'
    <3>1. rd' \in [Granule -> RdContent]
      BY <2>7, SMTT(30) DEF RealmActivate, RdContent, RdState
    <3>2. RimCounts'
      BY <2>7, SMTT(30) DEF RealmActivate, RdContent
    <3> QED BY <2>7, <3>1, <3>2 DEF RealmActivate
  <2>8. ASSUME NEW r \in Granule, RealmDestroy(r) PROVE TypeInv'
    <3>1. gst' \in [Granule -> GranuleState]
      BY <2>8, <2>SetGranulesType DEF RealmDestroy, Zeroize, GranuleState
    <3>2. rd' \in [Granule -> RdContent] /\ meta' \in [Granule -> MetaContent]
      BY <2>8, <1>ZeroTypes DEF RealmDestroy, Zeroize
    <3>3. RimCounts'
      BY <2>8 DEF RealmDestroy, Zeroize, SetGranules, Reclaimed
    <3> QED BY <2>8, <3>1, <3>2, <3>3 DEF RealmDestroy, Zeroize
  <2>9. ASSUME NEW r \in Granule, NEW c \in Granule, NEW aux \in SUBSET Granule,
               RecCreate(r, c, aux)
        PROVE  TypeInv'
    <3>1. gst' \in [Granule -> GranuleState]
      BY <2>9, <2>SetGranulesType DEF RecCreate, NewRec, GranuleState
    <3>2. /\ rd[r] \in RdContent
          /\ rd[r].recIndex \in 0 .. MaxRecIndex /\ rd[r].recIndex < MaxRecIndex
          /\ rd[r].rim = rd[r].recIndex + 1
      BY <2>9 DEF RecCreate, NewRec, RecCreateChecks, RdContent
    <3>3. rd' \in [Granule -> RdContent]
      BY <2>9, <3>2, SMTT(30) DEF RecCreate, NewRec, RecIndexAdvances, RdContent, Rim
    <3>4. RimCounts'
      BY <2>9, <3>2, ZenonT(60) DEF RecCreate, NewRec, RecIndexAdvances, RecCreateChecks, SetGranules, RdContent
    <3>5. [owner |-> r, aux |-> aux, vcpuid |-> rd[r].recIndex] \in RecContent
      BY <3>2 DEF RecContent
    <3>6. rec' \in [Granule -> RecContent]
      BY <2>9, <3>5 DEF RecCreate, NewRec
    <3>7. refcnt' \in [Granule -> U8]
      <4>0. refcnt[r] \in U8
        OBVIOUS
      <4>1. refcnt[r] + 1 \in Nat
        BY ONLY <4>0, SMTT(30) DEF U8
      <4> QED BY <2>9, <4>1, Mod256, SMTT(30) DEF RecCreate, NewRec
    <3> QED BY <2>9, <3>1, <3>3, <3>4, <3>6, <3>7, ZenonT(60) DEF RecCreate, NewRec
  <2>10. ASSUME NEW r \in Granule, NEW c \in Granule, NEW aux \in SUBSET Granule,
                NEW done \in SUBSET aux, RecCreateFails(r, c, aux, done)
         PROVE  TypeInv'
    <3>1. gst' \in [Granule -> GranuleState]
      BY <2>10, <2>SetGranulesType DEF RecCreateFails, GranuleState
    <3>2. /\ rd[r] \in RdContent
          /\ rd[r].recIndex \in 0 .. MaxRecIndex /\ rd[r].recIndex < MaxRecIndex
          /\ rd[r].rim = rd[r].recIndex + 1
      BY <2>10 DEF RecCreateFails, RecCreateChecks, RdContent
    <3>3. rd' \in [Granule -> RdContent]
      BY <2>10, <3>2, SMTT(30) DEF RecCreateFails, RecIndexAdvances, RdContent, Rim
    <3>4. RimCounts'
      BY <2>10, <3>2 DEF RecCreateFails, RecIndexAdvances, RecCreateChecks, SetGranules, RdContent
    <3> QED BY <2>10, <3>1, <3>3, <3>4 DEF RecCreateFails
  <2>11. ASSUME NEW c \in Granule, RecDestroy(c) PROVE TypeInv'
    <3>1. gst' \in [Granule -> GranuleState]
      BY <2>11, <2>SetGranulesType DEF RecDestroy, Zeroize, GranuleState
    <3>2. rec' \in [Granule -> RecContent]
      BY <2>11, <1>ZeroTypes DEF RecDestroy, Zeroize
    <3>3. refcnt' \in [Granule -> U8]
      <4>1. CASE gst[rec[c].owner] = "RD"
        <5>1. CASE rec[c].owner \in Granule
          <6>0. refcnt[rec[c].owner] \in U8
            BY <5>1, ZenonT(60)
          <6>1. refcnt[rec[c].owner] + 255 \in Nat
            BY ONLY <6>0, SMTT(30) DEF U8
          <6> QED BY <2>11, <4>1, <5>1, <6>1, Mod256, SMTT(30) DEF RecDestroy, Zeroize
        <5>2. CASE rec[c].owner \notin Granule
          <6>1. \E x : refcnt' = [refcnt EXCEPT ![rec[c].owner] = x]
            BY <2>11, <4>1, ZenonT(60) DEF RecDestroy
          <6>2. refcnt \in [Granule -> U8]
            OBVIOUS
          <6>3. PICK x : refcnt' = [refcnt EXCEPT ![rec[c].owner] = x]
            BY <6>1
          <6>4. refcnt' = refcnt
            BY ONLY <5>2, <6>2, <6>3, Zenon
          <6> QED BY <6>2, <6>4
        <5> QED BY <5>1, <5>2
      <4>2. CASE gst[rec[c].owner] # "RD"
        BY <2>11, <4>2 DEF RecDestroy, Zeroize
      <4> QED BY <4>1, <4>2
    <3>4. RimCounts'
      BY <2>11 DEF RecDestroy, Zeroize, SetGranules
    <3> QED BY <2>11, <3>1, <3>2, <3>3, <3>4 DEF RecDestroy, Zeroize
  <2>12. ASSUME NEW c \in Granule, PsciSystemOff(c) PROVE TypeInv'
    <3> DEFINE r == rec[c].owner
    <3>1. rd' = [rd EXCEPT ![r].state = "SystemOff"]
      BY <2>12 DEF PsciSystemOff
    <3> HIDE DEF r
    <3>2. rd' \in [Granule -> RdContent]
      <4>1. CASE r \in Granule
        BY <3>1, <4>1, SMTT(30) DEF RdContent, RdState
      <4>2. CASE r \notin Granule
        <5>1. rd' = rd
          BY <3>1, <4>2, SMTT(30)
        <5> QED BY <5>1
      <4> QED BY <4>1, <4>2
    <3>3. RimCounts'
      BY <2>12, <3>1, SMTT(30) DEF PsciSystemOff, RdContent
    <3> QED BY <2>12, <3>2, <3>3 DEF PsciSystemOff
  <2>13. CASE UNCHANGED vars
    BY <2>13 DEF vars
  <2> QED
    BY <2>1, <2>2, <2>3, <2>4, <2>5, <2>6, <2>7, <2>8, <2>9, <2>10, <2>11, <2>12, <2>13 DEF Next
<1> QED
  BY <1>TypeInit, <1>TypeNext, PTL DEF Spec

\* Type correctness of the Granule Status Table and of the realm objects.
THEOREM TypeCorrect == Spec => []TypeOK
<1>1. TypeInv => TypeOK
  BY Zenon DEF TypeInv
<1> QED BY TypeInvariant, <1>1, PTL DEF Spec
-----------------------------------------------------------------------------
(* Ownership of granules and VMIDs.                                        *)

StructInv == RootsOwned /\ MetadataOwned /\ GptConsistent /\ VmidsExact

\* A handler that leaves the RDs, their tables and their metadata alone keeps
\* what is said of them.
RealmsUntouched ==
    /\ vmids' = vmids
    /\ \A g \in Granule :
          /\ gst'[g] = "RD" <=> gst[g] = "RD"
          /\ gst[g] \in {"RTT", "Metadata"} => gst'[g] = gst[g]
          /\ rd'[g].vmid = rd[g].vmid
          /\ rd'[g].roots = rd[g].roots
          /\ rd'[g].metadata = rd[g].metadata

LEMMA StructCorrect == Spec => [](TypeInv /\ StructInv)
<1>StructNext. TypeInv /\ StructInv /\ [Next]_vars => StructInv'
  <2> USE Zenon
  <2>StructFrame. ASSUME TypeInv, StructInv, RealmsUntouched
                  PROVE  RootsOwned' /\ MetadataOwned' /\ VmidsExact'
    <3> USE <2>StructFrame
    <3> USE DEF TypeInv, TypeOK, StructInv, RealmsUntouched, IsRd, RdContent
    <3>1. RootsOwned'
      BY ZenonT(60) DEF RootsOwned
    <3>2. MetadataOwned'
      BY SMTT(30) DEF MetadataOwned
    <3>3. VmidsExact'
      BY SMTT(30) DEF VmidsExact
    <3> QED BY <3>1, <3>2, <3>3
  <2> SUFFICES ASSUME TypeInv, StructInv, [Next]_vars PROVE StructInv'
    OBVIOUS
  <2> USE DEF TypeInv, TypeOK, StructInv, IsRd
  <2>1. ASSUME NEW g \in Granule, GptChange(g)
       PROVE  StructInv'
    <3>1. RealmsUntouched
      BY <2>1 DEF RealmsUntouched, GptChange, RdContent
    <3>2. GptConsistent'
      BY <2>1 DEF GptConsistent, GptChange
    <3> QED BY <3>1, <3>2, <2>StructFrame
  <2>2. ASSUME NEW g \in Granule, GranuleDelegate(g)
       PROVE  StructInv'
    <3>1. RealmsUntouched
      BY <2>2 DEF RealmsUntouched, GranuleDelegate, RdContent
    <3>2. GptConsistent'
      BY <2>2 DEF GptConsistent, GranuleDelegate
    <3> QED BY <3>1, <3>2, <2>StructFrame
  <2>3. ASSUME NEW g \in Granule, GranuleUndelegate(g)
       PROVE  StructInv'
    <3>1. RealmsUntouched
      BY <2>3 DEF RealmsUntouched, GranuleUndelegate, RdContent
    <3>2. GptConsistent'
      BY <2>3 DEF GptConsistent, GranuleUndelegate
    <3> QED BY <3>1, <3>2, <2>StructFrame
  <2>4. ASSUME NEW r \in Granule, NEW v \in Vmid, NEW roots \in SUBSET Granule,
               NEW a \in Algo, RealmCreate(r, v, roots, a)
       PROVE  StructInv'
    <3>1. RootsOwned'
      BY <2>4, NoneAssumption, ZenonT(60) DEF RootsOwned, RealmCreate, NewRd, SetGranules, AllDelegated, RdContent
    <3>2. MetadataOwned'
      <4>1. /\ \A g \in Granule : gst[g] = "Metadata" => gst'[g] = "Metadata"
            /\ \A g \in Granule : gst'[g] = "RD" /\ g # r => gst[g] = "RD" /\ rd'[g] = rd[g]
            /\ rd'[r].metadata = None
        BY <2>4 DEF RealmCreate, NewRd, SetGranules, AllDelegated
      <4>2. \A g \in Granule : rd[g].metadata \in Granule \cup {None}
        BY DEF RdContent
      <4>3. \A g \in Granule : gst'[g] = "RD" /\ rd'[g].metadata # None =>
               g # r /\ gst[g] = "RD" /\ rd'[g] = rd[g] /\ rd[g].metadata \in Granule
        BY <4>1, <4>2
      <4>4. \A g \in Granule : gst'[g] = "RD" /\ rd'[g].metadata # None => gst'[rd'[g].metadata] = "Metadata"
        BY <4>1, <4>3, SMTT(30) DEF MetadataOwned
      <4>5. \A g, h \in Granule : gst'[g] = "RD" /\ gst'[h] = "RD" /\ g # h /\ rd'[g].metadata # None
               => rd'[g].metadata # rd'[h].metadata
        BY <4>1, <4>3, SMTT(30) DEF MetadataOwned
      <4> QED BY <4>4, <4>5 DEF MetadataOwned
    <3>3. GptConsistent'
      BY <2>4, NoneAssumption DEF GptConsistent, RealmCreate, NewRd, SetGranules, AllDelegated
    <3>4. /\ \A g \in Granule : gst'[g] = "RD" <=> gst[g] = "RD" \/ g = r
          /\ \A g \in Granule : g # r => rd'[g] = rd[g]
          /\ rd'[r].vmid = v
      BY <2>4 DEF RealmCreate, NewRd, SetGranules, AllDelegated
    <3>5. VmidsExact'
      BY <2>4, <3>4, SMTT(30) DEF RealmCreate, NewRd, VmidsExact
    <3> QED BY <3>1, <3>2, <3>3, <3>5
  <2>5. ASSUME NEW r \in Granule, NEW v \in Vmid, NEW roots \in SUBSET Granule,
               NEW done \in SUBSET roots, RealmCreateFails(r, v, roots, done)
       PROVE  StructInv'
    <3>1. RealmsUntouched
      BY <2>5 DEF RealmsUntouched, RealmCreateFails, StopsAfter, SetGranules, AllDelegated, RdContent
    <3>2. GptConsistent'
      BY <2>5 DEF GptConsistent, RealmCreateFails, StopsAfter, SetGranules, AllDelegated
    <3> QED BY <3>1, <3>2, <2>StructFrame
  <2>6. ASSUME NEW r \in Granule, NEW g \in Granule, NEW m \in [rim : Rim, algo : Algo], RealmSetMetadata(r, g, m)
       PROVE  StructInv'
    <3>1. RootsOwned'
      BY <2>6, NoneAssumption, SMTT(30) DEF RootsOwned, RealmSetMetadata, RdContent
    <3>2. MetadataOwned'
      BY <2>6, NoneAssumption, SMTT(30) DEF MetadataOwned, RealmSetMetadata, RdContent
    <3>3. GptConsistent'
      BY <2>6, NoneAssumption DEF GptConsistent, RealmSetMetadata
    <3>4. VmidsExact'
      BY <2>6, SMTT(30) DEF RealmSetMetadata, VmidsExact, RdContent
    <3> QED BY <3>1, <3>2, <3>3, <3>4
  <2>7. ASSUME NEW r \in Granule, RealmActivate(r)
       PROVE  StructInv'
    <3>1. RealmsUntouched
      BY <2>7, SMTT(30) DEF RealmsUntouched, RealmActivate, RdContent
    <3>2. GptConsistent'
      BY <2>7 DEF GptConsistent, RealmActivate
    <3> QED BY <3>1, <3>2, <2>StructFrame
  <2>8. ASSUME NEW r \in Granule, RealmDestroy(r)
       PROVE  StructInv'
    <3> DEFINE m == rd[r].metadata
    <3>1. \A g \in Granule :
             gst'[g] = IF g = r \/ g \in rd[r].roots \/ g = m THEN "Delegated" ELSE gst[g]
      BY <2>8, NoneAssumption DEF RealmDestroy, Reclaimed, SetGranules
    <3>2. /\ \A g \in Granule : g # r => rd'[g] = rd[g]
          /\ vmids' = vmids \ {rd[r].vmid}
          /\ m # None => gst[m] = "Metadata"
          /\ \A g \in rd[r].roots : gst[g] = "RTT"
      BY <2>8 DEF RealmDestroy, RootsOwned
    <3>3. \A g \in Granule : gst'[g] = "RD" <=> gst[g] = "RD" /\ g # r
      BY <2>8, <3>1, <3>2, NoneAssumption, SMTT(30) DEF RealmDestroy, RdContent
    <3>4. RootsOwned'
      BY <3>1, <3>2, <3>3, NoneAssumption, <2>8, SMTT(30) DEF RealmDestroy, RootsOwned, RdContent
    <3>5. MetadataOwned'
      BY <3>1, <3>2, <3>3, NoneAssumption, <2>8, SMTT(30) DEF RealmDestroy, MetadataOwned, RdContent
    <3>6. GptConsistent'
      BY <2>8, <3>1, <3>2, NoneAssumption, SMTT(30) DEF RealmDestroy, GptConsistent
    <3>7. VmidsExact'
      BY <2>8, <3>2, <3>3, SMTT(30) DEF RealmDestroy, VmidsExact
    <3> QED BY <3>4, <3>5, <3>6, <3>7
  <2>9. ASSUME NEW r \in Granule, NEW c \in Granule, NEW aux \in SUBSET Granule, RecCreate(r, c, aux)
       PROVE  StructInv'
    <3>1. RealmsUntouched
      BY <2>9, SMTT(30) DEF RealmsUntouched, RecCreate, NewRec, RecCreateChecks, RecIndexAdvances, SetGranules, AllDelegated, RdContent
    <3>2. GptConsistent'
      BY <2>9 DEF GptConsistent, RecCreate, NewRec, RecCreateChecks, RecIndexAdvances, SetGranules, AllDelegated
    <3> QED BY <3>1, <3>2, <2>StructFrame
  <2>10. ASSUME NEW r \in Granule, NEW c \in Granule, NEW aux \in SUBSET Granule,
               NEW done \in SUBSET aux, RecCreateFails(r, c, aux, done)
       PROVE  StructInv'
    <3>1. RealmsUntouched
      BY <2>10, SMTT(30) DEF RealmsUntouched, RecCreateFails, RecCreateChecks, RecIndexAdvances, StopsAfter, SetGranules, AllDelegated, RdContent
    <3>2. GptConsistent'
      BY <2>10 DEF GptConsistent, RecCreateFails, RecCreateChecks, RecIndexAdvances, StopsAfter, SetGranules, AllDelegated
    <3> QED BY <3>1, <3>2, <2>StructFrame
  <2>11. ASSUME NEW c \in Granule, RecDestroy(c)
       PROVE  StructInv'
    <3>1. RealmsUntouched
      BY <2>11 DEF RealmsUntouched, RecDestroy, SetGranules, RdContent
    <3>2. GptConsistent'
      BY <2>11 DEF GptConsistent, RecDestroy, SetGranules
    <3> QED BY <3>1, <3>2, <2>StructFrame
  <2>12. ASSUME NEW c \in Granule, PsciSystemOff(c)
       PROVE  StructInv'
    <3>1. RealmsUntouched
      BY <2>12, SMTT(30) DEF RealmsUntouched, PsciSystemOff, RdContent
    <3>2. GptConsistent'
      BY <2>12 DEF GptConsistent, PsciSystemOff
    <3> QED BY <3>1, <3>2, <2>StructFrame
  <2>13. CASE UNCHANGED vars
    BY <2>13, SMTT(30) DEF vars, RootsOwned, MetadataOwned, GptConsistent, VmidsExact
  <2> QED
    BY <2>1, <2>2, <2>3, <2>4, <2>5, <2>6, <2>7, <2>8, <2>9, <2>10, <2>11, <2>12, <2>13 DEF Next
<1>1. Init => StructInv
  BY Zenon DEF Init, StructInv, RootsOwned, MetadataOwned, GptConsistent, VmidsExact, IsRd
<1> QED BY TypeInvariant, <1>1, <1>StructNext, PTL DEF Spec

\* The root tables of a realm belong to it alone (REALM_CREATE, REALM_DESTROY).
THEOREM RootsOwnedCorrect == Spec => []RootsOwned
<1>1. StructInv => RootsOwned
  BY Zenon DEF StructInv
<1> QED BY StructCorrect, <1>1, PTL

\* The metadata granule of a realm belongs to it alone.
THEOREM MetadataOwnedCorrect == Spec => []MetadataOwned
<1>1. StructInv => MetadataOwned
  BY Zenon DEF StructInv
<1> QED BY StructCorrect, <1>1, PTL

\* The GST and the GPT agree, so GRANULE_UNDELEGATE does not panic.
THEOREM GptCorrect == Spec => []GptConsistent
<1>1. StructInv => GptConsistent
  BY Zenon DEF StructInv
<1> QED BY StructCorrect, <1>1, PTL

\* VMID_SET holds the VMIDs of the living realms, each used once.
THEOREM VmidsCorrect == Spec => []VmidsExact
<1>1. StructInv => VmidsExact
  BY Zenon DEF StructInv
<1> QED BY StructCorrect, <1>1, PTL

\* No granule goes back to the host with what the RMM wrote into it.
THEOREM NoResidueCorrect == Spec => []NoResidue
<1>1. Init => NoResidue
  BY Zenon DEF Init, NoResidue
<1>2. TypeInv /\ NoResidue /\ [Next]_vars => NoResidue'
  <2> USE Zenon
  <2> SUFFICES ASSUME TypeInv, NoResidue, [Next]_vars PROVE NoResidue'
    OBVIOUS
  <2> USE DEF TypeInv, TypeOK, NoResidue, Zeroize
  <2>1. ASSUME NEW g \in Granule, GptChange(g)
       PROVE  NoResidue'
    BY <2>1 DEF GptChange
  <2>2. ASSUME NEW g \in Granule, GranuleDelegate(g)
       PROVE  NoResidue'
    BY <2>2 DEF GranuleDelegate
  <2>3. ASSUME NEW g \in Granule, GranuleUndelegate(g)
       PROVE  NoResidue'
    BY <2>3 DEF GranuleUndelegate
  <2>4. ASSUME NEW r \in Granule, NEW v \in Vmid, NEW roots \in SUBSET Granule,
               NEW a \in Algo, RealmCreate(r, v, roots, a)
       PROVE  NoResidue'
    BY <2>4 DEF RealmCreate, SetGranules, AllDelegated
  <2>5. ASSUME NEW r \in Granule, NEW v \in Vmid, NEW roots \in SUBSET Granule,
               NEW done \in SUBSET roots, RealmCreateFails(r, v, roots, done)
       PROVE  NoResidue'
    BY <2>5 DEF RealmCreateFails, StopsAfter, SetGranules, AllDelegated
  <2>6. ASSUME NEW r \in Granule, NEW g \in Granule, NEW m \in [rim : Rim, algo : Algo], RealmSetMetadata(r, g, m)
       PROVE  NoResidue'
    BY <2>6 DEF RealmSetMetadata
  <2>7. ASSUME NEW r \in Granule, RealmActivate(r)
       PROVE  NoResidue'
    BY <2>7 DEF RealmActivate
  <2>8. ASSUME NEW r \in Granule, RealmDestroy(r)
       PROVE  NoResidue'
    BY <2>8 DEF RealmDestroy, Reclaimed, SetGranules
  <2>9. ASSUME NEW r \in Granule, NEW c \in Granule, NEW aux \in SUBSET Granule, RecCreate(r, c, aux)
       PROVE  NoResidue'
    BY <2>9 DEF RecCreate, RecCreateChecks, RecIndexAdvances, SetGranules, AllDelegated
  <2>10. ASSUME NEW r \in Granule, NEW c \in Granule, NEW aux \in SUBSET Granule,
               NEW done \in SUBSET aux, RecCreateFails(r, c, aux, done)
       PROVE  NoResidue'
    BY <2>10 DEF RecCreateFails, RecCreateChecks, RecIndexAdvances, StopsAfter, SetGranules, AllDelegated
  <2>11. ASSUME NEW c \in Granule, RecDestroy(c)
       PROVE  NoResidue'
    BY <2>11 DEF RecDestroy, SetGranules
  <2>12. ASSUME NEW c \in Granule, PsciSystemOff(c)
       PROVE  NoResidue'
    BY <2>12 DEF PsciSystemOff
  <2>13. CASE UNCHANGED vars
    BY <2>13 DEF vars
  <2> QED
    BY <2>1, <2>2, <2>3, <2>4, <2>5, <2>6, <2>7, <2>8, <2>9, <2>10, <2>11, <2>12, <2>13 DEF Next
<1> QED BY TypeInvariant, <1>1, <1>2, PTL DEF Spec

-----------------------------------------------------------------------------
(* What a step may not do, and what an activated realm keeps.              *)

\* An activated realm is not touched in what its metadata was signed for.
ActiveKept ==
    \A r \in Granule : gst'[r] = "RD" /\ rd'[r].state \in {"Active", "SystemOff"} =>
       /\ gst[r] = "RD" /\ rd[r].state \in {"Active", "SystemOff"}
       /\ rd'[r].rim = rd[r].rim /\ rd'[r].algo = rd[r].algo
       /\ rd'[r].metadata = rd[r].metadata
       /\ rd[r].metadata # None =>
             /\ gst'[rd[r].metadata] = "Metadata"
             /\ meta'[rd[r].metadata] = meta[rd[r].metadata]

LEMMA StepProperties ==
    TypeInv /\ StructInv /\ ActiveMatchesMetadata /\ [Next]_vars
       => ActiveMatchesMetadata' /\ [RimStep]_vars /\ [GstStep]_vars
<1> USE Zenon
<1>ActiveFrame. ASSUME ActiveMatchesMetadata, ActiveKept
                PROVE  ActiveMatchesMetadata'
  BY <1>ActiveFrame, SMTT(30) DEF ActiveMatchesMetadata, ActiveKept, MetadataAgrees, IsRd
<1> SUFFICES ASSUME TypeInv, StructInv, ActiveMatchesMetadata, [Next]_vars
             PROVE  ActiveMatchesMetadata' /\ [RimStep]_vars /\ [GstStep]_vars
  OBVIOUS
<1> DEFINE Good == ActiveMatchesMetadata' /\ RimStep /\ GstStep
<1> USE DEF TypeInv, TypeOK, IsRd
<1>1. ASSUME NEW g \in Granule, GptChange(g)
     PROVE  Good
  <2>0. ActiveKept
    BY <1>1, NoneAssumption DEF ActiveKept, GptChange, RdContent, RdState, StructInv, MetadataOwned
  <2>1. ActiveMatchesMetadata'
    BY <2>0, <1>ActiveFrame
  <2>2. RimStep
    BY <1>1 DEF RimStep, GptChange, RdContent
  <2>3. GstStep
    BY <1>1 DEF GstStep, GptChange
  <2> QED BY <2>1, <2>2, <2>3
<1>2. ASSUME NEW g \in Granule, GranuleDelegate(g)
     PROVE  Good
  <2>0. ActiveKept
    BY <1>2, NoneAssumption DEF ActiveKept, GranuleDelegate, RdContent, RdState, StructInv, MetadataOwned
  <2>1. ActiveMatchesMetadata'
    BY <2>0, <1>ActiveFrame
  <2>2. RimStep
    BY <1>2 DEF RimStep, GranuleDelegate, RdContent
  <2>3. GstStep
    BY <1>2 DEF GstStep, GranuleDelegate
  <2> QED BY <2>1, <2>2, <2>3
<1>3. ASSUME NEW g \in Granule, GranuleUndelegate(g)
     PROVE  Good
  <2>0. ActiveKept
    BY <1>3, NoneAssumption DEF ActiveKept, GranuleUndelegate, RdContent, RdState, StructInv, MetadataOwned
  <2>1. ActiveMatchesMetadata'
    BY <2>0, <1>ActiveFrame
  <2>2. RimStep
    BY <1>3 DEF RimStep, GranuleUndelegate, RdContent
  <2>3. GstStep
    BY <1>3 DEF GstStep, GranuleUndelegate
  <2> QED BY <2>1, <2>2, <2>3
<1>4. ASSUME NEW r \in Granule, NEW v \in Vmid, NEW roots \in SUBSET Granule,
             NEW a \in Algo, RealmCreate(r, v, roots, a)
     PROVE  Good
  <2>4. /\ \A g \in Granule : gst'[g] = "RD" /\ g # r => gst[g] = "RD" /\ rd'[g] = rd[g]
        /\ \A g \in Granule : gst[g] = "Metadata" => gst'[g] = "Metadata"
        /\ rd'[r].state = "New" /\ meta' = meta
    BY <1>4 DEF RealmCreate, NewRd, SetGranules, AllDelegated
  <2>0. ActiveKept
    <3>1. \A g \in Granule : rd[g].metadata \in Granule \cup {None}
      BY DEF RdContent
    <3>2. \A g \in Granule : gst[g] = "RD" /\ rd[g].metadata # None => gst[rd[g].metadata] = "Metadata"
      BY DEF StructInv, MetadataOwned
    <3> QED BY ONLY <2>4, <3>1, <3>2, Zenon DEF ActiveKept
  <2>1. ActiveMatchesMetadata'
    BY <2>0, <1>ActiveFrame
  <2>2. RimStep
    BY ONLY <1>4, <2>4, Zenon DEF RimStep, RealmCreate, IsRd
  <2>3. GstStep
    BY <1>4 DEF GstStep, RealmCreate, NewRd, SetGranules, AllDelegated
  <2> QED BY <2>1, <2>2, <2>3
<1>5. ASSUME NEW r \in Granule, NEW v \in Vmid, NEW roots \in SUBSET Granule,
             NEW done \in SUBSET roots, RealmCreateFails(r, v, roots, done)
     PROVE  Good
  <2>0. ActiveKept
    BY <1>5, NoneAssumption DEF ActiveKept, RealmCreateFails, StopsAfter, SetGranules, AllDelegated, RdContent, RdState, StructInv, MetadataOwned
  <2>1. ActiveMatchesMetadata'
    BY <2>0, <1>ActiveFrame
  <2>2. RimStep
    BY <1>5 DEF RimStep, RealmCreateFails, StopsAfter, SetGranules, AllDelegated, RdContent
  <2>3. GstStep
    BY <1>5 DEF GstStep, RealmCreateFails, StopsAfter, SetGranules, AllDelegated
  <2> QED BY <2>1, <2>2, <2>3
<1>6. ASSUME NEW r \in Granule, NEW g \in Granule, NEW m \in [rim : Rim, algo : Algo], RealmSetMetadata(r, g, m)
     PROVE  Good
  <2>0. ActiveKept
    BY <1>6, NoneAssumption, SMTT(30) DEF ActiveKept, RealmSetMetadata, RdContent, RdState, StructInv, MetadataOwned
  <2>1. ActiveMatchesMetadata'
    BY <2>0, <1>ActiveFrame
  <2>2. RimStep
    BY <1>6 DEF RimStep, RealmSetMetadata, RdContent
  <2>3. GstStep
    BY <1>6 DEF GstStep, RealmSetMetadata
  <2> QED BY <2>1, <2>2, <2>3
<1>7. ASSUME NEW r \in Granule, RealmActivate(r)
     PROVE  Good
  <2>1. ActiveMatchesMetadata'
    BY <1>7, SMTT(30) DEF ActiveMatchesMetadata, MetadataAgrees, RealmActivate, RdContent
  <2>2. RimStep
    BY <1>7 DEF RimStep, RealmActivate, RdContent
  <2>3. GstStep
    BY <1>7 DEF GstStep, RealmActivate
  <2> QED BY <2>1, <2>2, <2>3
<1>8. ASSUME NEW r \in Granule, RealmDestroy(r)
     PROVE  Good
  <2>0. ActiveKept
    BY <1>8, NoneAssumption, SMTT(30) DEF ActiveKept, RealmDestroy, Reclaimed, SetGranules, RdContent, RdState, StructInv, RootsOwned, MetadataOwned
  <2>1. ActiveMatchesMetadata'
    BY <2>0, <1>ActiveFrame
  <2>2. RimStep
    BY <1>8 DEF RimStep, RealmDestroy, Reclaimed, SetGranules, RdContent, StructInv, RootsOwned
  <2>3. GstStep
    BY <1>8 DEF GstStep, RealmDestroy, Reclaimed, SetGranules, StructInv, RootsOwned
  <2> QED BY <2>1, <2>2, <2>3
<1>9. ASSUME NEW r \in Granule, NEW c \in Granule, NEW aux \in SUBSET Granule, RecCreate(r, c, aux)
     PROVE  Good
  <2>0. ActiveKept
    BY <1>9, NoneAssumption, SMTT(30) DEF ActiveKept, RecCreate, NewRec, RecCreateChecks, RecIndexAdvances, SetGranules, AllDelegated, RdContent, RdState, StructInv, MetadataOwned
  <2>1. ActiveMatchesMetadata'
    BY <2>0, <1>ActiveFrame
  <2>2. RimStep
    BY <1>9 DEF RimStep, RecCreate, NewRec, RecCreateChecks, RecIndexAdvances, SetGranules, AllDelegated, RdContent
  <2>3. GstStep
    BY <1>9 DEF GstStep, RecCreate, NewRec, RecCreateChecks, RecIndexAdvances, SetGranules, AllDelegated
  <2> QED BY <2>1, <2>2, <2>3
<1>10. ASSUME NEW r \in Granule, NEW c \in Granule, NEW aux \in SUBSET Granule,
             NEW done \in SUBSET aux, RecCreateFails(r, c, aux, done)
     PROVE  Good
  <2>0. ActiveKept
    BY <1>10, NoneAssumption, SMTT(30) DEF ActiveKept, RecCreateFails, RecCreateChecks, RecIndexAdvances, StopsAfter, SetGranules, AllDelegated, RdContent, RdState, StructInv, MetadataOwned
  <2>1. ActiveMatchesMetadata'
    BY <2>0, <1>ActiveFrame
  <2>2. RimStep
    BY <1>10 DEF RimStep, RecCreateFails, RecCreateChecks, RecIndexAdvances, StopsAfter, SetGranules, AllDelegated, RdContent
  <2>3. GstStep
    BY <1>10 DEF GstStep, RecCreateFails, RecCreateChecks, RecIndexAdvances, StopsAfter, SetGranules, AllDelegated
  <2> QED BY <2>1, <2>2, <2>3
<1>11. ASSUME NEW c \in Granule, RecDestroy(c)
     PROVE  Good
  <2>4. /\ rd' = rd /\ meta' = meta
        /\ \A g \in Granule : gst'[g] = gst[g] \/ (gst[g] \in {"Rec", "RecAux"} /\ gst'[g] = "Delegated")
    BY <1>11 DEF RecDestroy, SetGranules
  <2>0. ActiveKept
    <3>1. \A g \in Granule : rd[g].metadata \in Granule \cup {None}
      BY DEF RdContent
    <3>2. \A g \in Granule : gst[g] = "RD" /\ rd[g].metadata # None => gst[rd[g].metadata] = "Metadata"
      BY DEF StructInv, MetadataOwned
    <3> QED BY ONLY <2>4, <3>1, <3>2, ZenonT(60) DEF ActiveKept
  <2>1. ActiveMatchesMetadata'
    BY <2>0, <1>ActiveFrame
  <2>2. RimStep
    BY ONLY <2>4, Zenon DEF RimStep, IsRd
  <2>3. GstStep
    BY <1>11 DEF GstStep, RecDestroy, SetGranules
  <2> QED BY <2>1, <2>2, <2>3
<1>12. ASSUME NEW c \in Granule, PsciSystemOff(c)
     PROVE  Good
  <2>0. ActiveKept
    BY <1>12, NoneAssumption, SMTT(30) DEF ActiveKept, PsciSystemOff, RdContent, RdState, StructInv, MetadataOwned
  <2>1. ActiveMatchesMetadata'
    BY <2>0, <1>ActiveFrame
  <2>2. RimStep
    BY <1>12, SMTT(30) DEF RimStep, PsciSystemOff, RdContent
  <2>3. GstStep
    BY <1>12 DEF GstStep, PsciSystemOff
  <2> QED BY <2>1, <2>2, <2>3
<1>13. CASE UNCHANGED vars
  BY <1>13 DEF vars, ActiveMatchesMetadata, MetadataAgrees
<1> QED
  BY <1>1, <1>2, <1>3, <1>4, <1>5, <1>6, <1>7, <1>8, <1>9, <1>10, <1>11, <1>12, <1>13 DEF Next

LEMMA StepCorrect == Spec => [](TypeInv /\ StructInv /\ ActiveMatchesMetadata)
<1>1. Init => ActiveMatchesMetadata
  BY Zenon DEF Init, ActiveMatchesMetadata, IsRd
<1> QED BY StructCorrect, <1>1, StepProperties, PTL DEF Spec

\* An activated realm keeps the RIM and the algorithm its metadata names.
THEOREM ActiveMetadataCorrect == Spec => []ActiveMatchesMetadata
BY StepCorrect, PTL

\* The RIM of a realm that has left New is final.
THEOREM RimFrozenCorrect == Spec => RimFrozen
BY StepCorrect, StepProperties, PTL DEF Spec, RimFrozen

\* A granule changes use only by way of Delegated.
THEOREM GstTransitionsCorrect == Spec => GstTransitions
BY StepCorrect, StepProperties, PTL DEF Spec, GstTransitions

-----------------------------------------------------------------------------

(* The reference count of an RD.                                           *)

LEMMA RecsFinite ==
    \A r : IsFiniteSet(RecsOf(r)) /\ Cardinality(RecsOf(r)) \in Nat
<1> USE Zenon
<1> TAKE r
<1>1. RecsOf(r) \subseteq Granule
  BY DEF RecsOf
<1>2. IsFiniteSet(RecsOf(r))
  BY <1>1, GranuleAssumption, FS_Subset
<1> QED BY <1>2, FS_CardinalityType

\* A handler that neither makes nor destroys a REC keeps the counts.
RecsUntouched ==
    /\ refcnt' = refcnt
    /\ \A g \in Granule :
          /\ gst'[g] = "Rec" <=> gst[g] = "Rec"
          /\ gst[g] = "Rec" => rec'[g] = rec[g]

\* A REC names a granule as its owner, whether or not an RD is still there.
OwnersKnown == \A c \in Granule : IsRec(c) => rec[c].owner \in Granule

CountInv == RefCountExact /\ OwnersKnown

LEMMA CountCorrect == Spec => [](TypeInv /\ StructInv /\ CountInv)
<1>RefCountNext. TypeInv /\ StructInv /\ CountInv /\ [Next]_vars => CountInv'
  <2> USE Zenon
  <2>RefCountFrame. ASSUME CountInv, RecsUntouched
                    PROVE  CountInv'
    <3> USE <2>RefCountFrame
    <3>1. \A r : RecsOf(r)' = RecsOf(r)
      BY DEF RecsUntouched, RecsOf
    <3>2. OwnersKnown'
      BY DEF CountInv, OwnersKnown, RecsUntouched, IsRec
    <3> QED BY <3>1, <3>2, ZenonT(60) DEF CountInv, RefCountExact, RecsUntouched
  <2> SUFFICES ASSUME TypeInv, StructInv, CountInv, [Next]_vars PROVE CountInv'
    OBVIOUS
  <2> USE DEF TypeInv, TypeOK, IsRd, CountInv
  <2>1. ASSUME NEW g \in Granule, GptChange(g)
       PROVE  CountInv'
    <3>1. RecsUntouched
      BY <2>1 DEF RecsUntouched, GptChange
    <3> QED BY <3>1, <2>RefCountFrame
  <2>2. ASSUME NEW g \in Granule, GranuleDelegate(g)
       PROVE  CountInv'
    <3>1. RecsUntouched
      BY <2>2 DEF RecsUntouched, GranuleDelegate
    <3> QED BY <3>1, <2>RefCountFrame
  <2>3. ASSUME NEW g \in Granule, GranuleUndelegate(g)
       PROVE  CountInv'
    <3>1. RecsUntouched
      BY <2>3 DEF RecsUntouched, GranuleUndelegate
    <3> QED BY <3>1, <2>RefCountFrame
  <2>4. ASSUME NEW r \in Granule, NEW v \in Vmid, NEW roots \in SUBSET Granule,
               NEW a \in Algo, RealmCreate(r, v, roots, a)
       PROVE  CountInv'
    <3>1. RecsUntouched
      BY <2>4 DEF RecsUntouched, RealmCreate, NewRd, SetGranules, AllDelegated
    <3> QED BY <3>1, <2>RefCountFrame
  <2>5. ASSUME NEW r \in Granule, NEW v \in Vmid, NEW roots \in SUBSET Granule,
               NEW done \in SUBSET roots, RealmCreateFails(r, v, roots, done)
       PROVE  CountInv'
    <3>1. RecsUntouched
      BY <2>5 DEF RecsUntouched, RealmCreateFails, StopsAfter, SetGranules, AllDelegated
    <3> QED BY <3>1, <2>RefCountFrame
  <2>6. ASSUME NEW r \in Granule, NEW g \in Granule, NEW m \in [rim : Rim, algo : Algo], RealmSetMetadata(r, g, m)
       PROVE  CountInv'
    <3>1. RecsUntouched
      BY <2>6 DEF RecsUntouched, RealmSetMetadata
    <3> QED BY <3>1, <2>RefCountFrame
  <2>7. ASSUME NEW r \in Granule, RealmActivate(r)
       PROVE  CountInv'
    <3>1. RecsUntouched
      BY <2>7 DEF RecsUntouched, RealmActivate
    <3> QED BY <3>1, <2>RefCountFrame
  <2>8. ASSUME NEW r \in Granule, RealmDestroy(r)
       PROVE  CountInv'
    <3>1. RecsUntouched
      BY <2>8 DEF RecsUntouched, RealmDestroy, Reclaimed, SetGranules, StructInv, RootsOwned
    <3> QED BY <3>1, <2>RefCountFrame
  <2>9. ASSUME NEW r \in Granule, NEW c \in Granule, NEW aux \in SUBSET Granule, RecCreate(r, c, aux)
       PROVE  CountInv'
    <3>1. RecsOf(r)' = RecsOf(r) \cup {c} /\ c \notin RecsOf(r)
      BY <2>9 DEF RecCreate, NewRec, RecCreateChecks, AllDelegated, SetGranules, RecsOf
    <3>2. \A s \in Granule : s # r => RecsOf(s)' = RecsOf(s)
      BY <2>9 DEF RecCreate, NewRec, RecCreateChecks, AllDelegated, SetGranules, RecsOf
    <3>3. Cardinality(RecsOf(r))' = Cardinality(RecsOf(r)) + 1
      BY <3>1, RecsFinite, FS_AddElement
    <3>4. refcnt'[r] = (refcnt[r] + 1) % 256 /\ \A s \in Granule : s # r => refcnt'[s] = refcnt[s]
      BY <2>9, ZenonT(60) DEF RecCreate, NewRec
    <3>5. refcnt'[r] = Cardinality(RecsOf(r))' % 256
      BY <3>3, <3>4, RecsFinite, Mod256, SMTT(30) DEF RefCountExact
    <3>6. OwnersKnown'
      BY <2>9 DEF RecCreate, NewRec, RecCreateChecks, AllDelegated, SetGranules, OwnersKnown, IsRec
    <3> QED BY <3>2, <3>4, <3>5, <3>6, SMTT(30) DEF RefCountExact
  <2>10. ASSUME NEW r \in Granule, NEW c \in Granule, NEW aux \in SUBSET Granule,
               NEW done \in SUBSET aux, RecCreateFails(r, c, aux, done)
       PROVE  CountInv'
    <3>1. RecsUntouched
      BY <2>10 DEF RecsUntouched, RecCreateFails, RecCreateChecks, RecIndexAdvances, StopsAfter, SetGranules, AllDelegated
    <3> QED BY <3>1, <2>RefCountFrame
  <2>11. ASSUME NEW c \in Granule, RecDestroy(c)
       PROVE  CountInv'
    <3>0. PICK r \in Granule : rec[c].owner = r
      BY <2>11 DEF RecDestroy, OwnersKnown, IsRec
    <3>1. CASE gst[r] = "RD"
      <4>1. RecsOf(r)' = RecsOf(r) \ {c} /\ c \in RecsOf(r)
        BY <2>11, <3>0, <3>1 DEF RecDestroy, SetGranules, RecsOf
      <4>2. \A s \in Granule : s # r => RecsOf(s)' = RecsOf(s)
        BY <2>11, <3>0, <3>1, ZenonT(60) DEF RecDestroy, SetGranules, RecsOf
      <4>3. Cardinality(RecsOf(r))' = Cardinality(RecsOf(r)) - 1
        BY <4>1, RecsFinite, FS_RemoveElement
      <4>4. Cardinality(RecsOf(r)) # 0
        BY <4>1, RecsFinite, FS_EmptySet
      <4>5. refcnt'[r] = (refcnt[r] + 255) % 256 /\ \A s \in Granule : s # r => refcnt'[s] = refcnt[s]
        BY <2>11, <3>0, <3>1, ZenonT(60) DEF RecDestroy
      <4>6. refcnt'[r] = Cardinality(RecsOf(r))' % 256
        BY <3>1, <4>3, <4>4, <4>5, RecsFinite, Mod256, SMTT(30) DEF RefCountExact
      <4>7. OwnersKnown'
        BY <2>11, <3>0, <3>1 DEF RecDestroy, SetGranules, OwnersKnown, IsRec
      <4> QED BY <4>2, <4>5, <4>6, <4>7, SMTT(30) DEF RefCountExact
    <3>2. CASE gst[r] # "RD"
      <4>1. RecsUntouched
        BY <2>11, <3>0, <3>2 DEF RecDestroy, SetGranules, RecsUntouched
      <4> QED BY <4>1, <2>RefCountFrame
    <3> QED BY <3>1, <3>2
  <2>12. ASSUME NEW c \in Granule, PsciSystemOff(c)
       PROVE  CountInv'
    <3>1. RecsUntouched
      BY <2>12 DEF RecsUntouched, PsciSystemOff
    <3> QED BY <3>1, <2>RefCountFrame
  <2>13. CASE UNCHANGED vars
    BY <2>13, <2>RefCountFrame DEF vars, RecsUntouched
  <2> QED
    BY <2>1, <2>2, <2>3, <2>4, <2>5, <2>6, <2>7, <2>8, <2>9, <2>10, <2>11, <2>12, <2>13 DEF Next
<1>1. Init => CountInv
  <2> USE Zenon
  <2> SUFFICES ASSUME Init, NEW r \in Granule PROVE refcnt[r] = Cardinality(RecsOf(r)) % 256
    BY ZenonT(60) DEF CountInv, RefCountExact, OwnersKnown, IsRec, Init
  <2>1. RecsOf(r) = {}
    BY DEF Init, RecsOf
  <2>2. Cardinality(RecsOf(r)) = 0
    BY <2>1, FS_EmptySet
  <2> QED BY <2>2, SMTT(30) DEF Init
<1> QED BY StructCorrect, <1>1, <1>RefCountNext, PTL DEF Spec

\* ref_count counts the RECs of a realm modulo 256, whatever the handlers do
\* (inc_count in REC_CREATE, dec_count in REC_DESTROY).
THEOREM RefCountCorrect == Spec => []RefCountExact
<1>1. CountInv => RefCountExact
  BY Zenon DEF CountInv
<1> QED BY CountCorrect, <1>1, PTL

-----------------------------------------------------------------------------
(* A REC and its realm.  REALM_DESTROY looks only at ref_count, so what     *)
(* follows needs a ref_count that does not wrap.                            *)

RecInv == OwnerAlive /\ VcpuidUnique /\ AuxOwned

\* What a handler that makes or destroys no REC leaves alone.
RecsKept ==
    /\ \A g \in Granule :
          /\ gst'[g] = "Rec" <=> gst[g] = "Rec"
          /\ gst[g] = "Rec" => rec'[g] = rec[g]
          /\ gst[g] = "RecAux" => gst'[g] = "RecAux"
    /\ \A c \in Granule : gst[c] = "Rec" =>
          /\ gst'[rec[c].owner] = "RD"
          /\ rd'[rec[c].owner].recIndex \in Nat
          /\ rd'[rec[c].owner].recIndex >= rd[rec[c].owner].recIndex

LEMMA RecInvCorrect == Spec /\ []FewRecs => []RecInv
<1>RecInvNext. TypeInv /\ StructInv /\ CountInv /\ FewRecs /\ RecInv /\ [Next]_vars => RecInv'
           \* A count of zero then means that no REC is left.
  <2> USE Zenon
  <2>NoRecsLeft. ASSUME CountInv, FewRecs, NEW r \in Granule, refcnt[r] = 0
                 PROVE  \A c \in Granule : gst[c] = "Rec" => rec[c].owner # r
    <3> USE <2>NoRecsLeft
    <3>1. Cardinality(RecsOf(r)) \in Nat /\ Cardinality(RecsOf(r)) < 256
      BY RecsFinite, ZenonT(60) DEF FewRecs
    <3>2. Cardinality(RecsOf(r)) % 256 = 0
      BY ZenonT(60) DEF CountInv, RefCountExact
    <3>3. Cardinality(RecsOf(r)) = 0
      BY <3>1, <3>2, SMTT(30)
    <3>4. RecsOf(r) = {}
      BY <3>3, RecsFinite, FS_EmptySet
    <3> QED BY <3>4 DEF RecsOf
  <2>RecFrame. ASSUME TypeInv, RecInv, RecsKept
               PROVE  RecInv'
    <3> USE <2>RecFrame
    <3> USE DEF TypeInv, TypeOK, RecInv, RecsKept, IsRd, IsRec
    <3>1. OwnerAlive'
      BY DEF OwnerAlive
    <3>2. AuxOwned'
      BY ZenonT(60) DEF AuxOwned, RecContent
    <3>3. VcpuidUnique'
      <4>1. \A c \in Granule : gst[c] = "Rec" =>
               /\ rec[c].vcpuid \in Nat /\ rec[c].owner \in Granule
               /\ rd[rec[c].owner].recIndex \in Nat
               /\ rec[c].vcpuid < rd[rec[c].owner].recIndex
        BY CountAssumption, SMTT(30) DEF OwnerAlive, VcpuidUnique, RecContent, RdContent
      <4>2. \A c \in Granule : gst'[c] = "Rec" => rec'[c].vcpuid < rd'[rec'[c].owner].recIndex
        BY <4>1, SMTT(30)
      <4> QED BY <4>2, SMTT(30) DEF VcpuidUnique
    <3> QED BY <3>1, <3>2, <3>3
  <2> SUFFICES ASSUME TypeInv, StructInv, CountInv, FewRecs, RecInv, [Next]_vars
               PROVE  RecInv'
    OBVIOUS
  <2> USE DEF TypeInv, TypeOK, IsRd, IsRec, RecInv
  <2>14. OwnerAlive /\ VcpuidUnique /\ AuxOwned
    OBVIOUS
  <2>0. \A c \in Granule : gst[c] = "Rec" =>
           /\ rec[c].owner \in Granule /\ gst[rec[c].owner] = "RD"
           /\ rd[rec[c].owner].recIndex \in Nat
    BY CountAssumption, SMTT(30) DEF OwnerAlive, RdContent
  <2>1. ASSUME NEW g \in Granule, GptChange(g)
       PROVE  RecInv'
    <3>1. RecsKept
      BY <2>0, <2>1, SMTT(30) DEF RecsKept, GptChange, RdContent
    <3> QED BY <3>1, <2>RecFrame
  <2>2. ASSUME NEW g \in Granule, GranuleDelegate(g)
       PROVE  RecInv'
    <3>1. RecsKept
      BY <2>0, <2>2, SMTT(30) DEF RecsKept, GranuleDelegate, RdContent
    <3> QED BY <3>1, <2>RecFrame
  <2>3. ASSUME NEW g \in Granule, GranuleUndelegate(g)
       PROVE  RecInv'
    <3>1. RecsKept
      BY <2>0, <2>3, SMTT(30) DEF RecsKept, GranuleUndelegate, RdContent
    <3> QED BY <3>1, <2>RecFrame
  <2>4. ASSUME NEW r \in Granule, NEW v \in Vmid, NEW roots \in SUBSET Granule,
               NEW a \in Algo, RealmCreate(r, v, roots, a)
       PROVE  RecInv'
    <3>1. RecsKept
      BY <2>0, <2>4, SMTT(30) DEF RecsKept, RealmCreate, NewRd, SetGranules, AllDelegated, RdContent
    <3> QED BY <3>1, <2>RecFrame, ZenonT(60)
  <2>5. ASSUME NEW r \in Granule, NEW v \in Vmid, NEW roots \in SUBSET Granule,
               NEW done \in SUBSET roots, RealmCreateFails(r, v, roots, done)
       PROVE  RecInv'
    <3>1. RecsKept
      BY <2>0, <2>5, SMTT(30) DEF RecsKept, RealmCreateFails, StopsAfter, SetGranules, AllDelegated, RdContent
    <3> QED BY <3>1, <2>RecFrame
  <2>6. ASSUME NEW r \in Granule, NEW g \in Granule, NEW m \in [rim : Rim, algo : Algo], RealmSetMetadata(r, g, m)
       PROVE  RecInv'
    <3>1. RecsKept
      BY <2>0, <2>6, SMTT(30) DEF RecsKept, RealmSetMetadata, RdContent
    <3> QED BY <3>1, <2>RecFrame
  <2>7. ASSUME NEW r \in Granule, RealmActivate(r)
       PROVE  RecInv'
    <3>1. RecsKept
      BY <2>0, <2>7, SMTT(30) DEF RecsKept, RealmActivate, RdContent
    <3> QED BY <3>1, <2>RecFrame
  <2>8. ASSUME NEW r \in Granule, RealmDestroy(r)
       PROVE  RecInv'
    <3>1. \A c \in Granule : gst[c] = "Rec" => rec[c].owner # r
      BY <2>8, <2>NoRecsLeft DEF RealmDestroy
    <3>2. \A g \in Granule : g # r /\ gst[g] \in {"RD", "Rec", "RecAux"} => gst'[g] = gst[g]
      BY <2>8 DEF RealmDestroy, Reclaimed, SetGranules, StructInv, RootsOwned
    <3>3. \A g \in Granule : gst'[g] # gst[g] => gst'[g] = "Delegated"
      BY <2>8 DEF RealmDestroy, SetGranules
    <3>4. /\ gst[r] = "RD" /\ rec' = rec
          /\ \A g \in Granule : g # r => rd'[g] = rd[g]
      BY <2>8 DEF RealmDestroy
    <3>5. RecsKept
      BY <2>0, <3>1, <3>2, <3>3, <3>4, SMTT(30) DEF RecsKept
    <3> QED BY <3>5, <2>RecFrame
  <2>9. ASSUME NEW r \in Granule, NEW c \in Granule, NEW aux \in SUBSET Granule, RecCreate(r, c, aux)
       PROVE  RecInv'
    <3>1. /\ gst[r] = "RD" /\ gst'[r] = "RD" /\ r # c /\ gst[c] = "Delegated"
          /\ \A g \in aux : gst[g] = "Delegated"
          /\ \A g \in Granule :
                gst'[g] = IF g = c THEN "Rec" ELSE IF g \in aux THEN "RecAux" ELSE gst[g]
          /\ rec'[c] = [owner |-> r, aux |-> aux, vcpuid |-> rd[r].recIndex]
          /\ \A g \in Granule : g # c => rec'[g] = rec[g]
      BY <2>9 DEF RecCreate, NewRec, RecCreateChecks, AllDelegated, SetGranules
    <3>0. /\ \A d \in Granule : gst'[d] = "Rec" /\ d # c => gst[d] = "Rec" /\ rec'[d] = rec[d]
          /\ \A g \in Granule : gst[g] = "RecAux" => gst'[g] = "RecAux" /\ g \notin aux
          /\ \A g \in aux : gst'[g] = "RecAux"
          /\ \A g \in Granule : gst[g] = "RD" => gst'[g] = "RD"
      BY <2>9, <3>1, SMTT(30) DEF RecCreate, RecCreateChecks
    <3>2. /\ rd'[r].recIndex = rd[r].recIndex + 1 /\ rd[r].recIndex \in Nat
          /\ \A g \in Granule : g # r => rd'[g] = rd[g]
      BY <2>9, CountAssumption, SMTT(30) DEF RecCreate, NewRec, RecIndexAdvances, RdContent
    <3>3. OwnerAlive'
      <4>1. \A d \in Granule : gst'[d] = "Rec" /\ d # c =>
               rec'[d].owner \in Granule /\ gst'[rec'[d].owner] = "RD"
        BY ONLY <2>0, <3>0, SMTT(30), Zenon
      <4>2. rec'[c].owner = r /\ gst'[r] = "RD"
        BY ONLY <3>1, SMTT(30), Zenon
      <4>3. \A d \in Granule : gst'[d] = "Rec" =>
               rec'[d].owner \in Granule /\ gst'[rec'[d].owner] = "RD"
        BY ONLY <4>1, <4>2, Zenon
      <4> QED BY ONLY <4>3, Zenon DEF OwnerAlive, IsRd, IsRec
    <3>4. AuxOwned'
      <4>1. \A d \in Granule : rec[d].aux \subseteq Granule
        BY DEF RecContent
      <4>2. rec'[c].aux = aux
        BY ONLY <3>1, SMTT(30), Zenon
      <4>4. \A d \in Granule : gst[d] = "Rec" => \A g \in rec[d].aux : g \in Granule /\ gst[g] = "RecAux"
        BY ONLY <4>1, <2>14, Zenon DEF AuxOwned, IsRec
      <4>5. \A d \in Granule : gst[d] = "Rec" =>
               /\ \A g \in rec[d].aux : gst'[g] = "RecAux"
               /\ rec[d].aux \cap aux = {}
        BY ONLY <3>0, <4>4, Zenon
      <4>7. \A d \in Granule : gst'[d] = "Rec" => \A g \in rec'[d].aux : gst'[g] = "RecAux"
        BY ONLY <3>0, <4>2, <4>5, Zenon
      <4>8. \A d, e \in Granule : gst'[d] = "Rec" /\ gst'[e] = "Rec" /\ d # e
               => rec'[d].aux \cap rec'[e].aux = {}
        BY ONLY <3>0, <4>2, <4>5, <2>14, SMTT(30), Zenon DEF AuxOwned, IsRec
      <4> QED BY ONLY <4>7, <4>8, Zenon DEF AuxOwned, IsRec
    <3>5. \A d \in Granule : gst[d] = "Rec" => rec[d].vcpuid \in Nat /\ rec[d].vcpuid < rd[rec[d].owner].recIndex
      BY CountAssumption, SMTT(30) DEF VcpuidUnique, RecContent
    <3>6. VcpuidUnique'
      <4>1. \A d \in Granule : gst'[d] = "Rec" => rec'[d].vcpuid < rd'[rec'[d].owner].recIndex
        BY ONLY <2>0, <3>0, <3>1, <3>2, <3>5, SMTT(30), Zenon
      <4>2. \A d \in Granule : gst[d] = "Rec" /\ rec[d].owner = r => rec[d].vcpuid # rd[r].recIndex
        BY ONLY <3>2, <3>5, SMTT(30), Zenon
      <4>3. rec'[c].vcpuid = rd[r].recIndex /\ rec'[c].owner = r
        BY <3>1, SMTT(30)
      <4>4. \A d, e \in Granule :
               gst'[d] = "Rec" /\ gst'[e] = "Rec" /\ d # e /\ rec'[d].owner = rec'[e].owner
                  => rec'[d].vcpuid # rec'[e].vcpuid
        BY ONLY <3>0, <4>2, <4>3, <2>14, SMTT(30), Zenon DEF VcpuidUnique, IsRec
      <4> QED BY ONLY <4>1, <4>4, Zenon DEF VcpuidUnique, IsRec
    <3> QED BY <3>3, <3>4, <3>6
  <2>10. ASSUME NEW r \in Granule, NEW c \in Granule, NEW aux \in SUBSET Granule,
               NEW done \in SUBSET aux, RecCreateFails(r, c, aux, done)
       PROVE  RecInv'
    <3>1. RecsKept
      BY <2>0, <2>10, SMTT(30) DEF RecsKept, RecCreateFails, RecCreateChecks, RecIndexAdvances, StopsAfter, SetGranules, AllDelegated, RdContent
    <3> QED BY <3>1, <2>RecFrame
  <2>11. ASSUME NEW c \in Granule, RecDestroy(c)
       PROVE  RecInv'
    <3>1. /\ gst[rec[c].owner] = "RD" /\ rd' = rd
          /\ \A g \in rec[c].aux : gst[g] = "RecAux"
          /\ \A g \in Granule :
                gst'[g] = IF g = c \/ g \in rec[c].aux THEN "Delegated" ELSE gst[g]
          /\ \A g \in Granule : g # c => rec'[g] = rec[g]
      BY <2>0, <2>11 DEF RecDestroy, SetGranules
    <3>2. \A d \in Granule : gst'[d] = "Rec" <=> gst[d] = "Rec" /\ d # c
      BY ONLY <3>1, Zenon
    <3>3. OwnerAlive'
      <4>1. gst[c] = "Rec"
        BY <2>11 DEF RecDestroy
      <4>2. \A g \in Granule : gst[g] = "RD" => gst'[g] = "RD"
        BY <3>1, <4>1
      <4> QED BY <2>0, <3>1, <3>2, <4>2, SMTT(30) DEF OwnerAlive
    <3>4. AuxOwned'
      <4>1. gst[c] = "Rec"
        BY <2>11 DEF RecDestroy
      <4>2. \A g \in Granule : gst[g] = "RecAux" /\ g \notin rec[c].aux => gst'[g] = "RecAux"
        BY <3>1, <4>1
      <4>3. \A d \in Granule : gst'[d] = "Rec" =>
               rec'[d] = rec[d] /\ rec[d].aux \subseteq Granule /\ rec[d].aux \cap rec[c].aux = {}
        BY <3>1, <3>2, <4>1, ZenonT(60) DEF AuxOwned, RecContent
      <4> QED BY <3>2, <4>2, <4>3, ZenonT(60) DEF AuxOwned
    <3>5. VcpuidUnique'
      BY <3>1, <3>2, SMTT(30) DEF VcpuidUnique
    <3> QED BY <3>3, <3>4, <3>5
  <2>12. ASSUME NEW c \in Granule, PsciSystemOff(c)
       PROVE  RecInv'
    <3>1. RecsKept
      BY <2>0, <2>12, SMTT(30) DEF RecsKept, PsciSystemOff, RdContent
    <3> QED BY <3>1, <2>RecFrame
  <2>13. CASE UNCHANGED vars
    BY <2>0, <2>13, <2>RecFrame, SMTT(30) DEF vars, RecsKept
  <2> QED
    BY <2>1, <2>2, <2>3, <2>4, <2>5, <2>6, <2>7, <2>8, <2>9, <2>10, <2>11, <2>12, <2>13 DEF Next
<1>1. Init => RecInv
  BY Zenon DEF Init, RecInv, OwnerAlive, VcpuidUnique, AuxOwned, IsRec
<1> QED BY CountCorrect, <1>1, <1>RecInvNext, PTL DEF Spec

\* As long as no realm has 256 RECs at once, REALM_DESTROY leaves no REC without
\* its realm.
THEOREM OwnerAliveCorrect == Spec /\ []FewRecs => []OwnerAlive
<1>1. RecInv => OwnerAlive
  BY Zenon DEF RecInv
<1> QED BY RecInvCorrect, <1>1, PTL

\* Under the same condition a vcpuid names one REC of its realm.
THEOREM VcpuidCorrect == Spec /\ []FewRecs => []VcpuidUnique
<1>1. RecInv => VcpuidUnique
  BY Zenon DEF RecInv
<1> QED BY RecInvCorrect, <1>1, PTL

\* Under the same condition REC_DESTROY finds every auxiliary granule.
THEOREM AuxOwnedCorrect == Spec /\ []FewRecs => []AuxOwned
<1>1. RecInv => AuxOwned
  BY Zenon DEF RecInv
<1> QED BY RecInvCorrect, <1>1, PTL
=============================================================================
