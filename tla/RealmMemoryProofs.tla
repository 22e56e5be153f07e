-------------------------- MODULE RealmMemoryProofs --------------------------
(***************************************************************************)
(* MappedOnce holds for every set of realms, granules and pages.  An       *)
(* action changes who has a granule in one of three ways, each of which is *)
(* a lemma: pages lose granules and data stays, one page gets a granule    *)
(* that was not data, or one page and data lose the same granules.         *)
(***************************************************************************)
EXTENDS RealmMemory, TLAPS

\* Pages that only lose granules stay exclusive: RTT_DESTROY, the RIPAS and
\* the unprotected commands, REALM_DESTROY.
LEMMA PagesLose ==
    ASSUME MappedOnce, data' = data,
           \A r \in Realm : \A i \in Ipa : page'[r][i].pa \subseteq page[r][i].pa
    PROVE  MappedOnce'
BY SMTT(30), Zenon DEF MappedOnce

\* The page states are closed under what the actions write in a page.
LEMMA PageStates ==
    /\ Shared \in PageState
    /\ \A x \in Ripas : Free(x) \in PageState
    /\ \A x \in Ripas, g \in Granule : Held(x, g) \in PageState
    /\ \A p \in PageState, x \in Ripas :
          WithRipas(p, x) \in PageState /\ WithRipas(p, x).pa \subseteq p.pa
BY ZenonT(60) DEF Shared, Free, Held, WithRipas, PageState, Ripas

\* An action that changes pages of one realm through SetPages: every page is a
\* page state after it and has no granule it did not have.
SpaceShrinks ==
    /\ page' \in [Realm -> [Ipa -> PageState]]
    /\ \A r \in Realm : \A i \in Ipa : page'[r][i].pa \subseteq page[r][i].pa

\* RTT_DESTROY, the RIPAS commands and the commands for unprotected memory
\* give no page a granule.
LEMMA CommandsShrink ==
    ASSUME TypeOK, NEW r \in Realm, NEW S
    PROVE  /\ RttDestroy(r, S) => SpaceShrinks
           /\ RttInitRipas(r, S) => SpaceShrinks
           /\ \A x \in {"EMPTY", "RAM"}, d \in BOOLEAN : RttSetRipas(r, S, x, d) => SpaceShrinks
           /\ RttMapUnprotected(r, S) => SpaceShrinks
           /\ RttUnmapUnprotected(r, S) => SpaceShrinks
<1> USE Zenon
<1>1. page \in [Realm -> [Ipa -> PageState]]
  BY DEF TypeOK
<1>2. RttDestroy(r, S) => SpaceShrinks
  BY <1>1, PageStates, SMTT(30) DEF RttDestroy, SetPages, SpaceShrinks, Free, Ripas
<1>3. RttInitRipas(r, S) => SpaceShrinks
  BY <1>1, PageStates, SMTT(30) DEF RttInitRipas, SetPages, SpaceShrinks, Free, Ripas
<1>4. ASSUME NEW x \in {"EMPTY", "RAM"}, NEW d \in BOOLEAN, RttSetRipas(r, S, x, d)
      PROVE  SpaceShrinks
  <2>1. x \in Ripas
    BY DEF Ripas
  <2> QED BY <1>1, <1>4, <2>1, PageStates, SMTT(30) DEF RttSetRipas, SetPages, SpaceShrinks
<1>5. RttMapUnprotected(r, S) => SpaceShrinks
  BY <1>1, PageStates, SMTT(30) DEF RttMapUnprotected, SetPages, SpaceShrinks, Shared
<1>6. RttUnmapUnprotected(r, S) => SpaceShrinks
  BY <1>1, PageStates, SMTT(30) DEF RttUnmapUnprotected, SetPages, SpaceShrinks, Free, Ripas
<1> QED BY <1>2, <1>3, <1>4, <1>5, <1>6

\* The states, granules and pages stay in their types.
THEOREM MemoryTypeCorrect == Spec => []TypeOK
<1>1. Init => TypeOK
  BY PageStates, SMTT(30), Zenon DEF Init, TypeOK, Life, EmptySpace, Ripas
<1>2. ASSUME TypeOK, [Next]_vars PROVE TypeOK'
  <2> USE Zenon
  <2> USE <1>2
  <2>1. CASE UNCHANGED vars
    BY <2>1 DEF vars, TypeOK
  <2>2. ASSUME NEW r \in Realm, RealmCreate(r) \/ RealmActivate(r)
        PROVE  TypeOK'
    BY <2>2 DEF RealmCreate, RealmActivate, TypeOK, Life
  <2>3. ASSUME NEW r \in Realm, RealmDestroy(r) PROVE TypeOK'
    <3>1. EmptySpace \in [Ipa -> PageState]
      BY PageStates DEF EmptySpace, Ripas
    <3> QED BY <2>3, <3>1 DEF RealmDestroy, TypeOK, Life
  <2>4. ASSUME NEW r \in Realm, NEW i \in Par, DataDestroy(r, i) PROVE TypeOK'
    <3>1. page[r][i].ripas \in Ripas /\ i \in Ipa
      BY DEF TypeOK, PageState, Ipa
    <3>2. Free(IF page[r][i].ripas = "RAM" THEN "DESTROYED" ELSE page[r][i].ripas) \in PageState
      BY <3>1, PageStates DEF Ripas
    <3> QED BY <2>4, <3>1, <3>2 DEF DataDestroy, TypeOK
  <2>5. ASSUME NEW r \in Realm, NEW i \in Par, NEW g \in Granule, DataCreate(r, i, g)
        PROVE  TypeOK'
    <3>1. Held("RAM", g) \in PageState /\ i \in Ipa
      BY PageStates DEF Ripas, Ipa
    <3> QED BY <2>5, <3>1 DEF DataCreate, TypeOK
  <2>6. ASSUME NEW r \in Realm, NEW i \in Par, NEW g \in Granule, DataCreateUnknown(r, i, g)
        PROVE  TypeOK'
    <3>1. page[r][i].ripas \in Ripas /\ i \in Ipa
      BY DEF TypeOK, PageState, Ipa
    <3>2. Held(page[r][i].ripas, g) \in PageState
      BY <3>1, PageStates
    <3> QED BY <2>6, <3>1, <3>2 DEF DataCreateUnknown, TypeOK
  <2>7. ASSUME NEW r \in Realm, NEW S,
               \/ RttDestroy(r, S)
               \/ RttInitRipas(r, S)
               \/ \E x \in {"EMPTY", "RAM"}, d \in BOOLEAN : RttSetRipas(r, S, x, d)
               \/ RttMapUnprotected(r, S)
               \/ RttUnmapUnprotected(r, S)
        PROVE  TypeOK'
    <3>1. SpaceShrinks
      BY <2>7, CommandsShrink
    <3>2. UNCHANGED <<life, data>>
      BY <2>7 DEF RttDestroy, RttInitRipas, RttSetRipas, RttMapUnprotected, RttUnmapUnprotected
    <3> QED BY <3>1, <3>2 DEF SpaceShrinks, TypeOK
  <2> QED BY <2>1, <2>2, <2>3, <2>4, <2>5, <2>6, <2>7 DEF Next
<1> QED BY <1>1, <1>2, PTL DEF Spec

\* A granule backs at most one page of one realm, and what backs a page is in
\* the state Data, whatever realms, granules and pages there are.
THEOREM MappedOnceCorrect == Spec => []MappedOnce
\* A page that gets a granule outside data shares it with no page:
\* DATA_CREATE and DATA_CREATE_UNKNOWN.
<1>PageGets. ASSUME TypeOK, MappedOnce, NEW r \in Realm, NEW i \in Ipa,
                    NEW g \in Granule, g \notin data, NEW x \in Ripas,
                    data' = data \cup {g},
                    page' = [page EXCEPT ![r][i] = Held(x, g)]
             PROVE  MappedOnce'
  <2> USE Zenon
  <2> USE <1>PageGets
  <2>1. ASSUME NEW s \in Realm, NEW j \in Ipa
        PROVE  page'[s][j].pa = IF s = r /\ j = i THEN {g} ELSE page[s][j].pa
    BY DEF TypeOK, Held
  <2> QED BY <2>1, SMTT(30) DEF MappedOnce
\* A page that gives up what it holds leaves it to no other page:
\* DATA_DESTROY.
<1>PageGives. ASSUME TypeOK, MappedOnce, NEW r \in Realm, NEW i \in Ipa, NEW x \in Ripas,
                     data' = data \ page[r][i].pa,
                     page' = [page EXCEPT ![r][i] = Free(x)]
              PROVE  MappedOnce'
  <2> USE Zenon
  <2> USE <1>PageGives
  <2>1. ASSUME NEW s \in Realm, NEW j \in Ipa
        PROVE  page'[s][j].pa = IF s = r /\ j = i THEN {} ELSE page[s][j].pa
    BY DEF TypeOK, Free
  <2> QED BY <2>1, SMTT(30) DEF MappedOnce
<1>1. Init => MappedOnce
  BY SMTT(30), Zenon DEF Init, MappedOnce, EmptySpace, Free
<1>2. ASSUME TypeOK, MappedOnce, [Next]_vars PROVE MappedOnce'
  <2> USE Zenon
  <2> USE <1>2
  <2>1. CASE UNCHANGED vars
    BY <2>1, SMTT(30) DEF vars, MappedOnce
  <2>2. ASSUME NEW r \in Realm, RealmCreate(r) \/ RealmActivate(r)
        PROVE  MappedOnce'
    BY <2>2 DEF RealmCreate, RealmActivate, MappedOnce
  <2>3. ASSUME NEW r \in Realm, RealmDestroy(r) PROVE MappedOnce'
    <3>1. \A s \in Realm : \A i \in Ipa : page'[s][i].pa \subseteq page[s][i].pa
      BY <2>3 DEF RealmDestroy, TypeOK, EmptySpace, Free
    <3> QED BY <2>3, <3>1, PagesLose DEF RealmDestroy
  <2>4. ASSUME NEW r \in Realm, NEW i \in Par, DataDestroy(r, i) PROVE MappedOnce'
    <3> DEFINE x == IF page[r][i].ripas = "RAM" THEN "DESTROYED" ELSE page[r][i].ripas
    <3>1. i \in Ipa /\ x \in Ripas
      BY DEF TypeOK, PageState, Ipa, Ripas
    <3>2. data' = data \ page[r][i].pa /\ page' = [page EXCEPT ![r][i] = Free(x)]
      BY <2>4 DEF DataDestroy
    <3> HIDE DEF x
    <3> QED BY <3>1, <3>2, <1>PageGives
  <2>5. ASSUME NEW r \in Realm, NEW i \in Par, NEW g \in Granule,
               DataCreate(r, i, g) \/ DataCreateUnknown(r, i, g)
        PROVE  MappedOnce'
    <3>1. i \in Ipa /\ "RAM" \in Ripas /\ page[r][i].ripas \in Ripas
      BY DEF TypeOK, PageState, Ipa, Ripas
    <3>2. PICK x \in Ripas : page' = [page EXCEPT ![r][i] = Held(x, g)]
      BY <2>5, <3>1 DEF DataCreate, DataCreateUnknown
    <3>3. g \notin data /\ data' = data \cup {g}
      BY <2>5 DEF DataCreate, DataCreateUnknown
    <3> QED BY <3>1, <3>2, <3>3, <1>PageGets
  <2>6. ASSUME NEW r \in Realm, NEW S,
               \/ RttDestroy(r, S)
               \/ RttInitRipas(r, S)
               \/ \E x \in {"EMPTY", "RAM"}, d \in BOOLEAN : RttSetRipas(r, S, x, d)
               \/ RttMapUnprotected(r, S)
               \/ RttUnmapUnprotected(r, S)
        PROVE  MappedOnce'
    <3>1. SpaceShrinks
      BY <2>6, CommandsShrink
    <3>2. data' = data
      BY <2>6 DEF RttDestroy, RttInitRipas, RttSetRipas, RttMapUnprotected, RttUnmapUnprotected
    <3> QED BY <3>1, <3>2, PagesLose DEF SpaceShrinks
  <2> QED BY <2>1, <2>2, <2>3, <2>4, <2>5, <2>6 DEF Next
<1> QED BY <1>1, <1>2, MemoryTypeCorrect, PTL DEF Spec
=============================================================================
