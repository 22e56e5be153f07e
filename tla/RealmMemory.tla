---------------------------- MODULE RealmMemory ----------------------------
(***************************************************************************)
(* What the RTT and DATA commands of rmi/rtt.rs do to the address space of *)
(* a realm, without the tables: every page has a HIPAS, a RIPAS and, when  *)
(* it is assigned, a granule.  Creating and folding a table change nothing *)
(* here.  Rtt.tla, which has the tables, is checked to implement this      *)
(* module.                                                                 *)
(***************************************************************************)
CONSTANTS
    Realm,    \* the realms
    Granule,  \* the granules a host may hand out as Data
    Par,      \* the pages of the protected half of the address space
    Unpar     \* the pages of the other half

Ipa == Par \cup Unpar

VARIABLES
    life,     \* the state of every realm: "Null" before and "Gone" after its life
    data,     \* the granules in the state Data
    page      \* HIPAS, RIPAS and granule of every page

vars == <<life, data, page>>

Life == {"Null", "New", "Active", "Gone"}
Ripas == {"EMPTY", "RAM", "DESTROYED"}

\* Shared: mapped to memory of the host, which is no granule of the realm.
Free(ripas) == [hipas |-> "UNASSIGNED", ripas |-> ripas, pa |-> {}]
Held(ripas, g) == [hipas |-> "ASSIGNED", ripas |-> ripas, pa |-> {g}]
Shared == [hipas |-> "NS", ripas |-> "EMPTY", pa |-> {}]

PageState ==
    [hipas : {"UNASSIGNED", "ASSIGNED", "NS"}, ripas : Ripas, pa : SUBSET Granule]

EmptySpace == [i \in Ipa |-> Free("EMPTY")]

Init ==
    /\ life = [r \in Realm |-> "Null"]
    /\ data = {}
    /\ page = [r \in Realm |-> EmptySpace]

Alive(r) == life[r] \in {"New", "Active"}

\* A name of a realm is used once: a later realm is another one.
RealmCreate(r) ==
    /\ life[r] = "Null"
    /\ life' = [life EXCEPT ![r] = "New"]
    /\ UNCHANGED <<data, page>>

RealmActivate(r) ==
    /\ life[r] = "New"
    /\ life' = [life EXCEPT ![r] = "Active"]
    /\ UNCHANGED <<data, page>>

\* The pages go; the data granules stay in the state Data, out of reach.
RealmDestroy(r) ==
    /\ Alive(r)
    /\ life' = [life EXCEPT ![r] = "Gone"]
    /\ page' = [page EXCEPT ![r] = EmptySpace]
    /\ UNCHANGED data

\* The contents come from the host, so DATA_CREATE makes the page RAM whatever
\* its RIPAS was; it is refused once the realm is active.
DataCreate(r, i, g) ==
    /\ life[r] = "New"
    /\ i \in Par /\ page[r][i].hipas = "UNASSIGNED"
    /\ g \notin data
    /\ data' = data \cup {g}
    /\ page' = [page EXCEPT ![r][i] = Held("RAM", g)]
    /\ UNCHANGED life

DataCreateUnknown(r, i, g) ==
    /\ Alive(r)
    /\ i \in Par /\ page[r][i].hipas = "UNASSIGNED"
    /\ g \notin data
    /\ data' = data \cup {g}
    /\ page' = [page EXCEPT ![r][i] = Held(page[r][i].ripas, g)]
    /\ UNCHANGED life

DataDestroy(r, i) ==
    LET p == page[r][i] IN
    /\ Alive(r)
    /\ i \in Par /\ p.hipas = "ASSIGNED"
    /\ data' = data \ p.pa
    /\ page' = [page EXCEPT ![r][i] = Free(IF p.ripas = "RAM" THEN "DESTROYED" ELSE p.ripas)]
    /\ UNCHANGED life

\* The pages S of realm r become what f makes of them.
SetPages(r, S, f(_)) ==
    page' = [page EXCEPT ![r] = [i \in Ipa |-> IF i \in S THEN f(page[r][i]) ELSE page[r][i]]]

\* RTT_DESTROY takes a table away, and what it said of its pages S.  Outside
\* the protected half such a table says nothing.
RttDestroy(r, S) ==
    /\ Alive(r)
    /\ \A i \in S : page[r][i].hipas = "UNASSIGNED"
    /\ UNCHANGED <<life, data>>
    /\ SetPages(r, S, LAMBDA p : Free("DESTROYED"))

RttInitRipas(r, S) ==
    /\ life[r] = "New"
    /\ \A i \in S : page[r][i] = Free("EMPTY")
    /\ UNCHANGED <<life, data>>
    /\ SetPages(r, S, LAMBDA p : Free("RAM"))

\* A page asked to become EMPTY that is assigned and EMPTY already loses its
\* granule, which stays in the state Data.
WithRipas(p, ripas) ==
    IF p.hipas = "ASSIGNED" /\ ~(p.ripas = "EMPTY" /\ ripas = "EMPTY")
    THEN [p EXCEPT !.ripas = ripas]
    ELSE Free(ripas)

\* The realm asks, for the pages S; destroyed says that it accepts the loss of
\* what destroyed pages held.
RttSetRipas(r, S, ripas, destroyed) ==
    /\ life[r] = "Active"
    /\ destroyed \/ \A i \in S : page[r][i].ripas # "DESTROYED"
    /\ UNCHANGED <<life, data>>
    /\ SetPages(r, S, LAMBDA p : WithRipas(p, ripas))

RttMapUnprotected(r, S) ==
    /\ Alive(r)
    /\ \A i \in S : page[r][i].hipas = "UNASSIGNED"
    /\ UNCHANGED <<life, data>>
    /\ SetPages(r, S, LAMBDA p : Shared)

RttUnmapUnprotected(r, S) ==
    /\ Alive(r)
    /\ \A i \in S : page[r][i].hipas = "NS"
    /\ UNCHANGED <<life, data>>
    /\ SetPages(r, S, LAMBDA p : Free("EMPTY"))

Next ==
    \E r \in Realm :
        \/ RealmCreate(r)
        \/ RealmActivate(r)
        \/ RealmDestroy(r)
        \/ \E i \in Par : DataDestroy(r, i)
        \/ \E i \in Par, g \in Granule : DataCreate(r, i, g) \/ DataCreateUnknown(r, i, g)
        \/ \E S \in SUBSET Par :
              \/ RttDestroy(r, S)
              \/ RttInitRipas(r, S)
              \/ \E x \in {"EMPTY", "RAM"}, d \in BOOLEAN : RttSetRipas(r, S, x, d)
        \/ \E S \in SUBSET Unpar : RttMapUnprotected(r, S) \/ RttUnmapUnprotected(r, S)

Spec == Init /\ [][Next]_vars
-----------------------------------------------------------------------------
TypeOK ==
    /\ life \in [Realm -> Life]
    /\ data \subseteq Granule
    /\ page \in [Realm -> [Ipa -> PageState]]

\* A data granule backs at most one page of one realm, and what backs a page
\* is in the state Data: DATA_CREATE takes only a Delegated granule and
\* DATA_DESTROY gives the granule back and forgets it in one step.
MappedOnce ==
    \A r, s \in Realm : \A i, j \in Ipa :
        /\ page[r][i].pa \subseteq data
        /\ page[r][i].pa \cap page[s][j].pa # {} => r = s /\ i = j
=============================================================================
