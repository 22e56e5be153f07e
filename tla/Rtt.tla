-------------------------------- MODULE Rtt --------------------------------
(***************************************************************************)
(* The stage 2 translation tables (RTTs) of realms and the RMI commands    *)
(* that change them (rmi/rtt.rs, realm/mm/rtt.rs, realm/mm/stage2_tte.rs). *)
(*                                                                         *)
(* A table is a function from indices to entries.  The root of a realm is  *)
(* named by the realm, a table below it by its granule; concatenated root  *)
(* tables are one table with more entries.  Addresses and granules are     *)
(* counted in pages.  An entry keeps the fields the code reads: the        *)
(* descriptor type, NS, HIPAS, RIPAS, AF and the output address.  In a     *)
(* valid entry the RIPAS bits are part of the attributes, and DATA_CREATE  *)
(* sets them to 0b10, the bits of DESTROYED.                               *)
(*                                                                         *)
(* One action is one command that succeeds; a command that is refused      *)
(* writes nothing.  The caller holds the lock of the RD throughout, so the *)
(* commands of one realm do not interleave.  TLB maintenance is left out.  *)
(***************************************************************************)
EXTENDS Integers, FiniteSets

CONSTANTS
    Realm,        \* the realms
    Granule,      \* page numbers of the granules a host hands to the RMM
    NsPage,       \* page numbers of the host memory it shares
    StartLevel,   \* rd.s2_starting_level()
    NumEntries,   \* entries of a table, 512 in the code
    RootEntries   \* entries of the concatenated root tables

ASSUME GranuleAssumption == Granule \subseteq Nat \ {0} /\ Realm \cap Granule = {}
ASSUME NsAssumption == NsPage \subseteq Nat
ASSUME LevelAssumption == StartLevel \in 0 .. 2
ASSUME EntriesAssumption ==
    /\ NumEntries \in Nat /\ NumEntries > 1
    /\ RootEntries \in Nat /\ RootEntries >= NumEntries /\ RootEntries % 2 = 0

VARIABLES
    life,    \* the state of every realm: "Null" before and "Gone" after its life
    gst,     \* the state of every granule
    tte,     \* the entries of every table, zero where there is no table
    depth    \* history: the level a table was created for, else StartLevel

vars == <<life, gst, tte, depth>>

RTT_PAGE_LEVEL == 3
RTT_MIN_BLOCK_LEVEL == 2
Level == StartLevel .. RTT_PAGE_LEVEL

\* Pages that one entry of a level translates.
mapping_size(l) == NumEntries ^ (RTT_PAGE_LEVEL - l)

ipa_size == RootEntries * mapping_size(StartLevel)
Ipa == 0 .. ipa_size - 1
addr_in_par(ipa) == ipa < ipa_size \div 2
Par == {ipa \in Ipa : addr_in_par(ipa)}

Index == 0 .. RootEntries - 1
Table == Realm \cup Granule

-----------------------------------------------------------------------------
(* Entries.  A descriptor is "invalid", "block" or "table": L012_TABLE and  *)
(* L3_PAGE are the same type.                                               *)

Invalid(hipas, ripas, pa) ==
    [desc |-> "invalid", ns |-> FALSE, af |-> FALSE,
     hipas |-> hipas, ripas |-> ripas, pa |-> pa]
Unassigned(ripas) == Invalid("UNASSIGNED", ripas, 0)
UnassignedNs == [Unassigned("EMPTY") EXCEPT !.ns = TRUE]
TableAt(g) == [Unassigned("EMPTY") EXCEPT !.desc = "table", !.pa = g]

\* The descriptor type of a mapping at a level.
Leaf(l) == IF l = RTT_PAGE_LEVEL THEN "table" ELSE "block"

is_unassigned_ns(e) == e.desc = "invalid" /\ e.hipas = "UNASSIGNED" /\ e.ns
is_unassigned(e) == e.desc = "invalid" /\ e.hipas = "UNASSIGNED" /\ ~e.ns
is_assigned(e) == e.desc = "invalid" /\ e.hipas = "ASSIGNED" /\ ~e.ns
is_leaf(e, l) == l >= RTT_MIN_BLOCK_LEVEL /\ e.desc = Leaf(l)
is_assigned_ram(e, l) == is_leaf(e, l) /\ ~e.ns
is_assigned_ns(e, l) == is_leaf(e, l) /\ e.ns
is_table(e, l) == l < RTT_PAGE_LEVEL /\ e.desc = "table"
\* Variant: only valid entries count as live.
is_liveIfValid(e) == e.desc # "invalid"

is_live(e) ==
    \/ e.desc # "invalid"
    \/ (is_assigned(e) /\ e.ripas \in {"EMPTY", "DESTROYED"})

ZeroTable == [i \in Index |-> Unassigned("EMPTY")]
Entries(t) == {tte[t][i] : i \in 0 .. NumEntries - 1}

-----------------------------------------------------------------------------
(* Walks: get_s2tte() and ipa_to_pte_set() *)

IndexAt(ipa, l) ==
    IF l = StartLevel THEN ipa \div mapping_size(l)
    ELSE (ipa \div mapping_size(l)) % NumEntries

\* Where a walk is: a table and its level.
Position == [table : Table, level : Level]

At(w, ipa) == tte[w.table][IndexAt(ipa, w.level)]

\* One level deeper, unless the level asked for is reached or no table follows.
Deeper(ipa, level) ==
    [w \in Position |->
        IF w.level < level /\ At(w, ipa).desc = "table"
        THEN [table |-> At(w, ipa).pa, level |-> w.level + 1]
        ELSE w]

\* The table and level at which a walk for ipa ends.
Walk(r, ipa, level) ==
    LET deeper == Deeper(ipa, level)
    IN  deeper[deeper[deeper[[table |-> r, level |-> StartLevel]]]]

is_valid_rtt_cmd(ipa, level) == ipa \in Ipa /\ ipa % mapping_size(level) = 0

SetEntry(w, ipa, e) == [tte EXCEPT ![w.table][IndexAt(ipa, w.level)] = e]
-----------------------------------------------------------------------------
(* Realms: what RealmLifecycle has in full, as far as the tables go *)

Init ==
    /\ life = [r \in Realm |-> "Null"]
    /\ gst = [g \in Granule |-> "Delegated"]
    /\ tte = [t \in Table |-> ZeroTable]
    /\ depth = [g \in Granule |-> StartLevel]

Alive(r) == life[r] \in {"New", "Active"}

\* A name of a realm is used once: a later realm is another one.
RealmCreate(r) ==
    /\ life[r] = "Null"
    /\ life' = [life EXCEPT ![r] = "New"]
    /\ UNCHANGED <<gst, tte, depth>>

RealmActivate(r) ==
    /\ life[r] = "New"
    /\ life' = [life EXCEPT ![r] = "Active"]
    /\ UNCHANGED <<gst, tte, depth>>

\* Only the root tables are given back: no command counts the tables and pages
\* below them, so they stay in the states RTT and Data.
RealmDestroy(r) ==
    /\ Alive(r)
    /\ life' = [life EXCEPT ![r] = "Gone"]
    /\ tte' = [tte EXCEPT ![r] = ZeroTable]
    /\ UNCHANGED <<gst, depth>>

-----------------------------------------------------------------------------
(* Tables *)

\* What create() writes in entry i of a new table of a level, under an entry p.
\* There is no value, and the RMM panics, for a block of level 0 or 1.
Recognised(p, l) ==
    is_unassigned(p) \/ is_assigned(p) \/ is_unassigned_ns(p) \/ is_leaf(p, l)

ChildEntry(p, level, i) ==
    LET pa == p.pa + i * mapping_size(level) IN
    IF is_unassigned(p) \/ is_unassigned_ns(p) THEN p
    ELSE IF is_assigned(p) THEN [p EXCEPT !.pa = pa]
    ELSE [p EXCEPT !.desc = Leaf(level), !.af = FALSE, !.pa = pa]

NewTable(p, level) ==
    [i \in Index |-> IF i < NumEntries THEN ChildEntry(p, level, i) ELSE Unassigned("EMPTY")]

RttCreate(r, g, ipa, level) ==
    LET w == Walk(r, ipa, level - 1)
        parent == At(w, ipa)
    IN
    /\ Alive(r)
    /\ level > StartLevel /\ is_valid_rtt_cmd(ipa, level - 1)
    /\ gst[g] = "Delegated"
    /\ w.level = level - 1 /\ ~is_table(parent, w.level)
    /\ Recognised(parent, w.level)
    /\ tte' = [SetEntry(w, ipa, TableAt(g)) EXCEPT ![g] = NewTable(parent, level)]
    /\ gst' = [gst EXCEPT ![g] = "RTT"]
    /\ depth' = [depth EXCEPT ![g] = level]
    /\ UNCHANGED life

\* The table at level - 1 is replaced by the entry e in its parent and given back.
RemoveTable(w, ipa, e) ==
    LET g == At(w, ipa).pa IN
    /\ tte' = [SetEntry(w, ipa, e) EXCEPT ![g] = ZeroTable]
    /\ gst' = [gst EXCEPT ![g] = "Delegated"]
    /\ depth' = [depth EXCEPT ![g] = StartLevel]
    /\ UNCHANGED life

RttDestroy(r, ipa, level) ==
    LET w == Walk(r, ipa, level - 1)
        parent == At(w, ipa)
    IN
    /\ Alive(r)
    /\ level > StartLevel /\ is_valid_rtt_cmd(ipa, level - 1)
    /\ w.level = level - 1 /\ is_table(parent, w.level)
    /\ gst[parent.pa] = "RTT"
    /\ \A e \in Entries(parent.pa) : ~is_live(e)
    /\ RemoveTable(w, ipa, IF addr_in_par(ipa) THEN Unassigned("DESTROYED") ELSE UnassignedNs)

\* Variant: the pages of a block need not be contiguous.
is_homogeneousScattered(t, level) ==
    LET first == tte[t][0] IN
    /\ is_leaf(first, level) \/ is_assigned(first) => first.pa % mapping_size(level - 1) = 0
    /\ \A i \in 1 .. NumEntries - 1 :
          LET e == tte[t][i] IN
          /\ e.desc = first.desc /\ e.ns = first.ns /\ e.af = first.af
          /\ e.hipas = first.hipas /\ e.ripas = first.ripas

\* The first entry sets the pattern, and every later one that maps something is
\* expected one mapping further on.  The cases are tried in this order; an entry
\* in none of them, such as a table, passes when the descriptors agree.
is_homogeneous(t, level) ==
    LET first == tte[t][0]
        mapped(e) == is_leaf(e, level) \/ is_assigned(e)
        before(i) == Cardinality({j \in 1 .. i : mapped(tte[t][j])})
        pa(i) == (IF mapped(first) THEN first.pa ELSE 0) + before(i) * mapping_size(level)
    IN
    /\ mapped(first) =>
          level \in {2, 3} /\ first.pa % mapping_size(level - 1) = 0
    /\ \A i \in 1 .. NumEntries - 1 :
          LET e == tte[t][i] IN
          /\ e.desc = first.desc
          /\ is_assigned_ns(e, level) =>
                e.pa = pa(i) /\ e.af = first.af /\ e.ns = first.ns
          /\ is_assigned_ram(e, level) \/ is_assigned(e) =>
                e.pa = pa(i) /\ e.ripas = first.ripas
          /\ is_unassigned_ns(e) => e.ns = first.ns /\ e.hipas = first.hipas
          /\ is_unassigned(e) => e.hipas = first.hipas /\ e.ripas = first.ripas

\* Variant: the RIPAS of unassigned pages is not kept.
FoldedEntryEmpty(e, level, protected) ==
    IF is_leaf(e, level) THEN [e EXCEPT !.desc = "block", !.af = FALSE]
    ELSE IF is_assigned(e) THEN e
    ELSE [Unassigned("EMPTY") EXCEPT !.ns = e.ns]

\* The entry that stands for a homogeneous table that starts with the entry e.
FoldedEntry(e, level, protected) ==
    IF is_leaf(e, level) THEN [e EXCEPT !.desc = "block", !.af = FALSE]
    ELSE IF is_assigned(e) THEN e
    ELSE [Unassigned(IF protected THEN e.ripas ELSE "EMPTY") EXCEPT !.ns = e.ns]

RttFold(r, ipa, level) ==
    LET w == Walk(r, ipa, level - 1)
        parent == At(w, ipa)
    IN
    /\ Alive(r)
    /\ level > StartLevel /\ is_valid_rtt_cmd(ipa, level - 1)
    /\ w.level = level - 1 /\ is_table(parent, w.level)
    /\ gst[parent.pa] = "RTT"
    /\ is_homogeneous(parent.pa, level)
    /\ RemoveTable(w, ipa, FoldedEntry(tte[parent.pa][0], level, addr_in_par(ipa)))

-----------------------------------------------------------------------------
(* Data granules *)

\* The walk for a page reaches its own entry.
PageWalk(r, ipa) == Walk(r, ipa, RTT_PAGE_LEVEL)

DataEntry(g) ==
    [desc |-> "table", ns |-> FALSE, af |-> TRUE,
     hipas |-> "ASSIGNED", ripas |-> "DESTROYED", pa |-> g]

MapData(r, g, ipa, e) ==
    LET w == PageWalk(r, ipa) IN
    /\ ipa \in Par
    /\ gst[g] = "Delegated"
    /\ w.level = RTT_PAGE_LEVEL /\ is_unassigned(At(w, ipa))
    /\ tte' = SetEntry(w, ipa, e)
    /\ gst' = [gst EXCEPT ![g] = "Data"]
    /\ UNCHANGED <<life, depth>>

DataCreate(r, g, ipa) ==
    /\ life[r] = "New"
    /\ MapData(r, g, ipa, DataEntry(g))

DataCreateUnknown(r, g, ipa) ==
    LET ripas == At(PageWalk(r, ipa), ipa).ripas IN
    /\ Alive(r)
    /\ MapData(r, g, ipa,
               IF ripas = "RAM" THEN DataEntry(g) ELSE Invalid("ASSIGNED", ripas, g))

DataDestroy(r, ipa) ==
    LET w == PageWalk(r, ipa)
        e == At(w, ipa)
        ram == is_assigned_ram(e, RTT_PAGE_LEVEL)
    IN
    /\ Alive(r)
    /\ ipa \in Par
    /\ w.level = RTT_PAGE_LEVEL /\ (ram \/ is_assigned(e))
    /\ tte' = SetEntry(w, ipa, Unassigned(IF ram THEN "DESTROYED" ELSE e.ripas))
    /\ gst' = [gst EXCEPT ![e.pa] = "Delegated"]
    /\ UNCHANGED <<life, depth>>

-----------------------------------------------------------------------------
(* RIPAS.  Both commands go through the entries of the table the walk for
   base ends in, and stop at the first that stops them; what they did before
   remains. *)

\* The first pages of the entries from base on, in the table of walk w.
Slots(w, base, top) ==
    LET size == mapping_size(w.level) IN
    {a \in base .. top - 1 :
        /\ a % size = 0
        /\ w.level = StartLevel \/ a \div (size * NumEntries) = base \div (size * NumEntries)}

\* The slots the loop gets past, when those in stops end it.
Passed(slots, stops) == {a \in slots : \A b \in stops : a < b}

RttInitRipas(r, base, top) ==
    LET w == PageWalk(r, base)
        \* An entry further on may be a table; then its first page is changed.
        entry(a) == At(PageWalk(r, a), a)
        slots == Slots(w, base, top)
        passed == Passed(slots,
                         {a \in slots : ~(is_unassigned(entry(a)) /\ entry(a).ripas \in {"EMPTY", "RAM"})})
        changed == {<<PageWalk(r, a).table, IndexAt(a, PageWalk(r, a).level)>> : a \in passed}
    IN
    /\ life[r] = "New"
    /\ base < top /\ base \in Par /\ top - 1 \in Par
    /\ base % mapping_size(w.level) = 0 /\ top % mapping_size(w.level) = 0
    /\ tte' = [t \in Table |-> [i \in Index |->
                 IF <<t, i>> \in changed THEN Unassigned("RAM") ELSE tte[t][i]]]
    /\ UNCHANGED <<life, gst, depth>>

\* Variant: a page that becomes EMPTY gives up its granule.
WithRipasReleases(e, level, ripas) ==
    IF ripas = "EMPTY" THEN Unassigned("EMPTY")
    ELSE IF is_assigned(e)
         THEN [Invalid("ASSIGNED", "RAM", e.pa) EXCEPT !.desc = Leaf(level)]
    ELSE IF is_unassigned(e) THEN Unassigned("RAM")
    ELSE e

\* The entry e of a level as set_ripas() leaves it.  A destroyed page that is
\* mapped again has no HIPAS bits, which a valid entry does not need.
WithRipas(e, level, ripas) ==
    IF ripas = "EMPTY"
    THEN IF is_assigned_ram(e, level) \/ (is_assigned(e) /\ e.ripas = "DESTROYED")
         THEN Invalid("ASSIGNED", "EMPTY", e.pa)
         ELSE Unassigned("EMPTY")
    ELSE IF is_assigned(e)
         THEN [Invalid(IF e.ripas = "EMPTY" THEN "ASSIGNED" ELSE "UNASSIGNED", "RAM", e.pa)
                  EXCEPT !.desc = Leaf(level)]
    ELSE IF is_unassigned(e) THEN Unassigned("RAM")
    ELSE e

\* The realm's request, kept in its REC: the range, the RIPAS and whether
\* destroyed pages may change (CHANGE_DESTROYED).  The host serves a part.
\* addr_as_block() panics at level 0.
RttSetRipas(r, base, top, ripas, destroyed) ==
    LET w == PageWalk(r, base)
        entry(a) == tte[w.table][IndexAt(a, w.level)]
        stops(a) ==
            \/ is_table(entry(a), w.level)
            \/ ~destroyed /\ entry(a).desc = "invalid" /\ entry(a).ripas = "DESTROYED"
        slots == Slots(w, base, top)
        changed == {IndexAt(a, w.level) : a \in Passed(slots, {a \in slots : stops(a)})}
    IN
    /\ life[r] = "Active"
    /\ w.level > 0
    /\ base < top /\ base \in Par /\ top - 1 \in Par
    /\ base % mapping_size(w.level) = 0 /\ top % mapping_size(w.level) = 0
    /\ tte' = [tte EXCEPT ![w.table] = [i \in Index |->
                 IF i \in changed THEN WithRipas(@[i], w.level, ripas) ELSE @[i]]]
    /\ UNCHANGED <<life, gst, depth>>

-----------------------------------------------------------------------------
(* Memory shared with the host *)

RttMapUnprotected(r, ipa, level, pa) ==
    LET w == Walk(r, ipa, level) IN
    /\ Alive(r)
    /\ level > 0 /\ pa % mapping_size(level) = 0
    /\ is_valid_rtt_cmd(ipa, level) /\ ~addr_in_par(ipa)
    /\ w.level = level /\ is_unassigned(At(w, ipa))
    /\ tte' = SetEntry(w, ipa, [UnassignedNs EXCEPT !.desc = Leaf(level), !.af = TRUE, !.pa = pa])
    /\ UNCHANGED <<life, gst, depth>>

RttUnmapUnprotected(r, ipa, level) ==
    LET w == Walk(r, ipa, level) IN
    /\ Alive(r)
    /\ level >= RTT_MIN_BLOCK_LEVEL
    /\ is_valid_rtt_cmd(ipa, level) /\ ~addr_in_par(ipa)
    /\ w.level = level /\ is_assigned_ns(At(w, ipa), level)
    /\ tte' = SetEntry(w, ipa, UnassignedNs)
    /\ UNCHANGED <<life, gst, depth>>
-----------------------------------------------------------------------------
Next ==
    \E r \in Realm :
        \/ RealmCreate(r)
        \/ RealmActivate(r)
        \/ RealmDestroy(r)
        \/ \E ipa \in Ipa, level \in Level :
              \/ \E g \in Granule : RttCreate(r, g, ipa, level)
              \/ RttDestroy(r, ipa, level)
              \/ RttFold(r, ipa, level)
              \/ \E pa \in NsPage : RttMapUnprotected(r, ipa, level, pa)
              \/ RttUnmapUnprotected(r, ipa, level)
        \/ \E ipa \in Par :
              \/ \E g \in Granule : DataCreate(r, g, ipa) \/ DataCreateUnknown(r, g, ipa)
              \/ DataDestroy(r, ipa)
        \/ \E base \in Par, top \in Ipa :
              \/ RttInitRipas(r, base, top)
              \/ \E ripas \in {"EMPTY", "RAM"}, destroyed \in BOOLEAN :
                    RttSetRipas(r, base, top, ripas, destroyed)

Spec == Init /\ [][Next]_vars
-----------------------------------------------------------------------------
IsTable(t) == IF t \in Realm THEN Alive(t) ELSE gst[t] = "RTT"
LevelOf(t) == IF t \in Realm THEN StartLevel ELSE depth[t]

\* The granules an entry of a level refers to: a table, or what it maps.
Refers(e, l) ==
    IF is_table(e, l) THEN {e.pa}
    ELSE IF e.ns \/ is_unassigned(e) THEN {}
    ELSE e.pa .. e.pa + mapping_size(l) - 1

\* Every granule has at most one entry that refers to it, in whatever realm,
\* and is of the kind that entry takes it for: a table of the next level, or
\* data.  create() and fold() move whole blocks of pages between one entry and
\* NumEntries of them, and nothing but the tables says who owns a page.
Exclusive ==
    \A t, u \in {x \in Table : IsTable(x)} : \A i, j \in Index :
        LET S == Refers(tte[t][i], LevelOf(t)) IN
        /\ S \cap Refers(tte[u][j], LevelOf(u)) # {} => t = u /\ i = j
        /\ S \subseteq Granule
        /\ \A g \in S :
              IF is_table(tte[t][i], LevelOf(t))
              THEN gst[g] = "RTT" /\ depth[g] = LevelOf(t) + 1
              ELSE gst[g] = "Data"

\* The realm's view of a page: get_ripas() and the translation.
PageOf(r, ipa) ==
    LET seen == [w \in Position |->
            LET e == At(w, ipa)
                pa == {e.pa + (ipa % mapping_size(w.level))}
            IN
            IF is_assigned_ns(e, w.level) THEN [hipas |-> "NS", ripas |-> "EMPTY", pa |-> {}]
            ELSE IF is_assigned_ram(e, w.level) THEN [hipas |-> "ASSIGNED", ripas |-> "RAM", pa |-> pa]
            ELSE IF is_assigned(e) THEN [hipas |-> "ASSIGNED", ripas |-> e.ripas, pa |-> pa]
            ELSE [hipas |-> "UNASSIGNED", ripas |-> e.ripas, pa |-> {}]]
    IN seen[PageWalk(r, ipa)]

View == [r \in Realm |-> [ipa \in Ipa |-> PageOf(r, ipa)]]
DataGranules == {g \in Granule : gst[g] = "Data"}
=============================================================================
