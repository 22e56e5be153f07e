---------------------------- MODULE RmmMapProofs ----------------------------
(***************************************************************************)
(* AccessMapped and HostPageReturned for any number of CPUs, RECs and      *)
(* granules, when the host gives a page to one call at a time and the      *)
(* allocator has a table for every region (with Shared = TRUE TLC refutes  *)
(* AccessMapped, and without tables map() only warns).                     *)
(*                                                                         *)
(* MapInv says, for every state of a call, what the GST, the GPT and the   *)
(* page table hold for the pages that it works on, and that two calls      *)
(* never work on the same page; the pages that no call works on are as     *)
(* PageOK says.  Nothing is said of how the others are mapped that a       *)
(* refused call has left: every handler maps a page anew before it uses    *)
(* it.                                                                     *)
(***************************************************************************)
EXTENDS RecEnter, FiniteSetTheorems, TLAPS

Regions == {Region[g] : g \in Page}

\* The allocator has a last-level table for every region of the granules.
EnoughTables == IsFiniteSet(Regions) /\ Cardinality(Regions) <= Heap

\* The states of REC_ENTER after the copy of the run page; those of the copy, of the
\* creation of a further granule, and of a destruction.
Entered == {"check_run", "prepare", "realm", "map_out", "check_out", "copy_out", "unmap_out"}
SrcPcs == {"map_src", "check_src", "copy_src", "unmap_src"}
AlsoPcs == {"map_also", "write_also", "set_also"}
DownPcs == {"others", "zero_also", "unmap_also", "zero"}
Pc == {"host", "map", "set", "unmap", "lock", "check_also", "read_ns", "read_meta"}
          \cup SrcPcs \cup AlsoPcs \cup DownPcs \cup Entered
Kind == {"none", "Enter", "Delegated", "Undelegated"} \cup Objects
Call == [pc : Pc, kind : Kind, src : Page \cup {None}, target : Page \cup {None},
         also : Page \cup {None}, rec : Rec \cup {None}]

\* The pages that a call works on.
Uses(a) == {a.src, a.target, a.also} \ {None}

\* Which pages and which kind a call has, by its state.
CallOK(a) ==
    /\ a \in Call
    /\ a.src # None => a.src # a.target /\ a.src # a.also
    /\ a.also # None => a.also # a.target
    /\ a.pc = "host" => a.src = None /\ a.target = None /\ a.also = None
    /\ a.pc \in Entered => a.kind = "Enter"
    /\ a.kind = "Enter" => /\ a.pc \in SrcPcs \cup Entered
                           /\ a.src \in Page /\ a.target = None /\ a.also = None
    /\ a.pc # "host" /\ a.kind # "Enter" =>
          a.target \in Page /\ a.kind \in {"Delegated", "Undelegated"} \cup Objects
    /\ a.kind \in {"Delegated", "Undelegated"} =>
          a.src = None /\ a.also = None /\ a.pc \in {"map", "set", "unmap"}
    /\ a.pc \in SrcPcs \cup {"read_ns"} => a.src \in Page
    /\ a.pc \in {"map"} \cup SrcPcs =>
          a.kind \in {"Enter", "Delegated", "Undelegated", "RD", "RTT", "Data", "Rec"}
    /\ a.kind \in {"RD", "Rec"} /\ a.pc \in {"map", "lock"} \cup SrcPcs => a.also \in Page
    /\ a.pc \in AlsoPcs \cup {"check_also", "zero_also", "unmap_also"} => a.also \in Page
    /\ a.pc \in AlsoPcs \cup {"check_also"} => a.kind \in {"RD", "Rec"}
    /\ a.pc \in {"lock"} => a.kind \in {"Rec", "Metadata"}
    /\ a.pc \in {"read_ns", "read_meta"} => a.kind = "Metadata"
    /\ a.pc \in {"unmap", "others", "zero"} => a.src = None /\ a.also = None
    /\ a.pc \in DownPcs => a.src = None /\ a.kind \in {"RD", "RTT", "Data", "Rec"}

WorldFor(state) == IF state = "Undelegated" THEN "ns" ELSE "realm"

\* The handler has found its granule Delegated, and has not given it a state since.
Chosen(a) ==
    /\ a.kind \in Objects
    /\ \/ a.pc \in {"map", "set", "unmap"} \cup AlsoPcs
       \/ a.kind \in {"RD", "RTT", "Data"} /\ a.pc \in SrcPcs \cup {"check_also"}

\* The handler has mapped its granule, and may write it.
Writable(a) ==
    /\ a.kind \notin {"none", "Enter", "Metadata"}
    /\ \/ a.pc \in {"set"} \cup AlsoPcs
       \/ a.kind \in {"RD", "RTT", "Data"} /\ a.pc \in SrcPcs \cup {"check_also"}

\* The granule of the call, in the GST, the GPT and the page table.
TargetOK(a, G, P, M) ==
    LET g == a.target
    IN  g \in Page =>
          /\ a.kind = "Delegated" =>
                /\ P[g] = "realm"
                /\ G[g] = IF a.pc = "unmap" THEN "Delegated" ELSE "Undelegated"
          /\ a.kind = "Undelegated" =>
                /\ P[g] = "ns"
                /\ G[g] = IF a.pc = "unmap" THEN "Undelegated" ELSE "Delegated"
          /\ a.kind \in Objects => P[g] = WorldFor(G[g])
          /\ Chosen(a) => G[g] = "Delegated"
          /\ a.pc \in DownPcs => G[g] = a.kind
          /\ Writable(a) => M[g] = WorldOf(a.kind)

\* The further granule of a creation or a destruction.
AlsoOK(a, G, P, M) ==
    LET g == a.also
    IN  g \in Page =>
          /\ P[g] = WorldFor(G[g])
          /\ a.pc \in AlsoPcs \/ (a.kind = "Rec" /\ a.pc \in {"lock", "map"}) => G[g] = "Delegated"
          /\ a.pc \in {"write_also", "set_also"} => M[g] = "realm"
          /\ a.pc = "zero_also" => G[g] \in Objects
          /\ a.pc = "unmap_also" => G[g] = "Delegated"

\* The page of the host that a handler copies: it is unmapped from the copy on.
Copied(a) ==
    /\ a.kind # "Metadata"
    /\ \/ a.pc \in {"check_also", "lock", "set", "check_run"} \cup AlsoPcs
       \/ a.pc = "map" /\ a.kind = "Rec"
SrcOK(a, G, P, M) ==
    LET g == a.src
    IN  g \in Page =>
          /\ G[g] = "Undelegated" /\ P[g] = "ns"
          /\ a.pc \in {"check_src", "copy_src", "check_out", "copy_out"} => M[g] = "ns"
          /\ Copied(a) => M[g] = "none"

PagesOK(a, G, P, M) == TargetOK(a, G, P, M) /\ AlsoOK(a, G, P, M) /\ SrcOK(a, G, P, M)

\* A granule that no call works on; an object is mapped in any case.
PageOK(g) ==
    /\ (\A p \in Cpu : g \notin Uses(at[p])) => pas[g] = WorldFor(gst[g])
    /\ gst[g] \in MappedObjects => map[g] = "realm"

MapTypes ==
    /\ gst \in [Page -> {"Undelegated", "Delegated"} \cup Objects]
    /\ pas \in [Page -> {"ns", "realm"}]
    /\ map \in [Page -> {"none", "ns", "realm"}]
    /\ tables \subseteq Regions
    /\ \A g \in Page : map[g] # "none" => HasTable(g)

MapInv ==
    /\ MapTypes
    /\ at \in [Cpu -> Call]
    /\ \A p \in Cpu : CallOK(at[p]) /\ PagesOK(at[p], gst, pas, map)
    /\ \A p, q \in Cpu : p # q => Uses(at[p]) \cap Uses(at[q]) = {}
    /\ \A g \in Page : PageOK(g)

-----------------------------------------------------------------------------

\* The call on p goes on as a.
Moves(p, a) == at' = [at EXCEPT ![p] = a]

\* A step of the call on p changes the granules of S and goes on as the call a.
LEMMA LocalStep ==
    ASSUME MapInv, NEW p \in Cpu, NEW S \in SUBSET Page, NEW a, Moves(p, a), MapTypes',
           \A h \in Page \ S : gst'[h] = gst[h] /\ pas'[h] = pas[h] /\ map'[h] = map[h],
           \A q \in Cpu \ {p} : (S \cup Uses(a)) \cap Uses(at[q]) = {},
           CallOK(a), PagesOK(a, gst', pas', map'),
           \A h \in S : gst'[h] \in MappedObjects => map'[h] = "realm",
           \A h \in (S \cup Uses(at[p])) \ Uses(a) : pas'[h] = WorldFor(gst'[h])
    PROVE  MapInv'
<1> USE Zenon
<1>1. /\ at \in [Cpu -> Call] /\ at' \in [Cpu -> Call] /\ at'[p] = a
      /\ \A q \in Cpu \ {p} : at'[q] = at[q]
  BY ZenonT(60) DEF MapInv, CallOK, Moves
<1>2. ASSUME NEW q \in Cpu PROVE CallOK(at'[q]) /\ PagesOK(at'[q], gst', pas', map')
  <2>1. CASE q = p
    BY <1>1, <2>1
  <2>2. CASE q # p
    <3> DEFINE b == at[q]
    <3>1. CallOK(b) /\ PagesOK(b, gst, pas, map) /\ S \cap Uses(b) = {} /\ at'[q] = b
      BY <1>1, <2>2 DEF MapInv
    <3>2. ASSUME NEW h \in Page, h \in {b.target, b.also, b.src}
          PROVE  gst'[h] = gst[h] /\ pas'[h] = pas[h] /\ map'[h] = map[h]
      BY <3>1, <3>2, MapAssumption DEF Uses
    <3> HIDE DEF b
    <3>3. TargetOK(b, gst', pas', map')
      <4>1. b.target \in Page => /\ gst'[b.target] = gst[b.target] /\ pas'[b.target] = pas[b.target]
                                 /\ map'[b.target] = map[b.target]
        BY <3>2
      <4> QED
        BY <3>1, <4>1, ZenonT(60) DEF PagesOK, TargetOK
    <3>4. AlsoOK(b, gst', pas', map')
      <4>1. b.also \in Page => /\ gst'[b.also] = gst[b.also] /\ pas'[b.also] = pas[b.also]
                               /\ map'[b.also] = map[b.also]
        BY <3>2
      <4> QED
        BY <3>1, <4>1, ZenonT(60) DEF PagesOK, AlsoOK
    <3>5. SrcOK(b, gst', pas', map')
      <4>1. b.src \in Page => /\ gst'[b.src] = gst[b.src] /\ pas'[b.src] = pas[b.src]
                              /\ map'[b.src] = map[b.src]
        BY <3>2
      <4> QED
        BY <3>1, <4>1, ZenonT(60) DEF PagesOK, SrcOK
    <3> QED
      BY <3>1, <3>3, <3>4, <3>5 DEF PagesOK
  <2> QED
    BY <2>1, <2>2
<1>3. ASSUME NEW q \in Cpu, NEW r \in Cpu, q # r PROVE Uses(at'[q]) \cap Uses(at'[r]) = {}
  BY <1>1, <1>3, SMTT(30) DEF MapInv
<1>4. ASSUME NEW h \in Page PROVE PageOK(h)'
  <2>1. PageOK(h)
    BY DEF MapInv
  <2>2. gst'[h] \in MappedObjects => map'[h] = "realm"
    BY <2>1 DEF PageOK
  <2>3. ASSUME \A q \in Cpu : h \notin Uses(at'[q]) PROVE pas'[h] = WorldFor(gst'[h])
    <3>1. h \notin Uses(a) /\ \A q \in Cpu \ {p} : h \notin Uses(at[q])
      BY <1>1, <2>3
    <3>2. CASE h \in S \cup Uses(at[p])
      BY <3>1, <3>2
    <3>3. CASE h \notin S \cup Uses(at[p])
      BY <2>1, <3>1, <3>3 DEF PageOK
    <3> QED
      BY <3>2, <3>3
  <2> QED
    BY <2>2, <2>3 DEF PageOK
<1> QED
  BY <1>1, <1>2, <1>3, <1>4 DEF MapInv

LEMMA MapNext ==
    ASSUME ~Shared, EnoughTables, MapInv, [Next]_vars
    PROVE  MapInv'
<1> USE Zenon
\* The tables of the regions of some granules can always be had.
<1>Room. ASSUME MapTypes, NEW more, more \subseteq Regions PROVE Cardinality(more) <= Heap
  <2>1. IsFiniteSet(more) /\ Cardinality(more) <= Cardinality(Regions)
    BY <1>Room, FS_Subset DEF EnoughTables
  <2>2. Cardinality(more) \in Nat /\ Cardinality(Regions) \in Nat
    BY <2>1, FS_CardinalityType DEF EnoughTables
  <2> QED
    BY <2>1, <2>2, MapAssumption, SMTT(30) DEF EnoughTables
\* map() succeeds: when the region of g has no table, the allocator has one left.
<1>MapWorks. ASSUME MapTypes, NEW g \in Page, NEW world \in {"ns", "realm"}, Map(g, world)
             PROVE  /\ map' = [map EXCEPT ![g] = world]
                    /\ tables \subseteq tables' /\ tables' \subseteq Regions /\ Region[g] \in tables'
  <2> USE <1>MapWorks
  <2>1. Region[g] \in Regions
    BY DEF Regions
  <2>2. HasTable(g) \/ Cardinality(tables) < Heap
    <3> SUFFICES ASSUME Region[g] \notin tables PROVE Cardinality(tables) < Heap
      BY DEF HasTable
    <3> DEFINE more == tables \cup {Region[g]}
    <3>1. more \subseteq Regions
      BY <2>1 DEF MapTypes
    <3>2. Cardinality(more) <= Heap
      BY <3>1, <1>Room
    <3>3. IsFiniteSet(tables)
      BY FS_Subset, SMTT(30) DEF MapTypes, EnoughTables
    <3>4. Cardinality(more) = Cardinality(tables) + 1 /\ Cardinality(tables) \in Nat
      BY <3>3, FS_AddElement, FS_CardinalityType
    <3> QED
      BY <3>2, <3>4, MapAssumption, SMTT(30)
  <2> QED
    BY <2>1, <2>2, ZenonT(60) DEF Map, SetPage, NewIn, HasTable, MapTypes
\* unmap() clears the entry, and there was none if there is no table.
<1>UnmapWorks. ASSUME MapTypes, NEW g \in Page, Unmap(g)
               PROVE  map' = [map EXCEPT ![g] = "none"] /\ tables' = tables
  BY <1>UnmapWorks DEF Unmap, MapTypes, NewEntry
<1>0. None \notin Page /\ MapTypes /\ at \in [Cpu -> Call]
  BY MapAssumption DEF MapInv
<1>1. ASSUME NEW p \in Cpu
      PROVE  /\ CallOK(at[p]) /\ at[p] \in Call
             /\ TargetOK(at[p], gst, pas, map) /\ AlsoOK(at[p], gst, pas, map)
             /\ SrcOK(at[p], gst, pas, map)
             /\ \A q \in Cpu \ {p} : Uses(at[p]) \cap Uses(at[q]) = {}
             /\ Uses(at[p]) \subseteq Page
  <2>1. CallOK(at[p]) /\ at[p] \in Call /\ PagesOK(at[p], gst, pas, map)
    BY DEF MapInv
  <2>2. \A q \in Cpu \ {p} : Uses(at[p]) \cap Uses(at[q]) = {}
    BY DEF MapInv
  <2>3. Uses(at[p]) \subseteq Page
    BY <2>1 DEF Uses, Call
  <2> QED
    BY <2>1, <2>2, <2>3 DEF PagesOK
<1>2. ASSUME NEW g \in Page PROVE gst[g] \in MappedObjects => map[g] = "realm"
  BY DEF MapInv, PageOK
<1>3. /\ "Delegated" \notin Objects /\ "Undelegated" \notin Objects /\ "Enter" \notin Objects
      /\ "none" \notin Objects /\ "Delegated" \notin MappedObjects
      /\ "Undelegated" \notin MappedObjects /\ MappedObjects \subseteq Objects
  BY DEF Objects, MappedObjects
\* Only the handlers of gpt.rs have a granule whose GST entry and GPT entry differ.
<1>4. ASSUME NEW p \in Cpu, at[p].kind \notin {"Delegated", "Undelegated"}, NEW h \in Uses(at[p])
      PROVE  pas[h] = WorldFor(gst[h])
  <2>1. h \in Page
    BY <1>1
  <2>2. CASE h = at[p].src
    BY <1>1, <2>1, <2>2 DEF SrcOK, WorldFor
  <2>3. CASE h = at[p].also
    BY <1>1, <2>1, <2>3 DEF AlsoOK
  <2>4. CASE h = at[p].target
    <3>1. at[p].pc # "host" /\ at[p].kind # "Enter"
      BY <1>0, <1>1, <2>1, <2>4 DEF CallOK
    <3>2. at[p].kind \in Objects
      BY <1>1, <1>4, <3>1 DEF CallOK
    <3> QED
      BY <1>1, <2>1, <2>4, <3>2 DEF TargetOK
  <2> QED
    BY <2>2, <2>3, <2>4 DEF Uses
\* A step that changes no granule.
<1>5. ASSUME NEW p \in Cpu, NEW a, Moves(p, a), UNCHANGED <<gst, pas, map, tables>>,
             CallOK(a), PagesOK(a, gst, pas, map),
             \A q \in Cpu \ {p} : Uses(a) \cap Uses(at[q]) = {},
             \A h \in Uses(at[p]) \ Uses(a) : pas[h] = WorldFor(gst[h])
      PROVE  MapInv'
  <2>1. MapTypes'
    BY <1>0, <1>5 DEF MapTypes, HasTable
  <2>2. PICK S : S = {}
    OBVIOUS
  <2>3. /\ S \in SUBSET Page
        /\ \A h \in Page \ S : gst'[h] = gst[h] /\ pas'[h] = pas[h] /\ map'[h] = map[h]
        /\ \A q \in Cpu \ {p} : (S \cup Uses(a)) \cap Uses(at[q]) = {}
        /\ PagesOK(a, gst', pas', map')
        /\ \A h \in S : gst'[h] \in MappedObjects => map'[h] = "realm"
        /\ \A h \in (S \cup Uses(at[p])) \ Uses(a) : pas'[h] = WorldFor(gst'[h])
    BY <1>5, <2>2
  <2> QED
    BY <1>5, <2>1, <2>3, LocalStep
\* A step that changes one granule of the call.
<1>6. ASSUME NEW p \in Cpu, NEW a, NEW g \in Uses(at[p]), Moves(p, a), MapTypes',
             \A h \in Page \ {g} : gst'[h] = gst[h] /\ pas'[h] = pas[h] /\ map'[h] = map[h],
             CallOK(a), PagesOK(a, gst', pas', map'), Uses(a) \subseteq Uses(at[p]),
             gst'[g] \in MappedObjects => map'[g] = "realm",
             \A h \in Uses(at[p]) \ Uses(a) : pas'[h] = WorldFor(gst'[h])
      PROVE  MapInv'
  <2>1. PICK S : S = {g}
    OBVIOUS
  <2>2. /\ S \in SUBSET Page
        /\ \A h \in Page \ S : gst'[h] = gst[h] /\ pas'[h] = pas[h] /\ map'[h] = map[h]
        /\ \A h \in S : gst'[h] \in MappedObjects => map'[h] = "realm"
        /\ \A h \in (S \cup Uses(at[p])) \ Uses(a) : pas'[h] = WorldFor(gst'[h])
    BY <1>1, <1>6, <2>1
  <2>3. \A q \in Cpu \ {p} : (S \cup Uses(a)) \cap Uses(at[q]) = {}
    BY <1>1, <1>6, <2>1
  <2> QED
    BY <1>6, <2>2, <2>3, LocalStep
<1>7. /\ CallOK(AtHost) /\ Uses(AtHost) = {}
      /\ \A G, P, M : PagesOK(AtHost, G, P, M)
  <2>1. AtHost \in Call
    BY DEF AtHost, Call, Pc, Kind
  <2>2. /\ AtHost.pc = "host" /\ AtHost.kind = "none" /\ AtHost.src = None
        /\ AtHost.target = None /\ AtHost.also = None
    BY DEF AtHost
  <2> QED
    BY <1>0, <1>3, <2>1, <2>2, ZenonT(60) DEF CallOK, Uses, PagesOK, TargetOK, AlsoOK, SrcOK, SrcPcs, AlsoPcs, DownPcs, Entered
\* A call returns, and has changed no granule in this step.
<1>8. ASSUME NEW p \in Cpu, Return(p), UNCHANGED <<gst, pas, map, tables>>,
             at[p].kind \notin {"Delegated", "Undelegated"}
      PROVE  MapInv'
  <2>1. Moves(p, AtHost)
    BY <1>8 DEF Return, Moves
  <2>2. \A h \in Uses(at[p]) \ Uses(AtHost) : pas[h] = WorldFor(gst[h])
    BY <1>4, <1>8
  <2>3. \A q \in Cpu \ {p} : Uses(AtHost) \cap Uses(at[q]) = {}
    BY <1>7
  <2> QED
    BY <1>5, <1>7, <1>8, <2>1, <2>2, <2>3
\* A call returns, and has changed one of its granules in this step.
<1>9. ASSUME NEW p \in Cpu, NEW g \in Uses(at[p]), Return(p), MapTypes',
             \A h \in Page \ {g} : gst'[h] = gst[h] /\ pas'[h] = pas[h] /\ map'[h] = map[h],
             gst'[g] \in MappedObjects => map'[g] = "realm",
             pas'[g] = WorldFor(gst'[g]),
             at[p].kind \in {"Delegated", "Undelegated"} => Uses(at[p]) = {g}
      PROVE  MapInv'
  <2>1. Moves(p, AtHost)
    BY <1>9 DEF Return, Moves
  <2>2. ASSUME NEW h \in Uses(at[p]) PROVE pas'[h] = WorldFor(gst'[h])
    <3>1. CASE h = g
      BY <1>9, <3>1
    <3>2. CASE h # g
      BY <1>1, <1>4, <1>9, <3>2
    <3> QED
      BY <3>1, <3>2
  <2>3. Uses(AtHost) \subseteq Uses(at[p])
    BY <1>7
  <2> QED
    BY <1>6, <1>7, <1>9, <2>1, <2>2, <2>3
\* The call goes on at l, with the pages it has.
<1>10. ASSUME NEW p \in Cpu, NEW l \in Pc, Goto(p, l)
       PROVE  \E a \in Call : /\ Moves(p, a) /\ a.pc = l /\ a.kind = at[p].kind
                              /\ a.src = at[p].src /\ a.target = at[p].target /\ a.also = at[p].also
                              /\ Uses(a) = Uses(at[p])
  <2> DEFINE b == [at[p] EXCEPT !.pc = l]
  <2>1. /\ b \in Call /\ b.pc = l /\ b.kind = at[p].kind /\ b.src = at[p].src
        /\ b.target = at[p].target /\ b.also = at[p].also
    BY <1>1 DEF Call
  <2>2. Moves(p, b)
    BY <1>10 DEF Goto, Moves
  <2> QED
    BY <2>1, <2>2 DEF Uses
\* Steps that only move a call on: the copy of the page of the host, REC_ENTER, the
\* checks of granules, and the rest.
<1>11. ASSUME NEW p \in Cpu, NEW l \in Pc, Goto(p, l), UNCHANGED <<gst, pas, map, tables>>,
              \/ at[p].pc = "check_src" /\ l = "copy_src"
              \/ at[p].pc = "copy_src" /\ l = "unmap_src"
       PROVE  MapInv'
  <2>1. PICK a \in Call : /\ Moves(p, a) /\ a.pc = l /\ a.kind = at[p].kind
                          /\ a.src = at[p].src /\ a.target = at[p].target /\ a.also = at[p].also
                          /\ Uses(a) = Uses(at[p])
    BY <1>10, <1>11
  <2>2. CallOK(a)
    BY <1>0, <1>1, <1>3, <1>11, <2>1, ZenonT(60) DEF CallOK, SrcPcs, AlsoPcs, DownPcs, Entered
  <2>3. TargetOK(a, gst, pas, map)
    BY <1>1, <1>3, <1>11, <2>1, ZenonT(60) DEF TargetOK, CallOK, Chosen, Writable, SrcPcs, AlsoPcs, DownPcs, Entered
  <2>4. AlsoOK(a, gst, pas, map)
    BY <1>1, <1>11, <2>1, ZenonT(60) DEF AlsoOK, CallOK, AlsoPcs, SrcPcs, DownPcs, Entered
  <2>5. SrcOK(a, gst, pas, map)
    BY <1>1, <1>11, <2>1, ZenonT(60) DEF SrcOK, CallOK, Copied, AlsoPcs, DownPcs
  <2> QED
    BY <1>1, <1>5, <1>11, <2>1, <2>2, <2>3, <2>4, <2>5 DEF PagesOK
<1>12. ASSUME NEW p \in Cpu, NEW l \in Pc, Goto(p, l), UNCHANGED <<gst, pas, map, tables>>,
              \/ at[p].pc = "check_run" /\ l = "prepare"
              \/ at[p].pc = "prepare" /\ l = "realm"
              \/ at[p].pc = "realm" /\ l \in {"prepare", "map_out"}
              \/ at[p].pc = "check_out" /\ l = "copy_out"
              \/ at[p].pc = "copy_out" /\ l = "unmap_out"
       PROVE  MapInv'
  <2>1. PICK a \in Call : /\ Moves(p, a) /\ a.pc = l /\ a.kind = at[p].kind
                          /\ a.src = at[p].src /\ a.target = at[p].target /\ a.also = at[p].also
                          /\ Uses(a) = Uses(at[p])
    BY <1>10, <1>12
  <2>2. CallOK(a)
    BY <1>0, <1>1, <1>3, <1>12, <2>1, ZenonT(60) DEF CallOK, SrcPcs, AlsoPcs, DownPcs, Entered
  <2>3. TargetOK(a, gst, pas, map)
    BY <1>1, <1>3, <1>12, <2>1, ZenonT(60) DEF TargetOK, CallOK, Chosen, Writable, SrcPcs, AlsoPcs, DownPcs, Entered
  <2>4. AlsoOK(a, gst, pas, map)
    BY <1>1, <1>12, <2>1, ZenonT(60) DEF AlsoOK, CallOK, AlsoPcs, SrcPcs, DownPcs, Entered
  <2>5. SrcOK(a, gst, pas, map)
    BY <1>1, <1>12, <2>1, ZenonT(60) DEF SrcOK, CallOK, Copied, AlsoPcs, DownPcs
  <2> QED
    BY <1>1, <1>5, <1>12, <2>1, <2>2, <2>3, <2>4, <2>5 DEF PagesOK
<1>13. ASSUME NEW p \in Cpu, NEW l \in Pc, Goto(p, l), UNCHANGED <<gst, pas, map, tables>>,
              \/ at[p].pc = "lock" /\ at[p].kind = "Rec" /\ l = "map"
              \/ at[p].pc = "lock" /\ at[p].kind # "Rec" /\ l = "set",
              gst[at[p].target] = "Delegated"
       PROVE  MapInv'
  <2>1. PICK a \in Call : /\ Moves(p, a) /\ a.pc = l /\ a.kind = at[p].kind
                          /\ a.src = at[p].src /\ a.target = at[p].target /\ a.also = at[p].also
                          /\ Uses(a) = Uses(at[p])
    BY <1>10, <1>13
  <2>2. CallOK(a)
    BY <1>0, <1>1, <1>3, <1>13, <2>1, ZenonT(60) DEF CallOK, SrcPcs, AlsoPcs, DownPcs, Entered
  <2>3. TargetOK(a, gst, pas, map)
    BY <1>1, <1>3, <1>13, <2>1, ZenonT(60) DEF TargetOK, CallOK, Chosen, Writable, SrcPcs, AlsoPcs, DownPcs, Entered
  <2>4. AlsoOK(a, gst, pas, map)
    BY <1>1, <1>13, <2>1, ZenonT(60) DEF AlsoOK, CallOK, AlsoPcs, SrcPcs, DownPcs, Entered
  <2>5. SrcOK(a, gst, pas, map)
    BY <1>1, <1>13, <2>1, ZenonT(60) DEF SrcOK, CallOK, Copied, AlsoPcs, DownPcs
  <2> QED
    BY <1>1, <1>5, <1>13, <2>1, <2>2, <2>3, <2>4, <2>5 DEF PagesOK
<1>14. ASSUME NEW p \in Cpu, NEW l \in Pc, Goto(p, l), UNCHANGED <<gst, pas, map, tables>>,
              \/ at[p].pc = "check_also" /\ at[p].kind = "Rec" /\ l = "lock"
              \/ at[p].pc = "check_also" /\ at[p].kind # "Rec" /\ l = "map_also",
              gst[at[p].also] = "Delegated"
       PROVE  MapInv'
  <2>1. PICK a \in Call : /\ Moves(p, a) /\ a.pc = l /\ a.kind = at[p].kind
                          /\ a.src = at[p].src /\ a.target = at[p].target /\ a.also = at[p].also
                          /\ Uses(a) = Uses(at[p])
    BY <1>10, <1>14
  <2>2. CallOK(a)
    BY <1>0, <1>1, <1>3, <1>14, <2>1, ZenonT(60) DEF CallOK, SrcPcs, AlsoPcs, DownPcs, Entered
  <2>3. TargetOK(a, gst, pas, map)
    BY <1>1, <1>3, <1>14, <2>1, ZenonT(60) DEF TargetOK, CallOK, Chosen, Writable, SrcPcs, AlsoPcs, DownPcs, Entered
  <2>4. AlsoOK(a, gst, pas, map)
    BY <1>1, <1>14, <2>1, ZenonT(60) DEF AlsoOK, CallOK, AlsoPcs, SrcPcs, DownPcs, Entered
  <2>5. SrcOK(a, gst, pas, map)
    BY <1>1, <1>14, <2>1, ZenonT(60) DEF SrcOK, CallOK, Copied, AlsoPcs, DownPcs
  <2> QED
    BY <1>1, <1>5, <1>14, <2>1, <2>2, <2>3, <2>4, <2>5 DEF PagesOK
<1>15. ASSUME NEW p \in Cpu, NEW l \in Pc, Goto(p, l), UNCHANGED <<gst, pas, map, tables>>,
              \/ at[p].pc = "write_also" /\ l = "set_also"
              \/ at[p].pc = "others" /\ l = "zero"
              \/ at[p].pc = "read_ns" /\ l = "lock"
       PROVE  MapInv'
  <2>1. PICK a \in Call : /\ Moves(p, a) /\ a.pc = l /\ a.kind = at[p].kind
                          /\ a.src = at[p].src /\ a.target = at[p].target /\ a.also = at[p].also
                          /\ Uses(a) = Uses(at[p])
    BY <1>10, <1>15
  <2>2. CallOK(a)
    BY <1>0, <1>1, <1>3, <1>15, <2>1, ZenonT(60) DEF CallOK, SrcPcs, AlsoPcs, DownPcs, Entered
  <2>3. TargetOK(a, gst, pas, map)
    BY <1>1, <1>3, <1>15, <2>1, ZenonT(60) DEF TargetOK, CallOK, Chosen, Writable, SrcPcs, AlsoPcs, DownPcs, Entered
  <2>4. AlsoOK(a, gst, pas, map)
    BY <1>1, <1>15, <2>1, ZenonT(60) DEF AlsoOK, CallOK, AlsoPcs, SrcPcs, DownPcs, Entered
  <2>5. SrcOK(a, gst, pas, map)
    BY <1>1, <1>15, <2>1, ZenonT(60) DEF SrcOK, CallOK, Copied, AlsoPcs, DownPcs
  <2> QED
    BY <1>1, <1>5, <1>15, <2>1, <2>2, <2>3, <2>4, <2>5 DEF PagesOK
\* A page that the host gives to a call is in no other.
<1>16. ASSUME NEW p \in Cpu, NEW g \in Page, at[p].pc = "host", Given(p, g)
       PROVE  Uses(at[p]) = {} /\ (\A q \in Cpu : g \notin Uses(at[q])) /\ pas[g] = WorldFor(gst[g])
  <2>1. Uses(at[p]) = {}
    BY <1>1, <1>16 DEF CallOK, Uses
  <2>2. \A q \in Cpu : g \notin Uses(at[q])
    BY <1>16, <2>1 DEF Given, Uses
  <2>3. PageOK(g)
    BY DEF MapInv
  <2> QED
    BY <2>1, <2>2, <2>3 DEF PageOK
\* A call begins, with the pages that the host gives it.
<1>17. ASSUME NEW p \in Cpu, NEW a, at[p].pc = "host", Moves(p, a), UNCHANGED <<gst, pas, map, tables>>,
              CallOK(a), PagesOK(a, gst, pas, map), \A h \in Uses(a) : Given(p, h)
       PROVE  MapInv'
  <2>1. Uses(at[p]) = {}
    BY <1>1, <1>17 DEF CallOK, Uses
  <2>2. Uses(a) \subseteq Page
    BY <1>17 DEF CallOK, Call, Uses
  <2>3. \A q \in Cpu \ {p} : Uses(a) \cap Uses(at[q]) = {}
    BY <1>16, <1>17, <2>2
  <2> QED
    BY <1>5, <1>17, <2>1, <2>3
<1>18. ASSUME NEW p \in Cpu, NEW g \in Page, DelegateBegin(p, g) \/ UndelegateBegin(p, g) PROVE MapInv'
  <2>1. PICK kind \in {"Delegated", "Undelegated"} :
           /\ kind = "Delegated" => gst[g] = "Undelegated" /\ pas' = [pas EXCEPT ![g] = "realm"]
           /\ kind = "Undelegated" => gst[g] = "Delegated" /\ pas' = [pas EXCEPT ![g] = "ns"]
           /\ at' = [at EXCEPT ![p] = [AtHost EXCEPT !.pc = "map", !.kind = kind, !.target = g]]
           /\ at[p].pc = "host" /\ Given(p, g) /\ UNCHANGED <<gst, map, tables>>
    BY <1>18 DEF DelegateBegin, UndelegateBegin
  <2>2. PICK a : a = [AtHost EXCEPT !.pc = "map", !.kind = kind, !.target = g]
    OBVIOUS
  <2>3. /\ a \in Call /\ a.pc = "map" /\ a.kind = kind /\ a.src = None /\ a.target = g /\ a.also = None
        /\ Moves(p, a)
    BY <2>1, <2>2 DEF AtHost, Call, Pc, Kind, Moves
  <2>4. CallOK(a) /\ Uses(a) = {g}
    BY <1>0, <1>3, <2>1, <2>3, ZenonT(60) DEF CallOK, Uses, SrcPcs, AlsoPcs, DownPcs, Entered
  <2>5. /\ pas' \in [Page -> {"ns", "realm"}] /\ \A h \in Page \ {g} : pas'[h] = pas[h]
        /\ kind = "Delegated" => pas'[g] = "realm"
        /\ kind = "Undelegated" => pas'[g] = "ns"
    BY <1>0, <2>1 DEF MapTypes
  <2>6. PagesOK(a, gst', pas', map')
    BY <1>0, <1>3, <2>1, <2>3, <2>5, ZenonT(60)
      DEF PagesOK, TargetOK, AlsoOK, SrcOK, Chosen, Writable, SrcPcs, AlsoPcs, DownPcs
  <2>7. MapTypes'
    BY <1>0, <2>1, <2>5 DEF MapTypes, HasTable
  <2>8. Uses(at[p]) = {} /\ \A q \in Cpu : g \notin Uses(at[q])
    BY <1>16, <2>1
  <2>9. PICK S : S = {g}
    OBVIOUS
  <2>10. /\ S \in SUBSET Page
         /\ \A h \in Page \ S : gst'[h] = gst[h] /\ pas'[h] = pas[h] /\ map'[h] = map[h]
         /\ \A q \in Cpu \ {p} : (S \cup Uses(a)) \cap Uses(at[q]) = {}
         /\ \A h \in S : gst'[h] \in MappedObjects => map'[h] = "realm"
         /\ \A h \in (S \cup Uses(at[p])) \ Uses(a) : pas'[h] = WorldFor(gst'[h])
    BY <1>3, <2>1, <2>4, <2>5, <2>8, <2>9, ZenonT(60)
  <2> QED
    BY <2>3, <2>4, <2>6, <2>7, <2>10, LocalStep
<1>19. ASSUME NEW p \in Cpu, NEW g \in Page, DestroyBegin(p, g) \/ ReadMetadataBegin(p, g) PROVE MapInv'
  <2>1. PICK l \in {"others", "zero", "read_meta"}, kind \in Objects :
           /\ l \in {"others", "zero"} => kind \in {"RD", "RTT", "Data", "Rec"}
           /\ l = "read_meta" => kind = "Metadata"
           /\ kind = gst[g]
           /\ at' = [at EXCEPT ![p] = [AtHost EXCEPT !.pc = l, !.kind = kind, !.target = g]]
           /\ at[p].pc = "host" /\ Given(p, g) /\ UNCHANGED <<gst, pas, map, tables>>
    <3>1. CASE ReadMetadataBegin(p, g)
      BY <3>1 DEF ReadMetadataBegin, Objects
    <3>2. CASE DestroyBegin(p, g)
      <4> DEFINE l == IF gst[g] \in {"RD", "Rec"} THEN "others" ELSE "zero"
      <4>1. [AtHost EXCEPT !.kind = gst[g], !.target = g, !.pc = l]
               = [AtHost EXCEPT !.pc = l, !.kind = gst[g], !.target = g]
        BY DEF AtHost
      <4>2. l \in {"others", "zero"} /\ l # "read_meta" /\ gst[g] \in Objects
        BY <3>2 DEF DestroyBegin, Objects
      <4> QED
        BY <3>2, <4>1, <4>2 DEF DestroyBegin
    <3> QED
      BY <1>19, <3>1, <3>2
  <2>2. PICK a : a = [AtHost EXCEPT !.pc = l, !.kind = kind, !.target = g]
    OBVIOUS
  <2>3. /\ a \in Call /\ a.pc = l /\ a.kind = kind /\ a.src = None /\ a.target = g /\ a.also = None
        /\ Moves(p, a)
    BY <2>1, <2>2 DEF AtHost, Call, Pc, DownPcs, Kind, Moves
  <2>4. CallOK(a) /\ Uses(a) = {g}
    BY <1>0, <1>3, <2>1, <2>3, ZenonT(60) DEF CallOK, Uses, SrcPcs, AlsoPcs, DownPcs, Entered
  <2>5. pas[g] = WorldFor(gst[g])
    BY <1>16, <2>1
  <2>6. PagesOK(a, gst, pas, map)
    BY <1>0, <1>3, <2>1, <2>3, <2>5, ZenonT(60)
      DEF PagesOK, TargetOK, AlsoOK, SrcOK, Chosen, Writable, SrcPcs, AlsoPcs, DownPcs
  <2> QED
    BY <1>17, <2>1, <2>3, <2>4, <2>6
\* The creations of objects: which pages the host gives them.
<1>20. ASSUME NEW p \in Cpu, NEW g \in Page, NEW kind \in {"RD", "RTT", "Data", "Rec", "Metadata"},
              NEW src \in Page \cup {None}, NEW also \in Page \cup {None},
              NEW l \in {"map", "map_src", "read_ns"}, NEW a \in Call, Moves(p, a), a.pc = l,
              a.kind = kind, a.src = src, a.target = g, a.also = also,
              at[p].pc = "host", UNCHANGED <<gst, pas, map, tables>>,
              Given(p, g), src # g, also # g,
              l = "map" => kind \in {"RD", "RTT", "Data"} /\ gst[g] = "Delegated",
              l = "map_src" => kind = "Rec" /\ src \in Page,
              l = "read_ns" => kind = "Metadata" /\ src \in Page,
              src # None => src # also /\ GivenSrc(p, src),
              also # None => Given(p, also),
              kind \in {"RD", "Rec"} => also \in Page
       PROVE  MapInv'
  <2>2. /\ a \in Call /\ a.pc = l /\ a.kind = kind /\ a.src = src /\ a.target = g /\ a.also = also
        /\ Moves(p, a)
    BY <1>20
  <2>3. kind \in Objects
    BY DEF Objects
  <2>4. CallOK(a)
    BY <1>0, <1>20, <2>2, <2>3, ZenonT(60) DEF CallOK, SrcPcs, AlsoPcs, DownPcs, Entered
  <2>5. src # None => Given(p, src) /\ gst[src] = "Undelegated"
    BY <1>20 DEF GivenSrc
  <2>6. /\ pas[g] = WorldFor(gst[g]) /\ (also # None => pas[also] = WorldFor(gst[also]))
        /\ src # None => pas[src] = "ns"
    BY <1>16, <1>20, <2>5 DEF WorldFor
  <2>7. TargetOK(a, gst, pas, map)
    BY <1>3, <1>20, <2>2, <2>3, <2>6, ZenonT(60) DEF TargetOK, Chosen, Writable, SrcPcs, AlsoPcs, DownPcs
  <2>8. AlsoOK(a, gst, pas, map)
    BY <1>0, <1>20, <2>2, <2>6, ZenonT(60) DEF AlsoOK, AlsoPcs
  <2>9. SrcOK(a, gst, pas, map)
    BY <1>0, <1>20, <2>2, <2>5, <2>6, ZenonT(60) DEF SrcOK, Copied, AlsoPcs
  <2>10. ASSUME NEW h \in Uses(a) PROVE Given(p, h)
    <3>1. h # None /\ (h = g \/ h = src \/ h = also)
      BY <2>2, <2>10 DEF Uses
    <3>2. CASE h = g
      BY <1>20, <3>2
    <3>3. CASE h = src
      BY <2>5, <3>1, <3>3
    <3>4. CASE h = also
      BY <1>20, <3>1, <3>4
    <3> QED
      BY <3>1, <3>2, <3>3, <3>4
  <2> QED
    BY <1>17, <1>20, <2>2, <2>4, <2>7, <2>8, <2>9, <2>10 DEF PagesOK
<1>21. ASSUME NEW p \in Cpu, NEW g \in Page, NEW kind \in Kinds, NEW src \in Page \cup {None},
              NEW also \in Page \cup {None}, CreateBegin(p, g, kind, src, also)
       PROVE  MapInv'
  <2>1. /\ kind \in {"RD", "RTT", "Data", "Rec", "Metadata"} /\ "map" \in {"map", "map_src", "read_ns"}
        /\ kind \in {"RD", "RTT", "Data"} /\ gst[g] = "Delegated" /\ Given(p, g)
        /\ at[p].pc = "host" /\ UNCHANGED <<gst, pas, map, tables>>
    BY <1>21 DEF CreateBegin
  <2>2. /\ src # g /\ also # g /\ (also # None => Given(p, also))
        /\ src # None => src # also /\ GivenSrc(p, src)
        /\ kind \in {"RD", "Rec"} => also \in Page
    BY <1>0, <1>21, <2>1, ZenonT(60) DEF CreateBegin
  <2>3. PICK a : a = [AtHost EXCEPT !.pc = "map", !.kind = kind, !.target = g, !.src = src, !.also = also]
    OBVIOUS
  <2>4. /\ a \in Call /\ a.pc = "map" /\ a.kind = kind /\ a.src = src /\ a.target = g /\ a.also = also
        /\ Moves(p, a)
    BY <1>21, <2>1, <2>3 DEF AtHost, Call, Pc, Kind, Objects, Moves, CreateBegin
  <2> QED
    BY <1>20, <2>1, <2>2, <2>4, ZenonT(60)
<1>22. ASSUME NEW p \in Cpu, NEW g \in Page, NEW src \in Page, NEW also \in Page,
              RecCreateBegin(p, g, src, also)
       PROVE  MapInv'
  <2>1. /\ "Rec" \in {"RD", "RTT", "Data", "Rec", "Metadata"} /\ "map_src" \in {"map", "map_src", "read_ns"}
        /\ src \in Page \cup {None} /\ also \in Page \cup {None}
        /\ src # g /\ also # g /\ src # also
        /\ at[p].pc = "host" /\ UNCHANGED <<gst, pas, map, tables>>
        /\ Given(p, g) /\ Given(p, also) /\ GivenSrc(p, src)
    BY <1>22 DEF RecCreateBegin
  <2>2. PICK a : a = [AtHost EXCEPT !.pc = "map_src", !.kind = "Rec", !.target = g, !.src = src, !.also = also]
    OBVIOUS
  <2>3. /\ a \in Call /\ a.pc = "map_src" /\ a.kind = "Rec" /\ a.src = src /\ a.target = g /\ a.also = also
        /\ Moves(p, a)
    BY <1>22, <2>2 DEF AtHost, Call, Pc, SrcPcs, Kind, Objects, Moves, RecCreateBegin
  <2> QED
    BY <1>20, <2>1, <2>3, ZenonT(60)
<1>23. ASSUME NEW p \in Cpu, NEW g \in Page, NEW src \in Page, SetMetadataBegin(p, g, src) PROVE MapInv'
  <2>1. /\ "Metadata" \in {"RD", "RTT", "Data", "Rec", "Metadata"} /\ "read_ns" \in {"map", "map_src", "read_ns"}
        /\ src \in Page \cup {None} /\ None \in Page \cup {None} /\ src # g /\ src # None /\ g # None
        /\ at[p].pc = "host" /\ UNCHANGED <<gst, pas, map, tables>>
        /\ Given(p, g) /\ GivenSrc(p, src)
    BY <1>0, <1>23 DEF SetMetadataBegin
  <2>2. PICK a : a = [AtHost EXCEPT !.pc = "read_ns", !.kind = "Metadata", !.target = g, !.src = src]
    OBVIOUS
  <2>3. /\ a \in Call /\ a.pc = "read_ns" /\ a.kind = "Metadata" /\ a.src = src /\ a.target = g
        /\ a.also = None /\ Moves(p, a)
    BY <1>23, <2>2 DEF AtHost, Call, Pc, Kind, Objects, Moves, SetMetadataBegin
  <2> QED
    BY <1>20, <2>1, <2>3, ZenonT(60)
<1>24. ASSUME NEW p \in Cpu, NEW c \in Rec, NEW run \in Page, EnterBegin(p, c, run) PROVE MapInv'
  <2>1. PICK a : a = [AtHost EXCEPT !.pc = "map_src", !.kind = "Enter", !.src = run, !.rec = c]
    OBVIOUS
  <2>2. /\ a \in Call /\ a.pc = "map_src" /\ a.kind = "Enter" /\ a.src = run /\ a.target = None
        /\ a.also = None
    BY <2>1 DEF AtHost, Call, Pc, Kind, SrcPcs
  <2>3. /\ at[p].pc = "host" /\ Given(p, run) /\ gst[run] = "Undelegated" /\ Moves(p, a)
        /\ UNCHANGED <<gst, pas, map, tables>>
    BY <1>24, <2>1 DEF EnterBegin, Moves, GivenSrc
  <2>4. CallOK(a) /\ Uses(a) = {run}
    BY <1>0, <1>3, <2>2, ZenonT(60) DEF CallOK, Uses, SrcPcs, AlsoPcs, DownPcs, Entered
  <2>5. pas[run] = "ns"
    BY <1>16, <2>3 DEF WorldFor
  <2>6. PagesOK(a, gst, pas, map)
    BY <1>0, <2>2, <2>3, <2>5, ZenonT(60) DEF PagesOK, TargetOK, AlsoOK, SrcOK, Copied, AlsoPcs
  <2> QED
    BY <1>17, <2>3, <2>4, <2>6
\* A page of the call is mapped, and the call goes on.
<1>25. ASSUME NEW p \in Cpu, NEW g \in Uses(at[p]), NEW world \in {"ns", "realm"}, Map(g, world),
              UNCHANGED <<gst, pas>>, gst[g] \notin MappedObjects
       PROVE  /\ MapTypes' /\ map'[g] = world
              /\ \A h \in Page \ {g} : gst'[h] = gst[h] /\ pas'[h] = pas[h] /\ map'[h] = map[h]
              /\ gst'[g] \in MappedObjects => map'[g] = "realm"
  <2>1. g \in Page
    BY <1>1
  <2>2. /\ map' = [map EXCEPT ![g] = world]
        /\ tables \subseteq tables' /\ tables' \subseteq Regions /\ Region[g] \in tables'
    BY <1>0, <1>25, <2>1, <1>MapWorks
  <2>3. MapTypes'
    BY <1>0, <1>25, <2>1, <2>2 DEF MapTypes, HasTable
  <2> QED
    BY <1>0, <1>25, <2>1, <2>2, <2>3 DEF MapTypes
<1>26. ASSUME NEW p \in Cpu, MapTarget(p) PROVE MapInv'
  <2> DEFINE g == at[p].target
             k == at[p].kind
             l == CASE k = "Rec" -> "map_also"
                    [] k # "Rec" /\ at[p].src # None -> "map_src"
                    [] OTHER -> "set"
  <2>1. at[p].pc = "map" /\ Map(g, WorldOf(k)) /\ Goto(p, l) /\ UNCHANGED <<gst, pas>>
    BY <1>26 DEF MapTarget
  <2>2. /\ k = "Rec" => l = "map_also"
        /\ k # "Rec" /\ at[p].src # None => l = "map_src"
        /\ k # "Rec" /\ at[p].src = None => l = "set"
    OBVIOUS
  <2>3. l \in {"map_also", "map_src", "set"}
    BY <2>2
  <2> HIDE DEF l
  <2>4. /\ g \in Page /\ g \in Uses(at[p]) /\ WorldOf(k) \in {"ns", "realm"} /\ l \in Pc
        /\ k # "Enter"
    BY <1>0, <1>1, <2>1, <2>3 DEF CallOK, Uses, WorldOf, Pc, SrcPcs, AlsoPcs, Entered
  <2>5. gst[g] \in {"Delegated", "Undelegated"}
    BY <1>1, <2>1, <2>4 DEF TargetOK, CallOK, Chosen
  <2>6. /\ MapTypes' /\ map'[g] = WorldOf(k)
        /\ \A h \in Page \ {g} : gst'[h] = gst[h] /\ pas'[h] = pas[h] /\ map'[h] = map[h]
        /\ gst'[g] \in MappedObjects => map'[g] = "realm"
    BY <1>3, <1>25, <2>1, <2>4, <2>5
  <2>7. PICK a \in Call : /\ Moves(p, a) /\ a.pc = l /\ a.kind = at[p].kind
                          /\ a.src = at[p].src /\ a.target = at[p].target /\ a.also = at[p].also
                          /\ Uses(a) = Uses(at[p])
    BY <1>10, <2>1, <2>4
  <2>8. CallOK(a)
    BY <1>0, <1>1, <1>3, <2>1, <2>2, <2>3, <2>7, ZenonT(60) DEF CallOK, SrcPcs, AlsoPcs, DownPcs, Entered, Call
  <2>9. TargetOK(a, gst', pas', map')
    <3>1. TargetOK(at[p], gst, pas, map) /\ gst' = gst /\ pas' = pas
      BY <1>1, <2>1
    <3>2. k \in Objects => gst[g] = "Delegated"
      BY <1>1, <2>1, <2>4 DEF TargetOK, Chosen
    <3>3. a.pc \notin DownPcs /\ a.pc # "unmap" /\ at[p].pc # "unmap"
      BY <2>1, <2>3, <2>7 DEF DownPcs
    <3> QED
      BY <2>4, <2>6, <2>7, <3>1, <3>2, <3>3, ZenonT(60) DEF TargetOK, Chosen
  <2>10. AlsoOK(a, gst', pas', map')
    <3>1. CASE at[p].also \in Page
      <4>1. at[p].also # g
        BY <1>0, <1>1, <3>1 DEF CallOK
      <4>2. AlsoOK(at[p], gst, pas, map) /\ k \in {"RD", "RTT", "Data", "Rec"} \cup Objects
        BY <1>0, <1>1, <2>1, <2>4, <3>1 DEF CallOK
      <4> QED
        BY <2>1, <2>2, <2>3, <2>7, <3>1, <4>1, <4>2, ZenonT(60) DEF AlsoOK, AlsoPcs
    <3> QED
      BY <2>7, <3>1 DEF AlsoOK
  <2>11. SrcOK(a, gst', pas', map')
    <3>1. CASE at[p].src \in Page
      <4>1. at[p].src # g /\ map'[at[p].src] = map[at[p].src]
        BY <1>0, <1>1, <2>6, <3>1 DEF CallOK
      <4> QED
        BY <1>0, <1>1, <2>1, <2>2, <2>3, <2>7, <3>1, <4>1, ZenonT(60) DEF SrcOK, Copied, AlsoPcs
    <3> QED
      BY <2>7, <3>1 DEF SrcOK
  <2>12. Uses(a) \subseteq Uses(at[p]) /\ \A h \in Uses(at[p]) \ Uses(a) : pas'[h] = WorldFor(gst'[h])
    BY <2>7
  <2> QED
    BY <1>6, <2>4, <2>6, <2>7, <2>8, <2>9, <2>10, <2>11, <2>12 DEF PagesOK
<1>27. ASSUME NEW p \in Cpu, MapSrc(p) \/ MapOut(p) PROVE MapInv'
  <2> DEFINE g == at[p].src
  <2>1. PICK l \in {"check_src", "check_out"} :
           /\ Map(g, "ns") /\ Goto(p, l) /\ UNCHANGED <<gst, pas>>
           /\ \/ at[p].pc = "map_src" /\ l = "check_src"
              \/ at[p].pc = "map_out" /\ l = "check_out"
    BY <1>27 DEF MapSrc, MapOut
  <2>2. g \in Page /\ g \in Uses(at[p]) /\ l \in Pc /\ g # at[p].target /\ g # at[p].also
    BY <1>0, <1>1, <2>1 DEF CallOK, Uses, Pc, SrcPcs, Entered
  <2>3. gst[g] = "Undelegated" /\ pas[g] = "ns"
    BY <1>1, <2>2 DEF SrcOK
  <2>4. /\ MapTypes' /\ map'[g] = "ns"
        /\ \A h \in Page \ {g} : gst'[h] = gst[h] /\ pas'[h] = pas[h] /\ map'[h] = map[h]
        /\ gst'[g] \in MappedObjects => map'[g] = "realm"
    BY <1>3, <1>25, <2>1, <2>2, <2>3
  <2>5. PICK a \in Call : /\ Moves(p, a) /\ a.pc = l /\ a.kind = at[p].kind
                          /\ a.src = at[p].src /\ a.target = at[p].target /\ a.also = at[p].also
                          /\ Uses(a) = Uses(at[p])
    BY <1>10, <2>1, <2>2
  <2>6. CallOK(a)
    BY <1>0, <1>1, <1>3, <2>1, <2>5, ZenonT(60) DEF CallOK, SrcPcs, AlsoPcs, DownPcs, Entered
  <2>7. TargetOK(a, gst', pas', map')
    <3>1. CASE at[p].target \in Page
      <4>1. map'[at[p].target] = map[at[p].target]
        BY <2>2, <2>4, <3>1
      <4> QED
        BY <1>0, <1>1, <2>1, <2>5, <3>1, <4>1, ZenonT(60)
          DEF TargetOK, CallOK, Chosen, Writable, SrcPcs, AlsoPcs, DownPcs, Entered
    <3> QED
      BY <2>5, <3>1 DEF TargetOK
  <2>8. AlsoOK(a, gst', pas', map')
    BY <1>1, <2>1, <2>5, ZenonT(60) DEF AlsoOK, AlsoPcs
  <2>9. SrcOK(a, gst', pas', map')
    BY <2>1, <2>3, <2>4, <2>5, ZenonT(60) DEF SrcOK, Copied, AlsoPcs
  <2> QED
    BY <1>6, <2>2, <2>4, <2>5, <2>6, <2>7, <2>8, <2>9 DEF PagesOK
<1>28. ASSUME NEW p \in Cpu, MapAlso(p) PROVE MapInv'
  <2> DEFINE g == at[p].also
  <2>1. PICK l \in {"set_also", "write_also"} :
           at[p].pc = "map_also" /\ Map(g, "realm") /\ Goto(p, l) /\ UNCHANGED <<gst, pas>>
    BY <1>28 DEF MapAlso
  <2>2. g \in Page /\ g \in Uses(at[p]) /\ l \in Pc /\ g # at[p].target /\ g # at[p].src
    <3>1. g \in Page
      BY <1>1, <2>1 DEF CallOK, AlsoPcs
    <3>2. g \in Uses(at[p])
      BY <1>0, <3>1 DEF Uses
    <3>3. l \in Pc
      BY <2>1 DEF Pc, AlsoPcs
    <3> QED
      BY <1>0, <1>1, <3>1, <3>2, <3>3 DEF CallOK
  <2>3. gst[g] = "Delegated" /\ pas[g] = "realm"
    BY <1>1, <2>1, <2>2 DEF AlsoOK, AlsoPcs, WorldFor
  <2>4. /\ MapTypes' /\ map'[g] = "realm"
        /\ \A h \in Page \ {g} : gst'[h] = gst[h] /\ pas'[h] = pas[h] /\ map'[h] = map[h]
        /\ gst'[g] \in MappedObjects => map'[g] = "realm"
    BY <1>3, <1>25, <2>1, <2>2, <2>3
  <2>5. PICK a \in Call : /\ Moves(p, a) /\ a.pc = l /\ a.kind = at[p].kind
                          /\ a.src = at[p].src /\ a.target = at[p].target /\ a.also = at[p].also
                          /\ Uses(a) = Uses(at[p])
    BY <1>10, <2>1, <2>2
  <2>6. CallOK(a)
    BY <1>0, <1>1, <1>3, <2>1, <2>5, ZenonT(60) DEF CallOK, SrcPcs, AlsoPcs, DownPcs, Entered
  <2>7. TargetOK(a, gst', pas', map')
    <3>1. CASE at[p].target \in Page
      <4>1. map'[at[p].target] = map[at[p].target]
        BY <2>2, <2>4, <3>1
      <4> QED
        BY <1>0, <1>1, <2>1, <2>5, <3>1, <4>1, ZenonT(60)
          DEF TargetOK, Chosen, Writable, AlsoPcs, DownPcs
    <3> QED
      BY <2>5, <3>1 DEF TargetOK
  <2>8. AlsoOK(a, gst', pas', map')
    BY <1>1, <2>1, <2>3, <2>4, <2>5, ZenonT(60) DEF AlsoOK, AlsoPcs, WorldFor
  <2>9. SrcOK(a, gst', pas', map')
    <3>1. CASE at[p].src \in Page
      <4>1. map'[at[p].src] = map[at[p].src]
        BY <2>2, <2>4, <3>1
      <4> QED
        BY <1>1, <2>1, <2>5, <3>1, <4>1, ZenonT(60) DEF SrcOK, Copied, AlsoPcs
    <3> QED
      BY <2>5, <3>1 DEF SrcOK
  <2> QED
    BY <1>6, <2>2, <2>4, <2>5, <2>6, <2>7, <2>8, <2>9 DEF PagesOK
\* A page of the call that is no object any more, or none, is unmapped.
<1>29. ASSUME NEW p \in Cpu, NEW g \in Uses(at[p]), Unmap(g), UNCHANGED <<gst, pas>>,
              gst[g] \notin MappedObjects
       PROVE  /\ MapTypes' /\ map'[g] = "none"
              /\ \A h \in Page \ {g} : gst'[h] = gst[h] /\ pas'[h] = pas[h] /\ map'[h] = map[h]
              /\ gst'[g] \in MappedObjects => map'[g] = "realm"
  <2>1. g \in Page
    BY <1>1
  <2>2. map' = [map EXCEPT ![g] = "none"] /\ tables' = tables
    BY <1>0, <1>29, <2>1, <1>UnmapWorks
  <2>3. MapTypes'
    BY <1>0, <1>29, <2>1, <2>2 DEF MapTypes, HasTable
  <2> QED
    BY <1>0, <1>29, <2>1, <2>2, <2>3 DEF MapTypes
<1>30. ASSUME NEW p \in Cpu, UnmapTarget(p) PROVE MapInv'
  <2> DEFINE g == at[p].target
  <2>1. at[p].pc = "unmap" /\ Unmap(g) /\ Return(p) /\ UNCHANGED <<gst, pas>>
    BY <1>30 DEF UnmapTarget
  <2>2. g \in Page /\ Uses(at[p]) = {g} /\ at[p].kind \in {"Delegated", "Undelegated"} \cup Objects
    <3>1. /\ g \in Page /\ at[p].kind \in {"Delegated", "Undelegated"} \cup Objects
          /\ at[p].src = None /\ at[p].also = None
      BY <1>1, <2>1, ZenonT(60) DEF CallOK, SrcPcs, Entered
    <3> QED
      BY <1>0, <3>1 DEF Uses
  <2>3. gst[g] \in {"Delegated", "Undelegated"} /\ pas[g] = WorldFor(gst[g])
    BY <1>1, <2>1, <2>2, ZenonT(60) DEF TargetOK, Chosen, WorldFor
  <2>4. /\ MapTypes'
        /\ \A h \in Page \ {g} : gst'[h] = gst[h] /\ pas'[h] = pas[h] /\ map'[h] = map[h]
        /\ gst'[g] \in MappedObjects => map'[g] = "realm"
    BY <1>3, <1>29, <2>1, <2>2, <2>3
  <2>5. pas'[g] = WorldFor(gst'[g])
    BY <2>1, <2>3
  <2> QED
    BY <1>9, <2>1, <2>2, <2>4, <2>5
<1>31. ASSUME NEW p \in Cpu, UnmapSrc(p) PROVE MapInv'
  <2> DEFINE g == at[p].src
             l == AfterCopy(at[p].kind)
  <2>1. at[p].pc = "unmap_src" /\ Unmap(g) /\ Goto(p, l) /\ UNCHANGED <<gst, pas>>
    BY <1>31 DEF UnmapSrc
  <2>2. /\ at[p].kind = "Enter" => l = "check_run"
        /\ at[p].kind \in {"RD", "Rec"} => l = "check_also"
        /\ at[p].kind \notin {"Enter", "RD", "Rec"} => l = "set"
    BY DEF AfterCopy
  <2>3. l \in {"check_run", "check_also", "set"}
    BY <2>2
  <2> HIDE DEF l
  <2>4. g \in Page /\ g \in Uses(at[p]) /\ l \in Pc /\ g # at[p].target /\ g # at[p].also
    BY <1>0, <1>1, <2>1, <2>3 DEF CallOK, Uses, Pc, SrcPcs, Entered
  <2>5. gst[g] = "Undelegated" /\ pas[g] = "ns"
    BY <1>1, <2>4 DEF SrcOK
  <2>6. /\ MapTypes' /\ map'[g] = "none"
        /\ \A h \in Page \ {g} : gst'[h] = gst[h] /\ pas'[h] = pas[h] /\ map'[h] = map[h]
        /\ gst'[g] \in MappedObjects => map'[g] = "realm"
    BY <1>3, <1>29, <2>1, <2>4, <2>5
  <2>7. PICK a \in Call : /\ Moves(p, a) /\ a.pc = l /\ a.kind = at[p].kind
                          /\ a.src = at[p].src /\ a.target = at[p].target /\ a.also = at[p].also
                          /\ Uses(a) = Uses(at[p])
    BY <1>10, <2>1, <2>4
  <2>8. CallOK(a)
    BY <1>0, <1>1, <1>3, <2>1, <2>2, <2>3, <2>7, ZenonT(60) DEF CallOK, SrcPcs, AlsoPcs, DownPcs, Entered
  <2>9. TargetOK(a, gst', pas', map')
    <3>1. CASE at[p].target \in Page
      <4>1. map'[at[p].target] = map[at[p].target] /\ at[p].kind # "Enter"
        BY <1>0, <1>1, <2>4, <2>6, <3>1 DEF CallOK
      <4>2. at[p].kind \in {"RD", "RTT", "Data", "Rec"}
        BY <1>1, <2>1, <4>1, ZenonT(60) DEF CallOK, SrcPcs
      <4>3. TargetOK(at[p], gst, pas, map) /\ gst' = gst /\ pas' = pas
        BY <1>1, <2>1
      <4>4. a.pc \notin DownPcs /\ a.pc \notin AlsoPcs /\ a.pc \notin {"map", "unmap"} \cup SrcPcs
        BY <2>3, <2>7 DEF DownPcs, AlsoPcs, SrcPcs
      <4>5. CASE at[p].kind = "Rec"
        <5>1. ~Chosen(a) /\ ~Writable(a)
          BY <2>2, <2>7, <4>4, <4>5 DEF Chosen, Writable
        <5> QED
          BY <2>7, <3>1, <4>3, <4>4, <4>5, <5>1 DEF TargetOK
      <4>6. CASE at[p].kind \in {"RD", "RTT", "Data"}
        <5>1. Chosen(at[p]) /\ Writable(at[p])
          BY <2>1, <4>6 DEF Chosen, Writable, Objects, SrcPcs
        <5> QED
          BY <2>7, <3>1, <4>1, <4>3, <4>4, <4>6, <5>1 DEF TargetOK
      <4> QED
        BY <4>2, <4>5, <4>6
    <3> QED
      BY <2>7, <3>1 DEF TargetOK
  <2>10. AlsoOK(a, gst', pas', map')
    BY <1>1, <2>1, <2>3, <2>7, ZenonT(60) DEF AlsoOK, AlsoPcs
  <2>11. SrcOK(a, gst', pas', map')
    BY <2>1, <2>3, <2>5, <2>6, <2>7, ZenonT(60) DEF SrcOK
  <2> QED
    BY <1>6, <2>4, <2>6, <2>7, <2>8, <2>9, <2>10, <2>11 DEF PagesOK
\* The handlers of gpt.rs do not copy, check or take down.
<1>32. ASSUME NEW p \in Cpu, at[p].pc \notin {"map", "set", "unmap"}
       PROVE  at[p].kind \notin {"Delegated", "Undelegated"}
  BY <1>1, <1>32 DEF CallOK
<1>33. ASSUME NEW p \in Cpu, NEW next \in Page, MapSrcUnaligned(p, next) PROVE MapInv'
  <2>1. PICK S : S = {at[p].src, next}
    OBVIOUS
  <2> DEFINE more == tables \cup {Region[g] : g \in S}
  <2>2. /\ at[p].pc = "map_src" /\ GivenSrc(p, next) /\ Return(p) /\ UNCHANGED <<gst, pas>>
        /\ Cardinality(more) <= Heap =>
              tables' = more /\ map' = [g \in Page |-> IF g \in S THEN "ns" ELSE map[g]]
    BY <1>33, <2>1 DEF MapSrcUnaligned
  <2>3. at[p].src \in Page /\ at[p].kind \notin {"Delegated", "Undelegated"}
    BY <1>1, <1>32, <2>2 DEF CallOK, SrcPcs
  <2>4. S \subseteq Page /\ at[p].src \in Uses(at[p])
    BY <1>0, <2>1, <2>3 DEF Uses
  <2>5. more \subseteq Regions
    BY <1>0, <2>4 DEF MapTypes, Regions
  <2>6. Cardinality(more) <= Heap
    BY <1>0, <1>Room, <2>5
  <2>7. /\ tables' = more /\ map' = [g \in Page |-> IF g \in S THEN "ns" ELSE map[g]]
        /\ gst' = gst /\ pas' = pas
    BY <2>2, <2>6
  <2>8. MapTypes'
    BY <1>0, <2>5, <2>7, ZenonT(60) DEF MapTypes, HasTable
  <2>9. gst[at[p].src] = "Undelegated" /\ gst[next] = "Undelegated"
    BY <1>1, <2>2, <2>3 DEF SrcOK, GivenSrc
  <2>10. \A q \in Cpu \ {p} : next \notin Uses(at[q]) /\ at[p].src \notin Uses(at[q])
    BY <1>1, <2>2, <2>4 DEF GivenSrc, Given, Uses
  <2>11. pas[next] = WorldFor(gst[next])
    <3>1. CASE next \in Uses(at[p])
      BY <1>4, <2>3, <3>1
    <3>2. CASE next \notin Uses(at[p])
      BY <2>10, <3>2 DEF MapInv, PageOK
    <3> QED
      BY <3>1, <3>2
  <2>12. \A h \in S \cup Uses(at[p]) : pas'[h] = WorldFor(gst'[h])
    BY <1>4, <2>1, <2>3, <2>4, <2>7, <2>11
  <2>13. /\ \A h \in Page \ S : gst'[h] = gst[h] /\ pas'[h] = pas[h] /\ map'[h] = map[h]
         /\ \A h \in S : gst'[h] \in MappedObjects => map'[h] = "realm"
         /\ \A q \in Cpu \ {p} : (S \cup Uses(AtHost)) \cap Uses(at[q]) = {}
    BY <1>3, <1>7, <2>1, <2>7, <2>9, <2>10
  <2>14. Moves(p, AtHost)
    BY <2>2 DEF Return, Moves
  <2> QED
    BY <1>7, <2>4, <2>8, <2>12, <2>13, <2>14, LocalStep, ZenonT(60)
<1>34. ASSUME NEW p \in Cpu, CheckSrc(p) \/ CopySrc(p) PROVE MapInv'
  <2>1. UNCHANGED <<gst, pas, map, tables>> /\ at[p].pc \in {"check_src", "copy_src"}
    BY <1>34 DEF CheckSrc, CopySrc
  <2>2. CASE Return(p)
    BY <1>8, <1>32, <2>1, <2>2
  <2>3. CASE at[p].pc = "check_src" /\ Goto(p, "copy_src")
    BY <1>11, <2>1, <2>3 DEF Pc, SrcPcs
  <2>4. CASE at[p].pc = "copy_src" /\ Goto(p, "unmap_src")
    BY <1>11, <2>1, <2>4 DEF Pc, SrcPcs
  <2> QED
    BY <1>34, <2>2, <2>3, <2>4 DEF CheckSrc, CopySrc
<1>35. ASSUME NEW p \in Cpu, LockTarget(p) \/ CheckAlso(p) PROVE MapInv'
  <2>1. UNCHANGED <<gst, pas, map, tables>> /\ at[p].pc \in {"lock", "check_also"}
    BY <1>35 DEF LockTarget, CheckAlso
  <2>2. CASE Return(p)
    BY <1>8, <1>32, <2>1, <2>2
  <2>3. CASE at[p].pc = "lock" /\ gst[at[p].target] = "Delegated" /\ ~Return(p)
    <3>1. Goto(p, IF at[p].kind = "Rec" THEN "map" ELSE "set")
      BY <1>35, <2>3 DEF LockTarget, CheckAlso
    <3>2. CASE at[p].kind = "Rec"
      BY <1>13, <2>1, <2>3, <3>1, <3>2 DEF Pc
    <3>3. CASE at[p].kind # "Rec"
      BY <1>13, <2>1, <2>3, <3>1, <3>3 DEF Pc
    <3> QED
      BY <3>2, <3>3
  <2>4. CASE at[p].pc = "check_also" /\ gst[at[p].also] = "Delegated" /\ ~Return(p)
    <3>1. Goto(p, IF at[p].kind = "Rec" THEN "lock" ELSE "map_also")
      BY <1>35, <2>4 DEF LockTarget, CheckAlso
    <3>2. CASE at[p].kind = "Rec"
      BY <1>14, <2>1, <2>4, <3>1, <3>2 DEF Pc
    <3>3. CASE at[p].kind # "Rec"
      BY <1>14, <2>1, <2>4, <3>1, <3>3 DEF Pc, AlsoPcs
    <3> QED
      BY <3>2, <3>3
  <2> QED
    BY <1>35, <2>2, <2>3, <2>4 DEF LockTarget, CheckAlso
<1>36. ASSUME NEW p \in Cpu, WriteAlso(p) \/ NoOthers(p) \/ FromNs(p) PROVE MapInv'
  <2>1. CASE WriteAlso(p)
    BY <1>15, <2>1 DEF WriteAlso, Pc, AlsoPcs
  <2>2. CASE NoOthers(p)
    BY <1>15, <2>2 DEF NoOthers, Pc, DownPcs
  <2>3. CASE FromNs(p)
    BY <1>15, <2>3 DEF FromNs, Pc
  <2> QED
    BY <1>36, <2>1, <2>2, <2>3
<1>37. ASSUME NEW p \in Cpu, CreateFails(p) \/ ReadMetadata(p) \/ EnterRefused(p) PROVE MapInv'
  <2>1. Return(p) /\ UNCHANGED <<gst, pas, map, tables>>
    BY <1>37 DEF CreateFails, ReadMetadata, EnterRefused
  <2>2. at[p].kind \notin {"Delegated", "Undelegated"}
    BY <1>32, <1>37 DEF CreateFails, ReadMetadata, EnterRefused
  <2> QED
    BY <1>8, <2>1, <2>2
\* The state of one granule changes, and nothing else.
<1>38. ASSUME NEW g \in Page, NEW state \in {"Undelegated", "Delegated"} \cup Objects,
              gst' = [gst EXCEPT ![g] = state], UNCHANGED <<pas, map, tables>>
       PROVE  /\ MapTypes' /\ gst'[g] = state
              /\ \A h \in Page \ {g} : gst'[h] = gst[h] /\ pas'[h] = pas[h] /\ map'[h] = map[h]
  BY <1>0, <1>38 DEF MapTypes, HasTable
<1>39. ASSUME NEW p \in Cpu, SetGranule(p) PROVE MapInv'
  <2> DEFINE g == at[p].target
             k == at[p].kind
  <2>1. /\ at[p].pc = "set" /\ gst' = [gst EXCEPT ![g] = k] /\ UNCHANGED <<pas, map, tables>>
        /\ k \in Objects => Return(p)
        /\ k \notin Objects => Goto(p, "unmap")
    BY <1>39 DEF SetGranule
  <2>2. /\ g \in Page /\ k \in {"Delegated", "Undelegated"} \cup Objects
    BY <1>1, <2>1, ZenonT(60) DEF CallOK, SrcPcs, Entered
  <2>3. g \in Uses(at[p])
    BY <1>0, <2>2 DEF Uses
  <2>4. /\ MapTypes' /\ gst'[g] = k
        /\ \A h \in Page \ {g} : gst'[h] = gst[h] /\ pas'[h] = pas[h] /\ map'[h] = map[h]
    BY <1>38, <2>1, <2>2
  <2>5. CASE k \in Objects
    <3>1. Return(p) /\ Chosen(at[p]) /\ (k # "Metadata" => Writable(at[p]))
      BY <1>3, <2>1, <2>5 DEF Chosen, Writable
    <3>2. gst[g] = "Delegated" /\ pas[g] = WorldFor(gst[g]) /\ (k # "Metadata" => map[g] = WorldOf(k))
      BY <1>1, <2>2, <2>5, <3>1 DEF TargetOK
    <3>3. pas'[g] = WorldFor(gst'[g]) /\ (gst'[g] \in MappedObjects => map'[g] = "realm")
      BY <1>3, <2>1, <2>4, <2>5, <3>2 DEF WorldFor, WorldOf, MappedObjects
    <3> QED
      BY <1>3, <1>9, <2>3, <2>4, <2>5, <3>1, <3>3
  <2>6. CASE k \in {"Delegated", "Undelegated"}
    <3>1. Goto(p, "unmap") /\ "unmap" \in Pc
      BY <1>3, <2>1, <2>6 DEF Pc
    <3>2. PICK a \in Call : /\ Moves(p, a) /\ a.pc = "unmap" /\ a.kind = at[p].kind
                            /\ a.src = at[p].src /\ a.target = at[p].target /\ a.also = at[p].also
                            /\ Uses(a) = Uses(at[p])
      BY <1>10, <3>1
    <3>3. at[p].src = None /\ at[p].also = None
      BY <1>1, <2>6 DEF CallOK
    <3>4. CallOK(a)
      BY <1>0, <1>3, <2>2, <2>6, <3>2, <3>3, ZenonT(60) DEF CallOK, SrcPcs, AlsoPcs, DownPcs, Entered
    <3>5. PagesOK(a, gst', pas', map')
      <4>1. /\ k = "Delegated" => pas[g] = "realm"
            /\ k = "Undelegated" => pas[g] = "ns"
        BY <1>1, <2>2 DEF TargetOK
      <4>2. TargetOK(a, gst', pas', map')
        BY <1>3, <2>1, <2>4, <2>6, <3>2, <4>1, ZenonT(60) DEF TargetOK, Chosen, Writable, AlsoPcs, DownPcs, SrcPcs
      <4> QED
        BY <1>0, <3>2, <3>3, <4>2 DEF PagesOK, AlsoOK, SrcOK
    <3> QED
      BY <1>3, <1>6, <2>3, <2>4, <2>6, <3>2, <3>4, <3>5
  <2> QED
    BY <2>2, <2>5, <2>6
<1>40. ASSUME NEW p \in Cpu, SetAlso(p) PROVE MapInv'
  <2> DEFINE g == at[p].also
             t == at[p].target
  <2>1. at[p].pc = "set_also" /\ pas' = pas
    BY <1>40 DEF SetAlso
  <2>2. g \in Page /\ t \in Page /\ at[p].kind \in {"RD", "Rec"} /\ g # t /\ at[p].src # g
    BY <1>0, <1>1, <2>1, ZenonT(60) DEF CallOK, AlsoPcs
  <2>3. g \in Uses(at[p]) /\ t \in Uses(at[p]) /\ at[p].kind \in Objects
    BY <1>0, <2>2 DEF Uses, Objects
  <2>4. Chosen(at[p]) /\ Writable(at[p])
    BY <2>1, <2>2, <2>3 DEF Chosen, Writable, AlsoPcs
  <2>5. /\ gst[t] = "Delegated" /\ pas[t] = "realm" /\ map[t] = "realm"
        /\ gst[g] = "Delegated" /\ pas[g] = "realm" /\ map[g] = "realm"
    <3>1. gst[t] = "Delegated" /\ pas[t] = WorldFor(gst[t]) /\ map[t] = WorldOf(at[p].kind)
      BY <1>1, <2>2, <2>3, <2>4 DEF TargetOK
    <3>2. gst[g] = "Delegated" /\ pas[g] = WorldFor(gst[g]) /\ map[g] = "realm"
      BY <1>1, <2>1, <2>2 DEF AlsoOK, AlsoPcs
    <3> QED
      BY <2>2, <3>1, <3>2 DEF WorldFor, WorldOf
  <2>6. PICK state \in {"RecAux", "RTT"} :
           gst' = [gst EXCEPT ![g] = state] /\ Goto(p, "set") /\ UNCHANGED <<pas, map, tables>>
    BY <1>40, <2>1, <2>5 DEF SetAlso
  <2>7. state \in Objects /\ "set" \in Pc
    BY <2>6 DEF Objects, Pc
  <2>8. /\ MapTypes' /\ gst'[g] = state
        /\ \A h \in Page \ {g} : gst'[h] = gst[h] /\ pas'[h] = pas[h] /\ map'[h] = map[h]
    BY <1>38, <2>2, <2>6, <2>7
  <2>9. PICK a \in Call : /\ Moves(p, a) /\ a.pc = "set" /\ a.kind = at[p].kind
                          /\ a.src = at[p].src /\ a.target = at[p].target /\ a.also = at[p].also
                          /\ Uses(a) = Uses(at[p])
    BY <1>10, <2>6, <2>7
  <2>10. CallOK(a)
    BY <1>0, <1>1, <1>3, <2>1, <2>2, <2>9, ZenonT(60) DEF CallOK, SrcPcs, AlsoPcs, DownPcs, Entered
  <2>11. TargetOK(a, gst', pas', map')
    <3>1. gst'[t] = "Delegated" /\ pas'[t] = "realm" /\ map'[t] = "realm"
      BY <2>2, <2>5, <2>8
    <3> QED
      BY <1>3, <2>2, <2>3, <2>9, <3>1 DEF TargetOK, WorldFor, WorldOf, DownPcs
  <2>12. AlsoOK(a, gst', pas', map')
    BY <1>3, <2>2, <2>5, <2>6, <2>7, <2>8, <2>9 DEF AlsoOK, AlsoPcs, WorldFor
  <2>13. SrcOK(a, gst', pas', map')
    <3>1. CASE at[p].src \in Page
      <4>1. gst'[at[p].src] = gst[at[p].src] /\ map'[at[p].src] = map[at[p].src]
        BY <2>2, <2>8, <3>1
      <4>2. Copied(at[p])
        BY <2>1, <2>2 DEF Copied, AlsoPcs
      <4> QED
        BY <1>1, <2>1, <2>9, <3>1, <4>1, <4>2 DEF SrcOK
    <3> QED
      BY <2>9, <3>1 DEF SrcOK
  <2>14. gst'[g] \in MappedObjects => map'[g] = "realm"
    BY <2>5, <2>6
  <2> QED
    BY <1>6, <2>3, <2>8, <2>9, <2>10, <2>11, <2>12, <2>13, <2>14 DEF PagesOK
<1>41. ASSUME NEW p \in Cpu, NEW g \in Page, NextOther(p, g) PROVE MapInv'
  <2>1. /\ at[p].pc = "others" /\ Given(p, g) /\ gst[g] \in OthersOf(at[p].kind)
        /\ at' = [at EXCEPT ![p] = [@ EXCEPT !.pc = "zero_also", !.also = g]]
        /\ UNCHANGED <<gst, pas, map, tables>>
    BY <1>41 DEF NextOther
  <2>2. /\ at[p].kind \in {"RD", "RTT", "Data", "Rec"} /\ at[p].src = None /\ at[p].also = None
        /\ at[p].target \in Page
    BY <1>1, <2>1, ZenonT(60) DEF CallOK, DownPcs, Entered
  <2>3. gst[at[p].target] = at[p].kind
    BY <1>1, <2>1, <2>2 DEF TargetOK, DownPcs
  <2>4. g # at[p].target /\ gst[g] \in Objects
    BY <2>1, <2>2, <2>3 DEF OthersOf, Objects
  <2>5. "zero_also" \in Pc /\ g \in Page \cup {None}
    BY DEF Pc, DownPcs
  <2>6. PICK a \in Call : /\ Moves(p, a) /\ a.pc = "zero_also" /\ a.kind = at[p].kind /\ a.also = g
                          /\ a.src = at[p].src /\ a.target = at[p].target
    <3>1. PICK b : b = [at[p] EXCEPT !.pc = "zero_also", !.also = g]
      OBVIOUS
    <3>2. /\ b \in Call /\ b.pc = "zero_also" /\ b.kind = at[p].kind /\ b.also = g
          /\ b.src = at[p].src /\ b.target = at[p].target
      BY <1>1, <2>5, <3>1 DEF Call
    <3> QED
      BY <2>1, <3>1, <3>2 DEF Moves
  <2>7. Uses(at[p]) = {at[p].target} /\ Uses(a) = {at[p].target, g}
    BY <1>0, <2>2, <2>6 DEF Uses
  <2>8. pas[g] = WorldFor(gst[g]) /\ \A q \in Cpu \ {p} : g \notin Uses(at[q])
    <3>1. \A q \in Cpu \ {p} : g \notin Uses(at[q])
      BY <2>1 DEF Given, Uses
    <3>2. \A q \in Cpu : g \notin Uses(at[q])
      BY <2>4, <2>7, <3>1
    <3> QED
      BY <3>1, <3>2 DEF MapInv, PageOK
  <2>9. CallOK(a)
    BY <1>0, <1>1, <2>1, <2>2, <2>4, <2>6, ZenonT(60) DEF CallOK, SrcPcs, AlsoPcs, DownPcs, Entered
  <2>10. TargetOK(a, gst, pas, map)
    <3>1. at[p].kind \notin {"Delegated", "Undelegated"} /\ ~Chosen(a) /\ ~Writable(a)
      BY <2>2, <2>6 DEF Chosen, Writable, AlsoPcs, SrcPcs
    <3>2. at[p].kind \in Objects => pas[at[p].target] = WorldFor(gst[at[p].target])
      BY <1>1, <2>2 DEF TargetOK
    <3> QED
      BY <2>3, <2>6, <3>1, <3>2 DEF TargetOK
  <2>11. AlsoOK(a, gst, pas, map)
    BY <2>4, <2>6, <2>8 DEF AlsoOK, AlsoPcs
  <2>12. SrcOK(a, gst, pas, map)
    BY <1>0, <2>2, <2>6 DEF SrcOK
  <2>13. ASSUME NEW q \in Cpu \ {p} PROVE Uses(a) \cap Uses(at[q]) = {}
    <3>1. Uses(at[p]) \cap Uses(at[q]) = {}
      BY <1>1
    <3>2. at[p].target \notin Uses(at[q]) /\ g \notin Uses(at[q])
      BY <2>7, <2>8, <3>1
    <3> QED
      BY <2>7, <3>2
  <2> QED
    BY <1>5, <2>1, <2>6, <2>7, <2>9, <2>10, <2>11, <2>12, <2>13 DEF PagesOK
\* The handler has done with the further granule.
<1>42. ASSUME NEW p \in Cpu, at[p].pc \in {"zero_also", "unmap_also"}, MapTypes', pas' = pas,
              at' = [at EXCEPT ![p] = [@ EXCEPT !.pc = "others", !.also = None]],
              gst'[at[p].also] = "Delegated", pas[at[p].also] = "realm",
              \A h \in Page \ {at[p].also} : gst'[h] = gst[h] /\ map'[h] = map[h]
       PROVE  MapInv'
  <2>1. /\ at[p].kind \in {"RD", "RTT", "Data", "Rec"} /\ at[p].src = None /\ at[p].also \in Page
        /\ at[p].target \in Page /\ at[p].target # at[p].also
    BY <1>0, <1>1, <1>42, ZenonT(60) DEF CallOK, DownPcs, Entered
  <2>2. "others" \in Pc /\ None \in Page \cup {None}
    BY DEF Pc, DownPcs
  <2>3. PICK a \in Call : /\ Moves(p, a) /\ a.pc = "others" /\ a.kind = at[p].kind /\ a.also = None
                          /\ a.src = at[p].src /\ a.target = at[p].target
    <3>1. PICK b : b = [at[p] EXCEPT !.pc = "others", !.also = None]
      OBVIOUS
    <3>2. /\ b \in Call /\ b.pc = "others" /\ b.kind = at[p].kind /\ b.also = None
          /\ b.src = at[p].src /\ b.target = at[p].target
      BY <1>1, <2>2, <3>1 DEF Call
    <3> QED
      BY <1>42, <3>1, <3>2 DEF Moves
  <2>4. Uses(at[p]) = {at[p].target, at[p].also} /\ Uses(a) = {at[p].target}
    BY <1>0, <2>1, <2>3 DEF Uses
  <2>5. CallOK(a)
    BY <1>0, <2>1, <2>3, ZenonT(60) DEF CallOK, SrcPcs, AlsoPcs, DownPcs, Entered, Objects
  <2>6. TargetOK(a, gst', pas', map')
    <3>1. at[p].kind \notin {"Delegated", "Undelegated"} /\ ~Chosen(a) /\ ~Writable(a)
      BY <2>1, <2>3 DEF Chosen, Writable, AlsoPcs, SrcPcs
    <3>2. /\ at[p].kind \in Objects => pas[at[p].target] = WorldFor(gst[at[p].target])
          /\ gst[at[p].target] = at[p].kind
      BY <1>1, <1>42, <2>1 DEF TargetOK, DownPcs
    <3> QED
      BY <1>42, <2>1, <2>3, <3>1, <3>2 DEF TargetOK
  <2>7. PagesOK(a, gst', pas', map')
    BY <1>0, <2>1, <2>3, <2>6 DEF PagesOK, AlsoOK, SrcOK
  <2>8. pas'[at[p].also] = WorldFor(gst'[at[p].also])
    BY <1>42 DEF WorldFor
  <2>9. /\ \A h \in Uses(at[p]) \ Uses(a) : pas'[h] = WorldFor(gst'[h])
        /\ Uses(a) \subseteq Uses(at[p]) /\ at[p].also \in Uses(at[p])
        /\ gst'[at[p].also] \in MappedObjects => map'[at[p].also] = "realm"
        /\ \A h \in Page \ {at[p].also} : gst'[h] = gst[h] /\ pas'[h] = pas[h] /\ map'[h] = map[h]
    BY <1>3, <1>42, <2>4, <2>8
  <2> QED
    BY <1>6, <1>42, <2>3, <2>5, <2>7, <2>9
<1>43. ASSUME NEW p \in Cpu, ZeroAlso(p) PROVE MapInv'
  <2> DEFINE g == at[p].also
  <2>1. /\ at[p].pc = "zero_also" /\ gst' = [gst EXCEPT ![g] = "Delegated"] /\ UNCHANGED <<pas, map, tables>>
        /\ \/ Goto(p, "unmap_also")
           \/ at' = [at EXCEPT ![p] = [@ EXCEPT !.pc = "others", !.also = None]]
    BY <1>43 DEF ZeroAlso
  <2>2. /\ at[p].kind \in {"RD", "RTT", "Data", "Rec"} /\ at[p].src = None /\ g \in Page
        /\ at[p].target \in Page /\ at[p].target # g
    BY <1>0, <1>1, <2>1, ZenonT(60) DEF CallOK, DownPcs, Entered
  <2>3. gst[g] \in Objects /\ pas[g] = "realm" /\ g \in Uses(at[p])
    <3>1. g \in Uses(at[p])
      BY <1>0, <2>2 DEF Uses
    <3>2. gst[g] \in Objects
      BY <1>1, <2>1, <2>2 DEF AlsoOK
    <3>3. pas[g] = WorldFor(gst[g])
      BY <1>1, <2>2 DEF AlsoOK
    <3> QED
      BY <1>3, <3>1, <3>2, <3>3 DEF WorldFor
  <2>4. /\ MapTypes' /\ gst'[g] = "Delegated"
        /\ \A h \in Page \ {g} : gst'[h] = gst[h] /\ pas'[h] = pas[h] /\ map'[h] = map[h]
    BY <1>38, <2>1, <2>2
  <2>5. CASE at' = [at EXCEPT ![p] = [@ EXCEPT !.pc = "others", !.also = None]]
    BY <1>42, <2>1, <2>3, <2>4, <2>5
  <2>6. CASE Goto(p, "unmap_also")
    <3>1. "unmap_also" \in Pc
      BY DEF Pc, DownPcs
    <3>2. PICK a \in Call : /\ Moves(p, a) /\ a.pc = "unmap_also" /\ a.kind = at[p].kind
                            /\ a.src = at[p].src /\ a.target = at[p].target /\ a.also = at[p].also
                            /\ Uses(a) = Uses(at[p])
      BY <1>10, <2>6, <3>1
    <3>3. CallOK(a)
      BY <1>0, <2>2, <3>2, ZenonT(60) DEF CallOK, SrcPcs, AlsoPcs, DownPcs, Entered, Objects
    <3>4. TargetOK(a, gst', pas', map')
      <4>1. at[p].kind \notin {"Delegated", "Undelegated"} /\ ~Chosen(a) /\ ~Writable(a)
        BY <2>2, <3>2 DEF Chosen, Writable, AlsoPcs, SrcPcs
      <4>2. /\ at[p].kind \in Objects => pas[at[p].target] = WorldFor(gst[at[p].target])
            /\ gst[at[p].target] = at[p].kind
        BY <1>1, <2>1, <2>2 DEF TargetOK, DownPcs
      <4> QED
        BY <2>2, <2>4, <3>2, <4>1, <4>2, ZenonT(60) DEF TargetOK
    <3>5. AlsoOK(a, gst', pas', map')
      BY <2>1, <2>3, <2>4, <3>2 DEF AlsoOK, AlsoPcs, WorldFor
    <3>6. SrcOK(a, gst', pas', map')
      BY <1>0, <2>2, <3>2 DEF SrcOK
    <3> QED
      BY <1>3, <1>6, <2>3, <2>4, <3>2, <3>3, <3>4, <3>5, <3>6 DEF PagesOK
  <2> QED
    BY <2>1, <2>5, <2>6
<1>44. ASSUME NEW p \in Cpu, UnmapAlso(p) PROVE MapInv'
  <2> DEFINE g == at[p].also
  <2>1. /\ at[p].pc = "unmap_also" /\ Unmap(g) /\ UNCHANGED <<gst, pas>>
        /\ at' = [at EXCEPT ![p] = [@ EXCEPT !.pc = "others", !.also = None]]
    BY <1>44 DEF UnmapAlso
  <2>2. g \in Page /\ g \in Uses(at[p])
    BY <1>0, <1>1, <2>1 DEF CallOK, Uses
  <2>3. gst[g] = "Delegated" /\ pas[g] = "realm"
    BY <1>1, <2>1, <2>2 DEF AlsoOK, WorldFor
  <2>4. /\ MapTypes'
        /\ \A h \in Page \ {g} : gst'[h] = gst[h] /\ pas'[h] = pas[h] /\ map'[h] = map[h]
    BY <1>3, <1>29, <2>1, <2>2, <2>3, ZenonT(60)
  <2> QED
    BY <1>42, <2>1, <2>3, <2>4
<1>45. ASSUME NEW p \in Cpu, ZeroObject(p) PROVE MapInv'
  <2> DEFINE g == at[p].target
  <2>1. /\ at[p].pc = "zero" /\ gst' = [gst EXCEPT ![g] = "Delegated"] /\ UNCHANGED <<pas, map, tables>>
        /\ Return(p) \/ Goto(p, "unmap")
    BY <1>45 DEF ZeroObject
  <2>2. /\ at[p].kind \in {"RD", "RTT", "Data", "Rec"} /\ at[p].src = None /\ at[p].also = None
        /\ g \in Page
    BY <1>1, <2>1, ZenonT(60) DEF CallOK, DownPcs, Entered
  <2>3. at[p].kind \in Objects /\ g \in Uses(at[p]) /\ at[p].kind \notin {"Delegated", "Undelegated", "none", "Enter"}
    BY <1>0, <2>2 DEF Objects, Uses
  <2>4. gst[g] = at[p].kind /\ pas[g] = "realm"
    BY <1>1, <1>3, <2>1, <2>2, <2>3 DEF TargetOK, DownPcs, WorldFor
  <2>5. /\ MapTypes' /\ gst'[g] = "Delegated"
        /\ \A h \in Page \ {g} : gst'[h] = gst[h] /\ pas'[h] = pas[h] /\ map'[h] = map[h]
    BY <1>38, <2>1, <2>2
  <2>6. pas'[g] = WorldFor(gst'[g])
    BY <2>1, <2>4, <2>5 DEF WorldFor
  <2>7. CASE Return(p)
    BY <1>3, <1>9, <2>3, <2>5, <2>6, <2>7
  <2>8. CASE Goto(p, "unmap")
    <3>1. "unmap" \in Pc
      BY DEF Pc
    <3>2. PICK a \in Call : /\ Moves(p, a) /\ a.pc = "unmap" /\ a.kind = at[p].kind
                            /\ a.src = at[p].src /\ a.target = at[p].target /\ a.also = at[p].also
                            /\ Uses(a) = Uses(at[p])
      BY <1>10, <2>8, <3>1
    <3>3. CallOK(a)
      BY <1>0, <2>2, <3>2, ZenonT(60) DEF CallOK, SrcPcs, AlsoPcs, DownPcs, Entered, Objects
    <3>4. TargetOK(a, gst', pas', map')
      <4>1. ~Writable(a) /\ a.pc \notin DownPcs
        BY <3>2 DEF Writable, AlsoPcs, SrcPcs, DownPcs
      <4> QED
        BY <2>3, <2>5, <2>6, <3>2, <4>1 DEF TargetOK
    <3>5. AlsoOK(a, gst', pas', map') /\ SrcOK(a, gst', pas', map')
      BY <1>0, <2>2, <3>2 DEF AlsoOK, SrcOK
    <3> QED
      BY <1>3, <1>6, <2>3, <2>5, <3>2, <3>3, <3>4, <3>5 DEF PagesOK
  <2> QED
    BY <2>1, <2>7, <2>8
\* REC_ENTER after the copy of the run page.
<1>46. ASSUME NEW p \in Cpu, UnmapOut(p) PROVE MapInv'
  <2> DEFINE g == at[p].src
  <2>1. at[p].pc = "unmap_out" /\ Unmap(g) /\ Return(p) /\ UNCHANGED <<gst, pas>>
    BY <1>46 DEF UnmapOut
  <2>2. g \in Page /\ at[p].kind \notin {"Delegated", "Undelegated"}
    BY <1>1, <1>32, <2>1 DEF CallOK, Entered
  <2>3. g \in Uses(at[p]) /\ gst[g] = "Undelegated" /\ pas[g] = "ns"
    BY <1>0, <1>1, <2>2 DEF Uses, SrcOK
  <2>4. /\ MapTypes'
        /\ \A h \in Page \ {g} : gst'[h] = gst[h] /\ pas'[h] = pas[h] /\ map'[h] = map[h]
        /\ gst'[g] \in MappedObjects => map'[g] = "realm"
    BY <1>3, <1>29, <2>1, <2>3
  <2>5. pas'[g] = WorldFor(gst'[g])
    BY <2>1, <2>3 DEF WorldFor
  <2> QED
    BY <1>9, <2>1, <2>2, <2>3, <2>4, <2>5
<1>47. ASSUME NEW p \in Cpu, CheckOut(p) \/ CopyOut(p) PROVE MapInv'
  <2>1. UNCHANGED <<gst, pas, map, tables>> /\ at[p].pc \in {"check_out", "copy_out"}
    BY <1>47 DEF CheckOut, CopyOut
  <2>2. at[p].src \in Page
    BY <1>1, <2>1 DEF CallOK, Entered
  <2>3. gst[at[p].src] = "Undelegated"
    BY <1>1, <2>2 DEF SrcOK
  <2>4. \/ at[p].pc = "check_out" /\ Goto(p, "copy_out")
        \/ at[p].pc = "copy_out" /\ Goto(p, "unmap_out")
    BY <1>47, <2>3 DEF CheckOut, CopyOut
  <2>5. "copy_out" \in Pc /\ "unmap_out" \in Pc
    BY DEF Pc, Entered
  <2> QED
    BY <1>12, <2>1, <2>4, <2>5
<1>48. ASSUME NEW p \in Cpu, (\E lrs \in HostLrs : EnterAccepted(p, lrs)) \/ RunPrepare(p) \/ RealmExit(p)
       PROVE  MapInv'
  <2>1. PICK l \in {"prepare", "realm", "map_out"} :
           /\ Goto(p, l) /\ UNCHANGED <<gst, pas, map, tables>>
           /\ \/ at[p].pc = "check_run" /\ l = "prepare"
              \/ at[p].pc = "prepare" /\ l = "realm"
              \/ at[p].pc = "realm" /\ l \in {"prepare", "map_out"}
    BY <1>48 DEF EnterAccepted, RunPrepare, RealmExit
  <2>2. l \in Pc
    BY <2>1 DEF Pc, Entered
  <2> QED
    BY <1>12, <2>1, <2>2
<1>49. ASSUME UNCHANGED mapVars PROVE MapInv'
  BY <1>49 DEF MapInv, MapTypes, PageOK, mapVars, HasTable
<1>50. ASSUME NEW p \in Cpu, NEW g \in Page, Begin(p, g) PROVE MapInv'
  <2>1. ASSUME NEW kind \in Kinds, NEW src \in Page \cup {None}, NEW also \in Page \cup {None},
               CreateBegin(p, g, kind, src, also)
        PROVE  MapInv'
    BY <1>21, <2>1
  <2>2. ASSUME NEW src \in Page, NEW also \in Page, RecCreateBegin(p, g, src, also) PROVE MapInv'
    BY <1>22, <2>2
  <2>3. ASSUME NEW src \in Page, SetMetadataBegin(p, g, src) PROVE MapInv'
    BY <1>23, <2>3
  <2> QED
    BY <1>18, <1>19, <1>50, <2>1, <2>2, <2>3 DEF Begin
<1>51. ASSUME NEW p \in Cpu, MapStep(p) PROVE MapInv'
  BY <1>26, <1>27, <1>28, <1>30, <1>31, <1>33, <1>34, <1>35, <1>36, <1>37, <1>39, <1>40, <1>41,
     <1>43, <1>44, <1>45, <1>50, <1>51, ZenonT(60) DEF MapStep
<1>52. ASSUME NEW p \in Cpu, EnterStep(p) PROVE MapInv'
  <2>1. CASE RealmRuns(p)
    BY <1>49, <2>1 DEF RealmRuns
  <2> QED
    BY <1>24, <1>27, <1>37, <1>46, <1>47, <1>48, <1>52, <2>1, ZenonT(60) DEF EnterStep
<1>53. CASE UNCHANGED vars
  BY <1>49, <1>53 DEF vars
<1> QED
  BY <1>51, <1>52, <1>53 DEF Next

LEMMA MapInvariant == ASSUME ~Shared, EnoughTables PROVE Spec => []MapInv
<1>1. Init => MapInv
  <2> USE Zenon
  <2> SUFFICES ASSUME Init PROVE MapInv
    OBVIOUS
  <2>1. /\ AtHost \in Call /\ AtHost.pc = "host" /\ AtHost.kind = "none" /\ AtHost.src = None
        /\ AtHost.target = None /\ AtHost.also = None /\ None \notin Page
    BY MapAssumption DEF AtHost, Call, Pc, Kind
  <2>2. CallOK(AtHost) /\ Uses(AtHost) = {}
    BY <2>1, ZenonT(60) DEF CallOK, Uses, SrcPcs, AlsoPcs, DownPcs, Entered
  <2>3. PagesOK(AtHost, gst, pas, map)
    BY <2>1 DEF PagesOK, TargetOK, AlsoOK, SrcOK
  <2>4. \A p \in Cpu : at[p] = AtHost
    BY DEF Init, RmmMapInit
  <2>5. MapTypes /\ at \in [Cpu -> Call]
    BY <2>1 DEF Init, RmmMapInit, NewEntry, MapTypes, HasTable
  <2>6. \A g \in Page : PageOK(g)
    BY DEF Init, RmmMapInit, PageOK, WorldFor, MappedObjects, Objects
  <2> QED
    BY <2>2, <2>3, <2>4, <2>5, <2>6 DEF MapInv
<1>2. MapInv /\ [Next]_vars => MapInv'
  BY MapNext, Zenon
<1> QED
  BY <1>1, <1>2, PTL DEF Spec

\* No access of a handler to memory it has mapped aborts, and objects stay mapped, when
\* the host gives a page to one call at a time and the allocator does not run out of
\* tables.
THEOREM AccessMappedCorrect == ASSUME ~Shared, EnoughTables PROVE Spec => []AccessMapped
<1>1. MapInv => AccessMapped
  <2> USE Zenon
  <2> SUFFICES ASSUME MapInv PROVE AccessMapped
    OBVIOUS
  <2>0. None \notin Page /\ "Delegated" \notin Objects /\ "Undelegated" \notin Objects
    BY MapAssumption DEF Objects
  <2>1. \A g \in Page : gst[g] \in MappedObjects => map[g] = "realm"
    BY DEF MapInv, PageOK
  <2>2. ASSUME NEW p \in Cpu PROVE CallOK(at[p]) /\ TargetOK(at[p], gst, pas, map)
                                   /\ AlsoOK(at[p], gst, pas, map) /\ SrcOK(at[p], gst, pas, map)
    BY DEF MapInv, PagesOK
  <2>3. ASSUME NEW p \in Cpu, at[p].kind # "Metadata", at[p].pc \in {"write_also", "set_also", "set"}
        PROVE  Accessible(at[p].target)
    <3>1. at[p].target \in Page /\ at[p].kind \in {"Delegated", "Undelegated"} \cup Objects
      BY <2>2, <2>3, ZenonT(60) DEF CallOK, SrcPcs, Entered
    <3>2. Writable(at[p]) /\ (at[p].kind \in Objects => Chosen(at[p]))
      BY <2>3, <3>1 DEF Writable, Chosen, AlsoPcs, Objects
    <3> QED
      BY <2>0, <2>2, <2>3, <3>1, <3>2, ZenonT(60) DEF TargetOK, Accessible, WorldOf, WorldFor
  <2>4. ASSUME NEW p \in Cpu, at[p].pc = "zero" PROVE Accessible(at[p].target)
    <3>1. at[p].target \in Page /\ at[p].kind \in {"RD", "RTT", "Data", "Rec"}
      BY <2>2, <2>4, ZenonT(60) DEF CallOK, DownPcs, SrcPcs, Entered
    <3>2. at[p].kind \in MappedObjects /\ at[p].kind \in Objects
      BY <3>1 DEF MappedObjects, Objects
    <3> QED
      BY <2>0, <2>1, <2>2, <2>4, <3>1, <3>2 DEF TargetOK, Accessible, WorldFor, DownPcs
  <2>5. ASSUME NEW p \in Cpu, at[p].pc = "write_also" PROVE Accessible(at[p].also)
    BY <2>2, <2>5 DEF CallOK, AlsoOK, AlsoPcs, Accessible, WorldFor
  <2>6. ASSUME NEW p \in Cpu, at[p].pc = "zero_also", gst[at[p].also] # "Metadata"
        PROVE  Accessible(at[p].also)
    <3>1. at[p].also \in Page
      BY <2>2, <2>6 DEF CallOK
    <3>2. gst[at[p].also] \in Objects /\ pas[at[p].also] = WorldFor(gst[at[p].also])
      BY <2>2, <2>6, <3>1 DEF AlsoOK
    <3> QED
      BY <2>0, <2>1, <2>6, <3>1, <3>2 DEF Accessible, WorldFor, MappedObjects
  <2>7. ASSUME NEW p \in Cpu, at[p].pc \in {"copy_src", "copy_out"} PROVE Accessible(at[p].src)
    BY <2>2, <2>7 DEF CallOK, SrcOK, Accessible, SrcPcs, Entered
  <2> QED
    BY <2>1, <2>3, <2>4, <2>5, <2>6, <2>7, ZenonT(60) DEF AccessMapped
<1> QED
  BY <1>1, MapInvariant, PTL

\* A call whose page of the host has passed the check returns with the page unmapped,
\* under the same conditions.
THEOREM HostPageReturnedCorrect == ASSUME ~Shared, EnoughTables PROVE Spec => HostPageReturned
<1> DEFINE Returned(p) ==
             /\ at[p].pc \notin {"host", "map_src", "check_src"} /\ at'[p].pc = "host"
             /\ at[p].src # None /\ at[p].kind # "Metadata"
             => map'[at[p].src] = "none"
<1>1. ASSUME MapInv, NEW q \in Cpu, MapStep(q) \/ EnterStep(q) \/ UNCHANGED vars, NEW p \in Cpu
      PROVE  Returned(p)
  <2> USE Zenon
  <2> SUFFICES ASSUME at[p].pc \notin {"host", "map_src", "check_src"}, at'[p].pc = "host",
                      at[p].src # None, at[p].kind # "Metadata"
               PROVE  map'[at[p].src] = "none"
    OBVIOUS
  <2>1. /\ at \in [Cpu -> Call] /\ MapTypes /\ CallOK(at[p]) /\ AlsoOK(at[p], gst, pas, map)
        /\ SrcOK(at[p], gst, pas, map)
    BY <1>1 DEF MapInv, PagesOK
  <2>2. at[p].src \in Page
    BY <2>1 DEF Call
  \* The call on p is the one that ends in this step.
  <2>3. ASSUME NEW l, Goto(q, l), l # "host" PROVE FALSE
    <3>1. CASE q = p
      BY <2>1, <2>3, <3>1 DEF Goto, Call
    <3>2. CASE q # p
      BY <2>1, <2>3, <3>2 DEF Goto
    <3> QED
      BY <3>1, <3>2
  <2>4. ASSUME NEW a, at' = [at EXCEPT ![q] = a], q # p PROVE FALSE
    BY <2>1, <2>4
  <2>5. ASSUME Return(q) PROVE q = p
    BY <2>4, <2>5 DEF Return
  \* It has copied the page, and unmapped it before.
  <2>6. ASSUME Copied(at[p]), map' = map PROVE map'[at[p].src] = "none"
    BY <2>1, <2>2, <2>6 DEF SrcOK
  <2>7. ASSUME NEW g \in Page, Begin(q, g), at[q].pc = "host" PROVE FALSE
    BY <2>4, <2>7, ZenonT(60) DEF Begin, DelegateBegin, UndelegateBegin, CreateBegin, RecCreateBegin,
         SetMetadataBegin, DestroyBegin, ReadMetadataBegin
  <2>9. ASSUME NEW g, at' = [at EXCEPT ![q] = [@ EXCEPT !.pc = "zero_also", !.also = g]] PROVE FALSE
    BY <2>1, <2>9 DEF Call
  <2>10. ASSUME at' = [at EXCEPT ![q] = [@ EXCEPT !.pc = "others", !.also = None]] PROVE FALSE
    BY <2>1, <2>10 DEF Call
  <2>11. CASE SetGranule(q)
    <3>1. q = p /\ map' = map /\ at[p].pc = "set"
      BY <2>3, <2>5, <2>11 DEF SetGranule
    <3> QED
      BY <2>6, <3>1 DEF Copied
  <2>12. CASE UnmapTarget(q)
    <3>1. q = p /\ at[p].pc = "unmap"
      BY <2>5, <2>12 DEF UnmapTarget
    <3> QED
      BY <2>1, <3>1 DEF CallOK
  <2>13. CASE LockTarget(q) \/ CheckAlso(q)
    <3>1. q = p /\ map' = map /\ at[p].pc \in {"lock", "check_also"}
      BY <2>3, <2>5, <2>13 DEF LockTarget, CheckAlso
    <3> QED
      BY <2>6, <3>1 DEF Copied
  <2>14. CASE SetAlso(q)
    <3>1. gst[at[q].also] = "Delegated"
      <4>1. /\ CallOK(at[q]) /\ AlsoOK(at[q], gst, pas, map) /\ at[q].pc = "set_also"
        BY <1>1, <2>14 DEF MapInv, PagesOK, SetAlso
      <4> QED
        BY <4>1 DEF CallOK, AlsoOK, AlsoPcs
    <3> QED
      BY <2>3, <2>14, <3>1 DEF SetAlso
  <2>15. CASE CreateFails(q) \/ EnterRefused(q)
    <3>1. /\ q = p /\ map' = map
          /\ at[p].pc \in {"check_also", "lock", "write_also", "map_also", "set_also", "set", "check_run"}
      BY <2>5, <2>15 DEF CreateFails, EnterRefused
    <3> QED
      BY <2>6, <3>1 DEF Copied, AlsoPcs
  <2>16. CASE ZeroObject(q)
    <3>1. q = p /\ at[p].pc = "zero"
      BY <2>3, <2>5, <2>16 DEF ZeroObject
    <3> QED
      BY <2>1, <3>1 DEF CallOK
  <2>17. CASE ReadMetadata(q)
    <3>1. q = p /\ at[p].pc = "read_meta"
      BY <2>5, <2>17 DEF ReadMetadata
    <3> QED
      BY <2>1, <3>1 DEF CallOK
  <2>18. CASE UnmapOut(q)
    <3>1. q = p /\ Unmap(at[p].src)
      BY <2>5, <2>18 DEF UnmapOut
    <3> QED
      BY <2>1, <2>2, <3>1 DEF Unmap, MapTypes, NewEntry
  <2>19. ASSUME NEW g \in Page, MapSrcUnaligned(q, g) PROVE FALSE
    BY <2>5, <2>19 DEF MapSrcUnaligned
  <2>20. ASSUME CheckSrc(q) PROVE FALSE
    BY <2>3, <2>5, <2>20 DEF CheckSrc
  <2>21. CASE MapTarget(q) \/ MapSrc(q) \/ CopySrc(q) \/ UnmapSrc(q) \/ MapAlso(q) \/ WriteAlso(q)
    BY <2>3, <2>21, ZenonT(60) DEF MapTarget, MapSrc, CopySrc, UnmapSrc, AfterCopy, MapAlso, WriteAlso
  <2>22. CASE NoOthers(q) \/ ZeroAlso(q) \/ UnmapAlso(q) \/ FromNs(q)
    BY <2>3, <2>10, <2>22 DEF NoOthers, ZeroAlso, UnmapAlso, FromNs
  <2>23. ASSUME NEW g \in Page, NextOther(q, g) PROVE FALSE
    BY <2>9, <2>23 DEF NextOther
  <2>24. CASE MapStep(q)
    BY <2>7, <2>11, <2>12, <2>13, <2>14, <2>15, <2>16, <2>17, <2>19, <2>20, <2>21, <2>22, <2>23,
       <2>24, ZenonT(60) DEF MapStep
  <2>25. ASSUME NEW c \in Rec, NEW run \in Page, EnterBegin(q, c, run) PROVE FALSE
    BY <2>4, <2>25 DEF EnterBegin
  <2>26. CASE (\E lrs \in HostLrs : EnterAccepted(q, lrs)) \/ RunPrepare(q) \/ RealmExit(q)
    BY <2>3, <2>26 DEF EnterAccepted, RunPrepare, RealmExit
  <2>27. CASE MapOut(q) \/ CheckOut(q) \/ CopyOut(q)
    BY <2>3, <2>27 DEF MapOut, CheckOut, CopyOut
  <2>28. CASE RealmRuns(q) \/ UNCHANGED vars
    BY <2>28 DEF RealmRuns, vars, mapVars
  <2> QED
    BY <1>1, <2>15, <2>18, <2>24, <2>25, <2>26, <2>27, <2>28 DEF EnterStep
<1>2. MapInv /\ [Next]_vars => [\A p \in Cpu : Returned(p)]_mapVars
  <2> USE Zenon
  <2> SUFFICES ASSUME MapInv, [Next]_vars, NEW p \in Cpu PROVE Returned(p)
    OBVIOUS
  <2>1. CASE UNCHANGED vars
    BY <1>1, <2>1
  <2>2. CASE Next
    BY <1>1, <2>2 DEF Next
  <2> QED
    BY <2>1, <2>2
<1> QED
  BY <1>2, MapInvariant, PTL DEF Spec, HostPageReturned
====
