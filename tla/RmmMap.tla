------------------------------- MODULE RmmMap -------------------------------
(***************************************************************************)
(* The RMM's own address space: the stage 1 page table that all CPUs share *)
(* (mm/translation.rs over lib/vmsa/src/page_table.rs), and the handlers   *)
(* that map a granule before they touch it and unmap it afterwards:        *)
(* GRANULE_DELEGATE, GRANULE_UNDELEGATE, the handlers that make an object  *)
(* of a granule and those that take it down, and the copy of a page of the *)
(* host (host.rs) they share with REC_ENTER; and the handlers of realm     *)
(* metadata, which touch their granules without mapping them.              *)
(*                                                                         *)
(* The page table has a lock of its own, taken for one map or unmap; the   *)
(* lock of a granule is held by the handler that has looked it up, but the *)
(* page of the host is only looked at under its lock, which is dropped     *)
(* before the copy.  An access that the table or the GPT does not allow    *)
(* aborts into handle_exception, which returns to the same instruction:    *)
(* the CPU comes no further until the page is mapped again.                *)
(***************************************************************************)
EXTENDS Naturals, FiniteSets, Cpus

CONSTANTS
    Page,     \* the granules the host works with; address 0 is not one
    Region,   \* Region[g]: the last-level table that translates g
    Heap,     \* how many of these tables the allocator can give
    Kinds,    \* the objects that handlers make of granules
    Shared    \* FALSE: the host gives a page to one call at a time

ASSUME MapAssumption ==
    /\ None \notin Page \cup Cpu
    /\ DOMAIN Region = Page
    /\ Heap \in Nat
    /\ Kinds \subseteq {"RD", "RTT", "Data", "Rec", "Metadata"}
    /\ Shared \in BOOLEAN

VARIABLES
    gst,      \* the state of every granule in the Granule Status Table
    pas,      \* its physical address space in the GPT
    map,      \* how the RMM has it mapped: "none", "ns" or "realm"
    tables,   \* the regions that have a last-level table
    at        \* what every CPU does

mapVars == <<gst, pas, map, tables, at>>

\* A call: the object it makes or takes down, the page of the host it copies, the
\* granule of the object, a further granule (a root table of an RD, the auxiliary
\* granule of a REC), and the REC of REC_ENTER.
AtHost == [pc |-> "host", kind |-> "none", src |-> None, target |-> None, also |-> None,
           rec |-> None]

\* The states of granules that are objects, and those that their handlers map.
Objects == {"RD", "RTT", "Data", "Rec", "RecAux", "Metadata"}
MappedObjects == Objects \ {"Metadata"}

\* Entry::new and Entry::clear: not VALID
NewEntry == "none"

RmmMapInit ==
    /\ gst = [g \in Page |-> "Undelegated"]
    /\ pas = [g \in Page |-> "ns"]
    /\ map = [g \in Page |-> NewEntry]
    /\ tables = {}
    /\ at = [p \in Cpu |-> AtHost]

\* subtable: the tables above the last level lead to it
HasTable(g) == Region[g] \in tables

\* new_in: a table of new entries, if the allocator has one
NewIn(g) ==
    /\ Cardinality(tables) < Heap
    /\ tables' = tables \cup {Region[g]}

\* set_page: the table of the region is made when there is none, and whatever entry
\* was there is overwritten.
SetPage(g, entry) ==
    /\ IF HasTable(g) THEN UNCHANGED tables ELSE NewIn(g)
    /\ map' = [map EXCEPT ![g] = entry]

\* set_pages_for_rmi: when the allocator fails the tables stay as they are, set_pages
\* only warns, and map returns true.
Map(g, world) ==
    IF HasTable(g) \/ Cardinality(tables) < Heap
    THEN SetPage(g, world)
    ELSE UNCHANGED <<tables, map>>

\* unset_page: a valid entry is cleared, the tables stay.
Unmap(g) ==
    /\ map' = [map EXCEPT ![g] = IF HasTable(g) THEN NewEntry ELSE @]
    /\ UNCHANGED tables

\* The RMM can touch a granule: it is mapped, in the address space it is in.
Accessible(g) == map[g] = pas[g]

Goto(p, l) == at' = [at EXCEPT ![p].pc = l]
Return(p) == at' = [at EXCEPT ![p] = AtHost]

\* The granules whose guards a call holds.  REC_CREATE and SET_METADATA look theirs
\* up after they have read the page of the host; SET_METADATA reads that under its
\* lock, and the others look at it and drop the lock.
HostPcs == {"map_src", "check_src", "copy_src", "unmap_src", "read_ns"}
Holds(a, g) ==
    \/ g = a.target /\ ~(a.kind \in {"Rec", "Metadata"} /\ a.pc \in HostPcs \cup {"check_also", "lock"})
    \/ g = a.also /\ a.pc \in {"zero_also", "unmap_also"}
    \/ g = a.src /\ a.pc = "read_ns"

\* get_granule!: the handlers that hold the granule's lock keep others out.
Unlocked(g) == \A p \in Cpu : ~Holds(at[p], g)

\* What the host does when it gives a page to one call at a time: the page of a
\* call is memory of its own, and no other call works on it.
Given(p, g) == Shared \/ \A q \in Cpu \ {p} : g \notin {at[q].src, at[q].target, at[q].also}
GivenSrc(p, g) == Given(p, g) /\ (Shared \/ gst[g] = "Undelegated")

-----------------------------------------------------------------------------
(* GRANULE_DELEGATE and GRANULE_UNDELEGATE                                  *)

\* The state is checked and EL3 changes the GPT; the lock is kept.
DelegateBegin(p, g) ==
    /\ at[p].pc = "host"
    /\ Given(p, g) /\ Unlocked(g)
    /\ gst[g] = "Undelegated"
    /\ pas' = [pas EXCEPT ![g] = "realm"]
    /\ at' = [at EXCEPT ![p] = [AtHost EXCEPT !.pc = "map", !.kind = "Delegated", !.target = g]]
    /\ UNCHANGED <<gst, map, tables>>

UndelegateBegin(p, g) ==
    /\ at[p].pc = "host"
    /\ Given(p, g) /\ Unlocked(g)
    /\ gst[g] = "Delegated"
    /\ pas' = [pas EXCEPT ![g] = "ns"]
    /\ at' = [at EXCEPT ![p] = [AtHost EXCEPT !.pc = "map", !.kind = "Undelegated", !.target = g]]
    /\ UNCHANGED <<gst, map, tables>>

\* The second argument of the map() of a handler.
WorldOf(kind) == IF kind = "Undelegated" THEN "ns" ELSE "realm"

\* map(addr, secure); REC_CREATE has read its parameters already.
MapTarget(p) ==
    LET a == at[p]
    IN  /\ a.pc = "map"
        /\ Map(a.target, WorldOf(a.kind))
        /\ Goto(p, CASE a.kind = "Rec" -> "map_also"
                     [] a.kind # "Rec" /\ a.src # None -> "map_src"
                     [] OTHER -> "set")
        /\ UNCHANGED <<gst, pas>>

\* set_granule: the granule is written (zeroed, or the content of the object) and
\* has its new state.  An object stays mapped; a granule the handlers of gpt.rs
\* have zeroed is unmapped.
SetGranule(p) ==
    LET a == at[p]
    IN  /\ a.pc = "set"
        /\ Accessible(a.target)
        /\ gst' = [gst EXCEPT ![a.target] = a.kind]
        /\ IF a.kind \in Objects THEN Return(p) ELSE Goto(p, "unmap")
        /\ UNCHANGED <<pas, map, tables>>

UnmapTarget(p) ==
    /\ at[p].pc = "unmap"
    /\ Unmap(at[p].target)
    /\ Return(p)
    /\ UNCHANGED <<gst, pas>>

-----------------------------------------------------------------------------
(* Objects                                                                  *)

\* REALM_CREATE, RTT_CREATE, DATA_CREATE and DATA_CREATE_UNKNOWN: the granule is
\* looked up and locked.  Of the root tables of a realm there is one here.
CreateBegin(p, g, kind, src, also) ==
    /\ at[p].pc = "host"
    /\ kind \in Kinds \cap {"RD", "RTT", "Data"}
    /\ Given(p, g) /\ Unlocked(g)
    /\ gst[g] = "Delegated"
    /\ kind = "RD" => src # None
    /\ kind = "RTT" => src = None
    /\ src # None => src # g /\ GivenSrc(p, src)
    /\ IF kind = "RD" THEN also \in Page \ {g, src} /\ Given(p, also) ELSE also = None
    /\ at' = [at EXCEPT ![p] = [AtHost EXCEPT !.pc = "map", !.kind = kind, !.target = g,
                                             !.src = src, !.also = also]]
    /\ UNCHANGED <<gst, pas, map, tables>>

\* REC_CREATE reads its parameters first.  Of the auxiliary granules there is one here.
RecCreateBegin(p, g, src, also) ==
    /\ at[p].pc = "host"
    /\ "Rec" \in Kinds
    /\ g # src /\ also \notin {g, src}
    /\ Given(p, g) /\ Given(p, also) /\ GivenSrc(p, src)
    /\ at' = [at EXCEPT ![p] = [AtHost EXCEPT !.pc = "map_src", !.kind = "Rec", !.target = g,
                                             !.src = src, !.also = also]]
    /\ UNCHANGED <<gst, pas, map, tables>>

\* The granule of the REC, or of the metadata, is looked up.
LockTarget(p) ==
    LET a == at[p]
    IN  /\ a.pc = "lock"
        /\ Unlocked(a.target)
        /\ IF gst[a.target] = "Delegated"
           THEN Goto(p, IF a.kind = "Rec" THEN "map" ELSE "set")
           ELSE Return(p)
        /\ UNCHANGED <<gst, pas, map, tables>>

\* verify_compliance of a REC, and REALM_CREATE: the further granule must be
\* Delegated; its lock is dropped again.
CheckAlso(p) ==
    LET a == at[p]
    IN  /\ a.pc = "check_also"
        /\ Unlocked(a.also)
        /\ IF gst[a.also] = "Delegated"
           THEN Goto(p, IF a.kind = "Rec" THEN "lock" ELSE "map_also")
           ELSE Return(p)
        /\ UNCHANGED <<gst, pas, map, tables>>

\* map(rtt, true), map(rec_aux, true)
MapAlso(p) ==
    /\ at[p].pc = "map_also"
    /\ Map(at[p].also, "realm")
    /\ Goto(p, IF at[p].kind = "Rec" THEN "set_also" ELSE "write_also")
    /\ UNCHANGED <<gst, pas>>

\* Stage2Translation::new writes every entry of the root table.
WriteAlso(p) ==
    /\ at[p].pc = "write_also"
    /\ Accessible(at[p].also)
    /\ Goto(p, "set_also")
    /\ UNCHANGED <<gst, pas, map, tables>>

\* The further granule is looked up once more and has its new state; nothing is
\* written to it.  If it is not Delegated any more, the epilogue of REALM_CREATE
\* unmaps the RD, and REC_CREATE only returns.
SetAlso(p) ==
    LET a == at[p]
    IN  /\ a.pc = "set_also"
        /\ Unlocked(a.also)
        /\ IF gst[a.also] = "Delegated"
           THEN /\ gst' = [gst EXCEPT ![a.also] = IF a.kind = "Rec" THEN "RecAux" ELSE "RTT"]
                /\ Goto(p, "set")
                /\ UNCHANGED <<map, tables>>
           ELSE /\ IF a.kind = "RD" THEN Unmap(a.target) ELSE UNCHANGED <<map, tables>>
                /\ Return(p)
                /\ UNCHANGED gst
        /\ UNCHANGED pas

\* A check of the handler says no: verify_compliance, the state of the realm and the
\* index of the REC, the VMID, rtt::create, the measurement.  What is mapped stays so.
CreateFails(p) ==
    /\ \/ at[p].pc \in {"check_also", "lock", "write_also"}
       \/ at[p].pc = "map_also" /\ at[p].kind = "Rec"
       \/ at[p].pc = "set_also" /\ at[p].kind = "RD"
       \/ at[p].pc = "set" /\ at[p].kind \in {"RTT", "Data"}
    /\ Return(p)
    /\ UNCHANGED <<gst, pas, map, tables>>

\* REALM_DESTROY, REC_DESTROY, RTT_DESTROY, DATA_DESTROY (their checks are
\* RealmLifecycle's and Rtt's).  The first two take down other granules before.
DestroyBegin(p, g) ==
    /\ at[p].pc = "host"
    /\ Given(p, g) /\ Unlocked(g)
    /\ gst[g] \in {"RD", "RTT", "Data", "Rec"}
    /\ at' = [at EXCEPT ![p] = [AtHost EXCEPT !.kind = gst[g], !.target = g,
                                   !.pc = IF gst[g] \in {"RD", "Rec"} THEN "others" ELSE "zero"]]
    /\ UNCHANGED <<gst, pas, map, tables>>

\* The metadata and the root tables of a realm, the auxiliary granules of a REC:
\* which ones they are is RealmLifecycle's.
OthersOf(kind) == IF kind = "RD" THEN {"Metadata", "RTT"} ELSE {"RecAux"}

\* Variant: REC_DESTROY unmaps an auxiliary granule before it is zeroed.
OtherUnmappedFirst(p, g) ==
    LET a == at[p]
    IN  /\ a.pc = "others"
        /\ Given(p, g) /\ Unlocked(g)
        /\ gst[g] \in OthersOf(a.kind)
        /\ at' = [at EXCEPT ![p] = [@ EXCEPT !.pc = "zero_also", !.also = g]]
        /\ IF a.kind = "Rec" THEN Unmap(g) ELSE UNCHANGED <<map, tables>>
        /\ UNCHANGED <<gst, pas>>

NextOther(p, g) ==
    LET a == at[p]
    IN  /\ a.pc = "others"
        /\ Given(p, g) /\ Unlocked(g)
        /\ gst[g] \in OthersOf(a.kind)
        /\ at' = [at EXCEPT ![p] = [@ EXCEPT !.pc = "zero_also", !.also = g]]
        /\ UNCHANGED <<gst, pas, map, tables>>
NoOthers(p) ==
    /\ at[p].pc = "others"
    /\ Goto(p, "zero")
    /\ UNCHANGED <<gst, pas, map, tables>>

\* set_granule(Delegated) zeroes it; an auxiliary granule is unmapped afterwards.
ZeroAlso(p) ==
    LET a == at[p]
    IN  /\ a.pc = "zero_also"
        /\ Accessible(a.also)
        /\ gst' = [gst EXCEPT ![a.also] = "Delegated"]
        /\ IF a.kind = "Rec"
           THEN Goto(p, "unmap_also")
           ELSE at' = [at EXCEPT ![p] = [@ EXCEPT !.pc = "others", !.also = None]]
        /\ UNCHANGED <<pas, map, tables>>
UnmapAlso(p) ==
    /\ at[p].pc = "unmap_also"
    /\ Unmap(at[p].also)
    /\ at' = [at EXCEPT ![p] = [@ EXCEPT !.pc = "others", !.also = None]]
    /\ UNCHANGED <<gst, pas>>

\* The object itself; an RD or a REC is unmapped afterwards.
ZeroObject(p) ==
    LET a == at[p]
    IN  /\ a.pc = "zero"
        /\ Accessible(a.target)
        /\ gst' = [gst EXCEPT ![a.target] = "Delegated"]
        /\ IF a.kind \in {"RD", "Rec"} THEN Goto(p, "unmap") ELSE Return(p)
        /\ UNCHANGED <<pas, map, tables>>

-----------------------------------------------------------------------------
(* A page of the host: map, copy_from or copy_to_obj, unmap                 *)

MapSrc(p) ==
    /\ at[p].pc = "map_src"
    /\ Map(at[p].src, "ns")
    /\ Goto(p, "check_src")
    /\ UNCHANGED <<gst, pas>>

\* An address that is not aligned: PAGE_SIZE bytes from it are in two pages, and both
\* are mapped; validate_addr then refuses the address, and the call returns.
MapSrcUnaligned(p, next) ==
    LET pages == {at[p].src, next}
        more == tables \cup {Region[g] : g \in pages}
    IN  /\ at[p].pc = "map_src"
        /\ next # at[p].src /\ GivenSrc(p, next)
        /\ IF Cardinality(more) <= Heap
           THEN tables' = more /\ map' = [g \in Page |-> IF g \in pages THEN "ns" ELSE map[g]]
           ELSE Map(at[p].src, "ns")
        /\ Return(p)
        /\ UNCHANGED <<gst, pas>>

\* get_granule_if!(addr, Undelegated): the call returns RmiErrorInput, and leaves
\* its page mapped, when the page is not the host's.
CheckSrc(p) ==
    /\ at[p].pc = "check_src"
    /\ Unlocked(at[p].src)
    /\ IF gst[at[p].src] = "Undelegated" THEN Goto(p, "copy_src") ELSE Return(p)
    /\ UNCHANGED <<gst, pas, map, tables>>

CopySrc(p) ==
    /\ at[p].pc = "copy_src"
    /\ Accessible(at[p].src)
    /\ Goto(p, "unmap_src")
    /\ UNCHANGED <<gst, pas, map, tables>>

\* Where a handler goes on with what it has copied.
AfterCopy(kind) ==
    CASE kind = "Enter" -> "check_run"
      [] kind \in {"RD", "Rec"} -> "check_also"
      [] OTHER -> "set"

\* Variant: the page stays mapped.
UnmapSrcForgotten(p) ==
    /\ at[p].pc = "unmap_src"
    /\ Goto(p, AfterCopy(at[p].kind))
    /\ UNCHANGED <<gst, pas, map, tables>>

UnmapSrc(p) ==
    /\ at[p].pc = "unmap_src"
    /\ Unmap(at[p].src)
    /\ Goto(p, AfterCopy(at[p].kind))
    /\ UNCHANGED <<gst, pas>>

-----------------------------------------------------------------------------
(* Realm metadata, whose handlers map nothing                               *)

\* ISLET_REALM_SET_METADATA: from_ns reads the page of the host under its lock; the
\* signature, the realm and the granule are looked at afterwards.
SetMetadataBegin(p, g, src) ==
    /\ at[p].pc = "host"
    /\ "Metadata" \in Kinds
    /\ g # src /\ Given(p, g) /\ GivenSrc(p, src)
    /\ Unlocked(src) /\ gst[src] = "Undelegated"
    /\ at' = [at EXCEPT ![p] = [AtHost EXCEPT !.pc = "read_ns", !.kind = "Metadata",
                                             !.target = g, !.src = src]]
    /\ UNCHANGED <<gst, pas, map, tables>>
FromNs(p) ==
    /\ at[p].pc = "read_ns"
    /\ Accessible(at[p].src)
    /\ Goto(p, "lock")
    /\ UNCHANGED <<gst, pas, map, tables>>

\* REALM_ACTIVATE and realm_sealing_key read the metadata of the realm.
ReadMetadataBegin(p, g) ==
    /\ at[p].pc = "host"
    /\ Given(p, g) /\ Unlocked(g)
    /\ gst[g] = "Metadata"
    /\ at' = [at EXCEPT ![p] = [AtHost EXCEPT !.pc = "read_meta", !.kind = "Metadata",
                                             !.target = g]]
    /\ UNCHANGED <<gst, pas, map, tables>>
ReadMetadata(p) ==
    /\ at[p].pc = "read_meta"
    /\ Accessible(at[p].target)
    /\ Return(p)
    /\ UNCHANGED <<gst, pas, map, tables>>

Begin(p, g) ==
    \/ DelegateBegin(p, g)
    \/ UndelegateBegin(p, g)
    \/ \E kind \in Kinds, src, also \in Page \cup {None} : CreateBegin(p, g, kind, src, also)
    \/ \E src, also \in Page : RecCreateBegin(p, g, src, also)
    \/ \E src \in Page : SetMetadataBegin(p, g, src)
    \/ DestroyBegin(p, g)
    \/ ReadMetadataBegin(p, g)

MapStep(p) ==
    \/ at[p].pc = "host" /\ \E g \in Page : Begin(p, g)
    \/ at[p].pc = "others" /\ \E g \in Page : NextOther(p, g)
    \/ at[p].pc = "map_src" /\ \E g \in Page : MapSrcUnaligned(p, g)
    \/ MapTarget(p) \/ SetGranule(p) \/ UnmapTarget(p)
    \/ MapSrc(p) \/ CheckSrc(p) \/ CopySrc(p) \/ UnmapSrc(p)
    \/ LockTarget(p) \/ CheckAlso(p) \/ MapAlso(p) \/ WriteAlso(p) \/ SetAlso(p)
    \/ CreateFails(p)
    \/ NoOthers(p) \/ ZeroAlso(p) \/ UnmapAlso(p) \/ ZeroObject(p)
    \/ FromNs(p) \/ ReadMetadata(p)

-----------------------------------------------------------------------------
(* Properties                                                               *)

\* No access of a handler to memory it has mapped aborts.  Whatever the other CPUs
\* map, unmap, delegate and undelegate meanwhile, and whatever refused calls have
\* left mapped, the granule that a handler writes or zeroes, the root table it
\* initialises and the page of the host it copies are mapped in the address space
\* that the GPT has them in, and so is every object, which handlers use at any
\* time: what the map() calls are there for ("to avoid a fault regarding the RTT
\* entry", rmi/realm/mod.rs:78).  The accesses to realm metadata, and to the page
\* of the host it comes from, are exempt: SET_METADATA, REALM_ACTIVATE,
\* REALM_DESTROY and the sealing key make them without a map().
AccessMapped ==
    /\ \A p \in Cpu :
          LET a == at[p]
          IN  /\ a.pc \in {"write_also", "set_also", "set", "zero"} /\ a.kind # "Metadata"
                    => Accessible(a.target)
              /\ \/ a.pc = "write_also"
                 \/ a.pc = "zero_also" /\ gst[a.also] # "Metadata"
                    => Accessible(a.also)
              /\ a.pc \in {"copy_src", "copy_out"} => Accessible(a.src)
    /\ \A g \in Page : gst[g] \in MappedObjects => map[g] = "realm"

\* A call whose page of the host has passed the check returns with that page
\* unmapped, however it ends: only the refusal of the page itself, or of its address,
\* leaves it mapped (the unmap() after host::copy_from and host::copy_to_ptr).
HostPageReturned ==
    [][\A p \in Cpu :
          /\ at[p].pc \notin {"host", "map_src", "check_src"} /\ at'[p].pc = "host"
          /\ at[p].src # None /\ at[p].kind # "Metadata"
          => map'[at[p].src] = "none"]_mapVars

\* When no call is in progress, what the RMM has mapped as memory of the host is
\* memory of the host (doc/platform-development/secure-interaction.md:33: "map host
\* memory into RMM only if it passes all checks").
MappedOnlyIfChecked ==
    (\A p \in Cpu : at[p].pc = "host") => \A g \in Page : map[g] = "ns" => pas[g] = "ns"
=============================================================================
