# A TLA+ verification of islet

islet is a Realm Management Monitor (RMM) for the Arm Confidential Compute
Architecture, written in Rust, with a simulated Hardware Enforced Security (HES)
component beside it. This directory holds TLA+ models of the RMM, the TLC
configurations that check them and theorems about them that TLAPS proves.

## The system

The **host** (normal world) calls the RMM with RMI commands, on any CPU at any
time. A **realm** runs on the RMM and calls it with RSI and PSCI. **EL3** keeps
the granule protection table (GPT). Memory is handed out in 4 KiB *granules*.

| Part | State | Operations | What makes it hard |
|---|---|---|---|
| Granule status table (`granule/array`) | per granule: state, `u8` reference count, spinlock | `set_state`, `inc_count`, `get_granule_if!` | several CPUs; locks in different orders; the count wraps |
| Delegation (`rmi/gpt.rs`) | state, GPT | GRANULE_DELEGATE, GRANULE_UNDELEGATE | EL3 may refuse; a mismatch panics |
| Realms (`rmi/realm`, `realm`) | `Rd`, VMID set, metadata, RIM | REALM_CREATE, ACTIVATE, DESTROY, SET_METADATA | tables are checked, unlocked and checked again; the epilogue fails half way |
| RECs (`rmi/rec`, `rec`) | `Rec`, auxiliary granules, REC index | REC_CREATE, REC_DESTROY | loops over auxiliary granules that stop in the middle |
| REC execution (`rmi/rec/handlers.rs`, `rsi`) | Rec state, pending PSCI, host call, RIPAS and MMIO | REC_ENTER, PSCI_COMPLETE, RSI and PSCI calls, exits | requests outlive an exit; other RECs and the host act in between |
| Stage 2 tables (`rmi/rtt.rs`, `realm/mm`) | tree of RTTs; HIPAS and RIPAS of entries | RTT_*, DATA_* | folding, destroying, live entries |
| Attestation and measurements (`measurement`, `rsi/attestation`, `rsi/sealing.rs`) | token offset, challenge, RIM, REMs | ATTEST_TOKEN_*, MEASUREMENT_EXTEND, sealing keys | a token is fetched in parts and made anew for each |
| Boot (`rmm_el3`) | attestation key, platform token, VHUKs | four calls of EL3 | a failed call is only logged |
| GIC, timer, SIMD (`rec`, `exception/trap.rs`) | list registers, counters, SIMD registers and save areas | validation, save, restore | boundaries; lazy switching; RECs that move between CPUs |
| RMM address space (`mm/translation.rs`, `host.rs`) | the RMM's stage 1 table, shared by all CPUs | map, copy, unmap | three steps without a lock over them |
| HES library (`hes/islet-hes`) | measurement slots, DAK | measured boot, keys, tokens, reset | locked slots; the key outlives measurements |
| HES host application (`hes/islet-hes-host-app`) | connection, metadata of the last message | request loop | framing by timeouts; connections that end |
| SDK, Kani harnesses, support libraries | none of their own | | |

`PROJECT.json` lists every part with its status, and every hazard at its line.

## The modules

**`RealmLifecycle`** has one action for each complete RMI call that creates or
destroys a granule's owner. Its variables are the granule states (`gst`), the
reference counts (`refcnt`), EL3's view (`gpt`), granules that still hold a
realm's bytes (`dirty`), the objects `rd`, `rec` and `meta` by granule, and the
VMID set. A RIM is the number of its extensions: two RIMs of one realm are equal
exactly when nothing was measured in between. Successful calls and each call that
fails after it changed something (`RealmCreateFails`, `RecCreateFails`) are
actions; a call refused before that is a stutter. The metadata's contents are the
host's choice.

**`RmiHandlers`** extends it: the same handlers on several CPUs, one step per
granule lock taken or dropped. `get_granule_if!` is a step that is not enabled
while the lock is held. REC_ENTER, RTT_SET_RIPAS and PSCI_COMPLETE are included
for their locks. **`RmiAtomic`** has the refinement mapping (`AbsGst`, `AbsRd`, ...),
which shows a call that is not finished as not begun or as done, depending on whether
it can still fail. `AbsRefcnt` takes off the counts of the REC_DESTROYs that have freed
a granule and not decremented the count yet. `Atomic` says that the mapped state moves
only by steps of `RealmLifecycle`. The constant `TablesStable` is an assumption on the host: while a REALM_CREATE
initialises its tables, no other call uses them. Without it the code does not
implement the atomic specification (run `unlocked_tables`).

**`RecRun`** models what happens between REC_CREATE and REC_DESTROY: for each REC
its state, the run flag, the pending PSCI call, host call, RIPAS request and
emulatable abort, and what its next entry answers; for each realm its state and
the RIPAS of a few pages. The realm (`R...` actions and `Irq`), the RMM (`RmmStep`)
and the host interleave. REC_ENTER is split where it takes the RD's lock again.

**`Rtt`** models the stage 2 tables: `tte` maps each table (a realm's root, or a
granule in the state RTT) to its entries, with the fields the code reads, and
`Walk` is `get_s2tte()`. There is one action for each RTT and DATA command that
succeeds; a refused one writes nothing. Concatenated root tables are one table
with `RootEntries` entries. What the code does at the edges is kept: a valid
entry's RIPAS bits are attribute bits; a walk that meets a later sub-table in
INIT_RIPAS changes its first page; SET_RIPAS to EMPTY forgets the granule of a page
that is assigned and empty already; REALM_DESTROY gives back only the root tables;
RTT_CREATE under a level 1 block, which panics, is not enabled. The RD's lock is
held throughout a command, so commands of a realm are atomic. `depth` is a
history variable for `Exclusive`. SET_RIPAS takes the realm's request as a
parameter; how it gets there is in `RecRun`.

**`RealmMemory`** is what the tables are for: a function from pages to HIPAS, RIPAS
and granule, and each command as a change of some pages. RTT_CREATE and RTT_FOLD
are stutters there. `MCRtt` joins the two: `View` reads each page through the
tables, and `ImplementsRealmMemory` says that the result moves as `RealmMemory`
does. `page` is kept as a variable equal to `View` so that TLC computes it once.

**`RmmMap`** is the RMM's own address space: `map` says how each granule is mapped,
`tables` which regions have a last-level table, `pas` is the GPT. `SetPage`, `NewIn`
and `Unmap` are the calls of `lib/vmsa`, each atomic under the lock of the table. The
handlers that map a granule (delegation, the creation and destruction of an RD, a REC, an
RTT or a data granule) are split at every `map`, check, access and `unmap`; what
they check besides is in the modules above. An RD comes with one root table and a REC with
one auxiliary granule (`also`). A host page whose address is not aligned maps two pages
before the address is refused (`MapSrcUnaligned`). The handlers of realm metadata
(SET_METADATA, and REALM_ACTIVATE, REALM_DESTROY and the sealing key, which touch the
granule later) map nothing; they are here with their accesses. An access is enabled only if
the page is mapped in the address space the GPT has it in: the RMM's exception handler
returns to the instruction that faulted, so a CPU can stay at an access to metadata.

**`RecContext`** has the registers that change hands at a REC entry: `hw` of every
CPU, the host's save area `nsSimd`, and the context `ctx` of every REC. `GicRestored`,
`TimerRestored`, `SimdRestored` and their `...Saved` counterparts are the functions
that `into_current` and `from_current` call, in that order; `SimdTrap` is the first
use of SIMD after an entry. `hostFpu` and `left` are history variables: what the host
and each REC left in their registers. **`RecEnter`** composes both modules into
REC_ENTER, from the lock of the REC to the copy of the run page back to the host.

**`IsletHes`** is the HES library as operators on the slots and the DAK. **`HesHost`** is
the process that serves it: reads that end after 50 ms of silence, the conversion of
requests with its errors, one `Serve...` action for each request, the answer, the reset
between two connections, the connection that fails and ends the process, and the panics. A message travels in two pieces that may
come apart; what is read of an incomplete message is any request (`Misread`) or a
panic. The peer and the network are external. **`RmmAttest`** is the other end: the
four boot calls with the panic at an error code it does not know, the measurements of realms, the token protocol of each REC, and
sealing keys. **`Platform`** composes them through EL3, which is external: it passes the
RMM's boot calls to the HES and makes requests of its own. **`KeyTerms`** has hashes,
seeds and keys as terms that are equal when their inputs are; a measurement is the
sequence of what was hashed into it.

`MCRealmLifecycle`, `MCRmiHandlers`, `MCRecRun`, `MCRecEnter` and `MCPlatform` give symmetry sets and the
functions and inputs of the instances. The theorems about a module are in the module of
its name with `Proofs` added: `RealmLifecycleProofs`, `RmiHandlersProofs`, `RecRunProofs`,
`RealmMemoryProofs`, `RmmMapProofs`, `RecEnterProofs`, `RmmAttestProofs` and `PlatformProofs`.

Definitions whose names say a defect (`...Unchecked`, `...Keeps...`) and whose
comment starts with "Variant" are no part of a specification: each is a plausible
mistake in the definition that follows it. Replacing that definition by its
variant makes TLC violate the property listed with it in `PROJECT.json`, which
shows that the property is about the code.

## Runs

| Run | Instance | Result |
|---|---|---|
| `lifecycle` | 6 granules, 2 VMIDs, 1 or 2 root tables, 1 auxiliary granule, REC index up to 2 | 4,050 states up to symmetry |
| `handlers_two_cpus` | 2 CPUs, 4 granules, 1 VMID | 124,599 states; refines `RealmLifecycle` |
| `handlers_one_cpu` | 1 CPU, 6 granules, 2 tables, 2 auxiliary granules | 3,974 states |
| `rec_run` | 2 realms, one active, 3 RECs, 2 pages | 212,706 states |
| `rtt` | 1 realm, 3 granules, 2 host pages, 2 levels of 2 entries | 19,620 states; refines `RealmMemory` |
| `rec_enter` | 2 CPUs, 2 RECs, 3 granules in 2 regions, 3 list registers | 608,151 states |
| `platform` | 2 realms, 1 REC, 3 slots, 2 connections, fairness | 194,716 states |
| `lock_order` | 2 CPUs, 4 granules | violation |
| `unlocked_tables` | 2 CPUs, 4 granules, 2 VMIDs, `TablesStable = FALSE` | violation |
| `affinity_range` | 1 realm, 2 RECs | violation |
| `rtt_fold` | 1 realm, 3 granules, 3 levels of 2 entries | violation |
| `map_shared` | 1 CPU, 1 REC, 2 granules, `Shared = TRUE` | violation |

*Bounds.* Six granules hold two complete realms (RD and table) and a REC with
its auxiliary granule, or one realm with metadata and a REC, so sharing,
exhaustion and reuse all happen. Two CPUs are enough for every pairwise race of
handlers; four granules hold a realm with a REC, or two overlapping creations.
With five granules the two-CPU run takes about nine minutes and also passes.
Loops of more than one iteration over tables and auxiliary granules are covered
by `handlers_one_cpu`. Two RECs and a stranger are the smallest set in which a
caller, a target and a REC of another realm differ; two pages let the host serve a
RIPAS request in two pieces. `MaxRecIndex` caps the REC index, `Pages` the pages.
Three granules in `rtt` are a table and the two contiguous, aligned pages that make it
foldable, or two tables and a page; two host pages do the same for shared memory. The
run starts at level 2: with a level more, the fold of `rtt_fold` happens and the
refinement does not hold. It has one realm, which is what the shape of a tree needs.
Wider instances were checked once and pass: four granules (138,040 states), so that the
pages of two tables lie side by side; a root of four entries with two granules and one
host page (51,296 states); and two realms that take each other's granules (three
granules, no host pages, 278,406 states).
In `rec_enter` three granules are the object, the host page and the root table or the
auxiliary granule of one creation, or two of these and the granule of another call; they
lie under two last-level tables, and `Heap` is large enough for both. `Kinds` leaves out
data granules, which are made and taken down like the other objects. Two CPUs and two RECs
let a REC move to a CPU that another has used. `MCNext` bounds how the two parts of the
module mix: realms and the host write registers while there are no calls but REC_ENTER, and
once other handlers have been called only one REC still gets to its realm, which leaves its
registers alone. Four granules with one REC that does not write were checked once
(10,447,805 states) and pass.
`Writers` names who writes new register values again, one CPU and one REC, since
values are told apart by their owner already. `HostLrs` has a valid list, the same
interrupt twice, and a malformed entry in the last list register, which
`receive_state_from_host` does not copy. `Shared = FALSE` is an assumption on the host,
that it gives a page to one call at a time. With `Shared = TRUE` on two CPUs
`AccessMapped` fails: a page is delegated while another call has it mapped as the
host's. `map_shared` shows on one CPU what stays mapped.
In `platform` the bounds are on requests (`MaxSeq`, `MaxOwn`), on messages that come
apart (`MaxSplits`) and on connections (`MaxLinks`); `MaxEvents` bounds their sum, more
tightly once realms exist (`MaxEventsUp`). So the boot calls are disturbed by requests, a
cut message and a reconnection, while realms are explored only where there was no more
than the one connection, and one measurement of realms is extended (`MaxMeasured`).
`MaxEvents = 4` with `MaxMeasured = 2` was checked once (386,890 states), and so were
realms after and during such disturbances, without `Answered`, on one realm with one
challenge (`MaxEventsUp = 3`; 1,124,626 states); both pass. `SlotCount` is 3: two that the
hardware fills and one that EL3 does. A token has two units, so that it is fetched in one
or in two parts with measurements extended in between.
The 256 values of the reference count are out of TLC's reach; the proofs do not
bound it.

*Deadlock* is not checked, since each system may stop. In `RealmLifecycle` the host can leave every granule in
a failed creation that nothing gives back; in `RmiHandlers` a handler can wait for
ever for a lock (run `lock_order`, and REALM_CREATE given its own RD as a later
table); in `RecRun` the host may destroy every REC; in `RecEnter` both CPUs
can stay at an access to metadata that is not mapped; in `Rtt` a name of a realm is
used once, and nothing is left to do when all are gone; in `Platform` the process may
end, and the bounds are used up.

*Fairness* is assumed in `Platform` alone, `WF(Hes)`: the one thread of the host
application runs when a read or the 50 ms timeout returns. Nothing is assumed of the
peer, of EL3 or of the network. That REC_ENTER returns is not claimed: it spins for the
RD's lock while it holds the REC's, and the run `lock_order` shows that the lock may never
be free, so fairness of the RMM's steps is not what the code gives.

*What the passing runs show.* No two realms share a table or a metadata granule
and no two RECs an auxiliary granule; VMIDs and reference counts match the objects;
a granule given back holds nothing of a realm; a RIM is final once the realm is
active; the locks make the handlers atomic in the sense above; a running REC's
realm exists. Each request of a REC (PSCI, host call, RIPAS, MMIO) is exclusive,
answered once and only by the entry meant for it, and SYSTEM_OFF stops every
later entry. With two levels of tables, `ImplementsRealmMemory` holds command by command:
RTT_CREATE and RTT_FOLD change no page; RTT_DESTROY, MAP_UNPROTECTED and UNMAP_UNPROTECTED
those under the entry they are given; the DATA commands their page; SET_RIPAS those up to
the address it reports, and INIT_RIPAS some of its range. This holds whatever the shape of
the tree. It does not say that SET_RIPAS keeps a page's granule: the model loses it where
the code does. No granule has two entries; and in an active realm a page's RIPAS changes
only to DESTROYED or at the realm's request.

If the host gives a page to one call at a time, the memory that a handler has mapped is
still mapped, in the right address space, whenever it touches it, whatever other CPUs do in
the shared table (`AccessMapped`; the accesses to realm metadata are exempt, since no
handler maps it). A call whose host page has passed the check returns with the page
unmapped (`HostPageReturned`); a page that is refused, or whose address is, stays mapped.
SIMD registers, timers and list registers are with their owner at every entry and exit.
The platform token of a realm's token is over the key that signs the realm part, or
EL3 reported an error (`TokenBound`); the HES gives no token over a key of an earlier
connection, and changes a slot only by extending it; an answer has the number of the
request its client waits for as long as no message was cut, and requests for a service
the HES has are answered. The parts of a token fit together, and are of one token
unless a measurement was extended in between (`TokenWhole`). Sealing keys differ for
different identities of realms.

*What the violations show.* (1) REC_ENTER takes the RD's lock while it holds the
REC's and RTT_SET_RIPAS does the opposite, although a comment says the RD is
released to avoid a deadlock. (2) REALM_CREATE initialises tables after dropping
their locks, although `rd.rs` states that an Rd is accessed only in the lock's
scope. (3) PSCI_AFFINITY_INFO checks the range of its target only with the
feature `gst_page_table`. (4) RTT_FOLD accepts a table whose entries are all tables
as homogeneous and puts an unassigned, empty entry in its place, although it is
described as mapping the same as a bigger block; the tables below are lost. (5) The
handlers map a page of the host before they check that it is the host's, and leave it
mapped when it is not (or when its address is not aligned), although the documentation says that host memory is mapped only
if it passes all checks.

## Proofs

Every theorem holds for all values of the constants that satisfy the `ASSUME`s of the
modules it is about. These say that sets are finite or not empty, that `None` and `Junk`
are not among the values they stand beside, and that the bounds are numbers
(`CountAssumption`, `CpuAssumption`, `RecAssumption`, `MapAssumption`, `ContextAssumption`,
`HesAssumption`, `RmmAssumption`, `PlatformAssumption`, ...). A theorem that needs more
has it as a hypothesis in its statement. Every invariant below was checked with TLC
before it was proved.

`RealmLifecycleProofs` proves every property of the run `lifecycle`.

1. `TypeInv` adds to `TypeOK` that a RIM was extended once by REALM_CREATE and
   once for each REC index handed out (`RimCounts`), without which the bound on
   the RIM does not survive an extension.
2. `StructInv` joins `RootsOwned`, `MetadataOwned`, `GptConsistent` and
   `VmidsExact`. None is inductive alone: that a destroyed realm's tables return
   to Delegated harms no one needs that no other realm has them, and removing its
   VMID needs that no other realm has it.
3. `NoResidue` follows step by step: only zeroing transitions reach Undelegated.
4. `CountInv` = `RefCountExact` and `OwnersKnown`. The step of REC_CREATE and
   REC_DESTROY is a cardinality argument (one element more or less, modulo 256).
5. `RecInv` = `OwnerAlive`, `VcpuidUnique` and `AuxOwned`, under `[]FewRecs`: fewer
   than 256 RECs of a realm at a time. It is an explicit hypothesis because the
   count is a `u8` and no handler refuses the 256th REC. With it, a zero count
   means no RECs, so REALM_DESTROY leaves none behind.
6. `ActiveMatchesMetadata`, `RimFrozen` and `GstTransitions` follow from the
   typing and the guards of the actions.

`RealmMemoryProofs` proves `TypeOK` and `MappedOnce` of `RealmMemory` for any sets of
realms, granules and pages. A step changes who has a granule in one of three ways:
a page gets a granule that was not Data (`PageGets`), a page gives its granule
back (`PageGives`), or pages keep or lose what they have (`PagesLose`);
`CommandsShrink` puts every other command in the third class. `MappedOnce` is
inductive given the typing: a page that gets a granule takes one outside `data`,
and what other pages hold is inside it. That the tables implement `RealmMemory` is
model-checked, not proved, and only where the folds of finding 4 cannot happen;
where they cannot, `MappedOnce` holds of the tables too.

`RecEnterProofs` proves `HostSimdPreserved`, `ContextPreserved` and `ListRegistersSound`
for any numbers of CPUs, RECs, granules and list registers, and for a host that shares
pages between calls or not. None is inductive: `IInv` joins the typing, `RecLocked` (no
two CPUs work on the same REC, which is what the REC's lock is for) and `RegistersInv`,
which says where the values are that are not in the registers: the host's in its save
area while a REC runs, a REC's in its context while it does not or has not touched
SIMD, and the traps open exactly when `is_used` is set. The list register after the
ones that are copied stays empty, which is why validating those before it suffices.
Actions that touch no register and lock no REC are handled together (`OutStep`).

`RmiHandlersProofs` proves `HTypeOK` for any number of CPUs, granules, tables and auxiliary
granules. The typing is not inductive alone: a handler writes an object through a pointer
it got before, so `LockInv` says that each lock is held by exactly the handler that took it
and has not dropped it, and what a handler at each of its points knows of its arguments.
`IndexInv` is what the RD's lock is for in REC_CREATE: the REC index that was checked is
still below its bound when the RIM is extended.

`RecRunProofs` proves every safety property of the run `rec_run`. They are different
views of one invariant: `RecInv` says what a REC may wait for when its x0, its runnable
flag, its saved ELR, the request its realm made and the number of its wakes are as they
are. A REC waits for one thing at a time, only while it is runnable; the request in the
`Rec` is the one the realm made, up to the address already served. `RipasConsent` and
`OffIsFinal` are properties of steps: `Authors` says which handler may change the RIPAS of
a page or the state of a realm.

`RmmMapProofs` proves `AccessMapped` and `HostPageReturned` under two hypotheses: the host
gives a page to one call at a time (`~Shared`; TLC refutes `AccessMapped` without it), and
the heap has a table for every region (`EnoughTables`). `MapInv` says for each state of a
call what the GST, the GPT and the page table hold for the pages it works on, that no two
calls work on the same page, and how the pages are that no call works on; how those are
mapped that a refused call left behind it does not say, as every handler that maps its pages
maps them anew. `LocalStep` reduces a step to the pages of the call that takes it. The lock of a
granule appears as the second; that another CPU's `map` and `unmap` of a page under the
same table leave this one alone is the step.

`RmmAttestProofs` proves `TokenWhole` and `SealedToIdentity`. `PartsOK` relates the parts a
REC has collected to its offset and challenge, and each part to the token of the realm's
measurements at the time; that those only grow (`Grows`) is what makes all parts one token
when nothing was extended in between.

`PlatformProofs` proves the safety properties of the run `platform`. `HesInv` has the shape of
the slots and of the queues, that a key in use was handed out on this connection, and
`Matched`: while no message was cut short, all that is in flight is the one request the
client waits for, or its answer. `TokenBound` has the hypothesis `TokensForRmm`, that EL3 asks
for a platform token on behalf of the RMM alone; with it, `Bound` ties every token that is
asked for, on its way or stored to the RMM's key.

Only model-checked: `RunningSafe`, `NoOrphans` and the refinement `Atomic` of `RmiHandlers`;
`Exclusive` and `RipasByConsent` of `Rtt`, and its refinement, which holds only where the
tables have two levels (finding 4); and liveness (`Answered` of `Platform`), which with
ENABLED is outside what TLAPS proves here.

## Not modelled

- TLB maintenance and the hardware's walks, in `Rtt` and in `RmmMap`; in `Rtt` also what
  the access flag does (the flag itself is in the entries), the other attributes, the
  measured range of INIT_RIPAS and the `walk_top` values that commands return.
- The return of REC_ENTER as a liveness property, for the reason above.
- The RMM's own image, stacks and device pages, which are mapped at start-up and never
  change.
- Realms with SVE or SME: `save_state` is `unimplemented!()` for them. The general
  purpose and system registers of a REC, which are saved and restored by assembly in
  one piece; the active priority registers of the GIC, and what of it is reported in the
  run page. Which register the assembly of `restore_fpu` uses for its address.
- RSI and RMI calls that only read (versions, features, REALM_CONFIG,
  MEASUREMENT_READ, IPA_STATE_GET, RTT_READ_ENTRY), and the dispatch tables.
- Bytes: CBOR, COSE, the PSA messages, hashes and key derivation are terms. The loop of
  `derive_p384_key` for a value outside the order of the curve is left out; it would
  derive the same value again.
- The exhaustion of the RMM's heap by translation tables: `RmmMap` has the branch, but
  how large the heap is against the machine's memory is not in the code.
- The GST build `gst_page_table`, which is not the default.
- The SDK, the example programs, the stand-alone HES tools, device drivers, register
  definitions and the Kani harnesses: no protocol state of their own.
