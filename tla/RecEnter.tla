------------------------------ MODULE RecEnter ------------------------------
(***************************************************************************)
(* REC_ENTER on several CPUs (rmi/rec/handlers.rs), step by step: the run  *)
(* page is mapped, copied and unmapped (RmmMap), the host's list registers *)
(* are validated and taken over, the CPU goes into the REC and comes back  *)
(* any number of times (RecContext), and the run page is mapped again and  *)
(* written.  What the exits mean is RecRun's.  The RECs are there from the *)
(* beginning; the granules are those of the other handlers and of the run  *)
(* pages.                                                                  *)
(***************************************************************************)
EXTENDS RmmMap, RecContext

vars == <<mapVars, ctxVars>>

Init == RmmMapInit /\ RecContextInit

\* get_granule_if!(arg[0], Rec): the REC stays locked until the handler returns.
EnterBegin(p, c, run) ==
    /\ at[p].pc = "host"
    /\ \A q \in Cpu : at[q].rec # c
    /\ GivenSrc(p, run)
    /\ at' = [at EXCEPT ![p] = [AtHost EXCEPT !.pc = "map_src", !.kind = "Enter",
                                             !.src = run, !.rec = c]]
    /\ UNCHANGED <<gst, pas, map, tables, ctxVars>>

\* verify_compliance, the states of the realm and of the REC, or validate_state
\* say no.
EnterRefused(p) ==
    /\ at[p].pc = "check_run"
    /\ Return(p)
    /\ UNCHANGED <<gst, pas, map, tables, ctxVars>>

\* validate_state and receive_state_from_host, on the RMM's copy of the run page
EnterAccepted(p, lrs) ==
    /\ at[p].pc = "check_run"
    /\ ValidateState(lrs)
    /\ Receive(at[p].rec, lrs)
    /\ Goto(p, "prepare")
    /\ UNCHANGED <<gst, pas, map, tables, hw, nsSimd, hostFpu, left>>

\* run_prepare, rec::run
RunPrepare(p) ==
    /\ at[p].pc = "prepare"
    /\ IntoCurrent(p, at[p].rec)
    /\ Goto(p, "realm")
    /\ UNCHANGED <<gst, pas, map, tables>>

\* An exception that handle_lower_exception answers with RET_TO_RMM; afterwards
\* handle_realm_exit says whether the loop goes on.
RealmExit(p) ==
    /\ at[p].pc = "realm"
    /\ FromCurrent(p, at[p].rec)
    /\ \E l \in {"prepare", "map_out"} : Goto(p, l)
    /\ UNCHANGED <<gst, pas, map, tables>>

RealmRuns(p) ==
    /\ at[p].pc = "realm"
    /\ \/ SimdTrap(p, at[p].rec)
       \/ RealmWrites(p, at[p].rec)
    /\ UNCHANGED mapVars

\* send_state_to_host, and the run page again: copy_to_ptr gives up when the page
\* is not the host's any more, and the page is unmapped in either case.
MapOut(p) ==
    /\ at[p].pc = "map_out"
    /\ Map(at[p].src, "ns")
    /\ Goto(p, "check_out")
    /\ UNCHANGED <<gst, pas, ctxVars>>
CheckOut(p) ==
    /\ at[p].pc = "check_out"
    /\ Unlocked(at[p].src)
    /\ Goto(p, IF gst[at[p].src] = "Undelegated" THEN "copy_out" ELSE "unmap_out")
    /\ UNCHANGED <<gst, pas, map, tables, ctxVars>>
CopyOut(p) ==
    /\ at[p].pc = "copy_out"
    /\ Accessible(at[p].src)
    /\ Goto(p, "unmap_out")
    /\ UNCHANGED <<gst, pas, map, tables, ctxVars>>
UnmapOut(p) ==
    /\ at[p].pc = "unmap_out"
    /\ Unmap(at[p].src)
    /\ Return(p)
    /\ HostRuns(p)
    /\ UNCHANGED <<gst, pas>>

EnterStep(p) ==
    \/ \E c \in Rec, run \in Page : EnterBegin(p, c, run)
    \/ EnterRefused(p)
    \/ \E lrs \in HostLrs : EnterAccepted(p, lrs)
    \/ RunPrepare(p)
    \/ RealmExit(p)
    \/ RealmRuns(p)
    \/ MapOut(p)
    \/ CheckOut(p)
    \/ CopyOut(p)
    \/ UnmapOut(p)

Next == \E p \in Cpu : (MapStep(p) /\ UNCHANGED ctxVars) \/ EnterStep(p)

Spec == Init /\ [][Next]_vars

-----------------------------------------------------------------------------
(* Properties                                                               *)

\* The host finds its SIMD registers on a CPU as it left them, whatever RECs have
\* run there and on the other CPUs, and whether they used SIMD or not
\* (simd::restore_state and save_state).
HostSimdPreserved ==
    \A p \in Cpu : at[p].pc # "realm" => hw[p].fpu = hostFpu[p] /\ hw[p].open

\* A REC finds its registers as it left them, on whatever CPU it goes on: its timer
\* at once, its SIMD registers when it can reach them, that is once it has
\* trapped (into_current, from_current and the SIMD trap).
ContextPreserved ==
    \A p \in Cpu :
        at[p].pc = "realm" =>
            /\ hw[p].timer = left[at[p].rec].timer
            /\ hw[p].open /\ left[at[p].rec].fpu # None => hw[p].fpu = left[at[p].rec].fpu

\* While a REC runs, the virtual interface is on, every list register in use is
\* well formed, and no two have the same vINTID ("Behavior is UNPREDICTABLE if two
\* or more List Registers specify the same vINTID", rec/gic.rs:278); while it does
\* not, the interface is off.
ListRegistersSound ==
    \A p \in Cpu :
        /\ hw[p].en <=> at[p].pc = "realm"
        /\ at[p].pc = "realm" =>
              \A i \in Lr : hw[p].lrs[i] # None =>
                  /\ hw[p].lrs[i].wellFormed
                  /\ \A j \in Lr \ {i} :
                        hw[p].lrs[j] # None => hw[p].lrs[j].vintid # hw[p].lrs[i].vintid
=============================================================================
