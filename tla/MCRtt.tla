------------------------------- MODULE MCRtt -------------------------------
(***************************************************************************)
(* Rtt beside RealmMemory.  The variable page always equals View, the map  *)
(* the tables stand for; it is a variable so that it is computed once for  *)
(* every state.                                                            *)
(***************************************************************************)
EXTENDS Rtt

VARIABLE page

MCInit == Init /\ page = View
MCNext == Next /\ page' = View'
MCSpec == MCInit /\ [][MCNext]_<<vars, page>>

RM == INSTANCE RealmMemory WITH data <- DataGranules, Unpar <- Ipa \ Par

\* The pages of one entry of a level.
EntryPages(ipa, level) == ipa .. ipa + mapping_size(level) - 1

\* The tables implement the map from pages to granules, command by command and
\* whatever the shape of the tree: RTT_CREATE and RTT_FOLD change no page;
\* RTT_DESTROY, RTT_MAP_UNPROTECTED and RTT_UNMAP_UNPROTECTED change the pages of the
\* entry they name, the DATA commands their page, RTT_SET_RIPAS the pages from base to
\* where it stops, all of them, and RTT_INIT_RIPAS pages between base and top; each as
\* RealmMemory says.
ImplementsRealmMemory ==
    /\ RM!Spec
    /\ [][\A r \in Realm :
          /\ RealmCreate(r) => RM!RealmCreate(r)
          /\ RealmActivate(r) => RM!RealmActivate(r)
          /\ RealmDestroy(r) => RM!RealmDestroy(r)
          /\ \A ipa \in Ipa, level \in Level :
                /\ (\E g \in Granule : RttCreate(r, g, ipa, level)) \/ RttFold(r, ipa, level)
                      => UNCHANGED <<life, DataGranules, page>>
                /\ RttDestroy(r, ipa, level)
                      => RM!RttDestroy(r, EntryPages(ipa, level - 1) \cap Par)
                /\ (\E pa \in NsPage : RttMapUnprotected(r, ipa, level, pa))
                      => RM!RttMapUnprotected(r, EntryPages(ipa, level))
                /\ RttUnmapUnprotected(r, ipa, level)
                      => RM!RttUnmapUnprotected(r, EntryPages(ipa, level))
          /\ \A ipa \in Par :
                /\ \A g \in Granule :
                      /\ DataCreate(r, g, ipa) => RM!DataCreate(r, ipa, g)
                      /\ DataCreateUnknown(r, g, ipa) => RM!DataCreateUnknown(r, ipa, g)
                /\ DataDestroy(r, ipa) => RM!DataDestroy(r, ipa)
          /\ \A base \in Par, top \in Ipa :
                /\ RttInitRipas(r, base, top)
                      => \E S \in SUBSET (base .. top - 1) : RM!RttInitRipas(r, S)
                /\ \A ripas \in {"EMPTY", "RAM"}, destroyed \in BOOLEAN :
                      RttSetRipas(r, base, top, ripas, destroyed)
                        => \E out \in base .. top :
                              RM!RttSetRipas(r, base .. out - 1, ripas, destroyed)
       ]_<<vars, page>>

\* In an active realm the RIPAS of a page changes to DESTROYED, or by the
\* realm's own RTT_SET_RIPAS request for that page; and a DESTROYED page only
\* by a request that accepts it (CHANGE_DESTROYED).
RipasByConsent ==
    [][\A r \in Realm : \A ipa \in Par :
          LET old == page[r][ipa].ripas
              new == page'[r][ipa].ripas
          IN life[r] = "Active" /\ life'[r] = "Active" /\ old # new =>
              \/ new = "DESTROYED"
              \/ \E base \in Par, top \in Ipa, destroyed \in BOOLEAN :
                    /\ base <= ipa /\ ipa < top
                    /\ old = "DESTROYED" => destroyed
                    /\ RttSetRipas(r, base, top, new, destroyed)]_<<vars, page>>

\* RTT_FOLD replaces a homogeneous table by one entry of its parent that says
\* the same: no page of the realm changes its state, its RIPAS or its granule.
FoldKeepsPages ==
    [][(\E r \in Realm, ipa \in Ipa, level \in Level : RttFold(r, ipa, level))
          => page' = page]_<<vars, page>>
=============================================================================
