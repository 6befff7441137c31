------------------------ MODULE MetadataLifetimeProofs ------------------------
(***************************************************************************)
(* The lifetime of ModuleMetadata objects: every pointer the module map or *)
(* a ReJIT module handler keeps is to a live object (MetadataRefsLive),    *)
(* for every value of the constants.                                       *)
(***************************************************************************)
EXTENDS ProfilerCallbacksProofs

(***************************************************************************)
(* MetadataRefsLive is not inductive.  A step of ModuleLoadFinished stores *)
(* the pointer it drew before taking the lock, ModuleUnloadStarted frees   *)
(* the pointer of one module only, and Shutdown drops the handler; each    *)
(* relies on a fact about the rest of the state:                           *)
(***************************************************************************)

\* No two modules share a ModuleMetadata: freeing one module's object
\* leaves the others live.
MapInjective ==
    \A m1, m2 \in Modules :
        m1 # m2 /\ module_id_to_info_map[m1] # 0 =>
            module_id_to_info_map[m1] # module_id_to_info_map[m2]

\* The allocator never returns an object already in use.
FreshUnused ==
    \A q \in Ptr : q >= next_meta => meta_state[q] = "unused"

\* A thread that has drawn its pointer and waits for the lock holds a
\* pointer not yet in use, for a module the host is loading.
LoadingHoldsFresh ==
    \A p \in Threads :
        th[p].pc = "mlf_lock" =>
            /\ th[p].meta \in Ptr
            /\ th[p].meta < next_meta
            /\ meta_state[th[p].meta] = "unused"
            /\ host_module[th[p].mod] = "loading"

\* Two such threads hold different pointers.
LoadingDistinct ==
    \A p1, p2 \in Threads :
        /\ p1 # p2
        /\ th[p1].pc = "mlf_lock"
        /\ th[p2].pc = "mlf_lock"
        => th[p1].meta # th[p2].meta

\* Two threads waiting for the lock in ModuleLoadFinished or
\* ModuleUnloadStarted are about different modules (the host sends one
\* load or unload callback per module at a time).
HeldDistinct ==
    \A p1, p2 \in Threads :
        /\ p1 # p2
        /\ th[p1].pc \in {"mlf_lock", "mus_lock"}
        /\ th[p2].pc \in {"mlf_lock", "mus_lock"}
        => th[p1].mod # th[p2].mod

\* While attached, a module with a map entry is loaded (or unloading) in
\* the host, so ModuleLoadFinished never overwrites an entry.
StoredLoaded ==
    \A m \in Modules :
        is_attached /\ module_id_to_info_map[m] # 0 =>
            host_module[m] \in {"loaded", "unloading"}

\* Once Shutdown has deleted the ReJIT handler, no module handler is left.
HandlerClearedAfterShutdown ==
    rejit_handler = "null" => \A m \in Modules : handler_module_meta[m] = 0

\* A thread inside ModuleUnloadStarted's lock holds a module the host is
\* unloading, so no thread of ModuleLoadFinished is about that module.
UnloadingHeld ==
    \A p \in Threads :
        th[p].pc = "mus_lock" => host_module[th[p].mod] = "unloading"

\* Shutdown clears the handler and is_attached_ in one critical section.
HandlerNullDetached ==
    rejit_handler = "null" => ~is_attached

MetaRest ==
    /\ MetadataRefsLive
    /\ MapInjective
    /\ FreshUnused
    /\ LoadingHoldsFresh
    /\ LoadingDistinct
    /\ HeldDistinct
    /\ StoredLoaded
    /\ HandlerClearedAfterShutdown
    /\ UnloadingHeld
    /\ HandlerNullDetached

\* The inductive invariant behind MetadataRefsLive: the types, and every
\* ModuleMetadata reference live, the allocator fresh, each waiting
\* ModuleLoadFinished holding an unused pointer of its own for a module
\* nobody else is about, and Shutdown's handler deletion tied to
\* is_attached_ (checked by a run, proved by MetadataRefsLiveHolds).
MetaInv == TypeInv /\ MetaRest

-----------------------------------------------------------------------------

LEMMA MetaInit == Init => MetaRest
<1> SUFFICES ASSUME Init PROVE MetaRest
    OBVIOUS
<1>1. \A q \in Threads : th[q].pc = "idle"
    BY DEF Init, Idle
<1>2. QED
    BY <1>1, MaxLoadsType DEF Init, MetaRest, MetadataRefsLive, MapInjective,
         FreshUnused, LoadingHoldsFresh, LoadingDistinct, HeldDistinct,
         StoredLoaded, HandlerClearedAfterShutdown, UnloadingHeld,
         HandlerNullDetached, Ptr

\* No thread enters or leaves the lock of ModuleLoadFinished or
\* ModuleUnloadStarted, and none inside it changes.
HeldKept ==
    \A q \in Threads :
        th'[q].pc \in {"mlf_lock", "mus_lock"} => th'[q] = th[q]

\* A step that leaves the map, the objects, the allocator, the handler's
\* pointers and the host's modules alone, and at most clears is_attached_,
\* keeps MetaRest.
LEMMA QuietStep ==
    ASSUME MetaRest, HeldKept,
           module_id_to_info_map' = module_id_to_info_map,
           meta_state' = meta_state,
           next_meta' = next_meta,
           handler_module_meta' = handler_module_meta,
           host_module' = host_module,
           rejit_handler' = rejit_handler,
           is_attached' => is_attached
    PROVE  MetaRest'
<1> USE DEF HeldKept
<1>1. MetadataRefsLive' /\ MapInjective' /\ FreshUnused'
    BY DEF MetaRest, MetadataRefsLive, MapInjective, FreshUnused
<1>2. LoadingHoldsFresh' /\ LoadingDistinct' /\ HeldDistinct'
    BY DEF MetaRest, LoadingHoldsFresh, LoadingDistinct, HeldDistinct
<1>3. StoredLoaded' /\ HandlerClearedAfterShutdown' /\ HandlerNullDetached'
    BY Zenon DEF MetaRest, StoredLoaded, HandlerClearedAfterShutdown,
                 HandlerNullDetached
<1>4. UnloadingHeld'
    BY DEF MetaRest, UnloadingHeld
<1>5. QED
    BY <1>1, <1>2, <1>3, <1>4 DEF MetaRest


\* The typing facts the step lemmas below use.
LEMMA TypeFacts ==
    ASSUME TypeInv
    PROVE  /\ is_attached \in BOOLEAN
           /\ rejit_handler \in {"live", "null"}
           /\ module_id_to_info_map \in [Modules -> 0..MaxLoads]
           /\ meta_state \in [Ptr -> {"unused", "live", "freed"}]
           /\ next_meta \in 1..MaxLoads + 1
           /\ handler_module_meta \in [Modules -> 0..MaxLoads]
           /\ host_module \in [Modules -> {"absent", "loading", "loaded",
                                           "unloading"}]
           /\ th \in [Threads -> ThreadState]
           /\ \A q \in Threads : th[q].pc \in {"mlf_lock", "mus_lock"} =>
                                     th[q].mod \in Modules
BY DEF TypeInv, TypeBool, RestInv, TypeRest, BusyThreadsNamed

\* ModuleLoadFinished draws a fresh pointer for a module nobody is about.
LEMMA StepMLFStart ==
    ASSUME TypeInv, MetaRest, NEW p \in Threads, NEW m \in Modules,
           MLF_Start(p, m)
    PROVE  MetaRest'
<1>1. /\ module_id_to_info_map \in [Modules -> 0..MaxLoads]
      /\ meta_state \in [Ptr -> {"unused", "live", "freed"}]
      /\ host_module \in [Modules -> {"absent", "loading", "loaded", "unloading"}]
      /\ th \in [Threads -> ThreadState]
      /\ \A q \in Threads : th[q].pc \in {"mlf_lock", "mus_lock"} =>
                                th[q].mod \in Modules
    BY TypeFacts
<1>2. next_meta \in 1..MaxLoads
    BY TypeFacts, MaxLoadsType DEF MLF_Start, CanLoad
<1> DEFINE r == [Idle EXCEPT !.pc = "mlf_lock", !.mod = m, !.meta = next_meta]
<1>3. r.pc = "mlf_lock" /\ r.mod = m /\ r.meta = next_meta
    BY DEF Idle
<1>4. /\ th' = [th EXCEPT ![p] = r]
      /\ host_module' = [host_module EXCEPT ![m] = "loading"]
      /\ next_meta' = next_meta + 1
      /\ host_module[m] = "absent"
      /\ \A q \in Threads : th[q].mod # m
      /\ UNCHANGED <<is_attached, rejit_handler, module_id_to_info_map,
                     meta_state, handler_module_meta>>
    BY DEF MLF_Start, CanLoad, NewMetadata, handler
<1>5. MetadataRefsLive' /\ MapInjective' /\ FreshUnused'
    BY <1>2, <1>4 DEF MetaRest, MetadataRefsLive, MapInjective, FreshUnused, Ptr
<1>6. LoadingHoldsFresh'
    BY <1>1, <1>2, <1>3, <1>4 DEF MetaRest, LoadingHoldsFresh, FreshUnused, Ptr
<1>7. LoadingDistinct' /\ HeldDistinct'
    BY <1>1, <1>2, <1>3, <1>4 DEF MetaRest, LoadingDistinct, HeldDistinct,
                                  LoadingHoldsFresh
<1>8. StoredLoaded'
    BY <1>1, <1>4 DEF MetaRest, StoredLoaded
<1>9. HandlerClearedAfterShutdown' /\ HandlerNullDetached'
    BY <1>4 DEF MetaRest, HandlerClearedAfterShutdown, HandlerNullDetached
<1>10. UnloadingHeld'
    BY <1>1, <1>3, <1>4 DEF MetaRest, UnloadingHeld
<1>11. QED
    BY <1>5, <1>6, <1>7, <1>8, <1>9, <1>10 DEF MetaRest

\* ModuleLoadFinished while detached: the host loads a module nobody is
\* about; is_attached_ is false, so the map needs no entry for it.
LEMMA StepMLFUnattached ==
    ASSUME TypeInv, MetaRest, NEW p \in Threads, NEW m \in Modules,
           MLF_Unattached(p, m)
    PROVE  MetaRest'
<1>1. /\ host_module \in [Modules -> {"absent", "loading", "loaded", "unloading"}]
      /\ \A q \in Threads : th[q].pc \in {"mlf_lock", "mus_lock"} =>
                                th[q].mod \in Modules
    BY TypeFacts
<1>2. /\ host_module' = [host_module EXCEPT ![m] = "loaded"]
      /\ ~is_attached
      /\ \A q \in Threads : th[q].mod # m
      /\ UNCHANGED <<is_attached, rejit_handler, module_id_to_info_map,
                     meta_state, next_meta, handler_module_meta, th>>
    BY DEF MLF_Unattached, CanLoad, profiler, handler
<1>3. /\ MetadataRefsLive' /\ MapInjective' /\ FreshUnused'
      /\ LoadingDistinct' /\ HeldDistinct'
      /\ HandlerClearedAfterShutdown' /\ HandlerNullDetached'
    BY <1>2 DEF MetaRest, MetadataRefsLive, MapInjective, FreshUnused,
                LoadingDistinct, HeldDistinct, HandlerClearedAfterShutdown,
                HandlerNullDetached
<1>4. StoredLoaded'
    BY <1>2 DEF StoredLoaded
<1>5. LoadingHoldsFresh' /\ UnloadingHeld'
    BY <1>1, <1>2 DEF MetaRest, LoadingHoldsFresh, UnloadingHeld
<1>6. QED
    BY <1>3, <1>4, <1>5 DEF MetaRest

\* ModuleUnloadStarted takes a loaded module: no thread holds it.
LEMMA StepMUSStart ==
    ASSUME TypeInv, MetaRest, NEW p \in Threads, NEW m \in Modules,
           MUS_Start(p, m)
    PROVE  MetaRest'
<1>1. /\ host_module \in [Modules -> {"absent", "loading", "loaded", "unloading"}]
      /\ th \in [Threads -> ThreadState]
      /\ \A q \in Threads : th[q].pc \in {"mlf_lock", "mus_lock"} =>
                                th[q].mod \in Modules
    BY TypeFacts
<1> DEFINE r == [Idle EXCEPT !.pc = "mus_lock", !.mod = m]
<1>2. r.pc = "mus_lock" /\ r.mod = m
    BY DEF Idle
<1>3. /\ th' = [th EXCEPT ![p] = r]
      /\ host_module' = [host_module EXCEPT ![m] = "unloading"]
      /\ th[p].pc = "idle"
      /\ host_module[m] = "loaded"
      /\ UNCHANGED <<is_attached, rejit_handler, module_id_to_info_map,
                     meta_state, next_meta, handler_module_meta>>
    BY DEF MUS_Start, profiler, handler
<1>4. \A q \in Threads : th[q].pc \in {"mlf_lock", "mus_lock"} => th[q].mod # m
    BY <1>1, <1>3 DEF MetaRest, LoadingHoldsFresh, UnloadingHeld
<1>5. /\ MetadataRefsLive' /\ MapInjective' /\ FreshUnused'
      /\ HandlerClearedAfterShutdown' /\ HandlerNullDetached'
    BY <1>3 DEF MetaRest, MetadataRefsLive, MapInjective, FreshUnused,
                HandlerClearedAfterShutdown, HandlerNullDetached
<1>6. LoadingHoldsFresh' /\ LoadingDistinct'
    BY <1>1, <1>2, <1>3, <1>4 DEF MetaRest, LoadingHoldsFresh, LoadingDistinct
<1>7. HeldDistinct' /\ UnloadingHeld'
    BY <1>1, <1>2, <1>3, <1>4 DEF MetaRest, HeldDistinct, UnloadingHeld
<1>8. StoredLoaded'
    BY <1>1, <1>3 DEF MetaRest, StoredLoaded
<1>9. QED
    BY <1>5, <1>6, <1>7, <1>8 DEF MetaRest

\* ModuleUnloadStarted while detached: the host unloads a module nobody
\* holds.
LEMMA StepMUSUnattached ==
    ASSUME TypeInv, MetaRest, NEW p \in Threads, NEW m \in Modules,
           MUS_Unattached(p, m)
    PROVE  MetaRest'
<1>1. /\ host_module \in [Modules -> {"absent", "loading", "loaded", "unloading"}]
      /\ \A q \in Threads : th[q].pc \in {"mlf_lock", "mus_lock"} =>
                                th[q].mod \in Modules
    BY TypeFacts
<1>2. /\ host_module' = [host_module EXCEPT ![m] = "absent"]
      /\ ~is_attached
      /\ host_module[m] = "loaded"
      /\ UNCHANGED <<is_attached, rejit_handler, module_id_to_info_map,
                     meta_state, next_meta, handler_module_meta, th>>
    BY DEF MUS_Unattached, HostUnloaded, profiler, handler
<1>3. /\ MetadataRefsLive' /\ MapInjective' /\ FreshUnused'
      /\ LoadingDistinct' /\ HeldDistinct'
      /\ HandlerClearedAfterShutdown' /\ HandlerNullDetached'
    BY <1>2 DEF MetaRest, MetadataRefsLive, MapInjective, FreshUnused,
                LoadingDistinct, HeldDistinct, HandlerClearedAfterShutdown,
                HandlerNullDetached
<1>4. StoredLoaded'
    BY <1>2 DEF StoredLoaded
<1>5. LoadingHoldsFresh' /\ UnloadingHeld'
    BY <1>1, <1>2 DEF MetaRest, LoadingHoldsFresh, UnloadingHeld
<1>6. QED
    BY <1>3, <1>4, <1>5 DEF MetaRest


\* ModuleLoadFinished stores its fresh pointer: the module had no entry and
\* no handler, and the pointer was unused, so every reference stays live.
LEMMA StepMLFStore ==
    ASSUME TypeInv, MetaRest, NEW p \in Threads, MLF_Store(p)
    PROVE  MetaRest'
<1> DEFINE m == th[p].mod
           k == th[p].meta
<1>1. /\ module_id_to_info_map \in [Modules -> 0..MaxLoads]
      /\ meta_state \in [Ptr -> {"unused", "live", "freed"}]
      /\ host_module \in [Modules -> {"absent", "loading", "loaded", "unloading"}]
      /\ handler_module_meta \in [Modules -> 0..MaxLoads]
      /\ th \in [Threads -> ThreadState]
      /\ \A q \in Threads : th[q].pc \in {"mlf_lock", "mus_lock"} =>
                                th[q].mod \in Modules
    BY TypeFacts
<1>2. /\ th[p].pc = "mlf_lock"
      /\ is_attached
      /\ rejit_handler = "live"
    BY DEF MLF_Store, StillAttached
<1>3. /\ m \in Modules
      /\ k \in Ptr
      /\ k < next_meta
      /\ meta_state[k] = "unused"
      /\ host_module[m] = "loading"
    BY <1>1, <1>2 DEF MetaRest, LoadingHoldsFresh
<1>4. module_id_to_info_map[m] = 0
    BY <1>2, <1>3 DEF MetaRest, StoredLoaded
<1>5. handler_module_meta[m] = 0
    BY <1>3, <1>4 DEF MetaRest, MetadataRefsLive
<1>6. \/ handler_module_meta' = handler_module_meta
      \/ handler_module_meta' = [handler_module_meta EXCEPT ![m] = k]
    <2>1. CASE m = InstrModule
        BY <2>1 DEF MLF_Store, handler
    <2>2. CASE m # InstrModule
        BY <2>2 DEF MLF_Store, RequestRejitForModule, handler
    <2>3. QED
        BY <2>1, <2>2
<1>7. /\ module_id_to_info_map' = [module_id_to_info_map EXCEPT ![m] = k]
      /\ meta_state' = [meta_state EXCEPT ![k] = "live"]
      /\ host_module' = [host_module EXCEPT ![m] = "loaded"]
      /\ th' = [th EXCEPT ![p] = Idle]
      /\ UNCHANGED <<is_attached, rejit_handler, next_meta>>
    BY DEF MLF_Store
<1>8. Idle.pc = "idle"
    BY DEF Idle
<1>9. \A m2 \in Modules : module_id_to_info_map[m2] # 0 =>
                              module_id_to_info_map[m2] # k
    BY <1>1, <1>3 DEF MetaRest, MetadataRefsLive
<1>10. MetadataRefsLive'
    <2>1. \A m2 \in Modules : module_id_to_info_map'[m2] # 0 =>
              meta_state'[module_id_to_info_map'[m2]] = "live"
        BY <1>1, <1>3, <1>7, <1>9 DEF MetaRest, MetadataRefsLive, Ptr
    <2>2. \A m2 \in Modules : handler_module_meta'[m2] # 0 =>
              handler_module_meta'[m2] = module_id_to_info_map'[m2]
        BY <1>1, <1>3, <1>5, <1>6, <1>7 DEF MetaRest, MetadataRefsLive
    <2>3. QED
        BY <2>1, <2>2 DEF MetadataRefsLive
<1>11. MapInjective' /\ FreshUnused'
    <2>1. MapInjective'
        <3> SUFFICES ASSUME NEW m1 \in Modules, NEW m2 \in Modules, m1 # m2,
                            module_id_to_info_map'[m1] # 0
                     PROVE  module_id_to_info_map'[m1] # module_id_to_info_map'[m2]
            BY DEF MapInjective
        <3>1. CASE m1 = m
            BY <3>1, <1>1, <1>3, <1>7, <1>9 DEF Ptr
        <3>2. CASE m2 = m
            BY <3>2, <1>1, <1>7, <1>9
        <3>3. CASE m1 # m /\ m2 # m
            BY <3>3, <1>1, <1>7 DEF MetaRest, MapInjective
        <3>4. QED
            BY <3>1, <3>2, <3>3
    <2>2. FreshUnused'
        <3>1. next_meta \in Nat
            BY TypeFacts, MaxLoadsType
        <3>2. QED
            BY <3>1, <1>1, <1>3, <1>7 DEF MetaRest, FreshUnused, Ptr
    <2>3. QED
        BY <2>1, <2>2
<1>12. LoadingHoldsFresh'
    BY <1>1, <1>2, <1>3, <1>7, <1>8 DEF MetaRest, LoadingHoldsFresh,
                                         LoadingDistinct, HeldDistinct
<1>13. LoadingDistinct' /\ HeldDistinct'
    BY <1>1, <1>7, <1>8 DEF MetaRest, LoadingDistinct, HeldDistinct
<1>14. StoredLoaded'
    BY <1>1, <1>3, <1>7 DEF MetaRest, StoredLoaded
<1>15. HandlerClearedAfterShutdown' /\ HandlerNullDetached'
    BY <1>2, <1>7 DEF HandlerClearedAfterShutdown, HandlerNullDetached
<1>16. UnloadingHeld'
    BY <1>1, <1>2, <1>3, <1>7, <1>8 DEF MetaRest, UnloadingHeld, HeldDistinct
<1>17. QED
    BY <1>10, <1>11, <1>12, <1>13, <1>14, <1>15, <1>16 DEF MetaRest

\* ModuleLoadFinished finds the profiler detached under the lock: the
\* handler was deleted only together with is_attached_, so it is detached.
LEMMA StepMLFDetached ==
    ASSUME TypeInv, MetaRest, NEW p \in Threads, MLF_Detached(p)
    PROVE  MetaRest'
<1> DEFINE m == th[p].mod
<1>1. /\ host_module \in [Modules -> {"absent", "loading", "loaded", "unloading"}]
      /\ th \in [Threads -> ThreadState]
      /\ \A q \in Threads : th[q].pc \in {"mlf_lock", "mus_lock"} =>
                                th[q].mod \in Modules
    BY TypeFacts
<1>2. ~is_attached
    <2>1. rejit_handler \in {"live", "null"} /\ ~StillAttached
        BY TypeFacts DEF MLF_Detached
    <2>2. QED
        BY <2>1, Zenon DEF StillAttached, MetaRest, HandlerNullDetached
<1>3. /\ th[p].pc = "mlf_lock"
      /\ host_module' = [host_module EXCEPT ![m] = "loaded"]
      /\ th' = [th EXCEPT ![p] = Idle]
      /\ UNCHANGED <<is_attached, rejit_handler, module_id_to_info_map,
                     meta_state, next_meta, handler_module_meta>>
    BY DEF MLF_Detached, profiler, handler
<1>4. Idle.pc = "idle" /\ m \in Modules /\ host_module[m] = "loading"
    BY <1>1, <1>3 DEF Idle, MetaRest, LoadingHoldsFresh
<1>5. /\ MetadataRefsLive' /\ MapInjective' /\ FreshUnused'
      /\ HandlerClearedAfterShutdown' /\ HandlerNullDetached'
    BY <1>3 DEF MetaRest, MetadataRefsLive, MapInjective, FreshUnused,
                HandlerClearedAfterShutdown, HandlerNullDetached
<1>6. StoredLoaded'
    BY <1>2, <1>3 DEF StoredLoaded
<1>7. LoadingHoldsFresh' /\ UnloadingHeld'
    BY <1>1, <1>3, <1>4 DEF MetaRest, LoadingHoldsFresh, UnloadingHeld,
                            HeldDistinct
<1>8. LoadingDistinct' /\ HeldDistinct'
    BY <1>1, <1>3, <1>4 DEF MetaRest, LoadingDistinct, HeldDistinct
<1>9. QED
    BY <1>5, <1>6, <1>7, <1>8 DEF MetaRest


\* ModuleUnloadStarted frees the module's object: no other module and no
\* waiting loader refers to it, and the handler drops its pointer with it.
LEMMA StepMUSRemove ==
    ASSUME TypeInv, MetaRest, NEW p \in Threads, MUS_Remove(p)
    PROVE  MetaRest'
<1> DEFINE m == th[p].mod
           k == module_id_to_info_map[m]
<1>1. /\ module_id_to_info_map \in [Modules -> 0..MaxLoads]
      /\ meta_state \in [Ptr -> {"unused", "live", "freed"}]
      /\ host_module \in [Modules -> {"absent", "loading", "loaded", "unloading"}]
      /\ handler_module_meta \in [Modules -> 0..MaxLoads]
      /\ th \in [Threads -> ThreadState]
      /\ \A q \in Threads : th[q].pc \in {"mlf_lock", "mus_lock"} =>
                                th[q].mod \in Modules
      /\ next_meta \in Nat
    BY TypeFacts, MaxLoadsType
<1>2. th[p].pc = "mus_lock" /\ is_attached /\ k # 0
    BY DEF MUS_Remove
<1>3. rejit_handler = "live"
    <2>1. rejit_handler \in {"live", "null"}
        BY TypeFacts
    <2>2. QED
        BY <1>2, <2>1, Zenon DEF MetaRest, HandlerNullDetached
<1>4. /\ m \in Modules
      /\ host_module[m] = "unloading"
      /\ k \in Ptr
      /\ meta_state[k] = "live"
    BY <1>1, <1>2 DEF MetaRest, UnloadingHeld, MetadataRefsLive, Ptr
<1>5. k < next_meta
    BY <1>1, <1>4 DEF MetaRest, FreshUnused, Ptr
<1>6. \A m2 \in Modules : m2 # m /\ module_id_to_info_map[m2] # 0 =>
                              module_id_to_info_map[m2] # k
    BY <1>2, <1>4 DEF MetaRest, MapInjective
<1>7. /\ module_id_to_info_map' = [module_id_to_info_map EXCEPT ![m] = 0]
      /\ meta_state' = [meta_state EXCEPT ![k] = "freed"]
      /\ host_module' = [host_module EXCEPT ![m] = "absent"]
      /\ th' = [th EXCEPT ![p] = Idle]
      /\ UNCHANGED <<is_attached, rejit_handler, next_meta>>
    BY DEF MUS_Remove, HostUnloaded
<1>8. handler_module_meta' = [handler_module_meta EXCEPT ![m] = 0]
    BY <1>3 DEF MUS_Remove, RemoveModule
<1>9. Idle.pc = "idle"
    BY DEF Idle
<1>10. MetadataRefsLive'
    <2>1. \A m2 \in Modules : module_id_to_info_map'[m2] # 0 =>
              meta_state'[module_id_to_info_map'[m2]] = "live"
        BY <1>1, <1>4, <1>6, <1>7 DEF MetaRest, MetadataRefsLive
    <2>2. \A m2 \in Modules : handler_module_meta'[m2] # 0 =>
              handler_module_meta'[m2] = module_id_to_info_map'[m2]
        BY <1>1, <1>4, <1>7, <1>8 DEF MetaRest, MetadataRefsLive
    <2>3. QED
        BY <2>1, <2>2 DEF MetadataRefsLive
<1>11. MapInjective'
    BY <1>1, <1>4, <1>7 DEF MetaRest, MapInjective
<1>12. FreshUnused'
    BY <1>1, <1>4, <1>5, <1>7 DEF MetaRest, FreshUnused, Ptr
<1>13. LoadingHoldsFresh'
    BY <1>1, <1>4, <1>7, <1>9 DEF MetaRest, LoadingHoldsFresh
<1>14. LoadingDistinct' /\ HeldDistinct'
    BY <1>1, <1>7, <1>9 DEF MetaRest, LoadingDistinct, HeldDistinct
<1>15. StoredLoaded'
    BY <1>1, <1>4, <1>7 DEF MetaRest, StoredLoaded
<1>16. HandlerClearedAfterShutdown' /\ HandlerNullDetached'
    BY <1>3, <1>7 DEF HandlerClearedAfterShutdown, HandlerNullDetached
<1>17. UnloadingHeld'
    BY <1>1, <1>2, <1>4, <1>7, <1>9 DEF MetaRest, UnloadingHeld, HeldDistinct
<1>18. QED
    BY <1>10, <1>11, <1>12, <1>13, <1>14, <1>15, <1>16, <1>17 DEF MetaRest

\* ModuleUnloadStarted with nothing to remove: the host forgets a module
\* with no entry, or is_attached_ is false.
LEMMA StepMUSSkip ==
    ASSUME TypeInv, MetaRest, NEW p \in Threads, MUS_Skip(p)
    PROVE  MetaRest'
<1> DEFINE m == th[p].mod
<1>1. /\ host_module \in [Modules -> {"absent", "loading", "loaded", "unloading"}]
      /\ th \in [Threads -> ThreadState]
      /\ \A q \in Threads : th[q].pc \in {"mlf_lock", "mus_lock"} =>
                                th[q].mod \in Modules
    BY TypeFacts
<1>2. /\ th[p].pc = "mus_lock"
      /\ host_module' = [host_module EXCEPT ![m] = "absent"]
      /\ th' = [th EXCEPT ![p] = Idle]
      /\ UNCHANGED <<is_attached, rejit_handler, module_id_to_info_map,
                     meta_state, next_meta, handler_module_meta>>
    BY DEF MUS_Skip, HostUnloaded, profiler, handler
<1>3. is_attached => module_id_to_info_map[m] = 0
    BY Zenon DEF MUS_Skip
<1>4. Idle.pc = "idle" /\ m \in Modules /\ host_module[m] = "unloading"
    BY <1>1, <1>2 DEF Idle, MetaRest, UnloadingHeld
<1>5. /\ MetadataRefsLive' /\ MapInjective' /\ FreshUnused'
      /\ HandlerClearedAfterShutdown' /\ HandlerNullDetached'
    BY <1>2 DEF MetaRest, MetadataRefsLive, MapInjective, FreshUnused,
                HandlerClearedAfterShutdown, HandlerNullDetached
<1>6. StoredLoaded'
    BY <1>1, <1>2, <1>3, <1>4 DEF MetaRest, StoredLoaded
<1>7. LoadingHoldsFresh'
    BY <1>1, <1>2, <1>4 DEF MetaRest, LoadingHoldsFresh
<1>8. UnloadingHeld'
    BY <1>1, <1>2, <1>4 DEF MetaRest, UnloadingHeld, HeldDistinct
<1>9. LoadingDistinct' /\ HeldDistinct'
    BY <1>1, <1>2, <1>4 DEF MetaRest, LoadingDistinct, HeldDistinct
<1>10. QED
    BY <1>5, <1>6, <1>7, <1>8, <1>9 DEF MetaRest

\* Shutdown drops every module handler together with the ReJIT handler
\* and clears is_attached_.
LEMMA StepShutdown ==
    ASSUME TypeInv, MetaRest, NEW p \in Threads, Shutdown(p)
    PROVE  MetaRest'
<1>1. /\ handler_module_meta' = [mo \in Modules |-> 0]
      /\ rejit_handler' = "null"
      /\ is_attached' = FALSE
      /\ UNCHANGED <<module_id_to_info_map, meta_state, next_meta,
                     host_module, th>>
    BY DEF Shutdown
<1>2. MetadataRefsLive' /\ HandlerClearedAfterShutdown'
    BY <1>1 DEF MetaRest, MetadataRefsLive, HandlerClearedAfterShutdown
<1>3. StoredLoaded' /\ HandlerNullDetached'
    BY <1>1 DEF StoredLoaded, HandlerNullDetached
<1>4. /\ MapInjective' /\ FreshUnused' /\ LoadingHoldsFresh'
      /\ LoadingDistinct' /\ HeldDistinct' /\ UnloadingHeld'
    BY <1>1 DEF MetaRest, MapInjective, FreshUnused, LoadingHoldsFresh,
                LoadingDistinct, HeldDistinct, UnloadingHeld
<1>5. QED
    BY <1>2, <1>3, <1>4 DEF MetaRest


\* Every step keeps MetaRest.
LEMMA MetaStep == TypeInv /\ MetaRest /\ [Next]_vars => MetaRest'
<1> SUFFICES ASSUME TypeInv, MetaRest, [Next]_vars PROVE MetaRest'
    OBVIOUS
<1>0. th \in [Threads -> ThreadState]
    BY TypeFacts
<1>1. ASSUME NEW p \in Threads, NEW m \in Modules, MLF_Start(p, m) PROVE MetaRest'
    BY <1>1, StepMLFStart
<1>2. ASSUME NEW p \in Threads, NEW m \in Modules, MLF_Unattached(p, m) PROVE MetaRest'
    BY <1>2, StepMLFUnattached
<1>3. ASSUME NEW p \in Threads, NEW m \in Modules, MUS_Start(p, m) PROVE MetaRest'
    BY <1>3, StepMUSStart
<1>4. ASSUME NEW p \in Threads, NEW m \in Modules, MUS_Unattached(p, m) PROVE MetaRest'
    BY <1>4, StepMUSUnattached
<1>5. ASSUME NEW p \in Threads, MLF_Store(p) PROVE MetaRest'
    BY <1>5, StepMLFStore
<1>6. ASSUME NEW p \in Threads, MLF_Detached(p) PROVE MetaRest'
    BY <1>6, StepMLFDetached
<1>7. ASSUME NEW p \in Threads, MUS_Remove(p) PROVE MetaRest'
    BY <1>7, StepMUSRemove
<1>8. ASSUME NEW p \in Threads, MUS_Skip(p) PROVE MetaRest'
    BY <1>8, StepMUSSkip
<1>9. ASSUME NEW p \in Threads, Shutdown(p) PROVE MetaRest'
    BY <1>9, StepShutdown
<1>10. ASSUME NEW p \in Threads, AssemblyLoadFinished(p) PROVE MetaRest'
    <2>1. HeldKept
        BY <1>10, <1>0 DEF AssemblyLoadFinished, HeldKept, Idle
    <2>2. QED
        BY <2>1, <1>10, QuietStep DEF AssemblyLoadFinished, profiler, handler, host
<1>11. ASSUME NEW p \in Threads, Detach_Start(p) PROVE MetaRest'
    <2>1. HeldKept
        BY <1>11, <1>0 DEF Detach_Start, Goto, HeldKept, Idle
    <2>2. QED
        BY <2>1, <1>11, QuietStep DEF Detach_Start, Goto, profiler, handler, host
<1>12. ASSUME NEW p \in Threads, Detach_Locked(p) PROVE MetaRest'
    <2>1. HeldKept
        BY <1>12, <1>0 DEF Detach_Locked, HeldKept, Idle
    <2>2. QED
        BY <2>1, <1>12, QuietStep DEF Detach_Locked, profiler, handler, host
<1>13. ASSUME NEW p \in Threads, NEW x \in Targets, GRP_Start(p, x) PROVE MetaRest'
    <2>1. HeldKept
        BY <1>13, <1>0 DEF GRP_Start, CanGrant, HeldKept, Idle
    <2>2. QED
        BY <2>1, <1>13, QuietStep DEF GRP_Start, CanGrant, profiler, handler, host
<1>14. ASSUME NEW p \in Threads, NEW x \in Targets, GRP_Unattached(p, x) PROVE MetaRest'
    <2>1. HeldKept
        BY <1>14, <1>0 DEF GRP_Unattached, CanGrant, HeldKept, Idle
    <2>2. QED
        BY <2>1, <1>14, QuietStep DEF GRP_Unattached, CanGrant, profiler, handler, host
<1>15. ASSUME NEW p \in Threads, NEW x \in Targets, Inl_Start(p, x) PROVE MetaRest'
    <2>1. HeldKept
        BY <1>15, <1>0 DEF Inl_Start, HeldKept, Idle
    <2>2. QED
        BY <2>1, <1>15, QuietStep DEF Inl_Start, profiler, handler, host
<1>16. ASSUME NEW p \in Threads, NEW x \in Targets, RCS_Start(p, x) PROVE MetaRest'
    <2>1. HeldKept
        BY <1>16, <1>0 DEF RCS_Start, HeldKept, Idle
    <2>2. QED
        BY <2>1, <1>16, QuietStep DEF RCS_Start, profiler, handler, host
<1>17. ASSUME NEW p \in Threads, GRP_Found(p) PROVE MetaRest'
    <2>1. HeldKept
        BY <1>17, <1>0 DEF GRP_Found, Goto, HeldKept, Idle
    <2>2. QED
        BY <2>1, <1>17, QuietStep DEF GRP_Found, Goto, profiler, handler, host
<1>18. ASSUME NEW p \in Threads, GRP_NotFound(p) PROVE MetaRest'
    <2>1. HeldKept
        BY <1>18, <1>0 DEF GRP_NotFound, FinishRejit, HeldKept, Idle
    <2>2. QED
        BY <2>1, <1>18, QuietStep DEF GRP_NotFound, FinishRejit, profiler, handler, host
<1>19. ASSUME NEW p \in Threads, GRP_Notify(p) PROVE MetaRest'
    <2>1. HeldKept
        BY <1>19, <1>0 DEF GRP_Notify, HeldKept, Idle
    <2>2. QED
        BY <2>1, <1>19, QuietStep DEF GRP_Notify, profiler, handler, host
<1>20. ASSUME NEW p \in Threads, GRP_NotRegistered(p) PROVE MetaRest'
    <2>1. HeldKept
        BY <1>20, <1>0 DEF GRP_NotRegistered, FinishRejit, HeldKept, Idle
    <2>2. QED
        BY <2>1, <1>20, QuietStep DEF GRP_NotRegistered, FinishRejit, profiler, handler, host
<1>21. ASSUME NEW p \in Threads, RW_Check(p) PROVE MetaRest'
    <2>1. HeldKept
        BY <1>21, <1>0 DEF RW_Check, Goto, HeldKept, Idle
    <2>2. QED
        BY <2>1, <1>21, QuietStep DEF RW_Check, Goto, profiler, handler, host
<1>22. ASSUME NEW p \in Threads, RW_NoInstrModule(p) PROVE MetaRest'
    <2>1. HeldKept
        BY <1>22, <1>0 DEF RW_NoInstrModule, FinishRejit, HeldKept, Idle
    <2>2. QED
        BY <2>1, <1>22, QuietStep DEF RW_NoInstrModule, FinishRejit, profiler, handler, host
<1>23. ASSUME NEW p \in Threads, RW_Lock(p) PROVE MetaRest'
    <2>1. HeldKept
        BY <1>23, <1>0 DEF RW_Lock, Goto, HeldKept, Idle
    <2>2. QED
        BY <2>1, <1>23, QuietStep DEF RW_Lock, Goto, profiler, handler, host
<1>24. ASSUME NEW p \in Threads, RW_NoWrapper(p) PROVE MetaRest'
    <2>1. HeldKept
        BY <1>24, <1>0 DEF RW_NoWrapper, FinishRejit, HeldKept, Idle
    <2>2. QED
        BY <2>1, <1>24, QuietStep DEF RW_NoWrapper, FinishRejit, profiler, handler, host
<1>25. ASSUME NEW p \in Threads, RW_Meta(p) PROVE MetaRest'
    <2>1. HeldKept
        BY <1>25, <1>0 DEF RW_Meta, HeldKept, Idle
    <2>2. QED
        BY <2>1, <1>25, QuietStep DEF RW_Meta, profiler, handler, host
<1>26. ASSUME NEW p \in Threads, RW_Abort(p) PROVE MetaRest'
    <2>1. HeldKept
        BY <1>26, <1>0 DEF RW_Abort, FinishRejit, HeldKept, Idle
    <2>2. QED
        BY <2>1, <1>26, QuietStep DEF RW_Abort, FinishRejit, profiler, handler, host
<1>27. ASSUME NEW p \in Threads, RW_Rewritten(p) PROVE MetaRest'
    <2>1. HeldKept
        BY <1>27, <1>0 DEF RW_Rewritten, FinishRejit, HeldKept, Idle
    <2>2. QED
        BY <2>1, <1>27, QuietStep DEF RW_Rewritten, FinishRejit, profiler, handler, host
<1>28. ASSUME NEW p \in Threads, Inl_Query(p) PROVE MetaRest'
    <2>1. HeldKept
        BY <1>28, <1>0 DEF Inl_Query, HeldKept, Idle
    <2>2. QED
        BY <2>1, <1>28, QuietStep DEF Inl_Query, profiler, handler, host
<1>29. ASSUME NEW p \in Threads, RCS_Notify(p) PROVE MetaRest'
    <2>1. HeldKept
        BY <1>29, <1>0 DEF RCS_Notify, HeldKept, Idle
    <2>2. QED
        BY <2>1, <1>29, QuietStep DEF RCS_Notify, profiler, handler, host
<1>30. CASE UNCHANGED vars
    BY <1>30, QuietStep DEF vars, profiler, handler, host, HeldKept
<1>31. QED
    BY <1>1, <1>2, <1>3, <1>4, <1>5, <1>6, <1>7, <1>8, <1>9, <1>10, <1>11, <1>12, <1>13, <1>14, <1>15, <1>16, <1>17, <1>18, <1>19, <1>20, <1>21, <1>22, <1>23, <1>24, <1>25, <1>26, <1>27, <1>28, <1>29, <1>30 DEF Next

\* Every ModuleMetadata pointer in the module map or in a ReJIT module
\* handler points to a live object, and the handler's pointer is the map's
\* (MetadataRefsLive, checked by the core run), for every number of
\* threads, modules and allocations: ModuleUnloadStarted never deletes an
\* object something still refers to.
THEOREM MetadataRefsLiveHolds == Spec => []MetadataRefsLive
<1>1. Init => TypeInv /\ MetaRest
    BY TypeInvInit, MetaInit
<1>2. TypeInv /\ MetaRest /\ [Next]_vars => (TypeInv /\ MetaRest)'
    BY BoolStep, RestStep, MetaStep DEF TypeInv
<1>3. MetaRest => MetadataRefsLive
    BY DEF MetaRest
<1>4. QED
    BY <1>1, <1>2, <1>3, PTL DEF Spec


\* The whole inductive invariant MetaInv holds in every reachable state
\* (checked by the metadata run): besides the live references, each
\* waiting ModuleLoadFinished holds a fresh pointer of its own, the map is
\* injective, and Shutdown's handler deletion goes with is_attached_.
THEOREM MetaInvHolds == Spec => []MetaInv
<1>1. Init => TypeInv /\ MetaRest
    BY TypeInvInit, MetaInit
<1>2. TypeInv /\ MetaRest /\ [Next]_vars => (TypeInv /\ MetaRest)'
    BY BoolStep, RestStep, MetaStep DEF TypeInv
<1>3. QED
    BY <1>1, <1>2, PTL DEF Spec, MetaInv

=============================================================================
