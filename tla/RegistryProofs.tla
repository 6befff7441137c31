--------------------------- MODULE RegistryProofs ---------------------------
(***************************************************************************)
(* The ReJIT registry and the AppDomain set of the instrumentation         *)
(* assembly: a pending ReJIT request of a loaded module is registered with *)
(* the ReJIT handler (PendingRejitRegistered), and                         *)
(* managed_profiler_loaded_app_domains names only the AppDomain of the     *)
(* stored instrumentation module (ProfilerDomainsSound), for every value   *)
(* of the constants.                                                       *)
(***************************************************************************)
EXTENDS MetadataLifetimeProofs

(***************************************************************************)
(* Neither property is inductive.  Both rest on the order in which the    *)
(* host reports a module: a ReJIT request exists only between the          *)
(* ModuleLoadFinished that made it and the unload that drops it, and      *)
(* while attached a module the host has loaded went through                *)
(* ModuleLoadFinished's store.                                             *)
(***************************************************************************)

\* A target the host has a pending ReJIT request for is of a module the
\* host has loaded (HostUnloaded drops the requests of an unloaded module).
RequestedHeld ==
    \A x \in Targets : rejit[x] = "requested" => HostHas(x[1])

\* While attached, a module the host has loaded has its ModuleMetadata in
\* module_id_to_info_map_: ModuleLoadFinished stored it before the host
\* saw the load finish.
LoadedStored ==
    \A m \in Modules :
        is_attached /\ host_module[m] = "loaded" => module_id_to_info_map[m] # 0

\* The inductive invariant.
RegistryInv ==
    /\ MetaInv
    /\ RequestedHeld
    /\ LoadedStored
    /\ PendingRejitRegistered
    /\ ProfilerDomainsSound

\* The parts of RegistryInv beyond MetaInv.
RegRest ==
    /\ RequestedHeld
    /\ LoadedStored
    /\ PendingRejitRegistered
    /\ ProfilerDomainsSound

-----------------------------------------------------------------------------

LEMMA RegInit == Init => RegRest
BY DEF Init, RegRest, RequestedHeld, LoadedStored, PendingRejitRegistered,
       ProfilerDomainsSound

\* A step that loads no module, makes no new request, leaves the handler,
\* the map and the AppDomain set alone and at most clears is_attached_
\* keeps RegRest; a module may go from absent to loading or from loaded to
\* unloading, a request may be granted or finished.
LEMMA RegFrame ==
    ASSUME RegRest,
           \A m \in Modules : host_module'[m] = "loaded" => host_module[m] = "loaded",
           \A m \in Modules : HostHas(m) => host_module'[m] \in {"loaded", "unloading"},
           \A x \in Targets : rejit'[x] = "requested" => rejit[x] = "requested",
           handler_methods' = handler_methods,
           rejit_handler' = rejit_handler,
           module_id_to_info_map' = module_id_to_info_map,
           managed_profiler_loaded_app_domains' = managed_profiler_loaded_app_domains,
           is_attached' => is_attached
    PROVE  RegRest'
<1>1. RequestedHeld'
      BY TargetType DEF RegRest, RequestedHeld, HostHas
<1>2. LoadedStored'
      BY Zenon DEF RegRest, LoadedStored
<1>3. PendingRejitRegistered'
      BY TargetType DEF RegRest, PendingRejitRegistered
<1>4. ProfilerDomainsSound'
      BY DEF RegRest, ProfilerDomainsSound
<1>5. QED
      BY <1>1, <1>2, <1>3, <1>4 DEF RegRest

\* The facts of TypeInv the lemmas below use.
LEMMA RegTypes ==
    ASSUME TypeInv
    PROVE  /\ is_attached \in BOOLEAN
           /\ rejit_handler \in {"live", "null"}
           /\ module_id_to_info_map \in [Modules -> 0..MaxLoads]
           /\ host_module \in [Modules -> {"absent", "loading", "loaded", "unloading"}]
           /\ rejit \in [Targets -> RejitStates]
           /\ handler_methods \subseteq Targets
           /\ managed_profiler_loaded_app_domains \subseteq Domains
           /\ th \in [Threads -> ThreadState]
           /\ \A q \in Threads : th[q].pc \notin {"idle", "det_lock"} => th[q].mod \in Modules
BY DEF TypeInv, TypeBool, RestInv, TypeRest, BusyThreadsNamed

\* The host loads a module while detached, or ModuleLoadFinished finds the
\* profiler detached under the lock: the module had no request, and
\* is_attached_ is false.
LEMMA RegLoadDetached ==
    ASSUME TypeInv, RegRest, NEW m \in Modules,
           ~is_attached, ~HostHas(m),
           host_module' = [host_module EXCEPT ![m] = "loaded"],
           UNCHANGED <<is_attached, rejit, handler_methods, rejit_handler,
                       module_id_to_info_map, managed_profiler_loaded_app_domains>>
    PROVE  RegRest'
<1>1. \A x \in Targets : rejit[x] = "requested" => x[1] # m
      BY DEF RegRest, RequestedHeld
<1>2. RequestedHeld' /\ PendingRejitRegistered'
      BY <1>1, RegTypes, TargetType DEF RegRest, RequestedHeld, PendingRejitRegistered, HostHas
<1>3. LoadedStored'
      BY Zenon DEF LoadedStored
<1>4. QED
      BY <1>2, <1>3 DEF RegRest, ProfilerDomainsSound

\* The host finishes unloading m (ModuleUnloadStarted with nothing to
\* remove, or while detached): its requests are dropped, nothing else
\* changes that RegRest reads.
LEMMA RegUnloadSkip ==
    ASSUME TypeInv, RegRest, NEW m \in Modules, HostUnloaded(m),
           UNCHANGED <<is_attached, handler_methods, rejit_handler,
                       module_id_to_info_map, managed_profiler_loaded_app_domains>>
    PROVE  RegRest'
<1>1. /\ \A n \in Modules : host_module'[n] = "loaded" => host_module[n] = "loaded"
      /\ \A n \in Modules : n # m => host_module'[n] = host_module[n]
      BY RegTypes DEF HostUnloaded
<1>2. \A x \in Targets : rejit'[x] = "requested" => rejit[x] = "requested" /\ x[1] # m
      BY DEF HostUnloaded, TargetsOf
<1>3. RequestedHeld' /\ PendingRejitRegistered'
      BY <1>1, <1>2, TargetType DEF RegRest, RequestedHeld, PendingRejitRegistered, HostHas
<1>4. LoadedStored'
      BY <1>1, Zenon DEF RegRest, LoadedStored
<1>5. QED
      BY <1>3, <1>4 DEF RegRest, ProfilerDomainsSound

\* ModuleLoadFinished stores the module under the lock: it becomes loaded
\* with a map entry, and every matched overload is registered and
\* requested at once (CallTarget_RequestRejitForModule).
LEMMA RegMLFStore ==
    ASSUME TypeInv, MetaRest, RegRest, NEW p \in Threads, MLF_Store(p)
    PROVE  RegRest'
<1> DEFINE m == th[p].mod
           k == th[p].meta
<1>1. /\ th[p].pc = "mlf_lock" /\ is_attached /\ rejit_handler = "live"
      /\ m \in Modules /\ k \in Ptr /\ host_module[m] = "loading"
      BY RegTypes DEF MLF_Store, StillAttached, MetaRest, LoadingHoldsFresh
<1>2. /\ module_id_to_info_map' = [module_id_to_info_map EXCEPT ![m] = k]
      /\ host_module' = [host_module EXCEPT ![m] = "loaded"]
      /\ UNCHANGED <<is_attached, rejit_handler, managed_profiler_loaded_app_domains>>
      BY DEF MLF_Store
<1>3. k # 0
      BY <1>1 DEF Ptr
<1>4. \A x \in Targets : rejit[x] = "requested" => x[1] # m
      BY <1>1 DEF RegRest, RequestedHeld, HostHas
<1>5. \/ m = InstrModule /\ UNCHANGED <<handler_methods, rejit>>
      \/ /\ m # InstrModule
         /\ handler_methods' = handler_methods \cup TargetsOf(m)
         /\ rejit' = [x \in Targets |-> IF x \in TargetsOf(m) THEN "requested" ELSE rejit[x]]
      <2>1. CASE m = InstrModule
            BY <2>1 DEF MLF_Store, handler
      <2>2. CASE m # InstrModule /\ TargetsOf(m) = {}
            BY <2>2, RegTypes DEF MLF_Store, RequestRejitForModule, handler
      <2>3. CASE m # InstrModule /\ TargetsOf(m) # {}
            BY <2>3 DEF MLF_Store, RequestRejitForModule, handler
      <2>4. QED
            BY <2>1, <2>2, <2>3
<1>6. \A x \in Targets : x[1] # InstrModule
      BY ConstantsAssumption
<1>7. \A x \in Targets : rejit'[x] = "requested" =>
         \/ rejit[x] = "requested"
         \/ x[1] = m /\ x \in handler_methods'
      BY <1>5, <1>6, RegTypes DEF TargetsOf
<1>8. handler_methods \subseteq handler_methods'
      BY <1>5
<1>9. RequestedHeld'
      BY <1>1, <1>2, <1>7, RegTypes, TargetType DEF RegRest, RequestedHeld, HostHas
<1>10. PendingRejitRegistered'
      BY <1>1, <1>2, <1>4, <1>7, <1>8, RegTypes, TargetType DEF RegRest, PendingRejitRegistered
<1>11. LoadedStored'
      BY <1>1, <1>2, <1>3, RegTypes DEF RegRest, LoadedStored
<1>12. ProfilerDomainsSound'
      BY <1>1, <1>2, <1>3, RegTypes DEF RegRest, ProfilerDomainsSound
<1>13. QED
      BY <1>9, <1>10, <1>11, <1>12 DEF RegRest

\* ModuleUnloadStarted removes a stored module under the lock: the map
\* entry, the module handler with its methods and the module's AppDomain
\* go together, and the host drops the module's requests.
LEMMA RegMUSRemove ==
    ASSUME TypeInv, MetaRest, RegRest, NEW p \in Threads, MUS_Remove(p)
    PROVE  RegRest'
<1> DEFINE m == th[p].mod
<1>1. th[p].pc = "mus_lock" /\ is_attached /\ m \in Modules
      BY RegTypes DEF MUS_Remove
<1>2. rejit_handler = "live"
      BY <1>1, RegTypes, Zenon DEF MetaRest, HandlerNullDetached
<1>3. /\ module_id_to_info_map' = [module_id_to_info_map EXCEPT ![m] = 0]
      /\ managed_profiler_loaded_app_domains' =
            managed_profiler_loaded_app_domains \ {DomainOf[m]}
      /\ handler_methods' = handler_methods \ TargetsOf(m)
      /\ HostUnloaded(m)
      /\ UNCHANGED <<is_attached, rejit_handler>>
      BY <1>2 DEF MUS_Remove, UnloadDomains, RemoveModule
<1>4. /\ \A n \in Modules : n # m => host_module'[n] = host_module[n]
      /\ host_module'[m] = "absent"
      /\ \A x \in Targets : rejit'[x] = "requested" => rejit[x] = "requested" /\ x[1] # m
      BY <1>1, <1>3, RegTypes DEF HostUnloaded, TargetsOf
<1>5. RequestedHeld'
      BY <1>4, TargetType DEF RegRest, RequestedHeld, HostHas
<1>6. PendingRejitRegistered'
      BY <1>3, <1>4, TargetType DEF RegRest, PendingRejitRegistered, TargetsOf
<1>7. LoadedStored'
      BY <1>1, <1>3, <1>4, RegTypes DEF RegRest, LoadedStored
<1>8. ProfilerDomainsSound'
      BY <1>1, <1>3, RegTypes DEF RegRest, ProfilerDomainsSound
<1>9. QED
      BY <1>5, <1>6, <1>7, <1>8 DEF RegRest

\* AssemblyLoadFinished records the instrumentation module's AppDomain
\* while attached: the module is loaded, so it is stored.
LEMMA RegAssemblyLoad ==
    ASSUME TypeInv, RegRest, NEW p \in Threads, AssemblyLoadFinished(p)
    PROVE  RegRest'
<1>1. /\ host_module[InstrModule] = "loaded"
      /\ managed_profiler_loaded_app_domains' =
            IF is_attached
            THEN managed_profiler_loaded_app_domains \cup {DomainOf[InstrModule]}
            ELSE managed_profiler_loaded_app_domains
      /\ UNCHANGED <<is_attached, rejit_handler, module_id_to_info_map,
                     handler_methods, host_module, rejit>>
      BY DEF AssemblyLoadFinished, handler
<1>2. is_attached => module_id_to_info_map[InstrModule] # 0
      BY <1>1, ConstantsAssumption DEF RegRest, LoadedStored
<1>3. ProfilerDomainsSound'
      BY <1>1, <1>2 DEF RegRest, ProfilerDomainsSound
<1>4. (RequestedHeld /\ PendingRejitRegistered)'
      BY <1>1 DEF RegRest, RequestedHeld, PendingRejitRegistered, HostHas
<1>5. LoadedStored'
      BY <1>1 DEF RegRest, LoadedStored
<1>6. QED
      BY <1>3, <1>4, <1>5 DEF RegRest

\* Shutdown deletes the handler and clears is_attached_.
LEMMA RegShutdown ==
    ASSUME RegRest, NEW p \in Threads, Shutdown(p)
    PROVE  RegRest'
<1>1. /\ rejit_handler' = "null" /\ is_attached' = FALSE
      /\ UNCHANGED <<module_id_to_info_map, managed_profiler_loaded_app_domains,
                     host_module, rejit>>
      BY DEF Shutdown
<1>2. RequestedHeld' /\ ProfilerDomainsSound'
      BY <1>1 DEF RegRest, RequestedHeld, ProfilerDomainsSound, HostHas
<1>3. LoadedStored' /\ PendingRejitRegistered'
      BY <1>1 DEF LoadedStored, PendingRejitRegistered
<1>4. QED
      BY <1>2, <1>3 DEF RegRest

\* Every step keeps RegRest.
LEMMA RegStep == TypeInv /\ MetaRest /\ RegRest /\ [Next]_vars => RegRest'
<1> SUFFICES ASSUME TypeInv, MetaRest, RegRest, [Next]_vars PROVE RegRest'
    OBVIOUS
<1>0. /\ rejit \in [Targets -> RejitStates]
      /\ host_module \in [Modules -> {"absent", "loading", "loaded", "unloading"}]
      /\ is_attached \in BOOLEAN
    BY RegTypes
<1>1. ASSUME NEW p \in Threads, NEW m \in Modules, MLF_Unattached(p, m) PROVE RegRest'
    BY <1>1, RegLoadDetached DEF MLF_Unattached, CanLoad, HostHas, profiler, handler
<1>2. ASSUME NEW p \in Threads, MLF_Detached(p) PROVE RegRest'
    <2>1. th[p].mod \in Modules /\ host_module[th[p].mod] = "loading"
        BY <1>2, RegTypes DEF MLF_Detached, MetaRest, LoadingHoldsFresh
    <2>2. ~is_attached
        BY <1>2, RegTypes, Zenon DEF MLF_Detached, StillAttached, MetaRest, HandlerNullDetached
    <2>3. QED
        BY <1>2, <2>1, <2>2, RegLoadDetached DEF MLF_Detached, HostHas, profiler, handler, host
<1>3. ASSUME NEW p \in Threads, MLF_Store(p) PROVE RegRest'
    BY <1>3, RegMLFStore
<1>4. ASSUME NEW p \in Threads, MUS_Remove(p) PROVE RegRest'
    BY <1>4, RegMUSRemove
<1>5. ASSUME NEW p \in Threads, MUS_Skip(p) PROVE RegRest'
    <2>1. th[p].mod \in Modules
        BY <1>5, RegTypes DEF MUS_Skip
    <2>2. QED
        BY <1>5, <2>1, RegUnloadSkip DEF MUS_Skip, profiler, handler
<1>6. ASSUME NEW p \in Threads, NEW m \in Modules, MUS_Unattached(p, m) PROVE RegRest'
    BY <1>6, RegUnloadSkip DEF MUS_Unattached, profiler, handler
<1>7. ASSUME NEW p \in Threads, AssemblyLoadFinished(p) PROVE RegRest'
    BY <1>7, RegAssemblyLoad
<1>8. ASSUME NEW p \in Threads, Shutdown(p) PROVE RegRest'
    BY <1>8, RegShutdown
<1>9. ASSUME NEW p \in Threads, NEW m \in Modules, MLF_Start(p, m) PROVE RegRest'
    BY <1>9, <1>0, RegFrame DEF MLF_Start, CanLoad, HostHas, profiler, handler, host, HostHas
<1>10. ASSUME NEW p \in Threads, NEW m \in Modules, MUS_Start(p, m) PROVE RegRest'
    BY <1>10, <1>0, RegFrame DEF MUS_Start, HostHas, profiler, handler, host, HostHas
<1>11. ASSUME NEW p \in Threads, Detach_Start(p) PROVE RegRest'
    BY <1>11, <1>0, RegFrame DEF Detach_Start, Goto, profiler, handler, host, HostHas
<1>12. ASSUME NEW p \in Threads, Detach_Locked(p) PROVE RegRest'
    BY <1>12, <1>0, RegFrame DEF Detach_Locked, profiler, handler, host, HostHas
<1>13. ASSUME NEW p \in Threads, NEW x \in Targets, GRP_Start(p, x) PROVE RegRest'
    BY <1>13, <1>0, RegFrame DEF GRP_Start, CanGrant, profiler, handler, host, HostHas
<1>14. ASSUME NEW p \in Threads, NEW x \in Targets, GRP_Unattached(p, x) PROVE RegRest'
    BY <1>14, <1>0, RegFrame DEF GRP_Unattached, CanGrant, profiler, handler, host, HostHas
<1>15. ASSUME NEW p \in Threads, NEW x \in Targets, Inl_Start(p, x) PROVE RegRest'
    BY <1>15, <1>0, RegFrame DEF Inl_Start, profiler, handler, host, HostHas
<1>16. ASSUME NEW p \in Threads, NEW x \in Targets, RCS_Start(p, x) PROVE RegRest'
    BY <1>16, <1>0, RegFrame DEF RCS_Start, profiler, handler, host, HostHas
<1>17. ASSUME NEW p \in Threads, GRP_Found(p) PROVE RegRest'
    BY <1>17, <1>0, RegFrame DEF GRP_Found, Goto, profiler, handler, host, HostHas
<1>18. ASSUME NEW p \in Threads, GRP_NotFound(p) PROVE RegRest'
    BY <1>18, <1>0, RegFrame DEF GRP_NotFound, FinishRejit, profiler, handler, host, HostHas
<1>19. ASSUME NEW p \in Threads, GRP_Notify(p) PROVE RegRest'
    BY <1>19, <1>0, RegFrame DEF GRP_Notify, profiler, handler, host, HostHas
<1>20. ASSUME NEW p \in Threads, GRP_NotRegistered(p) PROVE RegRest'
    BY <1>20, <1>0, RegFrame DEF GRP_NotRegistered, FinishRejit, profiler, handler, host, HostHas
<1>21. ASSUME NEW p \in Threads, RW_Check(p) PROVE RegRest'
    BY <1>21, <1>0, RegFrame DEF RW_Check, Goto, profiler, handler, host, HostHas
<1>22. ASSUME NEW p \in Threads, RW_NoInstrModule(p) PROVE RegRest'
    BY <1>22, <1>0, RegFrame DEF RW_NoInstrModule, FinishRejit, profiler, handler, host, HostHas
<1>23. ASSUME NEW p \in Threads, RW_Lock(p) PROVE RegRest'
    BY <1>23, <1>0, RegFrame DEF RW_Lock, Goto, profiler, handler, host, HostHas
<1>24. ASSUME NEW p \in Threads, RW_NoWrapper(p) PROVE RegRest'
    BY <1>24, <1>0, RegFrame DEF RW_NoWrapper, FinishRejit, profiler, handler, host, HostHas
<1>25. ASSUME NEW p \in Threads, RW_Meta(p) PROVE RegRest'
    BY <1>25, <1>0, RegFrame DEF RW_Meta, profiler, handler, host, HostHas
<1>26. ASSUME NEW p \in Threads, RW_Abort(p) PROVE RegRest'
    BY <1>26, <1>0, RegFrame DEF RW_Abort, FinishRejit, profiler, handler, host, HostHas
<1>27. ASSUME NEW p \in Threads, RW_Rewritten(p) PROVE RegRest'
    BY <1>27, <1>0, RegFrame DEF RW_Rewritten, FinishRejit, profiler, handler, host, HostHas
<1>28. ASSUME NEW p \in Threads, Inl_Query(p) PROVE RegRest'
    BY <1>28, <1>0, RegFrame DEF Inl_Query, profiler, handler, host, HostHas
<1>29. ASSUME NEW p \in Threads, RCS_Notify(p) PROVE RegRest'
    BY <1>29, <1>0, RegFrame DEF RCS_Notify, profiler, handler, host, HostHas
<1>30. CASE UNCHANGED vars
    BY <1>30, RegFrame DEF vars, profiler, handler, host, HostHas
<1>31. QED
    BY <1>1, <1>2, <1>3, <1>4, <1>5, <1>6, <1>7, <1>8, <1>9, <1>10, <1>11, <1>12, <1>13, <1>14, <1>15, <1>16, <1>17, <1>18, <1>19, <1>20, <1>21, <1>22, <1>23, <1>24, <1>25, <1>26, <1>27, <1>28, <1>29, <1>30 DEF Next

\* A target whose ReJIT the host still has pending, in a loaded module, is
\* registered with the ReJIT handler while the handler exists
\* (PendingRejitRegistered): JITInlining refuses to inline it and
\* GetReJITParameters finds it, however ModuleLoadFinished's registration,
\* ModuleUnloadStarted's removal, detaching and Shutdown interleave.
THEOREM PendingRejitRegisteredHolds == Spec => []PendingRejitRegistered
<1>1. Init => TypeInv /\ MetaRest /\ RegRest
    BY TypeInvInit, MetaInit, RegInit
<1>2. TypeInv /\ MetaRest /\ RegRest /\ [Next]_vars => (TypeInv /\ MetaRest /\ RegRest)'
    BY BoolStep, RestStep, MetaStep, RegStep DEF TypeInv
<1>3. RegRest => PendingRejitRegistered
    BY DEF RegRest
<1>4. QED
    BY <1>1, <1>2, <1>3, PTL DEF Spec

\* managed_profiler_loaded_app_domains names only the AppDomain of the
\* instrumentation module, and only while its ModuleMetadata is stored
\* (ProfilerDomainsSound): AssemblyLoadFinished adds it only after
\* ModuleLoadFinished stored the module, and ModuleUnloadStarted erases it
\* with the entry.
THEOREM ProfilerDomainsSoundHolds == Spec => []ProfilerDomainsSound
<1>1. Init => TypeInv /\ MetaRest /\ RegRest
    BY TypeInvInit, MetaInit, RegInit
<1>2. TypeInv /\ MetaRest /\ RegRest /\ [Next]_vars => (TypeInv /\ MetaRest /\ RegRest)'
    BY BoolStep, RestStep, MetaStep, RegStep DEF TypeInv
<1>3. RegRest => ProfilerDomainsSound
    BY DEF RegRest
<1>4. QED
    BY <1>1, <1>2, <1>3, PTL DEF Spec

=============================================================================
