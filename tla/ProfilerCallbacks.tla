-------------------------- MODULE ProfilerCallbacks --------------------------
(***************************************************************************)
(* The callback surface of the native CLR profiler (cor_profiler.cpp): the *)
(* host runtime calls ModuleLoadFinished, ModuleUnloadStarted,             *)
(* AssemblyLoadFinished, GetReJITParameters, ReJITCompilationStarted,      *)
(* JITInlining, Shutdown and ProfilerDetachSucceeded on its own threads,   *)
(* concurrently.  They share the module metadata map                       *)
(* (module_id_to_info_map_), the ReJIT handler and a few sets, guarded by  *)
(* one mutex (module_id_to_info_map_lock_).                                *)
(*                                                                         *)
(* Every critical section of that mutex is one step of this model: no      *)
(* section waits on anything, so the lock itself needs no variable.  What  *)
(* a handler does between sections, or before taking the lock, is a step  *)
(* of its own, so other threads can run in between, as they can in the    *)
(* process.                                                                *)
(*                                                                         *)
(* A ModuleMetadata object is a pointer 1..MaxLoads into meta_state; the   *)
(* profiler allocates it in ModuleLoadFinished and deletes it in           *)
(* ModuleUnloadStarted.  The ReJIT handler (rejit_handler.cpp, not part of *)
(* the sources modelled) is modelled from the design: a registry of the    *)
(* module handlers (their metadata pointer) and the methods registered for *)
(* rewrite.                                                                *)
(***************************************************************************)
EXTENDS Naturals, FiniteSets

CONSTANTS
    Threads,        \* host threads that deliver callbacks
    Modules,        \* ModuleIDs (a ModuleID can be reused after unload)
    Domains,        \* AppDomainIDs
    Methods,        \* mdMethodDef tokens
    InstrModule,    \* the module of OpenTelemetry.AutoInstrumentation
    DomainOf,       \* the AppDomain a module is loaded into
    Targets,        \* the (module, method) pairs the integrations match
    NoHooks,        \* targets whose wrapper type has no OnMethodBegin/End
    Unsupported,    \* targets of a shape the rewriter refuses
    MaxLoads,       \* bound on ModuleMetadata allocations
    NoModule,       \* the null ModuleID
    NoMethod        \* mdMethodDefNil

ASSUME ConstantsAssumption ==
    /\ InstrModule \in Modules
    /\ NoModule \notin Modules
    /\ NoMethod \notin Methods
    /\ DomainOf \in [Modules -> Domains]
    /\ Targets \subseteq (Modules \ {InstrModule}) \X Methods
    /\ NoHooks \subseteq Targets
    /\ Unsupported \subseteq Targets
    /\ MaxLoads \in Nat \ {0}

VARIABLES
    is_attached,            \* CorProfiler::is_attached_
    rejit_handler,          \* "live" or "null" (deleted by Shutdown)
    module_id_to_info_map,  \* ModuleID -> ModuleMetadata pointer, 0 = absent
    meta_state,             \* pointer -> "unused" | "live" | "freed"
    next_meta,              \* the next pointer an allocation returns
    managed_profiler_module_id,
    managed_profiler_loaded_app_domains,
    handler_module_meta,    \* RejitHandlerModule metadata pointer, 0 = none
    handler_methods,        \* RejitHandlerModuleMethod entries
    host_module,            \* the host's view of each ModuleID
    asm_notified,           \* AssemblyLoadFinished delivered for InstrModule
    rejit,                  \* the host's ReJIT state of each target
    host_phase,             \* "running" until Shutdown or detach is begun
    th                      \* per-thread callback in progress

profiler == <<is_attached, rejit_handler, module_id_to_info_map, meta_state,
              next_meta, managed_profiler_module_id,
              managed_profiler_loaded_app_domains>>
handler == <<handler_module_meta, handler_methods>>
host == <<host_module, asm_notified, rejit, host_phase>>
vars == <<profiler, handler, host, th>>

Ptr == 1..MaxLoads
PcValues == {"idle", "mlf_lock", "mus_lock", "det_lock", "grp_lock",
             "grp_notify", "rw_check", "rw_lock", "rw_meta", "rw_commit",
             "inl_query", "rcs_notify"}
RejitStates == {"none", "requested", "granted", "rewritten", "aborted"}
ThreadState == [pc : PcValues, mod : Modules \cup {NoModule},
                meth : Methods \cup {NoMethod}, meta : 0..MaxLoads,
                ref_ok : BOOLEAN]
Idle == [pc |-> "idle", mod |-> NoModule, meth |-> NoMethod, meta |-> 0,
         ref_ok |-> TRUE]
TargetsOf(m) == {x \in Targets : x[1] = m}
Target(p) == <<th[p].mod, th[p].meth>>
\* The module is loaded in the host, so callbacks about it may arrive.
HostHas(m) == host_module[m] \in {"loaded", "unloading"}

TypeOK ==
    /\ is_attached \in BOOLEAN
    /\ rejit_handler \in {"live", "null"}
    /\ module_id_to_info_map \in [Modules -> 0..MaxLoads]
    /\ meta_state \in [Ptr -> {"unused", "live", "freed"}]
    /\ next_meta \in 1..MaxLoads + 1
    /\ managed_profiler_module_id \in Modules \cup {NoModule}
    /\ managed_profiler_loaded_app_domains \subseteq Domains
    /\ handler_module_meta \in [Modules -> 0..MaxLoads]
    /\ handler_methods \subseteq Targets
    /\ host_module \in [Modules -> {"absent", "loading", "loaded", "unloading"}]
    /\ asm_notified \in BOOLEAN
    /\ rejit \in [Targets -> RejitStates]
    /\ host_phase \in {"running", "ending"}
    /\ th \in [Threads -> ThreadState]

\* The state after a successful Initialize: attached, with a ReJIT handler.
Init ==
    /\ is_attached = TRUE
    /\ rejit_handler = "live"
    /\ module_id_to_info_map = [m \in Modules |-> 0]
    /\ meta_state = [q \in Ptr |-> "unused"]
    /\ next_meta = 1
    /\ managed_profiler_module_id = NoModule
    /\ managed_profiler_loaded_app_domains = {}
    /\ handler_module_meta = [m \in Modules |-> 0]
    /\ handler_methods = {}
    /\ host_module = [m \in Modules |-> "absent"]
    /\ asm_notified = FALSE
    /\ rejit = [x \in Targets |-> "none"]
    /\ host_phase = "running"
    /\ th = [p \in Threads |-> Idle]

-----------------------------------------------------------------------------
(* Helpers for the ReJIT handler (modelled from the design).               *)

\* Mutant: the module handler is dropped from the method table but keeps
\* its metadata pointer.
RemoveModuleKeepsMeta(m) ==
    /\ handler_module_meta' = handler_module_meta
    /\ handler_methods' = handler_methods \ TargetsOf(m)

\* RejitHandler::RemoveModule: drop the module handler and its methods.
RemoveModule(m) ==
    /\ handler_module_meta' = [handler_module_meta EXCEPT ![m] = 0]
    /\ handler_methods' = handler_methods \ TargetsOf(m)

\* Mutant: only one of the matched overloads is registered, all are
\* requested.
RequestRejitForModuleOneOverload(m, meta) ==
    IF TargetsOf(m) = {}
    THEN UNCHANGED <<handler, rejit>>
    ELSE /\ handler_module_meta' = [handler_module_meta EXCEPT ![m] = meta]
         /\ handler_methods' = handler_methods \cup
                                 {CHOOSE x \in TargetsOf(m) : TRUE}
         /\ rejit' = [x \in Targets |->
                        IF x \in TargetsOf(m) THEN "requested" ELSE rejit[x]]

\* CallTarget_RequestRejitForModule after the matching: every matched
\* overload is registered (GetOrAddModule, SetModuleMetadata,
\* GetOrAddMethod), then one RequestRejit asks the host for all of them.
RequestRejitForModule(m, meta) ==
    IF TargetsOf(m) = {}
    THEN UNCHANGED <<handler, rejit>>
    ELSE /\ handler_module_meta' = [handler_module_meta EXCEPT ![m] = meta]
         /\ handler_methods' = handler_methods \cup TargetsOf(m)
         /\ rejit' = [x \in Targets |->
                        IF x \in TargetsOf(m) THEN "requested" ELSE rejit[x]]

\* Mutant: the double check forgets is_attached_.
StillAttachedNoRecheck == rejit_handler = "live"

\* The double check after taking the lock in ModuleLoadFinished.
StillAttached == is_attached /\ rejit_handler = "live"

\* Mutant: the allocator hands out the pointer after the next one.
NewMetadataOffByOne == next_meta + 1

\* The pointer `new ModuleMetadata(...)` returns.
NewMetadata == next_meta

\* ProfilerAssemblyIsLoadedIntoAppDomain (desktop domain-neutral case left
\* to the loader model).
ProfilerAssemblyIsLoadedIntoAppDomain(d) ==
    d \in managed_profiler_loaded_app_domains

\* The host finishes unloading m: pending requests for it are dropped.
HostUnloaded(m) ==
    /\ host_module' = [host_module EXCEPT ![m] = "absent"]
    /\ asm_notified' = (asm_notified /\ m # InstrModule)
    /\ rejit' = [x \in Targets |->
                   IF x \in TargetsOf(m) /\ rejit[x] = "requested"
                   THEN "none" ELSE rejit[x]]

\* Thread p returns from GetReJITParameters with the given outcome.
FinishRejit(p, outcome) ==
    /\ rejit' = [rejit EXCEPT ![Target(p)] = outcome]
    /\ th' = [th EXCEPT ![p] = Idle]

Goto(p, pc) == th' = [th EXCEPT ![p].pc = pc]

-----------------------------------------------------------------------------
(* ModuleLoadFinished (hr_status succeeded; modules the handler skips by   *)
(* kind or name return before any state change and are not modelled).     *)

\* The host may deliver ModuleLoadFinished(m): m is not loaded, no other
\* callback about it is running, and an allocation is left.
CanLoad(p, m) ==
    /\ th[p].pc = "idle"
    /\ host_module[m] = "absent"
    /\ \A q \in Threads : th[q].mod # m
    /\ next_meta <= MaxLoads

\* ModuleLoadFinished(m), is_attached_ read without the lock and true.  The
\* pointer the handler will allocate is drawn here, which bounds the
\* allocations.
MLF_Start(p, m) ==
    /\ CanLoad(p, m)
    /\ is_attached
    /\ host_module' = [host_module EXCEPT ![m] = "loading"]
    /\ th' = [th EXCEPT ![p] = [Idle EXCEPT !.pc = "mlf_lock", !.mod = m,
                                  !.meta = NewMetadata]]
    /\ next_meta' = next_meta + 1
    /\ UNCHANGED <<is_attached, rejit_handler, module_id_to_info_map,
                   meta_state, managed_profiler_module_id,
                   managed_profiler_loaded_app_domains, handler, asm_notified,
                   rejit, host_phase>>

\* ModuleLoadFinished(m) while detached: the handler returns at once.
MLF_Unattached(p, m) ==
    /\ CanLoad(p, m)
    /\ ~is_attached
    /\ host_module' = [host_module EXCEPT ![m] = "loaded"]
    /\ UNCHANGED <<profiler, handler, asm_notified, rejit, host_phase, th>>

\* Under the lock, still attached: store the new ModuleMetadata, remember
\* the instrumentation module, or match the module and request its ReJITs.
MLF_Store(p) ==
    /\ th[p].pc = "mlf_lock"
    /\ StillAttached
    /\ LET m == th[p].mod
           q == th[p].meta
       IN /\ module_id_to_info_map' = [module_id_to_info_map EXCEPT ![m] = q]
          /\ meta_state' = [meta_state EXCEPT ![q] = "live"]
          /\ IF m = InstrModule
             THEN /\ managed_profiler_module_id' = m
                  /\ UNCHANGED <<handler, rejit>>
             ELSE /\ RequestRejitForModule(m, q)
                  /\ UNCHANGED managed_profiler_module_id
          /\ host_module' = [host_module EXCEPT ![m] = "loaded"]
    /\ th' = [th EXCEPT ![p] = Idle]
    /\ UNCHANGED <<is_attached, rejit_handler, next_meta,
                   managed_profiler_loaded_app_domains, asm_notified,
                   host_phase>>

\* Under the lock, detached (or the handler gone) in the meantime: return.
MLF_Detached(p) ==
    /\ th[p].pc = "mlf_lock"
    /\ ~StillAttached
    /\ host_module' = [host_module EXCEPT ![th[p].mod] = "loaded"]
    /\ th' = [th EXCEPT ![p] = Idle]
    /\ UNCHANGED <<profiler, handler, asm_notified, rejit, host_phase>>

-----------------------------------------------------------------------------
(* ModuleUnloadStarted                                                     *)

\* Mutant: the AppDomain is never erased on unload.
UnloadDomainsKept(m) == managed_profiler_loaded_app_domains

\* The AppDomain set after unloading m: the code erases m's AppDomain
\* whatever module m is.
UnloadDomains(m) ==
    managed_profiler_loaded_app_domains \ {DomainOf[m]}

\* The host starts unloading m; the handler reads is_attached_ unlocked
\* and finds it true.
MUS_Start(p, m) ==
    /\ th[p].pc = "idle"
    /\ host_module[m] = "loaded"
    /\ is_attached
    /\ host_module' = [host_module EXCEPT ![m] = "unloading"]
    /\ th' = [th EXCEPT ![p] = [Idle EXCEPT !.pc = "mus_lock", !.mod = m]]
    /\ UNCHANGED <<profiler, handler, asm_notified, rejit, host_phase>>

\* ModuleUnloadStarted while detached: the handler returns at once.
MUS_Unattached(p, m) ==
    /\ th[p].pc = "idle"
    /\ host_module[m] = "loaded"
    /\ ~is_attached
    /\ HostUnloaded(m)
    /\ UNCHANGED <<profiler, handler, host_phase, th>>

\* Under the lock, attached and m stored: erase the AppDomain, the map entry
\* and the ReJIT handler's module, and delete the ModuleMetadata.
MUS_Remove(p) ==
    /\ th[p].pc = "mus_lock"
    /\ is_attached
    /\ LET m == th[p].mod
       IN /\ module_id_to_info_map[m] # 0
          /\ managed_profiler_loaded_app_domains' = UnloadDomains(m)
          /\ module_id_to_info_map' = [module_id_to_info_map EXCEPT ![m] = 0]
          /\ IF rejit_handler = "live" THEN RemoveModule(m)
                                       ELSE UNCHANGED handler
          /\ meta_state' = [meta_state EXCEPT
                              ![module_id_to_info_map[m]] = "freed"]
          /\ HostUnloaded(m)
    /\ th' = [th EXCEPT ![p] = Idle]
    /\ UNCHANGED <<is_attached, rejit_handler, next_meta,
                   managed_profiler_module_id, host_phase>>

\* Under the lock, detached or m not stored: nothing to remove.
MUS_Skip(p) ==
    /\ th[p].pc = "mus_lock"
    /\ ~is_attached \/ module_id_to_info_map[th[p].mod] = 0
    /\ HostUnloaded(th[p].mod)
    /\ th' = [th EXCEPT ![p] = Idle]
    /\ UNCHANGED <<profiler, handler, host_phase>>

-----------------------------------------------------------------------------
(* AssemblyLoadFinished, Shutdown, ProfilerDetachSucceeded                 *)

\* AssemblyLoadFinished for the instrumentation assembly (for any other
\* assembly the handler returns before changing anything): under the lock,
\* if still attached, record its AppDomain.
AssemblyLoadFinished(p) ==
    /\ th[p].pc = "idle"
    /\ host_module[InstrModule] = "loaded"
    /\ ~asm_notified
    /\ asm_notified' = TRUE
    /\ managed_profiler_loaded_app_domains' =
          IF is_attached
          THEN managed_profiler_loaded_app_domains \cup {DomainOf[InstrModule]}
          ELSE managed_profiler_loaded_app_domains
    /\ UNCHANGED <<is_attached, rejit_handler, module_id_to_info_map,
                   meta_state, next_meta, managed_profiler_module_id,
                   handler, host_module, rejit, host_phase, th>>

\* Shutdown: under the lock, shut down and delete the ReJIT handler, then
\* clear is_attached_.
Shutdown(p) ==
    /\ th[p].pc = "idle"
    /\ host_phase = "running"
    /\ host_phase' = "ending"
    /\ rejit_handler' = "null"
    /\ handler_module_meta' = [m \in Modules |-> 0]
    /\ handler_methods' = {}
    /\ is_attached' = FALSE
    /\ UNCHANGED <<module_id_to_info_map, meta_state, next_meta,
                   managed_profiler_module_id,
                   managed_profiler_loaded_app_domains, host_module,
                   asm_notified, rejit, th>>

\* ProfilerDetachSucceeded: unlocked check of is_attached_.
Detach_Start(p) ==
    /\ th[p].pc = "idle"
    /\ host_phase = "running"
    /\ host_phase' = "ending"
    /\ is_attached
    /\ Goto(p, "det_lock")
    /\ UNCHANGED <<profiler, handler, host_module, asm_notified, rejit>>

\* Under the lock: clear is_attached_ (a no-op if Shutdown cleared it).
Detach_Locked(p) ==
    /\ th[p].pc = "det_lock"
    /\ is_attached' = FALSE
    /\ th' = [th EXCEPT ![p] = Idle]
    /\ UNCHANGED <<rejit_handler, module_id_to_info_map, meta_state,
                   next_meta, managed_profiler_module_id,
                   managed_profiler_loaded_app_domains, handler, host>>

-----------------------------------------------------------------------------
(* GetReJITParameters, RejitHandler::NotifyReJITParameters and             *)
(* CallTarget_RewriterCallback, one thread per granted target.             *)

\* The host may grant ReJIT parameters for a requested target x of a
\* loaded module (at most one callback per method in flight).
CanGrant(p, x) ==
    /\ th[p].pc = "idle"
    /\ rejit[x] = "requested"
    /\ HostHas(x[1])

\* GetReJITParameters for x; the unlocked check of is_attached_ passes.
GRP_Start(p, x) ==
    /\ CanGrant(p, x)
    /\ is_attached
    /\ rejit' = [rejit EXCEPT ![x] = "granted"]
    /\ th' = [th EXCEPT ![p] = [Idle EXCEPT !.pc = "grp_lock",
                                  !.mod = x[1], !.meth = x[2]]]
    /\ UNCHANGED <<profiler, handler, host_module, asm_notified, host_phase>>

\* GetReJITParameters while detached: it returns, the method is not
\* rewritten.
GRP_Unattached(p, x) ==
    /\ CanGrant(p, x)
    /\ ~is_attached
    /\ rejit' = [rejit EXCEPT ![x] = "aborted"]
    /\ UNCHANGED <<profiler, handler, host_module, asm_notified, host_phase, th>>

\* Under the lock the module's metadata is looked up; the lock is released
\* before the ReJIT handler is called.
GRP_Found(p) ==
    /\ th[p].pc = "grp_lock"
    /\ module_id_to_info_map[th[p].mod] # 0
    /\ Goto(p, "grp_notify")
    /\ UNCHANGED <<profiler, handler, host>>

GRP_NotFound(p) ==
    /\ th[p].pc = "grp_lock"
    /\ module_id_to_info_map[th[p].mod] = 0
    /\ FinishRejit(p, "aborted")
    /\ UNCHANGED <<profiler, handler, host_module, asm_notified, host_phase>>

\* NotifyReJITParameters (design): the rewrite proceeds only while the
\* method is still registered; the rewriter works on the module handler's
\* metadata pointer.  rejit_handler is dereferenced without the lock.
GRP_Notify(p) ==
    /\ th[p].pc = "grp_notify"
    /\ Target(p) \in handler_methods
    /\ th' = [th EXCEPT ![p].pc = "rw_check",
                        ![p].meta = handler_module_meta[th[p].mod]]
    /\ UNCHANGED <<profiler, handler, host>>

\* The method is no longer registered: the rewrite is abandoned.
GRP_NotRegistered(p) ==
    /\ th[p].pc = "grp_notify"
    /\ Target(p) \notin handler_methods
    /\ FinishRejit(p, "aborted")
    /\ UNCHANGED <<profiler, handler, host_module, asm_notified, host_phase>>

\* The instrumentation module id must have been seen (read unlocked).
RW_Check(p) ==
    /\ th[p].pc = "rw_check"
    /\ managed_profiler_module_id # NoModule
    /\ Goto(p, "rw_lock")
    /\ UNCHANGED <<profiler, handler, host>>

\* The instrumentation module has not been loaded: the rewrite returns.
RW_NoInstrModule(p) ==
    /\ th[p].pc = "rw_check"
    /\ managed_profiler_module_id = NoModule
    /\ FinishRejit(p, "aborted")
    /\ UNCHANGED <<profiler, handler, host_module, asm_notified, host_phase>>

\* Under the lock: the instrumentation module's metadata must be stored and
\* its wrapper type must declare one of the three hook methods.
RW_Lock(p) ==
    /\ th[p].pc = "rw_lock"
    /\ module_id_to_info_map[managed_profiler_module_id] # 0
    /\ Target(p) \notin NoHooks
    /\ Goto(p, "rw_meta")
    /\ UNCHANGED <<profiler, handler, host>>

\* Either check fails under the lock: the rewrite returns.
RW_NoWrapper(p) ==
    /\ th[p].pc = "rw_lock"
    /\ \/ module_id_to_info_map[managed_profiler_module_id] = 0
       \/ Target(p) \in NoHooks
    /\ FinishRejit(p, "aborted")
    /\ UNCHANGED <<profiler, handler, host_module, asm_notified, host_phase>>

\* Without the lock: GetCallTargetTokens on the module's metadata, then
\* GetWrapperMethodRef, whose result (it can fail to emit the references)
\* the code does not look at.
RW_Meta(p) ==
    /\ th[p].pc = "rw_meta"
    /\ \E ok \in BOOLEAN :
          th' = [th EXCEPT ![p].pc = "rw_commit", ![p].ref_ok = ok]
    /\ UNCHANGED <<profiler, handler, host>>

\* The method is left as it is: the instrumentation assembly is not loaded
\* into the module's AppDomain, the method has a shape the rewriter
\* refuses, or a host call (Import, WriteBeginMethod, Export) fails.
RW_Abort(p) ==
    /\ th[p].pc = "rw_commit"
    /\ FinishRejit(p, "aborted")
    /\ UNCHANGED <<profiler, handler, host_module, asm_notified, host_phase>>

\* The new IL is exported through the granted function control.
RW_Rewritten(p) ==
    /\ th[p].pc = "rw_commit"
    /\ ProfilerAssemblyIsLoadedIntoAppDomain(DomainOf[th[p].mod])
    /\ Target(p) \notin Unsupported
    /\ FinishRejit(p, "rewritten")
    /\ UNCHANGED <<profiler, handler, host_module, asm_notified, host_phase>>

-----------------------------------------------------------------------------
(* JITInlining and ReJITCompilationStarted (no lock; when the unlocked     *)
(* checks fail they return at once, a step that changes nothing).          *)

\* JITInlining for callee x: is_attached_ and rejit_handler checked unlocked.
Inl_Start(p, x) ==
    /\ th[p].pc = "idle"
    /\ HostHas(x[1])
    /\ is_attached /\ rejit_handler = "live"
    /\ th' = [th EXCEPT ![p] = [Idle EXCEPT !.pc = "inl_query",
                                  !.mod = x[1], !.meth = x[2]]]
    /\ UNCHANGED <<profiler, handler, host>>

\* TryGetModule / ContainsMethod on the handler: a registered callee is not
\* inlined.  The answer goes to the JIT, not to the profiler's state.
Inl_Query(p) ==
    /\ th[p].pc = "inl_query"
    /\ th' = [th EXCEPT ![p] = Idle]
    /\ UNCHANGED <<profiler, handler, host>>

\* ReJITCompilationStarted for a requested target: unlocked check.
RCS_Start(p, x) ==
    /\ th[p].pc = "idle"
    /\ rejit[x] = "requested"
    /\ is_attached
    /\ th' = [th EXCEPT ![p] = [Idle EXCEPT !.pc = "rcs_notify",
                                  !.mod = x[1], !.meth = x[2]]]
    /\ UNCHANGED <<profiler, handler, host>>

\* rejit_handler->NotifyReJITCompilationStarted, with no null check.
RCS_Notify(p) ==
    /\ th[p].pc = "rcs_notify"
    /\ th' = [th EXCEPT ![p] = Idle]
    /\ UNCHANGED <<profiler, handler, host>>

-----------------------------------------------------------------------------
Next ==
    \E p \in Threads :
        \/ \E m \in Modules : \/ MLF_Start(p, m) \/ MLF_Unattached(p, m)
                             \/ MUS_Start(p, m) \/ MUS_Unattached(p, m)
        \/ MLF_Store(p) \/ MLF_Detached(p)
        \/ MUS_Remove(p) \/ MUS_Skip(p)
        \/ AssemblyLoadFinished(p)
        \/ Shutdown(p) \/ Detach_Start(p) \/ Detach_Locked(p)
        \/ \E x \in Targets : \/ GRP_Start(p, x) \/ GRP_Unattached(p, x)
                             \/ Inl_Start(p, x) \/ RCS_Start(p, x)
        \/ GRP_Found(p) \/ GRP_NotFound(p)
        \/ GRP_Notify(p) \/ GRP_NotRegistered(p)
        \/ RW_Check(p) \/ RW_NoInstrModule(p)
        \/ RW_Lock(p) \/ RW_NoWrapper(p)
        \/ RW_Meta(p)
        \/ RW_Abort(p) \/ RW_Rewritten(p)
        \/ Inl_Query(p) \/ RCS_Notify(p)

Spec == Init /\ [][Next]_vars

-----------------------------------------------------------------------------
(* Properties                                                              *)

\* Every ModuleMetadata pointer the profiler keeps, in the module map or in
\* a ReJIT module handler, points to a live object, and the handler's
\* pointer is the one the map holds for that module: ModuleUnloadStarted
\* must drop both before it deletes the object.
MetadataRefsLive ==
    /\ \A m \in Modules :
          module_id_to_info_map[m] # 0 =>
             meta_state[module_id_to_info_map[m]] = "live"
    /\ \A m \in Modules :
          handler_module_meta[m] # 0 =>
             handler_module_meta[m] = module_id_to_info_map[m]

\* A target whose ReJIT the host still has pending, in a loaded module, is
\* registered with the ReJIT handler, so JITInlining refuses to inline it
\* and GetReJITParameters finds it (registration in
\* CallTarget_RequestRejitForModule, removal in ModuleUnloadStarted).
PendingRejitRegistered ==
    \A x \in Targets :
        /\ rejit[x] = "requested"
        /\ host_module[x[1]] = "loaded"
        /\ rejit_handler = "live"
        => x \in handler_methods

\* An AppDomain is in managed_profiler_loaded_app_domains only while the
\* instrumentation module is stored and loaded in that AppDomain
\* (AssemblyLoadFinished adds it, ModuleUnloadStarted removes it).
ProfilerDomainsSound ==
    \A d \in managed_profiler_loaded_app_domains :
        /\ module_id_to_info_map[InstrModule] # 0
        /\ d = DomainOf[InstrModule]

\* Once detached (ProfilerDetachSucceeded or Shutdown), no callback changes
\* the module map, the metadata objects, the AppDomain set or the ReJIT
\* registry: the double check of is_attached_ under the lock.
DetachedIsQuiescent ==
    [][~is_attached =>
         UNCHANGED <<module_id_to_info_map, meta_state,
                     managed_profiler_module_id,
                     managed_profiler_loaded_app_domains, handler>>]_vars

\* The rewriter only dereferences the module's ModuleMetadata while it is
\* alive (the design keeps the lock across the rewrite for this).
RewriteMetadataLive ==
    \A p \in Threads :
        th[p].pc \in {"rw_meta", "rw_commit"} /\ th[p].meta # 0 =>
            meta_state[th[p].meta] = "live"

\* GetReJITParameters, JITInlining and ReJITCompilationStarted only call
\* into the ReJIT handler while Shutdown has not deleted it.
RejitHandlerLiveWhenUsed ==
    \A p \in Threads :
        th[p].pc \in {"grp_notify", "inl_query", "rcs_notify"} =>
            rejit_handler = "live"

\* While attached, and once the instrumentation assembly has finished
\* loading, its AppDomain stays in managed_profiler_loaded_app_domains, so
\* rewrites of methods of that AppDomain are not refused.
ProfilerDomainsComplete ==
    is_attached /\ asm_notified /\ module_id_to_info_map[InstrModule] # 0
        => DomainOf[InstrModule] \in managed_profiler_loaded_app_domains

\* A rewrite whose wrapper references could not be emitted is abandoned
\* (GetWrapperMethodRef returning false in CallTarget_RewriterCallback).
RewriteAbandonedOnEmitFailure ==
    [][\A p \in Threads :
         th[p].pc = "rw_commit" /\ th'[p].pc = "idle"
         /\ rejit'[Target(p)] = "rewritten" => th[p].ref_ok]_vars

=============================================================================
