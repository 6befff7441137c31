# Formal models of the native CLR profiler

This directory holds TLA+ models of the native profiler of
OpenTelemetry .NET automatic instrumentation:
`src/src/OpenTelemetry.AutoInstrumentation.Native/cor_profiler.cpp` and
`environment_variables_util.h`.

It also holds TLC configurations that model-check them, and TLAPS proofs about them.
`PROJECT.json` lists:
- every component;
- every run;
- the mutants that show each checked property can fail;
- the source lines behind each definition (`map`);
- the findings;
- the hazards of the code.

## 1. The system

The profiler is a COM object (`CorProfiler`) that the .NET runtime (the
*host*) loads into the process. The host calls its callbacks on host threads,
concurrently, for different modules and methods.

### 1.1 Parts and their state

| Part | Code | State |
|---|---|---|
| Attach flag | `Initialize` (46-245), `Shutdown` (804-822), `ProfilerDetachSucceeded` (824-846) | `is_attached_` (atomic), `rejit_handler` (pointer, deleted by Shutdown) |
| Module metadata cache | `ModuleLoadFinished` (539-743), `ModuleUnloadStarted` (745-802) | `module_id_to_info_map_` (ModuleID to `ModuleMetadata*`), guarded by `module_id_to_info_map_lock_`; `managed_profiler_module_id_` |
| Instrumentation-assembly tracking | `AssemblyLoadFinished` (247-325), `ProfilerAssemblyIsLoadedIntoAppDomain` (1170-1174) | `managed_profiler_loaded_app_domains` (a `std::set`), `managed_profiler_loaded_domain_neutral` |
| MethodMatcher | `CallTarget_RequestRejitForModule` (2363-2506) | none of its own: it writes into the ReJIT handler and calls `RequestRejit` |
| RejitCoordinator | `GetReJITParameters` (2236-2264), `ReJITCompilationStarted` (2220-2234), `JITInlining` (894-928); `RejitHandler` (rejit_handler.cpp, **not under src/**) | the handler's module handlers (each with a `ModuleMetadata*`) and registered methods |
| BytecodeRewriter | `CallTarget_RewriterCallback` (2561-3090), `GetWrapperMethodRef` (1101-1168) | none shared; it reads the module map under the lock and the module's metadata without it |
| Assembly redirection | `RedirectAssemblyReferences` (327-452, Windows) | the module's assembly references |
| Desktop loader injection | `JITCompilationStarted`, `JITCompilationStartedOnNetFramework` (851-1051), `JITCachedFunctionSearchStarted` (2294-2355), `AppDomainShutdownFinished` (869-892), `GenerateLoaderMethod`, `AddIISPreStartInitFlags` | `first_jit_compilation_app_domains` |
| PInvoke map rewriting | `RewritingPInvokeMaps` (454-537, non-Windows) | the instrumentation module's PInvoke maps |
| Environment flags | `environment_variables_util.h` (14-97) | one `static int sValue` per switch function |

### 1.2 How the parts interact

1. **Load.** `ModuleLoadFinished` checks `is_attached_` without the lock, takes the lock, and re-checks.
   - It allocates a `ModuleMetadata` and stores it in the map.
   - For the instrumentation assembly it records `managed_profiler_module_id_`.
   - For any other module it runs the matcher, which does three things:
     - registers every matched overload with the ReJIT handler (`GetOrAddModule`, `SetModuleMetadata`, `GetOrAddMethod`);
     - asks the host for all of them in one `RequestRejit`;
     - calls `RequestRejitForNGenInliners`.
2. **Assembly load.** `AssemblyLoadFinished` for the instrumentation assembly adds its AppDomain to `managed_profiler_loaded_app_domains`, under the lock.
3. **Grant.** The host later calls `GetReJITParameters(module, method)`.
   - The profiler looks up the module's metadata under the lock, *releases the lock*, and calls the handler.
   - The handler finds the registered method and calls `CallTarget_RewriterCallback`.
   - The rewriter checks `managed_profiler_module_id_`.
   - Under the lock, it looks up the instrumentation module's metadata and probes the wrapper type for `OnMethodBegin`/`OnMethodEnd`/`OnAsyncMethodEnd`.
   - It then works on the target module's metadata *without the lock*:
     - `GetCallTargetTokens`;
     - `GetWrapperMethodRef`, whose result it ignores;
     - checks that the instrumentation assembly is loaded in the module's AppDomain;
     - rewrites the IL and exports it.
4. **Inlining.** `JITInlining` and `ReJITCompilationStarted` call the handler after unlocked checks.
5. **Unload.** `ModuleUnloadStarted` checks, locks and re-checks. It then erases, in order:
   - the module's AppDomain from `managed_profiler_loaded_app_domains`;
   - the map entry;
   - the handler's module.

   Finally it deletes the `ModuleMetadata`.
6. **Loader injection (.NET Framework).**
   - `JITCompilationStarted` takes the lock. If the method's module has metadata, the module's AppDomain is not in `first_jit_compilation_app_domains`, and the method is a valid call site, it inserts the AppDomain and then calls `RunAutoInstrumentationLoader` to put a call of the Loader into the method.
   - A valid call site on IIS is only `BuildManager.InvokePreStartInitMethods` in System.Web. Elsewhere it is any method outside System and System.Net.Http.
   - When the Loader assembly is loaded into an AppDomain, `ModuleLoadFinished` inserts that AppDomain too.
   - `AppDomainShutdownFinished` erases it under the lock.
   - `JITCachedFunctionSearchStarted` refuses NGEN images of tracked modules whose AppDomain is not in the set.
7. **Environment switches.** Callbacks and rewriter threads call switch functions such as `IsNetFxAssemblyRedirectionEnabled` and `IsDumpILRewriteEnabled`. Each caches its parsed variable in an unlocked static.
8. **Shutdown and detach.** `Shutdown` shuts down and deletes the handler, then clears `is_attached_`, all under the lock. `ProfilerDetachSucceeded` clears `is_attached_` under the lock.

### 1.3 What makes it hard

- Callbacks interleave between their unlocked checks and their locked sections.
- `Shutdown` or detach can land between any two steps of another callback.
- Pointers are read under the lock and used after it is released.
- A module can be unloaded while a rewrite for it is in flight.
- The host may call back for a target whose module is already unloading.
- Host calls fail part-way.

None of this is reachable from a unit test without controlling the host's threads.

## 2. The modules

| Module | What it is |
|---|---|
| `ProfilerCallbacks.tla` | The callback surface: the attach flag, the module cache, the AppDomain set, the ReJIT registry and the rewriter's control flow, with the host's view of modules and of each target's ReJIT. |
| `MC_ProfilerCallbacks.tla` | Instantiates it for TLC: the target set, the AppDomain map and the symmetry. |
| `ProfilerCallbacksProofs.tla` | TLAPS proofs about `ProfilerCallbacks`: type correctness, and the action property `DetachedIsQuiescent`. |
| `MetadataLifetimeProofs.tla` | TLAPS proofs that every ModuleMetadata reference is live (`MetadataRefsLive`) and of its inductive invariant `MetaInv`. |
| `RegistryProofs.tla` | TLAPS proofs, on top of `MetaInv`, that pending ReJIT requests are registered (`PendingRejitRegistered`) and that the AppDomain set is sound (`ProfilerDomainsSound`). |
| `MC_MetadataLifetime.tla` | The same instance as `MC_ProfilerCallbacks`, checking `MetaInv`. |
| `LoaderInjection.tla` | Desktop loader injection: `first_jit_compilation_app_domains`, the JIT, NGEN and AppDomain-shutdown callbacks, the Loader's own module load, AppDomains created and their ids reused. |
| `MC_LoaderInjection.tla` | Instantiates it: which AppDomain and assembly each module belongs to, and the symmetry. |
| `LoaderInjectionProofs.tla` | TLAPS proofs of the two invariants of the loader run: `InjectedOncePerAppDomain` and `MarkedDomainsCurrent`. |
| `EnvFlags.tla` | The caching macros of `environment_variables_util.h` under concurrent callers. |
| `MC_EnvFlags.tla` | Instantiates it with four switches. |
| `EnvFlagsProofs.tla` | TLAPS proofs that every call returns its switch's own value (`ReturnsConfigured`). |

### 2.1 `ProfilerCallbacks`: state

| Variable | Code |
|---|---|
| `is_attached` | `is_attached_` |
| `rejit_handler` | `rejit_handler` (`"live"` or `"null"` after Shutdown) |
| `module_id_to_info_map` | `module_id_to_info_map_` (0 = no entry, otherwise a pointer) |
| `meta_state` | the heap: each `ModuleMetadata` pointer `1..MaxLoads` is unused, live or freed |
| `next_meta` | the next pointer `new ModuleMetadata` returns |
| `managed_profiler_module_id` | `managed_profiler_module_id_` |
| `managed_profiler_loaded_app_domains` | same name |
| `handler_module_meta`, `handler_methods` | the ReJIT handler's module handlers (their metadata pointer) and registered methods (modelled from the design, spec 4.4) |
| `host_module`, `asm_notified`, `rejit`, `host_phase` | the host:
  - each module absent, loading, loaded or unloading;
  - whether AssemblyLoadFinished was delivered;
  - each target's ReJIT state `none -> requested -> granted -> rewritten / aborted`;
  - whether Shutdown or detach has begun. |
| `th` | per host thread, the callback in progress: the program counter (which section it is at), its module and method, the metadata pointer it holds, and whether `GetWrapperMethodRef` succeeded. |

Every critical section of `module_id_to_info_map_lock_` is **one step**. No section waits on anything, so the lock needs no variable. What a callback does before taking the lock, or after releasing it, is a step of its own. Other threads can therefore run in between, as they can in the process.

### 2.2 `ProfilerCallbacks`: actions

Each action is one path through a handler. An early return is an action of its own.

| Action | Code |
|---|---|
| `MLF_Start` / `MLF_Unattached` | the unlocked `is_attached_` test of ModuleLoadFinished (551), true / false |
| `MLF_Store` / `MLF_Detached` | its locked section: store, record the instrumentation module or match and request (`RequestRejitForModule`) / the re-check fails (561) |
| `MUS_Start` / `MUS_Unattached` | the unlocked test of ModuleUnloadStarted (749) |
| `MUS_Remove` / `MUS_Skip` | its locked section: erase AppDomain, map entry, handler module, delete / re-check fails or no entry |
| `AssemblyLoadFinished` | the instrumentation assembly's load (other assemblies return before any change) |
| `Shutdown`, `Detach_Start`, `Detach_Locked` | Shutdown; ProfilerDetachSucceeded before and under the lock |
| `GRP_Start` / `GRP_Unattached`, `GRP_Found` / `GRP_NotFound` | GetReJITParameters: unlocked test, then the locked lookup |
| `GRP_Notify` / `GRP_NotRegistered` | the handler's NotifyReJITParameters (design): proceed only if the method is registered |
| `RW_Check` / `RW_NoInstrModule` | the rewriter's `managed_profiler_module_id_` test (2569) |
| `RW_Lock` / `RW_NoWrapper` | its locked wrapper lookup and hook probe (2577-2645) |
| `RW_Meta` | its unlocked use of the module metadata and `GetWrapperMethodRef` (2647-2664), success chosen freely |
| `RW_Abort`, `RW_Rewritten` | every refusal after that (AppDomain check, method shape, Import / WriteBeginMethod / Export failure) / Export |
| `Inl_Start`, `Inl_Query` | JITInlining: unlocked tests, then the handler query |
| `RCS_Start`, `RCS_Notify` | ReJITCompilationStarted: unlocked test, then the handler call |

The host's behaviour is in the guards:
- ModuleLoadFinished comes only for an absent module, with no other callback about it in flight.
- GetReJITParameters and ReJITCompilationStarted come only for a requested target.
- GetReJITParameters comes only while the module is loaded or unloading; spec 5 promises at most one per method in flight.
- Finishing an unload drops the module's pending requests (`HostUnloaded`).

The matching algorithm is abstracted to the constant `Targets`, the (module, method) pairs the catalog matches. `NoHooks` and `Unsupported` are the targets whose wrapper type lacks the hook methods, or whose shape the rewriter refuses.

### 2.3 `LoaderInjection`

| Variable | Code |
|---|---|
| `is_attached`, `is_desktop_iis` | `is_attached_`, `is_desktop_iis` (set once by `Initialize`, 131-132) |
| `stored` | the modules with an entry in `module_id_to_info_map_` |
| `first_jit_compilation_app_domains` | same name |
| `host_module`, `domain_state`, `gen` | the host: each module absent or loaded; each AppDomain absent, live or shutting; how many incarnations an AppDomain id has had |
| `injected`, `loader_in` | the host: the modules whose method now calls the Loader; the AppDomains the Loader assembly has been loaded into |
| `attempts`, `loader_ok`, `ngen_used` | ghosts, per AppDomain incarnation: the `RunAutoInstrumentationLoader` calls; whether a successful insertion reaches it; whether a tracked NGEN image was accepted there |
| `th` | per thread: inside `JITCompilationStartedOnNetFramework`'s lock or `AppDomainShutdownFinished`'s lock, with the module, call site or AppDomain |

| Action | Code |
|---|---|
| `JCS_Start` | `JITCompilationStarted` (851-866): the unlocked `is_attached_` test |
| `JCS_Return`, `JCS_InfoFailed` | the locked early returns (931-1001): detached, no metadata, AppDomain already marked, not a valid call site; `GetFunctionInfo` or the caller lookup fails |
| `JCS_Inject`, `JCS_InjectFailed` | insert the AppDomain, then `RunAutoInstrumentationLoader` succeeds or fails (1018-1049) |
| `JCFS_Accept` | `JITCachedFunctionSearchStarted` (2293-2350) answering "use the image" for a tracked module; the other answers change nothing |
| `ADSF_Start`, `ADSF_Unattached`, `ADSF_Locked` | `AppDomainShutdownFinished` (869-892): the unlocked test, then the re-check and the erase under the lock |
| `LoaderLoad` | the Loader assembly is loaded into an AppDomain, where `ModuleLoadFinished` inserts it (623-636) |
| `ModuleLoad`, `ModuleUnload`, `Detach` | the map store and erase, and detaching. `ProfilerCallbacks` analyses their locking, so each is one step here. |
| `DomainCreate` | the host creates an AppDomain, possibly reusing an id, up to `MaxGen` incarnations |

The host is constrained in three ways:
- A module is loaded only into a live AppDomain.
- An AppDomain's shutdown is reported only after all of its modules are unloaded.
- A module is not unloaded while a JIT callback for one of its methods is in progress.

The Loader runs in an AppDomain once a method that calls it, of that AppDomain's module or of a domain-neutral one, has been inserted.

### 2.4 `EnvFlags`

Each switch function expands `CheckIfTrue`, `CheckIfFalse` or `ToBooleanWithDefault`, with its own `static int sValue = -1`.

A call has three steps, each an atomic access to an aligned int:
- `Check` tests the static;
- `Compute`, on a miss, reads and parses the variable and stores the branch's value;
- `Return` reads the static again.

`env`, the parser's verdict on each variable, is chosen freely in `Init` and never changes. The parameterised switches (`Are*InstrumentationsEnabledByDefault`) are each called once, by `Initialize` (166-177). So their default is a constant (`Default`).

## 3. Runs

The callback runs use `MC_ProfilerCallbacks` (or `MC_MetadataLifetime`, the same instance) with these bounds:
- 2 threads;
- 3 modules: the instrumentation module `mi`, plus `ma` and `mb`, all in one AppDomain;
- 3 targets: two overloads in `ma` and one in `mb`;
- `mb`'s target lacks hook methods;
- `MaxLoads = 4`, the number of ModuleMetadata allocations.

| Run | cfg | Expect | What it shows |
|---|---|---|---|
| `callbacks_safety` | `MC_ProfilerCallbacks.cfg` | pass | `TypeOK`, `MetadataRefsLive`, `PendingRejitRegistered`, `ProfilerDomainsSound` and `DetachedIsQuiescent` hold in every interleaving (1,274,652 distinct states, depth 40, about 1 minute) |
| `metadata_inductive` | `MC_MetadataLifetime.cfg` | pass | the inductive invariant `MetaInv` of the proof in 4.4 holds in every reachable state |
| `rewrite_uses_freed_metadata` | `MC_RewriteMetadataLive.cfg` | violation | the rewriter reads a freed `ModuleMetadata` |
| `rejit_handler_after_shutdown` | `MC_RejitHandlerLiveWhenUsed.cfg` | violation | JITInlining / ReJITCompilationStarted / GetReJITParameters call a deleted `rejit_handler` |
| `unload_erases_profiler_domain` | `MC_ProfilerDomainsComplete.cfg` | violation | unloading any module of an AppDomain makes the profiler believe the instrumentation assembly is gone from it |
| `rewrite_after_failed_wrapper_ref` | `MC_RewriteAbandonedOnEmitFailure.cfg` | violation | IL is exported although `GetWrapperMethodRef` failed |
| `loader_safety` | `MC_LoaderInjection.cfg` | pass | `MarkedDomainsCurrent` and `InjectedOncePerAppDomain` hold in every interleaving, on IIS and elsewhere (384,808 distinct states, depth 24, about 20 s) |
| `ngen_without_loader` | `MC_NgenOnlyWithLoader.cfg` | violation | after a failed `RunAutoInstrumentationLoader`, NGEN images are accepted in an AppDomain the Loader never reaches |
| `loader_twice_via_shared_domain` | `MC_OneLoaderPerAppDomain.cfg` | violation | outside IIS, a Loader inserted into a domain-neutral method marks only the shared AppDomain, and the first JIT of an application module in `d1` inserts a second Loader that runs there too (see 3.5) |
| `env_flags` | `MC_EnvFlags.cfg` | pass | `ReturnsConfigured` holds for two threads, four switches and every environment (164,106 distinct states) |

`MC_LoaderInjection` has these bounds:
- 2 threads;
- the shared AppDomain and one application AppDomain `d1`, which can be created twice (`MaxGen = 2`), so its id is reused;
- 4 modules:
  - `web` (System.Web, domain neutral);
  - `sys` (System, in `d1`);
  - `a1` and `a2` (application assemblies, both in `d1`);
- 2 call sites: the IIS pre-start method and another one.

`a1` and `a2` put two first JITs into one AppDomain, and `web` reaches `d1` from the shared AppDomain. `sys` is the excluded assembly. `is_desktop_iis` is chosen in `Init`, so both branches of the call-site test are explored.

`MC_EnvFlags` has these bounds:
- 2 threads;
- 4 switches: two `ToBooleanWithDefault` with opposite defaults, and two `CheckIfTrue`.

So switches of one macro can disagree.

### 3.1 Properties of the pass run

- **MetadataRefsLive:**
  - every pointer in the module map is to a live `ModuleMetadata`;
  - every handler module's pointer is the one the map holds for that module.

  This is what the order "erase from handler, then delete" in ModuleUnloadStarted buys.
- **PendingRejitRegistered:** a target the host still has pending, in a loaded module, is registered with the live handler. So JITInlining refuses to inline it and GetReJITParameters finds it.
- **ProfilerDomainsSound:** an AppDomain is in the set only while the instrumentation module is stored, and only if it is that module's AppDomain.
- **DetachedIsQuiescent** (an action property): once `is_attached_` is false, no step changes the map, the heap, the AppDomain set or the handler. This is the re-check under the lock.

- **MarkedDomainsCurrent:** while attached, every marked AppDomain exists, and its current incarnation had the Loader inserted or loaded. AppDomain ids are reused, so a stale mark would deprive the new AppDomain of its Loader.
- **InjectedOncePerAppDomain:** `RunAutoInstrumentationLoader` runs at most once per AppDomain incarnation. This holds because the test and the insert of the marker are in one critical section, keyed by AppDomain.
- **ReturnsConfigured:** every call of a switch returns what its own macro computes from its own variable.

### 3.2 Mutants

Each property has a mutant of the code it depends on, defined in the model just before that code; TLC finds the property violated:

| Mutant | Plausible bug | Property broken |
|---|---|---|
| `NewMetadataOffByOne` | the allocator is off by one | `TypeOK` |
| `RemoveModuleKeepsMeta` | unload does not clear the handler's metadata pointer | `MetadataRefsLive` |
| `RequestRejitForModuleOneOverload` | only one matched overload is registered | `PendingRejitRegistered` |
| `UnloadDomainsKept` | the AppDomain is not erased on unload | `ProfilerDomainsSound` |
| `StillAttachedNoRecheck` | the re-check under the lock is dropped | `DetachedIsQuiescent` |
| `NewMetadataOffByOne` | the allocator is off by one | `MetaInv` (a waiting loader's pointer is not below `next_meta`) |
| `EraseDomainKept` | `AppDomainShutdownFinished` forgets the erase | `MarkedDomainsCurrent` |
| `HasLoaderInjectedByModule` | the marker is looked up per module instead of per AppDomain | `InjectedOncePerAppDomain` |
| `CacheSlotShared` | a macro turned into a helper function, so one static is shared by every switch | `ReturnsConfigured` |

### 3.3 Why these bounds are enough

- **Two threads** suffice for every race the findings describe: one thread is inside a callback and the other unloads, shuts down or detaches.
- **Three modules** separate the instrumentation module from two target modules that share its AppDomain. That is what `ProfilerDomainsComplete` needs.
- **Two overloads in `ma`** are what the one-overload mutant needs to be seen.
- **`MaxLoads = 4`** lets a module load, unload and reload while others are loaded, so pointers are freed and new ones are allocated.

Symmetry over the threads is sound: threads are interchangeable, and every property is a safety property.

Deadlock checking is off. The allocation bound ends module traffic, and the process can stop, so terminal states are expected.

### 3.4 Fairness

None is assumed. Every property checked is a safety property. The host gives no guarantee that it re-requests a refused ReJIT, so a liveness property about rewrites would need an assumption the code does not justify (see the hazard at 2681 in PROJECT.json).

### 3.5 Two Loaders in one AppDomain

`OneLoaderPerAppDomain` states what the comments at 1019 ("the first time a method is JIT compiled in an AppDomain, insert our Loader") and 629 ("do not insert another Loader into that non-shared AppDomain") intend: no two inserted Loader calls can run in one application AppDomain. A call inserted into a domain-neutral method counts for every AppDomain.

TLC finds it violated, outside IIS, in 8 states:
1. `d1` is created, and `web` (domain neutral) and `a1` (in `d1`) are loaded.
2. A method of `web` is JIT-compiled first. The marker is set for `module_metadata->app_domain_id` (1028), which is the shared AppDomain, and the Loader is inserted.
3. Before ModuleLoadFinished reports the Loader assembly in `d1` (633), a method of `a1` is JIT-compiled. `d1` is not marked and `a1` is a valid call site, so a second Loader is inserted.

On IIS this cannot happen: only System.Web's `InvokePreStartInitMethods` is a valid call site, and that test alone keeps the property, whatever the markers do, so the property says nothing about the markers there. Whether a second Loader call in an AppDomain does harm depends on the managed Loader, which is not in this repository.

## 4. Proofs

`ProfilerCallbacksProofs.tla` proves **`TypeCorrect`: `Spec => []TypeOK`**.

It holds for every value of the constants that satisfies `ConstantsAssumption`:
- the instrumentation module is a module;
- the null ids are not module or method ids;
- `DomainOf` maps modules to AppDomains;
- targets are (non-instrumentation module, method) pairs;
- `MaxLoads` is a positive natural.

### 4.1 Why TypeOK needs strengthening

`TypeOK` is not inductive on its own. `GRP_Notify` indexes `handler_module_meta` by the thread's module, so it must know that a busy thread names a real module.

The inductive invariant is `TypeInv == TypeBool /\ TypeRest /\ BusyThreadsNamed`:
- `BusyThreadsNamed`: every thread not idle, and not in the detach callback, holds a module of `Modules`.
- `TypeBool` and `TypeRest` together are `TypeOK`. `TypeBool` holds the two Boolean-valued variables, which are proved by Zenon. `TypeRest` holds the rest, which is proved by SMT.

### 4.2 Proof outline

| Step | What it proves | How |
|---|---|---|
| `TypeInvInit` | `Init => TypeInv` | — |
| `BoolStep` | `TypeBool` is kept by every step | one step per action |
| `RestStep` | `TypeRest /\ BusyThreadsNamed` is kept by every step, from the whole `TypeInv` | one step per action |
| `IdleType`, `LoadingThreadType`, `CommitThreadType` | the thread records the actions write are of type `ThreadState` | small lemmas |
| `TypeCorrect` | the theorem | `TypeInvInit`, `BoolStep`, `RestStep` and `TypeInvIsTypeOK`, combined by PTL |

### 4.3 What only TLC shows

Every invariant and action property of the passing runs is a theorem (4.4 to 4.8). TLC alone shows:
- that the theorems' properties hold on the instances, which is how each one was tried before it was proved, and that the mutants of 3.2 break them;
- that `RegistryInv` (4.7), `DetachEnding` (4.8) hold on the instances: each was checked as an invariant of the pass run's instance before it was proved, but none has a standing run of its own;
- everything about liveness: there is none yet, and TLAPS cannot prove liveness or `ENABLED`;
- what a recursive definition computes for every input: the prover cannot instantiate the library's induction theorems. Modules with `RECURSIVE` operators (the planned matcher) are checked by TLC only, and the modules with theorems reach none.

### 4.4 ModuleMetadata lifetime

`MetadataLifetimeProofs.tla` proves **`MetadataRefsLiveHolds`: `Spec => []MetadataRefsLive`**, from the same assumptions.

`MetadataRefsLive` is not inductive. ModuleLoadFinished draws its pointer before taking the lock and stores it later; ModuleUnloadStarted frees one module's object; Shutdown drops the handler. The inductive invariant `MetaInv` is `TypeInv /\ MetaRest`, where `MetaRest` adds to `MetadataRefsLive`:
- `MapInjective`: no two modules share a pointer, so freeing one leaves the others live;
- `FreshUnused`: pointers from `next_meta` up are unused;
- `LoadingHoldsFresh`: a thread waiting for the lock in ModuleLoadFinished holds an unused pointer below `next_meta`, for a module the host is loading;
- `LoadingDistinct`: two such threads hold different pointers;
- `HeldDistinct`: two threads waiting in ModuleLoadFinished or ModuleUnloadStarted are about different modules;
- `StoredLoaded`: while attached, a module with an entry is loaded or unloading, so the store never overwrites an entry and the module has no handler yet;
- `UnloadingHeld`: a thread in ModuleUnloadStarted's lock holds a module being unloaded;
- `HandlerClearedAfterShutdown` and `HandlerNullDetached`: Shutdown clears the handler and `is_attached_` together, so the re-check in ModuleLoadFinished and the `rejit_handler` test in ModuleUnloadStarted agree.

The run `metadata_inductive` checks `MetaInv` with TLC.

| Step | What it proves | How |
|---|---|---|
| `MetaInit` | `Init => MetaRest` | — |
| `QuietStep` | a step that leaves the map, the heap, the allocator, the handler's pointers, the host's modules and the waiting threads alone keeps `MetaRest` | per conjunct |
| `StepMLFStart` ... `StepShutdown` | the nine steps that do change them keep `MetaRest` | one lemma per action, one step per conjunct |
| `MetaStep` | every step keeps `MetaRest` | case split on `Next`; the twenty other actions go through `QuietStep` |
| `MetadataRefsLiveHolds` | the theorem | `TypeInvInit`, `MetaInit`, `BoolStep`, `RestStep` and `MetaStep`, combined by PTL |
| `MetaInvHolds` | `Spec => []MetaInv`, the invariant itself, for the proofs of 4.7 | the same |

### 4.5 Loader injected once per AppDomain

`LoaderInjectionProofs.tla` proves **`InjectedOncePerAppDomainHolds`: `Spec => []InjectedOncePerAppDomain`** and **`MarkedDomainsCurrentHolds`: `Spec => []MarkedDomainsCurrent`**.

It holds for all threads, modules, AppDomains and `MaxGen` that satisfy `LoaderConstants`. The injection step only tests the marker, so the inductive invariant `LoaderInv` adds:
- `InjectedMarked`: while attached, a live AppDomain that had an injection is marked.
- `MarkedDomainsCurrent` itself: a marker names an AppDomain of the current incarnation, so the erasure at AppDomainShutdownFinished leaves no stale marker behind for the next one.
- The host facts it rests on:
  - `CompilingLoaded`: a JIT callback holds a loaded module;
  - `LoadedInLive`: loaded modules are in live AppDomains;
  - `ShutdownShutting` and `ShutdownDistinct`: a thread in the shutdown lock is about a shutting AppDomain, and no other thread is about the same one.

When an AppDomain shuts down, its marker is erased, but the AppDomain is no longer live. When it is re-created, `attempts` starts again from 0. After a detach nothing is erased, and nothing is injected either.

The proof has:
- a lemma for the two injection steps, `InjectStep`;
- one step per other action, split per conjunct where needed.

### 4.6 Cached switches

`EnvFlagsProofs.tla` proves **`ReturnsConfiguredHolds`: `Spec => []ReturnsConfigured`**, for any number of threads and switches.

The inductive invariant `FlagInv` adds two facts:
- a static is always -1 or its switch's value;
- a thread about to execute `return sValue == 1` finds it set.

Both hold because no store writes any other value and nothing resets a static. The race on the static is benign because the environment does not change while the process runs.

### 4.7 The ReJIT registry and the AppDomain set

`RegistryProofs.tla` proves **`PendingRejitRegisteredHolds`** and **`ProfilerDomainsSoundHolds`**: `Spec => []PendingRejitRegistered` and `Spec => []ProfilerDomainsSound`, from the assumptions of 4.

The inductive invariant is `RegistryInv == MetaInv /\ RegRest`. `RegRest` adds to the two properties:
- `RequestedHeld`: a method whose ReJIT is requested belongs to a module the host holds;
- `LoadedStored`: while attached, a loaded module has a map entry, so ModuleLoadFinished's request finds its metadata.

`MetaInv` is needed because the registry's steps read the map and the handler. `RegistryInv` was checked with TLC, as an invariant of the `callbacks_safety` instance (1,274,652 distinct states), before it was proved. The step lemma `RegStep` has one case per action. The actions that change the registry or the AppDomain set have lemmas of their own: `RegMLFStore`, `RegMUSRemove`, `RegAssemblyLoad` and `RegShutdown`. Every other action goes through the frame lemma `RegFrame`.

### 4.8 A detached profiler is quiescent

`ProfilerCallbacksProofs.tla` proves **`DetachedIsQuiescentHolds`: `Spec => DetachedIsQuiescent`**, the action property. Once `is_attached_` is false, no step changes the map, the metadata, the managed profiler's module id or its AppDomains, or the handler.

The invariant it needs is `DetachEnding`. A detached profiler, and a thread in the detach path's lock, imply that the host is ending. The only step that could revive the state is a new load, and the host no longer sends those. `DetachEndingStep` has one case per action. `QuiescentNext` derives the action property from `DetachEnding`.

## 5. What is not modelled, and why

- **`RejitHandler` itself** is not part of the sources here. Its registry is modelled from the design (spec 4.4), and those definitions are marked `spec_modelled` in the map.
- **Modules that ModuleLoadFinished skips** (failed loads, by kind or name, dynamic modules) return before any shared state changes.
- **The desktop domain-neutral flag** is not modelled.
- **Host API failures** other than `GetWrapperMethodRef`'s are left out: GetModuleInfo, GetModuleMetaData, and failures inside the matcher. They end a callback early and are folded into the refusal actions.
- **Not modelled yet** (see PROJECT.json, components):
  - the matching algorithm;
  - the IL transformation;
  - assembly redirection;
  - PInvoke map rewriting.
- **Loader injection**:
  - the IL that `GenerateLoaderMethod` and `RunAutoInstrumentationLoader` emit is reduced to success or failure;
  - a failure of `AddIISPreStartInitFlags` after a successful insertion changes nothing the callback does afterwards, so it counts as success;
  - the `domain_neutral_assembly` flag (1022) is only logged;
  - the unlocked test in `JITCachedFunctionSearchStarted` is taken together with its locked section, because its answer matters only while attached and detaching is final.
- **Switch parser** (`TrueCondition`, `FalseCondition`, in a header not in this repository): reduced to its verdict. A second call of a parameterised switch with another default would return the first default. `Initialize` calls each of them once, so this never happens.
- **Left out entirely:** IL dumps, statistics and logging, which format text and hold no state that a property is about.
- **The unlocked read of `managed_profiler_loaded_app_domains`** (1173) is a data race on a `std::set`. The model takes the read as atomic.

## 6. Plan

Later modules, in this order:

1. **`MethodMatcher`:** the pure matching of `CallTarget_RequestRejitForModule`.
   - assembly name and version range;
   - overloads;
   - arity, with the return type at index 0 of `signature_types`;
   - per-argument type names with the `_` wildcard.

   It is written as operators and checked against a reference definition over bounded catalogs and signatures. It covers:
   - the `size() - 1` underflow;
   - two integrations matching one method, the last replacement winning.

   The constant `Targets` of `ProfilerCallbacks` is then the image of this operator.
2. **`RejitAbstract`:** the per-method state machine of spec 4.4, `Discovered -> RequestPending -> ParametersGranted -> Rewritten | Aborted`. `ProfilerCallbacks` is shown to implement it through `INSTANCE ... WITH` a refinement mapping from `rejit` and `th`, checked as a `PROPERTY` by TLC, and the initial-state and step obligations proved in TLAPS.
3. **`ILRewrite`:** the method-body transformation of `CallTarget_RewriterCallback`:
   - RET rewritten to LEAVE into one epilogue;
   - the exception clauses appended while the existing ones are preserved;
   - the fast-path and slow-path argument threshold.
4. **`AssemblyRedirect`:** the redirect map, where versions only rise and a reference is not rewritten again once redirected.

(`LoaderInjection` and `EnvFlags`, items of the first plan, are done; see 2.3, 2.4, 4.5 and 4.6.)

Proofs to add:
- the refinement of `RejitAbstract`, once it is written;
- an abstract specification of loader injection ("at most one Loader per AppDomain incarnation, at its first JIT") and the refinement of `LoaderInjection` to it.
