--------------------------- MODULE LoaderInjection ---------------------------
(***************************************************************************)
(* Desktop (.NET Framework) loader injection in cor_profiler.cpp.  The     *)
(* first JIT compilation of a suitable method in an AppDomain gets a call  *)
(* to the OpenTelemetry.AutoInstrumentation.Loader inserted                *)
(* (JITCompilationStarted, JITCompilationStartedOnNetFramework); the      *)
(* profiler remembers the AppDomain in first_jit_compilation_app_domains, *)
(* also when the Loader assembly itself is loaded (ModuleLoadFinished),   *)
(* forgets it in AppDomainShutdownFinished, and refuses NGEN images of a  *)
(* tracked module while its AppDomain has no loader                       *)
(* (JITCachedFunctionSearchStarted).                                      *)
(*                                                                         *)
(* As in ProfilerCallbacks, each section under module_id_to_info_map_lock_ *)
(* is one step.  Module loads and unloads, whose locking ProfilerCallbacks *)
(* analyses, are one step each here; so is detaching.  AppDomain ids are   *)
(* reused by the host: an AppDomain may be created again after its         *)
(* shutdown, as a new incarnation.                                         *)
(***************************************************************************)
EXTENDS Naturals, FiniteSets

CONSTANTS
    Threads,        \* host threads delivering callbacks
    Modules,        \* ModuleIDs of modules the profiler stores metadata for
    Domains,        \* AppDomainIDs
    SharedDomain,   \* the AppDomain of domain-neutral assemblies
    ModDomain,      \* the AppDomain a module is loaded into
    AssemblyOf,     \* "System", "System.Net.Http", "System.Web" or "app"
    CallSites,      \* methods whose JIT compilation is reported
    PreStartInit,   \* System.Web.Compilation.BuildManager.InvokePreStartInitMethods
    MaxGen,         \* bound on the incarnations of an AppDomain
    NoModule

ASSUME LoaderConstants ==
    /\ SharedDomain \in Domains
    /\ ModDomain \in [Modules -> Domains]
    /\ AssemblyOf \in [Modules -> {"System", "System.Net.Http", "System.Web", "app"}]
    /\ PreStartInit \in CallSites
    /\ MaxGen \in Nat \ {0}
    /\ NoModule \notin Modules

VARIABLES
    is_attached,
    is_desktop_iis,     \* set by Initialize: w3wp.exe or iisexpress.exe
    stored,             \* modules with a ModuleMetadata in module_id_to_info_map_
    first_jit_compilation_app_domains,
    host_module,        \* "absent" | "loaded"
    domain_state,       \* "absent" | "live" | "shutting"
    gen,                \* incarnations of each AppDomain so far
    injected,           \* modules whose method calls the Loader (host IL)
    loader_in,          \* AppDomains the Loader assembly is loaded into
    attempts,           \* ghost: RunAutoInstrumentationLoader calls, per incarnation
    loader_ok,          \* ghost: AppDomains a successful injection reaches
    ngen_used,          \* ghost: AppDomains a tracked NGEN image was accepted in
    th                  \* per-thread callback in progress

vars == <<is_attached, is_desktop_iis, stored, first_jit_compilation_app_domains, host_module,
          domain_state, gen, injected, loader_in, attempts, loader_ok,
          ngen_used, th>>

PcValues == {"idle", "jcs_lock", "adsf_lock"}
ThreadState == [pc : PcValues, mod : Modules \cup {NoModule},
                site : CallSites, dom : Domains]
Idle == [pc |-> "idle", mod |-> NoModule, site |-> PreStartInit,
         dom |-> SharedDomain]
AppDomains == Domains \ {SharedDomain}

TypeOK ==
    /\ is_attached \in BOOLEAN
    /\ is_desktop_iis \in BOOLEAN
    /\ stored \subseteq Modules
    /\ first_jit_compilation_app_domains \subseteq Domains
    /\ host_module \in [Modules -> {"absent", "loaded"}]
    /\ domain_state \in [Domains -> {"absent", "live", "shutting"}]
    /\ gen \in [Domains -> 0..MaxGen]
    /\ injected \subseteq Modules
    /\ loader_in \subseteq Domains
    /\ attempts \in [Domains -> Nat]
    /\ loader_ok \subseteq Domains
    /\ ngen_used \subseteq Domains
    /\ th \in [Threads -> ThreadState]

\* Attached after Initialize, in IIS or not; only the shared AppDomain
\* exists.
Init ==
    /\ is_attached = TRUE
    /\ is_desktop_iis \in BOOLEAN
    /\ stored = {}
    /\ first_jit_compilation_app_domains = {}
    /\ host_module = [m \in Modules |-> "absent"]
    /\ domain_state = [d \in Domains |-> IF d = SharedDomain THEN "live"
                                                             ELSE "absent"]
    /\ gen = [d \in Domains |-> IF d = SharedDomain THEN 1 ELSE 0]
    /\ injected = {}
    /\ loader_in = {}
    /\ attempts = [d \in Domains |-> 0]
    /\ loader_ok = {}
    /\ ngen_used = {}
    /\ th = [p \in Threads |-> Idle]

-----------------------------------------------------------------------------
(* The host's AppDomains and modules.                                      *)

\* The host creates an AppDomain, possibly reusing the id of a dead one.
DomainCreate(d) ==
    /\ d \in AppDomains
    /\ domain_state[d] = "absent"
    /\ gen[d] < MaxGen
    /\ domain_state' = [domain_state EXCEPT ![d] = "live"]
    /\ gen' = [gen EXCEPT ![d] = @ + 1]
    /\ attempts' = [attempts EXCEPT ![d] = 0]
    /\ loader_in' = loader_in \ {d}
    /\ loader_ok' = loader_ok \ {d}
    /\ ngen_used' = ngen_used \ {d}
    /\ UNCHANGED <<is_attached, is_desktop_iis, stored, first_jit_compilation_app_domains,
                   host_module, injected, th>>

\* ModuleLoadFinished stores the module's metadata while attached.
ModuleLoad(m) ==
    /\ host_module[m] = "absent"
    /\ domain_state[ModDomain[m]] = "live"
    /\ host_module' = [host_module EXCEPT ![m] = "loaded"]
    /\ stored' = IF is_attached THEN stored \cup {m} ELSE stored
    /\ UNCHANGED <<is_attached, is_desktop_iis, first_jit_compilation_app_domains,
                   domain_state, gen, injected, loader_in, attempts,
                   loader_ok, ngen_used, th>>

\* ModuleUnloadStarted erases it while attached; no JIT of the module is
\* in progress.
ModuleUnload(m) ==
    /\ host_module[m] = "loaded"
    /\ \A p \in Threads : th[p].mod # m
    /\ host_module' = [host_module EXCEPT ![m] = "absent"]
    /\ stored' = IF is_attached THEN stored \ {m} ELSE stored
    /\ injected' = injected \ {m}
    /\ UNCHANGED <<is_attached, is_desktop_iis, first_jit_compilation_app_domains,
                   domain_state, gen, loader_in, attempts, loader_ok,
                   ngen_used, th>>

\* A method that calls the Loader runs in AppDomain d: a method of d's own
\* module, or a domain-neutral method running in d.  The Loader assembly
\* is loaded into d, and ModuleLoadFinished, while attached, records d so
\* that no second Loader is inserted there.
LoaderLoad(d) ==
    /\ d \in AppDomains
    /\ domain_state[d] = "live"
    /\ d \notin loader_in
    /\ \E m \in injected : ModDomain[m] \in {d, SharedDomain}
    /\ loader_in' = loader_in \cup {d}
    /\ loader_ok' = loader_ok \cup {d}
    /\ first_jit_compilation_app_domains' =
          IF is_attached THEN first_jit_compilation_app_domains \cup {d}
                         ELSE first_jit_compilation_app_domains
    /\ UNCHANGED <<is_attached, is_desktop_iis, stored, host_module, domain_state, gen,
                   injected, attempts, ngen_used, th>>

\* Shutdown or ProfilerDetachSucceeded clears is_attached_.
Detach ==
    /\ is_attached
    /\ is_attached' = FALSE
    /\ UNCHANGED <<is_desktop_iis, stored, first_jit_compilation_app_domains, host_module,
                   domain_state, gen, injected, loader_in, attempts,
                   loader_ok, ngen_used, th>>

-----------------------------------------------------------------------------
(* AppDomainShutdownFinished                                               *)

\* The host has unloaded every module of d and reports its shutdown; the
\* unlocked check of is_attached_ passes.
ADSF_Start(p, d) ==
    /\ th[p].pc = "idle"
    /\ d \in AppDomains
    /\ domain_state[d] = "live"
    /\ \A m \in Modules : ModDomain[m] = d => host_module[m] = "absent"
    /\ is_attached
    /\ domain_state' = [domain_state EXCEPT ![d] = "shutting"]
    /\ th' = [th EXCEPT ![p] = [Idle EXCEPT !.pc = "adsf_lock", !.dom = d]]
    /\ UNCHANGED <<is_attached, is_desktop_iis, stored, first_jit_compilation_app_domains,
                   host_module, gen, injected, loader_in, attempts,
                   loader_ok, ngen_used>>

\* Detached: the callback returns at once, the AppDomain id is free.
ADSF_Unattached(p, d) ==
    /\ th[p].pc = "idle"
    /\ d \in AppDomains
    /\ domain_state[d] = "live"
    /\ \A m \in Modules : ModDomain[m] = d => host_module[m] = "absent"
    /\ ~is_attached
    /\ domain_state' = [domain_state EXCEPT ![d] = "absent"]
    /\ UNCHANGED <<is_attached, is_desktop_iis, stored, first_jit_compilation_app_domains,
                   host_module, gen, injected, loader_in, attempts,
                   loader_ok, ngen_used, th>>

\* Mutant: the erase is forgotten.
EraseDomainKept(d) == first_jit_compilation_app_domains

\* first_jit_compilation_app_domains.erase(appDomainId)
EraseDomain(d) == first_jit_compilation_app_domains \ {d}

\* Under the lock, the double check of is_attached_, then the erase; when
\* the callback returns the host may reuse the id.
ADSF_Locked(p) ==
    /\ th[p].pc = "adsf_lock"
    /\ first_jit_compilation_app_domains' =
          IF is_attached THEN EraseDomain(th[p].dom)
                         ELSE first_jit_compilation_app_domains
    /\ domain_state' = [domain_state EXCEPT ![th[p].dom] = "absent"]
    /\ th' = [th EXCEPT ![p] = Idle]
    /\ UNCHANGED <<is_attached, is_desktop_iis, stored, host_module, gen, injected,
                   loader_in, attempts, loader_ok, ngen_used>>

-----------------------------------------------------------------------------
(* JITCompilationStarted and JITCompilationStartedOnNetFramework          *)

\* valid_loader_callsite: on IIS only BuildManager.InvokePreStartInitMethods
\* in System.Web; elsewhere any method outside System and System.Net.Http.
ValidLoaderCallsite(m, c) ==
    IF is_desktop_iis
    THEN AssemblyOf[m] = "System.Web" /\ c = PreStartInit
    ELSE AssemblyOf[m] \notin {"System", "System.Net.Http"}

\* Mutant: the marker is looked up for the module instead of its AppDomain
\* (as if keyed by ModuleID).
HasLoaderInjectedByModule(m) == m \in injected

\* has_loader_injected_in_appdomain
HasLoaderInjected(m) == ModDomain[m] \in first_jit_compilation_app_domains

\* The host JIT-compiles method c of a loaded module m; the unlocked check
\* of is_attached_ (and is_safe_to_block) passes.
JCS_Start(p, m, c) ==
    /\ th[p].pc = "idle"
    /\ host_module[m] = "loaded"
    /\ is_attached
    /\ th' = [th EXCEPT ![p] = [Idle EXCEPT !.pc = "jcs_lock", !.mod = m,
                                  !.site = c]]
    /\ UNCHANGED <<is_attached, is_desktop_iis, stored, first_jit_compilation_app_domains,
                   host_module, domain_state, gen, injected, loader_in,
                   attempts, loader_ok, ngen_used>>

\* Under the lock, one of the early returns: detached, no metadata, the
\* AppDomain already has the loader, or not a valid loader call site.
JCS_Return(p) ==
    /\ th[p].pc = "jcs_lock"
    /\ \/ ~is_attached
       \/ th[p].mod \notin stored
       \/ HasLoaderInjected(th[p].mod)
       \/ ~ValidLoaderCallsite(th[p].mod, th[p].site)
    /\ th' = [th EXCEPT ![p] = Idle]
    /\ UNCHANGED <<is_attached, is_desktop_iis, stored, first_jit_compilation_app_domains,
                   host_module, domain_state, gen, injected, loader_in,
                   attempts, loader_ok, ngen_used>>

\* Under the lock, GetFunctionInfo or the caller's metadata lookup fails:
\* the callback returns whatever the marker says.
JCS_InfoFailed(p) ==
    /\ th[p].pc = "jcs_lock"
    /\ th' = [th EXCEPT ![p] = Idle]
    /\ UNCHANGED <<is_attached, is_desktop_iis, stored, first_jit_compilation_app_domains,
                   host_module, domain_state, gen, injected, loader_in,
                   attempts, loader_ok, ngen_used>>

\* The guard of the injection under the lock.
CanInject(p) ==
    /\ th[p].pc = "jcs_lock"
    /\ is_attached
    /\ th[p].mod \in stored
    /\ ~HasLoaderInjected(th[p].mod)
    /\ ValidLoaderCallsite(th[p].mod, th[p].site)

\* The AppDomain is recorded, then RunAutoInstrumentationLoader inserts the
\* Loader call (AddIISPreStartInitFlags on IIS only adds flags).
JCS_Inject(p) ==
    /\ CanInject(p)
    /\ LET d == ModDomain[th[p].mod]
       IN /\ first_jit_compilation_app_domains' =
                first_jit_compilation_app_domains \cup {d}
          /\ attempts' = [attempts EXCEPT ![d] = @ + 1]
          /\ loader_ok' = loader_ok \cup {d}
    /\ injected' = injected \cup {th[p].mod}
    /\ th' = [th EXCEPT ![p] = Idle]
    /\ UNCHANGED <<is_attached, is_desktop_iis, stored, host_module, domain_state, gen,
                   loader_in, ngen_used>>

\* RunAutoInstrumentationLoader fails after the AppDomain was recorded;
\* the callback returns.
JCS_InjectFailed(p) ==
    /\ CanInject(p)
    /\ LET d == ModDomain[th[p].mod]
       IN /\ first_jit_compilation_app_domains' =
                first_jit_compilation_app_domains \cup {d}
          /\ attempts' = [attempts EXCEPT ![d] = @ + 1]
    /\ th' = [th EXCEPT ![p] = Idle]
    /\ UNCHANGED <<is_attached, is_desktop_iis, stored, host_module, domain_state, gen,
                   injected, loader_in, loader_ok, ngen_used>>

-----------------------------------------------------------------------------
(* JITCachedFunctionSearchStarted                                          *)

\* The host offers an NGEN image of a method of loaded module m; attached
\* (the check before the lock; the properties about the answer hold only
\* while attached, and detaching is final).  The answer is all that changes:
\* a module without metadata, or one whose AppDomain has the loader, uses
\* the image (recorded when the module is tracked); otherwise the image is
\* refused, a step that changes nothing.
JCFS_Accept(m) ==
    /\ host_module[m] = "loaded"
    /\ is_attached
    /\ m \in stored
    /\ HasLoaderInjected(m)
    /\ ngen_used' = ngen_used \cup {ModDomain[m]}
    /\ UNCHANGED <<is_attached, is_desktop_iis, stored, first_jit_compilation_app_domains,
                   host_module, domain_state, gen, injected, loader_in,
                   attempts, loader_ok, th>>

-----------------------------------------------------------------------------
Next ==
    \/ \E d \in Domains : DomainCreate(d) \/ LoaderLoad(d)
    \/ \E m \in Modules : ModuleLoad(m) \/ ModuleUnload(m) \/ JCFS_Accept(m)
    \/ Detach
    \/ \E p \in Threads :
          \/ \E d \in Domains : ADSF_Start(p, d) \/ ADSF_Unattached(p, d)
          \/ ADSF_Locked(p)
          \/ \E m \in Modules, c \in CallSites : JCS_Start(p, m, c)
          \/ JCS_Return(p) \/ JCS_InfoFailed(p) \/ JCS_Inject(p) \/ JCS_InjectFailed(p)

Spec == Init /\ [][Next]_vars

-----------------------------------------------------------------------------
(* Properties                                                              *)

\* While attached, an AppDomain in first_jit_compilation_app_domains is one
\* that exists, and the loader was inserted into (or loaded into) this
\* incarnation of it: AppDomainShutdownFinished erases the id before the
\* host can reuse it, so a new AppDomain with an old id gets its own loader.
MarkedDomainsCurrent ==
    is_attached =>
        \A d \in first_jit_compilation_app_domains :
            /\ domain_state[d] # "absent"
            /\ attempts[d] > 0 \/ d \in loader_in

\* RunAutoInstrumentationLoader is called at most once per incarnation of
\* an AppDomain: the check and the insert are in one critical section, and
\* the marker is the AppDomain's (the comment at the injection).
InjectedOncePerAppDomain ==
    \A d \in Domains : attempts[d] <= 1

\* No two inserted Loader calls can run in one application AppDomain: "the
\* first time a method is JIT compiled in an AppDomain, insert our Loader"
\* (JITCompilationStartedOnNetFramework), and once the Loader assembly is
\* loaded "do not insert another Loader into that non-shared AppDomain"
\* (ModuleLoadFinished).  A call inserted into a domain-neutral method runs
\* in every AppDomain that calls it.
OneLoaderPerAppDomain ==
    \A d \in AppDomains :
        Cardinality({m \in injected : ModDomain[m] \in {d, SharedDomain}}) <= 1

\* An NGEN image of a tracked module is used in an AppDomain only when the
\* Loader reaches it ("we skip the NGEN image to allow the
\* JITCompilationStart inject it").
NgenOnlyWithLoader ==
    is_attached => ngen_used \subseteq loader_ok

=============================================================================
