------------------------ MODULE LoaderInjectionProofs ------------------------
(***************************************************************************)
(* JITCompilationStartedOnNetFramework calls RunAutoInstrumentationLoader *)
(* at most once per incarnation of an AppDomain (InjectedOncePerAppDomain) *)
(* for every number of threads, modules and AppDomains and every bound on *)
(* the reuse of AppDomain ids.                                             *)
(***************************************************************************)
EXTENDS LoaderInjection, TLAPS

(***************************************************************************)
(* InjectedOncePerAppDomain is not inductive: the injection step only      *)
(* tests the marker, so the marker must be known to be set wherever an     *)
(* injection already happened.  That holds only while the AppDomain is    *)
(* live (AppDomainShutdownFinished erases the marker) and attached (after *)
(* a detach nothing is erased, and nothing is injected either), and it    *)
(* needs the host's order: a thread compiling a method holds its loaded   *)
(* module, a loaded module's AppDomain is live, and a shutdown in progress *)
(* is of an AppDomain already shutting.                                   *)
(***************************************************************************)

\* A thread inside JITCompilationStartedOnNetFramework compiles a method
\* of a loaded module.
CompilingLoaded ==
    \A p \in Threads :
        th[p].pc = "jcs_lock" =>
            th[p].mod \in Modules /\ host_module[th[p].mod] = "loaded"

\* A thread inside AppDomainShutdownFinished's lock is about an
\* application AppDomain that is shutting down.
ShutdownShutting ==
    \A p \in Threads :
        th[p].pc = "adsf_lock" =>
            th[p].dom \in AppDomains /\ domain_state[th[p].dom] = "shutting"

\* The host reports the shutdown of an AppDomain once, so two threads
\* inside that lock are about different AppDomains.
ShutdownDistinct ==
    \A p1, p2 \in Threads :
        p1 # p2 /\ th[p1].pc = "adsf_lock" /\ th[p2].pc = "adsf_lock" =>
            th[p1].dom # th[p2].dom

\* The host loads modules into live AppDomains only, and shuts an
\* AppDomain down only after unloading its modules.
LoadedInLive ==
    \A m \in Modules :
        host_module[m] = "loaded" => domain_state[ModDomain[m]] = "live"

\* While attached, a live AppDomain that had an injection is marked.
InjectedMarked ==
    \A d \in Domains :
        is_attached /\ domain_state[d] = "live" /\ attempts[d] > 0 =>
            d \in first_jit_compilation_app_domains

\* The inductive invariant.
LoaderInv ==
    /\ TypeOK
    /\ CompilingLoaded
    /\ ShutdownShutting
    /\ ShutdownDistinct
    /\ LoadedInLive
    /\ InjectedMarked
    /\ InjectedOncePerAppDomain
    /\ MarkedDomainsCurrent

LEMMA LoaderInitHolds == Init => LoaderInv
BY LoaderConstants
DEF Init, LoaderInv, TypeOK, CompilingLoaded, ShutdownShutting, ShutdownDistinct,
    LoadedInLive, InjectedMarked, InjectedOncePerAppDomain, MarkedDomainsCurrent, AppDomains, Idle,
    ThreadState, PcValues

\* An idle thread's record is a thread state.
LEMMA IdleType == Idle \in ThreadState
BY LoaderConstants DEF Idle, ThreadState, PcValues

\* TypeOK of the next state, from the types of its parts.
LEMMA TypeNext ==
    ASSUME is_attached' \in BOOLEAN, is_desktop_iis' \in BOOLEAN,
           stored' \subseteq Modules,
           first_jit_compilation_app_domains' \subseteq Domains,
           host_module' \in [Modules -> {"absent", "loaded"}],
           domain_state' \in [Domains -> {"absent", "live", "shutting"}],
           gen' \in [Domains -> 0..MaxGen], injected' \subseteq Modules,
           loader_in' \subseteq Domains, attempts' \in [Domains -> Nat],
           loader_ok' \subseteq Domains, ngen_used' \subseteq Domains,
           th' \in [Threads -> ThreadState]
    PROVE  TypeOK'
BY DEF TypeOK

\* The injection steps: the thread's AppDomain is live and unmarked while
\* attached, so it had no injection yet.
LEMMA InjectStep ==
    ASSUME LoaderInv, NEW p \in Threads, JCS_Inject(p) \/ JCS_InjectFailed(p)
    PROVE  LoaderInv'
<1> DEFINE d == ModDomain[th[p].mod]
<1>1. th[p].mod \in Modules /\ d \in Domains
      BY LoaderConstants DEF LoaderInv, CompilingLoaded, CanInject, JCS_Inject, JCS_InjectFailed
<1>2. is_attached /\ domain_state[d] = "live" /\ d \notin first_jit_compilation_app_domains
      BY <1>1 DEF LoaderInv, CompilingLoaded, LoadedInLive, CanInject, HasLoaderInjected,
                  JCS_Inject, JCS_InjectFailed
<1>3. attempts[d] = 0
      BY <1>1, <1>2 DEF LoaderInv, InjectedMarked, TypeOK
<1>4. attempts' = [attempts EXCEPT ![d] = 1]
      BY <1>3 DEF JCS_Inject, JCS_InjectFailed
<1>5. first_jit_compilation_app_domains' = first_jit_compilation_app_domains \cup {d}
      BY DEF JCS_Inject, JCS_InjectFailed
<1>7. th' = [th EXCEPT ![p] = Idle]
      /\ UNCHANGED <<host_module, domain_state>>
      BY DEF JCS_Inject, JCS_InjectFailed
<1>6. TypeOK'
      <2>1. th' \in [Threads -> ThreadState]
            BY <1>7, IdleType DEF LoaderInv, TypeOK
      <2>2. attempts' \in [Domains -> Nat]
            BY <1>1, <1>4 DEF LoaderInv, TypeOK
      <2>3. injected' \subseteq Modules /\ loader_ok' \subseteq Domains
            BY <1>1 DEF LoaderInv, TypeOK, JCS_Inject, JCS_InjectFailed
      <2>4. QED
            BY <1>1, <1>5, <2>1, <2>2, <2>3, TypeNext DEF LoaderInv, TypeOK, JCS_Inject, JCS_InjectFailed
<1>71. CompilingLoaded'
      BY <1>7 DEF LoaderInv, TypeOK, CompilingLoaded, Idle
<1>72. ShutdownShutting'
      BY <1>7 DEF LoaderInv, TypeOK, ShutdownShutting, Idle
<1>73. ShutdownDistinct'
      BY <1>7 DEF LoaderInv, TypeOK, ShutdownDistinct, Idle
<1>74. LoadedInLive'
      BY <1>7 DEF LoaderInv, LoadedInLive
<1>8. InjectedMarked'
      BY <1>1, <1>2, <1>4, <1>5, <1>7 DEF LoaderInv, InjectedMarked, TypeOK, JCS_Inject, JCS_InjectFailed
<1>9. InjectedOncePerAppDomain'
      BY <1>1, <1>4 DEF LoaderInv, InjectedOncePerAppDomain, TypeOK
<1>11. MarkedDomainsCurrent'
      BY <1>1, <1>2, <1>4, <1>5, <1>7 DEF LoaderInv, MarkedDomainsCurrent, TypeOK, JCS_Inject,
                                         JCS_InjectFailed
<1>10. QED
      BY <1>6, <1>71, <1>72, <1>73, <1>74, <1>8, <1>9, <1>11 DEF LoaderInv

\* Every step keeps LoaderInv.
LEMMA LoaderStep == LoaderInv /\ [Next]_vars => LoaderInv'
<1> SUFFICES ASSUME LoaderInv, [Next]_vars PROVE LoaderInv'
    OBVIOUS
<1> USE LoaderConstants
<1>1. ASSUME NEW d \in Domains, DomainCreate(d) PROVE LoaderInv'
      BY <1>1 DEF DomainCreate, LoaderInv, TypeOK, CompilingLoaded, ShutdownShutting,
                  ShutdownDistinct, LoadedInLive, InjectedMarked, InjectedOncePerAppDomain, MarkedDomainsCurrent
<1>2. ASSUME NEW d \in Domains, LoaderLoad(d) PROVE LoaderInv'
      BY <1>2 DEF LoaderLoad, LoaderInv, TypeOK, CompilingLoaded, ShutdownShutting,
                  ShutdownDistinct, LoadedInLive, InjectedMarked, InjectedOncePerAppDomain, MarkedDomainsCurrent
<1>3. ASSUME NEW m \in Modules, ModuleLoad(m) PROVE LoaderInv'
      BY <1>3 DEF ModuleLoad, LoaderInv, TypeOK, CompilingLoaded, ShutdownShutting,
                  ShutdownDistinct, LoadedInLive, InjectedMarked, InjectedOncePerAppDomain, MarkedDomainsCurrent
<1>4. ASSUME NEW m \in Modules, ModuleUnload(m) PROVE LoaderInv'
      BY <1>4 DEF ModuleUnload, LoaderInv, TypeOK, CompilingLoaded, ShutdownShutting,
                  ShutdownDistinct, LoadedInLive, InjectedMarked, InjectedOncePerAppDomain, MarkedDomainsCurrent
<1>5. ASSUME NEW m \in Modules, JCFS_Accept(m) PROVE LoaderInv'
      BY <1>5 DEF JCFS_Accept, LoaderInv, TypeOK, CompilingLoaded, ShutdownShutting,
                  ShutdownDistinct, LoadedInLive, InjectedMarked, InjectedOncePerAppDomain, MarkedDomainsCurrent
<1>6. CASE Detach
      BY <1>6 DEF Detach, LoaderInv, TypeOK, CompilingLoaded, ShutdownShutting,
                  ShutdownDistinct, LoadedInLive, InjectedMarked, InjectedOncePerAppDomain, MarkedDomainsCurrent
<1>7. ASSUME NEW p \in Threads, NEW d \in Domains, ADSF_Start(p, d) PROVE LoaderInv'
      <2>1. /\ domain_state' = [domain_state EXCEPT ![d] = "shutting"]
            /\ d \in AppDomains /\ domain_state[d] = "live"
            /\ \A m \in Modules : ModDomain[m] = d => host_module[m] = "absent"
            /\ UNCHANGED <<is_attached, host_module, attempts, loader_in,
                           first_jit_compilation_app_domains>>
            BY <1>7 DEF ADSF_Start
      <2>9. /\ th'[p].pc = "adsf_lock" /\ th'[p].dom = d
            /\ \A q \in Threads \ {p} : th'[q] = th[q]
            BY <1>7 DEF ADSF_Start, LoaderInv, TypeOK, Idle
      <2>2. TypeOK'
            <3>1. th' \in [Threads -> ThreadState]
                  BY <1>7 DEF ADSF_Start, LoaderInv, TypeOK, Idle, ThreadState, PcValues
            <3>2. QED
                  BY <1>7, <2>1, <3>1, TypeNext DEF ADSF_Start, LoaderInv, TypeOK
      <2>3. CompilingLoaded'
            BY <2>1, <2>9 DEF LoaderInv, TypeOK, CompilingLoaded
      <2>4. ShutdownShutting'
            BY <2>1, <2>9 DEF LoaderInv, TypeOK, ShutdownShutting
      <2>5. ShutdownDistinct'
            BY <2>1, <2>9 DEF LoaderInv, TypeOK, ShutdownShutting, ShutdownDistinct
      <2>6. LoadedInLive'
            <3>1. \A m \in Modules : host_module[m] = "loaded" => ModDomain[m] # d
                  BY <2>1
            <3>2. QED
                  BY <2>1, <3>1 DEF LoaderInv, TypeOK, LoadedInLive
      <2>7. InjectedMarked'
            BY <2>1 DEF LoaderInv, TypeOK, InjectedMarked
      <2>10. MarkedDomainsCurrent'
            BY <2>1 DEF LoaderInv, TypeOK, MarkedDomainsCurrent
      <2>8. QED
            BY <1>7, <2>2, <2>3, <2>4, <2>5, <2>6, <2>7, <2>10
            DEF ADSF_Start, LoaderInv, InjectedOncePerAppDomain, Idle
<1>8. ASSUME NEW p \in Threads, NEW d \in Domains, ADSF_Unattached(p, d) PROVE LoaderInv'
      BY <1>8 DEF ADSF_Unattached, LoaderInv, TypeOK, CompilingLoaded, ShutdownShutting,
                  ShutdownDistinct, LoadedInLive, InjectedMarked, InjectedOncePerAppDomain, MarkedDomainsCurrent
<1>9. ASSUME NEW p \in Threads, ADSF_Locked(p) PROVE LoaderInv'
      BY <1>9 DEF ADSF_Locked, EraseDomain, LoaderInv, TypeOK, CompilingLoaded,
                  ShutdownShutting, ShutdownDistinct, LoadedInLive, InjectedMarked, InjectedOncePerAppDomain, MarkedDomainsCurrent,
                  Idle, ThreadState, PcValues
<1>10. ASSUME NEW p \in Threads, NEW m \in Modules, NEW c \in CallSites, JCS_Start(p, m, c)
       PROVE LoaderInv'
      <2>1. /\ host_module[m] = "loaded"
            /\ UNCHANGED <<is_attached, host_module, domain_state, attempts, loader_in,
                           first_jit_compilation_app_domains>>
            BY <1>10 DEF JCS_Start
      <2>9. /\ th'[p].pc = "jcs_lock" /\ th'[p].mod = m
            /\ \A q \in Threads \ {p} : th'[q] = th[q]
            BY <1>10 DEF JCS_Start, LoaderInv, TypeOK, Idle
      <2>2. TypeOK'
            <3>1. th' \in [Threads -> ThreadState]
                  BY <1>10 DEF JCS_Start, LoaderInv, TypeOK, Idle, ThreadState, PcValues
            <3>2. QED
                  BY <1>10, <2>1, <3>1, TypeNext DEF JCS_Start, LoaderInv, TypeOK
      <2>3. CompilingLoaded'
            BY <2>1, <2>9 DEF LoaderInv, TypeOK, CompilingLoaded
      <2>4. ShutdownShutting'
            BY <2>1, <2>9 DEF LoaderInv, TypeOK, ShutdownShutting
      <2>5. ShutdownDistinct'
            BY <2>1, <2>9 DEF LoaderInv, TypeOK, ShutdownDistinct
      <2>6. QED
            BY <1>10, <2>1, <2>2, <2>3, <2>4, <2>5
            DEF LoaderInv, LoadedInLive, InjectedMarked, InjectedOncePerAppDomain, MarkedDomainsCurrent
<1>11. ASSUME NEW p \in Threads, JCS_Return(p) \/ JCS_InfoFailed(p) PROVE LoaderInv'
      <2>1. /\ th' = [th EXCEPT ![p] = Idle]
            /\ UNCHANGED <<is_attached, is_desktop_iis, stored, first_jit_compilation_app_domains,
                           host_module, domain_state, gen, injected, loader_in,
                           attempts, loader_ok, ngen_used>>
            BY <1>11 DEF JCS_Return, JCS_InfoFailed
      <2>2. TypeOK'
            BY <2>1, IdleType, TypeNext DEF LoaderInv, TypeOK
      <2>3. (CompilingLoaded /\ ShutdownShutting /\ ShutdownDistinct)'
            BY <2>1 DEF LoaderInv, TypeOK, CompilingLoaded, ShutdownShutting,
                        ShutdownDistinct, Idle
      <2>4. QED
            BY <2>1, <2>2, <2>3 DEF LoaderInv, LoadedInLive, InjectedMarked,
                                    InjectedOncePerAppDomain, MarkedDomainsCurrent
<1>12. ASSUME NEW p \in Threads, JCS_Inject(p) \/ JCS_InjectFailed(p) PROVE LoaderInv'
      BY <1>12, InjectStep
<1>13. CASE UNCHANGED vars
      BY <1>13 DEF vars, LoaderInv, TypeOK, CompilingLoaded, ShutdownShutting,
                   ShutdownDistinct, LoadedInLive, InjectedMarked, InjectedOncePerAppDomain, MarkedDomainsCurrent
<1>14. QED
      BY <1>1, <1>2, <1>3, <1>4, <1>5, <1>6, <1>7, <1>8, <1>9, <1>10, <1>11, <1>12, <1>13
      DEF Next

\* RunAutoInstrumentationLoader is called at most once in each incarnation
\* of an AppDomain, however the JIT callbacks of its threads, its
\* shutdown, the reuse of its id and detaching interleave.
THEOREM InjectedOncePerAppDomainHolds == Spec => []InjectedOncePerAppDomain
<1>1. Init => LoaderInv
      BY LoaderInitHolds
<1>2. LoaderInv /\ [Next]_vars => LoaderInv'
      BY LoaderStep
<1>3. LoaderInv => InjectedOncePerAppDomain
      BY DEF LoaderInv
<1>4. QED
      BY <1>1, <1>2, <1>3, PTL DEF Spec

\* While attached, every AppDomain in first_jit_compilation_app_domains
\* exists and had the Loader inserted or loaded in its current
\* incarnation: AppDomainShutdownFinished erases a reused id in time
\* (the erase at the end of AppDomainShutdownFinished).
THEOREM MarkedDomainsCurrentHolds == Spec => []MarkedDomainsCurrent
<1>1. Init => LoaderInv
      BY LoaderInitHolds
<1>2. LoaderInv /\ [Next]_vars => LoaderInv'
      BY LoaderStep
<1>3. LoaderInv => MarkedDomainsCurrent
      BY DEF LoaderInv
<1>4. QED
      BY <1>1, <1>2, <1>3, PTL DEF Spec

=============================================================================
