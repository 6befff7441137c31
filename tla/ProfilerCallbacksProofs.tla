----------------------- MODULE ProfilerCallbacksProofs -----------------------
(***************************************************************************)
(* Machine-checked proofs about ProfilerCallbacks, for every value of the  *)
(* constants that satisfies ConstantsAssumption.                           *)
(***************************************************************************)
EXTENDS ProfilerCallbacks, TLAPS

\* The facts about the constants the proofs below use.
LEMMA MaxLoadsType == MaxLoads \in Nat \ {0}
BY ConstantsAssumption

LEMMA TargetType == ASSUME NEW x \in Targets
                    PROVE  x[1] \in Modules /\ x[2] \in Methods
BY ConstantsAssumption

LEMMA InstrDomainType == DomainOf[InstrModule] \in Domains
BY ConstantsAssumption

(***************************************************************************)
(* A thread inside a callback about a module names that module (the        *)
(* detach callback names none).  TypeOK alone is not inductive: the        *)
(* ReJIT path reads handler_module_meta at the thread's module.            *)
(***************************************************************************)
BusyThreadsNamed ==
    \A p \in Threads :
        th[p].pc \notin {"idle", "det_lock"} => th[p].mod \in Modules

\* TypeOK, split: SMT does not mix the Boolean-typed variables well with
\* the rest, so they are proved apart (by Zenon).
TypeBool == is_attached \in BOOLEAN /\ asm_notified \in BOOLEAN

TypeRest ==
    /\ rejit_handler \in {"live", "null"}
    /\ module_id_to_info_map \in [Modules -> 0..MaxLoads]
    /\ meta_state \in [Ptr -> {"unused", "live", "freed"}]
    /\ next_meta \in 1..MaxLoads + 1
    /\ managed_profiler_module_id \in Modules \cup {NoModule}
    /\ managed_profiler_loaded_app_domains \subseteq Domains
    /\ handler_module_meta \in [Modules -> 0..MaxLoads]
    /\ handler_methods \subseteq Targets
    /\ host_module \in [Modules -> {"absent", "loading", "loaded", "unloading"}]
    /\ rejit \in [Targets -> RejitStates]
    /\ host_phase \in {"running", "ending"}
    /\ th \in [Threads -> ThreadState]

RestInv == TypeRest /\ BusyThreadsNamed

TypeInv == TypeBool /\ RestInv

LEMMA TypeInvIsTypeOK == TypeInv => TypeOK
BY Zenon DEF TypeInv, RestInv, TypeBool, TypeRest, TypeOK

\* The thread state of a thread between callbacks.
LEMMA IdleType == Idle \in ThreadState
BY MaxLoadsType DEF Idle, ThreadState, PcValues

\* The thread state ModuleLoadFinished enters the lock with.
LEMMA LoadingThreadType ==
    ASSUME NEW mo \in Modules, NEW k \in 0..MaxLoads
    PROVE  LET r == [Idle EXCEPT !.pc = "mlf_lock", !.mod = mo, !.meta = k]
           IN  r \in ThreadState /\ r.pc = "mlf_lock" /\ r.mod = mo
BY DEF Idle, ThreadState, PcValues

\* The thread state the rewriter commits with, after GetWrapperMethodRef.
LEMMA CommitThreadType ==
    ASSUME NEW r \in ThreadState, NEW ok \in BOOLEAN
    PROVE  LET c == [r EXCEPT !.pc = "rw_commit", !.ref_ok = ok]
           IN  c \in ThreadState /\ c.pc = "rw_commit" /\ c.mod = r.mod
BY DEF ThreadState, PcValues

\* The thread state NotifyReJITParameters hands to the rewriter.
LEMMA NotifyThreadType ==
    ASSUME NEW r \in ThreadState, NEW k \in 0..MaxLoads
    PROVE  LET c == [r EXCEPT !.pc = "rw_check", !.meta = k]
           IN  c \in ThreadState /\ c.pc = "rw_check" /\ c.mod = r.mod
BY DEF ThreadState, PcValues

LEMMA TypeInvInit == Init => TypeInv
<1> SUFFICES ASSUME Init PROVE TypeInv
    OBVIOUS
<1>1. TypeBool
    BY Zenon DEF Init, TypeBool
<1>2. th \in [Threads -> ThreadState]
    BY IdleType DEF Init
<1>3. BusyThreadsNamed
    BY DEF Init, BusyThreadsNamed, Idle
<1>4. TypeRest
    BY <1>2, MaxLoadsType DEF Init, TypeRest, Ptr, RejitStates
<1>5. QED
    BY <1>1, <1>3, <1>4 DEF TypeInv, RestInv

\* is_attached_ and the AssemblyLoadFinished flag stay Boolean.
LEMMA BoolStep == TypeBool /\ [Next]_vars => TypeBool'
<1> SUFFICES ASSUME TypeBool, [Next]_vars PROVE TypeBool'
    OBVIOUS
<1> USE DEF TypeBool, profiler, host
<1>1. ASSUME NEW p \in Threads, NEW m \in Modules, MLF_Start(p, m) PROVE TypeBool'
    BY <1>1, Zenon DEF MLF_Start, CanLoad, NewMetadata
<1>2. ASSUME NEW p \in Threads, NEW m \in Modules, MLF_Unattached(p, m) PROVE TypeBool'
    BY <1>2, Zenon DEF MLF_Unattached, CanLoad
<1>3. ASSUME NEW p \in Threads, NEW m \in Modules, MUS_Start(p, m) PROVE TypeBool'
    BY <1>3, Zenon DEF MUS_Start
<1>4. ASSUME NEW p \in Threads, NEW m \in Modules, MUS_Unattached(p, m) PROVE TypeBool'
    BY <1>4, Zenon DEF MUS_Unattached, HostUnloaded, TargetsOf
<1>5. ASSUME NEW p \in Threads, MLF_Store(p) PROVE TypeBool'
    BY <1>5, Zenon DEF MLF_Store, RequestRejitForModule
<1>6. ASSUME NEW p \in Threads, MLF_Detached(p) PROVE TypeBool'
    BY <1>6, Zenon DEF MLF_Detached
<1>7. ASSUME NEW p \in Threads, MUS_Remove(p) PROVE TypeBool'
    BY <1>7, Zenon DEF MUS_Remove, UnloadDomains, RemoveModule, TargetsOf, HostUnloaded
<1>8. ASSUME NEW p \in Threads, MUS_Skip(p) PROVE TypeBool'
    BY <1>8, Zenon DEF MUS_Skip, HostUnloaded
<1>9. ASSUME NEW p \in Threads, AssemblyLoadFinished(p) PROVE TypeBool'
    BY <1>9, Zenon DEF AssemblyLoadFinished
<1>10. ASSUME NEW p \in Threads, Shutdown(p) PROVE TypeBool'
    BY <1>10, Zenon DEF Shutdown
<1>11. ASSUME NEW p \in Threads, Detach_Start(p) PROVE TypeBool'
    BY <1>11, Zenon DEF Detach_Start, Goto
<1>12. ASSUME NEW p \in Threads, Detach_Locked(p) PROVE TypeBool'
    BY <1>12, Zenon DEF Detach_Locked
<1>13. ASSUME NEW p \in Threads, NEW x \in Targets, GRP_Start(p, x) PROVE TypeBool'
    BY <1>13, Zenon DEF GRP_Start, CanGrant
<1>14. ASSUME NEW p \in Threads, NEW x \in Targets, GRP_Unattached(p, x) PROVE TypeBool'
    BY <1>14, Zenon DEF GRP_Unattached, CanGrant
<1>15. ASSUME NEW p \in Threads, NEW x \in Targets, Inl_Start(p, x) PROVE TypeBool'
    BY <1>15, Zenon DEF Inl_Start
<1>16. ASSUME NEW p \in Threads, NEW x \in Targets, RCS_Start(p, x) PROVE TypeBool'
    BY <1>16, Zenon DEF RCS_Start
<1>17. ASSUME NEW p \in Threads, GRP_Found(p) PROVE TypeBool'
    BY <1>17, Zenon DEF GRP_Found, Goto
<1>18. ASSUME NEW p \in Threads, GRP_NotFound(p) PROVE TypeBool'
    BY <1>18, Zenon DEF GRP_NotFound, FinishRejit
<1>19. ASSUME NEW p \in Threads, GRP_Notify(p) PROVE TypeBool'
    BY <1>19, Zenon DEF GRP_Notify
<1>20. ASSUME NEW p \in Threads, GRP_NotRegistered(p) PROVE TypeBool'
    BY <1>20, Zenon DEF GRP_NotRegistered, FinishRejit
<1>21. ASSUME NEW p \in Threads, RW_Check(p) PROVE TypeBool'
    BY <1>21, Zenon DEF RW_Check, Goto
<1>22. ASSUME NEW p \in Threads, RW_NoInstrModule(p) PROVE TypeBool'
    BY <1>22, Zenon DEF RW_NoInstrModule, FinishRejit
<1>23. ASSUME NEW p \in Threads, RW_Lock(p) PROVE TypeBool'
    BY <1>23, Zenon DEF RW_Lock, Goto
<1>24. ASSUME NEW p \in Threads, RW_NoWrapper(p) PROVE TypeBool'
    BY <1>24, Zenon DEF RW_NoWrapper, FinishRejit
<1>25. ASSUME NEW p \in Threads, RW_Meta(p) PROVE TypeBool'
    BY <1>25, Zenon DEF RW_Meta
<1>26. ASSUME NEW p \in Threads, RW_Abort(p) PROVE TypeBool'
    BY <1>26, Zenon DEF RW_Abort, FinishRejit
<1>27. ASSUME NEW p \in Threads, RW_Rewritten(p) PROVE TypeBool'
    BY <1>27, Zenon DEF RW_Rewritten, FinishRejit
<1>28. ASSUME NEW p \in Threads, Inl_Query(p) PROVE TypeBool'
    BY <1>28, Zenon DEF Inl_Query
<1>29. ASSUME NEW p \in Threads, RCS_Notify(p) PROVE TypeBool'
    BY <1>29, Zenon DEF RCS_Notify
<1>30. CASE UNCHANGED vars
    BY <1>30 DEF vars
<1>31. QED
    BY <1>1, <1>2, <1>3, <1>4, <1>5, <1>6, <1>7, <1>8, <1>9, <1>10, <1>11, <1>12, <1>13, <1>14, <1>15, <1>16, <1>17, <1>18, <1>19, <1>20, <1>21, <1>22, <1>23, <1>24, <1>25, <1>26, <1>27, <1>28, <1>29, <1>30 DEF Next

\* The rest of the type, and the module a busy thread names, are kept by
\* every step.
LEMMA RestStep == TypeInv /\ [Next]_vars => RestInv'
<1> SUFFICES ASSUME TypeBool, TypeRest, BusyThreadsNamed, [Next]_vars
              PROVE  RestInv'
    BY DEF TypeInv, RestInv
<1> USE IdleType, MaxLoadsType DEF RestInv, TypeRest, BusyThreadsNamed,
                                   ThreadState, Idle, PcValues, RejitStates, Ptr,
                                   profiler, handler, host
<1>1. ASSUME NEW p \in Threads, NEW m \in Modules, MLF_Start(p, m) PROVE RestInv'
    <2> DEFINE r == [Idle EXCEPT !.pc = "mlf_lock", !.mod = m,
                                 !.meta = NewMetadata]
    <2>1. r \in ThreadState /\ r.pc = "mlf_lock" /\ r.mod = m
        <3>1. next_meta \in 0..MaxLoads
            BY <1>1 DEF MLF_Start, CanLoad
        <3>2. QED
            BY <3>1, LoadingThreadType, Zenon DEF NewMetadata
    <2>2. th' = [th EXCEPT ![p] = r]
        BY <1>1 DEF MLF_Start
    <2>3. th' \in [Threads -> ThreadState]
        BY <2>1, <2>2
    <2>4. BusyThreadsNamed'
        BY <2>1, <2>2
    <2>5. QED
        BY <1>1, <2>3, <2>4 DEF MLF_Start, CanLoad
<1>2. ASSUME NEW p \in Threads, NEW m \in Modules, MLF_Unattached(p, m) PROVE RestInv'
    BY <1>2 DEF MLF_Unattached, CanLoad
<1>3. ASSUME NEW p \in Threads, NEW m \in Modules, MUS_Start(p, m) PROVE RestInv'
    BY <1>3 DEF MUS_Start
<1>4. ASSUME NEW p \in Threads, NEW m \in Modules, MUS_Unattached(p, m) PROVE RestInv'
    BY <1>4 DEF MUS_Unattached, HostUnloaded, TargetsOf
<1>5. ASSUME NEW p \in Threads, MLF_Store(p) PROVE RestInv'
    <2>1. CASE th[p].mod = InstrModule
        BY <1>5, <2>1 DEF MLF_Store
    <2>2. CASE th[p].mod # InstrModule /\ TargetsOf(th[p].mod) = {}
        BY <1>5, <2>2 DEF MLF_Store, RequestRejitForModule
    <2>3. CASE th[p].mod # InstrModule /\ TargetsOf(th[p].mod) # {}
        <3>1. /\ handler_module_meta' =
                   [handler_module_meta EXCEPT ![th[p].mod] = th[p].meta]
              /\ handler_methods' = handler_methods \cup TargetsOf(th[p].mod)
              /\ rejit' = [x \in Targets |->
                            IF x \in TargetsOf(th[p].mod) THEN "requested"
                                                          ELSE rejit[x]]
            BY <1>5, <2>3, Zenon DEF MLF_Store, RequestRejitForModule
        <3>2. QED
            BY <1>5, <3>1 DEF MLF_Store, TargetsOf
    <2>4. QED
        BY <2>1, <2>2, <2>3
<1>6. ASSUME NEW p \in Threads, MLF_Detached(p) PROVE RestInv'
    BY <1>6 DEF MLF_Detached
<1>7. ASSUME NEW p \in Threads, MUS_Remove(p) PROVE RestInv'
    BY <1>7 DEF MUS_Remove, UnloadDomains, RemoveModule, TargetsOf, HostUnloaded
<1>8. ASSUME NEW p \in Threads, MUS_Skip(p) PROVE RestInv'
    BY <1>8 DEF MUS_Skip, HostUnloaded
<1>9. ASSUME NEW p \in Threads, AssemblyLoadFinished(p) PROVE RestInv'
    BY <1>9, InstrDomainType DEF AssemblyLoadFinished
<1>10. ASSUME NEW p \in Threads, Shutdown(p) PROVE RestInv'
    BY <1>10 DEF Shutdown
<1>11. ASSUME NEW p \in Threads, Detach_Start(p) PROVE RestInv'
    BY <1>11 DEF Detach_Start, Goto
<1>12. ASSUME NEW p \in Threads, Detach_Locked(p) PROVE RestInv'
    BY <1>12 DEF Detach_Locked
<1>13. ASSUME NEW p \in Threads, NEW x \in Targets, GRP_Start(p, x) PROVE RestInv'
    BY <1>13, TargetType DEF GRP_Start, CanGrant
<1>14. ASSUME NEW p \in Threads, NEW x \in Targets, GRP_Unattached(p, x) PROVE RestInv'
    BY <1>14, TargetType DEF GRP_Unattached, CanGrant
<1>15. ASSUME NEW p \in Threads, NEW x \in Targets, Inl_Start(p, x) PROVE RestInv'
    BY <1>15, TargetType DEF Inl_Start
<1>16. ASSUME NEW p \in Threads, NEW x \in Targets, RCS_Start(p, x) PROVE RestInv'
    BY <1>16, TargetType DEF RCS_Start
<1>17. ASSUME NEW p \in Threads, GRP_Found(p) PROVE RestInv'
    BY <1>17 DEF GRP_Found, Goto
<1>18. ASSUME NEW p \in Threads, GRP_NotFound(p) PROVE RestInv'
    BY <1>18 DEF GRP_NotFound, FinishRejit
<1>19. ASSUME NEW p \in Threads, GRP_Notify(p) PROVE RestInv'
    <2> DEFINE k == handler_module_meta[th[p].mod]
               c == [th[p] EXCEPT !.pc = "rw_check", !.meta = k]
    <2>1. th[p].mod \in Modules /\ th[p] \in ThreadState
        BY <1>19 DEF GRP_Notify
    <2>2. k \in 0..MaxLoads
        BY <2>1
    <2>3. c \in ThreadState /\ c.pc = "rw_check" /\ c.mod = th[p].mod
        BY <2>1, <2>2, NotifyThreadType
    <2>4. th' = [th EXCEPT ![p] = c]
        BY <1>19 DEF GRP_Notify
    <2>5. th' \in [Threads -> ThreadState] /\ BusyThreadsNamed'
        BY <2>1, <2>3, <2>4
    <2>6. QED
        BY <1>19, <2>5 DEF GRP_Notify
<1>20. ASSUME NEW p \in Threads, GRP_NotRegistered(p) PROVE RestInv'
    BY <1>20 DEF GRP_NotRegistered, FinishRejit
<1>21. ASSUME NEW p \in Threads, RW_Check(p) PROVE RestInv'
    BY <1>21 DEF RW_Check, Goto
<1>22. ASSUME NEW p \in Threads, RW_NoInstrModule(p) PROVE RestInv'
    BY <1>22 DEF RW_NoInstrModule, FinishRejit
<1>23. ASSUME NEW p \in Threads, RW_Lock(p) PROVE RestInv'
    BY <1>23 DEF RW_Lock, Goto
<1>24. ASSUME NEW p \in Threads, RW_NoWrapper(p) PROVE RestInv'
    BY <1>24 DEF RW_NoWrapper, FinishRejit
<1>25. ASSUME NEW p \in Threads, RW_Meta(p) PROVE RestInv'
    <2>1. PICK ok \in BOOLEAN :
                th' = [th EXCEPT ![p].pc = "rw_commit", ![p].ref_ok = ok]
        BY <1>25 DEF RW_Meta
    <2> DEFINE c == [th[p] EXCEPT !.pc = "rw_commit", !.ref_ok = ok]
    <2>a. c \in ThreadState /\ c.pc = "rw_commit" /\ c.mod = th[p].mod
        <3>1. th[p] \in ThreadState
            OBVIOUS
        <3>2. QED
            BY <3>1, CommitThreadType
    <2>b. th' = [th EXCEPT ![p] = c]
        BY <2>1
    <2>2. th' \in [Threads -> ThreadState]
        BY <2>a, <2>b
    <2>3. BusyThreadsNamed'
        BY <1>25, <2>a, <2>b DEF RW_Meta
    <2>4. QED
        BY <1>25, <2>2, <2>3 DEF RW_Meta
<1>26. ASSUME NEW p \in Threads, RW_Abort(p) PROVE RestInv'
    BY <1>26 DEF RW_Abort, FinishRejit
<1>27. ASSUME NEW p \in Threads, RW_Rewritten(p) PROVE RestInv'
    BY <1>27 DEF RW_Rewritten, FinishRejit
<1>28. ASSUME NEW p \in Threads, Inl_Query(p) PROVE RestInv'
    BY <1>28 DEF Inl_Query
<1>29. ASSUME NEW p \in Threads, RCS_Notify(p) PROVE RestInv'
    BY <1>29 DEF RCS_Notify
<1>30. CASE UNCHANGED vars
    BY <1>30 DEF vars
<1>31. QED
    BY <1>1, <1>2, <1>3, <1>4, <1>5, <1>6, <1>7, <1>8, <1>9, <1>10, <1>11, <1>12, <1>13, <1>14, <1>15, <1>16, <1>17, <1>18, <1>19, <1>20, <1>21, <1>22, <1>23, <1>24, <1>25, <1>26, <1>27, <1>28, <1>29, <1>30 DEF Next

\* Every reachable state is well typed (TypeOK, checked by the core run).
THEOREM TypeCorrect == Spec => []TypeOK
<1>1. TypeInv /\ [Next]_vars => TypeInv'
    BY BoolStep, RestStep, Zenon DEF TypeInv
<1>2. QED
    BY TypeInvInit, <1>1, TypeInvIsTypeOK, PTL DEF Spec


(***************************************************************************)
(* DetachedIsQuiescent: once is_attached_ is false no callback changes the *)
(* profiler's module state.  The critical sections that change it test     *)
(* is_attached_ under the lock, except Shutdown, which the host calls at   *)
(* most once and never after ProfilerDetachSucceeded began; so the proof   *)
(* needs that a detached profiler is in the host's ending phase.           *)
(***************************************************************************)

\* is_attached_ is cleared only by Shutdown or by the detach that follows
\* the host's decision to end, and that decision is final.
DetachEnding ==
    /\ ~is_attached => host_phase = "ending"
    /\ \A p \in Threads : th[p].pc = "det_lock" => host_phase = "ending"

LEMMA DetachEndingInit == Init => DetachEnding
BY DEF Init, DetachEnding, Idle

\* Every step keeps DetachEnding: only ProfilerDetachSucceeded enters its
\* lock, and it sets the phase first.
LEMMA DetachEndingStep == TypeInv /\ DetachEnding /\ [Next]_vars => DetachEnding'
<1> SUFFICES ASSUME TypeInv, DetachEnding, [Next]_vars PROVE DetachEnding'
    OBVIOUS
<1>0. th \in [Threads -> ThreadState] /\ is_attached \in BOOLEAN
    BY DEF TypeInv, TypeBool, RestInv, TypeRest
<1> USE <1>0 DEF DetachEnding, Idle
<1>1. ASSUME NEW p \in Threads, NEW m \in Modules, MLF_Start(p, m) PROVE DetachEnding'
    BY <1>1 DEF MLF_Start, CanLoad, profiler, handler, host
<1>2. ASSUME NEW p \in Threads, NEW m \in Modules, MLF_Unattached(p, m) PROVE DetachEnding'
    BY <1>2 DEF MLF_Unattached, CanLoad, profiler, handler, host
<1>3. ASSUME NEW p \in Threads, NEW m \in Modules, MUS_Start(p, m) PROVE DetachEnding'
    BY <1>3 DEF MUS_Start, profiler, handler, host
<1>4. ASSUME NEW p \in Threads, NEW m \in Modules, MUS_Unattached(p, m) PROVE DetachEnding'
    BY <1>4 DEF MUS_Unattached, profiler, handler, host
<1>5. ASSUME NEW p \in Threads, MLF_Store(p) PROVE DetachEnding'
    BY <1>5 DEF MLF_Store, StillAttached, profiler, handler, host
<1>6. ASSUME NEW p \in Threads, MLF_Detached(p) PROVE DetachEnding'
    BY <1>6 DEF MLF_Detached, profiler, handler, host
<1>7. ASSUME NEW p \in Threads, MUS_Remove(p) PROVE DetachEnding'
    BY <1>7 DEF MUS_Remove, profiler, handler, host
<1>8. ASSUME NEW p \in Threads, MUS_Skip(p) PROVE DetachEnding'
    BY <1>8 DEF MUS_Skip, profiler, handler, host
<1>9. ASSUME NEW p \in Threads, AssemblyLoadFinished(p) PROVE DetachEnding'
    BY <1>9 DEF AssemblyLoadFinished, profiler, handler, host
<1>10. ASSUME NEW p \in Threads, Shutdown(p) PROVE DetachEnding'
    BY <1>10 DEF Shutdown, profiler, handler, host
<1>11. ASSUME NEW p \in Threads, Detach_Start(p) PROVE DetachEnding'
    BY <1>11 DEF Detach_Start, Goto, profiler, handler, host
<1>12. ASSUME NEW p \in Threads, Detach_Locked(p) PROVE DetachEnding'
    BY <1>12 DEF Detach_Locked, profiler, handler, host
<1>13. ASSUME NEW p \in Threads, NEW x \in Targets, GRP_Start(p, x) PROVE DetachEnding'
    BY <1>13 DEF GRP_Start, CanGrant, profiler, handler, host
<1>14. ASSUME NEW p \in Threads, NEW x \in Targets, GRP_Unattached(p, x) PROVE DetachEnding'
    BY <1>14 DEF GRP_Unattached, CanGrant, profiler, handler, host
<1>15. ASSUME NEW p \in Threads, NEW x \in Targets, Inl_Start(p, x) PROVE DetachEnding'
    BY <1>15 DEF Inl_Start, profiler, handler, host
<1>16. ASSUME NEW p \in Threads, NEW x \in Targets, RCS_Start(p, x) PROVE DetachEnding'
    BY <1>16 DEF RCS_Start, profiler, handler, host
<1>17. ASSUME NEW p \in Threads, GRP_Found(p) PROVE DetachEnding'
    BY <1>17 DEF GRP_Found, Goto, profiler, handler, host
<1>18. ASSUME NEW p \in Threads, GRP_NotFound(p) PROVE DetachEnding'
    BY <1>18 DEF GRP_NotFound, FinishRejit, profiler, handler, host
<1>19. ASSUME NEW p \in Threads, GRP_Notify(p) PROVE DetachEnding'
    BY <1>19 DEF GRP_Notify, profiler, handler, host
<1>20. ASSUME NEW p \in Threads, GRP_NotRegistered(p) PROVE DetachEnding'
    BY <1>20 DEF GRP_NotRegistered, FinishRejit, profiler, handler, host
<1>21. ASSUME NEW p \in Threads, RW_Check(p) PROVE DetachEnding'
    BY <1>21 DEF RW_Check, Goto, profiler, handler, host
<1>22. ASSUME NEW p \in Threads, RW_NoInstrModule(p) PROVE DetachEnding'
    BY <1>22 DEF RW_NoInstrModule, FinishRejit, profiler, handler, host
<1>23. ASSUME NEW p \in Threads, RW_Lock(p) PROVE DetachEnding'
    BY <1>23 DEF RW_Lock, Goto, profiler, handler, host
<1>24. ASSUME NEW p \in Threads, RW_NoWrapper(p) PROVE DetachEnding'
    BY <1>24 DEF RW_NoWrapper, FinishRejit, profiler, handler, host
<1>25. ASSUME NEW p \in Threads, RW_Meta(p) PROVE DetachEnding'
    BY <1>25 DEF RW_Meta, profiler, handler, host
<1>26. ASSUME NEW p \in Threads, RW_Abort(p) PROVE DetachEnding'
    BY <1>26 DEF RW_Abort, FinishRejit, profiler, handler, host
<1>27. ASSUME NEW p \in Threads, RW_Rewritten(p) PROVE DetachEnding'
    BY <1>27 DEF RW_Rewritten, FinishRejit, profiler, handler, host
<1>28. ASSUME NEW p \in Threads, Inl_Query(p) PROVE DetachEnding'
    BY <1>28 DEF Inl_Query, profiler, handler, host
<1>29. ASSUME NEW p \in Threads, RCS_Notify(p) PROVE DetachEnding'
    BY <1>29 DEF RCS_Notify, profiler, handler, host
<1>30. CASE UNCHANGED vars
    BY <1>30 DEF vars, profiler, handler, host
<1>31. QED
    BY <1>1, <1>2, <1>3, <1>4, <1>5, <1>6, <1>7, <1>8, <1>9, <1>10, <1>11, <1>12, <1>13, <1>14, <1>15, <1>16, <1>17, <1>18, <1>19, <1>20, <1>21, <1>22, <1>23, <1>24, <1>25, <1>26, <1>27, <1>28, <1>29, <1>30 DEF Next

\* The step relation of DetachedIsQuiescent.
QuiescentStep ==
    ~is_attached =>
        UNCHANGED <<module_id_to_info_map, meta_state, managed_profiler_module_id,
                    managed_profiler_loaded_app_domains, handler>>

\* No step of a detached profiler changes its module state: the critical
\* sections that do test is_attached_, and Shutdown needs a running host.
LEMMA QuiescentNext == DetachEnding /\ [Next]_vars => [QuiescentStep]_vars
<1> SUFFICES ASSUME DetachEnding, [Next]_vars PROVE QuiescentStep
    OBVIOUS
<1> USE DEF QuiescentStep, DetachEnding
<1>1. ASSUME NEW p \in Threads, NEW m \in Modules, MLF_Start(p, m) PROVE QuiescentStep
    BY <1>1 DEF MLF_Start, CanLoad, profiler, handler, host
<1>2. ASSUME NEW p \in Threads, NEW m \in Modules, MLF_Unattached(p, m) PROVE QuiescentStep
    BY <1>2 DEF MLF_Unattached, CanLoad, profiler, handler, host
<1>3. ASSUME NEW p \in Threads, NEW m \in Modules, MUS_Start(p, m) PROVE QuiescentStep
    BY <1>3 DEF MUS_Start, profiler, handler, host
<1>4. ASSUME NEW p \in Threads, NEW m \in Modules, MUS_Unattached(p, m) PROVE QuiescentStep
    BY <1>4 DEF MUS_Unattached, profiler, handler, host
<1>5. ASSUME NEW p \in Threads, MLF_Store(p) PROVE QuiescentStep
    BY <1>5 DEF MLF_Store, StillAttached, profiler, handler, host
<1>6. ASSUME NEW p \in Threads, MLF_Detached(p) PROVE QuiescentStep
    BY <1>6 DEF MLF_Detached, profiler, handler, host
<1>7. ASSUME NEW p \in Threads, MUS_Remove(p) PROVE QuiescentStep
    BY <1>7 DEF MUS_Remove, profiler, handler, host
<1>8. ASSUME NEW p \in Threads, MUS_Skip(p) PROVE QuiescentStep
    BY <1>8 DEF MUS_Skip, profiler, handler, host
<1>9. ASSUME NEW p \in Threads, AssemblyLoadFinished(p) PROVE QuiescentStep
    BY <1>9 DEF AssemblyLoadFinished, profiler, handler, host
<1>10. ASSUME NEW p \in Threads, Shutdown(p) PROVE QuiescentStep
    BY <1>10 DEF Shutdown, profiler, handler, host
<1>11. ASSUME NEW p \in Threads, Detach_Start(p) PROVE QuiescentStep
    BY <1>11 DEF Detach_Start, Goto, profiler, handler, host
<1>12. ASSUME NEW p \in Threads, Detach_Locked(p) PROVE QuiescentStep
    BY <1>12 DEF Detach_Locked, profiler, handler, host
<1>13. ASSUME NEW p \in Threads, NEW x \in Targets, GRP_Start(p, x) PROVE QuiescentStep
    BY <1>13 DEF GRP_Start, CanGrant, profiler, handler, host
<1>14. ASSUME NEW p \in Threads, NEW x \in Targets, GRP_Unattached(p, x) PROVE QuiescentStep
    BY <1>14 DEF GRP_Unattached, CanGrant, profiler, handler, host
<1>15. ASSUME NEW p \in Threads, NEW x \in Targets, Inl_Start(p, x) PROVE QuiescentStep
    BY <1>15 DEF Inl_Start, profiler, handler, host
<1>16. ASSUME NEW p \in Threads, NEW x \in Targets, RCS_Start(p, x) PROVE QuiescentStep
    BY <1>16 DEF RCS_Start, profiler, handler, host
<1>17. ASSUME NEW p \in Threads, GRP_Found(p) PROVE QuiescentStep
    BY <1>17 DEF GRP_Found, Goto, profiler, handler, host
<1>18. ASSUME NEW p \in Threads, GRP_NotFound(p) PROVE QuiescentStep
    BY <1>18 DEF GRP_NotFound, FinishRejit, profiler, handler, host
<1>19. ASSUME NEW p \in Threads, GRP_Notify(p) PROVE QuiescentStep
    BY <1>19 DEF GRP_Notify, profiler, handler, host
<1>20. ASSUME NEW p \in Threads, GRP_NotRegistered(p) PROVE QuiescentStep
    BY <1>20 DEF GRP_NotRegistered, FinishRejit, profiler, handler, host
<1>21. ASSUME NEW p \in Threads, RW_Check(p) PROVE QuiescentStep
    BY <1>21 DEF RW_Check, Goto, profiler, handler, host
<1>22. ASSUME NEW p \in Threads, RW_NoInstrModule(p) PROVE QuiescentStep
    BY <1>22 DEF RW_NoInstrModule, FinishRejit, profiler, handler, host
<1>23. ASSUME NEW p \in Threads, RW_Lock(p) PROVE QuiescentStep
    BY <1>23 DEF RW_Lock, Goto, profiler, handler, host
<1>24. ASSUME NEW p \in Threads, RW_NoWrapper(p) PROVE QuiescentStep
    BY <1>24 DEF RW_NoWrapper, FinishRejit, profiler, handler, host
<1>25. ASSUME NEW p \in Threads, RW_Meta(p) PROVE QuiescentStep
    BY <1>25 DEF RW_Meta, profiler, handler, host
<1>26. ASSUME NEW p \in Threads, RW_Abort(p) PROVE QuiescentStep
    BY <1>26 DEF RW_Abort, FinishRejit, profiler, handler, host
<1>27. ASSUME NEW p \in Threads, RW_Rewritten(p) PROVE QuiescentStep
    BY <1>27 DEF RW_Rewritten, FinishRejit, profiler, handler, host
<1>28. ASSUME NEW p \in Threads, Inl_Query(p) PROVE QuiescentStep
    BY <1>28 DEF Inl_Query, profiler, handler, host
<1>29. ASSUME NEW p \in Threads, RCS_Notify(p) PROVE QuiescentStep
    BY <1>29 DEF RCS_Notify, profiler, handler, host
<1>30. CASE UNCHANGED vars
    BY <1>30 DEF vars, profiler, handler, host
<1>31. QED
    BY <1>1, <1>2, <1>3, <1>4, <1>5, <1>6, <1>7, <1>8, <1>9, <1>10, <1>11, <1>12, <1>13, <1>14, <1>15, <1>16, <1>17, <1>18, <1>19, <1>20, <1>21, <1>22, <1>23, <1>24, <1>25, <1>26, <1>27, <1>28, <1>29, <1>30 DEF Next

\* Once detached (ProfilerDetachSucceeded or Shutdown), no callback changes
\* the module map, the metadata objects, the instrumentation module id, the
\* AppDomain set or the ReJIT registry (DetachedIsQuiescent, checked by the
\* core run), for every number of threads, modules and targets.
THEOREM DetachedIsQuiescentHolds == Spec => DetachedIsQuiescent
<1>1. Init => TypeInv /\ DetachEnding
    BY TypeInvInit, DetachEndingInit
<1>2. TypeInv /\ DetachEnding /\ [Next]_vars => (TypeInv /\ DetachEnding)'
    BY BoolStep, RestStep, DetachEndingStep DEF TypeInv
<1>3. DetachEnding /\ [Next]_vars => [QuiescentStep]_vars
    BY QuiescentNext
<1>4. QED
    BY <1>1, <1>2, <1>3, PTL DEF Spec, DetachedIsQuiescent, QuiescentStep

=============================================================================
