------------------------------ MODULE EnvFlags ------------------------------
(***************************************************************************)
(* The cached environment switches of environment_variables_util.h.  Each *)
(* function (DisableOptimizations, IsNetFxAssemblyRedirectionEnabled,     *)
(* IsDumpILRewriteEnabled, ...) expands one of the macros CheckIfTrue,    *)
(* CheckIfFalse or ToBooleanWithDefault, which keep the parsed value in a *)
(* function-local `static int sValue = -1` with no lock: a call tests the *)
(* cache, on a miss reads and parses the variable and stores 1 or 0, and  *)
(* returns `sValue == 1`, reading the static again.  Callback threads     *)
(* (ModuleLoadFinished) and ReJIT threads (CallTarget_RewriterCallback)   *)
(* call them concurrently.  Each read and each store of the aligned int   *)
(* is one step: the race is on the int, whose stores the build makes      *)
(* atomic.  The environment does not change while the process runs.      *)
(***************************************************************************)
EXTENDS Integers

CONSTANTS
    Threads,    \* threads calling the switches
    Flags,      \* the switch functions
    Macro,      \* the macro each one expands
    Default     \* ToBooleanWithDefault: the default its caller passes

\* The parser's verdict on a variable's text: TrueCondition holds,
\* FalseCondition holds, or neither (unset or anything else).
Settings == {"true", "false", "other"}

ASSUME EnvFlagsConstants ==
    /\ Macro \in [Flags -> {"CheckIfTrue", "CheckIfFalse", "ToBooleanWithDefault"}]
    /\ Default \in [Flags -> {0, 1}]

VARIABLES
    env,        \* the parser's verdict on each switch's variable
    sValue,     \* the static of each function: -1, 0 or 1
    th,         \* per thread: the call in progress
    returned    \* ghost: <<switch, answer>> of every completed call

vars == <<env, sValue, th, returned>>

PcValues == {"idle", "check", "compute", "ret"}

TypeOK ==
    /\ env \in [Flags -> Settings]
    /\ sValue \in [Flags -> {-1, 0, 1}]
    /\ th \in [Threads -> [pc : PcValues, flag : Flags]]
    /\ returned \subseteq Flags \X BOOLEAN

\* TrueCondition and FalseCondition (environment_variables_parser.h).
TrueCondition(v) == v = "true"
FalseCondition(v) == v = "false"

\* The branches of switch f's macro on the verdict v of its variable.
MacroValue(f, v) ==
    CASE Macro[f] = "CheckIfTrue"  -> IF TrueCondition(v) THEN 1 ELSE 0
      [] Macro[f] = "CheckIfFalse" -> IF FalseCondition(v) THEN 1 ELSE 0
      [] OTHER -> IF TrueCondition(v) THEN 1
                  ELSE IF FalseCondition(v) THEN 0
                  ELSE Default[f]

\* The value a miss stores.
Computed(f) == MacroValue(f, env[f])

\* Mutant: the macro turned into a helper function, whose one static is
\* shared by every switch that calls it.
CacheSlotShared(f) == CHOOSE g \in Flags : Macro[g] = Macro[f]

\* Each expansion of a macro has its own static.
CacheSlot(f) == f

\* Any environment; no switch has been called.
Init ==
    /\ env \in [Flags -> Settings]
    /\ sValue = [f \in Flags |-> -1]
    /\ th \in [Threads -> [pc : {"idle"}, flag : Flags]]
    /\ returned = {}

\* A thread calls switch f.
Call(p, f) ==
    /\ th[p].pc = "idle"
    /\ th' = [th EXCEPT ![p] = [pc |-> "check", flag |-> f]]
    /\ UNCHANGED <<env, sValue, returned>>

\* if (sValue == -1): a miss computes, a hit returns.
Check(p) ==
    /\ th[p].pc = "check"
    /\ th' = [th EXCEPT ![p].pc =
                 IF sValue[CacheSlot(th[p].flag)] = -1 THEN "compute" ELSE "ret"]
    /\ UNCHANGED <<env, sValue, returned>>

\* const auto envValue = EXPR; then the store of the macro's branch.
Compute(p) ==
    /\ th[p].pc = "compute"
    /\ sValue' = [sValue EXCEPT ![CacheSlot(th[p].flag)] = Computed(th[p].flag)]
    /\ th' = [th EXCEPT ![p].pc = "ret"]
    /\ UNCHANGED <<env, returned>>

\* return sValue == 1; the static is read again.
Return(p) ==
    /\ th[p].pc = "ret"
    /\ returned' = returned \cup {<<th[p].flag, sValue[CacheSlot(th[p].flag)] = 1>>}
    /\ th' = [th EXCEPT ![p].pc = "idle"]
    /\ UNCHANGED <<env, sValue>>

Next ==
    \E p \in Threads :
        \/ \E f \in Flags : Call(p, f)
        \/ Check(p) \/ Compute(p) \/ Return(p)

Spec == Init /\ [][Next]_vars

-----------------------------------------------------------------------------
(* Properties                                                              *)

\* Every call of a switch, however the unlocked caches of concurrent calls
\* interleave, answers what its own macro makes of its own variable.
ReturnsConfigured ==
    \A r \in returned : r[2] = (Computed(r[1]) = 1)

=============================================================================
