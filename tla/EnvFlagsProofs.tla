--------------------------- MODULE EnvFlagsProofs ---------------------------
(***************************************************************************)
(* The unlocked caches of environment_variables_util.h answer correctly   *)
(* for any number of threads and switches.  ReturnsConfigured is not      *)
(* inductive by itself: a thread about to execute `return sValue == 1`    *)
(* must find the static already holding its switch's value.  FlagInv      *)
(* adds that, and that a static holds -1 or that value: no step ever      *)
(* stores anything else, and nothing resets it.                           *)
(***************************************************************************)
EXTENDS EnvFlags, TLAPS

\* The inductive invariant: every static is unset or holds its switch's
\* value, and a thread at its return reads a set static.
FlagInv ==
    /\ TypeOK
    /\ \A f \in Flags : sValue[f] \in {-1, Computed(f)}
    /\ \A p \in Threads : th[p].pc = "ret" => sValue[th[p].flag] = Computed(th[p].flag)
    /\ ReturnsConfigured

\* A computed value is 0 or 1.
LEMMA ComputedType ==
    ASSUME TypeOK, NEW f \in Flags
    PROVE  Computed(f) \in {0, 1}
BY EnvFlagsConstants DEF TypeOK, Computed, MacroValue, TrueCondition, FalseCondition

\* Initially no static is set and no call has returned.
LEMMA FlagInitHolds == Init => FlagInv
BY EnvFlagsConstants DEF Init, FlagInv, TypeOK, ReturnsConfigured, PcValues

\* Every step keeps FlagInv; env never changes, so Computed keeps its value.
LEMMA FlagStep == FlagInv /\ [Next]_vars => FlagInv'
<1> SUFFICES ASSUME FlagInv, [Next]_vars PROVE FlagInv'
    OBVIOUS
<1> USE DEF FlagInv
<1>1. CASE UNCHANGED vars
      BY <1>1 DEF vars, TypeOK, ReturnsConfigured, Computed
<1>2. ASSUME NEW p \in Threads, NEW f \in Flags, Call(p, f) PROVE FlagInv'
      BY <1>2 DEF Call, TypeOK, PcValues, ReturnsConfigured, Computed
<1>3. ASSUME NEW p \in Threads, Check(p) PROVE FlagInv'
      <2>1. th[p].flag \in Flags /\ sValue[th[p].flag] \in {-1, Computed(th[p].flag)}
            BY DEF TypeOK
      <2>3. TypeOK'
            BY <1>3 DEF Check, TypeOK, PcValues
      <2>4. \A q \in Threads : th'[q].pc = "ret" => sValue'[th'[q].flag] = Computed(th'[q].flag)
            BY <1>3, <2>1 DEF Check, CacheSlot, TypeOK
      <2>5. QED
            BY <1>3, <2>3, <2>4 DEF Check, ReturnsConfigured, Computed
<1>4. ASSUME NEW p \in Threads, Compute(p) PROVE FlagInv'
      <2>1. th[p].flag \in Flags /\ Computed(th[p].flag) \in {0, 1}
            BY ComputedType DEF TypeOK
      <2>3. TypeOK'
            BY <1>4, <2>1 DEF Compute, TypeOK, PcValues, CacheSlot
      <2>4. \A g \in Flags : sValue'[g] \in {-1, Computed(g)}
            BY <1>4, <2>1 DEF Compute, TypeOK, CacheSlot
      <2>5. \A q \in Threads : th'[q].pc = "ret" => sValue'[th'[q].flag] = Computed(th'[q].flag)
            BY <1>4, <2>1 DEF Compute, TypeOK, CacheSlot
      <2>6. QED
            BY <1>4, <2>3, <2>4, <2>5 DEF Compute, ReturnsConfigured, Computed
<1>5. ASSUME NEW p \in Threads, Return(p) PROVE FlagInv'
      <2>1. th[p].flag \in Flags /\ sValue[th[p].flag] = Computed(th[p].flag)
            BY <1>5 DEF Return, TypeOK
      <2>2. <<th[p].flag, sValue[CacheSlot(th[p].flag)] = 1>> \in Flags \X BOOLEAN
            BY <2>1, Zenon DEF CacheSlot
      <2>3. TypeOK'
            BY <1>5, <2>2 DEF Return, TypeOK, PcValues
      <2>4. ReturnsConfigured'
            BY <1>5, <2>1 DEF Return, ReturnsConfigured, CacheSlot, Computed
      <2>5. QED
            BY <1>5, <2>1, <2>3, <2>4 DEF Return, TypeOK, Computed
<1>6. QED
      BY <1>1, <1>2, <1>3, <1>4, <1>5 DEF Next

\* Every call of a cached switch answers what its own macro makes of its
\* own variable, whatever the interleaving of the unlocked test, store and
\* re-read of the statics (CheckIfTrue, ToBooleanWithDefault).
THEOREM ReturnsConfiguredHolds == Spec => []ReturnsConfigured
<1>1. Init => FlagInv
      BY FlagInitHolds
<1>2. FlagInv /\ [Next]_vars => FlagInv'
      BY FlagStep
<1>3. FlagInv => ReturnsConfigured
      BY DEF FlagInv
<1>4. QED
      BY <1>1, <1>2, <1>3, PTL DEF Spec


=============================================================================
