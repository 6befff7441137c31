------------------------ MODULE MC_ProfilerCallbacks ------------------------
(* Small instance of ProfilerCallbacks for TLC: two host threads, the      *)
(* instrumentation module mi and two application modules in one AppDomain *)
(* (as on .NET, where every module shares the default AppDomain); ma has  *)
(* two matched overloads, mb one whose wrapper lacks hooks.               *)
EXTENDS ProfilerCallbacks, TLC

MC_Targets == {<<"ma", "f1">>, <<"ma", "f2">>, <<"mb", "f1">>}
MC_NoHooks == {<<"mb", "f1">>}
MC_DomainOf == [m \in {"mi", "ma", "mb"} |-> "d1"]
\* The host threads are interchangeable.
MC_Symmetry == Permutations(Threads)
=============================================================================
