------------------------ MODULE MC_MetadataLifetime ------------------------
(* The instance of MC_ProfilerCallbacks, checking the inductive invariant  *)
(* the proof of MetadataRefsLive rests on.                                 *)
EXTENDS MetadataLifetimeProofs, TLC

MC_Targets == {<<"ma", "f1">>, <<"ma", "f2">>, <<"mb", "f1">>}
MC_NoHooks == {<<"mb", "f1">>}
MC_DomainOf == [m \in {"mi", "ma", "mb"} |-> "d1"]
\* The host threads are interchangeable.
MC_Symmetry == Permutations(Threads)
=============================================================================
