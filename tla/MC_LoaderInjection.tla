------------------------- MODULE MC_LoaderInjection -------------------------
(* Small instance of LoaderInjection: two host threads, the shared        *)
(* AppDomain with System.Web (domain neutral, as on IIS) and one          *)
(* application AppDomain, created twice, with System and two application  *)
(* modules.                                                                *)
EXTENDS LoaderInjection, TLC

MC_ModDomain == [m \in {"web", "sys", "a1", "a2"} |->
                    IF m = "web" THEN "shared" ELSE "d1"]
MC_AssemblyOf == ("web" :> "System.Web") @@ ("sys" :> "System") @@
                 ("a1" :> "app") @@ ("a2" :> "app")
\* The host threads are interchangeable.
MC_Symmetry == Permutations(Threads)
=============================================================================
