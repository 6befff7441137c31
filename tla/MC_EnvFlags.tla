---------------------------- MODULE MC_EnvFlags ----------------------------
(* Two threads and four switches: two ToBooleanWithDefault switches with  *)
(* opposite defaults (IsNetFxAssemblyRedirectionEnabled, IsNGENEnabled)   *)
(* and two CheckIfTrue switches (IsDumpILRewriteEnabled,                  *)
(* IsAzureAppServices), so that switches of one macro can disagree.       *)
EXTENDS EnvFlags, TLC

MC_Macro == "redirect" :> "ToBooleanWithDefault" @@ "ngen" :> "ToBooleanWithDefault"
            @@ "dump" :> "CheckIfTrue" @@ "azure" :> "CheckIfTrue"
MC_Default == "redirect" :> 1 @@ "ngen" :> 0 @@ "dump" :> 0 @@ "azure" :> 0
\* The calling threads are interchangeable.
MC_Symmetry == Permutations(Threads)
=============================================================================
