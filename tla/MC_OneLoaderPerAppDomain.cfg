CONSTANTS
    Threads = {t1, t2}
    Modules = {"web", "sys", "a1", "a2"}
    Domains = {"shared", "d1"}
    SharedDomain = "shared"
    ModDomain <- MC_ModDomain
    AssemblyOf <- MC_AssemblyOf
    CallSites = {"prestart", "other"}
    PreStartInit = "prestart"
    MaxGen = 2
    NoModule = NoModule
SPECIFICATION Spec
SYMMETRY MC_Symmetry
INVARIANT OneLoaderPerAppDomain
CHECK_DEADLOCK FALSE
