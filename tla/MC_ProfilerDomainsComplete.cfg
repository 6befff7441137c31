CONSTANTS
    Threads = {t1, t2}
    Modules = {"mi", "ma", "mb"}
    Domains = {"d1"}
    Methods = {"f1", "f2"}
    InstrModule = "mi"
    DomainOf <- MC_DomainOf
    Targets <- MC_Targets
    NoHooks <- MC_NoHooks
    Unsupported = {}
    MaxLoads = 4
    NoModule = NoModule
    NoMethod = NoMethod
SPECIFICATION Spec
SYMMETRY MC_Symmetry
INVARIANT ProfilerDomainsComplete
CHECK_DEADLOCK FALSE
