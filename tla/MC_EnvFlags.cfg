CONSTANTS
    Threads = {t1, t2}
    Flags = {"redirect", "ngen", "dump", "azure"}
    Macro <- MC_Macro
    Default <- MC_Default
SPECIFICATION Spec
SYMMETRY MC_Symmetry
INVARIANT ReturnsConfigured
