\* As the code runs: a stale entry written back after a datapath went down.
CONSTANTS
    None = None
    Config <- ConfigThreads
    RuleEntries <- RuleEntriesMC
    RFVS = {153}
    VmPortRegs <- VmPortRegsMC
    DpPortRegs <- DpPortRegsMC
    DpDowns <- DpDownsMC
    PlaneMaps <- PlaneMapsMC
    MaxEntries = 3
SPECIFICATION Spec
INVARIANT BoundOnlyWhenUp
