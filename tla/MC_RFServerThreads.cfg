\* The two listener threads as the code runs them, without a lock.
CONSTANTS
    None = None
    Config <- ConfigThreads
    RuleEntries <- RuleEntriesMC
    RFVS = {153}
    VmPortRegs <- VmPortRegsMC
    DpPortRegs <- DpPortRegsMC
    DpDowns <- DpDownsMC
    PlaneMaps <- PlaneMapsMC
    MaxEntries = 2
SPECIFICATION Spec
VIEW ThreadsView
INVARIANT TypeOK
INVARIANT BindingsConfigured
