\* Spec 8.1: the status of an entry agrees with its fields.
CONSTANTS
    None = None
    Config <- ConfigMC
    ISLConf <- ISLConfMC
    VMsDoc <- VMsThreePorts
    ISLLinks <- NoLinks
    RuleEntries <- RulesetMC
    RFVS = {153}
    VmPortRegs <- VmPortRegsMC
    DpPortRegs <- DpPortRegsMC
    DpDowns <- DpDownsMC
    PlaneMaps <- PlaneMapsMC
    RouteMods <- RouteModsMC
    MaxEntries = 3
    MaxISLEntries = 2
SPECIFICATION MCSpec
VIEW MCView
INVARIANT StatusMatchesFields
