\* An inter-switch link: pairing and the fan-out across it.
CONSTANTS
    None = None
    Config <- ConfigMC
    ISLConf <- ISLConfMC
    VMsDoc <- VMsTwoPorts
    ISLLinks <- LinksOneController
    RuleEntries <- RulesetMC
    RFVS = {153}
    VmPortRegs <- VmPortRegsMC
    DpPortRegs <- DpPortRegsMC
    DpDowns <- DpDownsMC
    PlaneMaps <- PlaneMapsMC
    RouteMods <- RouteModsMC
    MaxEntries = 2
    MaxISLEntries = 3
SPECIFICATION MCSpec
VIEW MCView
INVARIANT IslPaired
PROPERTY RouteModsAddressed
INVARIANT ISLMirrored
