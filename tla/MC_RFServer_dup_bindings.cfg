\* Spec invariant (i): at most one binding entry per port.
CONSTANTS
    None = None
    Config <- ConfigMC
    ISLConf <- ISLConfMC
    VMsDoc <- VMsThreePorts
    ISLLinks <- NoLinks
    RuleEntries <- RulesetMC
    RFVS = {153}
    VmPortRegs <- VmPortRegsMC
    DpPortRegs <- DpPortRegsMC
    DpDowns <- DpDownsMC
    PlaneMaps <- PlaneMapsMC
    RouteMods <- RouteModsMC
    MaxEntries = 3
    MaxISLEntries = 2
SPECIFICATION MCSpec
VIEW MCView
INVARIANT BindingUnique
