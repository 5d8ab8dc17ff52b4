\* Bindings only: the binding engine, lookups and flowtable clears.
CONSTANTS
    None = None
    Config <- ConfigMC
    ISLConf <- ISLConfMC
    VMsDoc <- VMsThreePorts
    ISLLinks <- NoLinks
    RuleEntries <- RulesetMC
    RFVS = {153}
    VmPortRegs <- VmPortRegsMC
    DpPortRegs <- DpPortRegsMC
    DpDowns <- DpDownsMC
    PlaneMaps <- PlaneMapsMC
    RouteMods <- RouteModsMC
    MaxEntries = 3
    MaxISLEntries = 2
SPECIFICATION MCSpec
VIEW MCView
INVARIANT TypeOK
INVARIANT LookupFindsBinding
PROPERTY ClearBeforeRoutes
