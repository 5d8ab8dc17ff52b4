\* Spec 8.2: an ISL entry counted ACTIVE has both of its ends.
CONSTANTS
    None = None
    Config <- ConfigMC
    ISLConf <- ISLConfMC
    VMsDoc <- VMsTwoPorts
    ISLLinks <- LinksOneController
    RuleEntries <- RulesetMC
    RFVS = {153}
    VmPortRegs <- VmPortRegsMC
    DpPortRegs <- DpPortRegsMC
    DpDowns <- DpDownsMC
    PlaneMaps <- PlaneMapsMC
    RouteMods <- RouteModsMC
    MaxEntries = 3
    MaxISLEntries = 2
SPECIFICATION MCSpec
VIEW MCView
INVARIANT ISLStatusMatchesFields
