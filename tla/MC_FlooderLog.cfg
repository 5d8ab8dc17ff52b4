\* The Flooder and the parser of its log, with only the Flooder's own
\* description requests.
CONSTANTS
    d1 = d1
    d2 = d2
    d3 = d3
    Dpids <- DpidsMC
    OtherRequesters = FALSE
    MaxQueries = 3
SPECIFICATION LogSpec
INVARIANT LogTypeOK
INVARIANT LineupMatchesSwitches
INVARIANT QueriedSwitchDescribed
INVARIANT RepliesCounted
PROPERTY EveryKnownSwitchPolled
