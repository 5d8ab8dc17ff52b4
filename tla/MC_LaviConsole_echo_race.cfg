\* A one-shot command while the server sends its periodic echo: the first
\* message the blocking receive reads is taken for the reply, whatever it is.
CONSTANTS
    MSG_ECHO = 14
    MSG_ECHO_RESPONSE = 15
    BOOKT_NODES_REQ = 16
    BOOKT_NODES_ADD = 17
    BOOKT_LINKS_REQ = 19
    BOOKT_LINKS_ADD = 20
    BOOKT_STAT_REQ = 22
    BOOKT_STAT = 23
    BOOKT_FLOWS_REQ = 24
    BOOKT_FLOWS_ADD = 25
    Xids <- XidsMC
    ReplyBodies <- ReplyBodiesMC
    MaxEchoes = 1
    PeerMayClose = FALSE
    NoReply = NoReplyMC
    NoReplyMC = NoReplyMC
SPECIFICATION Spec
INVARIANT ReplyMatchesRequest
