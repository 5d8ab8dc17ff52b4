\* Every console command against a server that sends up to two echo requests
\* and may close:
\* the channel delivers whole messages in order, receives return, and the
\* keep-alive thread answers the echo.
CONSTANTS
    MSG_ECHO = 14
    MSG_ECHO_RESPONSE = 15
    BOOKT_NODES_REQ = 16
    BOOKT_NODES_ADD = 17
    BOOKT_LINKS_REQ = 19
    BOOKT_LINKS_ADD = 20
    BOOKT_STAT_REQ = 22
    BOOKT_STAT = 23
    BOOKT_FLOWS_REQ = 24
    BOOKT_FLOWS_ADD = 25
    Xids <- XidsMC
    ReplyBodies <- ReplyBodiesMC
    MaxEchoes = 2
    PeerMayClose = TRUE
    NoReply = NoReplyMC
    NoReplyMC = NoReplyMC
SPECIFICATION Spec
INVARIANT TypeOK
 
PROPERTY ReceiveReturns
PROPERTY EchoesAnswered
