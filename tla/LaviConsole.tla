------------------------------ MODULE LaviConsole ------------------------------
(***************************************************************************)
(* One run of utilities/lavi_console.py against a LAVI server: the command *)
(* of the command line, the NOXChannel it opens (pylib/noxmsg.py), the     *)
(* lavichannel on top (pylib/lavimsg.py), and for idle, alive and          *)
(* view_flows the second thread that reads the channel until the user      *)
(* presses Enter (lavimsg.lavilistener, lavibookman.keep_alive_thread).    *)
(*                                                                         *)
(* The TCP connection is two byte streams.  receive() reads one byte per   *)
(* recv(1): the blocking loop of the main thread takes a step per byte,    *)
(* a call of receive(None) by the second thread is one step.  The server   *)
(* is the environment (its code is not in this repository): it parses     *)
(* whole frames, answers each request once with the request's xid, sends   *)
(* up to MaxEchoes echo requests of its own, and may close the            *)
(* connection.  Printing and the bodies' contents are left out; a request *)
(* body is as long as the struct.pack that builds it.                      *)
(***************************************************************************)
EXTENDS Integers, Sequences, SequencesExt, NoxChannel

CONSTANTS
    MSG_ECHO, MSG_ECHO_RESPONSE, BOOKT_NODES_REQ, BOOKT_NODES_ADD,
    BOOKT_LINKS_REQ, BOOKT_LINKS_ADD, BOOKT_STAT_REQ, BOOKT_STAT,
    BOOKT_FLOWS_REQ, BOOKT_FLOWS_ADD,  \* the values laviheader reads
    Xids,           \* values random.randrange(0, 0xffffffff) may return
    ReplyBodies,    \* bodies of the server's replies and flow events
    MaxEchoes,      \* echo requests the server sends at most
    PeerMayClose,   \* whether the server may close the connection
    NoReply         \* model value: check_reply has not run

Byte == 0..255
Zeros(k) == [i \in 1..k |-> 0]

VARIABLES
    toClient, toServer,  \* the two byte streams
    srvSent,             \* the messages the server sent, in order
    srvGot,              \* what the server parsed from the client, in order
    srvDone,             \* how many of srvGot the server has handled
    echoes,              \* echo requests the server has sent
    closed,              \* the server has closed the connection
    cmd,                 \* args[1]
    pc,                  \* the main thread
    sentXid,             \* the xid lavichannel.send returned
    rmsg, rlen,          \* msg and length of the receive(0) loop
    checked,             \* the reply check_reply was given
    got,                 \* the values lavichannel.receive returned
    thread,              \* the listener or keep-alive thread
    stopEvent,           \* its __stop_event
    buffer,              \* NOXChannel.__buffer
    responded            \* echo responses the keep-alive thread sent

vars == <<toClient, toServer, srvSent, srvGot, srvDone, echoes, closed, cmd,
          pc, sentXid, rmsg, rlen, checked, got, thread, stopEvent, buffer,
          responded>>
server == <<srvSent, srvGot, srvDone, echoes, closed>>

\* The request each command sends: its type, the size of its struct.pack,
\* and the reply type it gives check_reply.
SendEchoReq == [req |-> MSG_ECHO, size |-> 0, reply |-> MSG_ECHO_RESPONSE]
SendNodeQuery == [req |-> BOOKT_NODES_REQ, size |-> 3, reply |-> BOOKT_NODES_ADD]
SendLinkQuery == [req |-> BOOKT_LINKS_REQ, size |-> 13, reply |-> BOOKT_LINKS_ADD]
SendStatQuery == [req |-> BOOKT_STAT_REQ, size |-> 12, reply |-> BOOKT_STAT]
SendFlowSubscribe == [req |-> BOOKT_FLOWS_REQ, size |-> 3]

\* The commands that send one request and read one reply.
OneShot == ("echo" :> SendEchoReq) @@ ("query_node" :> SendNodeQuery)
           @@ ("query_link" :> SendLinkQuery) @@ ("query_stat" :> SendStatQuery)

Commands == DOMAIN OneShot \cup {"idle", "alive", "view_flows", "unknown"}

\* A write of the client: sock.send appends to the stream while the server
\* is there.  After its close the bytes are lost, or send raises
\* socket.error: Lost and Raised leave the stream alone and differ in the
\* control flow of the caller.
Sent(bytes) == ~closed /\ BareSendFits(bytes) /\ toServer' = toServer \o bytes
Lost == closed /\ UNCHANGED toServer
Raised == closed /\ UNCHANGED toServer

Init ==
    /\ toClient = << >> /\ toServer = << >>
    /\ srvSent = << >> /\ srvGot = << >> /\ srvDone = 0
    /\ echoes = 0 /\ closed = FALSE
    /\ cmd \in Commands
    /\ pc = "start"
    /\ sentXid = NoReply
    /\ rmsg = << >> /\ rlen = 3
    /\ checked = NoReply
    /\ got = << >>
    /\ thread = "none" /\ stopEvent = FALSE /\ buffer = << >>
    /\ responded = 0

-----------------------------------------------------------------------------
(* The main thread.                                                        *)

\* send_echo_req, send_node_query, send_link_query, send_stat_query up to
\* the receive: lavichannel.send with a fresh xid.  A raise ends the script.
StartOneShot ==
    /\ pc = "start" /\ cmd \in DOMAIN OneShot
    /\ \E x \in Xids :
         /\ sentXid' = x
         /\ \/ (Sent(LaviSend(OneShot[cmd].req, x, Zeros(OneShot[cmd].size))) \/ Lost)
               /\ pc' = "recv"
            \/ Raised /\ pc' = "exit"
    /\ UNCHANGED <<toClient, server, cmd, rmsg, rlen, checked, got, thread,
                   stopEvent, buffer, responded>>

\* idle and keep_alive: start the thread, then wait for Enter.
StartThread ==
    /\ pc = "start" /\ cmd \in {"idle", "alive"}
    /\ thread' = "loop" /\ pc' = "wait"
    /\ UNCHANGED <<toClient, toServer, server, cmd, sentXid, rmsg, rlen,
                   checked, got, stopEvent, buffer, responded>>

\* send_flow_subscribe: the subscription, then the listener and the wait.
StartViewFlows ==
    /\ pc = "start" /\ cmd = "view_flows"
    /\ \E x \in Xids :
         /\ sentXid' = x
         /\ \/ (Sent(LaviSend(SendFlowSubscribe.req, x, Zeros(SendFlowSubscribe.size))) \/ Lost)
               /\ thread' = "loop" /\ pc' = "wait"
            \/ Raised /\ pc' = "exit" /\ UNCHANGED thread
    /\ UNCHANGED <<toClient, server, cmd, rmsg, rlen, checked, got,
                   stopEvent, buffer, responded>>

\* "Unknown command": nothing is sent.
StartUnknown ==
    /\ pc = "start" /\ cmd = "unknown"
    /\ pc' = "exit"
    /\ UNCHANGED <<toClient, toServer, server, cmd, sentXid, rmsg, rlen,
                   checked, got, thread, stopEvent, buffer, responded>>

\* Mutant: the two bytes of the length field added to it again.
RecvByteHeaderTwice ==
    /\ pc = "recv" /\ Len(rmsg) < rlen /\ toClient # << >>
    /\ rmsg' = Append(rmsg, Head(toClient))
    /\ toClient' = Tail(toClient)
    /\ rlen' = IF Len(rmsg') = 2 THEN UnBE16(rmsg') + 2 ELSE rlen
    /\ UNCHANGED <<toServer, server, cmd, pc, sentXid, checked, got, thread,
                   stopEvent, buffer, responded>>

\* One pass of the receive(0) loop: recv(1) returns the next byte; at two
\* bytes the length is read from them.
RecvByte ==
    /\ pc = "recv" /\ Len(rmsg) < rlen /\ toClient # << >>
    /\ rmsg' = Append(rmsg, Head(toClient))
    /\ toClient' = Tail(toClient)
    /\ rlen' = IF Len(rmsg') = 2 THEN UnBE16(rmsg') ELSE rlen
    /\ UNCHANGED <<toServer, server, cmd, pc, sentXid, checked, got, thread,
                   stopEvent, buffer, responded>>

\* The same pass once the server has closed and the stream is drained:
\* recv(1) returns "" and the loop goes round again, for ever.
RecvEOF ==
    /\ pc = "recv" /\ Len(rmsg) < rlen /\ closed /\ toClient = << >>
    /\ UNCHANGED vars

\* check_reply: the reply has the expected type and the xid sent.
CheckReply(reply, expected_type, expected_xid) ==
    /\ "type" \in DOMAIN reply
    /\ reply.type = expected_type
    /\ reply.xid = expected_xid

\* The loop ends, lavichannel.receive parses the message, check_reply and
\* print_lavimsg look at it, and the command returns.
RecvDone ==
    /\ pc = "recv" /\ Len(rmsg) >= rlen
    /\ got' = Append(got, LaviParse(rmsg))
    /\ checked' = LaviParse(rmsg)
    /\ pc' = "exit"
    /\ UNCHANGED <<toClient, toServer, server, cmd, sentXid, rmsg, rlen,
                   thread, stopEvent, buffer, responded>>

\* Enter pressed: stop() sets the event and returns without a join.  For
\* view_flows the unsubscribe command is packed and never sent.
Stop ==
    /\ pc = "wait"
    /\ stopEvent' = TRUE /\ pc' = "exit"
    /\ UNCHANGED <<toClient, toServer, server, cmd, sentXid, rmsg, rlen,
                   checked, got, thread, buffer, responded>>

\* The script ends once the thread, which is not a daemon, has ended.  At
\* interpreter exit NOXChannel.__del__ may run or not: it sends the
\* disconnect message and shuts the socket; an exception in it is ignored.
Exit ==
    /\ pc = "exit" /\ thread \in {"none", "exited"}
    /\ pc' = "ended"
    /\ Sent(Disconnect) \/ UNCHANGED toServer
    /\ UNCHANGED <<toClient, server, cmd, sentXid, rmsg, rlen, checked, got,
                   thread, stopEvent, buffer, responded>>

Terminated == pc = "ended" /\ UNCHANGED vars

-----------------------------------------------------------------------------
(* The second thread.                                                      *)

\* The loop test of run(): exit when the stop event is set.
ThreadLoop ==
    /\ thread = "loop"
    /\ thread' = IF stopEvent THEN "exited" ELSE "call"
    /\ UNCHANGED <<toClient, toServer, server, cmd, pc, sentXid, rmsg, rlen,
                   checked, got, stopEvent, buffer, responded>>

\* Mutant: the keep-alive thread tests for the response type.
KeepAliveHandlesResponse(reply) ==
    cmd = "alive" /\ "type" \in DOMAIN reply /\ reply.type = MSG_ECHO_RESPONSE

\* keep_alive_thread.run: an echo request is answered; lavilistener only
\* prints what it receives.
KeepAliveHandles(reply) ==
    cmd = "alive" /\ "type" \in DOMAIN reply /\ reply.type = MSG_ECHO

\* The keep-alive thread's channel.send(MSG_ECHO_RESPONSE, ""): a fresh
\* xid, not the request's.  A raise ends the thread.
Respond ==
    \E x \in Xids :
       \/ Sent(LaviSend(MSG_ECHO_RESPONSE, x, << >>)) /\ thread' = "loop"
          /\ responded' = responded + 1
       \/ Lost /\ thread' = "loop" /\ responded' = responded + 1
       \/ Raised /\ thread' = "exited" /\ UNCHANGED responded

\* One call of receive(None) with timeout 0: select is ready when a byte
\* is waiting or the server has closed, and recv(1) adds the byte, if
\* any, to the buffer; a complete message is taken out and returned
\* through lavichannel.receive.
ThreadCall ==
    /\ thread = "call"
    /\ LET buf == IF toClient # << >> THEN Append(buffer, Head(toClient))
                  ELSE buffer
           reply == LaviParse(buf)
       IN /\ toClient' = IF toClient # << >> THEN Tail(toClient) ELSE toClient
          /\ IF BufferComplete(buf)
             THEN /\ buffer' = << >>
                  /\ got' = Append(got, reply)
                  /\ IF KeepAliveHandles(reply) THEN Respond
                     ELSE thread' = "loop" /\ UNCHANGED <<toServer, responded>>
             ELSE /\ buffer' = buf /\ thread' = "loop"
                  /\ UNCHANGED <<got, toServer, responded>>
    /\ UNCHANGED <<server, cmd, pc, sentXid, rmsg, rlen, checked, stopEvent>>

-----------------------------------------------------------------------------
(* The server.                                                             *)

client == <<cmd, pc, sentXid, rmsg, rlen, checked, got, thread, stopEvent,
            buffer, responded>>

\* What the server sends in answer to a request: a one-shot request gets
\* its reply type, a flow subscription a flow event, anything else nothing.
Answers(m) ==
    IF "type" \notin DOMAIN m THEN {}
    ELSE IF \E c \in DOMAIN OneShot : OneShot[c].req = m.type
         THEN {LaviMsg(OneShot[c].reply, m.xid, b) :
                 c \in {c2 \in DOMAIN OneShot : OneShot[c2].req = m.type},
                 b \in ReplyBodies}
    ELSE IF m.type = BOOKT_FLOWS_REQ
         THEN {LaviMsg(BOOKT_FLOWS_ADD, m.xid, b) : b \in ReplyBodies}
    ELSE {}

ServerSend(m) ==
    /\ srvSent' = Append(srvSent, m)
    /\ toClient' = toClient \o LaviSend(m.type, m.xid, m.msg)

\* The server takes a whole frame off its stream.
ServerRecv ==
    /\ ~closed /\ Len(toServer) >= 2 /\ Len(toServer) >= UnBE16(toServer)
    /\ srvGot' = Append(srvGot, LaviParse(SubSeq(toServer, 1, UnBE16(toServer))))
    /\ toServer' = SubSeq(toServer, UnBE16(toServer) + 1, Len(toServer))
    /\ UNCHANGED <<toClient, srvSent, srvDone, echoes, closed, client>>

\* The server handles the next message it parsed.
ServerHandle ==
    /\ ~closed /\ srvDone < Len(srvGot)
    /\ srvDone' = srvDone + 1
    /\ LET ans == Answers(srvGot[srvDone + 1])
       IN \/ ans = {} /\ UNCHANGED <<toClient, srvSent>>
          \/ \E m \in ans : ServerSend(m)
    /\ UNCHANGED <<toServer, srvGot, echoes, closed, client>>

\* LAVI's periodic echo request.
ServerEcho ==
    /\ ~closed /\ echoes < MaxEchoes
    /\ echoes' = echoes + 1
    /\ \E x \in Xids : ServerSend(LaviMsg(MSG_ECHO, x, << >>))
    /\ UNCHANGED <<toServer, srvGot, srvDone, closed, client>>

\* The server closes the connection; what it sent stays readable.
ServerClose ==
    /\ PeerMayClose /\ ~closed
    /\ closed' = TRUE
    /\ UNCHANGED <<toClient, toServer, srvSent, srvGot, srvDone, echoes, client>>

-----------------------------------------------------------------------------

MainStep == StartOneShot \/ StartThread \/ StartViewFlows \/ StartUnknown
            \/ RecvByte \/ RecvDone \/ Exit

Next ==
    \/ MainStep \/ RecvEOF \/ Stop \/ Terminated
    \/ ThreadLoop \/ ThreadCall
    \/ ServerRecv \/ ServerHandle \/ ServerEcho \/ ServerClose

\* Both threads are scheduled; the server reads and answers what it gets.
\* Nothing makes the user press Enter, the server echo or the server close.
Spec == Init /\ [][Next]_vars
        /\ WF_vars(MainStep) /\ WF_vars(ThreadLoop \/ ThreadCall)
        /\ WF_vars(ServerRecv) /\ WF_vars(ServerHandle)

-----------------------------------------------------------------------------
(* Properties.                                                             *)

Replies == [raw : Seq(Byte)]
           \cup [length : 0..65535, type : Byte, xid : Nat, msg : Seq(Byte)]

TypeOK ==
    /\ toClient \in Seq(Byte) /\ toServer \in Seq(Byte)
    /\ buffer \in Seq(Byte) /\ rmsg \in Seq(Byte)
    /\ got \in Seq(Replies) /\ srvGot \in Seq(Replies)
    /\ checked \in Replies \cup {NoReply}
    /\ pc \in {"start", "recv", "wait", "exit", "ended"}
    /\ thread \in {"none", "loop", "call", "exited"}

\* The messages the server may send.
ServerMsgs ==
    {LaviMsg(t, x, b) : t \in {MSG_ECHO, BOOKT_FLOWS_ADD}
                          \cup {OneShot[c].reply : c \in DOMAIN OneShot},
                        x \in Xids, b \in ReplyBodies \cup {<< >>}}

LM == INSTANCE LaviMessages
        WITH Msgs <- ServerMsgs,
             queue <- SubSeq(srvSent, Len(got) + 1, Len(srvSent)),
             got <- got

\* Whichever receive reads it, byte by byte in the main thread or one byte
\* per receive(None) call in the listener, every message comes out of
\* lavichannel.receive whole, parsed into the length, type and xid the
\* server sent, and in the server's order: the framing of noxmsg's two
\* receive modes and the header parse implement LaviMessages.
ImplementsLaviMessages == LM!Spec

\* A one-shot command's blocking receive() returns while the connection
\* stays open: the loop reads exactly the frame the server sends.
ReceiveReturns == (pc = "recv" /\ ~closed) ~> (pc # "recv" \/ closed)

\* While the keep-alive thread runs, each echo request of the server is
\* answered with an echo response, unless the user stops the thread or
\* the connection closes first.
EchoesAnswered ==
    \A n \in 1..MaxEchoes :
        (cmd = "alive" /\ echoes >= n) ~> (responded >= n \/ stopEvent \/ closed)

\* The reply a one-shot command hands to check_reply is the answer to its
\* request: of the expected type and with the xid it sent, so
\* check_reply prints no warning.
ReplyMatchesRequest ==
    checked # NoReply => CheckReply(checked, OneShot[cmd].reply, sentXid)

=============================================================================
