----------------------------- MODULE FlooderLog -----------------------------
(***************************************************************************)
(* The Flooder of flooder.py composed with flooder_data_parser.py, the     *)
(* script that reads the Flooder's output afterwards: every callback of    *)
(* the Flooder prints ##-lines, and the parser folds processInfoLine over  *)
(* them in order.  Folding the lines of each callback as it prints them    *)
(* gives the parser state for the log as it stands after that callback.    *)
(*                                                                         *)
(* The switches answer the port stats requests send_query makes; a reply   *)
(* carries the request's xid (NOX was patched to return it in rx_crc_err)  *)
(* and is lost when the switch's connection closes.  Latencies, switch    *)
(* types and the printed CDF only feed the numbers printed; the parser's   *)
(* statistics are kept as their counts.                                    *)
(*                                                                         *)
(* The xids are those of the first MaxQueries queries, counted from the    *)
(* Flooder's nextXID = 10000 as 0, 1, ...; later queries are still sent   *)
(* but neither they nor their replies are followed into the log.           *)
(***************************************************************************)
EXTENDS Flooder, FiniteSets

CONSTANT MaxQueries   \* the queries whose lines are followed into the log

VARIABLES
    parser,      \* the parser's globals after the lines printed so far
    nextXID,     \* Flooder.nextXID - 10000, up to MaxQueries
    inflight,    \* requests sent and not yet answered: [xid, dpid]
    done         \* requests whose ##QUERY_DONE line was printed

logVars == <<vars, parser, nextXID, inflight, done>>

Xids == 0..(MaxQueries - 1)

\* The module globals switches, outstandingQueries, stats and latencies:
\* sw maps a dpid to its SwitchInfo (the keys of its outstandingQueries and
\* its stats.n), out is outstandingQueries, n is stats.n (and the length
\* of latencies), warned the xids of "reply for missing request", raised
\* whether an exception ended main.
ParserInit == [sw |-> << >>, out |-> << >>, n |-> 0, warned |-> {}, raised |-> FALSE]

\* processSwitchDesc: a fresh SwitchInfo, whatever was recorded before.
ProcessSwitchDesc(P, d) == [P EXCEPT !.sw = (d :> [oq |-> {}, n |-> 0]) @@ @]

\* processQueryStart: switches[dpid] raises KeyError for a switch never
\* described, and nothing catches it.
ProcessQueryStart(P, x, d) ==
    IF d \notin DOMAIN P.sw THEN [P EXCEPT !.raised = TRUE]
    ELSE [P EXCEPT !.sw[d].oq = @ \cup {x}, !.out = (x :> d) @@ @]

\* Mutant: outstandingQueries.get(xid) in place of pop(xid).
ProcessQueryStopGet(P, x) ==
    IF x \notin DOMAIN P.out THEN [P EXCEPT !.warned = @ \cup {x}]
    ELSE LET d == P.out[x]
         IN IF x \notin P.sw[d].oq THEN [P EXCEPT !.warned = @ \cup {x}]
            ELSE [P EXCEPT !.sw[d].oq = @ \ {x}, !.sw[d].n = @ + 1, !.n = @ + 1]

\* processQueryStop: the global entry is popped first; when the switch's
\* own entry is missing the KeyError is caught after that pop, and the
\* reply is only warned about.
ProcessQueryStop(P, x) ==
    IF x \notin DOMAIN P.out THEN [P EXCEPT !.warned = @ \cup {x}]
    ELSE LET d == P.out[x]
             popped == Restrict(P.out, DOMAIN P.out \ {x})
         IN IF x \notin P.sw[d].oq THEN [P EXCEPT !.out = popped, !.warned = @ \cup {x}]
            ELSE [P EXCEPT !.out = popped, !.sw[d].oq = @ \ {x},
                           !.sw[d].n = @ + 1, !.n = @ + 1]

\* main's loop: processInfoLine on each ##-line; an exception ends it.
\* SWITCH_JOIN and SWITCH_LEAVE lines are passed over.
ParseLine(P, l) ==
    IF P.raised THEN P
    ELSE CASE l.what = "SWITCH_DESC" -> ProcessSwitchDesc(P, l.dpid)
           [] l.what = "QUERY_START" -> ProcessQueryStart(P, l.xid, l.dpid)
           [] l.what = "QUERY_DONE"  -> ProcessQueryStop(P, l.xid)
           [] OTHER                  -> P

LogInit ==
    /\ Init
    /\ parser = ParserInit
    /\ nextXID = 0
    /\ inflight = {}
    /\ done = {}

\* datapath_join_callback prints ##SWITCH_JOIN.
JoinLogged(d) ==
    /\ DatapathJoin(d)
    /\ UNCHANGED <<parser, nextXID, inflight, done>>

\* datapath_leave_callback prints ##SWITCH_LEAVE; the closed connection
\* takes the switch's unanswered requests with it.
LeaveLogged(d) ==
    /\ DatapathLeave(d)
    /\ inflight' = {q \in inflight : q.dpid # d}
    /\ UNCHANGED <<parser, nextXID, done>>

\* desc_stats_in_handler prints ##SWITCH_DESC before recording the switch.
DescLogged(d) ==
    /\ DescStatsIn(d)
    /\ parser' = ParseLine(parser, [what |-> "SWITCH_DESC", dpid |-> d])
    /\ UNCHANGED <<nextXID, inflight, done>>

\* query_timer: each send_query takes the next xid, sends the request and
\* prints ##QUERY_START with the xid and the switch.
TimerLogged ==
    LET k == IF Len(Polled) < MaxQueries - nextXID
             THEN Len(Polled) ELSE MaxQueries - nextXID
        sent == [j \in 1..k |-> [xid |-> nextXID + j - 1, dpid |-> Polled[j]]]
        start(P, q) == ParseLine(P, [what |-> "QUERY_START", xid |-> q.xid,
                                     dpid |-> q.dpid])
    IN /\ QueryTimer
       /\ nextXID' = nextXID + k
       /\ inflight' = inflight \cup ToSet(sent)
       /\ parser' = FoldLeft(start, parser, sent)
       /\ UNCHANGED done

\* port_stats_in_handler: the reply's xid, printed as ##QUERY_DONE.
PortStatsIn(q) ==
    /\ q \in inflight
    /\ inflight' = inflight \ {q}
    /\ done' = done \cup {q}
    /\ parser' = ParseLine(parser, [what |-> "QUERY_DONE", xid |-> q.xid])
    /\ queried' = {}
    /\ UNCHANGED <<switches, numSwitches, requestLineup, nextRequestLineupIndex,
                   queriesPerInterval, connected, pendingDesc, nextXID>>

LogNext ==
    \/ \E d \in Dpids : JoinLogged(d)
    \/ \E d \in Dpids : LeaveLogged(d)
    \/ \E d \in Dpids : DescLogged(d)
    \/ TimerLogged
    \/ \E q \in inflight : PortStatsIn(q)

\* As in Flooder: the timer re-arms itself, so it keeps firing.
LogSpec == LogInit /\ [][LogNext]_logVars /\ WF_logVars(TimerLogged)

-----------------------------------------------------------------------------
(* Properties.                                                             *)

Queries == [xid : Xids, dpid : Dpids]

LogTypeOK ==
    /\ TypeOK
    /\ nextXID \in 0..MaxQueries
    /\ inflight \subseteq Queries
    /\ done \subseteq Queries
    /\ DOMAIN parser.sw \subseteq Dpids
    /\ \A d \in DOMAIN parser.sw : parser.sw[d].oq \subseteq Xids
    /\ DOMAIN parser.out \subseteq Xids
    /\ \A x \in DOMAIN parser.out : parser.out[x] \in Dpids
    /\ parser.raised \in BOOLEAN

\* processQueryStart never raises KeyError on the Flooder's log: every
\* switch send_query polls was printed in a ##SWITCH_DESC line before,
\* because desc_stats_in_handler prints before it puts the switch in the
\* lineup and the parser never forgets a described switch.
QueriedSwitchDescribed == ~parser.raised

\* Every ##QUERY_DONE line is counted in the global stats, none is warned
\* about as a reply for a missing request, and outstandingQueries holds
\* exactly the started queries without a reply.  processQueryStop pops
\* outstandingQueries before the per-switch entry that a re-described
\* switch has lost; only the closed connection of the leave that comes
\* before a re-description keeps a reply from landing there.
RepliesCounted ==
    /\ parser.n = Cardinality(done)
    /\ parser.warned = {}
    /\ DOMAIN parser.out = (0..(nextXID - 1)) \ {q.xid : q \in done}

=============================================================================
