------------------------------- MODULE Flooder -------------------------------
(***************************************************************************)
(* The Flooder component of nox/coreapps/examples/flooder.py: it learns    *)
(* the switches of the network from their description replies and polls   *)
(* them for port stats round-robin from a timer.                           *)
(*                                                                         *)
(* NOX runs a Python component's callbacks one at a time on its event      *)
(* loop, so each callback is one atomic action.  The switch descriptions,  *)
(* the transaction ids and the timer intervals only feed the printed       *)
(* measurements and the schedule of the timer; they are left out.         *)
(*                                                                         *)
(* The environment: a switch joins and leaves over its OpenFlow            *)
(* connection; a description reply for a switch arrives only while it is  *)
(* connected.  With OtherRequesters = FALSE the only description request   *)
(* is the one datapath_join_callback sends, so one reply per join; with   *)
(* TRUE any component of the controller may have asked, and NOX hands      *)
(* every reply to every handler registered for desc stats.                 *)
(***************************************************************************)
EXTENDS Integers, Sequences, SequencesExt

CONSTANTS
    Dpids,            \* the datapath ids of the network
    OtherRequesters   \* whether other components also request descriptions

VARIABLES
    switches,                \* the keys of self.switches
    numSwitches,
    requestLineup,
    nextRequestLineupIndex,
    queriesPerInterval,
    connected,               \* switches with an open connection
    pendingDesc,             \* switches whose description request is unanswered
    queried                  \* the switches the last step sent a stats query

vars == <<switches, numSwitches, requestLineup, nextRequestLineupIndex,
          queriesPerInterval, connected, pendingDesc, queried>>

\* The number of stats queries per switch per second.
QPS == 10

\* The least interval between two query_timer callbacks, 0.05 s, as the
\* fraction <<numerator, denominator>>.
MIN_CALLBACK_INTERVAL == <<1, 20>>

\* The batch size setNumSwitches computes for n > 0 switches: when the
\* interval 1 / (n * QPS) is below MIN_CALLBACK_INTERVAL, int(MIN_CALLBACK_
\* INTERVAL / interval) + 1, else 1.  Evaluated exactly here; Python's
\* floats give the same values for every n up to 11 (at n = 2 the interval
\* is exactly 0.05 in both).
Batch(n) ==
    LET num == MIN_CALLBACK_INTERVAL[1]
        den == MIN_CALLBACK_INTERVAL[2]
    IN IF den < n * QPS * num THEN (n * QPS * num) \div den + 1 ELSE 1

\* setNumSwitches: the interval is recomputed only for n > 0; with no
\* switches the batch size is left as it was.
SetNumSwitches(n) ==
    /\ numSwitches' = n
    /\ queriesPerInterval' = IF n > 0 THEN Batch(n) ELSE queriesPerInterval

Init ==
    /\ switches = {}
    /\ numSwitches = 0
    /\ requestLineup = << >>
    /\ nextRequestLineupIndex = 0
    /\ queriesPerInterval = 1
    /\ connected = {}
    /\ pendingDesc = {}
    /\ queried = {}

\* Mutant: the switch recorded and put in the lineup on join.
DatapathJoinAppends(d) ==
    /\ d \notin connected
    /\ connected' = connected \cup {d}
    /\ pendingDesc' = pendingDesc \cup {d}
    /\ queried' = {}
    /\ switches' = switches \cup {d}
    /\ SetNumSwitches(numSwitches + 1)
    /\ requestLineup' = Append(requestLineup, d)
    /\ UNCHANGED nextRequestLineupIndex

\* datapath_join_callback: send_desc_stats_request.
DatapathJoin(d) ==
    /\ d \notin connected
    /\ connected' = connected \cup {d}
    /\ pendingDesc' = pendingDesc \cup {d}
    /\ queried' = {}
    /\ UNCHANGED <<switches, numSwitches, requestLineup, nextRequestLineupIndex,
                   queriesPerInterval>>

\* Mutant: the index is not reset when it falls off the shortened lineup.
LeaveNoReset(d) ==
    /\ SetNumSwitches(numSwitches - 1)
    /\ requestLineup' = RemoveFirst(requestLineup, d)
    /\ UNCHANGED nextRequestLineupIndex

\* The body of datapath_leave_callback for a known switch: one fewer switch,
\* the first occurrence removed from the lineup, the index back to 0 when
\* it is past the new count.
Leave(d) ==
    /\ SetNumSwitches(numSwitches - 1)
    /\ requestLineup' = RemoveFirst(requestLineup, d)
    /\ nextRequestLineupIndex' = IF nextRequestLineupIndex >= numSwitches - 1
                                 THEN 0 ELSE nextRequestLineupIndex

\* Mutant: the has_key guard dropped, a switch never described is counted out.
DatapathLeaveUnguarded(d) ==
    /\ d \in connected
    /\ connected' = connected \ {d}
    /\ pendingDesc' = pendingDesc \ {d}
    /\ queried' = {}
    /\ switches' = switches \ {d}
    /\ Leave(d)

\* datapath_leave_callback; the connection closes, and with it any
\* description request still unanswered.
DatapathLeave(d) ==
    /\ d \in connected
    /\ connected' = connected \ {d}
    /\ pendingDesc' = pendingDesc \ {d}
    /\ queried' = {}
    /\ \/ /\ d \in switches
          /\ switches' = switches \ {d}
          /\ Leave(d)
       \/ /\ d \notin switches
          /\ UNCHANGED <<switches, numSwitches, requestLineup,
                         nextRequestLineupIndex, queriesPerInterval>>

\* desc_stats_in_handler: the switch is recorded, counted and appended to
\* the lineup, whether or not it was there already.
DescStatsIn(d) ==
    /\ d \in connected
    /\ d \in pendingDesc \/ OtherRequesters
    /\ pendingDesc' = pendingDesc \ {d}
    /\ switches' = switches \cup {d}
    /\ SetNumSwitches(numSwitches + 1)
    /\ requestLineup' = Append(requestLineup, d)
    /\ queried' = {}
    /\ UNCHANGED <<nextRequestLineupIndex, connected>>

\* query_timer calls send_query queriesPerInterval times when there are
\* switches, none otherwise.
PollCount == IF numSwitches > 0 THEN queriesPerInterval ELSE 0

\* The index the j-th send_query of the call reads (from 0): the first
\* reads the stored index as it is, every later one the index advanced
\* modulo numSwitches.
PollIndex(j) == IF j = 0 THEN nextRequestLineupIndex
                ELSE (nextRequestLineupIndex + j) % numSwitches

\* The switches one query_timer call polls, in the order it polls them.
Polled == [j \in 1..PollCount |-> requestLineup[PollIndex(j - 1) + 1]]

\* Mutant: the index advanced once more after the batch.
QueryTimerSkip ==
    /\ queried' = ToSet(Polled)
    /\ nextRequestLineupIndex' = IF PollCount = 0 THEN nextRequestLineupIndex
                                 ELSE PollIndex(PollCount + 1)
    /\ UNCHANGED <<switches, numSwitches, requestLineup, queriesPerInterval,
                   connected, pendingDesc>>

\* query_timer: each send_query queries requestLineup[nextRequestLineupIndex]
\* and advances the index modulo numSwitches; then the next callback is
\* posted.
QueryTimer ==
    /\ queried' = ToSet(Polled)
    /\ nextRequestLineupIndex' = IF PollCount = 0 THEN nextRequestLineupIndex
                                 ELSE PollIndex(PollCount)
    /\ UNCHANGED <<switches, numSwitches, requestLineup, queriesPerInterval,
                   connected, pendingDesc>>

Next ==
    \/ \E d \in Dpids : DatapathJoin(d)
    \/ \E d \in Dpids : DatapathLeave(d)
    \/ \E d \in Dpids : DescStatsIn(d)
    \/ QueryTimer

\* post_callback re-arms the timer on every call, so query_timer keeps
\* being called: weak fairness.  The switches owe nothing.
Spec == Init /\ [][Next]_vars /\ WF_vars(QueryTimer)

-----------------------------------------------------------------------------
(* Properties.                                                             *)

TypeOK ==
    /\ switches \subseteq Dpids
    /\ numSwitches \in Nat
    /\ requestLineup \in Seq(Dpids)
    /\ nextRequestLineupIndex \in Nat
    /\ queriesPerInterval \in Nat \ {0}
    /\ pendingDesc \subseteq connected
    /\ queried \subseteq Dpids

\* The lineup is the set of known switches, each once, and numSwitches its
\* length; the index points into it.  send_query's requestLineup[index]
\* then never raises IndexError, remove(dpid) never raises ValueError, and
\* no switch is polled twice per round or after it has left.
LineupMatchesSwitches ==
    /\ IsInjective(requestLineup)
    /\ ToSet(requestLineup) = switches
    /\ numSwitches = Len(requestLineup)
    /\ numSwitches > 0 => nextRequestLineupIndex < numSwitches

\* A switch that stays connected and known is polled again and again,
\* whatever other switches join and leave: the index resets and the
\* shifts of remove() never starve it.
EveryKnownSwitchPolled ==
    \A d \in Dpids : <>[](d \in switches /\ d \in connected) => []<>(d \in queried)

=============================================================================
