--------------------------- MODULE RFServerThreads ---------------------------
(***************************************************************************)
(* The two listener threads of rfserver/rfserver.py.  RFServer.__init__    *)
(* listens on the client channel without blocking (a thread of its own)   *)
(* and then on the proxy channel on the main thread, and both call         *)
(* process with no lock.  Here each handler is split at its table          *)
(* primitives: every get_entries and every set_entry is one atomic step    *)
(* (spec 4.1), and between two of them the other thread may run.  The     *)
(* entry a handler read is its own copy (EntryFactory + from_dict), and    *)
(* set_entry writes that copy back whole under its id (to_dict).           *)
(* Nothing serializes the two threads: spec section 5 asks for one mutex *)
(* around process, and the code takes none.                               *)
(*                                                                         *)
(* The client thread handles PORT_REGISTER; the proxy thread               *)
(* DATAPATH_PORT_REGISTER, DATAPATH_DOWN and VIRTUAL_PLANE_MAP.  ROUTE_MOD *)
(* only reads the tables, and the ISL table has the proxy thread as its    *)
(* only writer: both stay with RFServer, and the configuration here has   *)
(* no links.  Receiving a message touches no shared state and is merged    *)
(* into the handler's first table access.                                  *)
(***************************************************************************)
EXTENDS RFConfig, RFProtocol

CONSTANTS
    Config, RuleEntries, RFVS,                  \* as in RFServer
    VmPortRegs, DpPortRegs, DpDowns, PlaneMaps,  \* as in RFServer
    MaxEntries    \* a handler that would append to a full rftable waits

VARIABLES
    rftable,
    pc,      \* [thread -> the step it is at; "idle" between messages]
    cur,     \* [thread -> the message it is handling, or None]
    copy,    \* [thread -> [id, e]: the entry get_entries gave it; id 0 if none]
    todo,    \* the ports set_dp_down has still to put down, in order
    sent,    \* the messages the proxy thread's handler has sent so far
    out,     \* the messages the last handler to return sent
    up       \* datapaths with a port registered since they last went down

tvars == <<rftable, pc, cur, copy, todo, sent, out, up>>

Threads == {"client", "proxy"}

\* The helpers of the serial server (config_dp, is_rfvs, reset_vm_port,
\* the sends of map_port), which read no table here.
S == INSTANCE RFServer WITH rftable <- rftable, isltable <- << >>,
        msg <- None, out <- out, ISLConf <- << >>, RouteMods <- {},
        MaxISLEntries <- 0

-----------------------------------------------------------------------------
(* The steps every handler shares.                                         *)

\* The handler takes its first table step and goes on at step label with
\* the entry at index i (0: none) as its copy.
Begin(t, m, label, i) ==
    /\ pc' = [pc EXCEPT ![t] = label]
    /\ cur' = [cur EXCEPT ![t] = m]
    /\ copy' = [copy EXCEPT ![t] = IF i = 0 THEN [id |-> 0, e |-> None]
                                   ELSE FromDict(RFTableType, rftable[i])]

\* The handler returns, having sent o; what it kept for itself is dropped.
Done(t, o) ==
    /\ pc' = [pc EXCEPT ![t] = "idle"]
    /\ sent' = << >>
    /\ cur' = [cur EXCEPT ![t] = None]
    /\ copy' = [copy EXCEPT ![t] = None]
    /\ out' = o

\* The status of the entry at index i, None when there is none.
StatusAt(i) == IF i = 0 THEN None ELSE GetStatus(rftable[i])

\* A handler that will append an entry only starts on a table with room.
HasRoom(i) == i = 0 => Len(rftable) < MaxEntries

-----------------------------------------------------------------------------
(* Client thread: register_vm_port.                                        *)

\* The lookups of register_vm_port: the config entry of the VM port, then
\* the entry of the datapath port it is configured to (0: none).
VmPortEntry(m) ==
    LET c == GetConfigForVmPort(Config, m.vm_id, m.vm_port)
    IN IF c = 0 THEN 0
       ELSE GetEntryByDpPort(rftable, Config[c].ct_id, Config[c].dp_id,
                             Config[c].dp_port)

\* Mutant: the elif of REGISTER_ASSOCIATED written as an else, so any
\* entry of the datapath port is associated.


\* The action register_vm_port takes on the entry at i: REGISTER_IDLE when
\* there is none, REGISTER_ASSOCIATED when it is IDLE_DP, none otherwise.
RegistersVm(i) == StatusAt(i) \in {None, RFENTRY_IDLE_DP_PORT}

\* The lookups, as one get_entries; REGISTER_IDLE or REGISTER_ASSOCIATED go
\* on to the write, no action returns.
VmRead(m) ==
    LET i == VmPortEntry(m)
    IN /\ pc["client"] = "idle"
       /\ \/ /\ RegistersVm(i)
             /\ HasRoom(i)
             /\ Begin("client", m, "vm_write", i)
             /\ UNCHANGED <<out, sent>>
          \/ /\ ~RegistersVm(i)
             /\ Done("client", << >>)
       /\ UNCHANGED <<rftable, todo, up>>

\* set_entry of a new idle entry, or of the copy associated.
VmWrite ==
    LET m == cur["client"]
        k == copy["client"].id
    IN /\ pc["client"] = "vm_write"
       /\ rftable' = IF k = 0
                     THEN SetEntry(rftable, RFTableType, None,
                                   RFEntry(m.vm_id, m.vm_port, None, None,
                                           None, None, None, m.hwaddress))
                     ELSE SetEntry(rftable, RFTableType, k,
                                   Associate(copy["client"].e, m.vm_id, m.vm_port,
                                             None, m.hwaddress))
       /\ Done("client", << >>)
       /\ UNCHANGED <<todo, up>>

-----------------------------------------------------------------------------
(* Proxy thread: register_dp_port (config_dp first), set_dp_down, map_port.*)

DpRead(m) ==
    LET c == GetConfigForDpPort(Config, m.ct_id, m.dp_id, m.dp_port)
        i == IF c = 0 THEN 0
             ELSE GetEntryByVmPort(rftable, Config[c].vm_id, Config[c].vm_port)
        cfg == S!ConfigDp(m.ct_id, m.dp_id)
    IN /\ pc["proxy"] = "idle"
       /\ up' = up \cup {<<m.ct_id, m.dp_id>>}
       /\ \/ /\ S!IsRFVS(m.dp_id)                       \* config_dp stops it
             /\ Done("proxy", cfg)
          \/ /\ ~S!IsRFVS(m.dp_id)
             /\ StatusAt(i) \in {None, RFENTRY_IDLE_VM_PORT}
             /\ HasRoom(i)
             /\ Begin("proxy", m, "dp_write", i)
             /\ sent' = cfg
             /\ UNCHANGED out
          \/ /\ ~S!IsRFVS(m.dp_id)
             /\ StatusAt(i) \notin {None, RFENTRY_IDLE_VM_PORT}
             /\ Done("proxy", cfg)
       /\ UNCHANGED <<rftable, todo>>

DpWrite ==
    LET m == cur["proxy"]
        k == copy["proxy"].id
    IN /\ pc["proxy"] = "dp_write"
       /\ rftable' = IF k = 0
                     THEN SetEntry(rftable, RFTableType, None,
                                   RFEntry(None, None, m.ct_id, m.dp_id,
                                           m.dp_port, None, None, None))
                     ELSE SetEntry(rftable, RFTableType, k,
                                   Associate(copy["proxy"].e, m.dp_id, m.dp_port,
                                             m.ct_id, None))
       /\ Done("proxy", sent)
       /\ UNCHANGED <<todo, up>>

\* The get_dp_entries of set_dp_down: the ports of the datapath's entries,
\* each to be put down by set_dp_port_down in turn.  Without entries the
\* handler goes straight to its ISL loops, empty here, and returns.
\* Mutant: the loop hands set_dp_port_down entry.dp_id for the port.
DownPortsDpId(ix) == [k \in DOMAIN ix |-> rftable[ix[k]].dp_id]

\* The ports of the entries at indices ix, in order.
DownPorts(ix) == [k \in DOMAIN ix |-> rftable[ix[k]].dp_port]

DownList(m) ==
    LET ix == GetDpEntries(rftable, m.ct_id, m.dp_id)
    IN /\ pc["proxy"] = "idle"
       /\ up' = up \ {<<m.ct_id, m.dp_id>>}
       /\ \/ /\ ix = << >>
             /\ Done("proxy", << >>)
             /\ UNCHANGED todo
          \/ /\ ix # << >>
             /\ Begin("proxy", m, "down_read", 0)
             /\ todo' = DownPorts(ix)
             /\ sent' = << >>
             /\ UNCHANGED out
       /\ UNCHANGED rftable

\* The reset set_dp_port_down sends for the entry e it idled: only when
\* the entry had a VM port.
ResetSends(e) == IF e.vm_id # None THEN <<S!ResetVmPort(e.vm_id, e.vm_port)>> ELSE << >>

\* The loop of set_dp_down moves to its next port, or returns after it.
NextPort(o) ==
    IF Tail(todo) = << >>
    THEN Done("proxy", o)
    ELSE /\ pc' = [pc EXCEPT !["proxy"] = "down_read"]
         /\ sent' = o
         /\ UNCHANGED <<cur, copy, out>>

\* set_dp_port_down: get_entry_by_dp_port, fresh for this port.
PortDownRead ==
    LET m == cur["proxy"]
        i == GetEntryByDpPort(rftable, m.ct_id, m.dp_id, Head(todo))
    IN /\ pc["proxy"] = "down_read"
       /\ \/ /\ i = 0
             /\ todo' = Tail(todo)
             /\ NextPort(sent)
          \/ /\ i # 0
             /\ pc' = [pc EXCEPT !["proxy"] = "down_write"]
             /\ copy' = [copy EXCEPT !["proxy"] = FromDict(RFTableType, rftable[i])]
             /\ UNCHANGED <<todo, sent, cur, out>>
       /\ UNCHANGED <<rftable, up>>

\* make_idle(RFENTRY_IDLE_VM_PORT) on the copy, set_entry, reset_vm_port.
PortDownWrite ==
    LET e == copy["proxy"].e
    IN /\ pc["proxy"] = "down_write"
       /\ rftable' = SetEntry(rftable, RFTableType, copy["proxy"].id,
                             MakeIdle(e, RFENTRY_IDLE_VM_PORT))
       /\ todo' = Tail(todo)
       /\ NextPort(sent \o ResetSends(e))
       /\ UNCHANGED up

\* map_port: get_entry_by_vm_port; only an ASSOCIATED entry goes on.
MapRead(m) ==
    LET i == GetEntryByVmPort(rftable, m.vm_id, m.vm_port)
    IN /\ pc["proxy"] = "idle"
       /\ \/ /\ StatusAt(i) = RFENTRY_ASSOCIATED
             /\ Begin("proxy", m, "map_write", i)
             /\ UNCHANGED <<out, sent>>
          \/ /\ StatusAt(i) # RFENTRY_ASSOCIATED
             /\ Done("proxy", << >>)
       /\ UNCHANGED <<rftable, todo, up>>

\* activate on the copy, set_entry, then the DataPlaneMap and MAP_SUCCESS.
MapWrite ==
    LET m == cur["proxy"]
        e == Activate(copy["proxy"].e, m.vs_id, m.vs_port)
    IN /\ pc["proxy"] = "map_write"
       /\ rftable' = SetEntry(rftable, RFTableType, copy["proxy"].id, e)
       /\ Done("proxy", S!MapPortSends(e, m))
       /\ UNCHANGED <<todo, up>>

-----------------------------------------------------------------------------

Init ==
    /\ rftable = << >>
    /\ pc = [t \in Threads |-> "idle"]
    /\ cur = [t \in Threads |-> None]
    /\ copy = [t \in Threads |-> None]
    /\ todo = << >>
    /\ sent = << >>
    /\ out = << >>
    /\ up = {}

\* The client thread's loop and the proxy thread's loop, interleaved.
Next ==
    \/ \E m \in VmPortRegs : VmRead(m)
    \/ VmWrite
    \/ \E m \in DpPortRegs : DpRead(m)
    \/ DpWrite
    \/ \E m \in DpDowns : DownList(m)
    \/ PortDownRead
    \/ PortDownWrite
    \/ \E m \in PlaneMaps : MapRead(m)
    \/ MapWrite

Spec == Init /\ [][Next]_tvars

-----------------------------------------------------------------------------
(* Properties.                                                             *)

Labels == {"idle", "vm_write", "dp_write", "down_read", "down_write", "map_write"}

TypeOK ==
    /\ pc \in [Threads -> Labels]
    /\ \A t \in Threads : pc[t] = "idle" <=> cur[t] = None
    /\ \A t \in Threads : copy[t] # None => copy[t].id \in 0..Len(rftable)
    /\ todo \in Seq({m.dp_port : m \in DpPortRegs})
    /\ up \subseteq {<<m.ct_id, m.dp_id>> : m \in DpPortRegs}

\* No handler is in flight.
Quiescent == \A t \in Threads : pc[t] = "idle"

\* Spec 4.4 (a datapath going down idles all its bindings): once both
\* threads are idle, every entry bound to a datapath port is on a datapath
\* that has registered a port since it last went down.
BoundOnlyWhenUp ==
    Quiescent =>
        \A k \in DOMAIN rftable :
            /\ GetStatus(rftable[k]) \in {RFENTRY_ASSOCIATED, RFENTRY_ACTIVE}
            /\ rftable[k].dp_id # None
            => <<rftable[k].ct_id, rftable[k].dp_id>> \in up

\* Spec 4.3 (a VM port is associated with the datapath port the mapping
\* configuration gives it): without a lock, every entry with both a VM side
\* and a datapath side pairs them as a configuration entry does.  Each side
\* is filled in by the handler that looked the other side up through the
\* configuration, and a copy written back stale still carries the side its
\* own lookup found.
BindingsConfigured ==
    \A k \in DOMAIN rftable :
        rftable[k].vm_id # None /\ rftable[k].dp_id # None =>
            \E c \in DOMAIN Config :
                /\ <<Config[c].vm_id, Config[c].vm_port>>
                     = <<rftable[k].vm_id, rftable[k].vm_port>>
                /\ <<Config[c].ct_id, Config[c].dp_id, Config[c].dp_port>>
                     = <<rftable[k].ct_id, rftable[k].dp_id, rftable[k].dp_port>>

=============================================================================
