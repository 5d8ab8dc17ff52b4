------------------------------ MODULE RFServer ------------------------------
(***************************************************************************)
(* The message handlers of rfserver/rfserver.py (class RFServer).          *)
(*                                                                         *)
(* Each action is one call of RFServer.process for one message kind, run   *)
(* to completion: the lookups, the writes to the binding table (rftable)   *)
(* and the ISL table (isltable), and the messages sent, in the order the   *)
(* handler makes them.  This is the serial schedule spec section 5 asks    *)
(* for; RFServerThreads drops it.  msg is the message just processed and   *)
(* out the messages that call sent, both kept for the properties.          *)
(***************************************************************************)
EXTENDS RFRule

CONSTANTS
    Config,        \* RFConfig table: sequence of configuration entries
    ISLConf,       \* RFISLConf table: sequence of ISL configuration entries
    RuleEntries,   \* RFRuleTable: sequence of [name, priority, vs_only, routemod]
    RFVS,          \* the datapath ids is_rfvs recognises
    VmPortRegs,    \* PORT_REGISTER messages the clients may send
    DpPortRegs,    \* DATAPATH_PORT_REGISTER messages the proxies may send
    DpDowns,       \* DATAPATH_DOWN messages
    PlaneMaps,     \* VIRTUAL_PLANE_MAP messages
    RouteMods,     \* ROUTE_MOD messages the clients may send
    MaxEntries,    \* bound on the length of rftable
    MaxISLEntries  \* bound on the length of isltable

VARIABLES rftable, isltable, msg, out

vars == <<rftable, isltable, msg, out>>

-----------------------------------------------------------------------------
\* is_rfvs, the recognition of the virtual switch (not part of the source).
IsRFVS(dp_id) == dp_id \in RFVS

\* RFRuleTable.get_rule_entries(vs_only=...) (not part of the source).
GetRuleEntries(vs_only) == SelectSeq(RuleEntries, LAMBDA r : r.vs_only = vs_only)

\* The register actions of register_vm_port and register_dp_port.
REGISTER_IDLE       == 0
REGISTER_ASSOCIATED == 1
REGISTER_ISL        == 2

-----------------------------------------------------------------------------
(* Start-up: the configuration tables RFServer.__init__ builds.  The      *)
(* documents are taken to pass jsonschema.validate.                        *)

\* self.config = RFConfig(cfg) on the configuration document.
StartConfig(cfg) == ConfigEntries(cfg["port-groups"], cfg["virtual-machines"])

\* self.islconf = RFISLConf(islcfg): islcfg is the ISL configuration
\* document, or '' (None here) when args.islconfig cannot be opened or
\* parsed, which the bare except turns into "no ISL config"; RFISLConf
\* configures only a document.
StartISLConf(islcfg) ==
    IF islcfg = None THEN << >> ELSE ISLConfEntries(islcfg["inter-switch-links"])

\* self.ruleset = RFRuleTable(rules): the table of the entries
\* parse_rule_cfg compiles from the default-rules document (RFRuleTable is
\* not in the source).
StartRuleset(rules) == ParseRuleCfg(rules)

-----------------------------------------------------------------------------
(* config_dp and the sends it makes.                                       *)

ClearFlowtable(ct_id, dp_id) ==
    Send(RFSERVER_RFPROXY_CHANNEL, ct_id,
         [RouteMod(RMT_ADD, dp_id) EXCEPT !.mod = RMT_DELETE,
            !.options = <<PRIORITY(PRIORITY_LOWEST), CT_ID(ct_id)>>])

SendRule(ct_id, dp_id, routemod) ==
    Send(RFSERVER_RFPROXY_CHANNEL, ct_id,
         [routemod EXCEPT !.id = dp_id, !.options = Append(@, CT_ID(ct_id))])

\* Mutant: the rules are sent without the flowtable clear.
ConfigDpNoClear(ct_id, dp_id) ==
    LET rules(vs) == [k \in DOMAIN GetRuleEntries(vs) |->
                        SendRule(ct_id, dp_id, GetRuleEntries(vs)[k].routemod)]
    IN IF IsRFVS(dp_id) THEN rules(TRUE) ELSE rules(FALSE)

\* The messages config_dp sends: the vs-only rules to the RFVS, otherwise a
\* flowtable clear and then the other rules.
ConfigDp(ct_id, dp_id) ==
    LET rules(vs) == [k \in DOMAIN GetRuleEntries(vs) |->
                        SendRule(ct_id, dp_id, GetRuleEntries(vs)[k].routemod)]
    IN IF IsRFVS(dp_id) THEN rules(TRUE)
       ELSE <<ClearFlowtable(ct_id, dp_id)>> \o rules(FALSE)

-----------------------------------------------------------------------------
(* PORT_REGISTER: register_vm_port.                                        *)

RegisterVmPort(m) ==
    LET c == GetConfigForVmPort(Config, m.vm_id, m.vm_port)
        i == IF c = 0 THEN 0
             ELSE GetEntryByDpPort(rftable, Config[c].ct_id, Config[c].dp_id,
                                   Config[c].dp_port)
        action == IF i = 0 THEN REGISTER_IDLE
                  ELSE IF GetStatus(rftable[i]) = RFENTRY_IDLE_DP_PORT
                       THEN REGISTER_ASSOCIATED ELSE None
        idle == RFEntry(m.vm_id, m.vm_port, None, None, None, None, None,
                        m.hwaddress)
    IN /\ msg' = m
       /\ out' = << >>
       /\ UNCHANGED isltable
       /\ \/ /\ action = REGISTER_IDLE
             /\ rftable' = SetEntry(rftable, RFTableType, None, idle)
          \/ /\ action = REGISTER_ASSOCIATED
             /\ rftable' = SetEntry(rftable, RFTableType, i,
                              Associate(EntryAt(rftable, RFTableType, i), m.vm_id,
                                        m.vm_port, None, m.hwaddress))
          \/ /\ action = None
             /\ UNCHANGED rftable

-----------------------------------------------------------------------------
(* DATAPATH_PORT_REGISTER: register_dp_port and _register_islconf.         *)

\* One iteration of the loop of _register_islconf over a matching link.
RegisterISLConf(t, conf, ct_id, dp_id, dp_port) ==
    LET isLocal == conf.rem_id # dp_id \/ conf.rem_ct # ct_id
        i == IF isLocal
             THEN ISLGetEntryByAddr(t, conf.rem_ct, conf.rem_id, conf.rem_port,
                                    conf.rem_eth_addr)
             ELSE ISLGetEntryByAddr(t, conf.ct_id, conf.dp_id, conf.dp_port,
                                    conf.eth_addr)
        eth_addr == IF isLocal THEN conf.eth_addr ELSE conf.rem_eth_addr
        entry == ISLAssociate(EntryAt(t, RFISLTableType, i), ct_id, dp_id, dp_port, eth_addr)
        t1 == SetEntry(t, RFISLTableType, i, entry)
        j == ISLGetEntryByRemote(t1, entry.ct_id, entry.dp_id, entry.dp_port,
                                 entry.eth_addr)
    IN IF i = 0
       THEN SetEntry(t, RFISLTableType, None,
                     RFISLEntry(conf.vm_id, ct_id, dp_id, dp_port, eth_addr,
                                None, None, None, None))
       ELSE IF ISLGetStatus(t[i]) # RFISL_IDLE_DP_PORT THEN t
       ELSE IF j = 0
       THEN SetEntry(t1, RFISLTableType, None,
                     RFISLEntry(entry.vm_id, ct_id, dp_id, dp_port,
                                entry.rem_eth_addr, entry.ct_id, entry.dp_id,
                                entry.dp_port, entry.eth_addr))
       ELSE SetEntry(t1, RFISLTableType, j, ISLAssociate(EntryAt(t1, RFISLTableType, j),
                                                     ct_id, dp_id, dp_port, eth_addr))

\* _register_islconf: the loop over the matching links, in order.
RECURSIVE RegisterISLConfs(_, _, _, _, _)
RegisterISLConfs(t, confs, ct_id, dp_id, dp_port) ==
    IF confs = << >> THEN t
    ELSE RegisterISLConfs(RegisterISLConf(t, Head(confs), ct_id, dp_id, dp_port),
                          Tail(confs), ct_id, dp_id, dp_port)

RegisterDpPort(m) ==
    LET c == GetConfigForDpPort(Config, m.ct_id, m.dp_id, m.dp_port)
        islconfs == GetISLConfsByPort(ISLConf, m.ct_id, m.dp_id, m.dp_port)
        i == IF c = 0 THEN 0
             ELSE GetEntryByVmPort(rftable, Config[c].vm_id, Config[c].vm_port)
        action == IF c = 0 THEN IF islconfs # << >> THEN REGISTER_ISL
                                ELSE REGISTER_IDLE
                  ELSE IF i = 0 THEN REGISTER_IDLE
                  ELSE IF GetStatus(rftable[i]) = RFENTRY_IDLE_VM_PORT
                       THEN REGISTER_ASSOCIATED ELSE None
        idle == RFEntry(None, None, m.ct_id, m.dp_id, m.dp_port, None, None, None)
    IN /\ msg' = m
       /\ out' = ConfigDp(m.ct_id, m.dp_id)
       /\ \/ /\ IsRFVS(m.dp_id)                         \* config_dp stops it
             /\ UNCHANGED <<rftable, isltable>>
          \/ /\ ~IsRFVS(m.dp_id) /\ action = REGISTER_ISL
             /\ isltable' = RegisterISLConfs(isltable, islconfs, m.ct_id,
                                             m.dp_id, m.dp_port)
             /\ UNCHANGED rftable
          \/ /\ ~IsRFVS(m.dp_id) /\ action = REGISTER_IDLE
             /\ rftable' = SetEntry(rftable, RFTableType, None, idle)
             /\ UNCHANGED isltable
          \/ /\ ~IsRFVS(m.dp_id) /\ action = REGISTER_ASSOCIATED
             /\ rftable' = SetEntry(rftable, RFTableType, i,
                              Associate(EntryAt(rftable, RFTableType, i), m.dp_id,
                                        m.dp_port, m.ct_id, None))
             /\ UNCHANGED isltable
          \/ /\ ~IsRFVS(m.dp_id) /\ action = None
             /\ UNCHANGED <<rftable, isltable>>

-----------------------------------------------------------------------------
(* DATAPATH_DOWN: set_dp_down, set_dp_port_down and reset_vm_port.         *)

\* reset_vm_port: a RESET PortConfig to the client of the VM port.
ResetVmPort(vm_id, vm_port) ==
    Send(RFCLIENT_RFSERVER_CHANNEL, vm_id,
         [type |-> "PortConfig", vm_id |-> vm_id, vm_port |-> vm_port,
          operation_id |-> PCT_RESET])

\* set_dp_port_down is called once per entry of the datapath and each call
\* idles the first entry still on that port, so every entry of the
\* datapath is idled and the resets go out in table order.
SetDpDown(m) ==
    LET down == GetDpEntries(rftable, m.ct_id, m.dp_id)
        onDp(e) == e.ct_id = m.ct_id /\ e.dp_id = m.dp_id
        remoteOnDp(e) == e.rem_ct = m.ct_id /\ e.rem_id = m.dp_id
        isl1 == [k \in DOMAIN isltable |->
                   IF onDp(isltable[k])
                   THEN ToDict(RFISLTableType, k, ISLMakeIdle(EntryAt(isltable, RFISLTableType, k),
                                                          RFISL_IDLE_REMOTE))
                   ELSE isltable[k]]
        withVm == SelectSeq([k \in DOMAIN down |-> rftable[down[k]]],
                            LAMBDA e : e.vm_id # None)
    IN /\ msg' = m
       /\ rftable' = [k \in DOMAIN rftable |->
                        IF onDp(rftable[k])
                        THEN ToDict(RFTableType, k, MakeIdle(EntryAt(rftable, RFTableType, k),
                                                         RFENTRY_IDLE_VM_PORT))
                        ELSE rftable[k]]
       /\ isltable' = [k \in DOMAIN isl1 |->
                         IF remoteOnDp(isl1[k])
                         THEN ToDict(RFISLTableType, k, ISLMakeIdle(EntryAt(isl1, RFISLTableType, k),
                                                                RFISL_IDLE_DP_PORT))
                         ELSE isl1[k]]
       /\ out' = [k \in DOMAIN withVm |->
                    ResetVmPort(withVm[k].vm_id, withVm[k].vm_port)]

-----------------------------------------------------------------------------
(* VIRTUAL_PLANE_MAP: map_port.                                            *)

\* The DataPlaneMap to the proxy and the MAP_SUCCESS to the client that
\* map_port sends once it has activated the entry e.
MapPortSends(e, m) ==
    << Send(RFSERVER_RFPROXY_CHANNEL, e.ct_id,
            [type |-> "DataPlaneMap", ct_id |-> e.ct_id, dp_id |-> e.dp_id,
             dp_port |-> e.dp_port, vs_id |-> m.vs_id, vs_port |-> m.vs_port]),
       Send(RFCLIENT_RFSERVER_CHANNEL, e.vm_id,
            [type |-> "PortConfig", vm_id |-> m.vm_id, vm_port |-> m.vm_port,
             operation_id |-> PCT_MAP_SUCCESS]) >>

MapPort(m) ==
    LET i == GetEntryByVmPort(rftable, m.vm_id, m.vm_port)
        e == EntryAt(rftable, RFTableType, i)
    IN /\ msg' = m
       /\ UNCHANGED isltable
       /\ \/ /\ i # 0 /\ GetStatus(e) = RFENTRY_ASSOCIATED
             /\ rftable' = SetEntry(rftable, RFTableType, i, Activate(e, m.vs_id, m.vs_port))
             /\ out' = MapPortSends(e, m)
          \/ /\ ~(i # 0 /\ GetStatus(e) = RFENTRY_ASSOCIATED)
             /\ UNCHANGED rftable
             /\ out' = << >>

-----------------------------------------------------------------------------
(* ROUTE_MOD: register_route_mod and _send_rm_with_matches.                *)

\* An entry of either table as _send_rm_with_matches sees it.
Neighbour(e, status) ==
    [ct_id |-> e.ct_id, dp_port |-> e.dp_port, eth_addr |-> e.eth_addr,
     status |-> status]

\* One copy of rm per ACTIVE neighbour on another port, with the matches
\* ETHERNET and IN_PORT appended for the send and stripped after it.
SendRmWithMatches(rm, out_port, entries) ==
    LET sent == SelectSeq(entries, LAMBDA n :
                    /\ out_port # n.dp_port
                    /\ n.status \in {RFENTRY_ACTIVE, RFISL_ACTIVE})
    IN [k \in DOMAIN sent |->
          Send(RFSERVER_RFPROXY_CHANNEL, sent[k].ct_id,
               [rm EXCEPT !.matches = @ \o <<ETHERNET(sent[k].eth_addr),
                                             IN_PORT(sent[k].dp_port)>>])]

BindingNeighbours(ct_id, dp_id) ==
    LET ix == GetDpEntries(rftable, ct_id, dp_id)
    IN [k \in DOMAIN ix |-> Neighbour(rftable[ix[k]], GetStatus(rftable[ix[k]]))]

ISLNeighbours(ct_id, dp_id) ==
    LET ix == EntriesWhere(isltable, [ct_id |-> ct_id, dp_id |-> dp_id])
    IN [k \in DOMAIN ix |-> Neighbour(isltable[ix[k]],
                                      ISLGetStatus(isltable[ix[k]]))]

\* The rewrite for the datapath of the binding e: id := dp_id, the OUTPUT
\* action at index oi dropped (DELETE) or pointed at dp_port, CT_ID pushed.
RewriteRouteMod(rm, oi, e) ==
    [rm EXCEPT !.id = e.dp_id,
               !.actions = IF rm.mod = RMT_DELETE THEN RemoveAt(@, oi)
                           ELSE [@ EXCEPT ![oi] = OUTPUT(e.dp_port)],
               !.options = Append(@, CT_ID(e.ct_id))]

\* Mutant: the CT_ID of the first datapath is not popped.
CrossISLNoPop(rm, r) ==
    [rm EXCEPT !.options = Append(@, CT_ID(r.ct_id)),
               !.id = r.dp_id,
               !.actions = <<SET_ETH_SRC(r.eth_addr), SET_ETH_DST(r.rem_eth_addr),
                             OUTPUT(r.dp_port)>>]

\* The copy for the remote end r of an ISL: CT_ID popped and pushed for
\* r's controller, id := r's datapath, actions rebuilt from scratch.
CrossISL(rm, r) ==
    [rm EXCEPT !.options = Append(Front(@), CT_ID(r.ct_id)),
               !.id = r.dp_id,
               !.actions = <<SET_ETH_SRC(r.eth_addr), SET_ETH_DST(r.rem_eth_addr),
                             OUTPUT(r.dp_port)>>]

RouteModSends(rm) ==
    LET oi == SelectInSeq(rm.actions, LAMBDA a : a.type = "OUTPUT")
        i == GetEntryByVmPort(rftable, rm.id, rm.actions[oi].value)
        e == rftable[i]
        base == RewriteRouteMod(rm, oi, e)
        remotes == SelectSeq(
                     [k \in DOMAIN ISLGetRemoteEntries(isltable, e.ct_id, e.dp_id)
                        |-> isltable[ISLGetRemoteEntries(isltable, e.ct_id,
                                                         e.dp_id)[k]]],
                     LAMBDA r : ISLGetStatus(r) = RFISL_ACTIVE)
        remoteSends(r) == SendRmWithMatches(CrossISL(base, r), r.dp_port,
                                            BindingNeighbours(r.ct_id, r.dp_id))
    IN IF oi = 0 \/ i = 0 THEN << >>
       ELSE IF GetStatus(e) = RFENTRY_IDLE_VM_PORT THEN << >>
       ELSE SendRmWithMatches(base, e.dp_port,
                              BindingNeighbours(e.ct_id, e.dp_id)
                                \o ISLNeighbours(e.ct_id, e.dp_id))
            \o FlattenSeq([k \in DOMAIN remotes |-> remoteSends(remotes[k])])

RegisterRouteMod(rm) ==
    /\ msg' = rm
    /\ out' = RouteModSends(rm)
    /\ UNCHANGED <<rftable, isltable>>

-----------------------------------------------------------------------------

Init ==
    /\ rftable = << >>
    /\ isltable = << >>
    /\ msg = None
    /\ out = << >>

\* The bounds on the two tables, which only the port registers append to.
WithinBounds == Len(rftable') <= MaxEntries /\ Len(isltable') <= MaxISLEntries

\* RFServer.process: one message of a known type, handled to completion.
\* Messages of other types are answered False and change nothing.
Next ==
    \/ \E m \in VmPortRegs : RegisterVmPort(m) /\ WithinBounds
    \/ \E m \in RouteMods : RegisterRouteMod(m)
    \/ \E m \in DpPortRegs : RegisterDpPort(m) /\ WithinBounds
    \/ \E m \in DpDowns : SetDpDown(m)
    \/ \E m \in PlaneMaps : MapPort(m)

Spec == Init /\ [][Next]_vars

-----------------------------------------------------------------------------
(* Properties.                                                             *)

VmIds == {m.vm_id : m \in VmPortRegs}
VmPortNums == {m.vm_port : m \in VmPortRegs}
CtIds == {m.ct_id : m \in DpPortRegs}
DpIds == {m.dp_id : m \in DpPortRegs}
DpPortNums == {m.dp_port : m \in DpPortRegs}
Macs == {m.hwaddress : m \in VmPortRegs}
       \cup {c.eth_addr : c \in Range(ISLConf)}
       \cup {c.rem_eth_addr : c \in Range(ISLConf)}
Opt(S) == S \cup {None}

TypeOK ==
    /\ \A k \in DOMAIN rftable :
          /\ DOMAIN rftable[k] = PackedAttrs(RFTableType) \cup {"_id"}
          /\ FromDict(RFTableType, rftable[k]) \in
                [id : {k},
                 e : [vm_id : Opt(VmIds), vm_port : Opt(VmPortNums),
                      ct_id : Opt(CtIds), dp_id : Opt(DpIds),
                      dp_port : Opt(DpPortNums),
                      vs_id : Opt({m.vs_id : m \in PlaneMaps}),
                      vs_port : Opt({m.vs_port : m \in PlaneMaps}),
                      eth_addr : Opt(Macs)]]
    /\ \A k \in DOMAIN isltable :
          /\ DOMAIN isltable[k] = PackedAttrs(RFISLTableType) \cup {"_id"}
          /\ FromDict(RFISLTableType, isltable[k]) \in
                [id : {k},
                 e : [vm_id : {c.vm_id : c \in Range(ISLConf)},
                      ct_id : Opt(CtIds), dp_id : Opt(DpIds),
                      dp_port : Opt(DpPortNums), eth_addr : Opt(Macs),
                      rem_ct : Opt(CtIds), rem_id : Opt(DpIds),
                      rem_port : Opt(DpPortNums), rem_eth_addr : Opt(Macs)]]
    /\ msg \in {None} \cup VmPortRegs \cup RouteMods \cup DpPortRegs
                      \cup DpDowns \cup PlaneMaps
    /\ \A k \in DOMAIN out :
          out[k].channel \in {RFSERVER_RFPROXY_CHANNEL, RFCLIENT_RFSERVER_CHANNEL}

\* A port (c, d, p) that _send_rm_with_matches may use as a neighbour: an
\* ACTIVE binding or ACTIVE ISL end there with that MAC.
ActivePortAt(c, d, p, mac) ==
    \/ \E k \in DOMAIN rftable :
          /\ GetStatus(rftable[k]) = RFENTRY_ACTIVE
          /\ rftable[k].ct_id = c /\ rftable[k].dp_id = d
          /\ rftable[k].dp_port = p /\ rftable[k].eth_addr = mac
    \/ \E k \in DOMAIN isltable :
          /\ ISLGetStatus(isltable[k]) = RFISL_ACTIVE
          /\ isltable[k].ct_id = c /\ isltable[k].dp_id = d
          /\ isltable[k].dp_port = p /\ isltable[k].eth_addr = mac

\* A port (c, d, p) a route may output on: the datapath side of a binding
\* that has a VM, or the local end of an ACTIVE ISL.
BoundPortAt(c, d, p) ==
    \/ \E k \in DOMAIN rftable :
          /\ GetStatus(rftable[k]) \in {RFENTRY_ASSOCIATED, RFENTRY_ACTIVE}
          /\ rftable[k].ct_id = c /\ rftable[k].dp_id = d /\ rftable[k].dp_port = p
    \/ \E k \in DOMAIN isltable :
          /\ ISLGetStatus(isltable[k]) = RFISL_ACTIVE
          /\ isltable[k].ct_id = c /\ isltable[k].dp_id = d /\ isltable[k].dp_port = p

OfType(s, t) == SelectSeq(s, LAMBDA x : x.type = t)

\* Spec 8.4 and 4.5: every RouteMod a step of the server sends carries exactly one
\* CT_ID option, that of the proxy it is addressed to; and a route copy made
\* by register_route_mod (the one kind with an IN_PORT match) ends with
\* exactly one ETHERNET/IN_PORT pair naming an ACTIVE port of the datapath
\* it is sent to, and outputs only on a different, bound port of that
\* datapath.  This is what the option stack (CT_ID pushed, popped and
\* pushed again across an ISL) and the match push/strip must preserve.
RouteModsAddressedNow ==
    \A k \in DOMAIN out :
        LET s == out[k]
            rm == s.msg
            ins == OfType(rm.matches, "IN_PORT")
        IN rm.type = "RouteMod" =>
           /\ OfType(rm.options, "CT_ID") = <<CT_ID(s.to)>>
           /\ Len(ins) <= 1
           /\ Len(ins) = 1 =>
                LET n == ins[1].value
                    eth == rm.matches[Len(rm.matches) - 1]
                IN /\ rm.matches[Len(rm.matches)] = IN_PORT(n)
                   /\ eth.type = "ETHERNET"
                   /\ ActivePortAt(s.to, rm.id, n, eth.value)
                   /\ \A a \in Range(OfType(rm.actions, "OUTPUT")) :
                         a.value # n /\ BoundPortAt(s.to, rm.id, a.value)

RouteModsAddressed == [][RouteModsAddressedNow']_vars

\* map_port and register_route_mod act on the first entry of a VM port:
\* whenever some entry binds the VM port to a datapath, the first entry
\* for it is bound too, so the lookup never lands on a stale duplicate.
LookupFindsBinding ==
    \A k \in DOMAIN rftable :
        /\ rftable[k].vm_id # None
        /\ GetStatus(rftable[k]) \in {RFENTRY_ASSOCIATED, RFENTRY_ACTIVE}
        => LET first == FirstEntry(rftable, [vm_id |-> rftable[k].vm_id,
                                             vm_port |-> rftable[k].vm_port])
           IN GetStatus(rftable[first]) \in {RFENTRY_ASSOCIATED, RFENTRY_ACTIVE}

\* Spec 3, global invariant (i): at most one binding entry per VM port and
\* per datapath port.
BindingUnique ==
    \A j, k \in DOMAIN rftable : j < k =>
        LET a == rftable[j]
            b == rftable[k]
        IN /\ a.vm_id # None /\ b.vm_id # None =>
                 <<a.vm_id, a.vm_port>> # <<b.vm_id, b.vm_port>>
           /\ a.dp_id # None /\ b.dp_id # None =>
                 <<a.ct_id, a.dp_id, a.dp_port>> # <<b.ct_id, b.dp_id, b.dp_port>>

\* Spec 8.1 and the table of section 3: an entry get_status calls ASSOCIATED
\* or ACTIVE has both its VM side and its datapath side.
StatusMatchesFields ==
    \A k \in DOMAIN rftable :
        GetStatus(rftable[k]) \in {RFENTRY_ASSOCIATED, RFENTRY_ACTIVE} =>
            /\ rftable[k].vm_id # None /\ rftable[k].vm_port # None
            /\ rftable[k].ct_id # None /\ rftable[k].dp_id # None
            /\ rftable[k].dp_port # None

\* Spec 8.2: every ACTIVE ISL entry has an ACTIVE mirror whose local end is
\* its remote end and whose remote end is its local end.
ISLMirrored ==
    \A j \in DOMAIN isltable :
        LET a == isltable[j] IN
        ISLGetStatus(a) = RFISL_ACTIVE =>
            \E k \in DOMAIN isltable :
                LET b == isltable[k] IN
                /\ ISLGetStatus(b) = RFISL_ACTIVE
                /\ <<b.ct_id, b.dp_id, b.dp_port, b.eth_addr>>
                     = <<a.rem_ct, a.rem_id, a.rem_port, a.rem_eth_addr>>
                /\ <<b.rem_ct, b.rem_id, b.rem_port, b.rem_eth_addr>>
                     = <<a.ct_id, a.dp_id, a.dp_port, a.eth_addr>>

\* Spec 8.2 and the ISL status table: an ISL entry get_status calls ACTIVE
\* has both its local end and its remote end.
ISLStatusMatchesFields ==
    \A k \in DOMAIN isltable :
        ISLGetStatus(isltable[k]) = RFISL_ACTIVE =>
            /\ isltable[k].ct_id # None /\ isltable[k].dp_id # None
            /\ isltable[k].dp_port # None /\ isltable[k].rem_ct # None
            /\ isltable[k].rem_id # None /\ isltable[k].rem_port # None

=============================================================================
