---------------------------- MODULE MC_RFServer ----------------------------
(***************************************************************************)
(* Model-checking instance of RFServer.                                    *)
(*                                                                         *)
(* The configuration tables are produced by the ingestion operators from   *)
(* JSON documents: one VM (vm-id "1") whose ports 1 and 2 map to ports 1   *)
(* and 2 of datapath 0x10 and whose port 3 maps to port 2 of datapath     *)
(* 0x20; an inter-switch link joins port 3 of 0x10 to port 1 of 0x20.     *)
(* Datapath 0x99 is the RFVS.  The clients and proxies may send any of the *)
(* messages these ports give rise to, in any order and any number of      *)
(* times (re-registration after a reset, a proxy restart).                 *)
(*                                                                         *)
(* Ghost observers, updated from the message processed and the messages   *)
(* sent: up (ports registered since their datapath last went down),       *)
(* cleared (datapaths sent a flowtable clear since they last went down)   *)
(* and routed (datapaths sent a route since their last clear or down).    *)
(***************************************************************************)
EXTENDS RFServer, MC_RFDocs, FiniteSets

CONSTANTS
    VMsDoc,     \* the "virtual-machines" document
    ISLLinks    \* the "inter-switch-links" document

VARIABLES up, cleared, routed

mcvars == <<vars, up, cleared, routed>>

ConfigMC == StartConfig(("port-groups" :> PortGroupsJson) @@ ("virtual-machines" :> VMsDoc))
\* The runs without links start with no readable ISL configuration file.
ISLConfMC == StartISLConf(IF ISLLinks = NoLinks THEN None
                          ELSE "inter-switch-links" :> ISLLinks)
RulesetMC == StartRuleset(RulesDoc)
VmPorts == VmPortsOf(ConfigMC)
DpPorts == DpPortsOf(ConfigMC, ISLLinks)
VmPortRegsMC == VmPortRegsOf(VmPorts)
DpPortRegsMC == DpPortRegsOf(DpPorts)
DpDownsMC == DpDownsOf(DpPorts)
PlaneMapsMC == PlaneMapsOf(VmPorts)
\* A route ADD for every configured VM port, a DELETE for one, and a
\* RouteMod without an OUTPUT action.
RouteModsMC ==
    { [RouteMod(RMT_ADD, 1) EXCEPT !.matches = <<[type |-> "IPV4", value |-> "net"]>>,
                                   !.actions = <<OUTPUT(p)>>] : p \in VmPorts }
    \cup { [RouteMod(RMT_DELETE, 1) EXCEPT
               !.matches = <<[type |-> "IPV4", value |-> "net"]>>,
               !.actions = <<OUTPUT(Min(VmPorts))>>],
          [RouteMod(RMT_ADD, 1) EXCEPT !.matches = <<[type |-> "IPV4", value |-> "net"]>>] }

-----------------------------------------------------------------------------

RouteSends(o) ==
    { <<s.to, s.msg.id>> : s \in { s \in Range(o) :
        s.msg.type = "RouteMod" /\ \E k \in DOMAIN s.msg.matches :
                                       s.msg.matches[k].type = "IN_PORT" } }
ClearSends(o) ==
    { <<s.to, s.msg.id>> : s \in { s \in Range(o) :
        s.msg.type = "RouteMod" /\ s.msg.mod = RMT_DELETE
        /\ s.msg.options[1] = PRIORITY(PRIORITY_LOWEST) } }
DownDp == IF msg'.type = "DATAPATH_DOWN" THEN {<<msg'.ct_id, msg'.dp_id>>} ELSE {}

ObserveNext ==
    /\ up' = IF msg'.type = "DATAPATH_PORT_REGISTER"
             THEN up \cup {<<msg'.ct_id, msg'.dp_id, msg'.dp_port>>}
             ELSE {x \in up : <<x[1], x[2]>> \notin DownDp}
    /\ cleared' = (cleared \ DownDp) \cup ClearSends(out')
    /\ routed' = (routed \ (DownDp \cup ClearSends(out'))) \cup RouteSends(out')

MCInit == Init /\ up = {} /\ cleared = {} /\ routed = {}
\* Next, each handler followed by the ghost update.
MCNext ==
    \/ \E m \in VmPortRegs : RegisterVmPort(m) /\ WithinBounds /\ ObserveNext
    \/ \E m \in RouteMods : RegisterRouteMod(m) /\ ObserveNext
    \/ \E m \in DpPortRegs : RegisterDpPort(m) /\ WithinBounds /\ ObserveNext
    \/ \E m \in DpDowns : SetDpDown(m) /\ ObserveNext
    \/ \E m \in PlaneMaps : MapPort(m) /\ ObserveNext
MCSpec == MCInit /\ [][MCNext]_mcvars

\* States are told apart by the tables and the ghosts; msg and out only
\* record the last step, and the properties about them are action
\* properties, checked on every transition.
MCView == <<rftable, isltable, up, cleared, routed>>

-----------------------------------------------------------------------------

\* Spec scenario 5: once both ends of a configured ISL have registered (and
\* neither datapath has gone down since), _register_islconf has paired them
\* into two ACTIVE entries, one per direction.
IslPaired ==
    \A k \in DOMAIN ISLLinks :
        LET ends == LinkEnds(ISLLinks[k]) IN
        ends \subseteq up =>
            \A a, b \in ends : a # b =>
                \E i \in DOMAIN isltable :
                    /\ ISLGetStatus(isltable[i]) = RFISL_ACTIVE
                    /\ <<isltable[i].ct_id, isltable[i].dp_id, isltable[i].dp_port>> = a
                    /\ <<isltable[i].rem_ct, isltable[i].rem_id, isltable[i].rem_port>> = b

\* Spec 8.5: register_route_mod never sends a route to a datapath whose flow
\* table config_dp has not cleared since the datapath last went down: the
\* entries set_dp_down idles can no longer route to it.
ClearBeforeRoutes == [][RouteSends(out') \subseteq cleared']_mcvars

\* Spec 4.3.2 ("configure the datapath if not previously configured"):
\* register_dp_port never sends a flowtable clear to a datapath that already
\* holds routes sent since it came up, which would wipe them.
RoutesNotWiped == [][ClearSends(out') \cap routed = {}]_mcvars

=============================================================================
