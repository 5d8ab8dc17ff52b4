------------------------------ MODULE MC_RFDocs ------------------------------
(***************************************************************************)
(* The documents the model-checking instances of the server are started   *)
(* with: the port groups and virtual machines of the mapping config, the   *)
(* inter-switch links, and the default rules, compiled by the rule        *)
(* compiler (RFRule).  Datapath 0x99 is the RFVS.                          *)
(***************************************************************************)
EXTENDS RFRule

PortGroupsJson ==
    << [name |-> "pg1", dp_id |-> <<1, 0>>, port_offset |-> 1, num_ports |-> 2,
        controller |-> None],
       [name |-> "pg1a", dp_id |-> <<1, 0>>, port_offset |-> 1, num_ports |-> 1,
        controller |-> None],
       [name |-> "pg1b", dp_id |-> <<1, 0>>, port_offset |-> 2, num_ports |-> 1,
        controller |-> None],
       [name |-> "pg2", dp_id |-> <<2, 0>>, port_offset |-> 2, num_ports |-> 1,
        controller |-> None] >>

\* VM ports 1 and 2 on ports 1 and 2 of datapath 0x10, VM port 3 on port 2
\* of datapath 0x20.
VMsThreePorts ==
    << [vm_id |-> <<1>>,
        mappings |-> << [port_group |-> "pg1", num_ports |-> 2, port_offset |-> 1],
                        [port_group |-> "pg2", num_ports |-> 1, port_offset |-> 3] >>] >>

\* VM port 1 on port 1 of 0x10 and VM port 3 on port 2 of 0x20; the first
\* mapping disagrees with its group's num-ports and is skipped.
VMsTwoPorts ==
    << [vm_id |-> <<1>>,
        mappings |-> << [port_group |-> "pg1", num_ports |-> 1, port_offset |-> 2],
                        [port_group |-> "pg1a", num_ports |-> 1, port_offset |-> 1],
                        [port_group |-> "pg2", num_ports |-> 1, port_offset |-> 3] >>] >>

\* VM port 2 on port 2 of 0x10 and VM port 3 on port 2 of 0x20: two VM
\* ports on the same port number of two datapaths.
VMsSamePort ==
    << [vm_id |-> <<1>>,
        mappings |-> << [port_group |-> "pg1b", num_ports |-> 1, port_offset |-> 2],
                        [port_group |-> "pg2", num_ports |-> 1, port_offset |-> 3] >>] >>

\* Both ends under controller 0, as the documented example has it.
LinksOneController ==
    << [datapaths |-> << <<1, 0>>, <<2, 0>> >>, ports |-> <<3, 1>>,
        dl_addrs |-> <<"ea", "eb">>, controllers |-> <<0, 0>>, vm_id |-> "1"] >>

\* No inter-switch links at all.
NoLinks == << >>

\* The two ends of every link, as the proxies of their controllers report them.
LinkEnds(l) ==
    { <<l.controllers[1], HexToInt(l.datapaths[1]), l.ports[1]>>,
      <<l.controllers[2], HexToInt(l.datapaths[2]), l.ports[2]>> }

RFVSId == 153   \* 0x99
MacOf(p) == CASE p = 1 -> "m1" [] p = 2 -> "m2" [] OTHER -> "m3"

\* The default rules, compiled by the rule compiler: an ARP rule to the
\* controller for the datapaths and a catch-all for the RFVS.
ArpRule == ("name" :> "arp") @@ ("destination" :> "controller")
           @@ ("match" :> ("dl-type" :> << <<8, 0, 6>> >>))
VsRule == ("name" :> "vs") @@ ("destination" :> "controller") @@ ("vs-only" :> TRUE)
RulesDoc == "default-rules" :> ("high" :> <<ArpRule, VsRule>>)
RuleEntriesMC == ParseRuleCfg(RulesDoc)

-----------------------------------------------------------------------------
(* The messages the clients and proxies may send for a configuration cfg  *)
(* (a table of ConfigEntries) and a links document.                       *)

VmPortsOf(cfg) == {cfg[k].vm_port : k \in DOMAIN cfg}

\* The configured datapath ports, the link ends and port 1 of the RFVS.
DpPortsOf(cfg, links) ==
    { <<cfg[k].ct_id, cfg[k].dp_id, cfg[k].dp_port>> : k \in DOMAIN cfg }
    \cup UNION { LinkEnds(links[k]) : k \in DOMAIN links }
    \cup { <<0, RFVSId, 1>> }

VmPortRegsOf(vmPorts) ==
    { [type |-> "PORT_REGISTER", vm_id |-> 1, vm_port |-> p, hwaddress |-> MacOf(p)] :
        p \in vmPorts }
DpPortRegsOf(dpPorts) ==
    { [type |-> "DATAPATH_PORT_REGISTER", ct_id |-> d[1], dp_id |-> d[2],
       dp_port |-> d[3]] : d \in dpPorts }
DpDownsOf(dpPorts) ==
    { [type |-> "DATAPATH_DOWN", ct_id |-> d[1], dp_id |-> d[2]] : d \in dpPorts }
PlaneMapsOf(vmPorts) ==
    { [type |-> "VIRTUAL_PLANE_MAP", vm_id |-> 1, vm_port |-> p, vs_id |-> RFVSId,
       vs_port |-> p] : p \in vmPorts }

=============================================================================
