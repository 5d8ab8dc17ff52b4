------------------------------ MODULE RFConfig ------------------------------
(***************************************************************************)
(* Configuration ingestion: RFConfig.configure and RFISLConf.configure of  *)
(* rfserver/rftable.py, and the lookups the server makes on their tables.  *)
(*                                                                         *)
(* The JSON documents are sequences of records.  A hexadecimal id string   *)
(* ("dp-id", "vm-id", "datapaths") is the sequence of its digit values,   *)
(* most significant first, and int(s, 16) is evaluated on it.  A key the   *)
(* document leaves out ("controller", "controllers") holds None.  Each    *)
(* entry is stored by set_entry, so the tables hold to_dict's dicts.       *)
(***************************************************************************)
EXTENDS RFTable

\* int(s, 16) on the digit values of s.
HexToInt(digits) ==
    LET val[n \in 0..Len(digits)] ==
            IF n = 0 THEN 0 ELSE 16 * val[n - 1] + digits[n]
    IN val[Len(digits)]

\* RFConfig.configure: one entry per port of every mapping whose num-ports
\* agrees with its port group's; dp_port counts up from the group's offset
\* as vm_port counts up from the mapping's.  The port_groups dict keeps the
\* last group of each name.
ConfigEntries(portGroups, vms) ==
    LET group(name) ==
            portGroups[SelectLastInSeq(portGroups, LAMBDA g : g.name = name)]
        ctOf(g) == IF g.controller = None THEN 0 ELSE g.controller
        expand(vm, pm) ==
            LET g == group(pm.port_group) IN
            IF g.num_ports # pm.num_ports THEN << >>
            ELSE [i \in 1..pm.num_ports |->
                    RFConfigEntry(HexToInt(vm.vm_id), pm.port_offset + (i - 1),
                                  ctOf(g), HexToInt(g.dp_id),
                                  g.port_offset + (i - 1))]
        perVm(vm) == FlattenSeq([k \in DOMAIN vm.mappings |->
                                    expand(vm, vm.mappings[k])])
    IN SetEntries(<< >>, RFCONFIGENTRY, FlattenSeq([k \in DOMAIN vms |-> perVm(vms[k])]))

\* RFISLConf.configure: one entry per link.  Both controllers are read from
\* controllers[0]; without the key both are 0.  vm-id is stored as given.
ISLConfEntries(links) ==
    SetEntries(<< >>, RFISLCONFENTRY, [k \in DOMAIN links |->
        LET l == links[k]
            ct1 == IF l.controllers = None THEN 0 ELSE l.controllers[1]
            ct2 == IF l.controllers = None THEN 0 ELSE l.controllers[1]
        IN RFISLConfEntry(l.vm_id, ct1, HexToInt(l.datapaths[1]), l.ports[1],
                          l.dl_addrs[1], ct2, HexToInt(l.datapaths[2]),
                          l.ports[2], l.dl_addrs[2])])

\* RFConfig.get_config_for_vm_port / get_config_for_dp_port: first match.
GetConfigForVmPort(cfg, vm_id, vm_port) ==
    FirstEntry(cfg, [vm_id |-> vm_id, vm_port |-> vm_port])

GetConfigForDpPort(cfg, ct_id, dp_id, dp_port) ==
    FirstEntry(cfg, [ct_id |-> ct_id, dp_id |-> dp_id, dp_port |-> dp_port])

\* RFISLConf.get_entries_by_port: links whose local end is the port, then
\* links whose remote end is.
GetISLConfsByPort(isl, ct, id_, port) ==
    LET local(c)  == c.ct_id = ct /\ c.dp_id = id_ /\ c.dp_port = port
        remote(c) == c.rem_ct = ct /\ c.rem_id = id_ /\ c.rem_port = port
    IN SelectSeq(isl, local) \o SelectSeq(isl, remote)

=============================================================================
