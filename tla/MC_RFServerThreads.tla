------------------------- MODULE MC_RFServerThreads -------------------------
(***************************************************************************)
(* Model-checking instance of RFServerThreads: VM port 2 on port 2 of     *)
(* datapath 0x10 and VM port 3 on port 2 of 0x20 (VMsSamePort), no links; *)
(* the RFVS is 0x99.                                                       *)
(***************************************************************************)
EXTENDS RFServerThreads, MC_RFDocs

ConfigThreads == ConfigEntries(PortGroupsJson, VMsSamePort)
DpPortsThreads == DpPortsOf(ConfigThreads, NoLinks)
VmPortRegsMC == VmPortRegsOf(VmPortsOf(ConfigThreads))
DpPortRegsMC == DpPortRegsOf(DpPortsThreads)
DpDownsMC == DpDownsOf(DpPortsThreads)
PlaneMapsMC == PlaneMapsOf(VmPortsOf(ConfigThreads))

\* States that differ only in the messages sent are explored once: no step
\* reads out, and sent only feeds out.
ThreadsView == <<rftable, pc, cur, copy, todo, up>>

=============================================================================
