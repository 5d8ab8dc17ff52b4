----------------------------- MODULE RFProtocol -----------------------------
(***************************************************************************)
(* The message vocabulary the server and the rule compiler use: channel    *)
(* names, RouteMod and its matches, actions and options (rflib RFProtocol, *)
(* Match, Action, Option and defs, which are not part of the source and   *)
(* are written from the spec).  A match, action or option is a record of   *)
(* its type and value.  A send is the channel, the address (str of a       *)
(* ct_id or vm_id; the id itself is kept, str being injective) and the     *)
(* message.                                                                *)
(***************************************************************************)

RFSERVER_RFPROXY_CHANNEL  == "RFSERVER_RFPROXY"
RFCLIENT_RFSERVER_CHANNEL == "RFCLIENT_RFSERVER"
RMT_ADD == "ADD"
RMT_DELETE == "DELETE"
PCT_RESET == "RESET"
PCT_MAP_SUCCESS == "MAP_SUCCESS"

\* The four priority levels, lowest first.
PRIORITY_LOWEST  == 0
PRIORITY_LOW     == 1
PRIORITY_HIGH    == 2
PRIORITY_HIGHEST == 3

IPV4_MASK_EXACT == "255.255.255.255"
IPV6_MASK_EXACT == "ffff:ffff:ffff:ffff:ffff:ffff:ffff:ffff"

\* Options.
CT_ID(c) == [type |-> "CT_ID", value |-> c]
PRIORITY(p) == [type |-> "PRIORITY", value |-> p]

\* Actions.
OUTPUT(p) == [type |-> "OUTPUT", value |-> p]
SET_ETH_SRC(m) == [type |-> "SET_ETH_SRC", value |-> m]
SET_ETH_DST(m) == [type |-> "SET_ETH_DST", value |-> m]
CONTROLLER == [type |-> "CONTROLLER", value |-> 0]

\* Matches.
ETHERNET(m) == [type |-> "ETHERNET", value |-> m]
IN_PORT(p) == [type |-> "IN_PORT", value |-> p]
ETHERTYPE(t) == [type |-> "ETHERTYPE", value |-> t]
IPV4(a, mask) == [type |-> "IPV4", value |-> <<a, mask>>]
IPV6(a, mask) == [type |-> "IPV6", value |-> <<a, mask>>]
NW_PROTO(p) == [type |-> "NW_PROTO", value |-> p]
TP_SRC(p) == [type |-> "TP_SRC", value |-> p]
TP_DST(p) == [type |-> "TP_DST", value |-> p]

RouteMod(mod, id_) ==
    [type |-> "RouteMod", mod |-> mod, id |-> id_, matches |-> << >>,
     options |-> << >>, actions |-> << >>]

Send(channel, to, m) == [channel |-> channel, to |-> to, msg |-> m]

=============================================================================
