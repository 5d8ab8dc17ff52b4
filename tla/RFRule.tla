------------------------------- MODULE RFRule -------------------------------
(***************************************************************************)
(* The rule compiler of rfserver/rfrule.py: one rule of the default-rules  *)
(* document turned into its RouteMod templates.                            *)
(*                                                                         *)
(* A JSON object is a function from its keys (strings) to its values, so   *)
(* a key the document leaves out is outside the domain, and rule["k"] on  *)
(* it is the KeyError of the source.  A hex string ("0x800") is the        *)
(* sequence of its digit values and an address is its sequence of         *)
(* characters.                                                             *)
(***************************************************************************)
EXTENDS RFConfig, RFProtocol

\* The priority levels in the order parse_rule_cfg walks them.
priorities == <<PRIORITY_LOWEST, PRIORITY_LOW, PRIORITY_HIGH, PRIORITY_HIGHEST>>
pindex == <<"lowest", "low", "high", "highest">>

HasKey(d, k) == k \in DOMAIN d

\* rule["match"][k] is defined: neither lookup raises the KeyError the
\* parse_l* functions catch.
HasMatch(rule, k) == HasKey(rule, "match") /\ HasKey(rule["match"], k)

\* create_base_routemod: the PRIORITY option and, for "controller", the
\* CONTROLLER action.  rule["destination"] is read unguarded.
CreateBaseRouteMod(rule, priority) ==
    [RouteMod(RMT_ADD, None) EXCEPT
        !.options = <<PRIORITY(priority)>>,
        !.actions = IF rule["destination"] = "controller" THEN <<CONTROLLER>>
                    ELSE << >>]

\* rm.add_match(mt) on every flow.
AddMatch(flows, mt) ==
    [i \in DOMAIN flows |-> [flows[i] EXCEPT !.matches = Append(@, mt)]]

\* The cloning loops of parse_l2 and parse_l4: for each match in turn, a
\* copy of every flow with that match added.
CloneEach(flows, mts) == FlattenSeq([j \in DOMAIN mts |-> AddMatch(flows, mts[j])])

\* parse_l2: the ETHERNET match on every flow, then one copy per ethertype.
ParseL2(rule, flows) ==
    LET withAddr == IF HasMatch(rule, "dl-addr")
                    THEN AddMatch(flows, ETHERNET(rule["match"]["dl-addr"]))
                    ELSE flows
        types == rule["match"]["dl-type"]
    IN IF HasMatch(rule, "dl-type")
       THEN CloneEach(withAddr, [k \in DOMAIN types |-> ETHERTYPE(HexToInt(types[k]))])
       ELSE withAddr

\* parse_l3: an IPv6 match when the address has a colon, IPv4 otherwise,
\* both with the exact mask; then the NW_PROTO match.
ParseL3(rule, flows) ==
    LET addr == rule["match"]["nw-addr"]
        ip == IF \E i \in DOMAIN addr : addr[i] = ":"
              THEN IPV6(addr, IPV6_MASK_EXACT) ELSE IPV4(addr, IPV4_MASK_EXACT)
        withAddr == IF HasMatch(rule, "nw-addr") THEN AddMatch(flows, ip) ELSE flows
    IN IF HasMatch(rule, "nw-proto")
       THEN AddMatch(withAddr, NW_PROTO(rule["match"]["nw-proto"]))
       ELSE withAddr

\* Mutant: the copy loop nested the other way round.
ParseL4FlowsOuter(rule, flows) ==
    LET port == rule["match"]["tp-port"] IN
    IF HasMatch(rule, "tp-port")
    THEN FlattenSeq([i \in DOMAIN flows |->
                        AddMatch(<<flows[i]>>, TP_SRC(port))
                        \o AddMatch(<<flows[i]>>, TP_DST(port))])
    ELSE flows

\* parse_l4: one copy of every flow per direction, TP_SRC first.
ParseL4(rule, flows) ==
    LET port == rule["match"]["tp-port"] IN
    IF HasMatch(rule, "tp-port")
    THEN CloneEach(flows, <<TP_SRC(port), TP_DST(port)>>)
    ELSE flows

\* Mutant: rule.get("vs-only"), None when the key is left out.
VsOnlyGet(rule) == IF HasKey(rule, "vs-only") THEN rule["vs-only"] ELSE None

\* parse_rule_cfg: rule["vs-only"], False when the key is left out.
VsOnly(rule) == IF HasKey(rule, "vs-only") THEN rule["vs-only"] ELSE FALSE

\* RFRuleEntry(name, priority, vs_only, routemod).
RFRuleEntry(name, priority, vs_only, routemod) ==
    [name |-> name, priority |-> priority, vs_only |-> vs_only, routemod |-> routemod]

\* The body of the rule loop of parse_rule_cfg: the rule's flows, each
\* tagged with the rule's name, the level's priority and vs-only.
RFRuleEntries(rule, priority) ==
    LET flows == ParseL4(rule, ParseL3(rule, ParseL2(rule,
                    <<CreateBaseRouteMod(rule, priority)>>)))
    IN [k \in DOMAIN flows |->
          RFRuleEntry(rule["name"], priority, VsOnly(rule), flows[k])]

\* parse_rule_cfg as one expression: the levels in order, a level the
\* document leaves out skipped, the rules of a level compiled in order.
\* RuleCompiler walks the same loop step by step, the raise included; this
\* form is for documents whose rules all have a destination.
ParseRuleCfg(config) ==
    LET present(p) == HasKey(config, "default-rules")
                      /\ HasKey(config["default-rules"], pindex[p])
        level(p) ==
            IF present(p)
            THEN LET rs == config["default-rules"][pindex[p]]
                 IN FlattenSeq([r \in DOMAIN rs |-> RFRuleEntries(rs[r], priorities[p])])
            ELSE << >>
    IN FlattenSeq([p \in 1..4 |-> level(p)])

=============================================================================
