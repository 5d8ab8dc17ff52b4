---------------------------- MODULE RuleCompiler ----------------------------
(***************************************************************************)
(* parse_rule_cfg of rfserver/rfrule.py as the loop it is: over the four  *)
(* priority levels, a level the document leaves out skipped (the KeyError *)
(* caught by continue), and over the rules of a level, each compiled by    *)
(* RFRule!RFRuleEntries and appended to all_flows.  A rule without          *)
(* "destination" raises KeyError out of create_base_routemod; nothing     *)
(* catches it, so parse_rule_cfg returns nothing.                          *)
(*                                                                         *)
(* The reference is the compilation spec section 4.2 describes, written   *)
(* in closed form: template k of a rule is the pair (TP direction,        *)
(* ethertype) numbered direction-major.                                   *)
(***************************************************************************)
EXTENDS RFRule

CONSTANT Configs   \* the default-rules documents compiled

VARIABLES
    config,     \* the document
    p,          \* the level of the outer loop (5 once it has ended)
    r,          \* the rule of the inner loop
    all_flows,  \* the rule entries compiled so far
    exc         \* None, or "KeyError" once parse_rule_cfg has raised

vars == <<config, p, r, all_flows, exc>>

\* config["default-rules"][pindex[p]] is defined.
LevelPresent ==
    HasKey(config, "default-rules") /\ HasKey(config["default-rules"], pindex[p])

ruleset == config["default-rules"][pindex[p]]

Init ==
    /\ config \in Configs
    /\ p = 1 /\ r = 1
    /\ all_flows = << >>
    /\ exc = None

\* The try around config["default-rules"][pi] catches the KeyError: continue.
SkipLevel ==
    /\ exc = None /\ p <= 4 /\ ~LevelPresent
    /\ p' = p + 1
    /\ UNCHANGED <<config, r, all_flows, exc>>

\* One iteration of "for rule in ruleset".
CompileRule ==
    /\ exc = None /\ p <= 4 /\ LevelPresent /\ r <= Len(ruleset)
    /\ HasKey(ruleset[r], "destination")
    /\ all_flows' = all_flows \o RFRuleEntries(ruleset[r], priorities[p])
    /\ r' = r + 1
    /\ UNCHANGED <<config, p, exc>>

\* create_base_routemod on a rule without "destination".
RaiseKeyError ==
    /\ exc = None /\ p <= 4 /\ LevelPresent /\ r <= Len(ruleset)
    /\ ~HasKey(ruleset[r], "destination")
    /\ exc' = "KeyError"
    /\ UNCHANGED <<config, p, r, all_flows>>

\* The rules of the level are done: on to the next level.
EndLevel ==
    /\ exc = None /\ p <= 4 /\ LevelPresent /\ r > Len(ruleset)
    /\ p' = p + 1 /\ r' = 1
    /\ UNCHANGED <<config, all_flows, exc>>

Next == SkipLevel \/ CompileRule \/ RaiseKeyError \/ EndLevel

Spec == Init /\ [][Next]_vars

-----------------------------------------------------------------------------
(* The reference: spec section 4.2.                                        *)

\* The templates of one rule: the base template (priority, and the
\* CONTROLLER action when the destination is "controller", no action
\* otherwise or when there is none) with, in this order, the ETHERNET
\* match, one ethertype, the IP match, the protocol and one TP direction;
\* one template per pair of a direction and an ethertype.
RefTemplates(rule, priority) ==
    LET m == rule["match"]
        has(k) == HasMatch(rule, k)
        opt(b, x) == IF b THEN <<x>> ELSE << >>
        nE == IF has("dl-type") THEN Len(m["dl-type"]) ELSE 1
        nT == IF has("tp-port") THEN 2 ELSE 1
        colon == \E i \in DOMAIN m["nw-addr"] : m["nw-addr"][i] = ":"
        ip == [type |-> IF colon THEN "IPV6" ELSE "IPV4",
               value |-> <<m["nw-addr"],
                           IF colon THEN IPV6_MASK_EXACT ELSE IPV4_MASK_EXACT>>]
        tp(t) == [type |-> IF t = 1 THEN "TP_SRC" ELSE "TP_DST",
                  value |-> m["tp-port"]]
        matches(t, e) ==
            opt(has("dl-addr"), ETHERNET(m["dl-addr"]))
            \o opt(has("dl-type"), ETHERTYPE(HexToInt(m["dl-type"][e])))
            \o opt(has("nw-addr"), ip)
            \o opt(has("nw-proto"), NW_PROTO(m["nw-proto"]))
            \o opt(has("tp-port"), tp(t))
        controller == HasKey(rule, "destination")
                      /\ rule["destination"] = "controller"
    IN [k \in 1..(nT * nE) |->
          [type |-> "RouteMod", mod |-> RMT_ADD, id |-> None,
           options |-> <<PRIORITY(priority)>>,
           actions |-> opt(controller, CONTROLLER),
           matches |-> matches(((k - 1) \div nE) + 1, ((k - 1) % nE) + 1)]]

\* The compiled document: for every level present, for every rule, its
\* templates tagged with name, priority and vs-only (False by default).
RefCompile(doc) ==
    LET levels == IF HasKey(doc, "default-rules")
                  THEN SelectSeq(pindex, LAMBDA l : HasKey(doc["default-rules"], l))
                  ELSE << >>
        prio(l) == priorities[CHOOSE i \in 1..4 : pindex[i] = l]
        entries(rule, l) ==
            LET ts == RefTemplates(rule, prio(l)) IN
            [k \in DOMAIN ts |->
               [name |-> rule["name"], priority |-> prio(l),
                vs_only |-> IF HasKey(rule, "vs-only") THEN rule["vs-only"] ELSE FALSE,
                routemod |-> ts[k]]]
        perLevel(l) == LET rs == doc["default-rules"][l] IN
                       FlattenSeq([i \in DOMAIN rs |-> entries(rs[i], l)])
    IN FlattenSeq([j \in DOMAIN levels |-> perLevel(levels[j])])

-----------------------------------------------------------------------------
(* Properties.                                                             *)

TypeOK ==
    /\ config \in Configs
    /\ p \in 1..5
    /\ exc \in {None, "KeyError"}
    /\ \A k \in DOMAIN all_flows :
          /\ all_flows[k].priority \in Range(priorities)
          /\ all_flows[k].vs_only \in BOOLEAN
          /\ all_flows[k].routemod.options = <<PRIORITY(all_flows[k].priority)>>

\* Spec 4.2 and scenario 2: when parse_rule_cfg returns, its list is the
\* cross product of the spec, template for template and in order: one per
\* (direction, ethertype) pair of every rule of every level present.
CompilesToCrossProduct == (p = 5) => all_flows = RefCompile(config)

=============================================================================
