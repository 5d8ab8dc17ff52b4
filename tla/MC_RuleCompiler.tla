-------------------------- MODULE MC_RuleCompiler --------------------------
(***************************************************************************)
(* Model-checking instance of RuleCompiler: every rule built from a small  *)
(* choice for each key of the rule and of its match block, alone at one    *)
(* level; pairs of a few rules at two levels; and the documents without   *)
(* levels.                                                                 *)
(***************************************************************************)
EXTENDS RuleCompiler, TLC

\* The empty JSON object.
Empty == [k \in {} |-> None]

\* Either nothing or the one key k with a value from S.
Opt1(k, S) == {Empty} \cup {k :> v : v \in S}

Ethertypes == { << >>, << <<8, 0, 0>> >>, << <<8, 0, 0>>, <<8, 0, 6>> >> }
V4 == <<"1", "0", ".", "1">>
V6 == <<"f", "e", ":", ":", "1">>

MatchBlocks ==
    { a @@ t @@ n @@ pr @@ tp :
        a \in Opt1("dl-addr", {"aa"}), t \in Opt1("dl-type", Ethertypes),
        n \in Opt1("nw-addr", {V4, V6}), pr \in Opt1("nw-proto", {6}),
        tp \in Opt1("tp-port", {80}) }

\* Rules with every key; Destinations says which "destination" keys occur.
RulesWith(Destinations) ==
    { ("name" :> "r") @@ d @@ v @@ mb :
        d \in Destinations, v \in Opt1("vs-only", BOOLEAN),
        mb \in {Empty} \cup {"match" :> m : m \in MatchBlocks} }

HasDestination == {"destination" :> "controller", "destination" :> "drop"}

\* Spec scenario 2: two ethertypes and a TP port, at priority high when
\* placed at that level.
Scenario2 ==
    ("name" :> "s2") @@ ("destination" :> "controller")
    @@ ("match" :> (("dl-type" :> << <<8, 0, 0>>, <<8, 0, 6>> >>) @@ ("tp-port" :> 80)))

Dropping == ("name" :> "d") @@ ("destination" :> "drop") @@ ("vs-only" :> TRUE)

\* A rule that leaves "destination" out, as spec 4.2 allows.
NoDestination == ("name" :> "n") @@ ("match" :> ("nw-proto" :> 6))

\* One rule at level high; two rules at level lowest with an empty level
\* highest; no levels at all; no "default-rules" key.
ConfigsOf(Rules) ==
    { "default-rules" :> ("high" :> <<rule>>) : rule \in Rules }
    \cup { "default-rules" :> (("lowest" :> <<x, y>>) @@ ("highest" :> << >>)) :
            x, y \in {Scenario2, Dropping} }
    \cup { "default-rules" :> Empty, Empty }

\* Documents some of whose rules leave "destination" out.
ConfigsWithoutDestination ==
    ConfigsOf({Scenario2}) \cup {"default-rules" :> ("low" :> <<Scenario2, NoDestination>>)}

AllConfigs == ConfigsOf(RulesWith(HasDestination)) \cup ConfigsWithoutDestination

=============================================================================
