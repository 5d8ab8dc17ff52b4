\* Every rule shape compiles to the cross product of spec 4.2, or raises.
CONSTANTS
    None = None
    Configs <- AllConfigs
SPECIFICATION Spec
\* parse_rule_cfg returns once the four levels are walked, or raises.
CHECK_DEADLOCK FALSE
INVARIANT TypeOK
INVARIANT CompilesToCrossProduct
