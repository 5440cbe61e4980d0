--------------------------- MODULE MCPolicyStore ----------------------------
(***************************************************************************)
(* PolicyStore on a table of at most three rules for two tools.  The       *)
(* bodies hold every rule type, rules of the three actions for one tool,   *)
(* a rule about the other tool, and conditions of each malformed kind.     *)
(***************************************************************************)
EXTENDS PolicyStore, TLC

CONSTANTS read, write, path, other, pub, doc, malformed

MCTool == {read, write}
MCArgName == {path, other}
MCToken == {pub, doc}
MCRuleId == 1..3

NoCondition == [k \in {} |-> <<>>]
PrefixPub == "prefix" :> <<pub>>
PrefixMalformed == "prefix" :> malformed
PrefixOfNoArg == ("prefix" :> <<pub>>) @@ ("arg" :> malformed)
Budget == "max_tokens" :> 2
BudgetMalformed == "max_tokens" :> malformed

MCCondition == {NoCondition, PrefixPub, PrefixMalformed, PrefixOfNoArg, Budget, BudgetMalformed}

Body(type, tool, condition, action, enabled) ==
    [rule_type |-> type, tool_name |-> tool, condition |-> condition,
     action |-> action, enabled |-> enabled]

MCRuleBody ==
    { Body("allow_tool", read, NoCondition, "ALLOW", TRUE),
      Body("allow_tool", write, NoCondition, "ALLOW", FALSE),
      Body("block_tool", read, NoCondition, "DENY", FALSE),
      Body("require_approval", read, NoCondition, "REQUIRE_APPROVAL", TRUE),
      Body("require_approval", read, Budget, "REQUIRE_APPROVAL", TRUE),
      Body("input_validation", read, PrefixPub, "DENY", TRUE),
      Body("input_validation", read, PrefixMalformed, "ALLOW", TRUE),
      Body("input_validation", read, PrefixOfNoArg, "ALLOW", TRUE),
      Body("input_validation", read, NoCondition, "ALLOW", TRUE),
      Body("token_budget", read, Budget, "REQUIRE_APPROVAL", TRUE),
      Body("token_budget", read, BudgetMalformed, "ALLOW", TRUE) }

MCSeed == << WithId(Body("input_validation", read, PrefixPub, "REQUIRE_APPROVAL", TRUE), 1),
             WithId(Body("allow_tool", read, NoCondition, "ALLOW", TRUE), 2) >>

MCContext ==
    { [tool_name |-> t, arguments |-> a, token_usage |-> n] :
        t \in MCTool, n \in {1, 2},
        a \in {NoCondition, path :> <<pub, doc>>, path :> <<doc, pub>>, other :> <<pub>>} }
=============================================================================
