------------------------------ MODULE MCGateway -----------------------------
(***************************************************************************)
(* Gateway on small instances.  The one tool is scanned for injections;    *)
(* the seed asks for approval of its calls, and the admin can block or     *)
(* allow it.  With at most two rules, of which one says REQUIRE_APPROVAL,  *)
(* each verdict can become each other one, and deleting both rules makes   *)
(* the next startup seed again.                                            *)
(***************************************************************************)
EXTENDS GatewayRefinement, TLC

CONSTANTS read, path, doc, malformed, c1, c2

MCTool == {read}
MCArgName == {path}
MCToken == {doc}
MCRuleId == {1, 2}

NoCondition == [k \in {} |-> <<>>]
MCCondition == {NoCondition}

Body(type, action) ==
    [rule_type |-> type, tool_name |-> read, condition |-> NoCondition,
     action |-> action, enabled |-> TRUE]

MCSeed == << WithId(Body("require_approval", "REQUIRE_APPROVAL"), 1) >>
MCRuleBody == {Body("block_tool", "DENY"), Body("allow_tool", "ALLOW")}

MCContext == {[tool_name |-> read, arguments |-> NoCondition, token_usage |-> 0]}
=============================================================================
