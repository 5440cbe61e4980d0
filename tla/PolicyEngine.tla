---------------------------- MODULE PolicyEngine ----------------------------
(***************************************************************************)
(* The decision function of backend/policy_engine.py: which of ALLOW, DENY *)
(* and REQUIRE_APPROVAL a list of rules gives one tool call.  The module   *)
(* is pure (no VARIABLES): the rule table is PolicyStore's and the caller  *)
(* is Gateway.                                                             *)
(*                                                                         *)
(* Strings matter to the engine only through equality and startswith(), so *)
(* tool and argument names are elements of sets and an argument's value is *)
(* a sequence of tokens, of which a prefix is an initial subsequence.      *)
(***************************************************************************)
EXTENDS Naturals, SequencesExt

CONSTANTS Tool,       \* tool names
          ArgName,    \* names of tool arguments
          PathArg,    \* the default of condition.get("arg", "path")
          Token,      \* the pieces a path-like argument is made of
          Condition,  \* the JSON objects a rule's condition column can hold
          Malformed,  \* a JSON value of the wrong type for the key it is under
          RuleId,     \* primary keys of policy_rules
          Context     \* the PolicyContexts tool calls are decided in

ASSUME PathArgAssumption == PathArg \in ArgName
ASSUME MalformedAssumption == Malformed \notin Seq(Token) \cup Nat \cup ArgName

Action == {"ALLOW", "DENY", "REQUIRE_APPROVAL"}

\* Most restrictive first.
Precedence == <<"DENY", "REQUIRE_APPROVAL", "ALLOW">>

ToolRuleType == {"allow_tool", "block_tool", "require_approval"}
RuleType == ToolRuleType \cup {"input_validation", "token_budget"}

Rule == [id: RuleId, rule_type: RuleType, tool_name: Tool,
         condition: Condition, action: Action, enabled: BOOLEAN]

\* arguments is a function from the arguments the call has to their values.
ASSUME ContextAssumption ==
    \A ctx \in Context : /\ ctx.tool_name \in Tool
                         /\ DOMAIN ctx.arguments \subseteq ArgName
                         /\ ctx.token_usage \in Nat

Has(condition, key) == key \in DOMAIN condition

ArgOf(rule) == IF Has(rule.condition, "arg") THEN rule.condition["arg"] ELSE PathArg

ValueOf(arg, ctx) == IF arg \in DOMAIN ctx.arguments THEN ctx.arguments[arg] ELSE <<>>

\* _matches() throws: the condition lacks the key it reads, or the value there
\* cannot be used (a prefix that is no string, a bound that is no number, an
\* argument name that cannot be looked up in a dict).
Raises(rule, ctx) ==
    /\ rule.tool_name = ctx.tool_name
    /\ \/ /\ rule.rule_type = "input_validation"
          /\ \/ ~Has(rule.condition, "prefix")
             \/ rule.condition["prefix"] = Malformed
             \/ ArgOf(rule) = Malformed
       \/ /\ rule.rule_type = "token_budget"
          /\ \/ ~Has(rule.condition, "max_tokens")
             \/ rule.condition["max_tokens"] = Malformed

Matches(rule, ctx) ==
    /\ rule.tool_name = ctx.tool_name
    /\ ~Raises(rule, ctx)
    /\ \/ rule.rule_type \in ToolRuleType
       \/ /\ rule.rule_type = "input_validation"
          /\ ~IsPrefix(rule.condition["prefix"], ValueOf(ArgOf(rule), ctx))
       \/ /\ rule.rule_type = "token_budget"
          /\ ctx.token_usage >= rule.condition["max_tokens"]

\* Mutant: a rule that throws is skipped.
CountsIfMet(rule, ctx) == rule.enabled /\ Matches(rule, ctx)

\* The rule takes part in the decision ...
Counts(rule, ctx) == rule.enabled /\ (Raises(rule, ctx) \/ Matches(rule, ctx))

\* ... with this action: a rule that throws counts as a DENY.
Vote(rule, ctx) == IF Raises(rule, ctx) THEN "DENY" ELSE rule.action

Votes(ctx, rules) == {Vote(rules[i], ctx) : i \in {j \in DOMAIN rules : Counts(rules[j], ctx)}}

\* Mutant: the least restrictive action wins.
LastPresent(present) ==
    Precedence[CHOOSE i \in 1..3 : /\ Precedence[i] \in present
                                   /\ \A j \in (i + 1)..3 : Precedence[j] \notin present]

\* next(a for a in _PRECEDENCE if a in actions_present)
FirstPresent(present) ==
    Precedence[CHOOSE i \in 1..3 : /\ Precedence[i] \in present
                                   /\ \A j \in 1..(i - 1) : Precedence[j] \notin present]

\* Mutant: the first rule that counts decides.
FirstMatch(ctx, rules) ==
    IF Votes(ctx, rules) = {} THEN "DENY"
    ELSE Vote(rules[CHOOSE i \in DOMAIN rules :
                      /\ Counts(rules[i], ctx)
                      /\ \A j \in 1..(i - 1) : ~Counts(rules[j], ctx)], ctx)

\* evaluate(ctx, rules).action
Evaluate(ctx, rules) ==
    IF Votes(ctx, rules) = {} THEN "DENY" ELSE FirstPresent(Votes(ctx, rules))

\* Mutant: only the rules whose test was met are cited.
CitedIfMet(ctx, rules) == {rules[i].id : i \in {j \in DOMAIN rules : CountsIfMet(rules[j], ctx)}}

\* The members of evaluate(ctx, rules).matched_rule_ids, which is in table order.
MatchedRuleIds(ctx, rules) == {rules[i].id : i \in {j \in DOMAIN rules : Counts(rules[j], ctx)}}
=============================================================================
