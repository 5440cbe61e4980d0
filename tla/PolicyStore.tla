---------------------------- MODULE PolicyStore -----------------------------
(***************************************************************************)
(* The policy_rules table and everything that writes it: the three routes  *)
(* of backend/main.py (POST, PATCH and DELETE on /policies/rules) and the  *)
(* seeding a process does at startup.  A route is one transaction of       *)
(* SQLite, so one step here.                                               *)
(*                                                                         *)
(* rules is the list load_rules() returns, in insertion order.             *)
(***************************************************************************)
EXTENDS PolicyEngine

CONSTANTS Seed,      \* the rules of policy_rules.yaml
          RuleBody,  \* the bodies POST /policies/rules is called with
          MaxRules   \* bound: POST is not called on a table this long

ASSUME SeedAssumption ==
    Seed \in Seq(Rule) /\ \A i, j \in DOMAIN Seed : Seed[i].id = Seed[j].id => i = j
ASSUME RuleBodyAssumption ==
    RuleBody \subseteq [rule_type: RuleType, tool_name: Tool, condition: Condition,
                        action: Action, enabled: BOOLEAN]

VARIABLE rules

RulesTypeOK == rules \in Seq(Rule)

Ids == {rules[i].id : i \in DOMAIN rules}

\* Mutant: the validator only asks for the key, not for a value of its type.
AcceptedIfPresent(body) ==
    CASE body.rule_type = "input_validation" -> Has(body.condition, "prefix")
      [] body.rule_type = "token_budget" -> Has(body.condition, "max_tokens")
      [] OTHER -> DOMAIN body.condition = {}

\* PolicyRuleCreate._validate_condition_shape.
Accepted(body) ==
    CASE body.rule_type = "input_validation" ->
           Has(body.condition, "prefix") /\ body.condition["prefix"] # Malformed
      [] body.rule_type = "token_budget" ->
           Has(body.condition, "max_tokens") /\ body.condition["max_tokens"] # Malformed
      [] OTHER -> DOMAIN body.condition = {}

\* The rules of policy_rules.yaml, which no validator sees, have the shape of those
\* it accepts.
ASSUME SeedShapeAssumption == \A i \in DOMAIN Seed : Accepted(Seed[i])

\* uuid4: an id no row has.
WithId(body, id) ==
    [id |-> id, rule_type |-> body.rule_type, tool_name |-> body.tool_name,
     condition |-> body.condition, action |-> body.action, enabled |-> body.enabled]

CreatePolicyRule(body) ==
    /\ Len(rules) < MaxRules
    /\ Accepted(body)
    /\ \E id \in RuleId \ Ids : rules' = Append(rules, WithId(body, id))

TogglePolicyRule(id, enabled) ==
    \E i \in DOMAIN rules :
        /\ rules[i].id = id
        /\ rules' = [rules EXCEPT ![i].enabled = enabled]

DeletePolicyRule(id) ==
    \E i \in DOMAIN rules :
        /\ rules[i].id = id
        /\ rules' = RemoveAt(rules, i)

SeedPolicyRulesIfEmpty == rules' = IF rules = <<>> THEN Seed ELSE rules

EditRules ==
    \/ \E body \in RuleBody : CreatePolicyRule(body)
    \/ \E id \in RuleId, enabled \in BOOLEAN : TogglePolicyRule(id, enabled)
    \/ \E id \in RuleId : DeletePolicyRule(id)

\* The table as the first startup leaves it.
InitRules == rules = Seed

NextRules == EditRules \/ SeedPolicyRulesIfEmpty

SpecRules == InitRules /\ [][NextRules]_rules

-----------------------------------------------------------------------------
Enabled(rs) == {rs[i] : i \in {j \in DOMAIN rs : rs[j].enabled}}

Severity(action) == CHOOSE n \in 1..3 : Precedence[4 - n] = action

\* No two rows have the same primary key: seeding never meets rows it already
\* wrote (main.py:41), and POST gives its row a fresh one.
UniqueIds == \A i, j \in DOMAIN rules : rules[i].id = rules[j].id => i = j

\* Among the rules POST accepts, only one whose "arg" cannot be a dict key can
\* throw in _matches(): the validator (main.py:165) mirrors the engine.
OnlyArgThrows ==
    \A i \in DOMAIN rules, ctx \in Context :
        Raises(rules[i], ctx) => ArgOf(rules[i]) = Malformed

\* What evaluate() relies on holds of every table the routes and the seeding can
\* leave behind.
TableIsSound == RulesTypeOK /\ UniqueIds /\ OnlyArgThrows

\* Fail closed (POLICY-05): a call is allowed only if a rule of its tool that
\* is enabled says ALLOW, and then every enabled rule of its tool whose test
\* throws, or is met, says so too.
FailClosed ==
    \A ctx \in Context : Evaluate(ctx, rules) = "ALLOW" =>
        /\ \E rule \in Enabled(rules) : rule.action = "ALLOW" /\ Matches(rule, ctx)
        /\ \A rule \in Enabled(rules) : /\ ~Raises(rule, ctx)
                                        /\ Matches(rule, ctx) => rule.action = "ALLOW"

\* The decision does not depend on the order SQLite returns the rows in
\* (load_rules has no ORDER BY): precedence, never first match (POLICY-02).
OrderIndependent ==
    \A ctx \in Context : Evaluate(ctx, Reverse(rules)) = Evaluate(ctx, rules)

\* The table with every rule but those whose ids are given switched off.
Only(ids, rs) == [i \in DOMAIN rs |-> [rs[i] EXCEPT !.enabled = @ /\ rs[i].id \in ids]]

\* The matched_rule_ids that are logged with a decision explain it: those rules
\* alone give the decision again.
ExplanationSuffices ==
    \A ctx \in Context :
        Evaluate(ctx, Only(MatchedRuleIds(ctx, rules), rules)) = Evaluate(ctx, rules)

Tightens ==
    \A ctx \in Context :
        /\ Enabled(rules) \subseteq Enabled(rules')
        /\ Votes(ctx, rules) # {}
        => Severity(Evaluate(ctx, rules')) >= Severity(Evaluate(ctx, rules))

\* Adding or enabling rules never makes a decision some rule took part in more
\* permissive.  (Where no rule did, the default DENY may give way.)
OnlyTightens == [][Tightens]_rules
=============================================================================
