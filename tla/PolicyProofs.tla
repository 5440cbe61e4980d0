---------------------------- MODULE PolicyProofs ----------------------------
(***************************************************************************)
(* Theorems about the decision function and the rule table, for every set  *)
(* of tools, rules and contexts and tables of any length.                  *)
(***************************************************************************)
EXTENDS PolicyStore, SequenceTheorems, TLAPS

(***************************************************************************)
(* The reduction by precedence.                                            *)
(***************************************************************************)

\* The winner is one of the actions present, and the most severe of them.
LEMMA FirstPresentIsMostSevere ==
    ASSUME NEW S, S \subseteq Action, S # {}
    PROVE  /\ FirstPresent(S) \in S
           /\ "DENY" \in S => FirstPresent(S) = "DENY"
           /\ "DENY" \notin S /\ "REQUIRE_APPROVAL" \in S =>
                FirstPresent(S) = "REQUIRE_APPROVAL"
           /\ FirstPresent(S) = "ALLOW" => S = {"ALLOW"}
<1> DEFINE First(i) == /\ Precedence[i] \in S
                       /\ \A j \in 1..(i - 1) : Precedence[j] \notin S
<1>1. Precedence[1] = "DENY" /\ Precedence[2] = "REQUIRE_APPROVAL" /\ Precedence[3] = "ALLOW"
  BY DEF Precedence
<1>2. FirstPresent(S) = Precedence[CHOOSE i \in 1..3 : First(i)]
  BY DEF FirstPresent
<1>3. CASE "DENY" \in S
  <2>1. First(1)
    BY <1>1, <1>3
  <2>2. \A i \in 1..3 : First(i) => i = 1
    BY <1>1, <1>3
  <2>3. (CHOOSE i \in 1..3 : First(i)) = 1
    <3> HIDE DEF First
    <3> QED BY <2>1, <2>2
  <2> HIDE DEF First
  <2> QED BY <1>1, <1>2, <1>3, <2>3
<1>4. CASE "DENY" \notin S /\ "REQUIRE_APPROVAL" \in S
  <2>1. First(2)
    BY <1>1, <1>4
  <2>2. \A i \in 1..3 : First(i) => i = 2
    BY <1>1, <1>4
  <2>3. (CHOOSE i \in 1..3 : First(i)) = 2
    <3> HIDE DEF First
    <3> QED BY <2>1, <2>2
  <2> HIDE DEF First
  <2> QED BY <1>1, <1>2, <1>4, <2>3
<1>5. CASE "DENY" \notin S /\ "REQUIRE_APPROVAL" \notin S
  <2>0. S = {"ALLOW"}
    BY <1>5 DEF Action
  <2>1. First(3)
    BY <1>1, <2>0
  <2>2. \A i \in 1..3 : First(i) => i = 3
    BY <1>1, <2>0
  <2>3. (CHOOSE i \in 1..3 : First(i)) = 3
    <3> HIDE DEF First
    <3> QED BY <2>1, <2>2
  <2> HIDE DEF First
  <2> QED BY <1>1, <1>2, <2>0, <2>3
<1> QED BY <1>3, <1>4, <1>5

\* The rules that count vote for actions.
LEMMA VotesAreActions ==
    ASSUME NEW rs \in Seq(Rule), NEW context
    PROVE  Votes(context, rs) \subseteq Action
<1> SUFFICES ASSUME NEW i \in DOMAIN rs
             PROVE  Vote(rs[i], context) \in Action
  BY DEF Votes
<1>1. rs[i] \in Rule
  OBVIOUS
<1>2. rs[i].action \in Action
  BY <1>1 DEF Rule
<1> QED BY <1>2 DEF Vote, Action

\* What a vote is, and that there is one.
LEMMA VotesOf ==
    ASSUME NEW rs \in Seq(Rule), NEW context, NEW action
    PROVE  action \in Votes(context, rs) <=>
             \E i \in 1..Len(rs) : Counts(rs[i], context) /\ Vote(rs[i], context) = action
BY DEF Votes

\* evaluate() returns an action whatever the table.
LEMMA EvaluateIsAction ==
    ASSUME NEW rs \in Seq(Rule), NEW context
    PROVE  Evaluate(context, rs) \in Action
BY VotesAreActions, FirstPresentIsMostSevere DEF Evaluate, Action

(***************************************************************************)
(* The table.                                                              *)
(***************************************************************************)

\* Removing a row leaves a table of the other rows, in their order.
LEMMA RemoveAtProperties ==
    ASSUME NEW S, NEW s \in Seq(S), NEW k \in 1..Len(s)
    PROVE  /\ RemoveAt(s, k) \in Seq(S)
           /\ Len(RemoveAt(s, k)) = Len(s) - 1
           /\ \A i \in 1..(Len(s) - 1) :
                RemoveAt(s, k)[i] = IF i < k THEN s[i] ELSE s[i + 1]
<1> DEFINE left == SubSeq(s, 1, k - 1)
           right == SubSeq(s, k + 1, Len(s))
<1>1. /\ left \in Seq(S) /\ Len(left) = k - 1
      /\ \A i \in 1..(k - 1) : left[i] = s[i]
  <2>1. \A i \in 1..(k - 1) : s[i] \in S
    OBVIOUS
  <2>2. Len(left) = IF 1 <= k - 1 THEN (k - 1) - 1 + 1 ELSE 0
    BY <2>1, SubSeqProperties
  <2>3. left \in Seq(S) /\ \A i \in 1..((k - 1) - 1 + 1) : left[i] = s[1 + i - 1]
    BY <2>1, SubSeqProperties
  <2> HIDE DEF left
  <2> QED BY <2>2, <2>3
<1>2. /\ right \in Seq(S) /\ Len(right) = Len(s) - k
      /\ \A i \in 1..(Len(s) - k) : right[i] = s[k + i]
  <2>1. \A i \in (k + 1)..Len(s) : s[i] \in S
    OBVIOUS
  <2>2. Len(right) = IF k + 1 <= Len(s) THEN Len(s) - (k + 1) + 1 ELSE 0
    BY <2>1, SubSeqProperties
  <2>3. right \in Seq(S) /\ \A i \in 1..(Len(s) - (k + 1) + 1) : right[i] = s[(k + 1) + i - 1]
    BY <2>1, SubSeqProperties
  <2> HIDE DEF right
  <2> QED BY <2>2, <2>3
<1>3. RemoveAt(s, k) = left \o right
  BY DEF RemoveAt
<1> HIDE DEF left, right
<1>4. /\ left \o right \in Seq(S)
      /\ Len(left \o right) = Len(left) + Len(right)
      /\ \A i \in 1..(Len(left) + Len(right)) :
           (left \o right)[i] = IF i <= Len(left) THEN left[i] ELSE right[i - Len(left)]
  BY <1>1, <1>2, ConcatProperties
<1>5. Len(left) + Len(right) = Len(s) - 1
  BY <1>1, <1>2
<1>6. ASSUME NEW i \in 1..(Len(s) - 1)
      PROVE  (left \o right)[i] = IF i < k THEN s[i] ELSE s[i + 1]
  <2>1. CASE i < k
    BY <1>1, <1>4, <1>5, <2>1
  <2>2. CASE ~(i < k)
    <3>1. (left \o right)[i] = right[i - (k - 1)]
      BY <1>1, <1>4, <1>5, <2>2
    <3>2. i - (k - 1) \in 1..(Len(s) - k)
      BY <2>2
    <3>3. k + (i - (k - 1)) = i + 1
      OBVIOUS
    <3> QED BY <1>2, <2>2, <3>1, <3>2, <3>3
  <2> QED BY <2>1, <2>2
<1> QED BY <1>3, <1>4, <1>5, <1>6

\* Editing and seeding keep the table one of rules.
LEMMA RulesTypeStep == RulesTypeOK /\ [NextRules]_rules => RulesTypeOK'
<1> SUFFICES ASSUME RulesTypeOK, [NextRules]_rules
             PROVE  RulesTypeOK'
  OBVIOUS
<1>1. ASSUME NEW body \in RuleBody, CreatePolicyRule(body)
      PROVE  RulesTypeOK'
  BY <1>1, RuleBodyAssumption DEF CreatePolicyRule, WithId, Rule, RulesTypeOK
<1>2. ASSUME NEW id \in RuleId, NEW enabled \in BOOLEAN, TogglePolicyRule(id, enabled)
      PROVE  RulesTypeOK'
  <2>1. PICK i \in DOMAIN rules : rules' = [rules EXCEPT ![i].enabled = enabled]
    BY <1>2 DEF TogglePolicyRule
  <2>2. rules[i] \in Rule
    BY DEF RulesTypeOK
  <2>3. [rules[i] EXCEPT !.enabled = enabled] \in Rule
    BY <2>2 DEF Rule
  <2>4. rules' = [rules EXCEPT ![i] = [rules[i] EXCEPT !.enabled = enabled]]
    BY <2>1
  <2> QED BY <2>3, <2>4, ExceptSeq DEF RulesTypeOK
<1>3. ASSUME NEW id \in RuleId, DeletePolicyRule(id)
      PROVE  RulesTypeOK'
  BY <1>3, RemoveAtProperties DEF DeletePolicyRule, RulesTypeOK
<1>4. CASE SeedPolicyRulesIfEmpty
  BY <1>4, SeedAssumption DEF SeedPolicyRulesIfEmpty, RulesTypeOK
<1>5. CASE UNCHANGED rules
  BY <1>5 DEF RulesTypeOK
<1> QED BY <1>1, <1>2, <1>3, <1>4, <1>5 DEF NextRules, EditRules

\* The table holds rules, whatever the admin does and however often it is seeded.
THEOREM RulesTypeCorrect == SpecRules => []RulesTypeOK
<1>1. InitRules => RulesTypeOK
  BY SeedAssumption DEF InitRules, RulesTypeOK
<1> QED BY <1>1, RulesTypeStep, PTL DEF SpecRules

\* UniqueIds for every table: seeding and POST never repeat a primary key.
THEOREM IdsStayUnique == SpecRules => []UniqueIds
<1>1. InitRules => UniqueIds
  BY SeedAssumption DEF InitRules, UniqueIds
<1>2. RulesTypeOK /\ UniqueIds /\ [NextRules]_rules => UniqueIds'
  <2> SUFFICES ASSUME RulesTypeOK, UniqueIds, [NextRules]_rules
               PROVE  UniqueIds'
    OBVIOUS
  <2>1. ASSUME NEW body \in RuleBody, CreatePolicyRule(body)
        PROVE  UniqueIds'
    <3>1. PICK id \in RuleId \ Ids : rules' = Append(rules, WithId(body, id))
      BY <2>1 DEF CreatePolicyRule
    <3>2. WithId(body, id) \in Rule /\ WithId(body, id).id = id
      BY RuleBodyAssumption DEF WithId, Rule
    <3>3. /\ DOMAIN rules' = 1..(Len(rules) + 1)
          /\ \A i \in 1..Len(rules) : rules'[i] = rules[i] /\ rules[i].id # id
          /\ rules'[Len(rules) + 1].id = id
      BY <3>1, <3>2 DEF RulesTypeOK, Ids
    <3> QED BY <3>3 DEF UniqueIds, RulesTypeOK
  <2>2. ASSUME NEW id \in RuleId, NEW enabled \in BOOLEAN, TogglePolicyRule(id, enabled)
        PROVE  UniqueIds'
    <3>1. PICK k \in DOMAIN rules : rules' = [rules EXCEPT ![k].enabled = enabled]
      BY <2>2 DEF TogglePolicyRule
    <3>2. \A i \in DOMAIN rules : rules[i] \in Rule
      BY DEF RulesTypeOK
    <3>3. /\ DOMAIN rules' = DOMAIN rules
          /\ \A i \in DOMAIN rules : rules'[i].id = rules[i].id
      BY <3>1, <3>2 DEF Rule
    <3> QED BY <3>3 DEF UniqueIds
  <2>3. ASSUME NEW id \in RuleId, DeletePolicyRule(id)
        PROVE  UniqueIds'
    <3>1. PICK k \in DOMAIN rules : rules' = RemoveAt(rules, k)
      BY <2>3 DEF DeletePolicyRule
    <3>2. k \in 1..Len(rules) /\ Len(rules) \in Nat
      BY DEF RulesTypeOK
    <3>3. /\ DOMAIN rules' = 1..(Len(rules) - 1)
          /\ \A i \in 1..(Len(rules) - 1) :
               rules'[i] = IF i < k THEN rules[i] ELSE rules[i + 1]
      <4>1. /\ rules' \in Seq(Rule) /\ Len(rules') = Len(rules) - 1
            /\ \A i \in 1..(Len(rules) - 1) :
                 rules'[i] = IF i < k THEN rules[i] ELSE rules[i + 1]
        BY <3>1, <3>2, RemoveAtProperties DEF RulesTypeOK
      <4> QED BY <4>1
    <3>4. SUFFICES ASSUME NEW i \in 1..(Len(rules) - 1), NEW j \in 1..(Len(rules) - 1),
                          rules'[i].id = rules'[j].id
                   PROVE  i = j
      BY <3>3 DEF UniqueIds
    <3>5. \A m, n \in 1..Len(rules) : rules[m].id = rules[n].id => m = n
      BY DEF UniqueIds, RulesTypeOK
    <3> QED BY <3>2, <3>3, <3>4, <3>5, SMTT(40)
  <2>4. CASE SeedPolicyRulesIfEmpty
    BY <2>4, SeedAssumption DEF SeedPolicyRulesIfEmpty, UniqueIds
  <2>5. CASE UNCHANGED rules
    BY <2>5 DEF UniqueIds
  <2> QED BY <2>1, <2>2, <2>3, <2>4, <2>5 DEF NextRules, EditRules
<1> QED BY <1>1, <1>2, RulesTypeCorrect, PTL DEF SpecRules

\* What the validator accepts throws on its arg only: the two descriptions of a
\* condition's shape, main.py's and policy_engine.py's, agree.
LEMMA AcceptedThrowOnArg ==
    ASSUME NEW rule \in Rule, Accepted(rule), NEW ctx, Raises(rule, ctx)
    PROVE  ArgOf(rule) = Malformed
<1>1. CASE rule.rule_type = "input_validation"
  BY <1>1 DEF Accepted, Raises
<1>2. CASE rule.rule_type = "token_budget"
  BY <1>2 DEF Accepted, Raises
<1> QED BY <1>1, <1>2 DEF Raises

\* Whether a rule is accepted is a matter of its type and condition, which never
\* change.
LEMMA AcceptedByShape ==
    ASSUME NEW rule, NEW body, Accepted(body),
           rule.rule_type = body.rule_type, rule.condition = body.condition
    PROVE  Accepted(rule)
BY DEF Accepted

AllAccepted == \A i \in DOMAIN rules : Accepted(rules[i])

LEMMA AllAcceptedStep == RulesTypeOK /\ AllAccepted /\ [NextRules]_rules => AllAccepted'
<1> SUFFICES ASSUME RulesTypeOK, AllAccepted, [NextRules]_rules
             PROVE  AllAccepted'
  OBVIOUS
<1>1. ASSUME NEW body \in RuleBody, CreatePolicyRule(body)
      PROVE  AllAccepted'
  <2>1. PICK id \in RuleId : rules' = Append(rules, WithId(body, id))
    BY <1>1 DEF CreatePolicyRule
  <2>2. Accepted(WithId(body, id))
    BY <1>1, AcceptedByShape DEF CreatePolicyRule, WithId
  <2>3. /\ DOMAIN rules' = 1..(Len(rules) + 1) /\ DOMAIN rules = 1..Len(rules) /\ Len(rules) \in Nat
        /\ \A i \in 1..Len(rules) : rules'[i] = rules[i]
        /\ rules'[Len(rules) + 1] = WithId(body, id)
    <3>1. WithId(body, id) \in Rule
      BY RuleBodyAssumption DEF WithId, Rule
    <3> QED BY <2>1, <3>1 DEF RulesTypeOK
  <2>4. \A i \in DOMAIN rules' : i \in DOMAIN rules \/ i = Len(rules) + 1
    BY <2>3
  <2> QED BY <2>2, <2>3, <2>4 DEF AllAccepted
<1>2. ASSUME NEW id \in RuleId, NEW enabled \in BOOLEAN, TogglePolicyRule(id, enabled)
      PROVE  AllAccepted'
  <2>1. PICK k \in DOMAIN rules : rules' = [rules EXCEPT ![k].enabled = enabled]
    BY <1>2 DEF TogglePolicyRule
  <2>2. \A i \in DOMAIN rules : rules[i] \in Rule
    BY DEF RulesTypeOK
  <2>3. /\ DOMAIN rules' = DOMAIN rules
        /\ \A i \in DOMAIN rules : /\ rules'[i].rule_type = rules[i].rule_type
                                   /\ rules'[i].condition = rules[i].condition
    BY <2>1, <2>2 DEF Rule
  <2> QED BY <2>3, AcceptedByShape DEF AllAccepted
<1>3. ASSUME NEW id \in RuleId, DeletePolicyRule(id)
      PROVE  AllAccepted'
  <2>1. PICK k \in DOMAIN rules : rules' = RemoveAt(rules, k)
    BY <1>3 DEF DeletePolicyRule
  <2>2. k \in 1..Len(rules) /\ Len(rules) \in Nat /\ DOMAIN rules = 1..Len(rules)
    BY DEF RulesTypeOK
  <2>3. /\ rules' \in Seq(Rule) /\ Len(rules') = Len(rules) - 1
        /\ \A i \in 1..(Len(rules) - 1) : rules'[i] = IF i < k THEN rules[i] ELSE rules[i + 1]
    BY <2>1, <2>2, RemoveAtProperties DEF RulesTypeOK
  <2>4. \A i \in DOMAIN rules' : \E j \in DOMAIN rules : rules'[i] = rules[j]
    <3> SUFFICES ASSUME NEW i \in DOMAIN rules' PROVE \E j \in DOMAIN rules : rules'[i] = rules[j]
      OBVIOUS
    <3>1. i \in 1..(Len(rules) - 1)
      BY <2>3
    <3>2. i \in DOMAIN rules /\ i + 1 \in DOMAIN rules
      BY <2>2, <3>1
    <3> QED BY <2>3, <3>1, <3>2
  <2> QED BY <2>4 DEF AllAccepted
<1>4. CASE SeedPolicyRulesIfEmpty
  BY <1>4, SeedShapeAssumption DEF SeedPolicyRulesIfEmpty, AllAccepted
<1>5. CASE UNCHANGED rules
  BY <1>5 DEF AllAccepted
<1> QED BY <1>1, <1>2, <1>3, <1>4, <1>5 DEF NextRules, EditRules

\* Ids are unique in every table, and whatever POST lets through, no rule but one
\* whose arg cannot be a dict key makes an evaluation throw.
THEOREM TableStaysSound == SpecRules => []TableIsSound
<1>1. InitRules => AllAccepted
  BY SeedShapeAssumption DEF InitRules, AllAccepted
<1>2. RulesTypeOK /\ UniqueIds /\ AllAccepted => TableIsSound
  <2> SUFFICES ASSUME RulesTypeOK, UniqueIds, AllAccepted,
                      NEW i \in DOMAIN rules, NEW ctx \in Context, Raises(rules[i], ctx)
               PROVE  ArgOf(rules[i]) = Malformed
    BY DEF TableIsSound, OnlyArgThrows
  <2>1. rules[i] \in Rule /\ Accepted(rules[i])
    BY DEF RulesTypeOK, AllAccepted
  <2> QED BY <2>1, AcceptedThrowOnArg
<1> QED BY <1>1, <1>2, AllAcceptedStep, RulesTypeCorrect, IdsStayUnique, PTL DEF SpecRules

(***************************************************************************)
(* The decision, for every table of rules.                                 *)
(***************************************************************************)

\* An ALLOW is never implicit: see FailClosed.
THEOREM AlwaysFailClosed == SpecRules => []FailClosed
<1>1. RulesTypeOK => FailClosed
  <2> SUFFICES ASSUME RulesTypeOK,
                      NEW context \in Context, Evaluate(context, rules) = "ALLOW"
               PROVE  /\ \E rule \in Enabled(rules) :
                           rule.action = "ALLOW" /\ Matches(rule, context)
                      /\ \A rule \in Enabled(rules) :
                           /\ ~Raises(rule, context)
                           /\ Matches(rule, context) => rule.action = "ALLOW"
    BY DEF FailClosed
  <2>1. Votes(context, rules) = {"ALLOW"}
    <3>1. Votes(context, rules) # {} /\ FirstPresent(Votes(context, rules)) = "ALLOW"
      BY DEF Evaluate
    <3>2. Votes(context, rules) \subseteq Action
      BY VotesAreActions DEF RulesTypeOK
    <3> QED BY <3>1, <3>2, FirstPresentIsMostSevere
  <2>2. \A action : action \in Votes(context, rules) <=>
          \E i \in 1..Len(rules) : /\ Counts(rules[i], context)
                                   /\ Vote(rules[i], context) = action
    BY VotesOf DEF RulesTypeOK
  <2>3. DOMAIN rules = 1..Len(rules)
    BY DEF RulesTypeOK
  <2>4. PICK i \in 1..Len(rules) : /\ Counts(rules[i], context)
                                   /\ Vote(rules[i], context) = "ALLOW"
    BY <2>1, <2>2
  <2>5. /\ rules[i] \in Enabled(rules)
        /\ rules[i].action = "ALLOW" /\ Matches(rules[i], context)
    BY <2>3, <2>4 DEF Enabled, Counts, Vote
  <2>6. ASSUME NEW rule \in Enabled(rules)
        PROVE  /\ ~Raises(rule, context)
               /\ Matches(rule, context) => rule.action = "ALLOW"
    <3>1. PICK j \in 1..Len(rules) : rule = rules[j] /\ rules[j].enabled
      BY <2>3, <2>6 DEF Enabled
    <3>2. Counts(rule, context) => Vote(rule, context) = "ALLOW"
      BY <2>1, <2>2, <3>1
    <3> QED BY <3>1, <3>2 DEF Counts, Vote
  <2> QED BY <2>5, <2>6
<1> QED BY <1>1, RulesTypeCorrect, PTL

\* The votes, and so the decision, depend on the set of enabled rules only.
LEMMA VotesFromEnabled ==
    ASSUME NEW rs \in Seq(Rule), NEW context, NEW action
    PROVE  action \in Votes(context, rs) <=>
             \E rule \in Enabled(rs) : /\ Raises(rule, context) \/ Matches(rule, context)
                                       /\ Vote(rule, context) = action
<1>1. DOMAIN rs = 1..Len(rs)
  OBVIOUS
<1> QED BY <1>1, VotesOf DEF Enabled, Counts

\* Two tables with the same enabled rules, in whatever order and however often,
\* give the same decision; see OrderIndependent.
THEOREM SameRulesSameDecision ==
    ASSUME NEW rs \in Seq(Rule), NEW qs \in Seq(Rule), NEW context,
           Enabled(rs) = Enabled(qs)
    PROVE  Evaluate(context, rs) = Evaluate(context, qs)
<1>1. \A action : action \in Votes(context, rs) <=> action \in Votes(context, qs)
  BY VotesFromEnabled
<1>2. Votes(context, rs) = Votes(context, qs)
  BY <1>1
<1> QED BY <1>2 DEF Evaluate

THEOREM AlwaysOrderIndependent == SpecRules => []OrderIndependent
<1>1. RulesTypeOK => OrderIndependent
  <2> SUFFICES ASSUME RulesTypeOK, NEW context \in Context
               PROVE  Evaluate(context, Reverse(rules)) = Evaluate(context, rules)
    BY DEF OrderIndependent
  <2>1. /\ rules \in Seq(Rule) /\ Len(rules) \in Nat
        /\ DOMAIN rules = 1..Len(rules)
    BY DEF RulesTypeOK
  <2>2. DOMAIN Reverse(rules) = 1..Len(rules)
    BY DEF Reverse
  <2>3. \A i \in 1..Len(rules) : /\ Reverse(rules)[i] = rules[(Len(rules) - i) + 1]
                                 /\ (Len(rules) - i) + 1 \in 1..Len(rules)
    BY <2>1 DEF Reverse
  <2>4. \A i \in 1..Len(rules) : Reverse(rules)[i] \in Rule
    BY <2>1, <2>3
  <2>5. Reverse(rules) \in Seq(Rule)
    BY <2>1, <2>3 DEF Reverse
  <2>6. \A i \in 1..Len(rules) : rules[i] = Reverse(rules)[(Len(rules) - i) + 1]
    <3> SUFFICES ASSUME NEW i \in 1..Len(rules)
                 PROVE  rules[i] = Reverse(rules)[(Len(rules) - i) + 1]
      OBVIOUS
    <3>1. (Len(rules) - i) + 1 \in 1..Len(rules)
      BY <2>3
    <3>2. (Len(rules) - ((Len(rules) - i) + 1)) + 1 = i
      BY <2>1
    <3> QED BY <2>3, <3>1, <3>2
  <2>7. Enabled(Reverse(rules)) = Enabled(rules)
    BY <2>1, <2>2, <2>3, <2>6 DEF Enabled
  <2> QED BY <2>1, <2>5, <2>7, SameRulesSameDecision
<1> QED BY <1>1, RulesTypeCorrect, PTL

\* The rules cited with a decision are all it rests on; see ExplanationSuffices.
THEOREM ExplanationsSuffice == SpecRules => []ExplanationSuffices
<1>1. RulesTypeOK => ExplanationSuffices
  <2> SUFFICES ASSUME RulesTypeOK, NEW context \in Context
               PROVE  Evaluate(context, Only(MatchedRuleIds(context, rules), rules))
                        = Evaluate(context, rules)
    BY DEF ExplanationSuffices
  <2> DEFINE cited == MatchedRuleIds(context, rules)
             kept == Only(cited, rules)
  <2>1. rules \in Seq(Rule) /\ DOMAIN rules = 1..Len(rules)
    BY DEF RulesTypeOK
  <2>2. DOMAIN kept = DOMAIN rules
    BY DEF Only
  <2>3. ASSUME NEW i \in DOMAIN rules
        PROVE  /\ Raises(kept[i], context) = Raises(rules[i], context)
               /\ Matches(kept[i], context) = Matches(rules[i], context)
               /\ Vote(kept[i], context) = Vote(rules[i], context)
               /\ kept[i].enabled <=> rules[i].enabled /\ rules[i].id \in cited
    <3>1. rules[i] \in Rule
      BY <2>1
    <3>2. kept[i] = [rules[i] EXCEPT !.enabled = @ /\ rules[i].id \in cited]
      BY DEF Only
    <3> HIDE DEF kept, cited
    <3>3. /\ kept[i].tool_name = rules[i].tool_name
          /\ kept[i].rule_type = rules[i].rule_type
          /\ kept[i].condition = rules[i].condition
          /\ kept[i].action = rules[i].action
          /\ kept[i].enabled = (rules[i].enabled /\ rules[i].id \in cited)
      BY <3>1, <3>2 DEF Rule
    <3>4. ArgOf(kept[i]) = ArgOf(rules[i])
      BY <3>3 DEF ArgOf
    <3>5. Raises(kept[i], context) = Raises(rules[i], context)
      BY <3>3, <3>4 DEF Raises
    <3>6. Matches(kept[i], context) = Matches(rules[i], context)
      BY <3>3, <3>4, <3>5 DEF Matches
    <3> QED BY <3>3, <3>5, <3>6 DEF Vote
  <2>4. \A i \in DOMAIN rules : Counts(rules[i], context) => rules[i].id \in cited
    BY DEF MatchedRuleIds
  <2> HIDE DEF kept, cited
  <2>5. \A i \in DOMAIN rules : Counts(kept[i], context) <=> Counts(rules[i], context)
    BY <2>3, <2>4 DEF Counts
  <2>6. Votes(context, kept) = Votes(context, rules)
    BY <2>2, <2>3, <2>5 DEF Votes
  <2> QED BY <2>6 DEF Evaluate, kept, cited
<1> QED BY <1>1, RulesTypeCorrect, PTL

LEMMA SeverityValues ==
    Severity("DENY") = 3 /\ Severity("REQUIRE_APPROVAL") = 2 /\ Severity("ALLOW") = 1
<1>1. Precedence[1] = "DENY" /\ Precedence[2] = "REQUIRE_APPROVAL" /\ Precedence[3] = "ALLOW"
  BY DEF Precedence
<1>2. ASSUME NEW action, NEW m \in 1..3,
             \A n \in 1..3 : Precedence[4 - n] = action <=> n = m
      PROVE  Severity(action) = m
  BY <1>2 DEF Severity
<1> QED BY <1>1, <1>2

\* More votes never make the winner less severe.
LEMMA MoreVotesTighten ==
    ASSUME NEW S, NEW T, S # {}, S \subseteq T, T \subseteq Action
    PROVE  Severity(FirstPresent(T)) >= Severity(FirstPresent(S))
<1>1. /\ FirstPresent(S) \in S /\ FirstPresent(T) \in T
      /\ "DENY" \in T => FirstPresent(T) = "DENY"
      /\ "DENY" \notin T /\ "REQUIRE_APPROVAL" \in T => FirstPresent(T) = "REQUIRE_APPROVAL"
  BY FirstPresentIsMostSevere
<1>2. FirstPresent(S) \in T /\ FirstPresent(S) \in Action /\ FirstPresent(T) \in Action
  BY <1>1
<1> QED BY <1>1, <1>2, SeverityValues DEF Action

\* Adding and enabling rules only tightens a decision that some rule took part
\* in; see OnlyTightens.
THEOREM EditsOnlyTighten == SpecRules => OnlyTightens
<1>1. ASSUME RulesTypeOK, RulesTypeOK', [NextRules]_rules,
             NEW context \in Context,
             Enabled(rules) \subseteq Enabled(rules'), Votes(context, rules) # {}
      PROVE  Severity(Evaluate(context, rules')) >= Severity(Evaluate(context, rules))
  <2>1. Votes(context, rules) \subseteq Votes(context, rules')
    BY <1>1, VotesFromEnabled DEF RulesTypeOK
  <2>2. Votes(context, rules') \subseteq Action
    BY <1>1, VotesAreActions DEF RulesTypeOK
  <2>3. /\ Evaluate(context, rules) = FirstPresent(Votes(context, rules))
        /\ Evaluate(context, rules') = FirstPresent(Votes(context, rules'))
    BY <1>1, <2>1 DEF Evaluate
  <2> QED BY <1>1, <2>1, <2>2, <2>3, MoreVotesTighten
<1>2. RulesTypeOK /\ RulesTypeOK' /\ [NextRules]_rules => Tightens
  BY <1>1 DEF Tightens
<1> QED BY <1>2, RulesTypeCorrect, PTL DEF SpecRules, OnlyTightens
=============================================================================
