---------------------------- MODULE GatewayProofs ---------------------------
(***************************************************************************)
(* Theorems about Gateway, for every number of calls, faults and crashes   *)
(* and every rule table: its types, its safety invariants, the records it  *)
(* leaves, and that it implements GuardedExecution.                        *)
(***************************************************************************)
EXTENDS GatewayRefinement, PolicyProofs

(***************************************************************************)
(* Types.  The action a row of tool_executions records is the decision, so *)
(* that it is one takes knowing when the decision has been made.           *)
(***************************************************************************)

HasDecided == {"decided", "asking", "announcing", "waiting", "resolved", "rechecking",
               "starting", "calling", "executing", "recording"}

DecisionMade ==
    \A c \in Call : pc[c] \in HasDecided \/ outcome[c] # None => decision[c] \in Action

TypeInv == TypeOK /\ DecisionMade

LEMMA TypeInit == Init => TypeInv
<1> SUFFICES ASSUME Init PROVE TypeInv
  OBVIOUS
<1>1. TypeOK
  BY SeedAssumption, BoundsAssumption
  DEF Init, TypeOK, InitRules, RulesTypeOK, Label, DbLabel, Ended, Result, Refusal, None
<1>2. DecisionMade
  BY DEF Init, DecisionMade, HasDecided
<1> QED BY <1>1, <1>2 DEF TypeInv

\* The pieces steps are made of.
LEMMA GotoType ==
    ASSUME TypeOK, NEW c \in Call, NEW from, NEW to \in Label, Goto(c, from, to)
    PROVE  pc' \in [Call -> Label]
BY DEF TypeOK, Goto

LEMMA AuditType ==
    ASSUME TypeOK, NEW c \in Call, NEW event \in Event, Audit(c, event)
    PROVE  audit' \in [Call -> Seq(Event)]
BY DEF TypeOK, Audit

LEMMA ExecutionType ==
    ASSUME TypeOK, NEW c \in Call, NEW action \in Action, NEW ok \in BOOLEAN,
           NEW flagged \in BOOLEAN, PersistToolExecution(c, action, ok, flagged)
    PROVE  execution' \in [Call -> SUBSET Execution]
<1>1. [action |-> action, ok |-> ok, flagged |-> flagged] \in Execution
  BY DEF Execution
<1>2. execution[c] \cup {[action |-> action, ok |-> ok, flagged |-> flagged]}
        \in SUBSET Execution
  BY <1>1 DEF TypeOK
<1> QED BY <1>2 DEF TypeOK, PersistToolExecution

LEMMA TryDecideType ==
    ASSUME TypeOK, NEW c \in Call, NEW new \in {"APPROVED", "DENIED"},
           NEW by \in {"human", "system-timeout"}, TryDecide(c, new, by)
    PROVE  /\ status' \in [Call -> {None, "PENDING", "APPROVED", "DENIED"}]
           /\ decidedBy' \in [Call -> {"NULL", "human", "system-timeout", "system-restart"}]
BY DEF TypeOK, TryDecide

LEMMA TypeProceed == ASSUME TypeInv, NEW c \in Call, Proceed(c) PROVE TypeOK'
<1> USE DEF TypeInv, TypeOK, RulesTypeOK, Goto, Audit, Label, DbLabel, Ended, Event,
            registry, approvalRow, world
<1>1. CASE AuditRequest(c)
  BY <1>1 DEF AuditRequest
<1>2. CASE Decide(c)
  <2>1. Evaluate(ctx[c], rules) \in Action
    BY EvaluateIsAction
  <2> QED BY <1>2, <2>1 DEF Decide
<1>3. CASE AuditDecision(c)
  <2>1. audit' \in [Call -> Seq(Event)]
    BY <1>3, AuditType DEF AuditDecision
  <2>2. pc' \in [Call -> Label]
    <3>1. PICK to \in {"refusing", "asking", "starting"} : Goto(c, "decided", to)
      BY <1>3 DEF AuditDecision
    <3> QED BY <3>1
  <2>3. pending' \in [Call -> Answer \cup {None, "pending"}]
    BY <1>3 DEF AuditDecision
  <2> QED BY <1>3, <2>1, <2>2, <2>3 DEF AuditDecision
<1>4. CASE PersistApprovalRequest(c)
  BY <1>4 DEF PersistApprovalRequest
<1>5. CASE AuditApprovalRequired(c)
  BY <1>5 DEF AuditApprovalRequired
<1>6. CASE Resume(c)
  BY <1>6 DEF Resume
<1>7. CASE AuditOutcome(c)
  <2>1. audit' \in [Call -> Seq(Event)]
    <3>1. PICK event \in {"approval_granted", "approval_rejected"} : Audit(c, event)
      BY <1>7 DEF AuditOutcome
    <3> QED BY <3>1
  <2>2. pc' \in [Call -> Label]
    <3>1. PICK to \in {"rechecking", "refusing"} : Goto(c, "resolved", to)
      BY <1>7 DEF AuditOutcome
    <3> QED BY <3>1
  <2> QED BY <1>7, <2>1, <2>2 DEF AuditOutcome
<1>8. CASE Recheck(c)
  BY <1>8 DEF Recheck
<1>9. CASE PersistRefusal(c)
  <2>1. RefusedAction(c) \in Action
    BY DEF RefusedAction, DecisionMade, Action, None
  <2>2. execution' \in [Call -> SUBSET Execution]
    BY <1>9, <2>1, ExecutionType DEF PersistRefusal
  <2>3. result' \in [Call -> Result]
    BY <1>9 DEF PersistRefusal, Refusal, Result
  <2> QED BY <1>9, <2>2, <2>3 DEF PersistRefusal
<1>10. CASE AuditRefusal(c)
  BY <1>10 DEF AuditRefusal
<1>11. CASE AuditStart(c)
  BY <1>11 DEF AuditStart
<1>12. CASE InvokeTool(c)
  BY <1>12 DEF InvokeTool
<1>13. CASE ToolReturns(c)
  BY <1>13 DEF ToolReturns
<1>14. CASE PersistExecution(c)
  <2>1. decision[c] \in Action
    BY <1>14 DEF PersistExecution, DecisionMade, HasDecided
  <2>2. result[c].ok \in BOOLEAN /\ Flagged(c) \in BOOLEAN
    BY DEF Result, Flagged
  <2>3. execution' \in [Call -> SUBSET Execution]
    BY <1>14, <2>1, <2>2, ExecutionType DEF PersistExecution
  <2>4. audit' \in [Call -> Seq(Event)]
    <3>1. CASE Flagged(c)
      <4>1. Audit(c, "tool_execution")
        BY <1>14, <3>1, Zenon DEF PersistExecution
      <4> QED BY <4>1, AuditType
    <3>2. CASE ~Flagged(c)
      BY <1>14, <3>2 DEF PersistExecution
    <3> QED BY <3>1, <3>2
  <2> QED BY <1>14, <2>3, <2>4 DEF PersistExecution
<1>15. CASE AuditCompletion(c)
  BY <1>15 DEF AuditCompletion
<1> QED BY <1>1, <1>2, <1>3, <1>4, <1>5, <1>6, <1>7, <1>8, <1>9, <1>10, <1>11, <1>12,
           <1>13, <1>14, <1>15 DEF Proceed

\* The steps of everybody else.
LEMMA TypeOthers ==
    ASSUME TypeInv, [Next]_vars, \A c \in Call : ~Proceed(c)
    PROVE  TypeOK'
<1> USE DEF TypeInv, TypeOK, Goto, Label, DbLabel, Ended, registry, approvalRow, world
<1>1. ASSUME NEW c \in Call, Request(c) PROVE TypeOK'
  BY <1>1 DEF Request, RulesTypeOK
<1>2. ASSUME NEW c \in Call, PolicyError(c) PROVE TypeOK'
  BY <1>2, BoundsAssumption DEF PolicyError, RulesTypeOK
<1>3. ASSUME NEW c \in Call, DbError(c) PROVE TypeOK'
  BY <1>3, BoundsAssumption DEF DbError, RulesTypeOK
<1>4. ASSUME NEW c \in Call, TimerError(c) PROVE TypeOK'
  BY <1>4, BoundsAssumption DEF TimerError, RulesTypeOK
<1>5. ASSUME NEW c \in Call, TimerFires(c) PROVE TypeOK'
  <2>1. wakes' \subseteq Call \X Answer
    BY <1>5 DEF TimerFires, Answer
  <2>2. /\ status' \in [Call -> {None, "PENDING", "APPROVED", "DENIED"}]
        /\ decidedBy' \in [Call -> {"NULL", "human", "system-timeout", "system-restart"}]
    BY <1>5, TryDecideType DEF TimerFires
  <2> QED BY <1>5, <2>1, <2>2 DEF TimerFires, RulesTypeOK
<1>6. ASSUME NEW c \in Call, NEW answer \in Answer, HumanDecides(c, answer) PROVE TypeOK'
  BY <1>6 DEF HumanDecides, TryDecide, StatusOf, RulesTypeOK, Answer
<1>7. ASSUME NEW c \in Call, NEW answer \in Answer, Wake(c, answer) PROVE TypeOK'
  BY <1>7 DEF Wake, RulesTypeOK
<1>8. CASE AdminEditsRules
  <2>1. RulesTypeOK'
    BY <1>8, RulesTypeStep DEF AdminEditsRules, NextRules
  <2> QED BY <1>8, <2>1 DEF AdminEditsRules
<1>9. CASE Crash
  BY <1>9, BoundsAssumption DEF Crash, RulesTypeOK
<1>10. CASE StartupSeed
  <2>1. RulesTypeOK'
    BY <1>10, RulesTypeStep DEF StartupSeed, NextRules
  <2> QED BY <1>10, <2>1 DEF StartupSeed
<1>11. CASE StartupReconcile
  BY <1>11 DEF StartupReconcile, RulesTypeOK
<1>12. CASE UNCHANGED vars
  BY <1>12 DEF vars, RulesTypeOK
<1> QED BY <1>1, <1>2, <1>3, <1>4, <1>5, <1>6, <1>7, <1>8, <1>9, <1>10, <1>11, <1>12
        DEF Next, Fault

LEMMA DecisionStep == TypeInv /\ [Next]_vars => DecisionMade'
<1> SUFFICES ASSUME TypeInv, [Next]_vars PROVE DecisionMade'
  OBVIOUS
<1> USE DEF TypeInv, TypeOK, DecisionMade, HasDecided, Goto, registry, approvalRow, world
<1>1. ASSUME NEW c \in Call, Decide(c) PROVE DecisionMade'
  <2>1. Evaluate(ctx[c], rules) \in Action
    BY EvaluateIsAction DEF RulesTypeOK
  <2> QED BY <1>1, <2>1 DEF Decide
<1>2. ASSUME NEW c \in Call, Resume(c) PROVE DecisionMade'
  BY <1>2 DEF Resume
<1>3. ASSUME NEW c \in Call, AuditDecision(c) PROVE DecisionMade'
  BY <1>3 DEF AuditDecision, Action
<1>4. ASSUME NEW c \in Call, NEW from, NEW to, Goto(c, from, to),
             to \in HasDecided => from \in HasDecided, UNCHANGED <<decision, outcome>>
      PROVE  DecisionMade'
  BY <1>4
<1>5. ASSUME NEW c \in Call,
             \/ Request(c) \/ AuditRequest(c) \/ PersistApprovalRequest(c)
             \/ AuditApprovalRequired(c) \/ PersistRefusal(c) \/ AuditRefusal(c)
      PROVE  DecisionMade'
  <2>1. CASE Request(c)
    BY <2>1 DEF Request
  <2>2. CASE AuditRequest(c)
    BY <2>2 DEF AuditRequest
  <2>3. CASE PersistApprovalRequest(c)
    BY <2>3 DEF PersistApprovalRequest
  <2>4. CASE AuditApprovalRequired(c)
    BY <2>4 DEF AuditApprovalRequired
  <2>5. CASE PersistRefusal(c)
    BY <2>5 DEF PersistRefusal
  <2>6. CASE AuditRefusal(c)
    BY <2>6 DEF AuditRefusal
  <2> QED BY <1>5, <2>1, <2>2, <2>3, <2>4, <2>5, <2>6
<1>6. ASSUME NEW c \in Call,
             \/ AuditStart(c) \/ InvokeTool(c) \/ ToolReturns(c) \/ PersistExecution(c)
             \/ AuditCompletion(c)
      PROVE  DecisionMade'
  <2>1. CASE AuditStart(c) \/ InvokeTool(c)
    BY <2>1 DEF AuditStart, InvokeTool
  <2>2. CASE ToolReturns(c)
    BY <2>2 DEF ToolReturns
  <2>3. CASE PersistExecution(c)
    BY <2>3 DEF PersistExecution
  <2>4. CASE AuditCompletion(c)
    BY <2>4 DEF AuditCompletion
  <2> QED BY <1>6, <2>1, <2>2, <2>3, <2>4
<1>7. ASSUME NEW c \in Call, AuditOutcome(c) \/ Recheck(c) PROVE DecisionMade'
  <2>1. /\ UNCHANGED <<decision, outcome>>
        /\ \E from \in {"resolved", "rechecking"}, to \in Label : Goto(c, from, to)
    BY <1>7 DEF AuditOutcome, Recheck, Label, DbLabel
  <2> QED BY <1>4, <2>1
<1>8. ASSUME NEW c \in Call, Fault(c) PROVE DecisionMade'
  BY <1>8 DEF Fault, PolicyError, DbError, TimerError
<1>9. ASSUME NEW c \in Call, NEW answer \in Answer,
             TimerFires(c) \/ HumanDecides(c, answer) \/ Wake(c, answer)
      PROVE  DecisionMade'
  BY <1>9 DEF TimerFires, HumanDecides, Wake
<1>10. CASE AdminEditsRules \/ Crash \/ StartupSeed \/ StartupReconcile \/ UNCHANGED vars
  BY <1>10 DEF AdminEditsRules, Crash, StartupSeed, StartupReconcile, vars, Ended
<1> QED BY <1>1, <1>2, <1>3, <1>5, <1>6, <1>7, <1>8, <1>9, <1>10 DEF Next, Proceed, Answer

\* Every variable of the gateway keeps its type.
THEOREM TypeCorrect == Spec => []TypeOK
<1>1. TypeInv /\ [Next]_vars => TypeInv'
  BY TypeProceed, TypeOthers, DecisionStep DEF TypeInv
<1>2. TypeInv => TypeOK
  BY DEF TypeInv
<1> QED BY <1>1, <1>2, TypeInit, PTL DEF Spec

(***************************************************************************)
(* Safety.  None of the properties is inductive by itself: that an         *)
(* approved call is authorised rests on what the future held, that on what *)
(* the row said when it was woken, and that on who may write the row and   *)
(* when, including a process that has died.  InductiveInv says all of it.  *)
(***************************************************************************)

Unasked == {"idle", "requesting", "deciding", "decided", "asking"}
AfterAsking == {"announcing", "waiting", "resolved", "rechecking"}

\* A dead process, and one that is not serving yet, run no call and no timer.
DeadIsQuiet ==
    process # "up" =>
        /\ wakes = {}
        /\ \A c \in Call : /\ pc[c] \in Ended \cup {"idle"}
                           /\ pending[c] = None /\ timer[c] = "off"

\* There is a row exactly when the call has asked, and it asks only if the
\* decision was REQUIRE_APPROVAL; only a person approves.
RowFollowsDecision ==
    \A c \in Call :
        /\ pc[c] \in {"idle", "requesting", "deciding"} => decision[c] = None
        /\ pc[c] \in AfterAsking \cup {"asking"} => decision[c] = "REQUIRE_APPROVAL"
        /\ pc[c] \in AfterAsking => status[c] # None
        /\ status[c] # None => /\ pc[c] \notin Unasked
                               /\ decision[c] = "REQUIRE_APPROVAL"
        /\ status[c] = "APPROVED" => decidedBy[c] = "human"

\* The future of a call that will wait is registered, and resolves.
AnswerArrives ==
    \A c \in Call : pc[c] \in {"asking", "announcing", "waiting"} =>
        \/ pending[c] \in Answer
        \/ /\ pending[c] = "pending"
           /\ \/ status[c] \in {None, "PENDING"}
              \/ \E answer \in Answer : <<c, answer>> \in wakes

Authority(c) ==
    \/ decision[c] = "ALLOW" /\ status[c] = None
    \/ decision[c] = "REQUIRE_APPROVAL" /\ status[c] = "APPROVED" /\ decidedBy[c] = "human"

AuthorityHeld ==
    \A c \in Call : /\ pc[c] = "rechecking" => status[c] = "APPROVED"
                    /\ pc[c] \in {"starting", "calling"} \/ invoked[c] => Authority(c)

InductiveInv ==
    /\ TypeInv
    /\ DeadIsQuiet
    /\ RowFollowsDecision
    /\ AnswerIsTheRows
    /\ AnswerArrives
    /\ AuthorityHeld

LEMMA InductiveInit == Init => InductiveInv
<1> SUFFICES ASSUME Init PROVE InductiveInv
  OBVIOUS
<1>1. TypeInv
  BY TypeInit
<1>2. DeadIsQuiet
  BY DEF Init, DeadIsQuiet
<1>3. RowFollowsDecision
  BY DEF Init, RowFollowsDecision, Unasked, AfterAsking, None
<1>4. AnswerIsTheRows
  BY DEF Init, AnswerIsTheRows, Answer, None
<1>5. AnswerArrives /\ AuthorityHeld
  BY DEF Init, AnswerArrives, AuthorityHeld
<1> QED BY <1>1, <1>2, <1>3, <1>4, <1>5 DEF InductiveInv

\* A call only takes steps while the backend serves.
LEMMA ProceedsWhenUp ==
    ASSUME TypeInv, DeadIsQuiet, NEW c \in Call,
           Request(c) \/ Proceed(c) \/ PolicyError(c) \/ DbError(c)
    PROVE  process = "up"
<1> SUFFICES ASSUME pc[c] \in Ended \cup {"idle"} PROVE process = "up"
  BY DEF DeadIsQuiet, TypeInv, TypeOK
<1> USE DEF Goto, Ended, DbLabel
<1>1. CASE Request(c) \/ PolicyError(c) \/ DbError(c)
  BY <1>1 DEF Request, PolicyError, DbError
<1>2. ~Proceed(c)
  BY DEF Proceed, AuditRequest, Decide, AuditDecision, PersistApprovalRequest,
         AuditApprovalRequired, Resume, AuditOutcome, Recheck, PersistRefusal, AuditRefusal,
         AuditStart, InvokeTool, ToolReturns, PersistExecution, AuditCompletion
<1> QED BY <1>1, <1>2

LEMMA QuietStep == InductiveInv /\ [Next]_vars => DeadIsQuiet'
<1> SUFFICES ASSUME InductiveInv, [Next]_vars PROVE DeadIsQuiet'
  OBVIOUS
<1> USE DEF InductiveInv, DeadIsQuiet, registry, approvalRow, world
<1>1. ASSUME NEW c \in Call, Request(c) \/ Proceed(c) \/ PolicyError(c) \/ DbError(c)
      PROVE  DeadIsQuiet'
  <2>1. process = "up"
    BY <1>1, ProceedsWhenUp
  <2>2. process' = process
    BY <1>1 DEF Request, PolicyError, DbError, Proceed, AuditRequest, Decide, AuditDecision,
                PersistApprovalRequest, AuditApprovalRequired, Resume, AuditOutcome, Recheck,
                PersistRefusal, AuditRefusal, AuditStart, InvokeTool, ToolReturns,
                PersistExecution, AuditCompletion
  <2> QED BY <2>1, <2>2
<1>2. ASSUME NEW c \in Call, TimerError(c) \/ TimerFires(c) PROVE DeadIsQuiet'
  BY <1>2 DEF TimerError, TimerFires, TypeInv, TypeOK
<1>3. ASSUME NEW c \in Call, NEW answer \in Answer, HumanDecides(c, answer) \/ Wake(c, answer)
      PROVE  DeadIsQuiet'
  BY <1>3 DEF HumanDecides, Wake
<1>4. CASE AdminEditsRules \/ StartupReconcile
  BY <1>4 DEF AdminEditsRules, StartupReconcile
<1>5. CASE StartupSeed \/ UNCHANGED vars
  BY <1>5 DEF StartupSeed, vars
<1>6. CASE Crash
  BY <1>6 DEF Crash, Ended
<1> QED BY <1>1, <1>2, <1>3, <1>4, <1>5, <1>6 DEF Next, Fault

LEMMA RowStep == InductiveInv /\ [Next]_vars => RowFollowsDecision'
<1> SUFFICES ASSUME InductiveInv, [Next]_vars PROVE RowFollowsDecision'
  OBVIOUS
<1> USE DEF InductiveInv, TypeInv, TypeOK, RowFollowsDecision, Unasked, AfterAsking, Goto,
            None, registry, approvalRow, world
<1>1. ASSUME NEW c \in Call, Request(c) \/ AuditRequest(c) PROVE RowFollowsDecision'
  BY <1>1 DEF Request, AuditRequest
<1>2. ASSUME NEW c \in Call, Decide(c) PROVE RowFollowsDecision'
  BY <1>2 DEF Decide
<1>3. ASSUME NEW c \in Call, AuditDecision(c) PROVE RowFollowsDecision'
  BY <1>3 DEF AuditDecision
<1>4. ASSUME NEW c \in Call, PersistApprovalRequest(c) PROVE RowFollowsDecision'
  BY <1>4 DEF PersistApprovalRequest
<1>5. ASSUME NEW c \in Call, AuditApprovalRequired(c) \/ Resume(c) PROVE RowFollowsDecision'
  BY <1>5 DEF AuditApprovalRequired, Resume
<1>6. ASSUME NEW c \in Call, AuditOutcome(c) \/ Recheck(c) PROVE RowFollowsDecision'
  <2>1. /\ UNCHANGED <<decision, status, decidedBy>>
        /\ \E from \in {"resolved", "rechecking"}, to \in {"rechecking", "refusing", "starting"} :
             Goto(c, from, to)
    BY <1>6 DEF AuditOutcome, Recheck
  <2> QED BY <2>1
<1>7. ASSUME NEW c \in Call,
             \/ PersistRefusal(c) \/ AuditRefusal(c) \/ AuditStart(c) \/ InvokeTool(c)
             \/ ToolReturns(c) \/ PersistExecution(c) \/ AuditCompletion(c)
      PROVE  RowFollowsDecision'
  <2>1. /\ UNCHANGED <<decision, status, decidedBy>>
        /\ \E from \in Label, to \in Label \ (Unasked \cup AfterAsking) : Goto(c, from, to)
    <3> USE DEF Label, DbLabel, Ended
    <3>1. CASE PersistRefusal(c) \/ AuditRefusal(c)
      BY <3>1 DEF PersistRefusal, AuditRefusal
    <3>2. CASE AuditStart(c) \/ InvokeTool(c)
      BY <3>2 DEF AuditStart, InvokeTool
    <3>3. CASE ToolReturns(c) \/ PersistExecution(c) \/ AuditCompletion(c)
      BY <3>3, ZenonT(60) DEF ToolReturns, PersistExecution, AuditCompletion
    <3> QED BY <1>7, <3>1, <3>2, <3>3
  <2> QED BY <2>1
<1>8. ASSUME NEW c \in Call, Fault(c) PROVE RowFollowsDecision'
  BY <1>8 DEF Fault, PolicyError, DbError, TimerError
<1>9. ASSUME NEW c \in Call, TimerFires(c) PROVE RowFollowsDecision'
  BY <1>9 DEF TimerFires, TryDecide
<1>10. ASSUME NEW c \in Call, NEW answer \in Answer, HumanDecides(c, answer) \/ Wake(c, answer)
      PROVE  RowFollowsDecision'
  BY <1>10 DEF HumanDecides, Wake, TryDecide, StatusOf
<1>11. CASE AdminEditsRules \/ StartupSeed \/ UNCHANGED vars
  BY <1>11 DEF AdminEditsRules, StartupSeed, vars
<1>12. CASE Crash
  BY <1>12 DEF Crash, Ended
<1>13. CASE StartupReconcile
  BY <1>13 DEF StartupReconcile
<1> QED BY <1>1, <1>2, <1>3, <1>4, <1>5, <1>6, <1>7, <1>8, <1>9, <1>10, <1>11, <1>12, <1>13
        DEF Next, Proceed, Answer

LEMMA AnswerStep == InductiveInv /\ [Next]_vars => AnswerIsTheRows'
<1> SUFFICES ASSUME InductiveInv, [Next]_vars, NEW k \in Call, NEW told \in Answer,
                    (<<k, told>> \in wakes \/ pending[k] = told \/ outcome[k] = told)'
             PROVE  status'[k] = StatusOf(told)
  BY DEF AnswerIsTheRows, StatusOf
<1> USE DEF InductiveInv, TypeInv, TypeOK, Goto, None, Answer, registry, approvalRow, world
<1>1. <<k, told>> \in wakes \/ pending[k] = told \/ outcome[k] = told =>
        status[k] = StatusOf(told) /\ status[k] \in {"APPROVED", "DENIED"}
  BY DEF AnswerIsTheRows, StatusOf
<1>2. ASSUME NEW c \in Call, Proceed(c), ~PersistApprovalRequest(c)
      PROVE  status'[k] = StatusOf(told)
  <2>1. UNCHANGED status
    BY <1>2 DEF Proceed, AuditRequest, Decide, AuditDecision, AuditApprovalRequired, Resume,
                AuditOutcome, Recheck, PersistRefusal, AuditRefusal, AuditStart, InvokeTool,
                ToolReturns, PersistExecution, AuditCompletion
  <2>2. CASE AuditDecision(c)
    BY <1>1, <2>1, <2>2 DEF AuditDecision
  <2>3. CASE Resume(c)
    BY <1>1, <2>1, <2>3 DEF Resume
  <2>4. CASE ~AuditDecision(c) /\ ~Resume(c)
    <3>1. UNCHANGED <<outcome, pending, wakes>>
      BY <1>2, <2>4 DEF Proceed, AuditRequest, Decide, AuditApprovalRequired, AuditOutcome,
                  Recheck, PersistRefusal, AuditRefusal, AuditStart, InvokeTool,
                  ToolReturns, PersistExecution, AuditCompletion
    <3> QED BY <1>1, <2>1, <3>1
  <2> QED BY <2>2, <2>3, <2>4
<1>3. ASSUME NEW c \in Call, PersistApprovalRequest(c) PROVE status'[k] = StatusOf(told)
  <2>1. status[c] = None
    BY <1>3 DEF PersistApprovalRequest, RowFollowsDecision, Unasked
  <2>2. UNCHANGED <<outcome, pending, wakes>> /\ (k # c => status'[k] = status[k])
    BY <1>3 DEF PersistApprovalRequest
  <2> QED BY <1>1, <2>1, <2>2
<1>4. ASSUME NEW c \in Call, Request(c) \/ PolicyError(c) \/ TimerError(c)
      PROVE  status'[k] = StatusOf(told)
  BY <1>1, <1>4 DEF Request, PolicyError, TimerError
<1>5. ASSUME NEW c \in Call, DbError(c) PROVE status'[k] = StatusOf(told)
  BY <1>1, <1>5 DEF DbError
<1>6. ASSUME NEW c \in Call, NEW new, NEW by, NEW answer \in Answer, TryDecide(c, new, by),
             new = StatusOf(answer), wakes' = wakes \cup {<<c, answer>>},
             UNCHANGED <<outcome, pending>>
      PROVE  status'[k] = StatusOf(told)
  <2>1. CASE k = c
    <3>1. told = answer
      BY <1>1, <1>6, <2>1 DEF TryDecide
    <3> QED BY <1>6, <2>1, <3>1 DEF TryDecide
  <2>2. CASE k # c
    BY <1>1, <1>6, <2>2 DEF TryDecide
  <2> QED BY <2>1, <2>2
<1>7. ASSUME NEW c \in Call, TimerFires(c) PROVE status'[k] = StatusOf(told)
  <2>1. CASE TryDecide(c, "DENIED", "system-timeout") /\ wakes' = wakes \cup {<<c, "reject">>}
    <3>1. "DENIED" = StatusOf("reject") /\ UNCHANGED <<outcome, pending>>
      BY <1>7 DEF TimerFires, StatusOf
    <3> QED BY <1>6, <2>1, <3>1
  <2>2. CASE UNCHANGED <<approvalRow, wakes>>
    BY <1>1, <1>7, <2>2 DEF TimerFires
  <2> QED BY <1>7, <2>1, <2>2 DEF TimerFires
<1>8. ASSUME NEW c \in Call, NEW answer \in Answer, HumanDecides(c, answer)
      PROVE  status'[k] = StatusOf(told)
  BY <1>6, <1>8 DEF HumanDecides
<1>9. ASSUME NEW c \in Call, NEW answer \in Answer, Wake(c, answer)
      PROVE  status'[k] = StatusOf(told)
  <2>1. <<c, answer>> \in wakes
    BY <1>9 DEF Wake
  <2>2. status[c] = StatusOf(answer)
    BY <2>1 DEF AnswerIsTheRows
  <2> QED BY <1>1, <1>9, <2>2 DEF Wake
<1>10. CASE AdminEditsRules \/ StartupSeed \/ UNCHANGED vars
  BY <1>1, <1>10 DEF AdminEditsRules, StartupSeed, vars
<1>11. CASE Crash
  BY <1>1, <1>11 DEF Crash
<1>12. CASE StartupReconcile
  BY <1>1, <1>12 DEF StartupReconcile
<1> QED BY <1>2, <1>3, <1>4, <1>5, <1>7, <1>8, <1>9, <1>10, <1>11, <1>12 DEF Next, Fault

LEMMA ArrivalStep == InductiveInv /\ [Next]_vars => AnswerArrives'
<1> SUFFICES ASSUME InductiveInv, [Next]_vars PROVE AnswerArrives'
  OBVIOUS
<1> USE DEF InductiveInv, TypeInv, TypeOK, AnswerArrives, Goto, None, Answer,
            registry, approvalRow, world
<1>1. ASSUME NEW c \in Call, AuditDecision(c) PROVE AnswerArrives'
  BY <1>1 DEF AuditDecision, RowFollowsDecision, Unasked
<1>2. ASSUME NEW c \in Call, PersistApprovalRequest(c) PROVE AnswerArrives'
  BY <1>2 DEF PersistApprovalRequest
<1>3. ASSUME NEW c \in Call, AuditApprovalRequired(c) \/ Resume(c) PROVE AnswerArrives'
  BY <1>3 DEF AuditApprovalRequired, Resume
<1>4. ASSUME NEW c \in Call, Proceed(c) \/ Request(c), ~AuditDecision(c),
             ~PersistApprovalRequest(c), ~AuditApprovalRequired(c), ~Resume(c)
      PROVE  AnswerArrives'
  <2>1. UNCHANGED <<pending, wakes, status>>
    BY <1>4 DEF Proceed, Request, AuditRequest, Decide, AuditOutcome, Recheck,
                PersistRefusal, AuditRefusal, AuditStart, InvokeTool, ToolReturns,
                PersistExecution, AuditCompletion
  <2>2. \E to \in Label \ {"asking", "announcing", "waiting"} : pc' = [pc EXCEPT ![c] = to]
    <3> USE DEF Label, DbLabel, Ended
    <3>1. CASE Request(c) \/ AuditRequest(c) \/ Decide(c)
      BY <3>1 DEF Request, AuditRequest, Decide
    <3>2. CASE AuditOutcome(c) \/ Recheck(c)
      BY <3>2 DEF AuditOutcome, Recheck
    <3>3. CASE PersistRefusal(c) \/ AuditRefusal(c) \/ AuditStart(c)
      BY <3>3 DEF PersistRefusal, AuditRefusal, AuditStart
    <3>4. CASE InvokeTool(c) \/ ToolReturns(c) \/ PersistExecution(c) \/ AuditCompletion(c)
      BY <3>4 DEF InvokeTool, ToolReturns, PersistExecution, AuditCompletion
    <3> QED BY <1>4, <3>1, <3>2, <3>3, <3>4 DEF Proceed
  <2> QED BY <2>1, <2>2
<1>5. ASSUME NEW c \in Call, Fault(c) PROVE AnswerArrives'
  BY <1>5 DEF Fault, PolicyError, DbError, TimerError
<1>6. ASSUME NEW c \in Call, TimerFires(c) PROVE AnswerArrives'
  BY <1>6 DEF TimerFires, TryDecide
<1>7. ASSUME NEW c \in Call, NEW answer \in Answer, HumanDecides(c, answer)
      PROVE  AnswerArrives'
  BY <1>7 DEF HumanDecides, TryDecide
<1>8. ASSUME NEW c \in Call, NEW answer \in Answer, Wake(c, answer) PROVE AnswerArrives'
  BY <1>8 DEF Wake
<1>9. CASE AdminEditsRules \/ StartupSeed \/ UNCHANGED vars
  BY <1>9 DEF AdminEditsRules, StartupSeed, vars
<1>10. CASE Crash
  BY <1>10 DEF Crash, Ended
<1>11. CASE StartupReconcile
  BY <1>11 DEF StartupReconcile, DeadIsQuiet, Ended
<1> QED BY <1>1, <1>2, <1>3, <1>4, <1>5, <1>6, <1>7, <1>8, <1>9, <1>10, <1>11, ZenonT(60)
        DEF Next

LEMMA AuthorityStep == InductiveInv /\ [Next]_vars => AuthorityHeld'
<1> SUFFICES ASSUME InductiveInv, [Next]_vars PROVE AuthorityHeld'
  OBVIOUS
<1> USE DEF InductiveInv, TypeInv, TypeOK, AuthorityHeld, Authority, Goto, None,
            registry, approvalRow, world
<1>1. ASSUME NEW c \in Call, Decide(c) PROVE AuthorityHeld'
  <2>1. ~invoked[c]
    BY <1>1 DEF Decide, RowFollowsDecision
  <2> QED BY <1>1, <2>1 DEF Decide
<1>2. ASSUME NEW c \in Call, AuditDecision(c) PROVE AuthorityHeld'
  <2>1. status[c] = None
    BY <1>2 DEF AuditDecision, RowFollowsDecision, Unasked
  <2> QED BY <1>2, <2>1 DEF AuditDecision
<1>3. ASSUME NEW c \in Call, PersistApprovalRequest(c) PROVE AuthorityHeld'
  <2>1. status[c] = None /\ decision[c] = "REQUIRE_APPROVAL"
    BY <1>3 DEF PersistApprovalRequest, RowFollowsDecision, Unasked
  <2> QED BY <1>3, <2>1 DEF PersistApprovalRequest
<1>4. ASSUME NEW c \in Call, AuditOutcome(c) PROVE AuthorityHeld'
  <2>1. CASE outcome[c] = "approve"
    <3>1. status[c] = "APPROVED"
      BY <2>1 DEF AnswerIsTheRows, Answer, StatusOf
    <3>2. Goto(c, "resolved", "rechecking")
      BY <1>4, <2>1 DEF AuditOutcome
    <3>3. UNCHANGED <<decision, status, decidedBy, invoked>>
      BY <1>4 DEF AuditOutcome
    <3> QED BY <3>1, <3>2, <3>3
  <2>2. CASE outcome[c] = "reject"
    <3>1. Goto(c, "resolved", "refusing")
      BY <1>4, <2>2 DEF AuditOutcome
    <3>2. UNCHANGED <<decision, status, decidedBy, invoked>>
      BY <1>4 DEF AuditOutcome
    <3> QED BY <3>1, <3>2
  <2> QED BY <1>4, <2>1, <2>2 DEF AuditOutcome
<1>5. ASSUME NEW c \in Call, Recheck(c) PROVE AuthorityHeld'
  <2>1. Authority(c)
    BY <1>5 DEF Recheck, RowFollowsDecision, AfterAsking
  <2>2. \E to \in {"refusing", "starting"} : Goto(c, "rechecking", to)
    BY <1>5 DEF Recheck
  <2>3. UNCHANGED <<decision, status, decidedBy, invoked>>
    BY <1>5 DEF Recheck
  <2> QED BY <2>1, <2>2, <2>3
<1>6. ASSUME NEW c \in Call,
             \/ Request(c) \/ AuditRequest(c) \/ AuditApprovalRequired(c) \/ Resume(c)
             \/ PersistRefusal(c) \/ AuditRefusal(c)
      PROVE  AuthorityHeld'
  <2>1. CASE Request(c) \/ AuditRequest(c)
    BY <2>1 DEF Request, AuditRequest
  <2>2. CASE AuditApprovalRequired(c) \/ Resume(c)
    BY <2>2 DEF AuditApprovalRequired, Resume
  <2>3. CASE PersistRefusal(c) \/ AuditRefusal(c)
    <3>1. pc[c] \in {"refusing", "failing"}
          /\ pc' = [pc EXCEPT ![c] = IF @ = "refusing" THEN "failing" ELSE "returned"]
      BY <2>3 DEF PersistRefusal, AuditRefusal
    <3>2. UNCHANGED <<decision, status, decidedBy, invoked>>
      BY <2>3 DEF PersistRefusal, AuditRefusal
    <3> QED BY <3>1, <3>2
  <2> QED BY <1>6, <2>1, <2>2, <2>3
<1>7. ASSUME NEW c \in Call,
             \/ AuditStart(c) \/ InvokeTool(c) \/ ToolReturns(c) \/ PersistExecution(c)
             \/ AuditCompletion(c)
      PROVE  AuthorityHeld'
  <2>1. CASE AuditStart(c)
    BY <2>1 DEF AuditStart
  <2>2. CASE InvokeTool(c)
    BY <2>2 DEF InvokeTool
  <2>3. CASE ToolReturns(c) \/ PersistExecution(c) \/ AuditCompletion(c)
    BY <2>3 DEF ToolReturns, PersistExecution, AuditCompletion
  <2> QED BY <1>7, <2>1, <2>2, <2>3
<1>8. ASSUME NEW c \in Call, Fault(c) PROVE AuthorityHeld'
  BY <1>8 DEF Fault, PolicyError, DbError, TimerError
<1>9. ASSUME NEW c \in Call, NEW answer \in Answer, TimerFires(c) \/ HumanDecides(c, answer)
      PROVE  AuthorityHeld'
  <2>1. CASE TimerFires(c)
    BY <2>1 DEF TimerFires, TryDecide
  <2>2. CASE HumanDecides(c, answer)
    BY <2>2 DEF HumanDecides, TryDecide
  <2> QED BY <1>9, <2>1, <2>2
<1>10. ASSUME NEW c \in Call, NEW answer \in Answer, Wake(c, answer) PROVE AuthorityHeld'
  BY <1>10 DEF Wake
<1>11. CASE AdminEditsRules \/ StartupSeed \/ UNCHANGED vars
  BY <1>11 DEF AdminEditsRules, StartupSeed, vars
<1>12. CASE Crash
  BY <1>12 DEF Crash, Ended
<1>13. CASE StartupReconcile
  BY <1>13 DEF StartupReconcile
<1> QED BY <1>1, <1>2, <1>3, <1>4, <1>5, <1>6, <1>7, <1>8, <1>9, <1>10, <1>11, <1>12, <1>13
        DEF Next, Proceed, Answer

THEOREM Invariance == Spec => []InductiveInv
<1>1. InductiveInv /\ [Next]_vars => InductiveInv'
  <2> SUFFICES ASSUME InductiveInv, [Next]_vars PROVE InductiveInv'
    OBVIOUS
  <2>1. TypeInv'
    <3>1. TypeInv
      BY DEF InductiveInv
    <3>2. TypeOK'
      BY <3>1, TypeProceed, TypeOthers
    <3> QED BY <3>1, <3>2, DecisionStep DEF TypeInv
  <2> QED BY <2>1, QuietStep, RowStep, AnswerStep, ArrivalStep, AuthorityStep DEF InductiveInv
<1> QED BY <1>1, InductiveInit, PTL DEF Spec

\* Nothing runs without an ALLOW or a person's approval; see Authorised.
THEOREM NothingUnauthorised == Spec => []Authorised
<1>1. InductiveInv => Authorised
  BY DEF InductiveInv, AuthorityHeld, Authority, Authorised
<1> QED BY <1>1, Invariance, PTL

\* No call is told anything but what its row says; see AnswerIsTheRows.
THEOREM AnswersAreTheRows == Spec => []AnswerIsTheRows
<1>1. InductiveInv => AnswerIsTheRows
  BY DEF InductiveInv
<1> QED BY <1>1, Invariance, PTL

\* The order of registering and persisting loses no decision; see NoLostWakeup.
THEOREM NoWakeupLost == Spec => []NoLostWakeup
<1>1. InductiveInv => NoLostWakeup
  <2> SUFFICES ASSUME InductiveInv, NEW c \in Call, pc[c] \in {"announcing", "waiting"},
                      status[c] \in {"APPROVED", "DENIED"}
               PROVE  \/ pending[c] = IF status[c] = "APPROVED" THEN "approve" ELSE "reject"
                      \/ /\ pending[c] = "pending"
                         /\ \E answer \in Answer : <<c, answer>> \in wakes
    BY DEF NoLostWakeup
  <2>1. CASE pending[c] \in Answer
    <3>1. status[c] = StatusOf(pending[c])
      BY <2>1 DEF InductiveInv, AnswerIsTheRows
    <3> QED BY <2>1, <3>1 DEF StatusOf, Answer
  <2>2. CASE pending[c] \notin Answer
    BY <2>2 DEF InductiveInv, AnswerArrives, None
  <2> QED BY <2>1, <2>2
<1> QED BY <1>1, Invariance, PTL

\* No step changes a decided row.
LEMMA RowsStand ==
    ASSUME InductiveInv, [Next]_vars, NEW k \in Call, status[k] \in {"APPROVED", "DENIED"}
    PROVE  status'[k] = status[k] /\ decidedBy'[k] = decidedBy[k]
<1> USE DEF InductiveInv, TypeInv, TypeOK, None, approvalRow
<1>1. ASSUME NEW c \in Call, PersistApprovalRequest(c)
      PROVE  status'[k] = status[k] /\ decidedBy'[k] = decidedBy[k]
  <2>1. status[c] = None
    BY <1>1 DEF PersistApprovalRequest, Goto, RowFollowsDecision, Unasked
  <2> QED BY <1>1, <2>1 DEF PersistApprovalRequest
<1>2. ASSUME NEW c \in Call, Proceed(c) \/ Request(c) \/ Fault(c), ~PersistApprovalRequest(c)
      PROVE  UNCHANGED <<status, decidedBy>>
  BY <1>2 DEF Proceed, Request, Fault, PolicyError, DbError, TimerError, AuditRequest,
              Decide, AuditDecision, AuditApprovalRequired, Resume, AuditOutcome, Recheck,
              PersistRefusal, AuditRefusal, AuditStart, InvokeTool, ToolReturns,
              PersistExecution, AuditCompletion
<1>3. ASSUME NEW c \in Call, NEW answer \in Answer, TimerFires(c) \/ HumanDecides(c, answer)
      PROVE  status'[k] = status[k] /\ decidedBy'[k] = decidedBy[k]
  BY <1>3 DEF TimerFires, HumanDecides, TryDecide
<1>4. ASSUME NEW c \in Call, NEW answer \in Answer, Wake(c, answer)
      PROVE  UNCHANGED <<status, decidedBy>>
  BY <1>4 DEF Wake
<1>5. CASE AdminEditsRules \/ StartupSeed \/ Crash \/ UNCHANGED vars
  BY <1>5 DEF AdminEditsRules, StartupSeed, Crash, vars
<1>6. CASE StartupReconcile
  BY <1>6 DEF StartupReconcile
<1> QED BY <1>1, <1>2, <1>3, <1>4, <1>5, <1>6 DEF Next, Answer

\* A decided request stays as it was decided; see FirstDecisionStands.
THEOREM DecisionsAreFinal == Spec => FirstDecisionStands
<1> DEFINE Stands == \A c \in Call : status[c] \in {"APPROVED", "DENIED"} =>
                       status'[c] = status[c] /\ decidedBy'[c] = decidedBy[c]
<1>1. InductiveInv /\ [Next]_vars => Stands
  BY RowsStand
<1> HIDE DEF Stands
<1>2. Spec => [][Stands]_vars
  BY <1>1, Invariance, PTL DEF Spec
<1> QED BY <1>2, PTL DEF FirstDecisionStands, Stands

(***************************************************************************)
(* The records a call leaves.  What tool_executions and audit_logs may say *)
(* depends on how far the call is: Ledger and Trail say how, for each      *)
(* label, also for a call that was cut short.                              *)
(***************************************************************************)

CutShort == {"raised", "lost"}
Sent == {"executing", "recording", "completing"}
Recorded == {"failing", "completing", "returned"}

Ledger(c) ==
    /\ invoked[c] => pc[c] \in Sent \cup {"returned"} \cup CutShort
    /\ pc[c] \in Sent => invoked[c]
    /\ execution[c] # {} => pc[c] \in Recorded \cup CutShort
    /\ pc[c] \in Recorded =>
         \E row \in Execution : execution[c] = {row} /\ row.ok = result[c].ok
    /\ pc[c] = "failing" => ~result[c].ok
    /\ \A row \in execution[c] : /\ row.ok => invoked[c]
                                 /\ row.action = "DENY" => ~invoked[c]
                                 /\ row.action = "ALLOW" => invoked[c]

Trail(c) ==
    /\ pc[c] \notin {"idle", "requesting"} \cup CutShort => Logged(c, "tool_requested")
    /\ pc[c] \in AfterAsking \cup {"asking", "starting", "calling"} =>
         Logged(c, "policy_decided")
    /\ pc[c] = "rechecking" => Logged(c, "approval_granted")
    /\ pc[c] \in {"starting", "calling"} /\ decision[c] = "REQUIRE_APPROVAL" =>
         Logged(c, "approval_granted")
    /\ pc[c] = "calling" => Logged(c, "execution_started")


\* AuditIsTruthful, call by call.
LoggedBefore(c) ==
    invoked[c] =>
        /\ Logged(c, "tool_requested") /\ Logged(c, "policy_decided")
        /\ Logged(c, "execution_started")
        /\ decision[c] = "REQUIRE_APPROVAL" => Logged(c, "approval_granted")

LoggedAfter(c) ==
    /\ Logged(c, "approval_granted") => status[c] = "APPROVED" /\ decidedBy[c] = "human"
    /\ Logged(c, "approval_rejected") => status[c] = "DENIED"
    /\ Logged(c, "execution_completed") => invoked[c] /\ \E row \in execution[c] : row.ok
    /\ Logged(c, "execution_failed") => \E row \in execution[c] : ~row.ok
    /\ Logged(c, "tool_execution") <=> \E row \in execution[c] : row.flagged

Records(c) == Ledger(c) /\ Trail(c) /\ LoggedBefore(c) /\ LoggedAfter(c)

RecordsInv == \A c \in Call : Records(c)

\* What a step does to the trail.
LEMMA LogGrows ==
    ASSUME TypeOK, NEW c \in Call, NEW event \in Event, Audit(c, event)
    PROVE  \A e : Logged(c, e)' <=> Logged(c, e) \/ e = event
<1>1. audit[c] \in Seq(Event) /\ audit'[c] = Append(audit[c], event)
  BY DEF TypeOK, Audit
<1>2. ASSUME NEW e PROVE Logged(c, e)' <=> Logged(c, e) \/ e = event
  <2>1. DOMAIN audit'[c] = 1..(Len(audit[c]) + 1) /\ DOMAIN audit[c] = 1..Len(audit[c])
    BY <1>1
  <2>2. audit'[c][Len(audit[c]) + 1] = event
    BY <1>1
  <2>3. \A i \in 1..Len(audit[c]) : audit'[c][i] = audit[c][i]
    BY <1>1
  <2>4. Len(audit[c]) \in Nat
    BY <1>1
  <2> QED BY <2>1, <2>2, <2>3, <2>4, SMTT(40) DEF Logged
<1> QED BY <1>2

LEMMA LogStays ==
    ASSUME NEW c \in Call, audit'[c] = audit[c]
    PROVE  \A e : Logged(c, e)' <=> Logged(c, e)
BY DEF Logged

\* A call that is not the one that moves keeps all it has.
Untouched(k) ==
    /\ pc'[k] = pc[k] /\ decision'[k] = decision[k] /\ outcome'[k] = outcome[k]
    /\ result'[k] = result[k] /\ pending'[k] = pending[k] /\ timer'[k] = timer[k]
    /\ status'[k] = status[k] /\ decidedBy'[k] = decidedBy[k] /\ audit'[k] = audit[k]
    /\ execution'[k] = execution[k] /\ invoked'[k] = invoked[k]

Moves(c) ==
    \/ Request(c) \/ Proceed(c) \/ Fault(c) \/ TimerFires(c)
    \/ \E answer \in Answer : HumanDecides(c, answer) \/ Wake(c, answer)

LEMMA OthersAreUntouched ==
    ASSUME TypeOK, NEW c \in Call, Moves(c), NEW k \in Call, k # c
    PROVE  Untouched(k)
<1> USE DEF TypeOK, Untouched, Goto, Audit, registry, approvalRow, world
<1>1. CASE Request(c) \/ AuditRequest(c) \/ Decide(c)
  BY <1>1 DEF Request, AuditRequest, Decide
<1>2. CASE AuditDecision(c)
  BY <1>2 DEF AuditDecision
<1>3. CASE PersistApprovalRequest(c) \/ AuditApprovalRequired(c) \/ Resume(c)
  BY <1>3 DEF PersistApprovalRequest, AuditApprovalRequired, Resume
<1>4. CASE AuditOutcome(c) \/ Recheck(c)
  BY <1>4 DEF AuditOutcome, Recheck
<1>5. CASE PersistRefusal(c)
  BY <1>5 DEF PersistRefusal, PersistToolExecution
<1>6. CASE AuditRefusal(c) \/ AuditStart(c) \/ InvokeTool(c)
  BY <1>6 DEF AuditRefusal, AuditStart, InvokeTool
<1>7. CASE ToolReturns(c)
  BY <1>7 DEF ToolReturns
<1>8. CASE PersistExecution(c)
  BY <1>8 DEF PersistExecution, PersistToolExecution
<1>9. CASE AuditCompletion(c)
  BY <1>9 DEF AuditCompletion
<1>10. CASE Fault(c)
  BY <1>10 DEF Fault, PolicyError, DbError, TimerError
<1>11. CASE TimerFires(c)
  BY <1>11 DEF TimerFires, TryDecide
<1>12. ASSUME NEW answer \in Answer, HumanDecides(c, answer) \/ Wake(c, answer)
       PROVE  Untouched(k)
  BY <1>12 DEF HumanDecides, Wake, TryDecide
<1> QED BY <1>1, <1>2, <1>3, <1>4, <1>5, <1>6, <1>7, <1>8, <1>9, <1>10, <1>11, <1>12
        DEF Moves, Proceed

\* A step that leaves the call where it is, or cuts it short, and its records alone.
LEMMA RecordsKept ==
    ASSUME InductiveInv, [Next]_vars, NEW k \in Call, Records(k),
           pc'[k] = pc[k] \/ pc'[k] \in CutShort,
           decision'[k] = decision[k], result'[k] = result[k], audit'[k] = audit[k],
           execution'[k] = execution[k], invoked'[k] = invoked[k]
    PROVE  Records(k)'
<1>1. \A e : Logged(k, e)' <=> Logged(k, e)
  BY LogStays
<1>2. Ledger(k)'
  BY DEF Records, Ledger, Sent, Recorded, CutShort
<1>3. Trail(k)'
  BY <1>1 DEF Records, Trail, CutShort, AfterAsking
<1>4. LoggedBefore(k)'
  BY <1>1 DEF Records, LoggedBefore
<1>5. LoggedAfter(k)'
  BY <1>1, RowsStand DEF Records, LoggedAfter
<1> QED BY <1>2, <1>3, <1>4, <1>5 DEF Records

\* A step to another label that logs nothing.
LEMMA RecordsSilent ==
    ASSUME InductiveInv, NEW c \in Call, Records(c),
           Request(c) \/ Decide(c) \/ PolicyError(c) \/ PersistApprovalRequest(c)
             \/ Resume(c) \/ Recheck(c) \/ PersistRefusal(c) \/ InvokeTool(c)
             \/ ToolReturns(c)
    PROVE  Records(c)'
<1> USE DEF InductiveInv, TypeInv, TypeOK, Goto, registry, approvalRow, world
<1>1. audit'[c] = audit[c]
  BY DEF Request, Decide, PolicyError, PersistApprovalRequest, Resume, Recheck,
         PersistRefusal, InvokeTool, ToolReturns
<1>2. \A e : Logged(c, e)' <=> Logged(c, e)
  BY <1>1, LogStays
<1> USE <1>2 DEF Records, Ledger, Trail, LoggedBefore, LoggedAfter, Sent, Recorded,
                 CutShort, AfterAsking
<1>3. CASE Request(c)
  BY <1>3 DEF Request
<1>4. CASE Decide(c)
  BY <1>4 DEF Decide
<1>5. CASE PolicyError(c)
  BY <1>5 DEF PolicyError
<1>6. CASE PersistApprovalRequest(c)
  <2>1. status[c] = None
    BY <1>6 DEF PersistApprovalRequest, RowFollowsDecision, Unasked
  <2> QED BY <1>6, <2>1 DEF PersistApprovalRequest, None
<1>7. CASE Resume(c)
  BY <1>7 DEF Resume
<1>8. CASE Recheck(c)
  BY <1>8 DEF Recheck
<1>9. CASE PersistRefusal(c)
  <2> DEFINE row == [action |-> RefusedAction(c), ok |-> FALSE, flagged |-> FALSE]
  <2>1. ~invoked[c] /\ execution[c] = {}
    BY <1>9 DEF PersistRefusal
  <2>2. RefusedAction(c) \in {"DENY", "REQUIRE_APPROVAL"}
    <3>1. CASE outcome[c] = "reject"
      <4>1. status[c] = "DENIED"
        BY <3>1 DEF AnswerIsTheRows, Answer, StatusOf
      <4> QED BY <3>1, <4>1 DEF RefusedAction, RowFollowsDecision, None
    <3> QED BY <3>1 DEF RefusedAction
  <2>3. execution'[c] = {row}
    BY <1>9, <2>1 DEF PersistRefusal, PersistToolExecution
  <2>4. row \in Execution /\ row.action # "ALLOW" /\ row.ok = FALSE
        /\ ~row.flagged
    BY <2>2 DEF Execution, Action
  <2>5. result'[c].ok = FALSE /\ pc[c] = "refusing" /\ pc'[c] = "failing"
        /\ UNCHANGED <<decision, status, decidedBy, invoked>>
    BY <1>9 DEF PersistRefusal, Refusal
  <2> HIDE DEF row
  <2>6. Ledger(c)'
    <3>1. \E r \in Execution : execution'[c] = {r} /\ r.ok = result'[c].ok
      BY <2>3, <2>4, <2>5
    <3> QED BY <2>1, <2>3, <2>4, <2>5, <3>1
  <2>7. LoggedAfter(c)'
    BY <2>1, <2>3, <2>4, <2>5
  <2> QED BY <2>1, <2>5, <2>6, <2>7
<1>10. CASE InvokeTool(c)
  BY <1>10 DEF InvokeTool, AuthorityHeld, Authority
<1>11. CASE ToolReturns(c)
  BY <1>11 DEF ToolReturns
<1> QED BY <1>3, <1>4, <1>5, <1>6, <1>7, <1>8, <1>9, <1>10, <1>11

\* A step that ends with an audit event.
LEMMA RecordsAudited ==
    ASSUME InductiveInv, NEW c \in Call, Records(c),
           AuditRequest(c) \/ AuditDecision(c) \/ AuditApprovalRequired(c)
             \/ AuditOutcome(c) \/ AuditRefusal(c) \/ AuditStart(c) \/ AuditCompletion(c)
    PROVE  Records(c)'
<1> USE DEF InductiveInv, TypeInv, TypeOK, Goto, registry, approvalRow, world
<1>1. ASSUME NEW event \in Event, Audit(c, event)
      PROVE  \A e : Logged(c, e)' <=> Logged(c, e) \/ e = event
  BY <1>1, LogGrows
<1> USE DEF Records, Ledger, Trail, LoggedBefore, LoggedAfter, Sent, Recorded,
            CutShort, AfterAsking, Event
<1>2. CASE AuditRequest(c)
  <2>1. \A e : Logged(c, e)' <=> Logged(c, e) \/ e = "tool_requested"
    BY <1>1, <1>2 DEF AuditRequest
  <2> QED BY <1>2, <2>1 DEF AuditRequest
<1>3. CASE AuditDecision(c)
  <2>1. \A e : Logged(c, e)' <=> Logged(c, e) \/ e = "policy_decided"
    BY <1>1, <1>3 DEF AuditDecision
  <2> QED BY <1>3, <2>1 DEF AuditDecision
<1>4. CASE AuditApprovalRequired(c)
  <2>1. \A e : Logged(c, e)' <=> Logged(c, e) \/ e = "approval_required"
    BY <1>1, <1>4 DEF AuditApprovalRequired
  <2> QED BY <1>4, <2>1 DEF AuditApprovalRequired
<1>5. CASE AuditOutcome(c)
  <2>1. CASE outcome[c] = "approve"
    <3>1. \A e : Logged(c, e)' <=> Logged(c, e) \/ e = "approval_granted"
      BY <1>1, <1>5, <2>1 DEF AuditOutcome
    <3>2. status[c] = "APPROVED" /\ decidedBy[c] = "human"
      BY <2>1 DEF AnswerIsTheRows, Answer, StatusOf, RowFollowsDecision
    <3> QED BY <1>5, <2>1, <3>1, <3>2 DEF AuditOutcome
  <2>2. CASE outcome[c] = "reject"
    <3>1. \A e : Logged(c, e)' <=> Logged(c, e) \/ e = "approval_rejected"
      BY <1>1, <1>5, <2>2 DEF AuditOutcome
    <3>2. status[c] = "DENIED"
      BY <2>2 DEF AnswerIsTheRows, Answer, StatusOf
    <3> QED BY <1>5, <2>2, <3>1, <3>2 DEF AuditOutcome
  <2> QED BY <1>5, <2>1, <2>2 DEF AuditOutcome
<1>6. CASE AuditRefusal(c)
  <2>1. \A e : Logged(c, e)' <=> Logged(c, e) \/ e = "execution_failed"
    BY <1>1, <1>6 DEF AuditRefusal
  <2> QED BY <1>6, <2>1 DEF AuditRefusal
<1>7. CASE AuditStart(c)
  <2>1. \A e : Logged(c, e)' <=> Logged(c, e) \/ e = "execution_started"
    BY <1>1, <1>7 DEF AuditStart
  <2> QED BY <1>7, <2>1 DEF AuditStart
<1>8. CASE AuditCompletion(c)
  <2>1. \A e : Logged(c, e)' <=>
          Logged(c, e) \/ e = IF result[c].ok THEN "execution_completed" ELSE "execution_failed"
    BY <1>1, <1>8 DEF AuditCompletion
  <2> QED BY <1>8, <2>1 DEF AuditCompletion
<1> QED BY <1>2, <1>3, <1>4, <1>5, <1>6, <1>7, <1>8

\* The row of an execution, with the flag and the event that go together.
LEMMA RecordsExecution ==
    ASSUME InductiveInv, NEW c \in Call, Records(c), PersistExecution(c)
    PROVE  Records(c)'
<1> USE DEF InductiveInv, TypeInv, TypeOK
<1> DEFINE row == [action |-> decision[c], ok |-> result[c].ok, flagged |-> Flagged(c)]
<1>1. /\ pc[c] = "recording" /\ pc'[c] = "completing"
      /\ UNCHANGED <<decision, result, approvalRow, invoked>>
  BY DEF PersistExecution, Goto
<1>2. invoked[c] /\ execution[c] = {}
  BY <1>1 DEF Records, Ledger, Sent, Recorded, CutShort
<1>3. decision[c] \in {"ALLOW", "REQUIRE_APPROVAL"}
  BY <1>2 DEF AuthorityHeld, Authority
<1>4. row \in Execution
  BY <1>3 DEF Execution, Action, Result, Flagged
<1>5. execution'[c] = {row}
  BY <1>2 DEF PersistExecution, PersistToolExecution
<1>6. Ledger(c)'
  <2> HIDE DEF row
  <2>1. row.ok = result[c].ok /\ row.action # "DENY"
    BY <1>3 DEF row
  <2> QED BY <1>1, <1>2, <1>4, <1>5, <2>1 DEF Ledger, Sent, Recorded, CutShort
<1>7. \A e : Logged(c, e)' <=> Logged(c, e) \/ (Flagged(c) /\ e = "tool_execution")
  <2>1. CASE Flagged(c)
    <3>1. Audit(c, "tool_execution")
      BY <2>1, Zenon DEF PersistExecution
    <3> QED BY <2>1, <3>1, LogGrows DEF Event
  <2>2. CASE ~Flagged(c)
    BY <2>2, LogStays DEF PersistExecution
  <2> QED BY <2>1, <2>2
<1>8. Trail(c)' /\ LoggedBefore(c)'
  BY <1>1, <1>2, <1>7
  DEF Records, Trail, LoggedBefore, CutShort, AfterAsking
<1>9. LoggedAfter(c)'
  <2>1. ~Logged(c, "execution_completed") /\ ~Logged(c, "execution_failed")
        /\ ~Logged(c, "tool_execution")
    BY <1>2 DEF Records, LoggedAfter
  <2>2. Flagged(c) <=> \E r \in execution'[c] : r.flagged
    BY <1>5
  <2> HIDE DEF row
  <2> QED BY <1>1, <1>7, <2>1, <2>2 DEF Records, LoggedAfter, approvalRow
<1> QED BY <1>6, <1>8, <1>9 DEF Records

LEMMA RecordsInit == Init => RecordsInv
BY DEF Init, RecordsInv, Records, Ledger, Trail, LoggedBefore, LoggedAfter, Logged, Sent,
       Recorded, CutShort, AfterAsking

LEMMA RecordsStep == InductiveInv /\ RecordsInv /\ [Next]_vars => RecordsInv'
<1> SUFFICES ASSUME InductiveInv, RecordsInv, [Next]_vars, NEW k \in Call
             PROVE  Records(k)'
  BY DEF RecordsInv
<1>0. Records(k) /\ TypeOK
  BY DEF RecordsInv, InductiveInv, TypeInv
<1>1. ASSUME NEW c \in Call, Moves(c), c # k PROVE Records(k)'
  <2>1. Untouched(k)
    BY <1>0, <1>1, OthersAreUntouched
  <2> QED BY <1>0, <2>1, RecordsKept DEF Untouched
<1>2. CASE Request(k) \/ Proceed(k) \/ PolicyError(k)
  BY <1>0, <1>2, RecordsSilent, RecordsAudited, RecordsExecution DEF Proceed
<1>3. CASE DbError(k) \/ TimerError(k)
  BY <1>0, <1>3, RecordsKept DEF DbError, TimerError, CutShort, TypeOK
<1>4. ASSUME NEW answer \in Answer,
             TimerFires(k) \/ HumanDecides(k, answer) \/ Wake(k, answer)
      PROVE  Records(k)'
  BY <1>0, <1>4, RecordsKept DEF TimerFires, HumanDecides, Wake
<1>5. CASE AdminEditsRules \/ StartupSeed \/ StartupReconcile \/ UNCHANGED vars
  BY <1>0, <1>5, RecordsKept DEF AdminEditsRules, StartupSeed, StartupReconcile, vars
<1>6. CASE Crash
  BY <1>0, <1>6, RecordsKept DEF Crash, CutShort
<1> QED BY <1>1, <1>2, <1>3, <1>4, <1>5, <1>6 DEF Next, Fault, Moves, Answer

\* What each label says of the rows and the trail of a call holds all along, also
\* for a call that a failed commit or a crash cut short.
THEOREM RecordsAreKept == Spec => []RecordsInv
BY RecordsInit, RecordsStep, Invariance, PTL DEF Spec

\* The audit trail tells no less and no more than happened; see AuditIsTruthful.
THEOREM TheTrailIsTruthful == Spec => []AuditIsTruthful
<1>1. RecordsInv => AuditIsTruthful
  BY DEF RecordsInv, Records, LoggedBefore, LoggedAfter, AuditIsTruthful,
         LoggedBeforeExecution, LoggedAfterTheFact
<1> QED BY <1>1, RecordsAreKept, PTL

\* The execution ledger agrees with what was done; see LedgerIsTruthful.
THEOREM TheLedgerIsTruthful == Spec => []LedgerIsTruthful
<1>1. InductiveInv /\ RecordsInv => LedgerIsTruthful
  <2> SUFFICES ASSUME InductiveInv, RecordsInv, NEW c \in Call
               PROVE  /\ \A row \in execution[c] :
                           /\ row.ok => invoked[c]
                           /\ row.action = "DENY" \/ status[c] = "DENIED" => ~invoked[c]
                           /\ row.action = "ALLOW" => invoked[c]
                      /\ pc[c] = "returned" =>
                           \E row \in Execution :
                             execution[c] = {row} /\ row.ok = result[c].ok
    BY DEF LedgerIsTruthful
  <2>1. Ledger(c)
    BY DEF RecordsInv, Records
  <2>2. status[c] = "DENIED" => ~invoked[c]
    BY DEF InductiveInv, AuthorityHeld, Authority, None
  <2> QED BY <2>1, <2>2 DEF Ledger, Recorded
<1> QED BY <1>1, RecordsAreKept, Invariance, PTL

\* A request that is pending has somebody who will deny it; see PendingIsAttended.
THEOREM PendingStaysAttended == Spec => []PendingIsAttended
<1>1. Init => PendingIsAttended
  BY DEF Init, PendingIsAttended, None
<1>2. InductiveInv /\ PendingIsAttended /\ [Next]_vars => PendingIsAttended'
  <2> SUFFICES ASSUME InductiveInv, PendingIsAttended, [Next]_vars, NEW k \in Call,
                      status'[k] = "PENDING", process' = "up", faults' = 0
               PROVE  timer'[k] = "armed" \/ pc'[k] = "announcing"
    BY DEF PendingIsAttended
  <2> DEFINE Before == status[k] = "PENDING" /\ process = "up" /\ faults = 0
             Unmoved == timer'[k] = timer[k] /\ (pc[k] = "announcing" => pc'[k] = pc[k])
  <2>1. Before => timer[k] = "armed" \/ pc[k] = "announcing"
    BY DEF PendingIsAttended
  <2> USE DEF InductiveInv, TypeInv, TypeOK, Goto, registry, approvalRow, world
  <2>2. ASSUME NEW c \in Call, Moves(c), c # k PROVE Before /\ Unmoved
    <3>1. Untouched(k)
      BY <2>2, OthersAreUntouched
    <3>2. process = "up" /\ faults = 0
      <4>1. CASE Request(c) \/ Proceed(c)
        BY <4>1 DEF Request, Proceed, AuditRequest, Decide, AuditDecision,
                    PersistApprovalRequest, AuditApprovalRequired, Resume, AuditOutcome,
                    Recheck, PersistRefusal, AuditRefusal, AuditStart, InvokeTool,
                    ToolReturns, PersistExecution, AuditCompletion
      <4>2. ~Fault(c)
        BY DEF Fault, PolicyError, DbError, TimerError
      <4>3. CASE TimerFires(c)
        BY <4>3 DEF TimerFires
      <4>4. ASSUME NEW answer \in Answer, HumanDecides(c, answer) \/ Wake(c, answer)
            PROVE  process = "up" /\ faults = 0
        BY <4>4 DEF HumanDecides, Wake
      <4> QED BY <2>2, <4>1, <4>2, <4>3, <4>4 DEF Moves
    <3> QED BY <3>1, <3>2 DEF Untouched
  <2>3. CASE PersistApprovalRequest(k)
    BY <2>3 DEF PersistApprovalRequest
  <2>4. CASE AuditApprovalRequired(k)
    BY <2>4 DEF AuditApprovalRequired
  <2>5. ~Resume(k)
    BY DEF Resume, AnswerIsTheRows, StatusOf
  <2>6. CASE /\ Request(k) \/ Proceed(k)
             /\ ~PersistApprovalRequest(k) /\ ~AuditApprovalRequired(k) /\ ~Resume(k)
    <3>1. Before /\ Unmoved
      BY <2>6 DEF Request, Proceed, AuditRequest, Decide, AuditDecision, AuditOutcome,
                  Recheck, PersistRefusal, AuditRefusal, AuditStart, InvokeTool,
                  ToolReturns, PersistExecution, AuditCompletion
    <3> QED BY <2>1, <3>1
  <2>7. ~Fault(k) /\ ~TimerFires(k)
    BY DEF Fault, PolicyError, DbError, TimerError, TimerFires, TryDecide
  <2>8. ASSUME NEW answer \in Answer, HumanDecides(k, answer) \/ Wake(k, answer)
        PROVE  Before /\ Unmoved
    BY <2>8 DEF HumanDecides, Wake, TryDecide, StatusOf
  <2>9. CASE AdminEditsRules \/ UNCHANGED vars
    BY <2>1, <2>9 DEF AdminEditsRules, vars
  <2>10. ~Crash /\ ~StartupSeed
    BY DEF Crash, StartupSeed
  <2>11. ~StartupReconcile
    <3>1. StartupReconcile =>
            status'[k] = IF status[k] = "PENDING" THEN "DENIED" ELSE status[k]
      BY Zenon DEF StartupReconcile
    <3> QED BY <3>1
  <2> QED BY <2>1, <2>2, <2>3, <2>4, <2>5, <2>6, <2>7, <2>8, <2>9, <2>10, <2>11
          DEF Next, Moves, Answer
<1> QED BY <1>1, <1>2, Invariance, PTL DEF Spec

(***************************************************************************)
(* The gateway implements GuardedExecution: every step is a step of the    *)
(* abstract specification on the phase of the call that moves, or none.    *)
(***************************************************************************)

\* The phase of one call changes at a time.
LEMMA PhaseMoves ==
    ASSUME TypeOK, NEW c \in Call, Moves(c)
    PROVE  phase' = [phase EXCEPT ![c] = PhaseOf(c)']
<1>1. ASSUME NEW k \in Call, k # c PROVE PhaseOf(k)' = PhaseOf(k)
  <2>1. Untouched(k)
    BY <1>1, OthersAreUntouched
  <2> QED BY <2>1 DEF Untouched, PhaseOf
<1> QED BY <1>1 DEF phase


\* What its label says of the phase of a call.
PhaseByLabel(c) ==
    /\ PhaseOf(c) = "executed" <=> invoked[c]
    /\ PhaseOf(c) = "idle" <=> ~invoked[c] /\ pc[c] = "idle"
    /\ ~invoked[c] =>
        /\ pc[c] \in {"raised", "lost"} => PhaseOf(c) = "abandoned"
        /\ pc[c] \in Deciding => PhaseOf(c) = "requested"
        /\ pc[c] = "decided" =>
             /\ decision[c] = "ALLOW" => PhaseOf(c) = "permitted"
             /\ decision[c] = "REQUIRE_APPROVAL" => PhaseOf(c) = "awaiting"
             /\ decision[c] = "DENY" => PhaseOf(c) = "refused"
        /\ pc[c] \in Asked =>
             /\ status[c] = "APPROVED" => PhaseOf(c) = "granted"
             /\ status[c] = "DENIED" => PhaseOf(c) = "refused"
             /\ status[c] \notin {"APPROVED", "DENIED"} => PhaseOf(c) = "awaiting"
        /\ pc[c] \in {"starting", "calling"} => PhaseOf(c) = "permitted"
        /\ pc[c] \in {"refusing", "failing", "returned"} => PhaseOf(c) = "refused"

LEMMA PhasesByLabel == ASSUME NEW c \in Call PROVE PhaseByLabel(c) /\ PhaseByLabel(c)'
<1>1. PhaseByLabel(c)
  BY DEF PhaseByLabel, PhaseOf, Deciding, Asked
<1>2. PhaseByLabel(c)'
  BY DEF PhaseByLabel, PhaseOf, Deciding, Asked
<1> QED BY <1>1, <1>2

LEMMA PhaseMove ==
    ASSUME TypeOK, NEW c \in Call, Moves(c), UNCHANGED <<rules, ctx>>,
           NEW from, PhaseOf(c) = from, NEW to, PhaseOf(c)' = to
    PROVE  Guarded!Move(c, from, to)
<1>1. phase[c] = from
  BY DEF phase
<1>2. phase' = [phase EXCEPT ![c] = to]
  BY PhaseMoves
<1> QED BY <1>1, <1>2 DEF Guarded!Move

LEMMA PhaseStays ==
    ASSUME TypeOK, NEW c \in Call, Moves(c), UNCHANGED <<rules, ctx>>, PhaseOf(c)' = PhaseOf(c)
    PROVE  UNCHANGED <<rules, ctx, phase>>
<1>1. phase' = [phase EXCEPT ![c] = PhaseOf(c)]
  BY PhaseMoves
<1>2. phase' = phase
  BY <1>1 DEF phase
<1> QED BY <1>2

\* The steps of a call by itself.
LEMMA CallRefines ==
    ASSUME InductiveInv, RecordsInv, NEW c \in Call,
           Request(c) \/ Proceed(c) \/ PolicyError(c)
    PROVE  [Guarded!Next]_<<rules, ctx, phase>>
<1>1. TypeOK /\ Moves(c) /\ Ledger(c)
  BY DEF InductiveInv, TypeInv, Moves, Fault, RecordsInv, Records
<1>2. UNCHANGED <<rules, ctx>>
  BY DEF Request, Proceed, PolicyError, AuditRequest, Decide, AuditDecision,
         PersistApprovalRequest, AuditApprovalRequired, Resume, AuditOutcome, Recheck,
         PersistRefusal, AuditRefusal, AuditStart, InvokeTool, ToolReturns,
         PersistExecution, AuditCompletion, world
<1>3. PhaseByLabel(c) /\ PhaseByLabel(c)'
  BY PhasesByLabel
<1>4. ASSUME NEW from, NEW to, PhaseOf(c) = from, PhaseOf(c)' = to
      PROVE  Guarded!Move(c, from, to)
  BY <1>1, <1>2, <1>4, PhaseMove
<1>5. ASSUME PhaseOf(c)' = PhaseOf(c) PROVE UNCHANGED <<rules, ctx, phase>>
  BY <1>1, <1>2, <1>5, PhaseStays
<1> USE DEF TypeOK, Goto, Ledger, Sent, CutShort, PhaseByLabel, Deciding, Asked, approvalRow
<1>6. CASE Request(c)
  <2>1. PhaseOf(c) = "idle" /\ PhaseOf(c)' = "requested"
    BY <1>1, <1>3, <1>6 DEF Request
  <2>2. Guarded!Request(c)
    BY <1>4, <2>1 DEF Guarded!Request
  <2> QED BY <2>2 DEF Guarded!Next
<1>7. CASE AuditRequest(c)
  BY <1>1, <1>3, <1>5, <1>7 DEF AuditRequest
<1>8. CASE Decide(c)
  <2>1. Evaluate(ctx[c], rules) \in Action
    BY EvaluateIsAction DEF InductiveInv, TypeInv, RulesTypeOK
  <2>2. PhaseOf(c) = "requested" /\ ~invoked'[c] /\ pc'[c] = "decided"
        /\ decision'[c] = Evaluate(ctx[c], rules)
    BY <1>1, <1>3, <1>8 DEF Decide
  <2>3. CASE Evaluate(ctx[c], rules) = "ALLOW"
    <3>1. PhaseOf(c)' = "permitted"
      BY <1>3, <2>2, <2>3
    <3>2. Guarded!Permit(c)
      BY <1>4, <2>2, <2>3, <3>1 DEF Guarded!Permit
    <3> QED BY <3>2 DEF Guarded!Next
  <2>4. CASE Evaluate(ctx[c], rules) = "REQUIRE_APPROVAL"
    <3>1. PhaseOf(c)' = "awaiting"
      BY <1>3, <2>2, <2>4
    <3>2. Guarded!Ask(c)
      BY <1>4, <2>2, <2>4, <3>1 DEF Guarded!Ask
    <3> QED BY <3>2 DEF Guarded!Next
  <2>5. CASE Evaluate(ctx[c], rules) = "DENY"
    <3>1. PhaseOf(c)' = "refused"
      BY <1>3, <2>2, <2>5
    <3>2. Guarded!Refuse(c)
      BY <1>4, <2>2, <3>1 DEF Guarded!Refuse
    <3> QED BY <3>2 DEF Guarded!Next
  <2> QED BY <2>1, <2>3, <2>4, <2>5 DEF Action
<1>9. CASE PolicyError(c)
  <2>1. PhaseOf(c) = "requested" /\ PhaseOf(c)' = "refused"
    BY <1>1, <1>3, <1>9 DEF PolicyError
  <2>2. Guarded!Refuse(c)
    BY <1>4, <2>1 DEF Guarded!Refuse
  <2> QED BY <2>2 DEF Guarded!Next
<1>10. CASE AuditDecision(c)
  <2>1. status[c] = None /\ ~invoked[c] /\ pc[c] = "decided"
        /\ UNCHANGED <<decision, status, invoked>>
    BY <1>1, <1>10 DEF AuditDecision, InductiveInv, RowFollowsDecision, Unasked
  <2>2. \/ decision[c] = "DENY" /\ pc'[c] = "refusing"
        \/ decision[c] = "REQUIRE_APPROVAL" /\ pc'[c] = "asking"
        \/ decision[c] = "ALLOW" /\ pc'[c] = "starting"
    BY <1>1, <1>10 DEF AuditDecision
  <2> QED BY <1>3, <1>5, <2>1, <2>2 DEF None
<1>11. CASE PersistApprovalRequest(c)
  <2>1. status[c] = None
    BY <1>11 DEF PersistApprovalRequest, InductiveInv, RowFollowsDecision, Unasked
  <2> QED BY <1>1, <1>3, <1>5, <1>11, <2>1 DEF PersistApprovalRequest, None
<1>12. CASE AuditApprovalRequired(c) \/ Resume(c)
  BY <1>1, <1>3, <1>5, <1>12 DEF AuditApprovalRequired, Resume
<1>13. CASE AuditOutcome(c)
  <2>1. \/ pc'[c] = "rechecking"
        \/ pc'[c] = "refusing" /\ status[c] = "DENIED"
    BY <1>1, <1>13 DEF AuditOutcome, InductiveInv, AnswerIsTheRows, Answer, StatusOf
  <2>2. pc[c] = "resolved" /\ ~invoked[c] /\ UNCHANGED <<decision, status, invoked>>
    BY <1>1, <1>13 DEF AuditOutcome
  <2> QED BY <1>3, <1>5, <2>1, <2>2
<1>14. CASE Recheck(c)
  <2>1. PhaseOf(c) = "granted" /\ ~invoked'[c]
    BY <1>1, <1>3, <1>14 DEF Recheck, InductiveInv, AuthorityHeld
  <2>2. CASE Evaluate(ctx[c], rules) = "DENY"
    <3>1. PhaseOf(c)' = "refused"
      BY <1>1, <1>3, <1>14, <2>1, <2>2 DEF Recheck
    <3>2. Guarded!Refuse(c)
      BY <1>4, <2>1, <3>1 DEF Guarded!Refuse
    <3> QED BY <3>2 DEF Guarded!Next
  <2>3. CASE Evaluate(ctx[c], rules) # "DENY"
    <3>1. PhaseOf(c)' = "permitted"
      BY <1>1, <1>3, <1>14, <2>1, <2>3 DEF Recheck
    <3>2. Guarded!Confirm(c)
      BY <1>4, <2>1, <2>3, <3>1 DEF Guarded!Confirm
    <3> QED BY <3>2 DEF Guarded!Next
  <2> QED BY <2>2, <2>3
<1>15. CASE PersistRefusal(c) \/ AuditRefusal(c) \/ AuditStart(c)
  BY <1>1, <1>3, <1>5, <1>15 DEF PersistRefusal, AuditRefusal, AuditStart
<1>16. CASE InvokeTool(c)
  <2>1. PhaseOf(c) = "permitted" /\ PhaseOf(c)' = "executed"
    BY <1>1, <1>3, <1>16 DEF InvokeTool
  <2>2. Guarded!Execute(c)
    BY <1>4, <2>1 DEF Guarded!Execute
  <2> QED BY <2>2 DEF Guarded!Next
<1>17. CASE ToolReturns(c) \/ PersistExecution(c)
  BY <1>1, <1>3, <1>5, <1>17 DEF ToolReturns, PersistExecution
<1>18. CASE AuditCompletion(c)
  BY <1>1, <1>3, <1>5, <1>18 DEF AuditCompletion
<1> QED BY <1>6, <1>7, <1>8, <1>9, <1>10, <1>11, <1>12, <1>13, <1>14, <1>15, <1>16, <1>17,
           <1>18 DEF Proceed

\* The steps of those who answer a call, and its faults.
LEMMA OthersRefine ==
    ASSUME InductiveInv, RecordsInv, NEW c \in Call,
           \/ DbError(c) \/ TimerError(c) \/ TimerFires(c)
           \/ \E answer \in Answer : HumanDecides(c, answer) \/ Wake(c, answer)
    PROVE  [Guarded!Next]_<<rules, ctx, phase>>
<1>1. TypeOK /\ Moves(c) /\ Ledger(c)
  BY DEF InductiveInv, TypeInv, Moves, Fault, RecordsInv, Records
<1>2. UNCHANGED <<rules, ctx>>
  BY DEF DbError, TimerError, TimerFires, HumanDecides, Wake, world
<1>3. PhaseByLabel(c) /\ PhaseByLabel(c)'
  BY PhasesByLabel
<1>4. ASSUME NEW from, NEW to, PhaseOf(c) = from, PhaseOf(c)' = to
      PROVE  Guarded!Move(c, from, to)
  BY <1>1, <1>2, <1>4, PhaseMove
<1>5. ASSUME PhaseOf(c)' = PhaseOf(c) PROVE [Guarded!Next]_<<rules, ctx, phase>>
  BY <1>1, <1>2, <1>5, PhaseStays
<1>6. CASE DbError(c)
  <2>1. CASE invoked[c]
    BY <1>1, <1>3, <1>5, <1>6, <2>1 DEF DbError, PhaseByLabel
  <2>2. CASE ~invoked[c]
    <3>1. PhaseOf(c)' = "abandoned" /\ PhaseOf(c) \notin {"idle", "executed"}
      BY <1>1, <1>3, <1>6, <2>2 DEF DbError, PhaseByLabel, TypeOK, DbLabel
    <3>2. phase' = [k \in Call |-> IF k \in {c} THEN "abandoned" ELSE phase[k]]
      BY <1>1, <3>1, PhaseMoves DEF phase
    <3>3. Guarded!Abandon
      BY <1>2, <3>1, <3>2 DEF Guarded!Abandon, phase
    <3> QED BY <3>3 DEF Guarded!Next
  <2> QED BY <2>1, <2>2
<1>7. ASSUME NEW new \in {"APPROVED", "DENIED"}, NEW by, TryDecide(c, new, by),
             UNCHANGED <<pc, decision, invoked>>
      PROVE  [Guarded!Next]_<<rules, ctx, phase>>
  <2>1. status[c] = "PENDING" /\ status'[c] = new
    BY <1>1, <1>7 DEF TryDecide, TypeOK
  <2>2. CASE pc[c] \in Asked /\ ~invoked[c]
    <3>1. PhaseOf(c) = "awaiting"
      BY <1>3, <2>1, <2>2 DEF PhaseByLabel
    <3>2. CASE new = "APPROVED"
      <4>1. PhaseOf(c)' = "granted"
        BY <1>3, <1>7, <2>1, <2>2, <3>2 DEF PhaseByLabel
      <4>2. Guarded!Grant(c)
        BY <1>4, <3>1, <4>1 DEF Guarded!Grant
      <4> QED BY <4>2 DEF Guarded!Next
    <3>3. CASE new = "DENIED"
      <4>1. PhaseOf(c)' = "refused"
        BY <1>3, <1>7, <2>1, <2>2, <3>3 DEF PhaseByLabel
      <4>2. Guarded!Refuse(c)
        BY <1>4, <3>1, <4>1 DEF Guarded!Refuse
      <4> QED BY <4>2 DEF Guarded!Next
    <3> QED BY <3>2, <3>3
  <2>3. CASE pc[c] \notin Asked \/ invoked[c]
    <3>1. PhaseOf(c)' = PhaseOf(c)
      BY <1>7, <2>3 DEF PhaseOf
    <3> QED BY <1>5, <3>1
  <2> QED BY <2>2, <2>3
<1>8. CASE TimerError(c)
  BY <1>5, <1>8 DEF TimerError, PhaseOf, approvalRow
<1>9. CASE TimerFires(c)
  <2>1. UNCHANGED <<pc, decision, invoked>>
    BY <1>9 DEF TimerFires
  <2>2. CASE TryDecide(c, "DENIED", "system-timeout")
    BY <1>7, <2>1, <2>2
  <2>3. CASE UNCHANGED approvalRow
    BY <1>5, <2>1, <2>3 DEF PhaseOf, approvalRow
  <2> QED BY <1>9, <2>2, <2>3 DEF TimerFires
<1>10. ASSUME NEW answer \in Answer, HumanDecides(c, answer)
       PROVE  [Guarded!Next]_<<rules, ctx, phase>>
  BY <1>7, <1>10 DEF HumanDecides, StatusOf
<1>11. ASSUME NEW answer \in Answer, Wake(c, answer)
       PROVE  [Guarded!Next]_<<rules, ctx, phase>>
  BY <1>5, <1>11 DEF Wake, PhaseOf, approvalRow
<1> QED BY <1>6, <1>8, <1>9, <1>10, <1>11

\* A crash abandons every call that is under way and was not sent.
LEMMA CrashRefines == ASSUME InductiveInv, RecordsInv, Crash PROVE Guarded!Abandon
<1> DEFINE C == {c \in Call : ~invoked[c] /\ pc[c] \notin Ended \cup {"idle"}}
<1>1. ASSUME NEW c \in C PROVE phase[c] \notin {"idle", "executed"} /\ PhaseOf(c)' = "abandoned"
  <2>1. PhaseByLabel(c) /\ PhaseByLabel(c)'
    BY PhasesByLabel
  <2>2. ~invoked'[c] /\ pc'[c] = "lost"
    BY DEF Crash
  <2> QED BY <2>1, <2>2 DEF PhaseByLabel, phase
<1>2. ASSUME NEW c \in Call, c \notin C PROVE PhaseOf(c)' = phase[c]
  <2>1. invoked'[c] = invoked[c] /\ decision'[c] = decision[c] /\ status'[c] = status[c]
    BY DEF Crash, approvalRow
  <2>2. invoked[c] \/ pc'[c] = pc[c]
    BY <1>2 DEF Crash
  <2> QED BY <2>1, <2>2 DEF PhaseOf, phase
<1>3. phase' = [c \in Call |-> IF c \in C THEN "abandoned" ELSE phase[c]]
  <2> HIDE DEF C
  <2>1. C \subseteq Call
    BY DEF C
  <2> QED BY <1>1, <1>2, <2>1 DEF phase
<1>4. UNCHANGED <<rules, ctx>>
  BY DEF Crash
<1>5. C \in SUBSET Call
  OBVIOUS
<1> HIDE DEF C
<1> QED BY <1>1, <1>3, <1>4, <1>5 DEF Guarded!Abandon

\* Every behaviour of the gateway is one that GuardedExecution allows; see
\* ImplementsGuardedExecution.
THEOREM GatewayIsGuarded == Spec => ImplementsGuardedExecution
<1>1. Init => Guarded!Init
  <2> SUFFICES ASSUME Init PROVE Guarded!Init
    OBVIOUS
  <2>1. ASSUME NEW c \in Call PROVE PhaseOf(c) = "idle"
    <3>1. pc[c] = "idle" /\ invoked[c] = FALSE
      BY DEF Init
    <3> QED BY <3>1, PhasesByLabel DEF PhaseByLabel
  <2> QED BY <2>1 DEF Init, Guarded!Init, phase
<1>2. InductiveInv /\ RecordsInv /\ [Next]_vars => [Guarded!Next]_<<rules, ctx, phase>>
  <2> SUFFICES ASSUME InductiveInv, RecordsInv, [Next]_vars
               PROVE  [Guarded!Next]_<<rules, ctx, phase>>
    OBVIOUS
  <2>1. ASSUME NEW c \in Call, Request(c) \/ Proceed(c) \/ PolicyError(c)
        PROVE  [Guarded!Next]_<<rules, ctx, phase>>
    BY <2>1, CallRefines
  <2>2. ASSUME NEW c \in Call, DbError(c) \/ TimerError(c) \/ TimerFires(c)
        PROVE  [Guarded!Next]_<<rules, ctx, phase>>
    BY <2>2, OthersRefine
  <2>3. ASSUME NEW c \in Call, NEW answer \in Answer, HumanDecides(c, answer) \/ Wake(c, answer)
        PROVE  [Guarded!Next]_<<rules, ctx, phase>>
    BY <2>3, OthersRefine
  <2>4. CASE AdminEditsRules \/ StartupSeed
    <3>1. UNCHANGED <<ctx, phase>>
      BY <2>4 DEF AdminEditsRules, StartupSeed, phase, PhaseOf, approvalRow
    <3> QED BY <3>1 DEF Guarded!Next, Guarded!ChangeRules
  <2>5. CASE Crash
    BY <2>5, CrashRefines DEF Guarded!Next
  <2>6. CASE StartupReconcile
    <3>1. \A c \in Call : pc[c] \in Ended \cup {"idle"}
      BY <2>6 DEF StartupReconcile, InductiveInv, DeadIsQuiet
    <3>2. UNCHANGED <<rules, ctx, pc, decision, invoked>>
      BY <2>6 DEF StartupReconcile
    <3>3. \A c \in Call : PhaseOf(c)' = PhaseOf(c)
      BY <3>1, <3>2 DEF PhaseOf, Ended, Asked, Deciding
    <3> QED BY <3>2, <3>3 DEF phase
  <2>7. CASE UNCHANGED vars
    BY <2>7 DEF vars, phase, PhaseOf
  <2> QED BY <2>1, <2>2, <2>3, <2>4, <2>5, <2>6, <2>7 DEF Next, Fault, Answer
<1> QED BY <1>1, <1>2, Invariance, RecordsAreKept, PTL
        DEF Spec, ImplementsGuardedExecution, Guarded!Spec
=============================================================================
