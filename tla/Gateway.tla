------------------------------ MODULE Gateway -------------------------------
(***************************************************************************)
(* ToolExecutionGateway.execute_tool() (backend/gateway.py) with everybody *)
(* who races with it: the person answering POST /approvals/{id}, the       *)
(* auto-deny timer, the admin editing rules, failing database commits, and *)
(* a crash of the process with the startup that follows.                   *)
(*                                                                         *)
(* The process is one asyncio event loop: a coroutine runs from one await  *)
(* to the next without interruption, so a step of a call is what it does   *)
(* between two of its awaits, ending with the commit it awaits.  pc[c]     *)
(* names the next one.  A broadcast is an await too, but nothing here      *)
(* reads what it sends and a failure of it is swallowed (_safe_broadcast), *)
(* so it is merged with the audit commit after it.                         *)
(*                                                                         *)
(* In memory, lost in a crash: pc, decision, outcome, result, pending (the *)
(* futures of ApprovalManager), timer, wakes.  On disk: rules, status and  *)
(* decidedBy (approval_requests), audit (audit_logs), execution            *)
(* (tool_executions).  Outside the process: invoked.                       *)
(***************************************************************************)
EXTENDS PolicyStore

CONSTANTS Call,         \* calls of execute_tool
          ScannedTools, \* tools whose results are scanned for injection
          MaxFaults,    \* bound on the database operations that fail
          MaxCrashes    \* bound on the crashes of the process

ASSUME BoundsAssumption == MaxFaults \in Nat /\ MaxCrashes \in Nat

VARIABLES
    process,    \* the backend: "down", "starting" or "up"
    ctx,        \* the PolicyContext execute_tool(c) is called with
    pc,         \* where the coroutine of the call is
    decision,   \* the local variable decision (its action)
    outcome,    \* the local variable outcome: what the future resolved to
    result,     \* the local variable result
    pending,    \* ApprovalManager._pending
    timer,      \* the _auto_deny task
    wakes,      \* wake(id, d) calls that winners of try_decide still have to make
    status,     \* approval_requests.status, "NONE" where there is no row
    decidedBy,  \* approval_requests.decided_by, "NULL" where it is null
    audit,      \* the audit_logs rows of each call, in order
    execution,  \* the tool_executions rows of each call
    invoked,    \* the tool server has been sent the call
    faults, crashes

vars == <<rules, process, ctx, pc, decision, outcome, result, pending, timer, wakes,
          status, decidedBy, audit, execution, invoked, faults, crashes>>

\* Variables grouped by what a step of a call may leave alone.
approvalRow == <<status, decidedBy>>
registry == <<pending, timer, wakes>>
world == <<rules, process, ctx, faults, crashes>>

None == "NONE"
Answer == {"approve", "reject"}

\* A step that ends in a database operation of the call.
DbLabel == {"requesting", "deciding", "decided", "asking", "announcing", "resolved",
            "rechecking", "refusing", "failing", "starting", "recording", "completing"}
Ended == {"returned", "raised", "lost"}
Label == DbLabel \cup {"idle", "waiting", "calling", "executing"} \cup Ended

Event == {"tool_requested", "policy_decided", "approval_required", "approval_granted",
          "approval_rejected", "execution_started", "execution_completed",
          "execution_failed", "tool_execution"}

Result == [ok: BOOLEAN, suspicious: BOOLEAN]
Execution == [action: Action, ok: BOOLEAN, flagged: BOOLEAN]

\* The result of a refused call, and of one that has none yet.
Refusal == [ok |-> FALSE, suspicious |-> FALSE]

TypeOK ==
    /\ RulesTypeOK
    /\ process \in {"down", "starting", "up"}
    /\ ctx \in [Call -> Context]
    /\ pc \in [Call -> Label]
    /\ decision \in [Call -> Action \cup {None}]
    /\ outcome \in [Call -> Answer \cup {None}]
    /\ result \in [Call -> Result]
    /\ pending \in [Call -> Answer \cup {None, "pending"}]
    /\ timer \in [Call -> {"off", "armed"}]
    /\ wakes \subseteq Call \X Answer
    /\ status \in [Call -> {None, "PENDING", "APPROVED", "DENIED"}]
    /\ decidedBy \in [Call -> {"NULL", "human", "system-timeout", "system-restart"}]
    /\ audit \in [Call -> Seq(Event)]
    /\ execution \in [Call -> SUBSET Execution]
    /\ invoked \in [Call -> BOOLEAN]
    /\ faults \in 0..MaxFaults
    /\ crashes \in 0..MaxCrashes

Init ==
    /\ InitRules
    /\ process = "up"
    /\ ctx \in [Call -> Context]
    /\ pc = [c \in Call |-> "idle"]
    /\ decision = [c \in Call |-> None]
    /\ outcome = [c \in Call |-> None]
    /\ result = [c \in Call |-> Refusal]
    /\ pending = [c \in Call |-> None]
    /\ timer = [c \in Call |-> "off"]
    /\ wakes = {}
    /\ status = [c \in Call |-> None]
    /\ decidedBy = [c \in Call |-> "NULL"]
    /\ audit = [c \in Call |-> <<>>]
    /\ execution = [c \in Call |-> {}]
    /\ invoked = [c \in Call |-> FALSE]
    /\ faults = 0
    /\ crashes = 0

-----------------------------------------------------------------------------
(* execute_tool, await by await.                                           *)

Goto(c, from, to) == pc[c] = from /\ pc' = [pc EXCEPT ![c] = to]

\* _audit(event, ...)
Audit(c, event) == audit' = [audit EXCEPT ![c] = Append(@, event)]

\* The agent loop calls execute_tool.
Request(c) ==
    /\ process = "up"
    /\ Goto(c, "idle", "requesting")
    /\ UNCHANGED <<decision, outcome, result, registry, approvalRow, audit, execution,
                   invoked, world>>

AuditRequest(c) ==
    /\ Goto(c, "requesting", "deciding")
    /\ Audit(c, "tool_requested")
    /\ UNCHANGED <<decision, outcome, result, registry, approvalRow, execution, invoked,
                   world>>

\* load_rules and evaluate
Decide(c) ==
    /\ Goto(c, "deciding", "decided")
    /\ decision' = [decision EXCEPT ![c] = Evaluate(ctx[c], rules)]
    /\ UNCHANGED <<outcome, result, registry, approvalRow, audit, execution, invoked, world>>

\* Mutant: the except branch falls through to execution.
PolicyErrorFailsOpen(c) ==
    /\ faults < MaxFaults
    /\ faults' = faults + 1
    /\ Goto(c, "deciding", "starting")
    /\ UNCHANGED <<decision, outcome, result, registry, approvalRow, audit, execution,
                   invoked, rules, process, ctx, crashes>>

\* load_rules throws: the except branch denies without a policy_decided event.
PolicyError(c) ==
    /\ faults < MaxFaults
    /\ faults' = faults + 1
    /\ Goto(c, "deciding", "refusing")
    /\ UNCHANGED <<decision, outcome, result, registry, approvalRow, audit, execution,
                   invoked, rules, process, ctx, crashes>>

\* Audit the decision and branch on it; REQUIRE_APPROVAL registers its future
\* before the first await of its branch.
AuditDecision(c) ==
    /\ Audit(c, "policy_decided")
    /\ \/ /\ decision[c] = "DENY"
          /\ Goto(c, "decided", "refusing")
          /\ UNCHANGED pending
       \/ /\ decision[c] = "REQUIRE_APPROVAL"
          /\ Goto(c, "decided", "asking")
          /\ pending' = [pending EXCEPT ![c] = "pending"]
       \/ /\ decision[c] = "ALLOW"
          /\ Goto(c, "decided", "starting")
          /\ UNCHANGED pending
    /\ UNCHANGED <<decision, outcome, result, timer, wakes, approvalRow, execution,
                   invoked, world>>

PersistApprovalRequest(c) ==
    /\ Goto(c, "asking", "announcing")
    /\ status' = [status EXCEPT ![c] = "PENDING"]
    /\ UNCHANGED <<decision, outcome, result, registry, decidedBy, audit, execution,
                   invoked, world>>

\* Mutant: the future is registered only when the call starts to wait for it.
RegisterLate(c) ==
    /\ Goto(c, "announcing", "waiting")
    /\ Audit(c, "approval_required")
    /\ timer' = [timer EXCEPT ![c] = "armed"]
    /\ pending' = [pending EXCEPT ![c] = "pending"]
    /\ UNCHANGED <<decision, outcome, result, wakes, approvalRow, execution, invoked, world>>

\* Mutant: no timer.
NoTimer(c) ==
    /\ Goto(c, "announcing", "waiting")
    /\ Audit(c, "approval_required")
    /\ UNCHANGED <<decision, outcome, result, registry, approvalRow, execution, invoked, world>>

\* Audit approval_required, start the timer, and wait for the future.
AuditApprovalRequired(c) ==
    /\ Goto(c, "announcing", "waiting")
    /\ Audit(c, "approval_required")
    /\ timer' = [timer EXCEPT ![c] = "armed"]
    /\ UNCHANGED <<decision, outcome, result, pending, wakes, approvalRow, execution,
                   invoked, world>>

\* The future is done: cancel the timer, discard the registration.
Resume(c) ==
    /\ Goto(c, "waiting", "resolved")
    /\ pending[c] \in Answer
    /\ outcome' = [outcome EXCEPT ![c] = pending[c]]
    /\ pending' = [pending EXCEPT ![c] = None]
    /\ timer' = [timer EXCEPT ![c] = "off"]
    /\ UNCHANGED <<decision, result, wakes, approvalRow, audit, execution, invoked, world>>

\* Mutant: a rejected call returns without its tool_executions row.
RejectUnrecorded(c) ==
    /\ \/ /\ outcome[c] = "approve"
          /\ Audit(c, "approval_granted")
          /\ Goto(c, "resolved", "rechecking")
       \/ /\ outcome[c] = "reject"
          /\ Audit(c, "approval_rejected")
          /\ Goto(c, "resolved", "failing")
    /\ UNCHANGED <<decision, outcome, result, registry, approvalRow, execution, invoked,
                   world>>

AuditOutcome(c) ==
    /\ \/ /\ outcome[c] = "approve"
          /\ Audit(c, "approval_granted")
          /\ Goto(c, "resolved", "rechecking")
       \/ /\ outcome[c] = "reject"
          /\ Audit(c, "approval_rejected")
          /\ Goto(c, "resolved", "refusing")
    /\ UNCHANGED <<decision, outcome, result, registry, approvalRow, execution, invoked,
                   world>>

\* Mutant: the policy is not looked at again after the approval.
NoRecheck(c) ==
    /\ Goto(c, "rechecking", "starting")
    /\ UNCHANGED <<decision, outcome, result, registry, approvalRow, audit, execution,
                   invoked, world>>

\* The policy once more, on fresh rules: only a DENY stops an approved call.
Recheck(c) ==
    /\ \/ /\ Evaluate(ctx[c], rules) = "DENY"
          /\ Goto(c, "rechecking", "refusing")
       \/ /\ Evaluate(ctx[c], rules) # "DENY"
          /\ Goto(c, "rechecking", "starting")
    /\ UNCHANGED <<decision, outcome, result, registry, approvalRow, audit, execution,
                   invoked, world>>

\* The decision_action of the row a refused call leaves: a rejected call keeps
\* REQUIRE_APPROVAL, the other three branches say DENY.
RefusedAction(c) == IF outcome[c] = "reject" THEN decision[c] ELSE "DENY"

PersistToolExecution(c, action, ok, flagged) ==
    execution' = [execution EXCEPT ![c] =
                    @ \cup {[action |-> action, ok |-> ok, flagged |-> flagged]}]

PersistRefusal(c) ==
    /\ Goto(c, "refusing", "failing")
    /\ result' = [result EXCEPT ![c] = Refusal]
    /\ PersistToolExecution(c, RefusedAction(c), FALSE, FALSE)
    /\ UNCHANGED <<decision, outcome, registry, approvalRow, audit, invoked, world>>

AuditRefusal(c) ==
    /\ Goto(c, "failing", "returned")
    /\ Audit(c, "execution_failed")
    /\ UNCHANGED <<decision, outcome, result, registry, approvalRow, execution, invoked,
                   world>>

\* Mutant: the tool is called before execution_started is logged.
CallBeforeAudit(c) ==
    /\ Goto(c, "starting", "executing")
    /\ invoked' = [invoked EXCEPT ![c] = TRUE]
    /\ UNCHANGED <<decision, outcome, result, registry, approvalRow, audit, execution, world>>

AuditStart(c) ==
    /\ Goto(c, "starting", "calling")
    /\ Audit(c, "execution_started")
    /\ UNCHANGED <<decision, outcome, result, registry, approvalRow, execution, invoked,
                   world>>

\* MCPManager.call sends the call; it never throws, and its timeout makes it
\* return.  A result that is not ok has no content to be suspicious of.
InvokeTool(c) ==
    /\ Goto(c, "calling", "executing")
    /\ invoked' = [invoked EXCEPT ![c] = TRUE]
    /\ UNCHANGED <<decision, outcome, result, registry, approvalRow, audit, execution, world>>

ToolReturns(c) ==
    /\ Goto(c, "executing", "recording")
    /\ \E r \in Result : /\ r.suspicious => r.ok
                         /\ result' = [result EXCEPT ![c] = r]
    /\ UNCHANGED <<decision, outcome, registry, approvalRow, audit, execution, invoked, world>>

\* scan_for_prompt_injection
Flagged(c) == ctx[c].tool_name \in ScannedTools /\ result[c].suspicious

PersistExecution(c) ==
    /\ Goto(c, "recording", "completing")
    /\ PersistToolExecution(c, decision[c], result[c].ok, Flagged(c))
    /\ IF Flagged(c) THEN Audit(c, "tool_execution") ELSE UNCHANGED audit
    /\ UNCHANGED <<decision, outcome, result, registry, approvalRow, invoked, world>>

AuditCompletion(c) ==
    /\ Goto(c, "completing", "returned")
    /\ Audit(c, IF result[c].ok THEN "execution_completed" ELSE "execution_failed")
    /\ UNCHANGED <<decision, outcome, result, registry, approvalRow, execution, invoked,
                   world>>

\* An operation of the call fails without committing.  Outside the try around
\* the first evaluation nothing catches it: it unwinds execute_tool, whose
\* finally blocks discard the registration.
DbError(c) ==
    /\ faults < MaxFaults
    /\ faults' = faults + 1
    /\ pc[c] \in DbLabel \ {"deciding"}
    /\ pc' = [pc EXCEPT ![c] = "raised"]
    /\ pending' = [pending EXCEPT ![c] = None]
    /\ UNCHANGED <<decision, outcome, result, timer, wakes, approvalRow, audit, execution,
                   invoked, rules, process, ctx, crashes>>

-----------------------------------------------------------------------------
(* The deciders of a pending request.                                      *)

\* Mutant: the UPDATE lacks "AND status = 'PENDING'".
DecideTwice(c, new, by) ==
    /\ status[c] # None
    /\ status' = [status EXCEPT ![c] = new]
    /\ decidedBy' = [decidedBy EXCEPT ![c] = by]

TryDecide(c, new, by) ==
    /\ status[c] = "PENDING"
    /\ status' = [status EXCEPT ![c] = new]
    /\ decidedBy' = [decidedBy EXCEPT ![c] = by]

StatusOf(answer) == IF answer = "approve" THEN "APPROVED" ELSE "DENIED"

\* POST /approvals/{id}.  A loser of the race changes nothing.
HumanDecides(c, answer) ==
    /\ process = "up"
    /\ TryDecide(c, StatusOf(answer), "human")
    /\ wakes' = wakes \cup {<<c, answer>>}
    /\ UNCHANGED <<pc, decision, outcome, result, pending, timer, audit, execution,
                   invoked, world>>

TimerFires(c) ==
    /\ timer[c] = "armed"
    /\ timer' = [timer EXCEPT ![c] = "off"]
    /\ \/ /\ TryDecide(c, "DENIED", "system-timeout")
          /\ wakes' = wakes \cup {<<c, "reject">>}
       \/ /\ status[c] # "PENDING"
          /\ UNCHANGED <<approvalRow, wakes>>
    /\ UNCHANGED <<pc, decision, outcome, result, pending, audit, execution, invoked, world>>

\* The UPDATE of the timer fails: the task ends with the exception.
TimerError(c) ==
    /\ faults < MaxFaults
    /\ faults' = faults + 1
    /\ timer[c] = "armed"
    /\ timer' = [timer EXCEPT ![c] = "off"]
    /\ UNCHANGED <<pc, decision, outcome, result, pending, wakes, approvalRow, audit,
                   execution, invoked, rules, process, ctx, crashes>>

\* Mutant: every waiting call is woken.
WakeAll(c, answer) ==
    /\ <<c, answer>> \in wakes
    /\ wakes' = wakes \ {<<c, answer>>}
    /\ pending' = [k \in Call |-> IF pending[k] = "pending" THEN answer ELSE pending[k]]
    /\ UNCHANGED <<pc, decision, outcome, result, timer, approvalRow, audit, execution,
                   invoked, world>>

\* ApprovalManager.wake: nothing happens if the future is unknown or done.
Wake(c, answer) ==
    /\ <<c, answer>> \in wakes
    /\ wakes' = wakes \ {<<c, answer>>}
    /\ pending' = [pending EXCEPT ![c] = IF @ = "pending" THEN answer ELSE @]
    /\ UNCHANGED <<pc, decision, outcome, result, timer, approvalRow, audit, execution,
                   invoked, world>>

-----------------------------------------------------------------------------
(* The admin, and the life of the process.                                 *)

AdminEditsRules ==
    /\ process = "up"
    /\ EditRules
    /\ UNCHANGED <<process, ctx, pc, decision, outcome, result, registry, approvalRow,
                   audit, execution, invoked, faults, crashes>>

\* Everything in memory is gone, also while the process is still starting.
Crash ==
    /\ process # "down"
    /\ crashes < MaxCrashes
    /\ crashes' = crashes + 1
    /\ process' = "down"
    /\ pc' = [c \in Call |-> IF pc[c] \in Ended \cup {"idle"} THEN pc[c] ELSE "lost"]
    /\ pending' = [c \in Call |-> None]
    /\ timer' = [c \in Call |-> "off"]
    /\ wakes' = {}
    /\ UNCHANGED <<rules, ctx, decision, outcome, result, approvalRow, audit, execution,
                   invoked, faults>>

\* lifespan: seed the rules, then reconcile the approvals, then serve.
StartupSeed ==
    /\ process = "down"
    /\ process' = "starting"
    /\ SeedPolicyRulesIfEmpty
    /\ UNCHANGED <<ctx, pc, decision, outcome, result, registry, approvalRow, audit,
                   execution, invoked, faults, crashes>>

\* Mutant: requests that were pending at the crash stay pending.
NoReconcile ==
    /\ process = "starting"
    /\ process' = "up"
    /\ UNCHANGED <<rules, ctx, pc, decision, outcome, result, registry, approvalRow, audit,
                   execution, invoked, faults, crashes>>

StartupReconcile ==
    /\ process = "starting"
    /\ process' = "up"
    /\ status' = [c \in Call |-> IF status[c] = "PENDING" THEN "DENIED" ELSE status[c]]
    /\ decidedBy' = [c \in Call |->
                       IF status[c] = "PENDING" THEN "system-restart" ELSE decidedBy[c]]
    /\ UNCHANGED <<rules, ctx, pc, decision, outcome, result, registry, audit, execution,
                   invoked, faults, crashes>>

-----------------------------------------------------------------------------
\* What a call does by itself once it has been requested.
Proceed(c) ==
    \/ AuditRequest(c) \/ Decide(c) \/ AuditDecision(c)
    \/ PersistApprovalRequest(c) \/ AuditApprovalRequired(c) \/ Resume(c)
    \/ AuditOutcome(c) \/ Recheck(c)
    \/ PersistRefusal(c) \/ AuditRefusal(c)
    \/ AuditStart(c) \/ InvokeTool(c) \/ ToolReturns(c)
    \/ PersistExecution(c) \/ AuditCompletion(c)

Fault(c) == PolicyError(c) \/ DbError(c) \/ TimerError(c)

Next ==
    \/ \E c \in Call : Request(c) \/ Proceed(c) \/ Fault(c) \/ TimerFires(c)
    \/ \E c \in Call, answer \in Answer : HumanDecides(c, answer) \/ Wake(c, answer)
    \/ AdminEditsRules
    \/ Crash \/ StartupSeed \/ StartupReconcile

Spec == Init /\ [][Next]_vars

\* The event loop runs every ready coroutine, a started handler finishes, a
\* sleep ends, and a process that died is started again.  Nothing makes the
\* person decide, the agent call or the admin edit.
Fairness ==
    /\ \A c \in Call : WF_vars(Proceed(c)) /\ WF_vars(TimerFires(c))
    /\ \A c \in Call : WF_vars(\E answer \in Answer : Wake(c, answer))
    /\ WF_vars(StartupSeed \/ StartupReconcile)

FairSpec == Spec /\ Fairness

-----------------------------------------------------------------------------
Logged(c, event) == \E i \in DOMAIN audit[c] : audit[c][i] = event

\* No tool is called unless the policy said ALLOW, or it said REQUIRE_APPROVAL
\* and a person, not the timer or a restart, approved this very request;
\* whatever commits fail and wherever the process dies.
Authorised ==
    \A c \in Call : invoked[c] =>
        \/ decision[c] = "ALLOW" /\ status[c] = None
        \/ /\ decision[c] = "REQUIRE_APPROVAL"
           /\ status[c] = "APPROVED" /\ decidedBy[c] = "human"

\* What a waiting call is told, on its way or on arrival, is what the row says:
\* the loser of the race for the row wakes nobody (approval_manager.py:4).
AnswerIsTheRows ==
    \A c \in Call, answer \in Answer :
        <<c, answer>> \in wakes \/ pending[c] = answer \/ outcome[c] = answer
            => status[c] = StatusOf(answer)

\* A decision that lands while the call is on its way to waiting, or waits,
\* reaches it: the answer is in the future or a winner is about to put it there
\* (the order argued for at gateway.py:286).
NoLostWakeup ==
    \A c \in Call :
        pc[c] \in {"announcing", "waiting"} /\ status[c] \in {"APPROVED", "DENIED"} =>
            \/ pending[c] = IF status[c] = "APPROVED" THEN "approve" ELSE "reject"
            \/ pending[c] = "pending" /\ \E answer \in Answer : <<c, answer>> \in wakes

\* While the backend serves and no database operation has failed, a PENDING row
\* has a timer that will deny it, or its call is about to start one; a restart
\* leaves none behind (APPROVAL-03).
PendingIsAttended ==
    \A c \in Call :
        status[c] = "PENDING" /\ process = "up" /\ faults = 0 =>
            timer[c] = "armed" \/ pc[c] = "announcing"

\* Write-ahead: when the tool server is sent a call, audit_logs already holds
\* the request, the decision, any approval, and that execution starts, so that a
\* crash during the call leaves its trace.
LoggedBeforeExecution ==
    \A c \in Call : invoked[c] =>
        /\ Logged(c, "tool_requested") /\ Logged(c, "policy_decided")
        /\ Logged(c, "execution_started")
        /\ decision[c] = "REQUIRE_APPROVAL" => Logged(c, "approval_granted")

\* The trail claims no more than happened: an approval the row records, an end of
\* execution after one that was sent and recorded, and a suspected injection
\* exactly when the execution row is flagged.
LoggedAfterTheFact ==
    \A c \in Call :
        /\ Logged(c, "approval_granted") => status[c] = "APPROVED" /\ decidedBy[c] = "human"
        /\ Logged(c, "approval_rejected") => status[c] = "DENIED"
        /\ Logged(c, "execution_completed") =>
             invoked[c] /\ \E row \in execution[c] : row.ok
        /\ Logged(c, "execution_failed") => \E row \in execution[c] : ~row.ok
        /\ Logged(c, "tool_execution") <=> \E row \in execution[c] : row.flagged

\* audit_logs tells no less and no more than happened, wherever a commit fails or
\* the process dies.
AuditIsTruthful == LoggedBeforeExecution /\ LoggedAfterTheFact

\* tool_executions agrees with what was done: a row that says the call went well
\* belongs to a call that was sent; a DENY, or an approval that was refused, to
\* one that was not; and a call that returns has left one row, with the result
\* it returns (models.py:86, "written on every branch").
LedgerIsTruthful ==
    \A c \in Call :
        /\ \A row \in execution[c] :
             /\ row.ok => invoked[c]
             /\ row.action = "DENY" \/ status[c] = "DENIED" => ~invoked[c]
             /\ row.action = "ALLOW" => invoked[c]
        /\ pc[c] = "returned" =>
             \E row \in Execution : execution[c] = {row} /\ row.ok = result[c].ok

\* The first decision on a request is final: no late answer, timer or restart
\* changes who decided it, or what (APPROVAL-02).
FirstDecisionStands ==
    [][\A c \in Call : status[c] \in {"APPROVED", "DENIED"} =>
          status'[c] = status[c] /\ decidedBy'[c] = decidedBy[c]]_vars

\* Every call that is requested ends, with nobody answering its approval.
EveryCallEnds == \A c \in Call : pc[c] # "idle" ~> pc[c] \in Ended

\* Every approval request gets decided, with nobody answering it (APPROVAL-03).
EveryRequestIsDecided == \A c \in Call : status[c] = "PENDING" ~> status[c] # "PENDING"
=============================================================================
