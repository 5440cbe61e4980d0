-------------------------- MODULE GuardedExecution --------------------------
(***************************************************************************)
(* What the gateway promises, without saying how: a tool is executed at    *)
(* most once per call, and only when a fresh look at the rules allowed the *)
(* call, or a person granted it and a fresh look at the rules, taken after *)
(* that, did not deny it.  Whatever goes wrong, a call may be abandoned    *)
(* instead, never permitted.                                               *)
(***************************************************************************)
CONSTANTS Call, Context, Verdict(_, _)

VARIABLES rules,  \* the rule table, which others change at will
          ctx,    \* the context of each call
          phase   \* how far the call has got

Phase == {"idle", "requested", "awaiting", "granted", "permitted", "executed", "refused",
          "abandoned"}

Init ==
    /\ ctx \in [Call -> Context]
    /\ phase = [c \in Call |-> "idle"]

Move(c, from, to) ==
    /\ phase[c] = from
    /\ phase' = [phase EXCEPT ![c] = to]
    /\ UNCHANGED <<rules, ctx>>

Request(c) == Move(c, "idle", "requested")

Permit(c) == Verdict(ctx[c], rules) = "ALLOW" /\ Move(c, "requested", "permitted")

Ask(c) == Verdict(ctx[c], rules) = "REQUIRE_APPROVAL" /\ Move(c, "requested", "awaiting")

Grant(c) == Move(c, "awaiting", "granted")

Confirm(c) == Verdict(ctx[c], rules) # "DENY" /\ Move(c, "granted", "permitted")

Execute(c) == Move(c, "permitted", "executed")

Refuse(c) == \E from \in {"requested", "awaiting", "granted"} : Move(c, from, "refused")

\* One call that breaks, or all of them at once.
Abandon ==
    /\ \E C \in SUBSET Call :
         /\ \A c \in C : phase[c] \notin {"idle", "executed"}
         /\ phase' = [c \in Call |-> IF c \in C THEN "abandoned" ELSE phase[c]]
    /\ UNCHANGED <<rules, ctx>>

ChangeRules == UNCHANGED <<ctx, phase>>

Next ==
    \/ \E c \in Call : \/ Request(c) \/ Permit(c) \/ Ask(c) \/ Grant(c) \/ Confirm(c)
                       \/ Execute(c) \/ Refuse(c)
    \/ Abandon
    \/ ChangeRules

Spec == Init /\ [][Next]_<<rules, ctx, phase>>
=============================================================================
