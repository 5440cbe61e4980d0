------------------------- MODULE GatewayRefinement --------------------------
(***************************************************************************)
(* Gateway implements GuardedExecution.  A person's answer takes effect    *)
(* when it commits, before the call hears of it; so does the auto-deny.    *)
(***************************************************************************)
EXTENDS Gateway

Deciding == {"requesting", "deciding"}
Asked == {"asking", "announcing", "waiting", "resolved", "rechecking"}

PhaseOf(c) ==
    CASE invoked[c] -> "executed"
      [] ~invoked[c] /\ pc[c] = "idle" -> "idle"
      [] ~invoked[c] /\ pc[c] \in {"raised", "lost"} -> "abandoned"
      [] ~invoked[c] /\ pc[c] \in Deciding -> "requested"
      [] ~invoked[c] /\ pc[c] = "decided" ->
           (CASE decision[c] = "ALLOW" -> "permitted"
              [] decision[c] = "REQUIRE_APPROVAL" -> "awaiting"
              [] OTHER -> "refused")
      [] ~invoked[c] /\ pc[c] \in Asked ->
           (CASE status[c] = "APPROVED" -> "granted"
              [] status[c] = "DENIED" -> "refused"
              [] OTHER -> "awaiting")
      [] ~invoked[c] /\ pc[c] \in {"starting", "calling"} -> "permitted"
      [] OTHER -> "refused"

phase == [c \in Call |-> PhaseOf(c)]

Guarded == INSTANCE GuardedExecution WITH Verdict <- Evaluate

\* Every behaviour of the gateway is one the abstract specification allows.
ImplementsGuardedExecution == Guarded!Spec
=============================================================================
