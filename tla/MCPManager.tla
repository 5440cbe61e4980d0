----------------------------- MODULE MCPManager -----------------------------
(***************************************************************************)
(* MCPManager (backend/mcp_manager.py) and the part of lifespan()          *)
(* (backend/main.py) that starts and stops it: connecting the configured   *)
(* servers, building the registry from what they list, and call(), with    *)
(* its timeout and its one retry, against a server that answers late,      *)
(* never, or after the client has given up.                                *)
(*                                                                         *)
(* The Gateway module sees all of call() as its steps InvokeTool and       *)
(* ToolReturns.  What they take for granted is shown here: call() returns, *)
(* and what it was asked to do is not done twice.                          *)
(***************************************************************************)
EXTENDS Naturals, Sequences

CONSTANTS Server,
          Specs,        \* self._specs, the configured servers in order
          Tool,
          Offered,      \* what list_tools of a server answers
          Idempotent,   \* _IDEMPOTENT_TOOLS
          Call          \* calls of call()

ASSUME SpecsAssumption == Specs \in Seq(Server)
ASSUME OfferedAssumption == Offered \in [Server -> SUBSET Tool]

VARIABLES
    stage,      \* where lifespan is
    position,   \* the index in Specs of the server it works on
    open,       \* what the AsyncExitStack would close
    sessions,   \* the servers in _sessions
    registry,   \* _tool_to_server
    schemas,    \* the server _tool_schemas and _tool_descriptions come from
    tool,       \* the tool_name of each call
    pc,         \* where each call is
    attempt,    \* its local variable attempt
    request,    \* what became of the request of each attempt
    answer      \* the ToolResult it returned

registryVars == <<registry, schemas>>
callVars == <<tool, pc, attempt, request, answer>>
vars == <<stage, position, open, sessions, registryVars, callVars>>

Unknown == "UNKNOWN"
Attempt == 1..2

TypeOK ==
    /\ stage \in {"connecting", "listing", "connected", "serving", "failed", "closed"}
    /\ position \in 1..(Len(Specs) + 1)
    /\ open \subseteq Server
    /\ sessions \subseteq Server
    /\ registry \in [Tool -> Server \cup {Unknown}]
    /\ schemas \in [Tool -> Server \cup {Unknown}]
    /\ tool \in [Call -> Tool]
    /\ pc \in [Call -> {"idle", "waiting", "done"}]
    /\ attempt \in [Call -> Attempt]
    /\ request \in [Call -> [Attempt -> {"unsent", "sent", "performed", "refused"}]]
    /\ answer \in [Call -> {"none", "ok", "error"}]

Init ==
    /\ stage = "connecting"
    /\ position = 1
    /\ open = {}
    /\ sessions = {}
    /\ registry = [t \in Tool |-> Unknown]
    /\ schemas = [t \in Tool |-> Unknown]
    /\ tool \in [Call -> Tool]
    /\ pc = [c \in Call |-> "idle"]
    /\ attempt = [c \in Call |-> 1]
    /\ request = [c \in Call |-> [n \in Attempt |-> "unsent"]]
    /\ answer = [c \in Call |-> "none"]

-----------------------------------------------------------------------------
(* connect_all, and lifespan around it.                                    *)

Connect ==
    /\ stage = "connecting"
    /\ position <= Len(Specs)
    /\ open' = open \cup {Specs[position]}
    /\ sessions' = sessions \cup {Specs[position]}
    /\ position' = position + 1
    /\ UNCHANGED <<stage, registryVars, callVars>>

\* The transport does not open, or initialize() fails on an open one.  The
\* exception leaves lifespan before the try whose finally calls aclose().
ConnectFails ==
    /\ stage = "connecting"
    /\ position <= Len(Specs)
    /\ open' \in {open, open \cup {Specs[position]}}
    /\ stage' = "failed"
    /\ UNCHANGED <<position, sessions, registryVars, callVars>>

StartListing ==
    /\ stage = "connecting"
    /\ position > Len(Specs)
    /\ stage' = "listing"
    /\ position' = 1
    /\ UNCHANGED <<open, sessions, registryVars, callVars>>

\* Mutant: the first server to list a name keeps it, in one of the maps only.
ListFirstWins ==
    /\ stage = "listing"
    /\ position <= Len(Specs)
    /\ LET server == Specs[position] IN
        /\ registry' = [t \in Tool |-> IF t \in Offered[server] /\ registry[t] = Unknown
                                       THEN server ELSE registry[t]]
        /\ schemas' = [t \in Tool |-> IF t \in Offered[server] THEN server ELSE schemas[t]]
    /\ position' = position + 1
    /\ UNCHANGED <<stage, open, sessions, callVars>>

\* Every tool a server lists replaces an earlier one of its name.
List ==
    /\ stage = "listing"
    /\ position <= Len(Specs)
    /\ LET server == Specs[position] IN
        /\ registry' = [t \in Tool |-> IF t \in Offered[server] THEN server ELSE registry[t]]
        /\ schemas' = [t \in Tool |-> IF t \in Offered[server] THEN server ELSE schemas[t]]
    /\ position' = position + 1
    /\ UNCHANGED <<stage, open, sessions, callVars>>

ListFails ==
    /\ stage = "listing"
    /\ position <= Len(Specs)
    /\ stage' = "failed"
    /\ UNCHANGED <<position, open, sessions, registryVars, callVars>>

ConnectAllReturns ==
    /\ stage = "listing"
    /\ position > Len(Specs)
    /\ stage' = "connected"
    /\ UNCHANGED <<position, open, sessions, registryVars, callVars>>

\* The rest of the startup, inside the try.
Serve ==
    /\ stage = "connected"
    /\ stage' = "serving"
    /\ UNCHANGED <<position, open, sessions, registryVars, callVars>>

\* aclose(), when the rest of the startup fails or the server shuts down after
\* its last request.
Close ==
    /\ stage \in {"connected", "serving"}
    /\ \A c \in Call : pc[c] # "waiting"
    /\ stage' = "closed"
    /\ open' = {}
    /\ UNCHANGED <<position, sessions, registryVars, callVars>>

\* What the agent loop declares to Gemini, and GET /tools answers.
ListAllTools ==
    [t \in {u \in Tool : registry[u] # Unknown} |->
        [server_name |-> registry[t], schema |-> schemas[t]]]

-----------------------------------------------------------------------------
(* call().                                                                 *)

\* Mutant: every tool is retried.
RetryAll(t) == 2

Retries(t) == IF t \in Idempotent THEN 2 ELSE 1

Send(c, n) == request' = [request EXCEPT ![c][n] = "sent"]

Return(c, result) ==
    /\ pc' = [pc EXCEPT ![c] = "done"]
    /\ answer' = [answer EXCEPT ![c] = result]

StartCall(c) ==
    /\ stage = "serving"
    /\ pc[c] = "idle"
    /\ \/ /\ registry[tool[c]] = Unknown
          /\ Return(c, "error")
          /\ UNCHANGED request
       \/ /\ registry[tool[c]] # Unknown
          /\ pc' = [pc EXCEPT ![c] = "waiting"]
          /\ Send(c, 1)
          /\ UNCHANGED answer
    /\ UNCHANGED <<stage, position, open, sessions, registryVars, tool, attempt>>

\* The answer to the request of this attempt, which the SDK matches to it; one that
\* says ERROR is final.
Receive(c) ==
    /\ pc[c] = "waiting"
    /\ \/ /\ request[c][attempt[c]] = "performed"
          /\ Return(c, "ok")
       \/ /\ request[c][attempt[c]] = "refused"
          /\ Return(c, "error")
    /\ UNCHANGED <<stage, position, open, sessions, registryVars, tool, attempt, request>>

\* Mutant: the attempts are not counted.
GiveUpUncounted(c) ==
    /\ pc[c] = "waiting"
    /\ \/ /\ Retries(tool[c]) = 2
          /\ Send(c, 2)
          /\ UNCHANGED <<pc, answer, attempt>>
       \/ /\ Retries(tool[c]) = 1
          /\ Return(c, "error")
          /\ UNCHANGED <<request, attempt>>
    /\ UNCHANGED <<stage, position, open, sessions, registryVars, tool>>

\* The wait times out, or the transport raises: try again or return an error.
\* The server may still get the request.
GiveUp(c) ==
    /\ pc[c] = "waiting"
    /\ \/ /\ attempt[c] < Retries(tool[c])
          /\ attempt' = [attempt EXCEPT ![c] = @ + 1]
          /\ Send(c, attempt[c] + 1)
          /\ UNCHANGED <<pc, answer>>
       \/ /\ attempt[c] >= Retries(tool[c])
          /\ Return(c, "error")
          /\ UNCHANGED <<request, attempt>>
    /\ UNCHANGED <<stage, position, open, sessions, registryVars, tool>>

\* The tool server does, or refuses to do, what a request asks, at any time
\* while its connection is open.
ServerAnswers(c, n) ==
    /\ registry[tool[c]] \in open
    /\ request[c][n] = "sent"
    /\ \E what \in {"performed", "refused"} : request' = [request EXCEPT ![c][n] = what]
    /\ UNCHANGED <<stage, position, open, sessions, registryVars, tool, pc, attempt, answer>>

-----------------------------------------------------------------------------
Startup == Connect \/ StartListing \/ List \/ ConnectAllReturns \/ Serve
StartupFailure == ConnectFails \/ ListFails

Next ==
    \/ Startup \/ StartupFailure \/ Close
    \/ \E c \in Call : StartCall(c) \/ Receive(c) \/ GiveUp(c)
    \/ \E c \in Call, n \in Attempt : ServerAnswers(c, n)

Spec == Init /\ [][Next]_vars

\* Only the client's own timeout is relied on, never the server.
FairSpec == Spec /\ \A c \in Call : WF_vars(GiveUp(c))

-----------------------------------------------------------------------------
\* A call of a tool outside the idempotent list is performed at most once,
\* however late the server acts and whatever the client was told: "a retried
\* write could double-apply" (mcp_manager.py:35).
NeverAppliedTwice ==
    \A c \in Call :
        (\A n \in Attempt : request[c][n] = "performed") => tool[c] \in Idempotent

\* The declaration the model is shown for a tool is that of the server its call
\* goes to, which lists it and has a session, whatever names the servers share.
RegistryIsCoherent ==
    \A t \in DOMAIN ListAllTools : LET declaration == ListAllTools[t] IN
        /\ declaration.schema = declaration.server_name
        /\ t \in Offered[declaration.server_name]
        /\ declaration.server_name \in sessions

\* call() always comes to an end, with a server that never answers.
EveryCallReturns == \A c \in Call : pc[c] = "waiting" ~> pc[c] = "done"
=============================================================================
