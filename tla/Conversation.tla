---------------------------- MODULE Conversation ----------------------------
(***************************************************************************)
(* The one ongoing conversation: POST /chat and DELETE /chat with what     *)
(* they keep in app.state and in the database, AgentLoop.run_turn(), and   *)
(* the startup that loads the conversation (backend/main.py,               *)
(* backend/agent_loop.py).                                                 *)
(*                                                                         *)
(* A turn runs on the event loop from one await to the next.  run_turn     *)
(* does much between two awaits (generate() is synchronous), so running    *)
(* names the turn that holds the loop, and nothing else moves meanwhile.   *)
(* contents is a Python list: a turn keeps the list it started with and    *)
(* appends to it in place, also when app.state.contents is bound to        *)
(* another one.  execute_tool is an await that returns or raises; the      *)
(* Gateway module is about it.                                             *)
(***************************************************************************)
EXTENDS Naturals, Sequences, FiniteSets

CONSTANTS Turn,       \* requests of POST /chat
          MaxSteps,   \* max_agent_steps
          MaxCalls,   \* bound on the function calls of one response
          Bill,       \* what generate() may cost, in tokens
          MaxClears, MaxCrashes, MaxFaults  \* bounds on DELETE /chat,
                      \* crashes, and failing database operations

ASSUME StepsAssumption == MaxSteps \in Nat /\ MaxCalls \in Nat
ASSUME BillAssumption == Bill \subseteq Nat
ASSUME BoundsAssumption == MaxClears \in Nat /\ MaxCrashes \in Nat /\ MaxFaults \in Nat

VARIABLES
    \* On disk.
    messages,   \* the rows of messages, by created_at
    executions, \* the turns that have rows in tool_executions
    savedUsage, \* conversations.token_usage
    \* In memory.
    process,    \* "up" or "down"
    lists,      \* the Python lists that have been bound to app.state.contents
    contents,   \* which of them app.state.contents is
    appUsage,   \* app.state.token_usage
    running,    \* the turn that holds the event loop
    pc, list, usage, step, todo,  \* of a turn: where it is, and the local
                \* variables contents, token_usage, step, and calls left
    clearing,   \* where DELETE /chat is
    \* What happened, which the program does not record.
    billed,     \* tokens Gemini has billed
    spent,      \* and those of each turn
    wiped,      \* turns that were on their way or over when a clear wiped the disk
    stale,      \* and those that a clear which ended had wiped
    overlapped, \* a request or a clear has come while another was on its way
    clears, crashes, faults

disk == <<messages, executions, savedUsage>>
memory == <<process, lists, contents, appUsage, clearing>>
turnVars == <<pc, list, usage, step, todo>>
tokens == <<billed, spent>>
history == <<wiped, stale, overlapped, clears, crashes>>
vars == <<disk, memory, running, turnVars, tokens, history, faults>>

Nobody == "NOBODY"
ListId == 0..(MaxClears + MaxCrashes)
NextList == clears + crashes

Message == [role: {"user", "model"}, turn: Turn]

\* "empty": the model's content when it has neither a text nor calls.
Entry == [role: {"user", "model", "empty", "call", "response"}, turn: Turn]

Ended == {"answered", "failed", "raised", "lost"}
Where == {"idle", "saving", "starting", "generating", "acting", "executing", "recorded",
          "answering", "answering nothing", "counting", "saving usage", "reporting"}
         \cup Ended

InFlight(t) == pc[t] \notin Ended \cup {"idle"}

TypeOK ==
    /\ messages \in Seq(Message)
    /\ executions \subseteq Turn
    /\ savedUsage \in Nat
    /\ process \in {"up", "down"}
    /\ lists \in [ListId -> Seq(Entry)]
    /\ contents \in ListId
    /\ appUsage \in Nat
    /\ running \in Turn \cup {Nobody}
    /\ pc \in [Turn -> Where]
    /\ list \in [Turn -> ListId]
    /\ usage \in [Turn -> Nat]
    /\ step \in [Turn -> 1..(MaxSteps + 1)]
    /\ todo \in [Turn -> 0..MaxCalls]
    /\ clearing \in BOOLEAN
    /\ billed \in Nat
    /\ spent \in [Turn -> Nat]
    /\ wiped \subseteq Turn
    /\ stale \subseteq Turn
    /\ overlapped \in BOOLEAN
    /\ clears \in 0..MaxClears
    /\ crashes \in 0..MaxCrashes
    /\ faults \in 0..MaxFaults

\* _load_or_create_conversation on a new database.
Init ==
    /\ messages = <<>>
    /\ executions = {}
    /\ savedUsage = 0
    /\ process = "up"
    /\ lists = [l \in ListId |-> <<>>]
    /\ contents = 0
    /\ appUsage = 0
    /\ running = Nobody
    /\ pc = [t \in Turn |-> "idle"]
    /\ list = [t \in Turn |-> 0]
    /\ usage = [t \in Turn |-> 0]
    /\ step = [t \in Turn |-> 1]
    /\ todo = [t \in Turn |-> 0]
    /\ clearing = FALSE
    /\ billed = 0
    /\ spent = [t \in Turn |-> 0]
    /\ wiped = {}
    /\ stale = {}
    /\ overlapped = FALSE
    /\ clears = 0
    /\ crashes = 0
    /\ faults = 0

-----------------------------------------------------------------------------
(* POST /chat                                                              *)

Goto(t, from, to) == pc[t] = from /\ pc' = [pc EXCEPT ![t] = to]

\* A coroutine moves on only when nobody holds the loop.
Resumes == running = Nobody

AppendTo(l, role, t) == lists' = [lists EXCEPT ![l] = Append(@, [role |-> role, turn |-> t])]

\* Nothing in the program makes a request or a clear wait for the others.  AgentPage
\* sends none while it waits for an answer, until it is mounted again or opened
\* twice; it does not wait for a clear.
Alone == ~clearing /\ \A t \in Turn : ~InFlight(t)

Submit(t) ==
    /\ process = "up" /\ Resumes
    /\ Goto(t, "idle", "saving")
    /\ AppendTo(contents, "user", t)
    /\ overlapped' = (overlapped \/ ~Alone)
    /\ UNCHANGED <<disk, process, contents, appUsage, clearing, running, list, usage, step,
                   todo, tokens, wiped, stale, clears, crashes, faults>>

\* Mutant: the user's message is left to be persisted with the answer.
SaveNothing(t) ==
    /\ Resumes
    /\ Goto(t, "saving", "starting")
    /\ UNCHANGED <<disk, memory, running, list, usage, step, todo, tokens, history, faults>>

SaveUser(t) ==
    /\ Resumes
    /\ Goto(t, "saving", "starting")
    /\ messages' = Append(messages, [role |-> "user", turn |-> t])
    /\ UNCHANGED <<executions, savedUsage, memory, running, list, usage, step, todo, tokens,
                   history, faults>>

\* run_turn is called with app.state as it is after that commit.
Begin(t) ==
    /\ Resumes
    /\ Goto(t, "starting", "generating")
    /\ running' = t
    /\ list' = [list EXCEPT ![t] = contents]
    /\ usage' = [usage EXCEPT ![t] = appUsage]
    /\ UNCHANGED <<disk, memory, step, todo, tokens, history, faults>>

\* Mutant: the usage of the turn is added up when it ends.
BilledLater(t, cost) ==
    /\ billed' = billed + cost
    /\ spent' = [spent EXCEPT ![t] = @ + cost]
    /\ UNCHANGED usage

Billed(t, cost) ==
    /\ billed' = billed + cost
    /\ spent' = [spent EXCEPT ![t] = @ + cost]
    /\ usage' = [usage EXCEPT ![t] = @ + cost]

\* Mutant: a response with calls is not appended itself, only its results.
ProposeUnrecorded(t) ==
    /\ running = t
    /\ Goto(t, "generating", "acting")
    /\ step[t] <= MaxSteps
    /\ \E cost \in Bill : Billed(t, cost)
    /\ \E n \in 1..MaxCalls : todo' = [todo EXCEPT ![t] = n]
    /\ UNCHANGED <<disk, memory, running, list, step, history, faults>>

\* generate() answers with function calls.
Propose(t) ==
    /\ running = t
    /\ Goto(t, "generating", "acting")
    /\ step[t] <= MaxSteps
    /\ \E cost \in Bill : Billed(t, cost)
    /\ AppendTo(list[t], "call", t)
    /\ \E n \in 1..MaxCalls : todo' = [todo EXCEPT ![t] = n]
    /\ UNCHANGED <<disk, process, contents, appUsage, clearing, running, list, step,
                   history, faults>>

\* Mutant: the usage of the turn, which includes the total it started from, is
\* added to the total.
UsageAdded(t, cost) == appUsage + usage[t] + cost

\* The token_usage that run_turn returns.
UsageReturned(t, cost) == usage[t] + cost

\* generate() answers without function calls; or it is the last one, past the
\* step cap, where content without text, calls or not, is appended ("call") and
\* a text of run_turn's own returned.  Before the cap the text that run_turn
\* returns may be None.  app.state is bound to what run_turn returns.
Conclude(t) ==
    /\ running = t
    /\ \E role \in {"model", "empty", "call"} :
        /\ role = "empty" => step[t] <= MaxSteps
        /\ role = "call" => step[t] > MaxSteps
        /\ AppendTo(list[t], role, t)
        /\ Goto(t, "generating", IF role = "empty" THEN "answering nothing" ELSE "answering")
    /\ contents' = list[t]
    /\ \E cost \in Bill : /\ Billed(t, cost)
                          /\ appUsage' = UsageReturned(t, cost)
    /\ running' = Nobody
    /\ UNCHANGED <<disk, process, clearing, list, step, todo, history, faults>>

\* LLMUnavailableError: the token_usage of the turn is dropped with run_turn.
LLMFails(t) ==
    /\ running = t
    /\ Goto(t, "generating", "reporting")
    /\ running' = Nobody
    /\ UNCHANGED <<disk, memory, list, usage, step, todo, tokens, history, faults>>

\* An unknown tool gets a synthesized result, without an await.
SkipUnknown(t) ==
    /\ running = t
    /\ pc[t] = "acting" /\ todo[t] > 0
    /\ todo' = [todo EXCEPT ![t] = @ - 1]
    /\ UNCHANGED <<disk, memory, running, pc, list, usage, step, tokens, history, faults>>

ExecuteTool(t) ==
    /\ running = t
    /\ Goto(t, "acting", "executing")
    /\ todo[t] > 0
    /\ running' = Nobody
    /\ UNCHANGED <<disk, memory, list, usage, step, todo, tokens, history, faults>>

\* execute_tool leaves its tool_executions row, and later returns.
ToolRecorded(t) ==
    /\ Resumes
    /\ Goto(t, "executing", "recorded")
    /\ executions' = executions \cup {t}
    /\ UNCHANGED <<messages, savedUsage, memory, running, list, usage, step, todo, tokens,
                   history, faults>>

ToolReturns(t) ==
    /\ Resumes
    /\ Goto(t, "recorded", "acting")
    /\ running' = t
    /\ todo' = [todo EXCEPT ![t] = @ - 1]
    /\ UNCHANGED <<disk, memory, list, usage, step, tokens, history, faults>>

\* Mutant: the results are appended to the list app.state has by now.
RespondToState(t) ==
    /\ running = t
    /\ Goto(t, "acting", "generating")
    /\ todo[t] = 0
    /\ AppendTo(contents, "response", t)
    /\ step' = [step EXCEPT ![t] = @ + 1]
    /\ UNCHANGED <<disk, process, contents, appUsage, clearing, running, list, usage, todo,
                   tokens, history, faults>>

Respond(t) ==
    /\ running = t
    /\ Goto(t, "acting", "generating")
    /\ todo[t] = 0
    /\ AppendTo(list[t], "response", t)
    /\ step' = [step EXCEPT ![t] = @ + 1]
    /\ UNCHANGED <<disk, process, contents, appUsage, clearing, running, list, usage, todo,
                   tokens, history, faults>>

SaveAnswer(t) ==
    /\ Resumes
    /\ Goto(t, "answering", "counting")
    /\ messages' = Append(messages, [role |-> "model", turn |-> t])
    /\ UNCHANGED <<executions, savedUsage, memory, running, list, usage, step, todo, tokens,
                   history, faults>>

\* messages.content is NOT NULL: the insert fails, and the request ends with a 500.
SaveNothingAsAnswer(t) ==
    /\ Resumes
    /\ Goto(t, "answering nothing", "raised")
    /\ UNCHANGED <<disk, memory, running, list, usage, step, todo, tokens, history, faults>>

\* _persist_token_usage is given app.state.token_usage as it is by now.
CountUsage(t) ==
    /\ Resumes
    /\ Goto(t, "counting", "saving usage")
    /\ usage' = [usage EXCEPT ![t] = appUsage]
    /\ UNCHANGED <<disk, memory, running, list, step, todo, tokens, history, faults>>

SaveUsage(t) ==
    /\ Resumes
    /\ Goto(t, "saving usage", "answered")
    /\ savedUsage' = usage[t]
    /\ UNCHANGED <<messages, executions, memory, running, list, usage, step, todo, tokens,
                   history, faults>>

\* Mutant: the failure is stored as the answer.
FailureAnswered(t) ==
    /\ Resumes
    /\ Goto(t, "reporting", "failed")
    /\ messages' = Append(messages, [role |-> "model", turn |-> t])
    /\ UNCHANGED <<executions, savedUsage, memory, running, list, usage, step, todo, tokens,
                   history, faults>>

\* The llm_unavailable audit entry, then the 503.
SaveFailure(t) ==
    /\ Resumes
    /\ Goto(t, "reporting", "failed")
    /\ UNCHANGED <<disk, memory, running, list, usage, step, todo, tokens, history, faults>>

\* A commit of chat() fails, or execute_tool raises: the request ends with a 500.
DbError(t) ==
    /\ Resumes
    /\ faults < MaxFaults
    /\ faults' = faults + 1
    /\ pc[t] \in {"saving", "executing", "recorded", "answering", "saving usage",
                 "reporting"}
    /\ pc' = [pc EXCEPT ![t] = "raised"]
    /\ UNCHANGED <<disk, memory, running, list, usage, step, todo, tokens, history>>

-----------------------------------------------------------------------------
(* DELETE /chat                                                            *)

ClearDisk ==
    /\ process = "up" /\ Resumes
    /\ ~clearing /\ clears < MaxClears
    /\ clearing' = TRUE
    /\ messages' = <<>>
    /\ executions' = {}
    /\ savedUsage' = 0
    /\ wiped' = {t \in Turn : pc[t] # "idle"}
    /\ overlapped' = (overlapped \/ ~Alone)
    /\ UNCHANGED <<process, lists, contents, appUsage, running, turnVars, tokens, stale,
                   clears, crashes, faults>>

\* Mutant: app.state is left as it is until the next startup.
ClearMemoryLater ==
    /\ Resumes /\ clearing
    /\ clearing' = FALSE
    /\ clears' = clears + 1
    /\ stale' = wiped
    /\ UNCHANGED <<disk, process, lists, contents, appUsage, running, turnVars, tokens, wiped,
                   overlapped, crashes, faults>>

ClearMemory ==
    /\ Resumes /\ clearing
    /\ clearing' = FALSE
    /\ clears' = clears + 1
    /\ contents' = NextList + 1
    /\ appUsage' = 0
    /\ stale' = wiped
    /\ UNCHANGED <<disk, process, lists, running, turnVars, tokens, wiped, overlapped, crashes,
                   faults>>

-----------------------------------------------------------------------------
(* The life of the process.                                                *)

Crash ==
    /\ process = "up" /\ crashes < MaxCrashes
    /\ process' = "down"
    /\ crashes' = crashes + 1
    /\ running' = Nobody
    /\ clearing' = FALSE
    /\ pc' = [t \in Turn |-> IF InFlight(t) THEN "lost" ELSE pc[t]]
    /\ UNCHANGED <<disk, lists, contents, appUsage, list, usage, step, todo, tokens, wiped,
                   stale, overlapped, clears, faults>>

\* lifespan: a new list, filled from the messages, and the usage saved last.
Restart ==
    /\ process = "down"
    /\ process' = "up"
    /\ contents' = NextList
    /\ lists' = [lists EXCEPT ![NextList] = messages]
    /\ appUsage' = savedUsage
    /\ UNCHANGED <<disk, clearing, running, turnVars, tokens, history, faults>>

-----------------------------------------------------------------------------
Proceed(t) ==
    \/ SaveUser(t) \/ Begin(t)
    \/ Propose(t) \/ Conclude(t) \/ LLMFails(t)
    \/ SkipUnknown(t) \/ ExecuteTool(t) \/ ToolRecorded(t) \/ ToolReturns(t)
    \/ Respond(t)
    \/ SaveAnswer(t) \/ SaveNothingAsAnswer(t) \/ CountUsage(t) \/ SaveUsage(t)
    \/ SaveFailure(t)

Next ==
    \/ \E t \in Turn : Submit(t) \/ Proceed(t) \/ DbError(t)
    \/ ClearDisk \/ ClearMemory
    \/ Crash \/ Restart

Spec == Init /\ [][Next]_vars

-----------------------------------------------------------------------------
\* The texts among the first n entries.
TextsUpTo(entries, n) == {i \in 1..n : entries[i].role \in {"user", "model"}}

\* The texts among the entries are the rows, in their order.
SameTexts(entries, rows) ==
    /\ Cardinality(TextsUpTo(entries, Len(entries))) = Len(rows)
    /\ \A i \in TextsUpTo(entries, Len(entries)) :
         entries[i] = rows[Cardinality(TextsUpTo(entries, i))]

Holds(entries, role, t) ==
    \E i \in DOMAIN entries : entries[i] = [role |-> role, turn |-> t]

AllAnswered(entries) ==
    \A i \in DOMAIN entries : entries[i].role = "call" =>
        i < Len(entries) /\ entries[i + 1] = [entries[i] EXCEPT !.role = "response"]

\* Of the calls and responses of the turn among the first n entries, the last is
\* a call.
OwnCallIsLast(entries, t, n) ==
    \E j \in 1..n :
        /\ entries[j] = [role |-> "call", turn |-> t]
        /\ \A k \in (j + 1)..n :
             entries[k].turn = t => entries[k].role \notin {"call", "response"}

Quiet == process = "up" /\ ~clearing /\ \A t \in Turn : ~InFlight(t)

\* A token_budget rule judges a tool call by no less than what its own turn has
\* used up to then, whatever other turns, clears and restarts do to the total
\* (agent_loop.py:51).
ToolsSeeTheirTurnsTokens == \A t \in Turn : pc[t] = "executing" => usage[t] >= spent[t]

\* No token is counted twice: neither the total in memory nor the one on disk
\* is more than what has been billed, also with overlapping turns.
UsageIsNeverOvercounted == appUsage <= billed /\ savedUsage <= billed

\* A turn that was answered is on disk, the question before the answer, for a
\* restart to load, unless a clear wiped it (AGENT-03).
AnsweredTurnsAreDurable ==
    \A t \in Turn \ wiped : pc[t] = "answered" =>
        \E i, j \in DOMAIN messages :
            /\ i < j
            /\ messages[i] = [role |-> "user", turn |-> t]
            /\ messages[j] = [role |-> "model", turn |-> t]

\* While no requests have overlapped and no commit has failed, a restart between
\* turns would load the very texts that are in memory, failed turns, clears and
\* answers without a text included; only a turn that ended in a call has a text
\* on disk alone.
RestartChangesNothing ==
    ~overlapped /\ Quiet /\ faults = 0 /\ AllAnswered(lists[contents]) =>
        SameTexts(lists[contents], messages)

\* While no requests have overlapped, results directly follow the calls they
\* answer in what the model is sent (the bug told of at agent_loop.py:62).
ResponsesFollowCalls ==
    ~overlapped =>
        \A i \in DOMAIN lists[contents] :
            lists[contents][i].role = "response" =>
                i > 1 /\ lists[contents][i - 1] = [lists[contents][i] EXCEPT !.role = "call"]

\* However turns, clears and crashes overlap, the results of a turn's calls come
\* after those calls, in the list the calls are in, and once: other turns may
\* come between, but not take them (agent_loop.py:64-94).
OwnResponsesFollowCalls ==
    \A l \in ListId, t \in Turn : \A i \in DOMAIN lists[l] :
        lists[l][i] = [role |-> "response", turn |-> t] => OwnCallIsLast(lists[l], t, i - 1)

\* A clear that has ended has left nothing of the conversation before it, neither
\* on disk nor in memory, so that a restart resumes empty (main.py:241).  A turn
\* that is on its way when the clear comes makes this false.
ClearIsFinal ==
    ~clearing => \A t \in stale :
        /\ t \notin executions
        /\ \A role \in {"user", "model"} :
             ~Holds(messages, role, t) /\ ~Holds(lists[contents], role, t)

\* Nothing comes back of what a clear has wiped while no request or clear has come
\* during another, whatever was lost, failed or restarted (main.py:239-255).
UndisturbedClearIsFinal == ~overlapped => ClearIsFinal
=============================================================================
