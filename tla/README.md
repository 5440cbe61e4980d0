# Guarded AI agent: TLA+ models and proofs

The program is a chat agent whose tool calls all pass a policy gateway. A user
writes to a FastAPI backend; the backend asks Gemini; when Gemini proposes a
tool call, the gateway evaluates policy rules, perhaps waits for a person to
approve, and then calls the tool over MCP. A React dashboard shows what happens
and edits the rules. This directory holds TLA+ modules of the backend, of the
sandbox file server it ships with, and of the two pages that keep a live copy of
its state, the TLC configurations that check them, and
proofs of the theorems that matter most. Line numbers refer to `src/` of
the repository.

1. [The system](#the-system)
2. [The modules](#the-modules)
3. [From code to model](#from-code-to-model)
4. [The runs](#the-runs)
5. [Fairness](#fairness)
6. [What is proved](#what-is-proved)
7. [Where code and documents disagree](#where-code-and-documents-disagree)
8. [What is not modelled, and the plan](#what-is-not-modelled-and-the-plan)

## The system

| Part | State it keeps | Operations | What makes it correct |
|---|---|---|---|
| Policy engine, `backend/policy_engine.py` | none | `_matches`, `evaluate` | fails closed; independent of rule order; the rules it cites explain the decision |
| Policy rules, `backend/main.py` 35-58, 153-175, 291-336 | table `policy_rules` | create, toggle, delete, seed at startup | unique ids; what the validator lets in, the engine can evaluate; stricter rules give stricter decisions |
| Gateway, `backend/gateway.py` | tables `approval_requests`, `tool_executions`, `audit_logs`; the locals of each call | `execute_tool`, `try_decide`, `_auto_deny`, `reconcile_pending_approvals` | nothing runs unauthorised; the first decision on a request stands and reaches its call; the trail tells the truth |
| Approval manager, `backend/approval_manager.py` | futures by request id | `register`, `wake`, `discard` | no lost wake-up |
| MCP manager, `backend/mcp_manager.py` | sessions, tool registry, schemas, an `AsyncExitStack` | `connect_all`, `call`, `aclose` | writes are not repeated; `call` returns; one server per tool; startup and shutdown close what they open |
| Agent loop and LLM client, `backend/agent_loop.py`, `gemini_client.py` | the Python list `contents` of a turn, its token count | `run_turn`, `generate` | a turn ends; results follow their calls; rules see the turn's own tokens |
| Chat routes, `backend/main.py` 61-83, 194-255 | `app.state`, tables `conversations`, `messages` | POST /chat, DELETE /chat, load at startup | memory and disk agree; answered turns are durable; a clear is final |
| Lifespan, `backend/main.py` 96-139 | none | startup, shutdown | order of seeding, reconciliation, connecting, serving |
| WebSocket fan-out, `backend/ws_manager.py` | open sockets | connect, disconnect, broadcast | a client that stays gets every event in order; none stops a call |
| Dashboard, `frontend/src` | pending approvals, transcript, audit rows, per page | hydrate, apply events, reconnect, send, decide | a page shows what the server has, but for what it was made to miss |
| Sandbox file server, `mcp-servers/sandbox-file-manager/server.py` | files under `SANDBOX_ROOT` | list, read, write, move, delete | nothing outside the root changes; what is answered OK is done; a failure loses at most the file being written |
| Schema sanitizer, `backend/schema_sanitizer.py` | none | `sanitize_schema` | in the places it treats no unsupported key is left; what has none there is kept; no valid arguments are excluded |

How they interact: POST /chat runs `run_turn`, which awaits `execute_tool` for
each proposed call. `execute_tool` reads the rules, awaits a future when
approval is required, and awaits `MCPManager.call`. POST /approvals/{id} and the
`_auto_deny` task race to update the approval row; the winner resolves the
future. Every step is broadcast over WebSocket and then committed to
`audit_logs`. At startup the backend seeds the rules if there are none, denies
requests left pending, connects the tool servers and loads the conversation.

What is hard: one event loop interleaves everything at its awaits; decisions
come from a person, a timer and a restart; commits can fail between two steps of
one call; a crash loses futures and timers but not rows; a tool server acts late
or after its client gave up; `app.state` is read before an await and written
after it. The hazards are listed, each at its line with the properties that
watch it, under `hazards` in `PROJECT.json`.

## The modules

In the order in which they build on each other:

| Module | What it is |
|---|---|
| `PolicyEngine` | `evaluate` and `_matches` as operators |
| `PolicyStore` | the rule table, its routes and its seeding; properties of decisions over all reachable tables |
| `PolicyProofs` | theorems about both |
| `Gateway` | extends `PolicyStore`: `execute_tool` await by await, with the person, the timer, the admin, faults, crashes and restarts |
| `GuardedExecution` | the abstract specification: what the gateway promises |
| `GatewayRefinement` | the refinement mapping from `Gateway` to it |
| `GatewayProofs` | theorems about `Gateway` |
| `MCPManager`, `MCPManagerProofs` | startup, registry, `call` with timeout and retry; theorems |
| `Conversation`, `ConversationProofs` | chat routes, `run_turn`, clear, crash, restart; theorems |
| `ApprovalsView`, `ApprovalsViewProofs` | the Approvals page as a copy of the pending rows: socket, events, GETs, POSTs, reconnects; theorems |
| `TranscriptView`, `TranscriptViewProofs` | the Agent page: a transcript made of events, answers and GET /chat/state; theorems |
| `WebSocketManager`, `WebSocketManagerProofs` | `broadcast` to several clients that come, stall, break and go; theorems |
| `FileStore` | the abstract specification: what may happen to files, whatever fails |
| `SandboxFiles`, `SandboxFilesProofs` | the file server's five tools, call of the file system by call, with failures and kills; theorems |
| `SchemaSanitizer` | `sanitize_schema`, its loop as steps, with what a schema means |
| `MCPolicyStore`, `MCGateway`, `MCMCPManager`, `MCConversation`, `MCApprovalsView`, `MCTranscriptView`, `MCSandboxFiles`, `MCSchemaSanitizer` | small instances for TLC |

`Gateway` composes the policy with the approval workflow by extending
`PolicyStore`: the rule table is a variable of both, and the admin's edits are
steps between any two steps of a call. `MCPManager` and `Conversation` are
connected to `Gateway` by assumption and guarantee and not by composition, since
they share no state with it: `Gateway` sees `MCPManager.call` as the steps
`InvokeTool` and `ToolReturns` and assumes that it returns, which is
`EveryCallReturns` of `MCPManager`; `Conversation` sees `execute_tool` as
`ExecuteTool`, `ToolRecorded`, `ToolReturns` and assumes that it ends, which is
`EveryCallEnds` of `Gateway`. `ApprovalsView` has the gateway's side of an
approval in four steps (the row, its event, its decision, the event of that),
in the order `Gateway` has them, and `TranscriptView` has all of a call's rows
and events in that order. `Gateway` sees a broadcast as part of the commit after
it and assumes that it ends, which is `EveryCallEnds` of `WebSocketManager`. What
`MCPManager` calls a performed or refused request is, for the sandbox, an OK or an
ERROR of `SandboxFiles`; a request the client has given up on is served all the
same, so `SandboxFiles` takes requests in any number and order.

## From code to model

**Steps.** The backend is one asyncio loop, so a coroutine runs undisturbed from
one await to the next. A step of a model is what the code does between two
awaits, including the commit it then waits for. In `Gateway` no step does much,
and each is one action; `pc[c]` names the await the call is at. In
`Conversation` a turn does several things without an await between them
(`generate()` is synchronous), so those are actions of their own, and `running`
names the turn that holds the loop: no other coroutine moves while it is set.

**Broadcasts** are awaits, too. Nothing in the backend reads what they send and
`_safe_broadcast` swallows their failure, so in `Gateway` each is merged with
the commit that follows it; an interleaving at the broadcast is one at the commit as well.

**Rule routes** read, modify and commit in one step. They act on one row each,
and SQLite serialises their writes.

**Disk and memory.** Each module lists which variables a crash loses. `Crash`
may come between any two steps; the startup that follows is modelled as the code
orders it: `Gateway` seeds (`StartupSeed`) and then denies what is pending
(`StartupReconcile`), `Conversation` loads the messages (`Restart`).

**Data.** Rules have their real five types. A condition is a function from its
keys; a prefix is a sequence of tokens; a value that makes `_matches` raise is
`Malformed`. Arguments are functions from argument names to sequences of tokens. A tool result
is a pair of `ok` and whether the injection scan finds something in it. Messages
are their role and the turn they belong to. Wording, timestamps and JSON are
left out. An id is a number not in use; the code draws UUIDs.

**Pending approvals in one function.** A call makes at most one approval
request, so requests are indexed by call.

**Tokens.** `Bill` is the set of costs of one response; `billed` and `spent` are
history variables that say what really was used.

**One page or several.** The dashboard does not send while it waits for an
answer, but forgets that when it is mounted again, and can be opened twice; a send
does not wait for a clear. Nothing in `Conversation` keeps requests apart. The
history variable `overlapped` says that a request or a clear has come while
another was on its way, and the properties that need it otherwise say so.

**An answer without a text.** Gemini may return neither a text nor calls. The
content is appended, `app.state` bound to what `run_turn` returned, and then the
insert of `None` into a column that is NOT NULL fails (`SaveNothingAsAnswer`).

**The Approvals page.** `shown` is the state variable `pending`, `queue` what a
socket carries, `get[g]` one GET from its sending to `setPending`: the backend
reads the table (`ReadPending`) some time before the page has the answer
(`SetPending`), and events, decisions and further GETs go on meanwhile. The GETs
of reconnects are numbered by the troubles until then, so any number of them may
be under way. A socket is `accepted` when the server has registered it and `open`
when the page knows. The page can be made wrong in four ways that the code does not
prevent: an answer that was read before an event replaces what the event did, a GET
fails, a row is dropped although the POST failed, and the first `onopen`
fetches nothing. `missed` is a history variable that holds the requests on which
the page was wrong at that moment, until an event about them is received or the
next answer is applied. One client is modelled, as a production build runs it
(the development build mounts everything twice).

**The Agent page.** `transcript` is the reducer's list: messages and events by
kind and by turn or call. `stored` holds the rows of three tables in the order
of `created_at`, from which `EntriesFrom` makes what `entriesFromChatState` makes
(a row of `tool_executions` becomes three entries). `post[t]` is `orphaned` when
the page that sent it has gone. `get` and `missed` are as in `ApprovalsView`; here
the rows on which an answer is wrong follow from those it was made from (`read`),
and a clear can make the page wrong, too: it empties the transcript and leaves the
pending approvals in their table. `disturbed` is a history variable: that the page
has not been mounted and connected all the time since before anything was asked.
Token counts and the error line are left out.

**The fan-out.** `todo[k]` is the rest of the copy of the set that call `k` walks
through, `unread[c]` the frames a connection holds before `send_json` has to
wait. A socket that reconnects is another client. A call has `Events` broadcasts,
each followed by a commit.

**Files.** A path is the sequence of its names from `/`, an argument says whether
it is absolute and lists its parts, and `Resolve` does what `Path.resolve()` does
with them. The tools are not async, so one request is served at a time. Within
it each call of the file system is a step: each directory `mkdir(parents=True)`
makes, the opening for writing that empties a file, the writing, the rename, the
unlink. Each may fail (`OsError`). After the last of them the answer is still to be
made and sent (`Reply`), and the process may be killed (`Kill`) before each and before
the answer. `before` is the tree when the request came. There are no links, and nobody
else writes to the tree.

**Schemas.** A dict is its sequence of keys and their values, since the order
decides which of `oneOf` and `anyOf` is kept. `Valid` is the meaning of a schema
by the JSON Schema standard, `$ref` to the root's `$defs` included (`Referred`); it
models no code and is what the result is measured against. `Parts` are the schemas
in the places the docstring of `sanitize_schema` names (line 27). `not` is none of
them, and what is under it is copied.

**External parts**: an MCP server performs, refuses or ignores a request, at any
time (`ServerAnswers`); the SDK matches an answer to its request. Gemini answers with
calls, with text, with neither, or fails. A process ends (`Crash`) and a connection
breaks (`Break`) at any time.

## The runs

Runs expected to pass:

| Run | Checks | Instance and why it is enough |
|---|---|---|
| `policy_store` | `FailClosed`, `OrderIndependent`, `ExplanationSuffices`, `TableIsSound`, `OnlyTightens` | up to three rules of eleven bodies: every rule type, all three actions for one tool, a rule about another tool, disabled rules, each kind of malformed condition; three is one more than the two rules it takes to conflict. 16 contexts: two tools, prefix that fits and that does not, argument missing, budget met and not. |
| `gateway` | `Authorised`, `NoLostWakeup`, `PendingIsAttended`, `AuditIsTruthful`, `LedgerIsTruthful`, `FirstDecisionStands`, `ImplementsGuardedExecution` | one call, two rules, one failed database operation, two crashes: each verdict can turn into each other one, the fault can hit each commit, and the second crash can hit a startup |
| `gateway_two_calls` | `AnswerIsTheRows`, `EveryCallEnds`, `EveryRequestIsDecided` | two calls share the registry and the rules; one rule at a time, one crash, no failing commits, under fairness |
| `mcp_manager` | `NeverAppliedTwice`, `RegistryIsCoherent`, `EveryCallReturns` | two servers with one name in common; an idempotent tool, a tool that is not, a tool nobody offers; two calls |
| `conversation` | `RestartChangesNothing`, `ResponsesFollowCalls`, `UndisturbedClearIsFinal`, `ToolsSeeTheirTurnsTokens`, `UsageIsNeverOvercounted`, `AnsweredTurnsAreDurable`, `OwnResponsesFollowCalls` | two turns of up to two steps of up to two calls, a clear, a crash, a failing commit, in sequence or overlapping as they like: a turn after a failed one, after a clear, after a restart; two turns on one list and, with the clear, on two |
| `approvals_view` | `NothingHidden`, `NoGhosts`, `PendingBecomesVisible` | one request, since no step about one looks at another: what happens to one of many is what may happen to it alone (the invariants are proved for any number); four troubles (broken connections, crashes of the backend, requests that fail), so that the GETs of several reconnects cross, with failures among them; the page comes and goes as it likes; under fairness |
| `transcript_view` | `NothingIsStranded`, `LiveIsReplay` | two turns and one call, so that the call is in either and a turn precedes or follows it; GETs return two rows of a kind, fewer than there may be; one trouble (a broken connection, a clear, a GET that fails, a departure), at any time |
| `fan_out` | `NothingSkipped`, `EveryCallEnds` | two clients and two calls of three events, a buffer of one frame: one client stalls or breaks while the other is sent to, by each call at a different event; under fairness |
| `sandbox_files` | `Confined`, `AnswersAreTrue`, `ImplementsFileStore` | a tree of up to eight nodes, three names deep under the root, and eleven arguments: in the root, of it, deep enough for directories to be made, out of it, out and back in, absolute; a full disk, and a kill at every step and before the answer |
| `schema_sanitizer` | `NothingUnsupportedIsLeft`, `SupportedIsKept`, `NothingValidIsExcluded` | schemas of one key over nested ones and of two keys over flat ones: each keyword under each other, `not` and `$ref` among them, `oneOf` and `anyOf` in both orders, properties named like keywords; two is what it takes for one key to replace another |

The bounds are the constants `MaxRules`, `MaxFaults`, `MaxCrashes`, `MaxClears`,
`MaxTroubles`, `MaxSteps`, `MaxCalls` (step cap and calls per response), `Events`,
`Buffer`, `MaxDepth`, `MaxNodes` and the sizes of the sets; `Limit` is a bound of
the program. Turns are taken as symmetric in `conversation` and
`transcript_view`, which check invariants only. Type invariants are proved (all
but `SchemaSanitizer`'s), so the runs leave them out.
Deadlock is not checked where the system rests when all calls have ended and the
bounds are used up: in all runs but those of `PolicyStore`, `Gateway` and `SandboxFiles`.

Runs expected to find a violation are the subject of
[a section below](#where-code-and-documents-disagree).

For each property of a passing run `PROJECT.json` names a mutant, an operator
next to the definition it replaces (marked "Mutant:" in the modules), that the
property catches: a dropped re-check, a timer that wakes whoever won, a
registration after the commit, a retry of every tool, a clear that forgets
`app.state`, a send whose exception ends the loop, a file that is removed before
the rename, a recursion that takes `properties` for a schema.

## Fairness

* `Gateway`: weak fairness of each coroutine's next step (`Proceed`), of the
  timer, of `wake` once the update has committed, and of the startup. The event
  loop runs what is ready; `asyncio.sleep` ends; a process is started again. No
  fairness of the person, the admin, the agent or of faults. A `ToolReturns`
  that comes is what `MCPManager` guarantees.
* `MCPManager`: only of `GiveUp`, the client's own `wait_for`. The server may
  never answer.
* `ApprovalsView`: of the socket's reconnecting and delivery, of GETs (until they
  are answered or made to fail) and their answers, of the event that follows a row, and of the restart. None of the
  person's clicks, of decisions, or of the page being opened.
* `WebSocketManager`: of each call's next step, and of a client's reading or its
  connection's end. Nothing in `src/` times a send out: this rests on uvicorn, which
  pings by default and cuts off a client that does not answer (`backend/main.py`
  does not change that). A client that stops reading delays a call until then.

`Conversation` and the others are checked without fairness.

## What is proved

TLAPS checks the following for every value of the constants: any tools, rules,
contexts, servers, clients, paths, calls, turns, costs and bounds, under the named
assumptions. They give the constants their types, and say of them: the seed's
rules have distinct ids and the validator would accept them (`PolicyStore`); and the
tree before the first start is one, is finite, and does not hold the root (`SandboxFiles`).

**`PolicyProofs`.** `AlwaysFailClosed` (a call is allowed only by an enabled
rule that says so and with no enabled matching or raising rule that does not).
`SameRulesSameDecision`: tables with the same set of rules decide alike, for any
order and repetition, from which `AlwaysOrderIndependent` follows.
`EditsOnlyTighten`: from the monotonicity of the set of votes and the order of
`_PRECEDENCE`. `TableStaysSound`: what the validator checks of a condition rules
out all that `_matches` can throw on but an `arg` that cannot be a dict key, and
creating, toggling and deleting keep it so. `ExplanationsSuffice`: a rule that
is not cited does not vote, so switching it off changes no vote. `IdsStayUnique` and `RulesTypeCorrect` by induction over the
routes.

**`GatewayProofs`.** `Invariance` is the inductive invariant, a conjunction of:
`TypeInv` (types, and that a decision has been made where one is used);
`DeadIsQuiet` (a process that is not up has no coroutine, future, timer or wake);
`RowFollowsDecision` (a row exists exactly where a call is or was being asked, and
when it is decided it says by whom); `AnswerIsTheRows`; `AnswerArrives`
(a waiting call's future and the wakes on their way match its row); and
`AuthorityHeld`: a call that is past the decision and on its way to the tool has
an ALLOW and no row, or a REQUIRE_APPROVAL and a row a person approved. The
property wanted is about calls that *were* sent; it is not inductive because the
authority is established many steps before and rests on the row not changing,
which in turn rests on the guard of `try_decide`. From it: `NothingUnauthorised`,
`AnswersAreTheRows`, `NoWakeupLost`, `DecisionsAreFinal`, `TypeCorrect`.

`RecordsAreKept` is a second invariant, about what a call leaves in
`audit_logs` and `tool_executions`. What a row may say depends on how far the
call is: `Ledger` and `Trail` tell for each label what has been sent and written
by then, also for a call that was cut short by an exception or a crash. From it:
`TheTrailIsTruthful` and `TheLedgerIsTruthful`. `PendingStaysAttended` is an
induction of its own over the timer, the row and the step in between.
`GatewayIsGuarded` is the refinement: `GuardedExecution` knows the rules and a
phase for each call; one call's phase changes at a time (`PhaseMoves`), a crash
abandons all that have one to lose, and the label determines the phase, given the
first invariant.

**`MCPManagerProofs`.** The invariant adds that a second attempt exists only for
an idempotent tool and nothing is sent before its attempt, and that the servers
being listed have sessions. Theorems: `WritesAreNotRepeated`,
`RegistryStaysCoherent`, `ManagerTypeCorrect`.

**`ConversationProofs`.** The invariant bounds each turn's local total between
the turn's own tokens and all tokens billed. Theorems: `TurnsTokensAreSeen`,
`NothingIsCountedTwice` (for overlapping turns, clears and crashes alike),
`ConversationTypeCorrect`.

For turns that overlap, fail and are cleared as they like: `AnswersAreDurable`
(a question is on disk before Gemini is asked, its answer before the turn is
answered), and `ResponsesAreTheirTurns`, which needs that the last of a turn's
own entries is a call while results are awaited (`OwnCallIsLast`), in whichever
list the turn holds.

As long as nothing has overlapped: `NothingComesBack` and
`ResponsesAreInPlace`, from an invariant (`SerialInv`, which `overlapped` excuses;
`StillAlone`: a step after which nothing has overlapped let a request come only to an
idle backend) that there is one turn or one clear at
a time, on the list `app.state` holds (`OneByOne`), that what was cleared is on
neither side (`Wiped`), and that a call is last while it runs (`CallIsLast`);
and `RestartsAreUnnoticed`. There the invariant follows the texts of memory and
disk through a turn (`Mirrors`): they are the same, but for the one text that is
in memory and about to be saved (an answer without a text adds none), and only as long as every call in the list has
its result. `SameTexts` compares the texts by rank, which needs no recursion, and
the proof counts them as each entry is appended.

**`ApprovalsViewProofs`.** `NothingStaysHidden`: however events, answers and
decisions cross, only what was `missed` is hidden. `NothingHidden` alone is not
inductive: an event could remove a pending request (`Removal`: what removes one
comes after its decision), and one could be shown, or be in an answer, before its
row is there (`Known`). `NoGhostStays` is the other half: what is shown and decided
is about to go, or was missed. It needs that a backend that is up has a call for
each pending row and that a connection not yet accepted carries nothing (`Links`),
and that on the socket the event that adds a request is followed by the one that
removes it (`InOrder`). Each answer that is applied sets `missed` anew, so of an answer on its
way only `Known` has to be known; the work is in the steps between. And `TypeCorrect`.

**`TranscriptViewProofs`.** `TranscriptTypes` and both
properties of the run, for any number of turns, calls, remounts, reconnects, GETs
under way and clears.
What the page makes of rows is written in the model by place and not by
recursion: `Ascending` numbers a set of places, of which each row has three, and
`AscendingNumbers` and `EntriesOf` are the lemmas the rest stands on (every entry
of every row has its place, in the order of the rows).

`NothingStaysStranded` needs `StrandInv`. A page that is connected and waits for no
GET has what it should because one of these always holds of a row (`Told`): it is
shown, its event is still to come or on the way, it is the answer of the POST under
way, its page has gone; or it was `missed` (`UpToDate`). `Answers` says that an answer
shows what it was made from, so that the rows it is wrong on when it is applied can
be told from those (`Rebased`); the same lemma serves for a GET that fails, a first
connection and a clear, with the rows the page shows then. For approvals it also
takes that the event of a decision follows that of the request on the socket
(`Announced`), and of the backend that a row stands only for what its turn or call
has done (`Backed`) and that the page has at most one POST (`Paged`).

`LiveReplays` compares two orders, of which each is made elsewhere: the rows in the
order of the commits, and the page in the order in which events and answers came.
`LiveInv` says what a page that was never disturbed knows of the rows before
everything has arrived; it starts when the page has its first answer and its first
connection, before which nothing may have been asked (`InTime`). Messages: the
question of the turn under way is
the last one shown, its answer the last one stored, and of two stored messages the
later is nowhere before the earlier, on the page or on the socket
(`MessagesInOrder`). Calls come one after the other, since a turn waits for its
call and the page for its turn: the result of a call precedes the request of each
call with a later row (`CallsInOrder`), for which the calls without a row have to
be included: a call that is done precedes one that is under way. Sameness of the two
stories then takes no induction: `SameStory` compares what is in them and the
order of each two.

**`WebSocketManagerProofs`.** `NothingIsSkipped`. The invariant says of the copy a
broadcast walks through that it is empty between broadcasts and holds no client
twice, nor one that has yet to come (`TodoInv`); of a client that has yet to come
that it is not registered and was sent nothing (`SocketInv`); and of one that is
connected how many events of each call it has been sent and which, by their
places (`Stream`: sequences of unknown length are easier to extend by place than
as a whole). And `FanOutTypeCorrect`.

**`SandboxFilesProofs`.** `NothingLeavesTheSandbox`. The invariant: what existed
before exists unchanged, and what is new is inside (`WorldStays`); the root, once
it exists, is a directory, and it exists while the process runs (`RootStays`);
and the request being served was checked, so that its paths are inside and a
delete or an open file is not the root (`RequestInv`). Each step then changes
paths inside only, the directories `mkdir` makes included, since every ancestor
of a path inside is inside or an ancestor of the root, which exists; and the
root itself is not moved, since every place inside it is below it. And `SandboxTypeCorrect`.
Both rest on `ResolvedIsPath`: whatever a client names, of any length and with any
`..` in it, resolves to a path. `Resolve` is a recursive function of the number of
parts, and the proof is an induction over it: a set of naturals that holds 0 and
each successor is `Nat` (`InductiveSetIsNat`, from the well-foundedness of `<`).

`AnswersTellTheTruth` and `SandboxIsAStore` rest on a second invariant
(`FilesInv`): the file system is a tree, whatever step it is stopped at, so that
nothing is below a file (`Tree`: a rename must not separate a path from its
ancestors, nor put anything below a file); and until the step that
matters a request has made directories only, or emptied the file it writes
(`Begun`, `Opened`), and that after it and before the answer what was asked is done. The heart of both is the rename: it gives each path below the
source a place of its own, meets nothing that is already there but the file it
replaces, and so keeps the number of files (`RenameMeets`, `RenameMoves`).
`SandboxIsAStore` is the refinement: emptying, writing, deleting and moving are
steps of `FileStore`, and all others leave the files alone.

Only model-checked: liveness (`EveryCallEnds` of `Gateway` and of
`WebSocketManager`, `EveryRequestIsDecided`, `EveryCallReturns`,
`PendingBecomesVisible`), which the prover does not reach under
fairness; and all of `SchemaSanitizer`: its definitions recurse through schemas of
any depth by way of each other (RECURSIVE operators, of which the prover knows nothing).

## Where code and documents disagree

Two runs state what a document says, and TLC finds a behaviour of the code against
it, with the lines quoted in `PROJECT.json`:

* `conversation_clear`: a clear during a turn does not last (`main.py:241`). The
  turn has appended the user's message and is about to store it when the clear
  wipes the rows; the message is stored after the wipe, and a restart loads it. (A
  turn that is further on also stores its answer and binds `app.state` to the list
  from before the clear; the run stops at the first trace.) While nothing overlaps
  the same property passes, in `conversation`.
* `approvals_reconnect`: a reconnect can drop a pending item
  (`ApprovalsPage.tsx:24`). Its GET is answered, then a request is stored, announced
  and shown, and then the answer is applied and removes it.

The Agent page fails in the same way: a snapshot read while an approval is pending
and applied after `approval_granted` shows it as pending until the next fetch, against
`main.py:413-415` ("never strands the page on stale state"), and clearing the chat
takes pending approvals off the page until then. The first has no run of its own,
being the trace of `approvals_reconnect` on another page; of the second no document
speaks. Both are behaviours of `TranscriptView`, and `missed` is where
`NothingIsStranded` excepts them.

Some more things the models show. None has a run: a document speaks of few of
them, and loosely.

In the backend:

* After one failed commit, before the timer exists or in the timer's own step, a
  request stays PENDING while the process runs. It executes nothing.
* The create route accepts a rule whose `arg` cannot be a dict key; evaluating it
  raises, and so denies (`TableIsSound` allows this one way of throwing).
* Deleting all rules and restarting brings the seed back (`StartupSeed`).
* An edit between the re-check and the start of execution is not seen (the window
  `GuardedExecution` leaves open).
* Tokens of a turn that fails halfway are not counted, nor those of one of two turns
  that overlap: the total is bounded by what was billed, and not the other way round.
* An answer without a text ends the request with a 500 after `app.state` was bound to
  it: the tokens are in memory and not on disk until the next answer.
* The response after the step cap may hold a call, which is appended and never
  answered (`Conclude` of `Conversation`).
* A server that fails to connect leaves the earlier ones open (`ConnectFails`).
* A client that stops reading delays calls, though `ws_manager.py:3` says a slow
  client never affects them.
* Of a schema with `oneOf` and `anyOf` the later is kept. What is under `not` is
  copied as it is, unsupported keys included: dropping assertions there would exclude
  arguments (the mutant `ConvertNot`), keeping them may not suit Gemini. And where a
  `not` refers to `$defs`, which are loosened (`schema_sanitizer.py:54-60`), arguments
  the server would take are excluded; `NothingValidIsExcluded` excepts this case
  (`NegatesReference`).

In the file server:

* `write_file` answered ERROR, or killed, may leave the file empty or half
  written, and new directories; `move_file` may leave new directories.
* `move_file` replaces a file that is at its destination.

On the pages:

* A page mounted before its first connection misses what changes until then: the
  first `onopen` fetches nothing.
* The Agent page mounted again during a turn shows the answer only when it next
  fetches the state, may show a result twice (its row was fetched before its event
  came), and shows a call in flight without the blocks before the fetch.
* A decided approval is gone after a reload, and where evaluating the rules fails
  the page that was there shows no decision while a reload does.
* A message sent while the state is being fetched is replaced with what was fetched.

## What is not modelled, and the plan

Not modelled: rendering; the rules page, whose edits are the admin's in
`PolicyStore`; the audit page, which shows what it last fetched and which nothing
reads; the audit and state routes' formatting (they only read); table creation,
settings, the transports of MCP; a POST of the pages that fails in the network
after it was sent; the contents of files and messages, so that an OK whose text
begins with `ERROR:` is not told from an ERROR (`mcp_manager.py:164`), and
`read_file`'s translation of line ends.

Open in the proofs: `SchemaSanitizer`, which would first have to be written with
recursive functions of the depth; its properties then follow by induction, as
`ResolvedIsPath` does. Open in the model: the six hazards in `PROJECT.json` that
have a note and no property.
