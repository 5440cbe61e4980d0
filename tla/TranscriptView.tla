---------------------------- MODULE TranscriptView ----------------------------
(***************************************************************************)
(* The Agent page: a transcript that is added to by WebSocket events and   *)
(* by the answers to the page's own POST /chat, and replaced by GET        *)
(* /chat/state when the page is mounted and after a reconnect              *)
(* (frontend/src/pages/AgentPage.tsx, chat_state in backend/main.py).      *)
(*                                                                         *)
(* Of the backend there is what it stores and announces for the page: the  *)
(* messages of Conversation, and the rows and events of Gateway in their   *)
(* order.  The connection is that of ApprovalsView.                        *)
(***************************************************************************)
EXTENDS Naturals, FiniteSets, Sequences

CONSTANTS Turn,
          Call,    \* calls of execute_tool; which turn makes one is open
          Limit,   \* rows of messages, and of tool calls, in GET /chat/state
          MaxTroubles

ASSUME BoundsAssumption == Limit \in Nat /\ MaxTroubles \in Nat

\* Rows, events and entries all say what they are, kind, and of which turn or
\* call.
VARIABLES
    \* The backend.
    stored,     \* the rows the page is made from, by created_at: messages
                \* ("user", "model"), "tool" executions, "approval" requests
    turn,       \* POST /chat: "none", "running", "answered", "failed"
    maker,      \* the turn that makes a call
    stage,      \* how far execute_tool has got with it, "idle" to "done"
    status,     \* approval_requests.status
    \* The connection.
    socket,     \* "closed", "connecting", "accepted" by the server, "open"
    hasConnectedBefore,
    queue,      \* the events on their way, in order
    \* The page.
    mounted,
    transcript, \* its entries: messages and events
    get,        \* the GETs of mounting and of reconnecting: "none", "sent",
    snapshot,   \* "answered", and with which entries
    post,       \* POST /chat: "none", "sent", "done", or "orphaned" when the
                \* page that sent it is gone
    clear,      \* DELETE /chat: likewise, and "deleted" when it has been done
    disturbed,  \* history: the page has not been there, connected, all the time
                \* since before anything was asked of the agent
    read,       \* history: the rows that the answers of the GETs were made from
    missed,     \* history: the rows on which the page was wrong when an answer
                \* came, a GET failed, it was cleared, or the first connection
                \* opened, and of which nothing came since
    troubles    \* broken connections, failed GETs, departures, clears

backend == <<stored, turn, maker, stage, status>>
connection == <<socket, hasConnectedBefore, queue>>
requests == <<get, snapshot, read, post, clear>>
history == <<disturbed, missed, troubles>>
vars == <<backend, connection, mounted, transcript, requests, history>>

Nobody == "NOBODY"

\* The GET of mounting and, numbered by what went wrong before, those of
\* reconnecting: any number of them may be on their way at a time.
Get == 0..MaxTroubles
mount == 0
reconnect == troubles

\* Of the entries of a transcript, those that stand for an approval; a later
\* event changes the entry, and its kind.
Approval == {"pending", "granted", "rejected"}

Message == [kind: {"user", "model"}, of: Turn]
Event == [kind: {"requested", "decided", "pending", "granted", "rejected", "result"}, of: Call]
Entry == Message \cup Event
Row == Message \cup [kind: {"tool", "approval"}, of: Call]

Stage == {"idle", "requested", "asking", "asked", "announced", "recording", "recorded", "done"}

TypeOK ==
    /\ stored \in Seq(Row)
    /\ turn \in [Turn -> {"none", "running", "answered", "failed"}]
    /\ maker \in [Call -> Turn \cup {Nobody}]
    /\ stage \in [Call -> Stage]
    /\ status \in [Call -> {"NONE", "PENDING", "APPROVED", "DENIED"}]
    /\ socket \in {"closed", "connecting", "accepted", "open"}
    /\ hasConnectedBefore \in BOOLEAN
    /\ queue \in Seq(Event)
    /\ mounted \in BOOLEAN
    /\ transcript \in Seq(Entry)
    /\ get \in [Get -> {"none", "sent", "answered"}]
    /\ snapshot \in [Get -> Seq(Entry)]
    /\ post \in [Turn -> {"none", "sent", "done", "orphaned"}]
    /\ clear \in {"none", "sent", "deleted", "orphaned"}
    /\ disturbed \in BOOLEAN
    /\ read \in [Get -> SUBSET Row]
    /\ missed \subseteq Row
    /\ troubles \in 0..MaxTroubles

Trouble == troubles < MaxTroubles /\ troubles' = troubles + 1

Fetch(g) == get' = [get EXCEPT ![g] = "sent"]

Init ==
    /\ stored = <<>>
    /\ turn = [t \in Turn |-> "none"]
    /\ maker = [c \in Call |-> Nobody]
    /\ stage = [c \in Call |-> "idle"]
    /\ status = [c \in Call |-> "NONE"]
    /\ socket = "connecting"
    /\ hasConnectedBefore = FALSE
    /\ queue = <<>>
    /\ mounted \in BOOLEAN
    /\ transcript = <<>>
    /\ get = [g \in Get |-> IF g = mount /\ mounted THEN "sent" ELSE "none"]
    /\ snapshot = [g \in Get |-> <<>>]
    /\ read = [g \in Get |-> {}]
    /\ post = [t \in Turn |-> "none"]
    /\ clear = "none"
    /\ disturbed = ~mounted
    /\ missed = {}
    /\ troubles = 0

-----------------------------------------------------------------------------
(* The backend: POST /chat and, within it, execute_tool.                   *)

Store(kind, of) == stored' = Append(stored, [kind |-> kind, of |-> of])

\* ws_manager.broadcast: the registered socket is sent the event.
Broadcast(kind, c) ==
    queue' = IF socket \in {"accepted", "open"}
             THEN Append(queue, [kind |-> kind, of |-> c]) ELSE queue

At(c, from, to) == stage[c] = from /\ stage' = [stage EXCEPT ![c] = to]

Executes(t) == \E c \in Call : maker[c] = t /\ stage[c] # "done"

BeginTurn(t) ==
    /\ post[t] \in {"sent", "orphaned"} /\ turn[t] = "none"
    /\ turn' = [turn EXCEPT ![t] = "running"]
    /\ Store("user", t)
    /\ UNCHANGED <<maker, stage, status, connection, mounted, transcript, requests, history>>

RequestTool(t, c) ==
    /\ turn[t] = "running" /\ ~Executes(t)
    /\ At(c, "idle", "requested")
    /\ maker' = [maker EXCEPT ![c] = t]
    /\ Broadcast("requested", c)
    /\ UNCHANGED <<stored, turn, status, socket, hasConnectedBefore, mounted, transcript,
                   requests, history>>

\* ALLOW and DENY both lead to a row, with what came of it.
Decide(c) ==
    /\ \E next \in {"asking", "recording"} : At(c, "requested", next)
    /\ Broadcast("decided", c)
    /\ UNCHANGED <<stored, turn, maker, status, socket, hasConnectedBefore, mounted, transcript,
                   requests, history>>

\* Evaluating the rules throws: policy_decided is not broadcast.
PolicyError(c) ==
    /\ At(c, "requested", "recording")
    /\ UNCHANGED <<stored, turn, maker, status, connection, mounted, transcript, requests,
                   history>>

PersistApprovalRequest(c) ==
    /\ At(c, "asking", "asked")
    /\ status' = [status EXCEPT ![c] = "PENDING"]
    /\ Store("approval", c)
    /\ UNCHANGED <<turn, maker, connection, mounted, transcript, requests, history>>

AnnounceApproval(c) ==
    /\ At(c, "asked", "announced")
    /\ Broadcast("pending", c)
    /\ UNCHANGED <<stored, turn, maker, status, socket, hasConnectedBefore, mounted, transcript,
                   requests, history>>

\* On the Approvals page, elsewhere, or by the timer.
TryDecide(c) ==
    /\ status[c] = "PENDING"
    /\ \E new \in {"APPROVED", "DENIED"} : status' = [status EXCEPT ![c] = new]
    /\ UNCHANGED <<stored, turn, maker, stage, connection, mounted, transcript, requests,
                   history>>

Resume(c) ==
    /\ status[c] \in {"APPROVED", "DENIED"}
    /\ At(c, "announced", "recording")
    /\ Broadcast(IF status[c] = "APPROVED" THEN "granted" ELSE "rejected", c)
    /\ UNCHANGED <<stored, turn, maker, status, socket, hasConnectedBefore, mounted, transcript,
                   requests, history>>

\* Refused or executed, there is a row first ...
PersistToolExecution(c) ==
    /\ At(c, "recording", "recorded")
    /\ Store("tool", c)
    /\ UNCHANGED <<turn, maker, status, connection, mounted, transcript, requests, history>>

\* Mutant: refusals by a person are announced as such only.
ReportExecuted(c) ==
    /\ At(c, "recorded", "done")
    /\ IF status[c] = "DENIED" THEN UNCHANGED queue ELSE Broadcast("result", c)
    /\ UNCHANGED <<stored, turn, maker, status, socket, hasConnectedBefore, mounted, transcript,
                   requests, history>>

\* ... and then execution_completed or execution_failed.
Report(c) ==
    /\ At(c, "recorded", "done")
    /\ Broadcast("result", c)
    /\ UNCHANGED <<stored, turn, maker, status, socket, hasConnectedBefore, mounted, transcript,
                   requests, history>>

\* With the answer's row, or with none when the LLM is not available.
EndTurn(t) ==
    /\ turn[t] = "running" /\ ~Executes(t)
    /\ \/ turn' = [turn EXCEPT ![t] = "answered"] /\ Store("model", t)
       \/ turn' = [turn EXCEPT ![t] = "failed"] /\ UNCHANGED stored
    /\ UNCHANGED <<maker, stage, status, connection, mounted, transcript, requests, history>>

-----------------------------------------------------------------------------
(* GET /chat/state, and what the page makes of it.                         *)

\* The numbers of a finite set in order.
Ascending(S) ==
    [n \in 1..Cardinality(S) |-> CHOOSE i \in S : Cardinality({j \in S : j <= i}) = n]

\* The latest rows of these kinds.
Recent(kinds) ==
    LET rows == {i \in DOMAIN stored : stored[i].kind \in kinds}
    IN  {i \in rows : Cardinality({j \in rows : j > i}) < Limit}

Returned ==
    Recent({"user", "model"}) \cup Recent({"tool"})
        \cup {i \in DOMAIN stored : stored[i].kind = "approval" /\ status[stored[i].of] = "PENDING"}

\* The entries a row becomes.
Blocks(row) ==
    CASE row.kind = "tool" -> [k \in 1..3 |-> [kind |-> <<"requested", "decided", "result">>[k],
                                               of |-> row.of]]
      [] row.kind = "approval" -> <<[kind |-> "pending", of |-> row.of]>>
      [] OTHER -> <<row>>

\* entriesFromChatState.  Three places are set aside for the entries of each row.
RowAt(place) == (place + 2) \div 3
BlockAt(place) == place - 3 * (RowAt(place) - 1)

\* Mutant: the page is made from the messages and the approvals only.
EntriesWithoutTools(rows) ==
    LET order == Ascending({i \in rows : stored[i].kind # "tool"})
    IN  [n \in DOMAIN order |-> Blocks(stored[order[n]])[1]]

EntriesFrom(rows) ==
    LET order == Ascending({p \in 1..(3 * Len(stored)) :
                              RowAt(p) \in rows /\ BlockAt(p) \in DOMAIN Blocks(stored[RowAt(p)])})
    IN  [n \in DOMAIN order |-> Blocks(stored[RowAt(order[n])])[BlockAt(order[n])]]

\* The entry that tells how a row ends up.
Face(row) ==
    [kind |-> CASE row.kind = "tool" -> "result" [] row.kind = "approval" -> "pending"
                [] OTHER -> row.kind,
     of |-> row.of]

Has(entries, entry) == \E i \in DOMAIN entries : entries[i] = entry

\* What there is to show, the question that is being sent included.
ToShow ==
    {stored[i] : i \in Returned}
        \cup {[kind |-> "user", of |-> t] : t \in {u \in Turn : post[u] = "sent"}}

\* The rows on which a page that knows these rows is wrong.
WrongIn(rows) ==
    (ToShow \ rows) \cup {row \in rows : row.kind = "approval" /\ status[row.of] # "PENDING"}

\* The rows that these entries show.
ShownIn(entries) == {row \in Row : Has(entries, Face(row))}

\* The page has its first answer, or connection, when something was asked already.
Late == \E t \in Turn : post[t] # "none"

ReadState(g) ==
    /\ get[g] = "sent"
    /\ get' = [get EXCEPT ![g] = "answered"]
    /\ snapshot' = [snapshot EXCEPT ![g] = EntriesFrom(Returned)]
    /\ read' = [read EXCEPT ![g] = {stored[i] : i \in Returned}]
    /\ UNCHANGED <<backend, connection, mounted, transcript, post, clear, history>>

\* This GET is over.
Forget(g) ==
    /\ get' = [get EXCEPT ![g] = "none"]
    /\ snapshot' = [snapshot EXCEPT ![g] = <<>>]
    /\ read' = [read EXCEPT ![g] = {}]
    /\ disturbed' = (disturbed \/ Late)
    /\ UNCHANGED <<backend, connection, mounted, post, clear>>

Reconcile(g) ==
    /\ get[g] = "answered"
    /\ transcript' = snapshot[g]
    /\ missed' = WrongIn(read[g])
    /\ Forget(g)
    /\ UNCHANGED troubles

\* hydrate() leaves the transcript as it is.
GetFails(g) ==
    /\ get[g] # "none"
    /\ missed' = WrongIn(ShownIn(transcript))
    /\ Forget(g)
    /\ Trouble
    /\ UNCHANGED transcript

-----------------------------------------------------------------------------
(* The connection.                                                         *)

Connect ==
    /\ socket = "closed"
    /\ socket' = "connecting"
    /\ UNCHANGED <<backend, hasConnectedBefore, queue, mounted, transcript, requests, history>>

Accept ==
    /\ socket = "connecting"
    /\ socket' = "accepted"
    /\ UNCHANGED <<backend, hasConnectedBefore, queue, mounted, transcript, requests, history>>

\* onopen: each connection but the first makes the page fetch again, whatever it is
\* still waiting for.
Open ==
    /\ socket = "accepted"
    /\ socket' = "open"
    /\ hasConnectedBefore' = TRUE
    /\ \/ mounted /\ hasConnectedBefore /\ Fetch(reconnect) /\ UNCHANGED missed
       \/ mounted /\ ~hasConnectedBefore /\ missed' = WrongIn(ShownIn(transcript)) /\ UNCHANGED get
       \/ ~mounted /\ UNCHANGED <<get, missed>>
    /\ disturbed' = (disturbed \/ Late)
    /\ UNCHANGED <<backend, queue, mounted, transcript, snapshot, read, post, clear, troubles>>

\* What was on its way is lost.
Break ==
    /\ socket \in {"accepted", "open"}
    /\ socket' = "closed"
    /\ queue' = <<>>
    /\ Trouble
    /\ disturbed' = TRUE
    /\ UNCHANGED <<backend, hasConnectedBefore, mounted, transcript, requests, missed>>

-----------------------------------------------------------------------------
(* The page.                                                               *)

Mount ==
    /\ ~mounted
    /\ mounted' = TRUE
    /\ Fetch(mount)
    /\ UNCHANGED <<backend, connection, transcript, snapshot, read, post, clear, history>>

\* The requests it has sent are answered to nobody.
Unmount ==
    /\ mounted
    /\ mounted' = FALSE
    /\ transcript' = <<>>
    /\ get' = [g \in Get |-> "none"]
    /\ post' = [t \in Turn |-> IF post[t] = "sent" THEN "orphaned" ELSE post[t]]
    /\ clear' = CASE clear = "sent" -> "orphaned" [] clear = "deleted" -> "none" [] OTHER -> clear
    /\ snapshot' = [g \in Get |-> <<>>]
    /\ read' = [g \in Get |-> {}]
    /\ disturbed' = TRUE
    /\ missed' = {}
    /\ Trouble
    /\ UNCHANGED <<backend, connection>>

\* upsert_approval
Upsert(event) ==
    LET places == {i \in DOMAIN transcript :
                     transcript[i].kind \in Approval /\ transcript[i].of = event.of}
    IN  IF places = {} THEN Append(transcript, event)
        ELSE [i \in DOMAIN transcript |-> IF i \in places THEN event ELSE transcript[i]]

\* After this event the entries of this row are right.
Tells(event, row) ==
    /\ event.of = row.of
    /\ \/ row.kind = "tool" /\ event.kind = "result"
       \/ row.kind = "approval" /\ event.kind \in Approval

Receive ==
    /\ socket = "open" /\ queue # <<>>
    /\ queue' = Tail(queue)
    /\ LET event == Head(queue) IN
         /\ transcript' = CASE ~mounted -> transcript
                            [] mounted /\ event.kind \in Approval -> Upsert(event)
                            [] OTHER -> Append(transcript, event)
         /\ missed' = {row \in missed : ~Tells(event, row)}
    /\ UNCHANGED <<backend, socket, hasConnectedBefore, mounted, requests, disturbed, troubles>>

sending == \E t \in Turn : post[t] = "sent"

\* handleSend
Send(t) ==
    /\ mounted /\ ~sending
    /\ post[t] = "none"
    /\ post' = [post EXCEPT ![t] = "sent"]
    /\ transcript' = Append(transcript, [kind |-> "user", of |-> t])
    /\ UNCHANGED <<backend, connection, mounted, get, snapshot, read, clear, history>>

\* Of a turn that failed there is only the error, above the transcript.
PostReturns(t) ==
    /\ post[t] = "sent" /\ turn[t] \in {"answered", "failed"}
    /\ post' = [post EXCEPT ![t] = "done"]
    /\ transcript' = IF turn[t] = "answered"
                     THEN Append(transcript, [kind |-> "model", of |-> t]) ELSE transcript
    /\ UNCHANGED <<backend, connection, mounted, get, snapshot, read, clear, history>>

\* handleClear.  A turn that the page has forgotten may be running.
ClearChat ==
    /\ mounted /\ ~sending /\ transcript # <<>>
    /\ clear = "none"
    /\ clear' = "sent"
    /\ disturbed' = TRUE
    /\ Trouble
    /\ UNCHANGED <<backend, connection, mounted, transcript, get, snapshot, read, post, missed>>

\* clear_chat: the messages and the tool calls.
DeleteRows ==
    /\ clear \in {"sent", "orphaned"}
    /\ LET kept == Ascending({i \in DOMAIN stored : stored[i].kind = "approval"})
       IN  stored' = [n \in DOMAIN kept |-> stored[kept[n]]]
    /\ clear' = IF clear = "sent" THEN "deleted" ELSE "none"
    /\ UNCHANGED <<turn, maker, stage, status, connection, mounted, transcript, get, snapshot,
                   read, post, history>>

Cleared ==
    /\ clear = "deleted"
    /\ clear' = "none"
    /\ transcript' = <<>>
    /\ missed' = WrongIn({})
    /\ UNCHANGED <<backend, connection, mounted, get, snapshot, read, post, disturbed, troubles>>

-----------------------------------------------------------------------------
Next ==
    \/ \E t \in Turn : \/ BeginTurn(t) \/ EndTurn(t) \/ Send(t) \/ PostReturns(t)
                       \/ \E c \in Call : RequestTool(t, c)
    \/ \E c \in Call : \/ Decide(c) \/ PolicyError(c) \/ PersistApprovalRequest(c)
                       \/ AnnounceApproval(c) \/ TryDecide(c) \/ Resume(c)
                       \/ PersistToolExecution(c) \/ Report(c)
    \/ \E g \in Get : ReadState(g) \/ Reconcile(g) \/ GetFails(g)
    \/ Connect \/ Accept \/ Open \/ Break
    \/ Mount \/ Unmount \/ Receive
    \/ ClearChat \/ DeleteRows \/ Cleared

Spec == Init /\ [][Next]_vars

-----------------------------------------------------------------------------
\* Nothing is on its way to the page.
AtRest ==
    /\ mounted /\ socket = "open" /\ queue = <<>> /\ clear = "none"
    /\ \A g \in Get : get[g] = "none"
    /\ \A t \in Turn : post[t] = "sent" => turn[t] = "running"

\* The page is about to hear of a row, or has no way to.
Untold(row) ==
    \/ row.kind = "tool" /\ stage[row.of] = "recorded"
    \/ row.kind = "approval" /\ stage[row.of] = "asked"
    \/ row.kind \in {"user", "model"} /\ post[row.of] = "orphaned"

\* However often the page comes and goes and the connection breaks, and whatever
\* calls, GETs and clears are under way then, a page at rest misses nothing of what
\* GET /chat/state would return: every tool call that was resolved
\* (AgentPage.tsx:71), every message but those of turns whose page has gone, and
\* the approvals that are pending, and only these, as pending (main.py:414).  Only
\* rows that were missed are excepted: by an answer that was overtaken, a GET that
\* failed, a clear, or a first connection that opened too late.
NothingIsStranded ==
    AtRest =>
        /\ \A i \in Returned : LET row == stored[i] IN
             Has(transcript, Face(row)) \/ Untold(row) \/ row \in missed
        /\ \A row \in [kind: {"approval"}, of: Call] :
             Has(transcript, Face(row)) =>
               \/ status[row.of] = "PENDING" \/ stage[row.of] \in {"asked", "announced"}
               \/ row \in missed

\* The entries of these kinds are the same, each is there once, and their order is
\* the same.
SameStory(entries, others, kinds) ==
    LET E == {i \in DOMAIN entries : entries[i].kind \in kinds}
        O == {j \in DOMAIN others : others[j].kind \in kinds}
    IN  /\ {entries[i] : i \in E} = {others[j] : j \in O}
        /\ \A i, k \in E, j, l \in O :
             entries[i] = others[j] /\ entries[k] = others[l] => (i < k <=> j < l)

\* What a page shows that was there, and connected, since before anything was asked,
\* is what a reload makes from the rows, in that order: events and rows tell the
\* same story, on every branch of execute_tool.  (Answers and events may overtake each other.
\* Approvals that are decided, and the decision where evaluating failed, are each
\* in one of the stories only.)
LiveIsReplay ==
    AtRest /\ ~disturbed /\ (\A t \in Turn : turn[t] # "running") =>
        \A kinds \in {{"user", "model"}, {"requested", "result"}} :
            SameStory(transcript, EntriesFrom(DOMAIN stored), kinds)
=============================================================================
