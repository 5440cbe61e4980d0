---------------------------- MODULE ApprovalsView ----------------------------
(***************************************************************************)
(* The Approvals page of the dashboard as a copy of the pending rows of    *)
(* approval_requests, kept by two means that know nothing of each other:   *)
(* events over a WebSocket that reconnects, and GET /approvals when the    *)
(* page is mounted and after a reconnect (frontend/src: ApprovalsPage.tsx, *)
(* useWebSocket.ts, WebSocketContext.tsx; backend: ws_manager.py and the   *)
(* routes of main.py).                                                     *)
(*                                                                         *)
(* What the gateway does between the row and its events is the Gateway     *)
(* module's; here a request is persisted, announced, decided and resolved. *)
(***************************************************************************)
EXTENDS Naturals, Sequences

CONSTANTS Request,
          MaxTroubles  \* bound on broken connections, crashes of the backend and
                       \* requests that fail while it is up, taken together

ASSUME BoundsAssumption == MaxTroubles \in Nat

VARIABLES
    \* The backend.
    process,    \* "up" or "down"
    status,     \* approval_requests.status; which decision it is is no matter
    call,       \* how far execute_tool has got with the request
    \* The connection.
    socket,     \* "closed", "connecting", "accepted" by the server, "open"
    hasConnectedBefore,
    queue,      \* the events on their way, in order
    \* The page.
    mounted,
    shown,      \* the state variable pending
    get,        \* the GETs of mounting and of reconnecting
    snapshot,   \* and what they were answered
    post,       \* the POST /approvals/{id} of a request
    missed,     \* history: the requests on which the list was wrong when an
                \* answer replaced it, a GET failed, a row was dropped, or the
                \* first connection opened, and of which no event has come since
    troubles    \* how many there have been

backend == <<process, status, call>>
connection == <<socket, hasConnectedBefore, queue>>
page == <<mounted, shown, get, snapshot, post>>
vars == <<backend, connection, page, missed, troubles>>

\* The GET of mounting and, numbered by the troubles until then, those of
\* reconnecting: any number of them may be on their way at a time.
Get == 0..MaxTroubles
mount == 0
reconnect == troubles

Event == [type: {"required", "resolved"}, request: Request]

TypeOK ==
    /\ process \in {"up", "down"}
    /\ status \in [Request -> {"NONE", "PENDING", "DECIDED"}]
    /\ call \in [Request -> {"idle", "persisted", "announced", "over"}]
    /\ socket \in {"closed", "connecting", "accepted", "open"}
    /\ hasConnectedBefore \in BOOLEAN
    /\ queue \in Seq(Event)
    /\ mounted \in BOOLEAN
    /\ shown \subseteq Request
    /\ get \in [Get -> {"none", "sent", "answered"}]
    /\ snapshot \in [Get -> SUBSET Request]
    /\ post \in [Request -> {"none", "sent", "answered"}]
    /\ missed \subseteq Request
    /\ troubles \in 0..MaxTroubles

Trouble == troubles < MaxTroubles /\ troubles' = troubles + 1

Fetch(g) == get' = [get EXCEPT ![g] = "sent"]

\* The application is loaded, with this page or another one.
Init ==
    /\ process = "up"
    /\ status = [r \in Request |-> "NONE"]
    /\ call = [r \in Request |-> "idle"]
    /\ socket = "connecting"
    /\ hasConnectedBefore = FALSE
    /\ queue = <<>>
    /\ mounted \in BOOLEAN
    /\ shown = {}
    /\ get = [g \in Get |-> IF g = mount /\ mounted THEN "sent" ELSE "none"]
    /\ snapshot = [g \in Get |-> {}]
    /\ post = [r \in Request |-> "none"]
    /\ missed = {}
    /\ troubles = 0

-----------------------------------------------------------------------------
(* The backend.                                                            *)

Pending == {r \in Request : status[r] = "PENDING"}

\* The requests on which a list differs from the rows.
WrongIn(list) == (list \ Pending) \cup (Pending \ list)

\* ws_manager.broadcast: the registered socket is sent the event.
Broadcast(type, r) ==
    queue' = IF socket \in {"accepted", "open"}
             THEN Append(queue, [type |-> type, request |-> r]) ELSE queue

Persist(r) ==
    /\ process = "up"
    /\ call[r] = "idle"
    /\ call' = [call EXCEPT ![r] = "persisted"]
    /\ status' = [status EXCEPT ![r] = "PENDING"]
    /\ UNCHANGED <<process, connection, page, missed, troubles>>

\* From its commit on the row can be decided, even before it is announced.
Announce(r) ==
    /\ call[r] = "persisted"
    /\ call' = [call EXCEPT ![r] = "announced"]
    /\ Broadcast("required", r)
    /\ UNCHANGED <<process, status, socket, hasConnectedBefore, page, missed, troubles>>

\* By the timer, or a person elsewhere.
Decide(r) ==
    /\ process = "up"
    /\ status[r] = "PENDING"
    /\ status' = [status EXCEPT ![r] = "DECIDED"]
    /\ UNCHANGED <<process, call, connection, page, missed, troubles>>

\* Mutant: the event is sent for what was approved here only.
ResolveSilently(r) ==
    /\ call[r] = "announced" /\ status[r] = "DECIDED"
    /\ call' = [call EXCEPT ![r] = "over"]
    /\ UNCHANGED <<process, status, connection, page, missed, troubles>>

\* The call hears of the decision: approval_granted or approval_rejected.
Resolve(r) ==
    /\ call[r] = "announced" /\ status[r] = "DECIDED"
    /\ call' = [call EXCEPT ![r] = "over"]
    /\ Broadcast("resolved", r)
    /\ UNCHANGED <<process, status, socket, hasConnectedBefore, page, missed, troubles>>

ReadPending(g) ==
    /\ process = "up"
    /\ get[g] = "sent"
    /\ get' = [get EXCEPT ![g] = "answered"]
    /\ snapshot' = [snapshot EXCEPT ![g] = Pending]
    /\ UNCHANGED <<backend, connection, mounted, shown, post, missed, troubles>>

ResolveApproval(r) ==
    /\ process = "up"
    /\ post[r] = "sent"
    /\ post' = [post EXCEPT ![r] = "answered"]
    /\ status' = [status EXCEPT ![r] = IF @ = "PENDING" THEN "DECIDED" ELSE @]
    /\ UNCHANGED <<process, call, connection, mounted, shown, get, snapshot, missed, troubles>>

\* The calls end where they are, the connection closes, and what was on its way
\* fails.
Crash ==
    /\ process = "up" /\ Trouble
    /\ process' = "down"
    /\ call' = [r \in Request |-> IF call[r] = "idle" THEN "idle" ELSE "over"]
    /\ socket' = IF socket = "connecting" THEN socket ELSE "closed"
    /\ queue' = <<>>
    /\ get' = [g \in Get |-> IF get[g] = "sent" THEN "none" ELSE get[g]]
    /\ post' = [r \in Request |-> IF post[r] = "sent" THEN "answered" ELSE post[r]]
    /\ UNCHANGED <<status, hasConnectedBefore, mounted, shown, snapshot, missed>>

\* The startup denies what was pending, before it serves.
Restart ==
    /\ process = "down"
    /\ process' = "up"
    /\ status' = [r \in Request |-> IF status[r] = "PENDING" THEN "DECIDED" ELSE status[r]]
    /\ UNCHANGED <<call, connection, page, missed, troubles>>

-----------------------------------------------------------------------------
(* The connection.                                                         *)

\* Mutant: a connection that once was open is not tried again.
ConnectOnce ==
    /\ socket = "closed" /\ ~hasConnectedBefore
    /\ socket' = "connecting"
    /\ UNCHANGED <<backend, hasConnectedBefore, queue, page, missed, troubles>>

\* After each onclose, when its delay is over.
Connect ==
    /\ socket = "closed"
    /\ socket' = "connecting"
    /\ UNCHANGED <<backend, hasConnectedBefore, queue, page, missed, troubles>>

ConnectFails ==
    /\ socket = "connecting" /\ process = "down"
    /\ socket' = "closed"
    /\ UNCHANGED <<backend, hasConnectedBefore, queue, page, missed, troubles>>

Accept ==
    /\ socket = "connecting" /\ process = "up"
    /\ socket' = "accepted"
    /\ UNCHANGED <<backend, hasConnectedBefore, queue, page, missed, troubles>>

\* Mutant: a reconnect is like the first connection.
OpenWithoutFetch ==
    /\ socket = "accepted"
    /\ socket' = "open"
    /\ hasConnectedBefore' = TRUE
    /\ missed' = IF mounted /\ ~hasConnectedBefore THEN WrongIn(shown) ELSE missed
    /\ UNCHANGED <<backend, queue, page, troubles>>

\* onopen: each connection but the first makes the listeners fetch again, whatever
\* they are still waiting for.
Open ==
    /\ socket = "accepted"
    /\ socket' = "open"
    /\ hasConnectedBefore' = TRUE
    /\ \/ mounted /\ hasConnectedBefore /\ Fetch(reconnect) /\ UNCHANGED missed
       \/ mounted /\ ~hasConnectedBefore /\ missed' = WrongIn(shown) /\ UNCHANGED get
       \/ ~mounted /\ UNCHANGED <<get, missed>>
    /\ UNCHANGED <<backend, queue, mounted, shown, snapshot, post, troubles>>

\* What was on its way is lost.
Break ==
    /\ socket \in {"accepted", "open"} /\ Trouble
    /\ socket' = "closed"
    /\ queue' = <<>>
    /\ UNCHANGED <<backend, hasConnectedBefore, page, missed>>

-----------------------------------------------------------------------------
(* The page.                                                               *)

Mount ==
    /\ ~mounted
    /\ mounted' = TRUE
    /\ Fetch(mount)
    /\ UNCHANGED <<backend, connection, shown, snapshot, post, missed, troubles>>

\* Nothing that arrives later changes the state of the page that is gone.
Unmount ==
    /\ mounted
    /\ mounted' = FALSE
    /\ shown' = {}
    /\ get' = [g \in Get |-> "none"]
    /\ snapshot' = [g \in Get |-> {}]
    /\ post' = [r \in Request |-> "none"]
    /\ missed' = {}
    /\ UNCHANGED <<backend, connection, troubles>>

\* The subscriber of a mounted page; without one the event is for nobody.
Receive ==
    /\ socket = "open" /\ queue # <<>>
    /\ queue' = Tail(queue)
    /\ LET event == Head(queue) IN
         shown' = CASE ~mounted -> shown
                    [] mounted /\ event.type = "required" -> shown \cup {event.request}
                    [] mounted /\ event.type = "resolved" -> shown \ {event.request}
    /\ missed' = missed \ {Head(queue).request}
    /\ UNCHANGED <<backend, socket, hasConnectedBefore, mounted, get, snapshot, post,
                   troubles>>

\* setPending(rows): the answer replaces the list.
SetPending(g) ==
    /\ get[g] = "answered"
    /\ get' = [get EXCEPT ![g] = "none"]
    /\ shown' = snapshot[g]
    /\ missed' = WrongIn(snapshot[g])
    /\ snapshot' = [snapshot EXCEPT ![g] = {}]
    /\ UNCHANGED <<backend, connection, mounted, post, troubles>>

\* While the backend is down requests fail; else that is a trouble.
RequestFails ==
    \/ process = "down" /\ UNCHANGED troubles
    \/ process = "up" /\ Trouble

\* The catch of fetchPending leaves the list as it is.
GetFails(g) ==
    /\ get[g] # "none" /\ RequestFails
    /\ get' = [get EXCEPT ![g] = "none"]
    /\ snapshot' = [snapshot EXCEPT ![g] = {}]
    /\ missed' = WrongIn(shown)
    /\ UNCHANGED <<backend, connection, mounted, shown, post>>

\* A button of the row; one POST of a row is on its way at a time.
Click(r) ==
    /\ r \in shown /\ post[r] = "none"
    /\ post' = [post EXCEPT ![r] = "sent"]
    /\ UNCHANGED <<backend, connection, mounted, shown, get, snapshot, missed, troubles>>

PostFails(r) ==
    /\ post[r] = "sent" /\ RequestFails
    /\ post' = [post EXCEPT ![r] = "answered"]
    /\ UNCHANGED <<backend, connection, mounted, shown, get, snapshot, missed>>

\* The row is dropped, whatever the answer.
DropRow(r) ==
    /\ post[r] = "answered"
    /\ post' = [post EXCEPT ![r] = "none"]
    /\ shown' = shown \ {r}
    /\ missed' = missed \cup ({r} \cap Pending)
    /\ UNCHANGED <<backend, connection, mounted, get, snapshot, troubles>>

-----------------------------------------------------------------------------
Next ==
    \/ \E r \in Request : \/ Persist(r) \/ Announce(r) \/ Decide(r) \/ Resolve(r)
                          \/ ResolveApproval(r) \/ Click(r) \/ PostFails(r) \/ DropRow(r)
    \/ \E g \in Get : ReadPending(g) \/ SetPending(g) \/ GetFails(g)
    \/ Crash \/ Restart
    \/ Connect \/ ConnectFails \/ Accept \/ Open \/ Break
    \/ Mount \/ Unmount \/ Receive

Spec == Init /\ [][Next]_vars

\* HTTP requests are answered, timers fire, events arrive, a broken connection is
\* noticed, and a backend that died is started again.  Nobody needs to click.
Fairness ==
    /\ WF_vars(Connect) /\ WF_vars(ConnectFails) /\ WF_vars(Accept) /\ WF_vars(Open)
    /\ WF_vars(Receive) /\ WF_vars(Restart)
    /\ \A g \in Get : WF_vars(ReadPending(g)) /\ WF_vars(SetPending(g))
    /\ \A r \in Request : WF_vars(Announce(r))

FairSpec == Spec /\ Fairness

-----------------------------------------------------------------------------
OnItsWay(type, r) ==
    \E i \in DOMAIN queue : queue[i] = [type |-> type, request |-> r]

\* A GET is unanswered, or will be sent when the socket opens.
WillFetch == socket # "open" \/ \E g \in Get : get[g] = "sent"

\* No request that a call waits on is hidden from the person it waits for (RT-02):
\* it is shown, or the page is about to learn of it, by an event, an answer, or
\* the GET that follows a reconnect, whatever breaks, dies, fails or crosses.
\* Only a request that was missed may be hidden: an answer overtaken by its
\* event, a failed GET or POST, or a first connection that opened after its event.
NothingHidden ==
    mounted => \A r \in Pending :
        \/ r \in shown
        \/ call[r] = "persisted" \/ OnItsWay("required", r)
        \/ WillFetch \/ \E g \in Get : get[g] = "answered" /\ r \in snapshot[g]
        \/ r \in missed

\* And what is shown and cannot be decided any more is about to go, or was missed
\* in that way: after a decision elsewhere, a lost event, or a restart that denied
\* it.
NoGhosts ==
    mounted => \A r \in shown : status[r] = "DECIDED" =>
        \/ call[r] \in {"persisted", "announced"} \/ OnItsWay("resolved", r)
        \/ WillFetch \/ \E g \in Get : get[g] = "answered" /\ r \notin snapshot[g]
        \/ post[r] # "none"
        \/ r \in missed

\* A page that stays open shows a request that stays pending and was not missed,
\* however often the connection breaks.
PendingBecomesVisible ==
    \A r \in Request :
        mounted /\ r \in Pending ~>
            r \in shown \/ r \notin Pending \/ ~mounted \/ r \in missed

\* "Reconnect never drops or duplicates a pending item" (ApprovalsPage.tsx:24): the
\* answer to the GET of a reconnect keeps every pending request that is shown.
ReconnectKeepsPending ==
    [][\A g \in Get \ {mount} :
         SetPending(g) => shown \cap Pending \subseteq shown']_vars
=============================================================================
