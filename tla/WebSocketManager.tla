--------------------------- MODULE WebSocketManager ---------------------------
(***************************************************************************)
(* The fan-out of events to several dashboards: WebSocketManager           *)
(* (backend/ws_manager.py), the /ws route that registers and unregisters   *)
(* sockets, and the calls of the gateway, each of which broadcasts one     *)
(* event and commits its audit row before the next.                        *)
(*                                                                         *)
(* Gateway sees a broadcast as part of the commit after it.  What it takes *)
(* for granted is shown here: a broadcast ends, whatever the clients do.   *)
(***************************************************************************)
EXTENDS Naturals, SequencesExt

CONSTANTS Client,  \* sockets; one that reconnects is another
          Call,    \* calls of execute_tool
          Events,  \* how many events each broadcasts
          Buffer   \* frames a connection takes before its client reads

ASSUME BoundsAssumption == Events \in Nat /\ Buffer \in Nat \ {0}

VARIABLES
    socket,       \* the state of each connection
    connections,  \* _connections
    unread,       \* how many frames each connection holds
    got,          \* which events of each call were sent to each open connection
    missed,       \* how many had been, or were being, sent when it came
    pc,           \* where each call is
    announced,    \* how many of its events each call has broadcast
    todo,         \* the rest of list(self._connections)
    dead          \* its local variable dead

clientVars == <<socket, connections, unread, got, missed>>
callVars == <<pc, announced, todo, dead>>
vars == <<clientVars, callVars>>

TypeOK ==
    /\ socket \in [Client -> {"new", "open", "closed"}]
    /\ connections \subseteq Client
    /\ unread \in [Client -> 0..Buffer]
    /\ got \in [Client -> [Call -> Seq(1..Events)]]
    /\ missed \in [Client -> [Call -> 0..Events]]
    /\ pc \in [Call -> {"working", "sending", "committing", "done"}]
    /\ announced \in [Call -> 0..Events]
    /\ todo \in [Call -> Seq(Client)]
    /\ dead \in [Call -> SUBSET Client]

Init ==
    /\ socket = [c \in Client |-> "new"]
    /\ connections = {}
    /\ unread = [c \in Client |-> 0]
    /\ got = [c \in Client |-> [k \in Call |-> <<>>]]
    /\ missed = [c \in Client |-> [k \in Call |-> 0]]
    /\ pc = [k \in Call |-> "working"]
    /\ announced = [k \in Call |-> 0]
    /\ todo = [k \in Call |-> <<>>]
    /\ dead = [k \in Call |-> {}]

-----------------------------------------------------------------------------
(* ws_endpoint, and the client at the other end.                           *)

\* The event a call is sending, or sends next.
Current(k) == announced[k] + 1

Connect(c) ==
    /\ socket[c] = "new"
    /\ socket' = [socket EXCEPT ![c] = "open"]
    /\ connections' = connections \cup {c}
    /\ missed' = [missed EXCEPT ![c] = [k \in Call |->
            IF pc[k] = "sending" THEN Current(k) ELSE announced[k]]]
    /\ UNCHANGED <<unread, got, callVars>>

Read(c) ==
    /\ socket[c] = "open"
    /\ unread[c] > 0
    /\ unread' = [unread EXCEPT ![c] = @ - 1]
    /\ UNCHANGED <<socket, connections, got, missed, callVars>>

\* The page is closed, the network fails, or a keepalive ping is not answered.
Break(c) ==
    /\ socket[c] = "open"
    /\ socket' = [socket EXCEPT ![c] = "closed"]
    /\ unread' = [unread EXCEPT ![c] = 0]
    /\ got' = [got EXCEPT ![c] = [k \in Call |-> <<>>]]
    /\ missed' = [missed EXCEPT ![c] = [k \in Call |-> 0]]
    /\ UNCHANGED <<connections, callVars>>

\* receive_text() raises WebSocketDisconnect.
Disconnect(c) ==
    /\ socket[c] = "closed"
    /\ c \in connections
    /\ connections' = connections \ {c}
    /\ UNCHANGED <<socket, unread, got, missed, callVars>>

-----------------------------------------------------------------------------
(* broadcast(), inside execute_tool.                                       *)

StartBroadcast(k) ==
    /\ pc[k] = "working"
    /\ announced[k] < Events
    /\ \E list \in SetToSeqs(connections) : todo' = [todo EXCEPT ![k] = list]
    /\ pc' = [pc EXCEPT ![k] = "sending"]
    /\ UNCHANGED <<clientVars, announced, dead>>

\* await ws.send_json(event): waits while the connection holds all it can.
Send(k) ==
    /\ todo[k] # <<>>
    /\ LET c == Head(todo[k]) IN
        /\ socket[c] = "open"
        /\ unread[c] < Buffer
        /\ unread' = [unread EXCEPT ![c] = @ + 1]
        /\ got' = [got EXCEPT ![c][k] = Append(@, Current(k))]
    /\ todo' = [todo EXCEPT ![k] = Tail(@)]
    /\ UNCHANGED <<socket, connections, missed, pc, announced, dead>>

\* Mutant: the exception ends the loop.
SendFailsForAll(k) ==
    /\ todo[k] # <<>>
    /\ socket[Head(todo[k])] = "closed"
    /\ dead' = [dead EXCEPT ![k] = @ \cup {Head(todo[k])}]
    /\ todo' = [todo EXCEPT ![k] = <<>>]
    /\ UNCHANGED <<clientVars, pc, announced>>

\* Mutant: a send that failed is tried again.
SendRetried(k) ==
    /\ todo[k] # <<>>
    /\ socket[Head(todo[k])] = "closed"
    /\ UNCHANGED vars

\* What is sent to a closed connection is lost, mostly with an exception.
SendFails(k) ==
    /\ todo[k] # <<>>
    /\ socket[Head(todo[k])] = "closed"
    /\ \E known \in {{}, {Head(todo[k])}} : dead' = [dead EXCEPT ![k] = @ \cup known]
    /\ todo' = [todo EXCEPT ![k] = Tail(@)]
    /\ UNCHANGED <<clientVars, pc, announced>>

EndBroadcast(k) ==
    /\ pc[k] = "sending"
    /\ todo[k] = <<>>
    /\ connections' = connections \ dead[k]
    /\ dead' = [dead EXCEPT ![k] = {}]
    /\ announced' = [announced EXCEPT ![k] = @ + 1]
    /\ pc' = [pc EXCEPT ![k] = "committing"]
    /\ UNCHANGED <<socket, unread, got, missed, todo>>

\* The audit row, and what the call does before its next event.
Commit(k) ==
    /\ pc[k] = "committing"
    /\ pc' = [pc EXCEPT ![k] = IF announced[k] = Events THEN "done" ELSE "working"]
    /\ UNCHANGED <<clientVars, announced, todo, dead>>

Proceed(k) == StartBroadcast(k) \/ Send(k) \/ SendFails(k) \/ EndBroadcast(k) \/ Commit(k)

Next ==
    \/ \E k \in Call : Proceed(k)
    \/ \E c \in Client : Connect(c) \/ Read(c) \/ Break(c) \/ Disconnect(c)

Spec == Init /\ [][Next]_vars

\* The loop runs what is ready.  A client that does not read does not answer
\* the server's pings, and is cut off.
FairSpec ==
    /\ Spec
    /\ \A k \in Call : WF_vars(Proceed(k))
    /\ \A c \in Client : WF_vars(Read(c) \/ Break(c))

-----------------------------------------------------------------------------
\* How many events of a call a client that is connected should have been sent.
Due(c, k) ==
    IF pc[k] = "sending" /\ c \notin ToSet(todo[k]) THEN Current(k) ELSE announced[k]

\* A client that stays connected is sent every event of every call from its
\* registration on, each once, in their order, no matter which others come,
\* fail or go while an event is sent.
NothingSkipped ==
    \A c \in connections, k \in Call : socket[c] = "open" =>
        got[c][k] = [n \in 1..(Due(c, k) - missed[c][k]) |-> missed[c][k] + n]

\* "A dead/closed socket, a slow client must NEVER affect tool execution"
\* (ws_manager.py:3): it may delay a call, not stop it.
EveryCallEnds == \A k \in Call : pc[k] = "sending" ~> pc[k] = "done"
=============================================================================
