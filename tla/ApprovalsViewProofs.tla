------------------------- MODULE ApprovalsViewProofs -------------------------
(***************************************************************************)
(* Proofs about ApprovalsView, for any requests and any bounds.            *)
(***************************************************************************)
EXTENDS ApprovalsView, TLAPS

BackendType ==
    /\ process \in {"up", "down"}
    /\ status \in [Request -> {"NONE", "PENDING", "DECIDED"}]
    /\ call \in [Request -> {"idle", "persisted", "announced", "over"}]

ConnectionType ==
    /\ socket \in {"closed", "connecting", "accepted", "open"}
    /\ hasConnectedBefore \in BOOLEAN
    /\ queue \in Seq(Event)

PageType ==
    /\ mounted \in BOOLEAN
    /\ shown \subseteq Request
    /\ get \in [Get -> {"none", "sent", "answered"}]
    /\ snapshot \in [Get -> SUBSET Request]
    /\ post \in [Request -> {"none", "sent", "answered"}]

HistoryType ==
    /\ missed \subseteq Request
    /\ troubles \in 0..MaxTroubles

\* The page knows of no request before its row is there; no call outlives the
\* process.
Known ==
    /\ process = "down" => \A r \in Request : call[r] \in {"idle", "over"}
    /\ \A r \in Request : call[r] = "idle" <=> status[r] = "NONE"
    /\ \A r \in Request : r \in shown \/ post[r] # "none" => status[r] # "NONE"
    /\ \A g \in Get : \A r \in snapshot[g] : status[r] # "NONE"
    /\ \A i \in DOMAIN queue : status[queue[i].request] # "NONE"

\* The event that takes a request off the page comes after its decision.
Removal ==
    \A i \in DOMAIN queue :
        queue[i].type = "resolved" => status[queue[i].request] = "DECIDED"

IndInv == Known /\ Removal /\ NothingHidden

Types == BackendType /\ ConnectionType /\ PageType /\ HistoryType

LEMMA TypeParts == (TypeOK <=> Types) /\ (TypeOK' <=> Types')
BY DEF TypeOK, Types, BackendType, ConnectionType, PageType, HistoryType

LEMMA TypeInit == Init => TypeOK
<1> SUFFICES ASSUME Init PROVE Types
  BY TypeParts
<1>1. BackendType
  BY DEF Init, BackendType
<1>2. ConnectionType
  <2>1. <<>> \in Seq(Event)
    OBVIOUS
  <2>2. queue \in Seq(Event)
    BY <2>1, Zenon DEF Init
  <2> QED BY <2>2 DEF Init, ConnectionType
<1>3. PageType
  BY DEF Init, PageType, Get
<1>4. HistoryType
  BY BoundsAssumption DEF Init, HistoryType
<1> QED BY <1>1, <1>2, <1>3, <1>4 DEF Types

LEMMA BroadcastType ==
  ASSUME NEW r \in Request, NEW type \in {"required", "resolved"},
         queue \in Seq(Event), Broadcast(type, r)
  PROVE  queue' \in Seq(Event)
<1>1. [type |-> type, request |-> r] \in Event
  BY DEF Event
<1> QED BY <1>1 DEF Broadcast

LEMMA TypeNext == TypeOK /\ [Next]_vars => TypeOK'
<1> SUFFICES ASSUME Types, [Next]_vars PROVE Types'
  BY TypeParts
<1> USE DEF Types, BackendType, ConnectionType, PageType, HistoryType
<1>1. ASSUME NEW r \in Request, Persist(r) PROVE Types'
  BY <1>1 DEF Persist, connection, page
<1>2. ASSUME NEW r \in Request, Announce(r) PROVE Types'
  <2>1. queue' \in Seq(Event)
    BY <1>2, BroadcastType DEF Announce
  <2> QED BY <1>2, <2>1 DEF Announce, page
<1>3. ASSUME NEW r \in Request, Decide(r) PROVE Types'
  BY <1>3 DEF Decide, connection, page
<1>4. ASSUME NEW r \in Request, Resolve(r) PROVE Types'
  <2>1. queue' \in Seq(Event)
    BY <1>4, BroadcastType DEF Resolve
  <2> QED BY <1>4, <2>1 DEF Resolve, page
<1>5. ASSUME NEW r \in Request, ResolveApproval(r) PROVE Types'
  BY <1>5 DEF ResolveApproval, connection
<1>6. ASSUME NEW r \in Request, Click(r) \/ DropRow(r) PROVE Types'
  BY <1>6 DEF Click, DropRow, Pending, backend, connection
<1>7. ASSUME NEW r \in Request, PostFails(r) PROVE Types'
  BY <1>7, BoundsAssumption DEF PostFails, RequestFails, Trouble, backend, connection
<1>8. ASSUME NEW g \in Get, ReadPending(g) PROVE Types'
  <2>1. Pending \in SUBSET Request
    BY DEF Pending
  <2> QED BY <1>8, <2>1 DEF ReadPending, backend, connection
<1>9. ASSUME NEW g \in Get, SetPending(g) PROVE Types'
  BY <1>9 DEF SetPending, WrongIn, Pending, backend, connection
<1>10. ASSUME NEW g \in Get, GetFails(g) PROVE Types'
  BY <1>10, BoundsAssumption
  DEF GetFails, RequestFails, Trouble, WrongIn, Pending, backend, connection
<1>11. ASSUME Crash PROVE Types'
  BY <1>11, BoundsAssumption DEF Crash, Trouble
<1>12. ASSUME Restart PROVE Types'
  BY <1>12 DEF Restart, connection, page
<1>13. ASSUME Connect \/ ConnectFails \/ Accept PROVE Types'
  BY <1>13 DEF Connect, ConnectFails, Accept, backend, page
<1>14. ASSUME Open PROVE Types'
  BY <1>14 DEF Open, Fetch, WrongIn, Pending, backend
<1>15. ASSUME Break PROVE Types'
  BY <1>15, BoundsAssumption DEF Break, Trouble, backend, page
<1>16. ASSUME Mount PROVE Types'
  BY <1>16 DEF Mount, Fetch, backend, connection
<1>17. ASSUME Unmount PROVE Types'
  BY <1>17 DEF Unmount, Get, backend, connection
<1>18. ASSUME Receive PROVE Types'
  <2>1. queue' \in Seq(Event) /\ Head(queue) \in Event
    BY <1>18 DEF Receive
  <2>2. shown' \subseteq Request
    BY <1>18, <2>1 DEF Receive, Event
  <2> QED BY <1>18, <2>1, <2>2 DEF Receive, backend
<1>19. ASSUME UNCHANGED vars PROVE Types'
  BY <1>19 DEF vars, backend, connection, page
<1> QED
  BY <1>1, <1>2, <1>3, <1>4, <1>5, <1>6, <1>7, <1>8, <1>9, <1>10, <1>11, <1>12,
     <1>13, <1>14, <1>15, <1>16, <1>17, <1>18, <1>19 DEF Next

\* Every variable keeps its type: an event that is queued has one of two types
\* and names a request, an answer is a set of requests, bounds are kept.
THEOREM TypeCorrect == Spec => []TypeOK
<1>1. Init => TypeOK
  BY TypeInit
<1>2. TypeOK /\ [Next]_vars => TypeOK'
  BY TypeNext
<1> QED BY <1>1, <1>2, PTL DEF Spec
-----------------------------------------------------------------------------
\* The events on their way, after one more is sent.
LEMMA BroadcastEvents ==
  ASSUME NEW r \in Request, NEW type \in {"required", "resolved"},
         queue \in Seq(Event), Broadcast(type, r), UNCHANGED socket
  PROVE  /\ \A i \in DOMAIN queue' :
              \/ i \in DOMAIN queue /\ queue'[i] = queue[i]
              \/ queue'[i] = [type |-> type, request |-> r]
         /\ \A t, q : OnItsWay(t, q) => OnItsWay(t, q)'
         /\ socket \in {"accepted", "open"} => OnItsWay(type, r)'
<1> DEFINE event == [type |-> type, request |-> r]
<1>1. event \in Event
  BY DEF Event
<1>2. CASE socket \in {"accepted", "open"}
  <2>1. queue' = Append(queue, event)
    BY <1>2 DEF Broadcast
  <2>2. /\ DOMAIN queue' = 1..(Len(queue) + 1) /\ DOMAIN queue = 1..Len(queue)
        /\ queue'[Len(queue) + 1] = event
        /\ \A i \in DOMAIN queue : queue'[i] = queue[i]
    BY <1>1, <2>1
  <2>3. Len(queue) \in Nat
    OBVIOUS
  <2> QED BY <2>2, <2>3 DEF OnItsWay
<1>3. CASE socket \notin {"accepted", "open"}
  BY <1>3 DEF Broadcast, OnItsWay
<1> QED BY <1>2, <1>3

\* And after the first has arrived.
LEMMA ReceivedEvents ==
  ASSUME queue \in Seq(Event), queue # <<>>, queue' = Tail(queue)
  PROVE  /\ 1 \in DOMAIN queue /\ queue[1] = Head(queue)
         /\ \A i \in DOMAIN queue' : i + 1 \in DOMAIN queue /\ queue'[i] = queue[i + 1]
         /\ \A t, q : OnItsWay(t, q) =>
              OnItsWay(t, q)' \/ Head(queue) = [type |-> t, request |-> q]
<1>1. /\ Len(queue) \in Nat \ {0} /\ DOMAIN queue = 1..Len(queue)
      /\ Head(queue) = queue[1]
      /\ DOMAIN queue' = 1..(Len(queue) - 1)
      /\ \A i \in DOMAIN queue' : queue'[i] = queue[i + 1]
  OBVIOUS
<1>2. ASSUME NEW t, NEW q, OnItsWay(t, q)
      PROVE  OnItsWay(t, q)' \/ Head(queue) = [type |-> t, request |-> q]
  <2>1. PICK i \in DOMAIN queue : queue[i] = [type |-> t, request |-> q]
    BY <1>2 DEF OnItsWay
  <2>2. CASE i = 1
    BY <1>1, <2>1, <2>2
  <2>3. CASE i # 1
    <3>1. i - 1 \in DOMAIN queue' /\ queue'[i - 1] = queue[i]
      BY <1>1, <2>3
    <3> QED BY <2>1, <3>1 DEF OnItsWay
  <2> QED BY <2>2, <2>3
<1> QED BY <1>1, <1>2

LEMMA EventFields ==
  ASSUME queue \in Seq(Event), NEW i \in DOMAIN queue
  PROVE  queue[i].type \in {"required", "resolved"} /\ queue[i].request \in Request
<1>1. queue[i] \in Event
  OBVIOUS
<1> QED BY <1>1 DEF Event

\* What an event does to the list.
LEMMA ReceivedShown ==
  ASSUME queue \in Seq(Event), mounted \in BOOLEAN, Receive
  PROVE  LET event == Head(queue) IN
         /\ event.request \in Request
         /\ shown' \subseteq shown \cup {event.request}
         /\ shown \ {event.request} \subseteq shown'
         /\ mounted /\ event.type = "required" => shown' = shown \cup {event.request}
         /\ event.type # "resolved" => shown \subseteq shown'
<1>1. 1 \in DOMAIN queue /\ queue[1] = Head(queue)
  BY ReceivedEvents DEF Receive
<1>2. Head(queue).type \in {"required", "resolved"} /\ Head(queue).request \in Request
  BY <1>1, EventFields
<1>3. shown' = CASE ~mounted -> shown
                 [] mounted /\ Head(queue).type = "required" ->
                      shown \cup {Head(queue).request}
                 [] mounted /\ Head(queue).type = "resolved" ->
                      shown \ {Head(queue).request}
  BY Zenon DEF Receive
<1> QED BY <1>2, <1>3

LEMMA KnownInit == Init => Known /\ Removal
BY DEF Init, Known, Removal

LEMMA KnownNext == TypeOK /\ Known /\ [Next]_vars => Known'
<1> SUFFICES ASSUME Types, Known, [Next]_vars PROVE Known'
  BY TypeParts
<1> USE DEF Types, BackendType, ConnectionType, PageType
<1>1. ASSUME NEW r \in Request, Persist(r) PROVE Known'
  BY <1>1 DEF Persist, Known, connection, page
<1>2. ASSUME NEW r \in Request, Announce(r) PROVE Known'
  <2>1. status[r] # "NONE"
    BY <1>2 DEF Announce, Known
  <2>2. \A i \in DOMAIN queue' : \/ i \in DOMAIN queue /\ queue'[i] = queue[i]
                                \/ queue'[i] = [type |-> "required", request |-> r]
    BY <1>2, BroadcastEvents DEF Announce
  <2> QED BY <1>2, <2>1, <2>2 DEF Announce, Known, page
<1>3. ASSUME NEW r \in Request, Decide(r) PROVE Known'
  BY <1>3 DEF Decide, Known, connection, page, Event
<1>4. ASSUME NEW r \in Request, Resolve(r) PROVE Known'
  <2>1. \A i \in DOMAIN queue' : \/ i \in DOMAIN queue /\ queue'[i] = queue[i]
                                \/ queue'[i] = [type |-> "resolved", request |-> r]
    BY <1>4, BroadcastEvents DEF Resolve
  <2> QED BY <1>4, <2>1 DEF Resolve, Known, page
<1>5. ASSUME NEW r \in Request, ResolveApproval(r) PROVE Known'
  BY <1>5 DEF ResolveApproval, Known, connection, Event
<1>6. ASSUME NEW r \in Request, Click(r) \/ DropRow(r) \/ PostFails(r) PROVE Known'
  BY <1>6 DEF Click, DropRow, PostFails, Known, backend, connection
<1>7. ASSUME NEW g \in Get, ReadPending(g) PROVE Known'
  BY <1>7 DEF ReadPending, Pending, Known, backend, connection
<1>8. ASSUME NEW g \in Get, SetPending(g) \/ GetFails(g) PROVE Known'
  BY <1>8 DEF SetPending, GetFails, Known, backend, connection
<1>9. CASE Crash
  BY <1>9 DEF Crash, Known
<1>10. CASE Restart
  <2>1. \A r \in Request : status'[r] = "NONE" <=> status[r] = "NONE"
    BY <1>10 DEF Restart
  <2>2. \A i \in DOMAIN queue : queue[i].request \in Request
    BY EventFields
  <2>3. \A g \in Get : snapshot[g] \subseteq Request
    OBVIOUS
  <2> QED BY <1>10, <2>1, <2>2, <2>3 DEF Restart, Known, connection, page
<1>11. CASE Connect \/ ConnectFails \/ Accept \/ Open
  BY <1>11 DEF Connect, ConnectFails, Accept, Open, Known, backend, page
<1>12. CASE Break
  BY <1>12 DEF Break, Known, backend, page
<1>13. CASE Mount \/ Unmount
  BY <1>13 DEF Mount, Unmount, Known, backend, connection
<1>14. CASE Receive
  <2>1. \A i \in DOMAIN queue' : i + 1 \in DOMAIN queue /\ queue'[i] = queue[i + 1]
    BY <1>14, ReceivedEvents DEF Receive
  <2>2. status[Head(queue).request] # "NONE"
    BY <1>14, ReceivedEvents DEF Receive, Known
  <2>3. shown' \subseteq shown \cup {Head(queue).request}
    BY <1>14, ReceivedShown
  <2>4. \A i \in DOMAIN queue' : status[queue'[i].request] # "NONE"
    BY <2>1 DEF Known
  <2>5. UNCHANGED <<process, status, call, post, snapshot>>
    BY <1>14 DEF Receive, backend
  <2> QED BY <2>2, <2>3, <2>4, <2>5 DEF Known
<1>15. CASE UNCHANGED vars
  BY <1>15 DEF vars, backend, connection, page, Known
<1> QED
  BY <1>1, <1>2, <1>3, <1>4, <1>5, <1>6, <1>7, <1>8, <1>9, <1>10, <1>11, <1>12,
     <1>13, <1>14, <1>15 DEF Next

LEMMA RemovalNext == TypeOK /\ Known /\ Removal /\ [Next]_vars => Removal'
<1> SUFFICES ASSUME Types, Known, Removal, [Next]_vars PROVE Removal'
  BY TypeParts
<1> USE DEF Types, BackendType, ConnectionType, PageType
<1>a. \A i \in DOMAIN queue : queue[i].request \in Request
  BY EventFields
<1>1. ASSUME NEW r \in Request, Persist(r) PROVE Removal'
  <2>1. status[r] = "NONE"
    BY <1>1 DEF Persist, Known
  <2> QED BY <1>a, <1>1, <2>1 DEF Persist, Removal, Known, connection, page
<1>2. ASSUME NEW r \in Request, Announce(r) PROVE Removal'
  <2>1. \A i \in DOMAIN queue' : \/ i \in DOMAIN queue /\ queue'[i] = queue[i]
                                \/ queue'[i] = [type |-> "required", request |-> r]
    BY <1>2, BroadcastEvents DEF Announce
  <2> QED BY <1>2, <2>1 DEF Announce, Removal, page
<1>3. ASSUME NEW r \in Request, Decide(r) PROVE Removal'
  BY <1>a, <1>3 DEF Decide, Removal, connection, page
<1>4. ASSUME NEW r \in Request, Resolve(r) PROVE Removal'
  <2>1. \A i \in DOMAIN queue' : \/ i \in DOMAIN queue /\ queue'[i] = queue[i]
                                \/ queue'[i] = [type |-> "resolved", request |-> r]
    BY <1>4, BroadcastEvents DEF Resolve
  <2> QED BY <1>4, <2>1 DEF Resolve, Removal, page
<1>5. ASSUME NEW r \in Request, ResolveApproval(r) PROVE Removal'
  BY <1>a, <1>5 DEF ResolveApproval, Removal, connection
<1>6. ASSUME NEW r \in Request, Click(r) \/ DropRow(r) PROVE Removal'
  BY <1>6 DEF Click, DropRow, Removal, backend, connection
<1>7. ASSUME NEW r \in Request, PostFails(r) PROVE Removal'
  BY <1>7 DEF PostFails, Removal, backend, connection
<1>8. ASSUME NEW g \in Get, ReadPending(g) \/ SetPending(g) PROVE Removal'
  BY <1>8 DEF ReadPending, SetPending, Removal, backend, connection
<1>9. ASSUME NEW g \in Get, GetFails(g) PROVE Removal'
  BY <1>9 DEF GetFails, Removal, backend, connection
<1>10. CASE Crash
  <2>1. DOMAIN queue' = {}
    BY <1>10 DEF Crash
  <2> QED BY <2>1 DEF Removal
<1>11. CASE Restart
  BY <1>a, <1>11 DEF Restart, Removal, connection
<1>12. CASE Connect \/ ConnectFails \/ Accept \/ Open
  BY <1>12 DEF Connect, ConnectFails, Accept, Open, Removal, backend, page
<1>13. CASE Break
  BY <1>13 DEF Break, Removal, backend, page
<1>14. CASE Mount \/ Unmount
  BY <1>14 DEF Mount, Unmount, Removal, backend, connection
<1>15. CASE Receive
  <2>1. \A i \in DOMAIN queue' : i + 1 \in DOMAIN queue /\ queue'[i] = queue[i + 1]
    BY <1>15, ReceivedEvents DEF Receive
  <2>2. UNCHANGED status
    BY <1>15 DEF Receive, backend
  <2> QED BY <2>1, <2>2 DEF Removal
<1>16. CASE UNCHANGED vars
  BY <1>16 DEF vars, backend, connection, page, Removal
<1> QED
  BY <1>1, <1>2, <1>3, <1>4, <1>5, <1>6, <1>7, <1>8, <1>9, <1>10, <1>11, <1>12,
     <1>13, <1>14, <1>15, <1>16 DEF Next

-----------------------------------------------------------------------------
\* Only Persist makes a request pending.
LEMMA PendingStep ==
  ASSUME Types, Known, [Next]_vars
  PROVE  Pending' \subseteq Pending \/ \E r \in Request : Persist(r)
<1> USE DEF Types, BackendType
<1>1. ASSUME NEW r \in Request,
             Announce(r) \/ Decide(r) \/ Resolve(r) \/ ResolveApproval(r)
      PROVE  Pending' \subseteq Pending
  BY <1>1 DEF Announce, Decide, Resolve, ResolveApproval, Pending
<1>2. CASE Crash \/ Restart
  BY <1>2 DEF Crash, Restart, Pending
<1>3. ASSUME UNCHANGED backend PROVE Pending' = Pending
  BY <1>3 DEF backend, Pending
<1>4. ASSUME NEW r \in Request, Click(r) \/ PostFails(r) \/ DropRow(r)
      PROVE  UNCHANGED backend
  BY <1>4 DEF Click, PostFails, DropRow
<1>5. ASSUME NEW g \in Get, ReadPending(g) \/ SetPending(g) \/ GetFails(g)
      PROVE  UNCHANGED backend
  BY <1>5 DEF ReadPending, SetPending, GetFails
<1>6. ASSUME \/ Connect \/ ConnectFails \/ Accept \/ Open \/ Break
             \/ Mount \/ Unmount \/ Receive \/ UNCHANGED vars
      PROVE  UNCHANGED backend
  BY <1>6 DEF Connect, ConnectFails, Accept, Open, Break, Mount, Unmount, Receive, vars
<1> QED BY <1>1, <1>2, <1>3, <1>4, <1>5, <1>6 DEF Next

\* What NothingHidden says of a pending request.
InSight(r) ==
    \/ r \in shown
    \/ call[r] = "persisted" \/ OnItsWay("required", r)
    \/ WillFetch \/ \E g \in Get : get[g] = "answered" /\ r \in snapshot[g]
    \/ r \in missed

LEMMA HiddenNext ==
  ASSUME Types, Known, Removal, NothingHidden, [Next]_vars
  PROVE  NothingHidden'
<1> SUFFICES ASSUME mounted', NEW r \in Pending'
             PROVE  InSight(r)'
  BY DEF NothingHidden, InSight
<1> USE DEF Types, BackendType, ConnectionType, PageType
<1>r. r \in Request
  BY DEF Pending
<1>1. ASSUME NEW q \in Request, Persist(q) PROVE InSight(r)'
  <2>1. CASE q = r
    BY <1>1, <1>r, <2>1 DEF Persist, InSight
  <2>2. CASE q # r
    <3>1. r \in Pending /\ UNCHANGED <<mounted, missed>> /\ call'[r] = call[r]
      BY <1>1, <1>r, <2>2 DEF Persist, Pending, page
    <3>2. InSight(r)
      BY <3>1 DEF NothingHidden, InSight
    <3> QED BY <1>1, <3>1, <3>2 DEF Persist, InSight, WillFetch, OnItsWay, connection, page
  <2> QED BY <2>1, <2>2
<1>2. ASSUME mounted, r \in Pending PROVE InSight(r)
  BY <1>2 DEF NothingHidden, InSight
<1>3. ASSUME UNCHANGED <<mounted, missed, shown, get, snapshot, socket, queue>>,
             call'[r] = call[r], r \in Pending
      PROVE  InSight(r)'
  BY <1>2, <1>3 DEF InSight, WillFetch, OnItsWay
<1>4. ASSUME NEW q \in Request, Announce(q), r \in Pending PROVE InSight(r)'
  <2>1. /\ OnItsWay("required", r) => OnItsWay("required", r)'
        /\ socket \in {"accepted", "open"} => OnItsWay("required", q)'
    BY <1>4, BroadcastEvents DEF Announce
  <2>2. /\ UNCHANGED <<mounted, missed, shown, get, snapshot, socket>>
        /\ q # r => call'[r] = call[r]
    BY <1>4, <1>r DEF Announce, page
  <2>3. CASE q = r
    BY <2>1, <2>2, <2>3 DEF InSight, WillFetch
  <2>4. CASE q # r
    BY <1>2, <1>4, <2>1, <2>2, <2>4 DEF InSight, WillFetch
  <2> QED BY <2>3, <2>4
<1>5. ASSUME NEW q \in Request, Resolve(q), r \in Pending PROVE InSight(r)'
  <2>1. OnItsWay("required", r) => OnItsWay("required", r)'
    BY <1>5, BroadcastEvents DEF Resolve
  <2>2. q # r
    BY <1>5 DEF Resolve, Pending
  <2>3. UNCHANGED <<mounted, missed, shown, get, snapshot, socket>> /\ call'[r] = call[r]
    BY <1>5, <1>r, <2>2 DEF Resolve, page
  <2> QED BY <1>2, <1>5, <2>1, <2>3 DEF InSight, WillFetch
<1>6. ASSUME NEW q \in Request, DropRow(q), r \in Pending PROVE InSight(r)'
  <2>1. UNCHANGED <<mounted, get, snapshot, socket, queue, call>>
        /\ shown' = shown \ {q} /\ missed' = missed \cup ({q} \cap Pending)
    BY <1>6 DEF DropRow, backend, connection
  <2> QED BY <1>2, <1>6, <2>1 DEF InSight, WillFetch, OnItsWay
<1>7. ASSUME NEW q \in Request, PostFails(q)
      PROVE  UNCHANGED <<mounted, missed, shown, get, snapshot, socket, queue, call>>
  BY <1>7 DEF PostFails, backend, connection
<1>8. ASSUME NEW h \in Get, GetFails(h), r \in Pending PROVE InSight(r)'
  BY <1>8 DEF GetFails, WrongIn, InSight
<1>9. ASSUME NEW h \in Get, ReadPending(h), r \in Pending PROVE InSight(r)'
  BY <1>9 DEF ReadPending, InSight
<1>10. ASSUME NEW h \in Get, SetPending(h), r \in Pending PROVE InSight(r)'
  BY <1>10 DEF SetPending, WrongIn, InSight
<1>11. ASSUME Crash \/ Break PROVE socket' # "open"
  BY <1>11 DEF Crash, Break
<1>12. ASSUME Connect \/ ConnectFails \/ Accept PROVE socket' # "open"
  BY <1>12 DEF Connect, ConnectFails, Accept
<1>13. ASSUME Open, r \in Pending PROVE InSight(r)'
  <2>1. UNCHANGED <<mounted, shown>>
    BY <1>13 DEF Open
  <2>2. CASE hasConnectedBefore
    <3>1. get'[reconnect] = "sent" /\ reconnect \in Get
      BY <1>13, <2>1, <2>2, BoundsAssumption DEF Open, Fetch, Get, reconnect, HistoryType
    <3> QED BY <3>1 DEF InSight, WillFetch
  <2>3. CASE ~hasConnectedBefore
    <3>1. missed' = WrongIn(shown)
      BY <1>13, <2>1, <2>3 DEF Open
    <3> QED BY <1>13, <2>1, <3>1 DEF InSight, WrongIn
  <2> QED BY <2>2, <2>3
<1>14. ASSUME Mount PROVE \E g \in Get : get'[g] = "sent"
  <2>1. mount \in Get
    BY BoundsAssumption DEF mount, Get
  <2> QED BY <1>14, <2>1 DEF Mount, Fetch
<1>15. ASSUME Unmount PROVE FALSE
  BY <1>15 DEF Unmount
<1>16. ASSUME Receive, r \in Pending PROVE InSight(r)'
  <2>1. UNCHANGED <<mounted, get, snapshot, socket, call>>
    BY <1>16 DEF Receive, backend
  <2>2. 1 \in DOMAIN queue /\ queue[1] = Head(queue)
    BY <1>16, ReceivedEvents DEF Receive
  <2>3. Head(queue).type \in {"required", "resolved"}
        /\ (Head(queue).type = "resolved" => status[Head(queue).request] = "DECIDED")
    BY <2>2, EventFields DEF Removal
  <2>4. CASE Head(queue).request = r
    <3>1. Head(queue).type = "required"
      BY <1>16, <2>3, <2>4 DEF Pending
    <3>2. r \in shown'
      BY <1>16, <2>1, <2>4, <3>1, ReceivedShown
    <3> QED BY <3>2 DEF InSight
  <2>5. CASE Head(queue).request # r
    <3>1. r \in shown => r \in shown'
      BY <1>16, <2>5, ReceivedShown
    <3>2. OnItsWay("required", r) => OnItsWay("required", r)'
      BY <1>16, <2>5, ReceivedEvents DEF Receive
    <3>3. r \in missed => r \in missed'
      BY <1>16, <2>5 DEF Receive
    <3> QED BY <1>2, <1>16, <2>1, <3>1, <3>2, <3>3 DEF InSight, WillFetch
  <2> QED BY <2>4, <2>5
<1>17. ASSUME NEW q \in Request, Decide(q) \/ ResolveApproval(q) \/ Click(q)
       PROVE  UNCHANGED <<mounted, missed, shown, get, snapshot, socket, queue, call>>
  BY <1>17 DEF Decide, ResolveApproval, Click, backend, page, connection
<1>18. ASSUME Restart \/ UNCHANGED vars
       PROVE  UNCHANGED <<mounted, missed, shown, get, snapshot, socket, queue, call>>
  BY <1>18 DEF Restart, vars, backend, page, connection
<1>19. ASSUME socket' # "open" \/ \E g \in Get : get'[g] = "sent" PROVE InSight(r)'
  BY <1>19 DEF InSight, WillFetch
<1> QED
  BY <1>1, <1>3, <1>4, <1>5, <1>6, <1>7, <1>8, <1>9, <1>10, <1>11, <1>12, <1>13, <1>14,
     <1>15, <1>16, <1>17, <1>18, <1>19, PendingStep DEF Next

LEMMA IndStep == TypeOK /\ IndInv /\ [Next]_vars => IndInv'
BY TypeParts, KnownNext, RemovalNext, HiddenNext DEF IndInv

\* No pending request is hidden from a mounted page, unless it was missed: it is
\* shown, or an event, an answer, or a GET about to be sent will show it - for any
\* number of requests, broken connections, crashes and failed requests, whatever
\* GETs and events cross.
THEOREM NothingStaysHidden == Spec => []NothingHidden
<1>1. Init => IndInv
  <2>1. Init => Pending = {}
    BY DEF Init, Pending
  <2>2. Init => NothingHidden
    BY <2>1 DEF NothingHidden
  <2> QED BY <2>2, KnownInit DEF IndInv
<1>2. TypeOK /\ IndInv /\ [Next]_vars => IndInv'
  BY IndStep
<1>3. Spec => []IndInv
  BY <1>1, <1>2, TypeCorrect, PTL DEF Spec
<1>4. IndInv => NothingHidden
  BY DEF IndInv
<1> QED BY <1>3, <1>4, PTL

(***************************************************************************)
(* Ghosts: what is shown although it is decided.                           *)
(***************************************************************************)

Waits(r) == call[r] \in {"persisted", "announced"}

\* A backend that is up has a call for each pending request; one that is down has
\* no connection; a connection that is not accepted carries no event; a page that
\* is gone shows nothing and asks for nothing.
Links ==
    /\ process = "up" => \A r \in Pending : Waits(r)
    /\ process = "down" => socket \in {"closed", "connecting"}
    /\ socket \in {"closed", "connecting"} => queue = <<>>
    /\ socket = "open" => hasConnectedBefore
    /\ ~mounted => shown = {} /\ \A g \in Get : get[g] = "none"

\* The event that adds a request to the page is followed by the one that takes it
\* away, unless that one is still to come.
InOrder ==
    \A i \in DOMAIN queue :
        queue[i].type = "required" =>
            \/ call[queue[i].request] = "announced"
            \/ \E j \in DOMAIN queue :
                 j > i /\ queue[j] = [type |-> "resolved", request |-> queue[i].request]

GhostInv == Links /\ InOrder /\ NoGhosts

LEMMA GhostInit == Init => GhostInv
BY DEF Init, GhostInv, Links, InOrder, NoGhosts, Pending, Get

LEMMA LinksNext == Types /\ Known /\ Links /\ [Next]_vars => Links'
<1> SUFFICES ASSUME Types, Known, Links, [Next]_vars PROVE Links'
  OBVIOUS
<1> USE DEF Types, BackendType, ConnectionType, PageType, Links, Pending, Waits
<1>1. ASSUME NEW r \in Request, Persist(r) \/ Decide(r) PROVE Links'
  BY <1>1 DEF Persist, Decide, connection, page
<1>2. ASSUME NEW r \in Request, Announce(r) \/ Resolve(r) PROVE Links'
  <2>1. socket \in {"closed", "connecting"} => queue' = <<>>
    BY <1>2 DEF Announce, Resolve, Broadcast
  <2> QED BY <1>2, <2>1 DEF Announce, Resolve, page
<1>3. ASSUME NEW r \in Request, ResolveApproval(r) PROVE Links'
  BY <1>3 DEF ResolveApproval, connection
<1>4. ASSUME NEW r \in Request, Click(r) \/ PostFails(r) \/ DropRow(r) PROVE Links'
  BY <1>4 DEF Click, PostFails, DropRow, backend, connection
<1>5. ASSUME NEW g \in Get, ReadPending(g) \/ SetPending(g) \/ GetFails(g) PROVE Links'
  BY <1>5 DEF ReadPending, SetPending, GetFails, backend, connection
<1>6. CASE Crash
  BY <1>6 DEF Crash
<1>7. CASE Restart
  BY <1>7 DEF Restart, connection, page
<1>8. CASE Connect \/ ConnectFails \/ Accept
  BY <1>8 DEF Connect, ConnectFails, Accept, backend, page
<1>9. CASE Open
  BY <1>9 DEF Open, Fetch, backend
<1>10. CASE Break
  BY <1>10 DEF Break, backend, page
<1>11. CASE Mount \/ Unmount
  BY <1>11 DEF Mount, Unmount, backend, connection
<1>12. CASE Receive
  <2>1. ~mounted => shown' = shown
    BY <1>12 DEF Receive
  <2> QED BY <1>12, <2>1 DEF Receive, backend
<1>13. CASE UNCHANGED vars
  BY <1>13 DEF vars, backend, connection, page
<1> QED
  BY <1>1, <1>2, <1>3, <1>4, <1>5, <1>6, <1>7, <1>8, <1>9, <1>10, <1>11, <1>12, <1>13
  DEF Next

\* An event that is sent comes after those that were.
LEMMA BroadcastOrder ==
  ASSUME NEW r \in Request, NEW type \in {"required", "resolved"},
         queue \in Seq(Event), Broadcast(type, r)
  PROVE  /\ \A j \in DOMAIN queue : j \in DOMAIN queue' /\ queue'[j] = queue[j]
         /\ socket \in {"accepted", "open"} =>
              \E j \in DOMAIN queue' : /\ \A i \in DOMAIN queue : j > i
                                       /\ queue'[j] = [type |-> type, request |-> r]
<1> DEFINE event == [type |-> type, request |-> r]
<1>1. CASE socket \in {"accepted", "open"}
  <2>1. queue' = Append(queue, event)
    BY <1>1 DEF Broadcast
  <2>2. event \in Event
    BY DEF Event
  <2> HIDE DEF event
  <2>3. /\ DOMAIN queue' = 1..(Len(queue) + 1) /\ DOMAIN queue = 1..Len(queue)
        /\ queue'[Len(queue) + 1] = event /\ Len(queue) \in Nat
        /\ \A j \in DOMAIN queue : queue'[j] = queue[j]
    BY <2>1, <2>2
  <2>4. /\ Len(queue) + 1 \in DOMAIN queue'
        /\ \A i \in DOMAIN queue : Len(queue) + 1 > i /\ i \in DOMAIN queue'
    BY <2>3
  <2> QED BY <2>3, <2>4 DEF event
<1>2. CASE socket \notin {"accepted", "open"}
  BY <1>2 DEF Broadcast
<1> QED BY <1>1, <1>2

LEMMA InOrderNext == Types /\ Known /\ Links /\ InOrder /\ [Next]_vars => InOrder'
<1> SUFFICES ASSUME Types, Known, Links, InOrder, [Next]_vars PROVE InOrder'
  OBVIOUS
<1> USE DEF Types, BackendType, ConnectionType
<1>1. ASSUME NEW i \in DOMAIN queue PROVE queue[i].request \in Request /\ i \in Nat
  BY EventFields
<1>2. ASSUME NEW r \in Request, Persist(r) PROVE InOrder'
  BY <1>1, <1>2 DEF Persist, InOrder, connection
<1>3. ASSUME NEW r \in Request, Announce(r) PROVE InOrder'
  <2>1. /\ \A i \in DOMAIN queue' : \/ i \in DOMAIN queue /\ queue'[i] = queue[i]
                                    \/ queue'[i] = [type |-> "required", request |-> r]
        /\ \A j \in DOMAIN queue : j \in DOMAIN queue' /\ queue'[j] = queue[j]
    BY <1>3, BroadcastEvents, BroadcastOrder DEF Announce
  <2>2. call'[r] = "announced" /\ \A q \in Request \ {r} : call'[q] = call[q]
    BY <1>3 DEF Announce
  <2> QED BY <1>1, <2>1, <2>2 DEF InOrder
<1>4. ASSUME NEW r \in Request, Resolve(r) PROVE InOrder'
  <2>1. /\ \A i \in DOMAIN queue' : \/ i \in DOMAIN queue /\ queue'[i] = queue[i]
                                    \/ queue'[i] = [type |-> "resolved", request |-> r]
        /\ \A j \in DOMAIN queue : j \in DOMAIN queue' /\ queue'[j] = queue[j]
        /\ socket \in {"accepted", "open"} =>
             \E j \in DOMAIN queue' : /\ \A i \in DOMAIN queue : j > i
                                      /\ queue'[j] = [type |-> "resolved", request |-> r]
    BY <1>4, BroadcastEvents, BroadcastOrder DEF Resolve
  <2>2. \A q \in Request \ {r} : call'[q] = call[q]
    BY <1>4 DEF Resolve
  <2>3. socket \notin {"accepted", "open"} => DOMAIN queue = {}
    BY DEF Links
  <2>4. ASSUME NEW i \in DOMAIN queue', queue'[i].type = "required"
        PROVE  \/ call'[queue'[i].request] = "announced"
               \/ \E j \in DOMAIN queue' :
                    j > i /\ queue'[j] = [type |-> "resolved", request |-> queue'[i].request]
    <3>1. i \in DOMAIN queue /\ queue'[i] = queue[i]
      BY <2>1, <2>4
    <3>2. CASE queue[i].request = r
      BY <2>1, <2>3, <3>1, <3>2
    <3>3. CASE queue[i].request # r
      BY <1>1, <2>1, <2>2, <2>4, <3>1, <3>3 DEF InOrder
    <3> QED BY <3>2, <3>3
  <2> QED BY <2>4 DEF InOrder
<1>5. CASE Receive
  <2>1. UNCHANGED call
    BY <1>5 DEF Receive, backend
  <2>2. /\ \A i \in DOMAIN queue' : i + 1 \in DOMAIN queue /\ queue'[i] = queue[i + 1]
        /\ \A j \in DOMAIN queue : j # 1 => j - 1 \in DOMAIN queue'
        /\ DOMAIN queue \subseteq Nat \ {0} /\ DOMAIN queue' \subseteq Nat \ {0}
    BY <1>5 DEF Receive
  <2>3. ASSUME NEW i \in DOMAIN queue', queue'[i].type = "required",
               call'[queue'[i].request] # "announced"
        PROVE  \E j \in DOMAIN queue' :
                 j > i /\ queue'[j] = [type |-> "resolved", request |-> queue'[i].request]
    <3>1. PICK j \in DOMAIN queue :
            j > i + 1 /\ queue[j] = [type |-> "resolved", request |-> queue[i + 1].request]
      BY <2>1, <2>2, <2>3 DEF InOrder
    <3>2. j - 1 \in DOMAIN queue' /\ j - 1 > i
      BY <2>2, <3>1
    <3>3. queue'[j - 1] = queue[j]
      BY <2>2, <3>2
    <3> QED BY <2>2, <3>1, <3>2, <3>3
  <2> QED BY <2>3 DEF InOrder
<1>6. CASE Crash \/ Break
  <2>1. DOMAIN queue' = {}
    BY <1>6 DEF Crash, Break
  <2> QED BY <2>1 DEF InOrder
<1>7. ASSUME NEW r \in Request,
             Decide(r) \/ ResolveApproval(r) \/ Click(r) \/ PostFails(r) \/ DropRow(r)
      PROVE  UNCHANGED <<call, queue>>
  BY <1>7 DEF Decide, ResolveApproval, Click, PostFails, DropRow, backend, connection
<1>8. ASSUME NEW g \in Get, ReadPending(g) \/ SetPending(g) \/ GetFails(g)
      PROVE  UNCHANGED <<call, queue>>
  BY <1>8 DEF ReadPending, SetPending, GetFails, backend, connection
<1>9. ASSUME \/ Restart \/ Connect \/ ConnectFails \/ Accept \/ Open \/ Mount \/ Unmount
             \/ UNCHANGED vars
      PROVE  UNCHANGED <<call, queue>>
  BY <1>9 DEF Restart, Connect, ConnectFails, Accept, Open, Mount, Unmount, vars, backend,
              connection
<1>10. ASSUME UNCHANGED <<call, queue>> PROVE InOrder'
  BY <1>10 DEF InOrder
<1> QED BY <1>2, <1>3, <1>4, <1>5, <1>6, <1>7, <1>8, <1>9, <1>10 DEF Next

\* What NoGhosts says of a decided request.
Going(r) ==
    \/ Waits(r) \/ OnItsWay("resolved", r)
    \/ WillFetch \/ \E g \in Get : get[g] = "answered" /\ r \notin snapshot[g]
    \/ post[r] # "none"
    \/ r \in missed

LEMMA GhostsNext ==
  ASSUME Types, Known, Links, InOrder, NoGhosts, [Next]_vars
  PROVE  NoGhosts'
<1> SUFFICES ASSUME mounted', NEW r \in shown', status'[r] = "DECIDED"
             PROVE  Going(r)'
  BY DEF NoGhosts, Going, Waits
<1> USE DEF Types, BackendType, ConnectionType, PageType
<1>r. r \in Request
  <2>1. Types'
    BY TypeNext, TypeParts
  <2> QED BY <2>1
<1>1. ASSUME mounted, r \in shown, status[r] = "DECIDED" PROVE Going(r)
  BY <1>1 DEF NoGhosts, Going, Waits
<1>2. ASSUME UNCHANGED <<mounted, missed, shown, get, snapshot, socket, queue>>,
             call'[r] = call[r], status'[r] = status[r],
             post'[r] = post[r] \/ post'[r] # "none"
      PROVE  Going(r)'
  BY <1>1, <1>2 DEF Going, Waits, WillFetch, OnItsWay
<1>3. ASSUME NEW q \in Request, Persist(q) PROVE Going(r)'
  <2>1. CASE q = r
    BY <1>3, <1>r, <2>1 DEF Persist, Going, Waits
  <2>2. CASE q # r
    BY <1>2, <1>3, <2>2 DEF Persist, page, connection
  <2> QED BY <2>1, <2>2
<1>4. ASSUME NEW q \in Request, Announce(q) PROVE Going(r)'
  <2>1. Waits(r) => Waits(r)'
    BY <1>4, <1>r DEF Announce, Waits
  <2>2. OnItsWay("resolved", r) => OnItsWay("resolved", r)'
    BY <1>4, BroadcastEvents DEF Announce
  <2> QED BY <1>1, <1>4, <2>1, <2>2 DEF Announce, Going, WillFetch, page
<1>5. ASSUME NEW q \in Request, Decide(q) PROVE Going(r)'
  <2>1. CASE q = r
    <3>1. Waits(r)
      BY <1>5, <1>r, <2>1 DEF Decide, Links, Pending
    <3> QED BY <1>5, <3>1 DEF Decide, Going, Waits
  <2>2. CASE q # r
    BY <1>2, <1>5, <2>2 DEF Decide, page, connection
  <2> QED BY <2>1, <2>2
<1>6. ASSUME NEW q \in Request, Resolve(q) PROVE Going(r)'
  <2>1. CASE q = r
    <3>1. socket \in {"accepted", "open"} => OnItsWay("resolved", r)'
      BY <1>6, <2>1, BroadcastEvents DEF Resolve
    <3>2. UNCHANGED socket
      BY <1>6 DEF Resolve
    <3> QED BY <3>1, <3>2 DEF Going, WillFetch
  <2>2. CASE q # r
    <3>1. call'[r] = call[r] /\ UNCHANGED <<status, socket, page, missed>>
      BY <1>6, <1>r, <2>2 DEF Resolve
    <3>2. OnItsWay("resolved", r) => OnItsWay("resolved", r)'
      BY <1>6, BroadcastEvents DEF Resolve
    <3> QED BY <1>1, <3>1, <3>2 DEF Going, Waits, WillFetch, page
  <2> QED BY <2>1, <2>2
<1>7. ASSUME NEW q \in Request, ResolveApproval(q) PROVE Going(r)'
  <2>1. CASE q = r
    BY <1>7, <1>r, <2>1 DEF ResolveApproval, Going
  <2>2. CASE q # r
    BY <1>2, <1>7, <1>r, <2>2 DEF ResolveApproval, connection
  <2> QED BY <2>1, <2>2
<1>8. ASSUME NEW q \in Request, Click(q) PROVE Going(r)'
  BY <1>2, <1>8, <1>r DEF Click, backend, connection
<1>9. ASSUME NEW q \in Request, PostFails(q) PROVE Going(r)'
  BY <1>2, <1>9, <1>r DEF PostFails, backend, connection
<1>10. ASSUME NEW q \in Request, DropRow(q) PROVE Going(r)'
  <2>1. r # q /\ r \in shown /\ post'[r] = post[r]
    BY <1>10, <1>r DEF DropRow
  <2> QED BY <1>1, <1>10, <2>1
          DEF DropRow, Going, Waits, WillFetch, OnItsWay, backend, connection
<1>11. ASSUME NEW h \in Get, ReadPending(h) PROVE Going(r)'
  <2>1. r \notin Pending
    BY <1>11 DEF ReadPending, Pending, backend
  <2> QED BY <1>11, <2>1 DEF ReadPending, Going
<1>12. ASSUME NEW h \in Get, SetPending(h) PROVE Going(r)'
  <2>1. r \in WrongIn(snapshot[h])
    BY <1>12 DEF SetPending, WrongIn, Pending, backend
  <2> QED BY <1>12, <2>1 DEF SetPending, Going
<1>13. ASSUME NEW h \in Get, GetFails(h) PROVE Going(r)'
  <2>1. r \in WrongIn(shown)
    BY <1>13 DEF GetFails, WrongIn, Pending, backend
  <2> QED BY <1>13, <2>1 DEF GetFails, Going
<1>14. ASSUME Restart PROVE socket' # "open"
  BY <1>14 DEF Restart, Links, connection
<1>15. ASSUME Crash \/ Break \/ Connect \/ ConnectFails \/ Accept PROVE socket' # "open"
  BY <1>15 DEF Crash, Break, Connect, ConnectFails, Accept
<1>16. ASSUME Open PROVE Going(r)'
  <2>1. UNCHANGED <<mounted, shown, status>>
    BY <1>16 DEF Open, backend
  <2>2. CASE hasConnectedBefore
    <3>1. get'[reconnect] = "sent" /\ reconnect \in Get
      BY <1>16, <2>1, <2>2, BoundsAssumption DEF Open, Fetch, Get, reconnect, HistoryType
    <3> QED BY <3>1 DEF Going, WillFetch
  <2>3. CASE ~hasConnectedBefore
    <3>1. missed' = WrongIn(shown)
      BY <1>16, <2>1, <2>3 DEF Open
    <3> QED BY <2>1, <3>1 DEF Going, WrongIn, Pending
  <2> QED BY <2>2, <2>3
<1>17. ASSUME Mount PROVE Going(r)'
  <2>1. mount \in Get /\ get'[mount] = "sent"
    BY <1>17, BoundsAssumption DEF Mount, Fetch, Get, mount
  <2> QED BY <2>1 DEF Going, WillFetch
<1>18. ASSUME Unmount PROVE FALSE
  BY <1>18 DEF Unmount
<1>19. ASSUME Receive PROVE Going(r)'
  <2>1. UNCHANGED <<mounted, get, snapshot, socket, call, status, post>>
    BY <1>19 DEF Receive, backend
  <2>2. queue \in Seq(Event) /\ queue # <<>> /\ queue' = Tail(queue)
    BY <1>19 DEF Receive
  <2>3. 1 \in DOMAIN queue /\ queue[1] = Head(queue)
    BY <2>2, ReceivedEvents
  <2>4. CASE Head(queue).request = r
    <3>1. Head(queue).type = "required"
      <4>1. Head(queue).type \in {"required", "resolved"}
        BY <2>3, EventFields
      <4>2. Head(queue).type = "resolved" => shown' = shown \ {r}
        BY <1>19, <2>1, <2>4 DEF Receive
      <4> QED BY <4>1, <4>2
    <3>2. CASE \E j \in DOMAIN queue :
                 j > 1 /\ queue[j] = [type |-> "resolved", request |-> r]
      <4>1. OnItsWay("resolved", r) /\ Head(queue) # [type |-> "resolved", request |-> r]
        BY <3>1, <3>2 DEF OnItsWay
      <4>2. OnItsWay("resolved", r)'
        BY <2>2, <4>1, ReceivedEvents
      <4> QED BY <4>2 DEF Going
    <3>3. CASE call[r] = "announced"
      BY <2>1, <3>3 DEF Going, Waits
    <3> QED BY <2>3, <2>4, <3>1, <3>2, <3>3 DEF InOrder
  <2>5. CASE Head(queue).request # r
    <3>1. r \in shown
      BY <1>19, <2>5, ReceivedShown
    <3>2. Going(r)
      BY <1>1, <2>1, <3>1
    <3>3. OnItsWay("resolved", r) => OnItsWay("resolved", r)'
      BY <2>2, <2>5, ReceivedEvents
    <3>4. r \in missed => r \in missed'
      BY <1>19, <2>5 DEF Receive
    <3> QED BY <2>1, <3>2, <3>3, <3>4 DEF Going, Waits, WillFetch
  <2> QED BY <2>4, <2>5
<1>20. ASSUME UNCHANGED vars PROVE Going(r)'
  BY <1>2, <1>20 DEF vars, backend, page, connection
<1>21. ASSUME socket' # "open" PROVE Going(r)'
  BY <1>21 DEF Going, WillFetch
<1> QED
  BY <1>3, <1>4, <1>5, <1>6, <1>7, <1>8, <1>9, <1>10, <1>11, <1>12, <1>13, <1>14, <1>15,
     <1>16, <1>17, <1>18, <1>19, <1>20, <1>21 DEF Next

\* A decided request that a mounted page still shows is about to go, unless it was
\* missed - for any number of requests, broken connections, crashes and failed
\* requests, whatever GETs and events cross.
THEOREM NoGhostStays == Spec => []NoGhosts
<1>1. TypeOK /\ Known /\ GhostInv /\ [Next]_vars => GhostInv'
  BY TypeParts, LinksNext, InOrderNext, GhostsNext DEF GhostInv
<1>2. TypeOK /\ Known /\ [Next]_vars => Known'
  BY KnownNext
<1>3. Spec => []GhostInv
  BY <1>1, <1>2, GhostInit, KnownInit, TypeCorrect, PTL DEF Spec
<1>4. GhostInv => NoGhosts
  BY DEF GhostInv
<1> QED BY <1>3, <1>4, PTL
=============================================================================
