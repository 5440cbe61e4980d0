------------------------ MODULE WebSocketManagerProofs ------------------------
(***************************************************************************)
(* Proofs about WebSocketManager, for any clients, calls, events and       *)
(* buffers.                                                                *)
(***************************************************************************)
EXTENDS WebSocketManager, FiniteSets, FiniteSetTheorems, SequenceTheorems, TLAPS

\* What is left of list(self._connections): clients that have come, each once,
\* and none unless an event is being sent.
TodoInv ==
    \A k \in Call :
        /\ pc[k] # "sending" => todo[k] = <<>>
        /\ \A i, j \in DOMAIN todo[k] : i # j => todo[k][i] # todo[k][j]
        /\ \A i \in DOMAIN todo[k] : socket[todo[k][i]] # "new"
        /\ pc[k] = "sending" => announced[k] < Events

\* A client is registered when it comes, and has been sent nothing before.
SocketInv ==
    /\ IsFiniteSet(connections)
    /\ \A c \in Client : socket[c] = "new" =>
            c \notin connections /\ \A k \in Call : got[c][k] = <<>>

\* NothingSkipped by lengths and positions.
Stream ==
    \A c \in connections, k \in Call : socket[c] = "open" =>
        /\ Len(got[c][k]) = Due(c, k) - missed[c][k]
        /\ \A n \in 1..Len(got[c][k]) : got[c][k][n] = missed[c][k] + n

IndInv == TypeOK /\ TodoInv /\ SocketInv /\ Stream

LEMMA DueType ==
  ASSUME TypeOK, TodoInv, NEW c \in Client, NEW k \in Call
  PROVE  Due(c, k) \in 0..Events
BY BoundsAssumption DEF TypeOK, TodoInv, Due, Current

\* A client still to be sent to is due what has been announced.
LEMMA DueOfTodo ==
  ASSUME TypeOK, NEW c \in Client, NEW k \in Call
  PROVE  Due(c, k) = IF pc[k] = "sending" /\ \A i \in DOMAIN todo[k] : todo[k][i] # c
                     THEN announced[k] + 1 ELSE announced[k]
BY DEF Due, Current, ToSet

LEMMA StreamIsNothingSkipped ==
  ASSUME TypeOK, TodoInv, Stream
  PROVE  NothingSkipped
<1> SUFFICES ASSUME NEW c \in connections, NEW k \in Call, socket[c] = "open"
             PROVE  got[c][k] = [n \in 1..(Due(c, k) - missed[c][k]) |-> missed[c][k] + n]
  BY DEF NothingSkipped
<1> DEFINE s == got[c][k]
<1>1. c \in Client /\ s \in Seq(1..Events)
  BY DEF TypeOK
<1>2. DOMAIN s = 1..Len(s) /\ s = [n \in 1..Len(s) |-> s[n]]
  BY <1>1
<1>3. Len(s) = Due(c, k) - missed[c][k] /\ \A n \in 1..Len(s) : s[n] = missed[c][k] + n
  BY DEF Stream
<1> QED BY <1>2, <1>3

\* list(set) has every element of the set, once.
LEMMA ListOfSet ==
  ASSUME NEW S, IsFiniteSet(S), NEW list \in SetToSeqs(S)
  PROVE  /\ list \in Seq(S)
         /\ \A i, j \in DOMAIN list : i # j => list[i] # list[j]
         /\ \A x \in S : \E i \in DOMAIN list : list[i] = x
<1> DEFINE n == Cardinality(S)
<1>1. n \in Nat
  BY FS_CardinalityType
<1>2. list \in [1..n -> S] /\ \A i, j \in 1..n : i # j => list[i] # list[j]
  BY DEF SetToSeqs
<1>3. list \in Seq(S)
  BY <1>1, <1>2
<1>4. list \in Injection(1..n, S)
  BY <1>2 DEF Injection, IsInjective
<1>5. IsFiniteSet(1..n) /\ Cardinality(1..n) = n
  BY <1>1, FS_Interval
<1>6. list \in Surjection(1..n, S)
  BY <1>4, <1>5, FS_Injection
<1> QED BY <1>2, <1>3, <1>6 DEF Surjection

LEMMA IndInit == Init => IndInv
<1> SUFFICES ASSUME Init PROVE IndInv
  OBVIOUS
<1>1. TypeOK
  BY BoundsAssumption DEF Init, TypeOK
<1>2. TodoInv /\ Stream
  BY DEF Init, TodoInv, Stream
<1>3. SocketInv
  BY FS_EmptySet DEF Init, SocketInv
<1> QED BY <1>1, <1>2, <1>3 DEF IndInv

-----------------------------------------------------------------------------
(* The clients' steps.                                                     *)

LEMMA ConnectStep ==
  ASSUME IndInv, NEW c \in Client, Connect(c)
  PROVE  IndInv'
<1> USE DEF IndInv
<1>1. TypeOK'
  BY BoundsAssumption DEF TypeOK, TodoInv, Connect, Current, callVars
<1>2. TodoInv'
  BY DEF TypeOK, TodoInv, Connect, callVars
<1>3. SocketInv'
  BY FS_AddElement DEF TypeOK, SocketInv, Connect
<1>4. Stream'
  <2> SUFFICES ASSUME NEW d \in connections', NEW k \in Call, socket'[d] = "open"
               PROVE  /\ Len(got'[d][k]) = Due(d, k)' - missed'[d][k]
                      /\ \A n \in 1..Len(got'[d][k]) : got'[d][k][n] = missed'[d][k] + n
    BY DEF Stream
  <2>1. d \in Client
    BY <1>1 DEF TypeOK
  <2>2. Due(d, k)' = Due(d, k)
    BY DEF Due, Current, Connect, callVars
  <2>3. CASE d = c
    <3>1. got'[d][k] = <<>>
      BY <2>3 DEF Connect, SocketInv
    <3>2. \A i \in DOMAIN todo[k] : todo[k][i] # c
      BY DEF TodoInv, Connect
    <3>3. missed'[d][k] = Due(d, k)
      BY <2>3, <3>2, DueOfTodo DEF Connect, TypeOK, Current
    <3>4. Due(d, k) \in 0..Events
      BY <2>1, DueType
    <3> QED BY <2>2, <3>1, <3>3, <3>4
  <2>4. CASE d # c
    BY <2>1, <2>2, <2>4 DEF Stream, Connect, TypeOK
  <2> QED BY <2>3, <2>4
<1> QED BY <1>1, <1>2, <1>3, <1>4

LEMMA ReadStep ==
  ASSUME IndInv, NEW c \in Client, Read(c)
  PROVE  IndInv'
<1> USE DEF IndInv
<1>1. TypeOK'
  BY BoundsAssumption DEF TypeOK, Read, callVars
<1>2. TodoInv' /\ SocketInv' /\ Stream'
  BY DEF TodoInv, SocketInv, Stream, Due, Current, Read, callVars
<1> QED BY <1>1, <1>2

LEMMA BreakStep ==
  ASSUME IndInv, NEW c \in Client, Break(c)
  PROVE  IndInv'
<1> USE DEF IndInv
<1>1. TypeOK'
  BY BoundsAssumption DEF TypeOK, Break, callVars
<1>2. TodoInv'
  BY DEF TypeOK, TodoInv, Break, callVars
<1>3. SocketInv'
  BY DEF TypeOK, SocketInv, Break
<1>4. Stream'
  <2> SUFFICES ASSUME NEW d \in connections', NEW k \in Call, socket'[d] = "open"
               PROVE  /\ Len(got'[d][k]) = Due(d, k)' - missed'[d][k]
                      /\ \A n \in 1..Len(got'[d][k]) : got'[d][k][n] = missed'[d][k] + n
    BY DEF Stream
  <2>1. d \in connections /\ d \in Client /\ d # c
    BY <1>1 DEF TypeOK, Break
  <2>2. Due(d, k)' = Due(d, k) /\ got'[d] = got[d] /\ missed'[d] = missed[d] /\ socket[d] = "open"
    BY <2>1 DEF Due, Current, Break, callVars, TypeOK
  <2> QED BY <2>1, <2>2 DEF Stream
<1> QED BY <1>1, <1>2, <1>3, <1>4

LEMMA DisconnectStep ==
  ASSUME IndInv, NEW c \in Client, Disconnect(c)
  PROVE  IndInv'
<1> USE DEF IndInv
<1>1. TypeOK'
  BY DEF TypeOK, Disconnect, callVars
<1>2. TodoInv' /\ Stream'
  BY DEF TodoInv, Stream, Due, Current, Disconnect, callVars
<1>3. SocketInv'
  BY FS_RemoveElement DEF SocketInv, Disconnect
<1> QED BY <1>1, <1>2, <1>3

-----------------------------------------------------------------------------
(* broadcast().                                                            *)

LEMMA StartBroadcastStep ==
  ASSUME IndInv, NEW k \in Call, StartBroadcast(k)
  PROVE  IndInv'
<1> USE DEF IndInv
<1> PICK list \in SetToSeqs(connections) : todo' = [todo EXCEPT ![k] = list]
  BY DEF StartBroadcast
<1>1. /\ list \in Seq(connections)
      /\ \A i, j \in DOMAIN list : i # j => list[i] # list[j]
      /\ \A x \in connections : \E i \in DOMAIN list : list[i] = x
  BY ListOfSet DEF SocketInv
<1>2. list \in Seq(Client)
  BY <1>1 DEF TypeOK
<1>3. TypeOK'
  BY <1>2 DEF TypeOK, StartBroadcast, clientVars
<1>4. TodoInv'
  <2>1. \A i \in DOMAIN list : list[i] \in connections
    BY <1>1
  <2>2. \A i \in DOMAIN list : socket[list[i]] # "new"
    BY <2>1 DEF TypeOK, SocketInv
  <2> QED BY <1>1, <2>2 DEF TypeOK, TodoInv, StartBroadcast, clientVars
<1>5. SocketInv'
  BY DEF SocketInv, StartBroadcast, clientVars
<1>6. Stream'
  <2> SUFFICES ASSUME NEW d \in connections', NEW m \in Call, socket'[d] = "open"
               PROVE  /\ Len(got'[d][m]) = Due(d, m)' - missed'[d][m]
                      /\ \A n \in 1..Len(got'[d][m]) : got'[d][m][n] = missed'[d][m] + n
    BY DEF Stream
  <2>1. UNCHANGED clientVars /\ d \in connections /\ d \in Client
    BY DEF StartBroadcast, clientVars, TypeOK
  <2>2. Due(d, m)' = Due(d, m)
    <3>1. CASE m = k
      BY <1>1, <2>1, <3>1 DEF StartBroadcast, Due, Current, ToSet, TypeOK
    <3>2. CASE m # k
      BY <3>2 DEF StartBroadcast, Due, Current, TypeOK
    <3> QED BY <3>1, <3>2
  <2> QED BY <2>1, <2>2 DEF Stream, clientVars
<1> QED BY <1>3, <1>4, <1>5, <1>6

\* What is left after the first: the others, in their order.
LEMMA RestOfTodo ==
  ASSUME IndInv, NEW k \in Call, todo[k] # <<>>
  PROVE  /\ Head(todo[k]) \in Client
         /\ Tail(todo[k]) \in Seq(Client)
         /\ \A i \in DOMAIN Tail(todo[k]) :
                i + 1 \in DOMAIN todo[k] /\ Tail(todo[k])[i] = todo[k][i + 1]
         /\ \A c \in Client : (\A i \in DOMAIN Tail(todo[k]) : Tail(todo[k])[i] # c)
                <=> (c = Head(todo[k]) \/ \A i \in DOMAIN todo[k] : todo[k][i] # c)
         /\ pc[k] = "sending"
<1> DEFINE s == todo[k]
<1>1. s \in Seq(Client) /\ s # <<>>
  BY DEF IndInv, TypeOK
<1>2. /\ Head(s) = s[1] /\ Len(s) >= 1 /\ DOMAIN s = 1..Len(s) /\ Len(s) \in Nat
      /\ Head(s) \in Client
      /\ Tail(s) \in Seq(Client)
      /\ Len(Tail(s)) = Len(s) - 1
      /\ \A i \in 1..Len(Tail(s)) : Tail(s)[i] = s[i + 1]
  BY <1>1, HeadTailProperties
<1>3. DOMAIN Tail(s) = 1..(Len(s) - 1)
  BY <1>2
<1>4. \A i \in DOMAIN Tail(s) : i + 1 \in DOMAIN s /\ Tail(s)[i] = s[i + 1]
  BY <1>2, <1>3
<1>5. ASSUME NEW c \in Client
      PROVE  (\A i \in DOMAIN Tail(s) : Tail(s)[i] # c) <=> (c = Head(s) \/ \A i \in DOMAIN s : s[i] # c)
  <2>1. ASSUME \A i \in DOMAIN Tail(s) : Tail(s)[i] # c, c # Head(s), NEW i \in DOMAIN s
        PROVE  s[i] # c
    <3>1. CASE i = 1
      BY <1>2, <2>1, <3>1
    <3>2. CASE i # 1
      <4>1. i - 1 \in DOMAIN Tail(s) /\ (i - 1) + 1 = i
        BY <1>2, <1>3, <3>2
      <4> QED BY <1>4, <2>1, <4>1
    <3> QED BY <3>1, <3>2
  <2>2. ASSUME c = Head(s), NEW i \in DOMAIN Tail(s)
        PROVE  Tail(s)[i] # c
    <3>1. i + 1 \in DOMAIN s /\ 1 \in DOMAIN s /\ i + 1 # 1 /\ Tail(s)[i] = s[i + 1] /\ c = s[1]
      BY <1>2, <1>3, <1>4, <2>2
    <3>2. \A a, b \in DOMAIN s : a # b => s[a] # s[b]
      BY DEF IndInv, TodoInv
    <3> QED BY <3>1, <3>2
  <2>3. ASSUME \A i \in DOMAIN s : s[i] # c, NEW i \in DOMAIN Tail(s)
        PROVE  Tail(s)[i] # c
    BY <1>4, <2>3
  <2> QED BY <2>1, <2>2, <2>3
<1>6. pc[k] = "sending"
  BY <1>1 DEF IndInv, TodoInv
<1> QED BY <1>2, <1>4, <1>5, <1>6

\* Both ways on from the first leave the todo lists as they should be.
LEMMA TodoShrinks ==
  ASSUME IndInv, NEW k \in Call, todo[k] # <<>>,
         todo' = [todo EXCEPT ![k] = Tail(@)], UNCHANGED <<socket, pc, announced>>
  PROVE  TodoInv'
<1> SUFFICES ASSUME NEW m \in Call
             PROVE  /\ pc[m] # "sending" => todo'[m] = <<>>
                    /\ \A i, j \in DOMAIN todo'[m] : i # j => todo'[m][i] # todo'[m][j]
                    /\ \A i \in DOMAIN todo'[m] : socket[todo'[m][i]] # "new"
                    /\ pc[m] = "sending" => announced[m] < Events
  BY DEF TodoInv
<1>1. CASE m = k
  <2>1. todo'[m] = Tail(todo[k])
    BY <1>1 DEF IndInv, TypeOK
  <2>2. \A i \in DOMAIN Tail(todo[k]) :
            i \in Nat /\ i + 1 \in DOMAIN todo[k] /\ Tail(todo[k])[i] = todo[k][i + 1]
    <3>1. Tail(todo[k]) \in Seq(Client)
      BY RestOfTodo
    <3> QED BY <3>1, RestOfTodo
  <2>3. \A i, j \in DOMAIN Tail(todo[k]) : i # j => i + 1 # j + 1
    BY <2>2
  <2> QED BY <1>1, <2>1, <2>2, <2>3, RestOfTodo DEF IndInv, TodoInv
<1>2. CASE m # k
  BY <1>2 DEF IndInv, TypeOK, TodoInv
<1> QED BY <1>1, <1>2

LEMMA SendStep ==
  ASSUME IndInv, NEW k \in Call, Send(k)
  PROVE  IndInv'
<1> DEFINE c == Head(todo[k])
<1>1. todo[k] # <<>>
  BY DEF Send
<1>2. c \in Client /\ pc[k] = "sending" /\ announced[k] < Events
  BY <1>1, RestOfTodo DEF IndInv, TodoInv
<1>3. announced[k] + 1 \in 1..Events
  BY <1>2, BoundsAssumption DEF IndInv, TypeOK
<1>4. TypeOK'
  <2>1. Tail(todo[k]) \in Seq(Client)
    BY <1>1, RestOfTodo
  <2>2. Append(got[c][k], Current(k)) \in Seq(1..Events)
    BY <1>2, <1>3 DEF IndInv, TypeOK, Current
  <2>3. unread[c] + 1 \in 0..Buffer
    <3>1. unread[c] < Buffer
      BY DEF Send
    <3>2. unread[c] \in 0..Buffer
      BY <1>2 DEF IndInv, TypeOK
    <3> QED BY <3>1, <3>2, BoundsAssumption
  <2> QED BY <1>2, <2>1, <2>2, <2>3 DEF IndInv, TypeOK, Send
<1>5. TodoInv'
  BY <1>1, TodoShrinks DEF Send
<1>6. SocketInv'
  BY <1>2 DEF IndInv, TypeOK, SocketInv, Send
<1>7. Stream'
  <2> SUFFICES ASSUME NEW d \in connections', NEW m \in Call, socket'[d] = "open"
               PROVE  /\ Len(got'[d][m]) = Due(d, m)' - missed'[d][m]
                      /\ \A n \in 1..Len(got'[d][m]) : got'[d][m][n] = missed'[d][m] + n
    BY DEF Stream
  <2>1. d \in connections /\ d \in Client /\ socket[d] = "open" /\ missed' = missed
    BY DEF IndInv, TypeOK, Send
  <2>2. /\ Len(got[d][m]) = Due(d, m) - missed[d][m]
        /\ \A n \in 1..Len(got[d][m]) : got[d][m][n] = missed[d][m] + n
    BY <2>1 DEF IndInv, Stream
  <2>3. CASE d = c /\ m = k
    <3>1. got'[d][m] = Append(got[d][m], announced[k] + 1)
      BY <1>2, <2>3 DEF IndInv, TypeOK, Send, Current
    <3>2. got[d][m] \in Seq(1..Events) /\ missed[d][m] \in Nat /\ announced[k] \in Nat
      BY <2>1, BoundsAssumption DEF IndInv, TypeOK
    <3>3. Due(d, m) = announced[k]
      <4>1. 1 \in DOMAIN todo[k] /\ todo[k][1] = c
        BY <1>1 DEF IndInv, TypeOK
      <4> QED BY <2>1, <2>3, <4>1, DueOfTodo DEF IndInv
    <3>4. Due(d, m)' = announced[k] + 1
      <4>1. \A i \in DOMAIN Tail(todo[k]) : Tail(todo[k])[i] # d
        BY <1>1, <2>1, <2>3, RestOfTodo
      <4>2. todo'[k] = Tail(todo[k]) /\ pc' = pc /\ announced' = announced
        BY DEF IndInv, TypeOK, Send
      <4> QED BY <1>2, <2>3, <4>1, <4>2 DEF Due, Current, ToSet
    <3>5. /\ Len(got'[d][m]) = Len(got[d][m]) + 1
          /\ \A i \in 1..Len(got[d][m]) : got'[d][m][i] = got[d][m][i]
          /\ got'[d][m][Len(got[d][m]) + 1] = announced[k] + 1
          /\ Len(got[d][m]) \in Nat
      BY <1>3, <3>1, <3>2, AppendProperties
    <3> HIDE DEF c
    <3>6. Len(got'[d][m]) = Due(d, m)' - missed'[d][m]
      BY <2>1, <2>2, <3>2, <3>3, <3>4, <3>5, SMTT(40)
    <3>7. ASSUME NEW n \in 1..Len(got'[d][m])
          PROVE  got'[d][m][n] = missed'[d][m] + n
      <4>1. CASE n \in 1..Len(got[d][m])
        BY <2>1, <2>2, <3>5, <4>1
      <4>2. CASE n = Len(got[d][m]) + 1
        <5>1. Len(got[d][m]) = announced[k] - missed[d][m]
          BY <2>2, <3>3
        <5>2. missed[d][m] + n = announced[k] + 1
          BY <3>2, <4>2, <5>1
        <5>3. got'[d][m][n] = announced[k] + 1
          BY <3>5, <4>2
        <5> QED BY <2>1, <5>2, <5>3
      <4> QED BY <3>5, <4>1, <4>2
    <3> QED BY <3>6, <3>7
  <2>4. CASE ~(d = c /\ m = k)
    <3>1. got'[d][m] = got[d][m]
      BY <1>2, <2>1, <2>4 DEF IndInv, TypeOK, Send
    <3>2. Due(d, m)' = Due(d, m)
      <4>1. CASE m # k
        BY <4>1 DEF IndInv, TypeOK, Send, Due, Current
      <4>2. CASE m = k
        <5>1. (\A i \in DOMAIN Tail(todo[k]) : Tail(todo[k])[i] # d) <=> \A i \in DOMAIN todo[k] : todo[k][i] # d
          BY <1>1, <2>1, <2>4, <4>2, RestOfTodo
        <5>2. todo'[k] = Tail(todo[k]) /\ pc' = pc /\ announced' = announced
          BY DEF IndInv, TypeOK, Send
        <5> QED BY <4>2, <5>1, <5>2 DEF Due, Current, ToSet
      <4> QED BY <4>1, <4>2
    <3> QED BY <2>1, <2>2, <3>1, <3>2
  <2> QED BY <2>3, <2>4
<1> QED BY <1>4, <1>5, <1>6, <1>7 DEF IndInv

LEMMA SendFailsStep ==
  ASSUME IndInv, NEW k \in Call, SendFails(k)
  PROVE  IndInv'
<1> DEFINE c == Head(todo[k])
<1>1. todo[k] # <<>> /\ socket[c] = "closed" /\ UNCHANGED <<clientVars, pc, announced>>
  BY DEF SendFails
<1>2. c \in Client /\ Tail(todo[k]) \in Seq(Client) /\ todo'[k] = Tail(todo[k])
  BY <1>1, RestOfTodo DEF SendFails, IndInv, TypeOK
<1>3. TypeOK'
  <2>1. PICK known \in {{}, {c}} : dead' = [dead EXCEPT ![k] = @ \cup known]
    BY DEF SendFails
  <2> QED BY <1>1, <1>2, <2>1 DEF IndInv, TypeOK, SendFails, clientVars
<1>4. TodoInv'
  BY <1>1, TodoShrinks DEF SendFails, clientVars
<1>5. SocketInv'
  BY <1>1 DEF IndInv, SocketInv, clientVars
<1>6. Stream'
  <2> SUFFICES ASSUME NEW d \in connections', NEW m \in Call, socket'[d] = "open"
               PROVE  /\ Len(got'[d][m]) = Due(d, m)' - missed'[d][m]
                      /\ \A n \in 1..Len(got'[d][m]) : got'[d][m][n] = missed'[d][m] + n
    BY DEF Stream
  <2>1. d \in connections /\ d \in Client /\ d # c
    BY <1>1 DEF IndInv, TypeOK, clientVars
  <2>2. Due(d, m)' = Due(d, m)
    <3>1. CASE m # k
      BY <1>1, <3>1 DEF IndInv, TypeOK, SendFails, Due, Current
    <3>2. CASE m = k
      <4>1. (\A i \in DOMAIN Tail(todo[k]) : Tail(todo[k])[i] # d) <=> \A i \in DOMAIN todo[k] : todo[k][i] # d
        BY <1>1, <2>1, RestOfTodo
      <4> QED BY <1>1, <1>2, <3>2, <4>1 DEF Due, Current, ToSet
    <3> QED BY <3>1, <3>2
  <2> QED BY <1>1, <2>1, <2>2 DEF IndInv, Stream, clientVars
<1> QED BY <1>3, <1>4, <1>5, <1>6 DEF IndInv

LEMMA EndBroadcastStep ==
  ASSUME IndInv, NEW k \in Call, EndBroadcast(k)
  PROVE  IndInv'
<1>1. announced[k] + 1 \in 0..Events
  BY BoundsAssumption DEF IndInv, TypeOK, TodoInv, EndBroadcast
<1>2. TypeOK'
  BY <1>1 DEF IndInv, TypeOK, EndBroadcast
<1>3. TodoInv'
  BY DEF IndInv, TypeOK, TodoInv, EndBroadcast
<1>4. SocketInv'
  <2>1. IsFiniteSet(connections')
    BY FS_Subset DEF IndInv, SocketInv, EndBroadcast
  <2> QED BY <2>1 DEF IndInv, SocketInv, EndBroadcast
<1>5. Stream'
  <2> SUFFICES ASSUME NEW d \in connections', NEW m \in Call, socket'[d] = "open"
               PROVE  /\ Len(got'[d][m]) = Due(d, m)' - missed'[d][m]
                      /\ \A n \in 1..Len(got'[d][m]) : got'[d][m][n] = missed'[d][m] + n
    BY DEF Stream
  <2>1. d \in connections /\ d \in Client /\ socket[d] = "open" /\ UNCHANGED <<got, missed>>
    BY DEF IndInv, TypeOK, EndBroadcast
  <2>2. Due(d, m)' = Due(d, m)
    <3>1. CASE m # k
      BY <3>1 DEF IndInv, TypeOK, EndBroadcast, Due, Current
    <3>2. CASE m = k
      <4>1. d \notin ToSet(todo[k])
        BY DEF EndBroadcast, ToSet
      <4> QED BY <3>2, <4>1 DEF IndInv, TypeOK, EndBroadcast, Due, Current
    <3> QED BY <3>1, <3>2
  <2> QED BY <2>1, <2>2 DEF IndInv, Stream
<1> QED BY <1>2, <1>3, <1>4, <1>5 DEF IndInv

LEMMA CommitStep ==
  ASSUME IndInv, NEW k \in Call, Commit(k)
  PROVE  IndInv'
<1>1. TypeOK'
  BY DEF IndInv, TypeOK, Commit, clientVars
<1>2. TodoInv'
  BY DEF IndInv, TypeOK, TodoInv, Commit, clientVars
<1>3. SocketInv'
  BY DEF IndInv, SocketInv, Commit, clientVars
<1>4. \A d \in Client, m \in Call : Due(d, m)' = Due(d, m)
  BY DEF IndInv, TypeOK, Commit, Due, Current
<1>5. Stream'
  BY <1>4 DEF IndInv, TypeOK, Stream, Commit, clientVars
<1> QED BY <1>1, <1>2, <1>3, <1>5 DEF IndInv

-----------------------------------------------------------------------------
LEMMA IndStep == IndInv /\ [Next]_vars => IndInv'
<1> SUFFICES ASSUME IndInv, [Next]_vars PROVE IndInv'
  OBVIOUS
<1>1. ASSUME NEW k \in Call, Proceed(k) PROVE IndInv'
  BY <1>1, StartBroadcastStep, SendStep, SendFailsStep, EndBroadcastStep, CommitStep DEF Proceed
<1>2. ASSUME NEW c \in Client, Connect(c) \/ Read(c) \/ Break(c) \/ Disconnect(c) PROVE IndInv'
  BY <1>2, ConnectStep, ReadStep, BreakStep, DisconnectStep
<1>3. CASE UNCHANGED vars
  BY <1>3 DEF vars, clientVars, callVars, IndInv, TypeOK, TodoInv, SocketInv, Stream, Due, Current
<1> QED BY <1>1, <1>2, <1>3 DEF Next

\* Type correctness, for any clients and calls, and of any length of broadcast.
THEOREM FanOutTypeCorrect == Spec => []TypeOK
<1>1. IndInv => TypeOK
  BY DEF IndInv
<1> QED BY <1>1, IndInit, IndStep, PTL DEF Spec

\* A client that stays is sent every event of every call once and in order, for
\* any number of others that come, fail and go.
THEOREM NothingIsSkipped == Spec => []NothingSkipped
<1>1. IndInv => NothingSkipped
  BY StreamIsNothingSkipped DEF IndInv
<1> QED BY <1>1, IndInit, IndStep, PTL DEF Spec
=============================================================================
