-------------------------- MODULE MCPManagerProofs --------------------------
(***************************************************************************)
(* Proofs about MCPManager, for any servers, tools and calls.              *)
(***************************************************************************)
EXTENDS MCPManager, TLAPS

LEMMA SpecsAreServers == \A i \in 1..Len(Specs) : Specs[i] \in Server
BY SpecsAssumption

\* The state of a call: what it has sent follows its attempt, and only an
\* idempotent tool has a second one.
CallInv ==
    \A c \in Call :
        /\ attempt[c] = 1 => request[c][2] = "unsent"
        /\ attempt[c] = 2 => tool[c] \in Idempotent
        /\ pc[c] # "done" => answer[c] = "none"

\* The servers that may be listed have a session.
SessionInv ==
    \A i \in 1..Len(Specs) :
        i < position \/ stage \in {"listing", "connected", "serving"}
            => stage \in {"failed", "closed"} \/ Specs[i] \in sessions

IndInv == TypeOK /\ CallInv /\ SessionInv /\ RegistryIsCoherent

LEMMA IndInit == Init => IndInv
<1> SUFFICES ASSUME Init PROVE IndInv
  OBVIOUS
<1>1. TypeOK
  BY SpecsAssumption DEF Init, TypeOK, Attempt
<1>2. CallInv
  BY DEF Init, CallInv, Attempt
<1>3. SessionInv
  BY DEF Init, SessionInv
<1>4. RegistryIsCoherent
  BY DEF Init, RegistryIsCoherent, ListAllTools
<1> QED BY <1>1, <1>2, <1>3, <1>4 DEF IndInv

\* The steps of lifespan, which touch no call.
LEMMA LifespanStep ==
  ASSUME IndInv, Startup \/ StartupFailure \/ Close
  PROVE  IndInv'
<1> USE DEF IndInv, TypeOK, callVars, registryVars, ListAllTools
<1>1. UNCHANGED callVars
  BY DEF Startup, StartupFailure, Connect, StartListing, List, ConnectAllReturns, Serve,
         ConnectFails, ListFails, Close
<1>2. CallInv'
  BY <1>1 DEF CallInv
<1>3. CASE Connect
  <2>1. Specs[position] \in Server
    BY <1>3, SpecsAreServers DEF Connect
  <2>2. TypeOK'
    BY <1>1, <1>3, <2>1, SpecsAssumption DEF Connect
  <2>3. SessionInv'
    BY <1>3, SpecsAssumption DEF Connect, SessionInv
  <2>4. RegistryIsCoherent'
    BY <1>3 DEF Connect, RegistryIsCoherent
  <2> QED BY <1>2, <2>2, <2>3, <2>4
<1>4. CASE List
  <2> DEFINE server == Specs[position]
  <2>1. server \in Server /\ server \in sessions
    BY <1>4, SpecsAreServers DEF List, SessionInv
  <2>2. TypeOK'
    BY <1>1, <1>4, <2>1, SpecsAssumption DEF List
  <2>3. SessionInv'
    BY <1>4, SpecsAssumption DEF List, SessionInv
  <2>4. RegistryIsCoherent'
    <3> SUFFICES ASSUME NEW t \in Tool, registry'[t] # Unknown
                 PROVE  /\ schemas'[t] = registry'[t]
                        /\ t \in Offered[registry'[t]]
                        /\ registry'[t] \in sessions'
      BY DEF RegistryIsCoherent
    <3>1. CASE t \in Offered[server]
      BY <1>4, <2>1, <3>1 DEF List
    <3>2. CASE t \notin Offered[server]
      BY <1>4, <3>2 DEF List, RegistryIsCoherent
    <3> QED BY <3>1, <3>2
  <2> QED BY <1>2, <2>2, <2>3, <2>4
<1>5. CASE StartListing \/ ConnectAllReturns \/ Serve \/ ConnectFails \/ ListFails \/ Close
  <2>1. UNCHANGED <<sessions, registryVars>>
    BY <1>5 DEF StartListing, ConnectAllReturns, Serve, ConnectFails, ListFails, Close
  <2>2. RegistryIsCoherent'
    BY <2>1 DEF RegistryIsCoherent
  <2>3. TypeOK'
    <3>1. CASE StartListing \/ ConnectAllReturns \/ Serve
      BY <1>1, <2>1, <3>1, SpecsAssumption DEF StartListing, ConnectAllReturns, Serve
    <3>2. CASE ConnectFails \/ ListFails \/ Close
      BY <1>1, <2>1, <3>2, SpecsAreServers DEF ConnectFails, ListFails, Close
    <3> QED BY <1>5, <3>1, <3>2
  <2>4. SessionInv'
    BY <1>5, <2>1, SpecsAssumption DEF SessionInv, StartListing, ConnectAllReturns, Serve,
       ConnectFails, ListFails, Close
  <2> QED BY <1>2, <2>2, <2>3, <2>4
<1> QED BY <1>3, <1>4, <1>5 DEF Startup, StartupFailure

\* The steps of a call and of the server it goes to.
LEMMA CallStep ==
  ASSUME IndInv,
         NEW c \in Call,
         \/ StartCall(c) \/ Receive(c) \/ GiveUp(c)
         \/ \E n \in Attempt : ServerAnswers(c, n)
  PROVE  IndInv'
<1> USE DEF IndInv, TypeOK, registryVars, Send, Return, Attempt
<1>1. UNCHANGED <<stage, position, open, sessions, registryVars, tool>>
  BY DEF StartCall, Receive, GiveUp, ServerAnswers
<1>2. SessionInv' /\ RegistryIsCoherent'
  BY <1>1 DEF SessionInv, RegistryIsCoherent, ListAllTools
<1>3. CASE StartCall(c)
  <2>1. TypeOK'
    <3>1. CASE registry[tool[c]] = Unknown
      <4>1. /\ pc' = [pc EXCEPT ![c] = "done"]
            /\ answer' = [answer EXCEPT ![c] = "error"]
            /\ UNCHANGED <<attempt, request>>
        BY <1>3, <3>1 DEF StartCall
      <4> QED BY <1>1, <4>1
    <3>2. CASE registry[tool[c]] # Unknown
      <4>1. /\ pc' = [pc EXCEPT ![c] = "waiting"]
            /\ request' = [request EXCEPT ![c][1] = "sent"]
            /\ UNCHANGED <<attempt, answer>>
        BY <1>3, <3>2 DEF StartCall
      <4> QED BY <1>1, <4>1
    <3> QED BY <3>1, <3>2
  <2>2. CallInv'
    BY <1>3 DEF StartCall, CallInv
  <2> QED BY <1>2, <2>1, <2>2
<1>4. CASE Receive(c)
  <2>1. TypeOK'
    BY <1>1, <1>4 DEF Receive
  <2>2. CallInv'
    BY <1>4 DEF Receive, CallInv
  <2> QED BY <1>2, <2>1, <2>2
<1>5. CASE GiveUp(c)
  <2>1. TypeOK'
    <3>1. Retries(tool[c]) \in 1..2
      BY DEF Retries
    <3>2. CASE attempt[c] < Retries(tool[c])
      <4>1. attempt[c] = 1 /\ attempt[c] + 1 = 2
        BY <3>1, <3>2
      <4>2. attempt' = [attempt EXCEPT ![c] = 2] /\ request' = [request EXCEPT ![c][2] = "sent"]
            /\ UNCHANGED <<pc, answer>>
        BY <1>5, <3>2, <4>1, <3>1 DEF GiveUp
      <4> QED BY <1>1, <4>2
    <3>3. CASE attempt[c] >= Retries(tool[c])
      <4>1. ~(attempt[c] < Retries(tool[c]))
        BY <3>1, <3>3
      <4>2. Return(c, "error") /\ UNCHANGED <<request, attempt>>
        BY <1>5, <4>1 DEF GiveUp
      <4> QED BY <1>1, <4>2
    <3> QED BY <3>1, <3>2, <3>3
  <2>2. CallInv'
    BY <1>5 DEF GiveUp, CallInv, Retries
  <2> QED BY <1>2, <2>1, <2>2
<1>6. ASSUME NEW n \in Attempt, ServerAnswers(c, n) PROVE IndInv'
  <2>1. PICK what \in {"performed", "refused"} : request' = [request EXCEPT ![c][n] = what]
    BY <1>6 DEF ServerAnswers
  <2>2. TypeOK'
    BY <1>1, <1>6, <2>1 DEF ServerAnswers
  <2>3. CallInv'
    BY <1>6, <2>1 DEF ServerAnswers, CallInv
  <2> QED BY <1>2, <2>2, <2>3
<1> QED BY <1>3, <1>4, <1>5, <1>6

LEMMA Inductive == Spec => []IndInv
<1>1. IndInv /\ [Next]_vars => IndInv'
  <2> SUFFICES ASSUME IndInv, [Next]_vars PROVE IndInv'
    OBVIOUS
  <2>1. CASE UNCHANGED vars
    BY <2>1 DEF IndInv, vars, TypeOK, CallInv, SessionInv, RegistryIsCoherent, ListAllTools,
                callVars, registryVars
  <2> QED BY <2>1, LifespanStep, CallStep DEF Next
<1> QED BY <1>1, IndInit, PTL DEF Spec

\* The state of the manager and its calls is well-formed; see TypeOK.
THEOREM ManagerTypeCorrect == Spec => []TypeOK
BY Inductive, PTL DEF IndInv

\* Nothing outside the idempotent list is done twice; see NeverAppliedTwice.
THEOREM WritesAreNotRepeated == Spec => []NeverAppliedTwice
<1>1. IndInv => NeverAppliedTwice
  BY DEF IndInv, TypeOK, CallInv, NeverAppliedTwice, Attempt
<1> QED BY <1>1, Inductive, PTL

\* A tool's declaration and its calls belong to one server; see RegistryIsCoherent.
THEOREM RegistryStaysCoherent == Spec => []RegistryIsCoherent
BY Inductive, PTL DEF IndInv
=============================================================================
