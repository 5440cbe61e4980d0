------------------------- MODULE ConversationProofs -------------------------
(***************************************************************************)
(* Proofs about Conversation, for any turns, step cap, bills and bounds,   *)
(* with requests that overlap or not.                                      *)
(***************************************************************************)
EXTENDS Conversation, FiniteSetTheorems, TLAPS

\* What the types of the locals rest on: a turn acts within the step cap and
\* with calls left, a clear is counted when it ends.
LoopInv ==
    /\ clearing => clears < MaxClears
    /\ \A t \in Turn : pc[t] \in {"acting", "executing", "recorded"} => step[t] <= MaxSteps
    /\ \A t \in Turn : pc[t] \in {"executing", "recorded"} => todo[t] > 0

\* The usage of a turn lies between its own tokens and all that were billed.
UsageInv ==
    /\ UsageIsNeverOvercounted
    /\ \A t \in Turn : usage[t] <= billed
    /\ \A t \in Turn : pc[t] \in {"idle", "saving", "starting"} => spent[t] = 0
    /\ \A t \in Turn :
         pc[t] \in {"generating", "acting", "executing", "recorded"} => usage[t] >= spent[t]

IndInv == TypeOK /\ LoopInv /\ UsageInv

\* TypeOK by what a step may change.
StoreType ==
    /\ messages \in Seq(Message)
    /\ executions \subseteq Turn
    /\ savedUsage \in Nat
    /\ lists \in [ListId -> Seq(Entry)]
    /\ contents \in ListId
    /\ appUsage \in Nat

TurnType ==
    /\ running \in Turn \cup {Nobody}
    /\ pc \in [Turn -> Where]
    /\ list \in [Turn -> ListId]
    /\ usage \in [Turn -> Nat]

LoopType ==
    /\ step \in [Turn -> 1..(MaxSteps + 1)]
    /\ todo \in [Turn -> 0..MaxCalls]

TokenType ==
    /\ billed \in Nat
    /\ spent \in [Turn -> Nat]

ProcessType ==
    /\ process \in {"up", "down"}
    /\ clearing \in BOOLEAN
    /\ wiped \subseteq Turn
    /\ stale \subseteq Turn
    /\ overlapped \in BOOLEAN
    /\ clears \in 0..MaxClears
    /\ crashes \in 0..MaxCrashes
    /\ faults \in 0..MaxFaults

store == <<disk, lists, contents, appUsage>>
turn == <<running, pc, list, usage>>
loop == <<step, todo>>
outer == <<process, clearing, history, faults>>

LEMMA TypeParts ==
  TypeOK <=> StoreType /\ TurnType /\ LoopType /\ TokenType /\ ProcessType
BY DEF TypeOK, StoreType, TurnType, LoopType, TokenType, ProcessType

LEMMA IndInit == Init => IndInv
<1> SUFFICES ASSUME Init PROVE IndInv
  OBVIOUS
<1>1. StoreType
  BY BoundsAssumption DEF Init, StoreType, ListId
<1>2. TurnType
  BY BoundsAssumption DEF Init, TurnType, ListId, Where
<1>3. LoopType
  BY StepsAssumption DEF Init, LoopType
<1>4. TokenType /\ ProcessType
  <2>1. {clears, crashes, faults} = {0} /\ 0 \in 0..MaxClears /\ 0 \in 0..MaxCrashes
        /\ 0 \in 0..MaxFaults
    BY BoundsAssumption DEF Init
  <2> QED BY <2>1 DEF Init, TokenType, ProcessType
<1>5. LoopInv /\ UsageInv
  BY DEF Init, LoopInv, UsageInv, UsageIsNeverOvercounted
<1> QED BY <1>1, <1>2, <1>3, <1>4, <1>5, TypeParts DEF IndInv

\* Adding an entry to a list, or a row to the messages, keeps their types.
LEMMA AppendToType ==
  ASSUME lists \in [ListId -> Seq(Entry)],
         NEW l \in ListId, NEW t \in Turn,
         NEW role \in {"user", "model", "empty", "call", "response"},
         AppendTo(l, role, t)
  PROVE  lists' \in [ListId -> Seq(Entry)]
<1>1. [role |-> role, turn |-> t] \in Entry
  BY DEF Entry
<1>2. Append(lists[l], [role |-> role, turn |-> t]) \in Seq(Entry)
  BY <1>1
<1> QED BY <1>2 DEF AppendTo

LEMMA AppendMessageType ==
  ASSUME messages \in Seq(Message), NEW role \in {"user", "model"}, NEW t \in Turn
  PROVE  Append(messages, [role |-> role, turn |-> t]) \in Seq(Message)
<1>1. [role |-> role, turn |-> t] \in Message
  BY DEF Message
<1> QED BY <1>1

\* What the steps of a turn that bill nothing do to the store.
LEMMA StoreStep ==
  ASSUME TypeOK, NEW t \in Turn,
         \/ Submit(t) \/ SaveUser(t) \/ Begin(t) \/ LLMFails(t) \/ SkipUnknown(t)
         \/ ExecuteTool(t) \/ ToolRecorded(t) \/ ToolReturns(t) \/ Respond(t)
         \/ SaveAnswer(t) \/ SaveNothingAsAnswer(t) \/ CountUsage(t) \/ SaveUsage(t)
         \/ SaveFailure(t) \/ DbError(t)
  PROVE  StoreType'
<1> USE TypeParts DEF StoreType, TurnType, store, disk, memory
<1>1. CASE Submit(t)
  <2>1. lists' \in [ListId -> Seq(Entry)]
    BY <1>1, AppendToType DEF Submit
  <2> QED BY <1>1, <2>1 DEF Submit
<1>2. CASE Respond(t)
  <2>1. lists' \in [ListId -> Seq(Entry)]
    BY <1>2, AppendToType DEF Respond
  <2> QED BY <1>2, <2>1 DEF Respond
<1>3. CASE SaveUser(t)
  BY <1>3, AppendMessageType DEF SaveUser
<1>4. CASE SaveAnswer(t)
  BY <1>4, AppendMessageType DEF SaveAnswer
<1>5. CASE ToolRecorded(t) \/ SaveUsage(t)
  BY <1>5 DEF ToolRecorded, SaveUsage
<1>6. CASE \/ Begin(t) \/ LLMFails(t) \/ SkipUnknown(t) \/ ExecuteTool(t) \/ ToolReturns(t)
           \/ SaveNothingAsAnswer(t) \/ CountUsage(t) \/ SaveFailure(t) \/ DbError(t)
  <2>1. UNCHANGED store
    BY <1>6 DEF Begin, LLMFails, SkipUnknown, ExecuteTool, ToolReturns,
                SaveNothingAsAnswer, CountUsage, SaveFailure, DbError
  <2> QED BY <2>1
<1> QED BY <1>1, <1>2, <1>3, <1>4, <1>5, <1>6

\* A turn is always somewhere.
LEMMA GotoType ==
  ASSUME pc \in [Turn -> Where], NEW t \in Turn, NEW from, NEW to \in Where, Goto(t, from, to)
  PROVE  pc' \in [Turn -> Where]
BY DEF Goto

\* The steps of a turn that do not bill anything.
LEMMA TurnStep ==
  ASSUME IndInv, NEW t \in Turn,
         \/ Submit(t) \/ SaveUser(t) \/ Begin(t) \/ LLMFails(t) \/ SkipUnknown(t)
         \/ ExecuteTool(t) \/ ToolRecorded(t) \/ ToolReturns(t) \/ Respond(t)
         \/ SaveAnswer(t) \/ SaveNothingAsAnswer(t) \/ CountUsage(t) \/ SaveUsage(t)
         \/ SaveFailure(t) \/ DbError(t)
  PROVE  IndInv'
<1> USE TypeParts DEF IndInv, disk, memory, tokens, history
<1>1. UNCHANGED <<billed, spent, process, clearing, wiped, stale, clears, crashes>>
      /\ (overlapped \in BOOLEAN => overlapped' \in BOOLEAN)
  BY DEF Submit, SaveUser, Begin, LLMFails, SkipUnknown, ExecuteTool, ToolRecorded,
         ToolReturns, Respond, SaveAnswer, SaveNothingAsAnswer, CountUsage,
         SaveUsage, SaveFailure, DbError
<1>2. StoreType'
  BY StoreStep
<1>3. TokenType' /\ ProcessType'
  <2>1. faults' = faults \/ (faults < MaxFaults /\ faults' = faults + 1)
    BY DEF Submit, SaveUser, Begin, LLMFails, SkipUnknown, ExecuteTool, ToolRecorded,
           ToolReturns, Respond, SaveAnswer, SaveNothingAsAnswer, CountUsage,
         SaveUsage, SaveFailure, DbError
  <2> QED BY <1>1, <2>1, BoundsAssumption DEF TokenType, ProcessType
<1>4. TurnType'
  <2>1. pc' \in [Turn -> Where]
    <3>1. CASE SkipUnknown(t)
      BY <3>1 DEF SkipUnknown, TurnType
    <3>2. CASE DbError(t)
      BY <3>2 DEF DbError, TurnType, Where, Ended
    <3>3. CASE ~SkipUnknown(t) /\ ~DbError(t)
      <4>1. \E from, to \in Where : Goto(t, from, to)
        BY <3>3 DEF Submit, SaveUser, Begin, LLMFails, ExecuteTool, ToolRecorded,
           ToolReturns, Respond, SaveAnswer, SaveNothingAsAnswer, CountUsage,
         SaveUsage, SaveFailure, Where, Ended
      <4> QED BY <4>1, GotoType DEF TurnType
    <3> QED BY <3>1, <3>2, <3>3
  <2>2. running' \in Turn \cup {Nobody}
    BY DEF TurnType, Submit, SaveUser, Begin, LLMFails, SkipUnknown, ExecuteTool,
       ToolRecorded, ToolReturns, Respond, SaveAnswer, SaveNothingAsAnswer, CountUsage,
         SaveUsage, SaveFailure,
       DbError
  <2>3. list' = list \/ list' = [list EXCEPT ![t] = contents]
    BY DEF Submit, SaveUser, Begin, LLMFails, SkipUnknown, ExecuteTool, ToolRecorded,
       ToolReturns, Respond, SaveAnswer, SaveNothingAsAnswer, CountUsage,
         SaveUsage, SaveFailure, DbError
  <2>4. usage' = usage \/ usage' = [usage EXCEPT ![t] = appUsage]
    BY DEF Submit, SaveUser, Begin, LLMFails, SkipUnknown, ExecuteTool, ToolRecorded,
       ToolReturns, Respond, SaveAnswer, SaveNothingAsAnswer, CountUsage,
         SaveUsage, SaveFailure, DbError
  <2> QED BY <2>1, <2>2, <2>3, <2>4 DEF TurnType, StoreType
<1>5. LoopType' /\ LoopInv'
  <2> USE DEF LoopType, LoopInv, TurnType
  <2>1. CASE SkipUnknown(t)
    <3>1. todo[t] \in 0..MaxCalls /\ todo[t] > 0
      BY <2>1 DEF SkipUnknown
    <3>2. todo[t] - 1 \in 0..MaxCalls
      BY <3>1, StepsAssumption
    <3>3. pc[t] = "acting"
      BY <2>1 DEF SkipUnknown
    <3>4. UNCHANGED <<pc, step, clearing, clears>> /\ todo' = [todo EXCEPT ![t] = todo[t] - 1]
      BY <2>1, <1>1 DEF SkipUnknown
    <3> QED BY <3>2, <3>3, <3>4
  <2>2. CASE ToolReturns(t)
    <3>1. pc[t] = "recorded" /\ pc' = [pc EXCEPT ![t] = "acting"]
      BY <2>2 DEF ToolReturns, Goto
    <3>2. todo[t] - 1 \in 0..MaxCalls
      BY <3>1, StepsAssumption
    <3>3. UNCHANGED <<step, clearing, clears>> /\ todo' = [todo EXCEPT ![t] = todo[t] - 1]
      BY <2>2, <1>1 DEF ToolReturns
    <3> QED BY <3>1, <3>2, <3>3
  <2>3. CASE Respond(t)
    <3>1. pc[t] = "acting" /\ pc' = [pc EXCEPT ![t] = "generating"]
      BY <2>3 DEF Respond, Goto
    <3>2. step[t] + 1 \in 1..(MaxSteps + 1)
      BY <3>1, StepsAssumption
    <3>3. UNCHANGED <<todo, clearing, clears>> /\ step' = [step EXCEPT ![t] = step[t] + 1]
      BY <2>3, <1>1 DEF Respond
    <3> QED BY <3>1, <3>2, <3>3
  <2>4. CASE ExecuteTool(t)
    <3>1. pc[t] = "acting" /\ todo[t] > 0 /\ pc' = [pc EXCEPT ![t] = "executing"]
      BY <2>4 DEF ExecuteTool, Goto
    <3>2. UNCHANGED <<step, todo, clearing, clears>>
      BY <2>4, <1>1 DEF ExecuteTool
    <3> QED BY <3>1, <3>2
  <2>5. CASE ToolRecorded(t)
    <3>1. pc[t] = "executing" /\ pc' = [pc EXCEPT ![t] = "recorded"]
      BY <2>5 DEF ToolRecorded, Goto
    <3>2. UNCHANGED <<step, todo, clearing, clears>>
      BY <2>5, <1>1 DEF ToolRecorded
    <3> QED BY <3>1, <3>2
  <2>6. CASE \/ Submit(t) \/ SaveUser(t) \/ Begin(t) \/ LLMFails(t) \/ SaveAnswer(t)
             \/ SaveNothingAsAnswer(t) \/ CountUsage(t) \/ SaveUsage(t) \/ SaveFailure(t)
             \/ DbError(t)
    <3>1. \E to \in Where \ {"acting", "executing", "recorded"} : pc' = [pc EXCEPT ![t] = to]
      BY <2>6 DEF Submit, SaveUser, Begin, LLMFails, SaveAnswer,
                  SaveNothingAsAnswer, CountUsage, SaveUsage, SaveFailure, DbError, Goto,
                  Where, Ended
    <3>2. UNCHANGED <<step, todo, clearing, clears>>
      BY <2>6, <1>1 DEF Submit, SaveUser, Begin, LLMFails, SaveAnswer,
                  SaveNothingAsAnswer, CountUsage, SaveUsage, SaveFailure, DbError
    <3> QED BY <3>1, <3>2
  <2> QED BY <2>1, <2>2, <2>3, <2>4, <2>5, <2>6
<1>6. UsageInv'
  <2> USE DEF UsageInv, UsageIsNeverOvercounted, TurnType, StoreType, TokenType
  <2>1. CASE Begin(t)
    <3>1. pc[t] = "starting" /\ pc' = [pc EXCEPT ![t] = "generating"]
      BY <2>1 DEF Begin, Goto
    <3>2. usage' = [usage EXCEPT ![t] = appUsage]
          /\ UNCHANGED <<savedUsage, appUsage, billed, spent>>
      BY <2>1 DEF Begin
    <3> QED BY <3>1, <3>2
  <2>2. CASE CountUsage(t)
    <3>1. pc' = [pc EXCEPT ![t] = "saving usage"]
      BY <2>2 DEF CountUsage, Goto
    <3>2. usage' = [usage EXCEPT ![t] = appUsage]
          /\ UNCHANGED <<savedUsage, appUsage, billed, spent>>
      BY <2>2 DEF CountUsage
    <3> QED BY <3>1, <3>2
  <2>3. CASE SaveUsage(t)
    <3>1. pc' = [pc EXCEPT ![t] = "answered"]
      BY <2>3 DEF SaveUsage, Goto
    <3>2. savedUsage' = usage[t] /\ UNCHANGED <<usage, appUsage, billed, spent>>
      BY <2>3 DEF SaveUsage
    <3> QED BY <3>1, <3>2
  <2>4. CASE Submit(t) \/ SaveUser(t)
    <3>1. pc[t] \in {"idle", "saving"} /\ \E to : pc' = [pc EXCEPT ![t] = to]
          /\ to \in {"saving", "starting"}
      BY <2>4 DEF Submit, SaveUser, Goto
    <3>2. UNCHANGED <<usage, savedUsage, appUsage, billed, spent>>
      BY <2>4 DEF Submit, SaveUser
    <3> QED BY <3>1, <3>2
  <2>5. CASE ExecuteTool(t) \/ ToolRecorded(t) \/ ToolReturns(t) \/ Respond(t)
    <3>1. pc[t] \in {"acting", "executing", "recorded"}
      BY <2>5 DEF ExecuteTool, ToolRecorded, ToolReturns, Respond, Goto
    <3>2. \E to \in {"generating", "acting", "executing", "recorded"} :
            pc' = [pc EXCEPT ![t] = to]
      BY <2>5 DEF ExecuteTool, ToolRecorded, ToolReturns, Respond, Goto
    <3>3. UNCHANGED <<usage, savedUsage, appUsage, billed, spent>>
      BY <2>5 DEF ExecuteTool, ToolRecorded, ToolReturns, Respond
    <3> QED BY <3>1, <3>2, <3>3
  <2>6. CASE LLMFails(t) \/ SaveAnswer(t) \/ SaveNothingAsAnswer(t) \/ SaveFailure(t) \/ DbError(t)
    <3>1. \E to \in {"reporting", "counting", "failed", "raised"} : pc' = [pc EXCEPT ![t] = to]
      BY <2>6 DEF LLMFails, SaveAnswer, SaveNothingAsAnswer, SaveFailure, DbError, Goto
    <3>2. UNCHANGED <<usage, savedUsage, appUsage, billed, spent>>
      BY <2>6 DEF LLMFails, SaveAnswer, SaveNothingAsAnswer, SaveFailure, DbError
    <3> QED BY <3>1, <3>2
  <2>7. CASE SkipUnknown(t)
    BY <2>7 DEF SkipUnknown
  <2> QED BY <2>1, <2>2, <2>3, <2>4, <2>5, <2>6, <2>7
<1>7. TypeOK'
  BY <1>2, <1>3, <1>4, <1>5 DEF TypeOK, StoreType, TurnType, LoopType, TokenType, ProcessType
<1> QED BY <1>5, <1>6, <1>7

\* The two answers of generate(), which are billed.
LEMMA BilledStep ==
  ASSUME IndInv, NEW t \in Turn, Propose(t) \/ Conclude(t)
  PROVE  IndInv'
<1> USE TypeParts DEF IndInv, disk, memory, tokens, history
<1>1. PICK cost \in Bill : /\ Billed(t, cost)
                           /\ appUsage' = appUsage \/ appUsage' = UsageReturned(t, cost)
  BY DEF Propose, Conclude
<1>2. cost \in Nat
  BY BillAssumption
<1>3. pc[t] = "generating" /\ \E to \in {"acting", "answering", "answering nothing"} :
                                pc' = [pc EXCEPT ![t] = to]
  BY DEF Propose, Conclude, Goto
<1>4. UNCHANGED <<messages, executions, savedUsage, process, clearing, list, step, wiped,
                  stale, overlapped, clears, crashes, faults>>
  BY DEF Propose, Conclude
<1>5. lists' \in [ListId -> Seq(Entry)]
  <2>1. PICK role \in {"model", "empty", "call"} : AppendTo(list[t], role, t)
    BY DEF Propose, Conclude
  <2> QED BY <2>1, AppendToType DEF StoreType, TurnType
<1>6. StoreType'
  <2>1. contents' = contents \/ contents' = list[t]
    BY DEF Propose, Conclude
  <2>2. appUsage' \in Nat
    BY <1>1, <1>2 DEF UsageReturned, StoreType, TurnType
  <2> QED BY <1>4, <1>5, <2>1, <2>2 DEF StoreType, TurnType
<1>7. TurnType' /\ TokenType'
  <2>1. pc' \in [Turn -> Where]
    BY <1>3 DEF TurnType, Where
  <2>2. running' \in Turn \cup {Nobody}
    BY DEF Propose, Conclude, TurnType
  <2>3. usage' \in [Turn -> Nat] /\ TokenType'
    BY <1>1, <1>2 DEF Billed, TurnType, TokenType
  <2> QED BY <1>4, <2>1, <2>2, <2>3 DEF TurnType
<1>8. LoopType' /\ LoopInv'
  <2>1. CASE Propose(t)
    <3>1. pc' = [pc EXCEPT ![t] = "acting"] /\ step[t] <= MaxSteps
      BY <2>1 DEF Propose, Goto
    <3>2. PICK n \in 1..MaxCalls : todo' = [todo EXCEPT ![t] = n]
      BY <2>1 DEF Propose
    <3>3. n \in 0..MaxCalls
      BY StepsAssumption
    <3> QED BY <1>4, <3>1, <3>2, <3>3 DEF LoopType, LoopInv, TurnType
  <2>2. CASE Conclude(t)
    <3>1. (\E to \in {"answering", "answering nothing"} : pc' = [pc EXCEPT ![t] = to])
          /\ UNCHANGED todo
      BY <2>2 DEF Conclude, Goto
    <3> QED BY <1>4, <3>1 DEF LoopType, LoopInv, TurnType
  <2> QED BY <2>1, <2>2
<1>9. ProcessType'
  BY <1>4 DEF ProcessType
<1>10. UsageInv'
  <2>1. /\ billed' = billed + cost
        /\ spent' = [spent EXCEPT ![t] = spent[t] + cost]
        /\ usage' = [usage EXCEPT ![t] = usage[t] + cost]
    BY <1>1 DEF Billed
  <2>2. UsageIsNeverOvercounted'
    <3>1. usage[t] \in Nat /\ billed \in Nat /\ appUsage \in Nat /\ savedUsage \in Nat
      BY DEF StoreType, TurnType, TokenType
    <3>2. usage[t] <= billed /\ appUsage <= billed /\ savedUsage <= billed
      BY DEF UsageInv, UsageIsNeverOvercounted
    <3>3. appUsage' = appUsage \/ appUsage' = usage[t] + cost
      BY <1>1 DEF UsageReturned
    <3> QED BY <1>2, <1>4, <2>1, <3>1, <3>2, <3>3 DEF UsageIsNeverOvercounted
  <2>3. \A k \in Turn : usage'[k] <= billed'
    BY <1>2, <2>1 DEF UsageInv, TurnType, TokenType
  <2>4. \A k \in Turn : pc'[k] \in {"idle", "saving", "starting"} => spent'[k] = 0
    BY <1>3, <2>1 DEF UsageInv, TurnType, TokenType
  <2>5. \A k \in Turn :
          pc'[k] \in {"generating", "acting", "executing", "recorded"} => usage'[k] >= spent'[k]
    <3>1. ASSUME NEW k \in Turn, pc'[k] \in {"generating", "acting", "executing", "recorded"}
          PROVE  pc[k] \in {"generating", "acting", "executing", "recorded"}
      BY <1>3, <3>1 DEF TurnType
    <3>2. ASSUME NEW k \in Turn, usage[k] >= spent[k] PROVE usage'[k] >= spent'[k]
      BY <1>2, <2>1, <3>2 DEF TurnType, TokenType
    <3> QED BY <3>1, <3>2 DEF UsageInv
  <2> QED BY <2>2, <2>3, <2>4, <2>5 DEF UsageInv
<1>11. TypeOK'
  BY <1>6, <1>7, <1>8, <1>9 DEF TypeOK, StoreType, TurnType, LoopType, TokenType, ProcessType
<1> QED BY <1>8, <1>10, <1>11

\* Clears, crashes and restarts.
LEMMA ProcessStep ==
  ASSUME IndInv, ClearDisk \/ ClearMemory \/ Crash \/ Restart
  PROVE  IndInv'
<1> USE TypeParts DEF IndInv, disk, memory, tokens, history, turnVars
<1>1. StoreType'
  <2>1. CASE ClearDisk
    BY <2>1 DEF ClearDisk, StoreType
  <2>2. CASE ClearMemory
    <3>1. clears < MaxClears
      BY <2>2 DEF ClearMemory, LoopInv
    <3>2. NextList + 1 \in ListId
      BY <3>1, BoundsAssumption DEF ProcessType, NextList, ListId
    <3> QED BY <2>2, <3>2 DEF ClearMemory, StoreType
  <2>3. CASE Crash
    BY <2>3 DEF Crash, StoreType
  <2>4. CASE Restart
    <3>1. Message \subseteq Entry
      BY DEF Message, Entry
    <3>2. messages \in Seq(Entry)
      BY <3>1 DEF StoreType
    <3>3. NextList \in ListId
      BY BoundsAssumption DEF ProcessType, NextList, ListId
    <3> QED BY <2>4, <3>2, <3>3 DEF Restart, StoreType
  <2> QED BY <2>1, <2>2, <2>3, <2>4
<1>2. UNCHANGED <<list, usage, step, todo, billed, spent, faults>>
  BY DEF ClearDisk, ClearMemory, Crash, Restart
<1>3. \A t \in Turn : pc'[t] = pc[t] \/ pc'[t] = "lost"
  BY DEF ClearDisk, ClearMemory, Crash, Restart, TurnType
<1>4. pc' = pc \/ pc' = [t \in Turn |-> IF InFlight(t) THEN "lost" ELSE pc[t]]
  BY DEF ClearDisk, ClearMemory, Crash, Restart
<1>5. TurnType' /\ LoopType' /\ TokenType'
  <2>1. pc' \in [Turn -> Where]
    BY <1>4 DEF TurnType, Where, Ended
  <2>2. running' \in Turn \cup {Nobody}
    BY DEF ClearDisk, ClearMemory, Crash, Restart, TurnType
  <2> QED BY <1>2, <2>1, <2>2 DEF TurnType, LoopType, TokenType
<1>6. ProcessType' /\ (clearing' => clears' < MaxClears)
  <2> USE DEF ProcessType, LoopInv
  <2>1. CASE ClearDisk
    BY <2>1 DEF ClearDisk
  <2>2. CASE ClearMemory
    <3>1. clears' \in 0..MaxClears
      BY <2>2, BoundsAssumption DEF ClearMemory
    <3>2. clearing' = FALSE /\ stale' = wiped
          /\ UNCHANGED <<process, wiped, overlapped, crashes, faults>>
      BY <2>2 DEF ClearMemory
    <3> QED BY <3>1, <3>2
  <2>3. CASE Crash
    <3>1. crashes' \in 0..MaxCrashes
      BY <2>3, BoundsAssumption DEF Crash
    <3>2. clearing' = FALSE /\ process' = "down"
          /\ UNCHANGED <<wiped, stale, overlapped, clears, faults>>
      BY <2>3 DEF Crash
    <3> QED BY <3>1, <3>2
  <2>4. CASE Restart
    BY <2>4 DEF Restart
  <2> QED BY <2>1, <2>2, <2>3, <2>4
<1>7. LoopInv'
  BY <1>2, <1>3, <1>6 DEF LoopInv
<1>8. UsageInv'
  <2>1. UsageIsNeverOvercounted'
    BY DEF ClearDisk, ClearMemory, Crash, Restart, UsageInv, UsageIsNeverOvercounted,
           StoreType, TokenType
  <2> QED BY <1>2, <1>3, <2>1 DEF UsageInv
<1>9. TypeOK'
  BY <1>1, <1>5, <1>6 DEF TypeOK, StoreType, TurnType, LoopType, TokenType, ProcessType
<1> QED BY <1>7, <1>8, <1>9

LEMMA Inductive == Spec => []IndInv
<1>1. IndInv /\ [Next]_vars => IndInv'
  <2> SUFFICES ASSUME IndInv, [Next]_vars PROVE IndInv'
    OBVIOUS
  <2>1. CASE UNCHANGED vars
    BY <2>1 DEF IndInv, vars, TypeOK, LoopInv, UsageInv, UsageIsNeverOvercounted, disk,
                memory, turnVars, tokens, history
  <2>2. ASSUME NEW t \in Turn, Submit(t) \/ Proceed(t) \/ DbError(t) PROVE IndInv'
    BY <2>2, TurnStep, BilledStep DEF Proceed
  <2> QED BY <2>1, <2>2, ProcessStep DEF Next
<1> QED BY <1>1, IndInit, PTL DEF Spec

\* The state of the conversation is well-formed, and no turn passes the step
\* cap; see TypeOK.
THEOREM ConversationTypeCorrect == Spec => []TypeOK
BY Inductive, PTL DEF IndInv

\* A token_budget rule sees the tokens of the turn; see ToolsSeeTheirTurnsTokens.
THEOREM TurnsTokensAreSeen == Spec => []ToolsSeeTheirTurnsTokens
<1>1. IndInv => ToolsSeeTheirTurnsTokens
  BY DEF IndInv, UsageInv, ToolsSeeTheirTurnsTokens
<1> QED BY <1>1, Inductive, PTL

\* No token is counted twice; see UsageIsNeverOvercounted.
THEOREM NothingIsCountedTwice == Spec => []UsageIsNeverOvercounted
BY Inductive, PTL DEF IndInv, UsageInv

-----------------------------------------------------------------------------
(***************************************************************************)
(* What is where: the rows of messages and the lists, turn by turn.        *)
(***************************************************************************)

\* Where the question, and where the answer too, has been saved.
Asked == {"starting", "generating", "acting", "executing", "recorded", "answering",
          "answering nothing"}
Answered == {"counting", "saving usage", "answered"}

Paired(t) ==
    \E i, j \in DOMAIN messages :
        /\ i < j
        /\ messages[i] = [role |-> "user", turn |-> t]
        /\ messages[j] = [role |-> "model", turn |-> t]

Durable ==
    \A t \in Turn \ wiped : /\ pc[t] \in Asked => Holds(messages, "user", t)
                            /\ pc[t] \in Answered => Paired(t)

\* In the loop of run_turn; and in it with calls that wait for their results.
Looping == {"generating", "acting", "executing", "recorded"}
Acting == {"acting", "executing", "recorded"}

\* Lists that have not been bound yet are empty; a dead process runs nothing.
Fresh ==
    /\ contents <= NextList
    /\ \A t \in Turn : list[t] <= NextList
    /\ \A l \in ListId : l > NextList => lists[l] = <<>>
    /\ process = "down" => ~clearing /\ \A t \in Turn : ~InFlight(t)
    /\ stale \subseteq wiped
    /\ \A t \in wiped : pc[t] # "idle"

\* One turn at a time, none during a clear, and each on the list that
\* app.state.contents is; what a clear has wiped is over.
OneByOne ==
    /\ \A t, u \in Turn : InFlight(t) /\ InFlight(u) => t = u
    /\ clearing => \A t \in Turn : ~InFlight(t)
    /\ \A t \in Turn : pc[t] \in Looping => list[t] = contents
    /\ \A t \in wiped : pc[t] \in Ended

Wiped ==
    /\ \A t \in wiped : /\ t \notin executions
                        /\ \A role \in {"user", "model"} : ~Holds(messages, role, t)
    /\ \A t \in stale, role \in {"user", "model"} : ~Holds(lists[contents], role, t)

CallIsLast ==
    \A t \in Turn : pc[t] \in Acting =>
        LET entries == lists[contents] IN
            Len(entries) > 0 /\ entries[Len(entries)] = [role |-> "call", turn |-> t]

\* What holds as long as nothing has overlapped.
SerialInv == OneByOne /\ Wiped /\ CallIsLast /\ ResponsesFollowCalls

OwnInv ==
    /\ OwnResponsesFollowCalls
    /\ \A t \in Turn : pc[t] \in Acting =>
         OwnCallIsLast(lists[list[t]], t, Len(lists[list[t]]))

-----------------------------------------------------------------------------
\* What a step of a turn may do, whichever it is.
LEMMA TurnEffects ==
  ASSUME TypeOK, NEW t \in Turn, Submit(t) \/ Proceed(t) \/ DbError(t)
  PROVE  /\ \A u \in Turn \ {t} : pc'[u] = pc[u] /\ list'[u] = list[u]
         /\ InFlight(t) \/ Submit(t)
         /\ pc'[t] # "idle"
         /\ UNCHANGED <<process, clearing, wiped, stale, clears, crashes>>
         /\ executions' = executions \/ executions' = executions \cup {t}
         /\ contents' = contents \/ (Conclude(t) /\ contents' = list[t])
         /\ list'[t] = list[t] \/ (Begin(t) /\ list'[t] = contents /\ contents' = contents)
         /\ pc'[t] \in Looping =>
              /\ contents' = contents
              /\ list'[t] = contents \/ (pc[t] \in Looping /\ list'[t] = list[t])
         /\ pc'[t] \in Acting =>
              \/ Propose(t)
              \/ pc[t] \in Acting /\ lists' = lists /\ list'[t] = list[t]
<1> USE DEF Looping, Acting, TypeOK, Goto, disk, memory, turnVars, tokens, history, InFlight, Ended
<1>1. CASE Submit(t) \/ SaveUser(t) \/ Begin(t)
  BY <1>1 DEF Submit, SaveUser, Begin
<1>2. CASE Propose(t) \/ Conclude(t) \/ LLMFails(t)
  BY <1>2 DEF Propose, Conclude, LLMFails
<1>3. CASE SkipUnknown(t) \/ ExecuteTool(t) \/ ToolRecorded(t) \/ ToolReturns(t) \/ Respond(t)
  BY <1>3 DEF SkipUnknown, ExecuteTool, ToolRecorded, ToolReturns, Respond
<1>4. CASE \/ SaveAnswer(t) \/ SaveNothingAsAnswer(t) \/ CountUsage(t) \/ SaveUsage(t)
           \/ SaveFailure(t)
  BY <1>4 DEF SaveAnswer, SaveNothingAsAnswer, CountUsage,
         SaveUsage, SaveFailure
<1>5. CASE DbError(t)
  BY <1>5 DEF DbError
<1> QED BY <1>1, <1>2, <1>3, <1>4, <1>5 DEF Proceed

\* A row saved, by two of the steps.
LEMMA MessageEffects ==
  ASSUME NEW t \in Turn, Submit(t) \/ Proceed(t) \/ DbError(t)
  PROVE  \/ messages' = messages
         \/ SaveUser(t) /\ messages' = Append(messages, [role |-> "user", turn |-> t])
         \/ SaveAnswer(t) /\ messages' = Append(messages, [role |-> "model", turn |-> t])
<1> USE DEF disk
<1>1. CASE SaveUser(t) \/ SaveAnswer(t)
  BY <1>1 DEF SaveUser, SaveAnswer
<1>2. CASE Submit(t) \/ Begin(t) \/ Propose(t) \/ Conclude(t) \/ LLMFails(t)
  BY <1>2 DEF Submit, Begin, Propose, Conclude, LLMFails
<1>3. CASE SkipUnknown(t) \/ ExecuteTool(t) \/ ToolRecorded(t) \/ ToolReturns(t) \/ Respond(t)
  BY <1>3 DEF SkipUnknown, ExecuteTool, ToolRecorded, ToolReturns, Respond
<1>4. CASE \/ SaveNothingAsAnswer(t) \/ CountUsage(t) \/ SaveUsage(t) \/ SaveFailure(t)
           \/ DbError(t)
  BY <1>4 DEF SaveNothingAsAnswer, CountUsage, SaveUsage, SaveFailure, DbError
<1> QED BY <1>1, <1>2, <1>3, <1>4 DEF Proceed

\* An entry appended, by four of them.
LEMMA ListEffects ==
  ASSUME NEW t \in Turn, Submit(t) \/ Proceed(t) \/ DbError(t)
  PROVE  \/ lists' = lists
         \/ Submit(t) /\ AppendTo(contents, "user", t)
         \/ Propose(t) /\ AppendTo(list[t], "call", t)
         \/ Conclude(t) /\ \E role \in {"model", "empty", "call"} : AppendTo(list[t], role, t)
         \/ Respond(t) /\ AppendTo(list[t], "response", t)
<1> USE DEF memory
<1>1. CASE Submit(t) \/ Propose(t) \/ Conclude(t) \/ Respond(t)
  <2>1. Submit(t) => AppendTo(contents, "user", t)
    BY DEF Submit
  <2>2. Propose(t) => AppendTo(list[t], "call", t)
    BY DEF Propose
  <2>3. Conclude(t) => \E role \in {"model", "empty", "call"} : AppendTo(list[t], role, t)
    BY DEF Conclude
  <2>4. Respond(t) => AppendTo(list[t], "response", t)
    BY DEF Respond
  <2> QED BY <1>1, <2>1, <2>2, <2>3, <2>4
<1>2. CASE SaveUser(t) \/ Begin(t) \/ LLMFails(t) \/ SkipUnknown(t) \/ ExecuteTool(t)
  BY <1>2 DEF SaveUser, Begin, LLMFails, SkipUnknown, ExecuteTool
<1>3. CASE \/ ToolRecorded(t) \/ ToolReturns(t) \/ SaveAnswer(t) \/ SaveNothingAsAnswer(t)
           \/ CountUsage(t)
  BY <1>3 DEF ToolRecorded, ToolReturns, SaveAnswer, SaveNothingAsAnswer, CountUsage
<1>4. CASE SaveUsage(t) \/ SaveFailure(t) \/ DbError(t)
  BY <1>4 DEF SaveUsage, SaveFailure, DbError
<1> QED BY <1>1, <1>2, <1>3, <1>4 DEF Proceed

\* Appending to a sequence of entries or rows.
LEMMA AppendHolds ==
  ASSUME NEW S, NEW s \in Seq(S), NEW e \in S, NEW role, NEW t
  PROVE  Holds(Append(s, e), role, t) <=> Holds(s, role, t) \/ e = [role |-> role, turn |-> t]
<1> DEFINE a == Append(s, e)
<1>1. /\ DOMAIN a = 1..(Len(s) + 1) /\ DOMAIN s = 1..Len(s) /\ Len(s) \in Nat
      /\ a[Len(s) + 1] = e
      /\ \A i \in 1..Len(s) : a[i] = s[i]
  OBVIOUS
<1> HIDE DEF a
<1>2. Holds(a, role, t) <=> Holds(s, role, t) \/ e = [role |-> role, turn |-> t]
  BY <1>1 DEF Holds
<1> QED BY <1>2 DEF a

LEMMA DurableStep == TypeOK /\ Durable /\ [Next]_vars => Durable'
<1> SUFFICES ASSUME TypeOK, Durable, [Next]_vars PROVE Durable'
  OBVIOUS
<1>1. ASSUME NEW u \in Turn, Submit(u) \/ Proceed(u) \/ DbError(u) PROVE Durable'
  <2> SUFFICES ASSUME NEW t \in Turn \ wiped'
               PROVE  (/\ pc[t] \in Asked => Holds(messages, "user", t)
                       /\ pc[t] \in Answered => Paired(t))'
    BY DEF Durable
  <2>0. messages \in Seq(Message) /\ wiped' = wiped
    BY <1>1, TurnEffects DEF TypeOK
  <2>1. pc[t] \in Asked => Holds(messages, "user", t)
    BY <2>0 DEF Durable
  <2>2. pc[t] \in Answered => Paired(t)
    BY <2>0 DEF Durable
  <2>3. PICK new \in Message : messages' = messages \/ messages' = Append(messages, new)
    <3>1. [role |-> "user", turn |-> u] \in Message /\ [role |-> "model", turn |-> u] \in Message
      BY DEF Message
    <3> QED BY <1>1, <3>1, MessageEffects
  <2>4. Holds(messages, "user", t) => Holds(messages', "user", t)
    <3>1. CASE messages' = Append(messages, new)
      BY <2>0, <3>1, AppendHolds
    <3> QED BY <2>3, <3>1
  <2>5. Paired(t) => Paired(t)'
    <3>1. CASE messages' = messages
      BY <3>1 DEF Paired
    <3>2. CASE messages' = Append(messages, new)
      <4>1. \A i \in DOMAIN messages : i \in DOMAIN messages' /\ messages'[i] = messages[i]
        BY <2>0, <3>2
      <4> QED BY <4>1 DEF Paired
    <3> QED BY <2>3, <3>1, <3>2
  <2>6. CASE t # u
    BY <1>1, <2>1, <2>2, <2>4, <2>5, <2>6, TurnEffects
  <2>7. CASE t = u
    <3>1. CASE SaveUser(t)
      <4>1. Holds(messages', "user", t)
        <5>1. [role |-> "user", turn |-> t] \in Message
          BY DEF Message
        <5> QED BY <2>0, <3>1, <5>1, AppendHolds DEF SaveUser
      <4>2. pc'[t] = "starting"
        BY <3>1 DEF SaveUser, Goto, TypeOK
      <4> QED BY <4>1, <4>2 DEF Answered
    <3>2. CASE SaveAnswer(t)
      <4>1. pc[t] = "answering" /\ pc'[t] = "counting"
            /\ messages' = Append(messages, [role |-> "model", turn |-> t])
        BY <3>2 DEF SaveAnswer, Goto, TypeOK
      <4>2. PICK i \in DOMAIN messages : messages[i] = [role |-> "user", turn |-> t]
        BY <2>1, <4>1 DEF Asked, Holds
      <4>3. /\ i < Len(messages) + 1 /\ i \in DOMAIN messages' /\ messages'[i] = messages[i]
            /\ Len(messages) + 1 \in DOMAIN messages'
            /\ messages'[Len(messages) + 1] = [role |-> "model", turn |-> t]
        BY <2>0, <4>1
      <4>4. Paired(t)'
        BY <4>2, <4>3 DEF Paired
      <4> QED BY <4>1, <4>4 DEF Asked
    <3>3. CASE ~SaveUser(t) /\ ~SaveAnswer(t)
      <4>1. (pc'[t] \in Asked => pc[t] \in Asked) /\ (pc'[t] \in Answered => pc[t] \in Answered)
        <5> USE DEF Goto, TypeOK, Asked, Answered
        <5>1. CASE Submit(t) \/ Begin(t) \/ Propose(t) \/ Conclude(t) \/ LLMFails(t)
          BY <5>1 DEF Submit, Begin, Propose, Conclude, LLMFails
        <5>2. CASE \/ SkipUnknown(t) \/ ExecuteTool(t) \/ ToolRecorded(t) \/ ToolReturns(t)
                   \/ Respond(t)
          BY <5>2 DEF SkipUnknown, ExecuteTool, ToolRecorded, ToolReturns, Respond
        <5>3. CASE \/ SaveNothingAsAnswer(t) \/ CountUsage(t) \/ SaveUsage(t)
                   \/ SaveFailure(t) \/ DbError(t)
          BY <5>3 DEF SaveNothingAsAnswer, CountUsage, SaveUsage, SaveFailure, DbError
        <5> QED BY <1>1, <2>7, <3>3, <5>1, <5>2, <5>3 DEF Proceed
      <4> QED BY <2>1, <2>2, <2>4, <2>5, <4>1
    <3> QED BY <3>1, <3>2, <3>3
  <2> QED BY <2>6, <2>7
<1>2. CASE ClearDisk
  <2>1. \A t \in Turn \ wiped' : pc'[t] = "idle"
    BY <1>2 DEF ClearDisk, turnVars
  <2> QED BY <2>1 DEF Durable, Asked, Answered
<1>3. CASE ClearMemory \/ Restart \/ UNCHANGED vars
  BY <1>3 DEF ClearMemory, Restart, vars, disk, turnVars, history, Durable, Paired
<1>4. CASE Crash
  <2>1. UNCHANGED <<messages, wiped>> /\ \A t \in Turn : pc'[t] = pc[t] \/ pc'[t] = "lost"
    BY <1>4 DEF Crash, disk
  <2>2. \A t \in Turn : /\ pc'[t] \in Asked => pc[t] \in Asked
                        /\ pc'[t] \in Answered => pc[t] \in Answered
    BY <2>1 DEF Asked, Answered
  <2> QED BY <2>1, <2>2 DEF Durable, Paired, Holds
<1> QED BY <1>1, <1>2, <1>3, <1>4 DEF Next

\* An answered turn is on disk; see AnsweredTurnsAreDurable.
THEOREM AnswersAreDurable == Spec => []AnsweredTurnsAreDurable
<1>1. Init => Durable
  BY DEF Init, Durable, Asked, Answered
<1>2. Spec => []Durable
  BY <1>1, DurableStep, ConversationTypeCorrect, PTL DEF Spec
<1>3. Durable => AnsweredTurnsAreDurable
  BY DEF Durable, AnsweredTurnsAreDurable, Answered, Paired
<1> QED BY <1>2, <1>3, PTL

-----------------------------------------------------------------------------
(***************************************************************************)
(* The lists.                                                              *)
(***************************************************************************)

LEMMA FreshStep == TypeOK /\ LoopInv /\ Fresh /\ [Next]_vars => Fresh'
<1> SUFFICES ASSUME TypeOK, LoopInv, Fresh, [Next]_vars PROVE Fresh'
  OBVIOUS
<1>0. NextList \in Nat /\ contents \in Nat /\ \A t \in Turn : list[t] \in Nat
  BY BoundsAssumption DEF TypeOK, NextList, ListId
<1>1. ASSUME NEW t \in Turn, Submit(t) \/ Proceed(t) \/ DbError(t) PROVE Fresh'
  <2>1. UNCHANGED <<process, clearing, NextList, stale, wiped>>
    BY <1>1, TurnEffects DEF NextList
  <2>2. contents' <= NextList /\ \A u \in Turn : list'[u] <= NextList
    BY <1>1, TurnEffects DEF Fresh
  <2>3. ASSUME NEW l \in ListId, l > NextList PROVE lists'[l] = <<>>
    <3>1. lists[l] = <<>> /\ l # contents /\ l # list[t]
      BY <1>0, <2>3 DEF Fresh, ListId
    <3>2. ASSUME NEW k \in ListId, k # l, NEW role, AppendTo(k, role, t) PROVE lists'[l] = lists[l]
      BY <3>2 DEF AppendTo, TypeOK
    <3> QED BY <1>1, <3>1, <3>2, ListEffects DEF TypeOK
  <2>4. process = "up"
    BY <1>1, TurnEffects DEF Fresh, Submit, TypeOK
  <2>5. \A u \in wiped : pc'[u] # "idle"
    BY <1>1, TurnEffects DEF Fresh, TypeOK
  <2> QED BY <2>1, <2>2, <2>3, <2>4, <2>5 DEF Fresh
<1>2. CASE ClearDisk
  <2>1. wiped' = {t \in Turn : pc[t] # "idle"} /\ stale' = stale /\ process' = "up"
        /\ UNCHANGED <<contents, list, lists, pc, NextList>>
    BY <1>2 DEF ClearDisk, turnVars, NextList
  <2>2. stale \subseteq wiped'
    BY <2>1 DEF Fresh, TypeOK
  <2> QED BY <2>1, <2>2 DEF Fresh
<1>3. CASE ClearMemory
  <2>1. /\ contents' = NextList + 1 /\ NextList' = NextList + 1
        /\ UNCHANGED <<list, lists, pc, process, wiped>> /\ stale' = wiped /\ process = "up"
    BY <1>3 DEF ClearMemory, turnVars, NextList, TypeOK, Fresh
  <2>2. \A t \in Turn : list[t] <= NextList + 1
    BY <1>0 DEF Fresh
  <2>3. \A l \in ListId : l > NextList + 1 => l > NextList
    BY <1>0, BoundsAssumption DEF ListId
  <2> QED BY <1>0, <2>1, <2>2, <2>3 DEF Fresh
<1>4. CASE Crash
  <2>1. /\ NextList' = NextList + 1 /\ ~clearing'
        /\ UNCHANGED <<contents, list, lists, wiped, stale>>
        /\ \A t \in Turn : pc'[t] = IF InFlight(t) THEN "lost" ELSE pc[t]
    BY <1>4 DEF Crash, turnVars, NextList, TypeOK
  <2>2. contents <= NextList + 1 /\ \A t \in Turn : list[t] <= NextList + 1
    BY <1>0 DEF Fresh
  <2>3. \A l \in ListId : l > NextList + 1 => l > NextList
    BY <1>0, BoundsAssumption DEF ListId
  <2>4. \A t \in Turn : ~InFlight(t)' /\ (pc'[t] = "idle" => pc[t] = "idle")
    BY <2>1 DEF InFlight, Ended
  <2> QED BY <2>1, <2>2, <2>3, <2>4 DEF Fresh, TypeOK
<1>5. CASE Restart
  <2>1. /\ contents' = NextList /\ lists' = [lists EXCEPT ![NextList] = messages]
        /\ process' = "up" /\ UNCHANGED <<NextList, list, pc, wiped, stale>>
    BY <1>5 DEF Restart, turnVars, history, NextList
  <2>2. \A l \in ListId : l > NextList => lists'[l] = lists[l]
    BY <1>0, <2>1 DEF TypeOK, ListId
  <2> QED BY <1>0, <2>1, <2>2 DEF Fresh
<1>6. CASE UNCHANGED vars
  BY <1>6 DEF vars, memory, turnVars, history, Fresh, InFlight, NextList
<1> QED BY <1>1, <1>2, <1>3, <1>4, <1>5, <1>6 DEF Next

LEMMA Freshness == Spec => [](TypeOK /\ LoopInv /\ Fresh)
<1>1. Init => Fresh
  BY BoundsAssumption DEF Init, Fresh, NextList, ListId
<1>2. Spec => [](TypeOK /\ LoopInv)
  BY Inductive, PTL DEF IndInv
<1> QED BY <1>1, <1>2, FreshStep, PTL DEF Spec

\* A crash loses what is on its way; a restart starts on a list of the rows, when
\* nobody is.
LEMMA RestartEffects ==
  ASSUME TypeOK, Fresh, Restart
  PROVE  /\ contents' = NextList /\ NextList \in ListId
         /\ lists'[NextList] = messages
         /\ \A l \in ListId \ {NextList} : lists'[l] = lists[l]
         /\ \A t \in Turn : ~InFlight(t) /\ pc'[t] = pc[t]
         /\ UNCHANGED <<messages, executions, clearing, pc, list, wiped, stale>>
BY BoundsAssumption DEF Restart, Fresh, TypeOK, NextList, ListId, disk, turnVars, history

LEMMA NoResponseOnDisk ==
  ASSUME TypeOK, NEW i \in DOMAIN messages PROVE messages[i].role \notin {"call", "response"}
<1>1. messages[i] \in Message
  BY DEF TypeOK
<1> QED BY <1>1 DEF Message

(***************************************************************************)
(* As long as requests and clears have come one by one.                    *)
(***************************************************************************)

LEMMA StillAlone ==
  ASSUME ~overlapped', [Next]_vars
  PROVE  /\ ~overlapped
         /\ \A t \in Turn : Submit(t) => Alone
         /\ ClearDisk => Alone
<1>1. ASSUME NEW t \in Turn, Submit(t) PROVE ~overlapped /\ Alone
  BY <1>1 DEF Submit
<1>2. ASSUME ClearDisk PROVE ~overlapped /\ Alone
  BY <1>2 DEF ClearDisk
<1>3. ASSUME NEW t \in Turn, Proceed(t) \/ DbError(t) PROVE overlapped' = overlapped
  <2> USE DEF history
  <2>1. CASE SaveUser(t) \/ Begin(t) \/ Propose(t) \/ Conclude(t) \/ LLMFails(t)
    BY <2>1 DEF SaveUser, Begin, Propose, Conclude, LLMFails
  <2>2. CASE SkipUnknown(t) \/ ExecuteTool(t) \/ ToolRecorded(t) \/ ToolReturns(t) \/ Respond(t)
    BY <2>2 DEF SkipUnknown, ExecuteTool, ToolRecorded, ToolReturns, Respond
  <2>3. CASE \/ SaveAnswer(t) \/ SaveNothingAsAnswer(t) \/ CountUsage(t) \/ SaveUsage(t)
             \/ SaveFailure(t) \/ DbError(t)
    BY <2>3 DEF SaveAnswer, SaveNothingAsAnswer, CountUsage, SaveUsage, SaveFailure, DbError
  <2> QED BY <1>3, <2>1, <2>2, <2>3 DEF Proceed
<1>4. CASE ClearMemory \/ Crash \/ Restart \/ UNCHANGED vars
  <2>1. ~overlapped
    BY <1>4 DEF ClearMemory, Crash, Restart, vars, history
  <2> QED BY <1>1, <1>2, <2>1
<1> QED BY <1>1, <1>2, <1>3, <1>4 DEF Next

LEMMA OneByOneStep == ~overlapped' /\ TypeOK /\ Fresh /\ OneByOne /\ [Next]_vars => OneByOne'
<1> SUFFICES ASSUME ~overlapped', TypeOK, Fresh, OneByOne, [Next]_vars PROVE OneByOne'
  OBVIOUS
<1>1. ASSUME NEW t \in Turn, Submit(t) \/ Proceed(t) \/ DbError(t) PROVE OneByOne'
  <2>1. ~clearing /\ \A u \in Turn \ {t} : ~InFlight(u)
    BY <1>1, StillAlone, TurnEffects DEF OneByOne, Alone
  <2>2. \A u \in Turn \ {t} : ~InFlight(u)'
    BY <1>1, <2>1, TurnEffects DEF InFlight
  <2>3. \A u \in Turn : pc'[u] \in Looping => u = t
    BY <2>2 DEF InFlight, Looping, Ended
  <2>4. pc'[t] \in Looping => list'[t] = contents'
    BY <1>1, TurnEffects DEF OneByOne
  <2>5. t \notin wiped
    <3>1. CASE InFlight(t)
      BY <3>1 DEF OneByOne, InFlight
    <3>2. CASE Submit(t)
      BY <3>2 DEF Submit, Goto, Fresh
    <3> QED BY <1>1, <3>1, <3>2, TurnEffects
  <2>6. \A u \in wiped : pc'[u] \in Ended
    BY <1>1, <2>5, TurnEffects DEF OneByOne, TypeOK
  <2> QED BY <1>1, <2>1, <2>2, <2>3, <2>4, <2>6, TurnEffects DEF OneByOne
<1>2. CASE ClearDisk
  <2>1. UNCHANGED <<pc, list, contents>> /\ wiped' = {t \in Turn : pc[t] # "idle"}
        /\ \A t \in Turn : ~InFlight(t)
    BY <1>2, StillAlone DEF ClearDisk, turnVars, Alone
  <2> QED BY <2>1 DEF OneByOne, InFlight
<1>3. CASE ClearMemory
  <2>1. clearing /\ UNCHANGED <<pc, list, wiped>> /\ ~clearing'
    BY <1>3 DEF ClearMemory, turnVars
  <2> QED BY <2>1 DEF OneByOne, InFlight, Looping, Ended
<1>4. CASE Crash
  <2>1. /\ ~clearing' /\ UNCHANGED <<list, contents, wiped>>
        /\ \A t \in Turn : pc'[t] = IF InFlight(t) THEN "lost" ELSE pc[t]
    BY <1>4 DEF Crash, turnVars, TypeOK
  <2>2. \A t \in Turn : ~InFlight(t)' /\ pc'[t] \notin Looping
    BY <2>1 DEF InFlight, Ended, Looping
  <2>3. \A t \in wiped : pc'[t] \in Ended
    BY <2>1 DEF OneByOne, Ended, TypeOK
  <2> QED BY <2>1, <2>2, <2>3 DEF OneByOne
<1>5. CASE Restart
  <2>1. \A t \in Turn : pc[t] \notin Looping
    BY <1>5, RestartEffects DEF InFlight, Looping, Ended
  <2> QED BY <1>5, <2>1, RestartEffects DEF OneByOne, InFlight
<1>6. CASE UNCHANGED vars
  BY <1>6 DEF vars, memory, turnVars, history, OneByOne, InFlight
<1> QED BY <1>1, <1>2, <1>3, <1>4, <1>5, <1>6 DEF Next

\* What an append adds to the list that is app.state.contents: one entry, of a
\* turn that no clear has wiped, if anything.
LEMMA ContentsEffects ==
  ASSUME TypeOK, Fresh, OneByOne, NEW t \in Turn, Submit(t) \/ Proceed(t) \/ DbError(t)
  PROVE  /\ t \notin wiped
         /\ contents' = contents
         /\ lists'[contents] = lists[contents]
            \/ \E role \in {"user", "model", "empty", "call", "response"} :
                 /\ lists'[contents] = Append(lists[contents], [role |-> role, turn |-> t])
                 /\ role = "response" => Respond(t)
<1>1. t \notin wiped
  <2>1. CASE InFlight(t)
    BY <2>1 DEF OneByOne, InFlight
  <2>2. CASE Submit(t)
    BY <2>2 DEF Submit, Goto, Fresh
  <2> QED BY <2>1, <2>2, TurnEffects
<1>2. Propose(t) \/ Conclude(t) \/ Respond(t) => list[t] = contents
  BY DEF Propose, Conclude, Respond, Goto, OneByOne, Looping
<1>3. contents' = contents
  BY <1>2, TurnEffects
<1>4. ASSUME NEW role, AppendTo(contents, role, t)
      PROVE  lists'[contents] = Append(lists[contents], [role |-> role, turn |-> t])
  BY <1>4 DEF AppendTo, TypeOK
<1> QED BY <1>1, <1>2, <1>3, <1>4, ListEffects

LEMMA WipedStep ==
  ~overlapped' /\ TypeOK /\ LoopInv /\ Fresh /\ OneByOne /\ Wiped /\ [Next]_vars => Wiped'
<1> SUFFICES ASSUME ~overlapped', TypeOK, LoopInv, Fresh, OneByOne, Wiped, [Next]_vars PROVE Wiped'
  OBVIOUS
<1>1. ASSUME NEW t \in Turn, Submit(t) \/ Proceed(t) \/ DbError(t) PROVE Wiped'
  <2>0. t \notin wiped /\ contents' = contents /\ UNCHANGED <<wiped, stale>>
        /\ messages \in Seq(Message) /\ lists[contents] \in Seq(Entry) /\ stale \subseteq wiped
    BY <1>1, ContentsEffects, TurnEffects DEF TypeOK, Fresh
  <2>1. \A w \in wiped : w \notin executions'
    BY <1>1, <2>0, TurnEffects DEF Wiped
  <2>2. ASSUME NEW w \in wiped, NEW role \in {"user", "model"}
        PROVE  ~Holds(messages', role, w)
    <3>0. ~Holds(messages, role, w) /\ w # t
      BY <2>0 DEF Wiped
    <3>1. ASSUME NEW r \in {"user", "model"}, messages' = Append(messages, [role |-> r, turn |-> t])
          PROVE  ~Holds(messages', role, w)
      <4>1. [role |-> r, turn |-> t] \in Message
        BY DEF Message
      <4> QED BY <2>0, <3>0, <3>1, <4>1, AppendHolds
    <3> QED BY <1>1, <3>0, <3>1, MessageEffects
  <2>3. ASSUME NEW w \in stale, NEW role \in {"user", "model"}
        PROVE  ~Holds(lists'[contents], role, w)
    <3>0. ~Holds(lists[contents], role, w) /\ w # t
      BY <2>0 DEF Wiped
    <3>1. ASSUME NEW r \in {"user", "model", "empty", "call", "response"},
                 lists'[contents] = Append(lists[contents], [role |-> r, turn |-> t])
          PROVE  ~Holds(lists'[contents], role, w)
      <4>1. [role |-> r, turn |-> t] \in Entry
        BY DEF Entry
      <4> QED BY <2>0, <3>0, <3>1, <4>1, AppendHolds
    <3> QED BY <1>1, <3>0, <3>1, ContentsEffects
  <2> QED BY <2>0, <2>1, <2>2, <2>3 DEF Wiped, Holds
<1>2. CASE ClearDisk
  <2>1. messages' = <<>> /\ executions' = {} /\ UNCHANGED <<stale, lists, contents>>
    BY <1>2 DEF ClearDisk
  <2> QED BY <2>1 DEF Wiped, Holds
<1>3. CASE ClearMemory
  <2>1. /\ contents' = NextList + 1 /\ stale' = wiped
        /\ UNCHANGED <<messages, executions, wiped, lists>>
    BY <1>3 DEF ClearMemory, disk
  <2>2. NextList + 1 \in ListId /\ NextList + 1 > NextList
    BY <1>3, BoundsAssumption DEF ClearMemory, LoopInv, TypeOK, NextList, ListId
  <2>3. lists[NextList + 1] = <<>>
    BY <2>2 DEF Fresh
  <2> QED BY <2>1, <2>3 DEF Wiped, Holds
<1>4. CASE Crash \/ UNCHANGED vars
  BY <1>4 DEF Crash, vars, disk, memory, history, Wiped, Holds
<1>5. CASE Restart
  <2>1. UNCHANGED <<messages, executions, wiped, stale>> /\ lists'[contents'] = messages
    BY <1>5, RestartEffects
  <2> QED BY <2>1 DEF Wiped, Holds, Fresh
<1> QED BY <1>1, <1>2, <1>3, <1>4, <1>5 DEF Next

LEMMA CallIsLastStep ==
  ~overlapped' /\ TypeOK /\ Fresh /\ OneByOne /\ CallIsLast /\ [Next]_vars => CallIsLast'
<1> SUFFICES ASSUME ~overlapped', TypeOK, Fresh, OneByOne, CallIsLast, [Next]_vars,
                    NEW u \in Turn, pc'[u] \in Acting
             PROVE  /\ Len(lists'[contents']) > 0
                    /\ lists'[contents'][Len(lists'[contents'])] = [role |-> "call", turn |-> u]
  BY DEF CallIsLast
<1>1. ASSUME NEW t \in Turn, Submit(t) \/ Proceed(t) \/ DbError(t), t = u PROVE
        /\ Len(lists'[contents']) > 0
        /\ lists'[contents'][Len(lists'[contents'])] = [role |-> "call", turn |-> u]
  <2>1. contents' = contents /\ lists[contents] \in Seq(Entry)
    BY <1>1, ContentsEffects DEF TypeOK
  <2>2. CASE Propose(t)
    <3>1. list[t] = contents
      BY <2>2 DEF Propose, Goto, OneByOne, Looping
    <3>2. lists'[contents] = Append(lists[contents], [role |-> "call", turn |-> t])
      BY <2>2, <3>1 DEF Propose, AppendTo, TypeOK
    <3>3. [role |-> "call", turn |-> t] \in Entry
      BY DEF Entry
    <3> QED BY <1>1, <2>1, <3>2, <3>3
  <2>3. CASE pc[t] \in Acting /\ lists' = lists
    BY <1>1, <2>1, <2>3 DEF CallIsLast
  <2> QED BY <1>1, <2>2, <2>3, TurnEffects
<1>2. ASSUME NEW t \in Turn, Submit(t) \/ Proceed(t) \/ DbError(t), t # u PROVE FALSE
  <2>1. ~InFlight(u)
    BY <1>2, StillAlone, TurnEffects DEF OneByOne, Alone
  <2>2. pc'[u] = pc[u]
    BY <1>2, TurnEffects
  <2> QED BY <2>1, <2>2 DEF InFlight, Acting, Ended
<1>3. CASE ClearDisk \/ ClearMemory \/ Restart \/ Crash
  <2>1. CASE ClearDisk
    BY <2>1, StillAlone DEF ClearDisk, Alone, turnVars, InFlight, Ended, Acting
  <2>2. CASE ClearMemory
    BY <2>2 DEF ClearMemory, OneByOne, turnVars, InFlight, Ended, Acting
  <2>3. CASE Restart
    BY <2>3, RestartEffects DEF InFlight, Ended, Acting
  <2>4. CASE Crash
    BY <2>4 DEF Crash, InFlight, Ended, Acting
  <2> QED BY <1>3, <2>1, <2>2, <2>3, <2>4
<1>4. CASE UNCHANGED vars
  BY <1>4 DEF vars, memory, turnVars, CallIsLast
<1> QED BY <1>1, <1>2, <1>3, <1>4 DEF Next

LEMMA ResponsesStep ==
  ~overlapped' /\ TypeOK /\ LoopInv /\ Fresh /\ OneByOne /\ CallIsLast /\ ResponsesFollowCalls
  /\ [Next]_vars => ResponsesFollowCalls'
<1> SUFFICES ASSUME ~overlapped', TypeOK, LoopInv, Fresh, OneByOne, CallIsLast,
                    ResponsesFollowCalls, [Next]_vars
             PROVE  ResponsesFollowCalls'
  OBVIOUS
<1> DEFINE old == lists[contents]
           new == lists'[contents']
           Follow(entries) == \A i \in DOMAIN entries : entries[i].role = "response" =>
                                i > 1 /\ entries[i - 1] = [entries[i] EXCEPT !.role = "call"]
<1>0. old \in Seq(Entry) /\ Follow(old) /\ (Follow(new) => ResponsesFollowCalls')
  BY StillAlone DEF TypeOK, ResponsesFollowCalls
<1>1. ASSUME NEW t \in Turn, Submit(t) \/ Proceed(t) \/ DbError(t) PROVE Follow(new)
  <2>1. CASE new = old
    BY <1>0, <2>1
  <2>2. ASSUME NEW role \in {"user", "model", "empty", "call", "response"},
               new = Append(old, [role |-> role, turn |-> t]),
               role = "response" => Respond(t)
        PROVE  Follow(new)
    <3>1. [role |-> role, turn |-> t] \in Entry
      BY DEF Entry
    <3>2. /\ DOMAIN new = 1..(Len(old) + 1) /\ DOMAIN old = 1..Len(old) /\ Len(old) \in Nat
          /\ new[Len(old) + 1] = [role |-> role, turn |-> t]
          /\ \A i \in 1..Len(old) : new[i] = old[i]
      BY <1>0, <2>2, <3>1
    <3>3. role = "response" => Len(old) > 0 /\ old[Len(old)] = [role |-> "call", turn |-> t]
      BY <2>2 DEF Respond, Goto, Acting, CallIsLast
    <3> HIDE DEF old, new
    <3>4. ASSUME NEW i \in DOMAIN new, new[i].role = "response"
          PROVE  i > 1 /\ new[i - 1] = [new[i] EXCEPT !.role = "call"]
      <4>1. CASE i \in DOMAIN old
        BY <1>0, <3>2, <3>4, <4>1
      <4>2. CASE i = Len(old) + 1
        BY <3>2, <3>3, <3>4, <4>2
      <4> QED BY <3>2, <4>1, <4>2
    <3> QED BY <3>4
  <2> QED BY <1>1, <2>1, <2>2, ContentsEffects
<1>2. CASE ClearDisk \/ Crash \/ UNCHANGED vars
  BY <1>0, <1>2 DEF ClearDisk, Crash, vars, memory
<1>3. CASE ClearMemory
  <2>1. contents' = NextList + 1 /\ lists' = lists
    BY <1>3 DEF ClearMemory
  <2>2. NextList + 1 \in ListId /\ NextList + 1 > NextList
    BY <1>3, BoundsAssumption DEF ClearMemory, LoopInv, TypeOK, NextList, ListId
  <2>3. new = <<>>
    BY <2>1, <2>2 DEF Fresh
  <2> QED BY <1>0, <2>3
<1>4. CASE Restart
  <2>1. new = messages
    BY <1>4, RestartEffects
  <2> QED BY <1>0, <2>1, NoResponseOnDisk
<1> QED BY <1>0, <1>1, <1>2, <1>3, <1>4 DEF Next

LEMMA SerialInvariant == Spec => [](TypeOK /\ LoopInv /\ Fresh /\ (~overlapped => SerialInv))
<1>1. Init => SerialInv
  <2>1. Init => lists[contents] = <<>>
    BY BoundsAssumption DEF Init, ListId
  <2> QED BY <2>1 DEF Init, SerialInv, OneByOne, Wiped, CallIsLast, ResponsesFollowCalls, Holds,
                      InFlight, Ended, Looping, Acting
<1>2. TypeOK /\ LoopInv /\ Fresh /\ (~overlapped => SerialInv) /\ [Next]_vars
      => (~overlapped => SerialInv)'
  <2> SUFFICES ASSUME TypeOK, LoopInv, Fresh, ~overlapped => SerialInv, [Next]_vars, ~overlapped'
               PROVE  SerialInv'
    OBVIOUS
  <2>1. OneByOne /\ Wiped /\ CallIsLast /\ ResponsesFollowCalls
    BY StillAlone DEF SerialInv
  <2> QED BY <2>1, OneByOneStep, WipedStep, CallIsLastStep, ResponsesStep DEF SerialInv
<1> QED BY <1>1, <1>2, Freshness, PTL DEF Spec

\* Nothing comes back of what a clear has wiped, while no requests or clears have
\* overlapped; see UndisturbedClearIsFinal.
THEOREM NothingComesBack == Spec => []UndisturbedClearIsFinal
<1>1. Fresh /\ (~overlapped => SerialInv) => UndisturbedClearIsFinal
  BY DEF Fresh, SerialInv, Wiped, ClearIsFinal, UndisturbedClearIsFinal
<1> QED BY <1>1, SerialInvariant, PTL

\* Each result directly follows its call, while no requests or clears have
\* overlapped; see ResponsesFollowCalls.
THEOREM ResponsesAreInPlace == Spec => []ResponsesFollowCalls
<1>1. (~overlapped => SerialInv) => ResponsesFollowCalls
  BY DEF SerialInv, ResponsesFollowCalls
<1> QED BY <1>1, SerialInvariant, PTL

-----------------------------------------------------------------------------
(***************************************************************************)
(* When they overlap.                                                      *)
(***************************************************************************)

LEMMA AppendOwn ==
  ASSUME NEW s \in Seq(Entry), NEW e \in Entry, NEW t \in Turn
  PROVE  /\ \A n \in 0..Len(s) : OwnCallIsLast(Append(s, e), t, n) <=> OwnCallIsLast(s, t, n)
         /\ e = [role |-> "call", turn |-> t] => OwnCallIsLast(Append(s, e), t, Len(Append(s, e)))
         /\ OwnCallIsLast(s, t, Len(s)) /\ (e.turn # t \/ e.role \notin {"call", "response"})
            => OwnCallIsLast(Append(s, e), t, Len(Append(s, e)))
<1> DEFINE a == Append(s, e)
           n == Len(s)
<1>1. /\ Len(a) = n + 1 /\ n \in Nat
      /\ a[n + 1] = e
      /\ \A i \in 1..n : a[i] = s[i]
  OBVIOUS
<1> HIDE DEF a, n
<1>2. ASSUME NEW m \in 0..n PROVE OwnCallIsLast(a, t, m) <=> OwnCallIsLast(s, t, m)
  BY <1>1 DEF OwnCallIsLast
<1>3. ASSUME e = [role |-> "call", turn |-> t] PROVE OwnCallIsLast(a, t, Len(a))
  BY <1>1, <1>3 DEF OwnCallIsLast
<1>4. ASSUME OwnCallIsLast(s, t, n), e.turn # t \/ e.role \notin {"call", "response"}
      PROVE  OwnCallIsLast(a, t, Len(a))
  <2>1. PICK j \in 1..n :
          /\ s[j] = [role |-> "call", turn |-> t]
          /\ \A k \in (j + 1)..n : s[k].turn = t => s[k].role \notin {"call", "response"}
    BY <1>4 DEF OwnCallIsLast
  <2>2. \A k \in (j + 1)..(n + 1) : a[k].turn = t => a[k].role \notin {"call", "response"}
    <3> SUFFICES ASSUME NEW k \in (j + 1)..(n + 1), a[k].turn = t
                 PROVE  a[k].role \notin {"call", "response"}
      OBVIOUS
    <3>1. CASE k = n + 1
      BY <1>1, <1>4, <3>1
    <3>2. CASE k # n + 1
      <4>1. k \in (j + 1)..n /\ k \in 1..n
        BY <1>1, <3>2
      <4> QED BY <1>1, <2>1, <4>1
    <3> QED BY <3>1, <3>2
  <2>3. j \in 1..(n + 1) /\ a[j] = [role |-> "call", turn |-> t]
    BY <1>1, <2>1
  <2> QED BY <1>1, <2>2, <2>3 DEF OwnCallIsLast
<1> QED BY <1>2, <1>3, <1>4 DEF a, n

OwnFollow(s, t) ==
    \A i \in DOMAIN s : s[i] = [role |-> "response", turn |-> t] => OwnCallIsLast(s, t, i - 1)

LEMMA AppendFollow ==
  ASSUME NEW s \in Seq(Entry), NEW e \in Entry, NEW t \in Turn, OwnFollow(s, t),
         e = [role |-> "response", turn |-> t] => OwnCallIsLast(s, t, Len(s))
  PROVE  OwnFollow(Append(s, e), t)
<1> DEFINE a == Append(s, e)
<1>1. /\ DOMAIN a = 1..(Len(s) + 1) /\ DOMAIN s = 1..Len(s) /\ Len(s) \in Nat
      /\ a[Len(s) + 1] = e
      /\ \A i \in 1..Len(s) : a[i] = s[i]
  OBVIOUS
<1>2. \A n \in 0..Len(s) : OwnCallIsLast(a, t, n) <=> OwnCallIsLast(s, t, n)
  BY AppendOwn
<1> HIDE DEF a
<1>3. ASSUME NEW i \in DOMAIN a, a[i] = [role |-> "response", turn |-> t]
      PROVE  OwnCallIsLast(a, t, i - 1)
  <2>1. i - 1 \in 0..Len(s) /\ (i \in 1..Len(s) \/ i = Len(s) + 1)
    BY <1>1
  <2>2. OwnCallIsLast(s, t, i - 1)
    BY <1>1, <1>3, <2>1 DEF OwnFollow
  <2> QED BY <1>2, <2>1, <2>2
<1> QED BY <1>3 DEF OwnFollow, a

LEMMA OwnStep == TypeOK /\ Fresh /\ OwnInv /\ [Next]_vars => OwnInv'
<1> SUFFICES ASSUME TypeOK, Fresh, OwnInv, [Next]_vars PROVE OwnInv'
  OBVIOUS
<1> DEFINE Entries == \A l \in ListId, u \in Turn : OwnFollow(lists[l], u)
           Waits == \A u \in Turn : pc[u] \in Acting =>
                      OwnCallIsLast(lists[list[u]], u, Len(lists[list[u]]))
<1>0. /\ Entries /\ Waits
      /\ Entries' /\ Waits' => OwnInv'
      /\ lists \in [ListId -> Seq(Entry)] /\ list \in [Turn -> ListId]
  BY DEF OwnInv, OwnResponsesFollowCalls, OwnFollow, TypeOK
<1>1. ASSUME NEW t \in Turn, Submit(t) \/ Proceed(t) \/ DbError(t) PROVE OwnInv'
  <2>1. /\ \A u \in Turn : pc'[u] \in Acting => list'[u] = list[u]
        /\ \A u \in Turn : pc'[u] \in Acting => pc[u] \in Acting \/ (u = t /\ Propose(t))
    BY <1>1, TurnEffects DEF Propose
  <2>2. CASE lists' = lists /\ ~Propose(t)
    <3>1. Entries'
      BY <1>0, <2>2
    <3>2. Waits'
      BY <1>0, <2>1, <2>2
    <3> QED BY <1>0, <3>1, <3>2
  <2>3. ASSUME NEW l \in ListId, NEW role \in {"user", "model", "empty", "call", "response"},
               AppendTo(l, role, t),
               role = "response" => pc[t] \in Acting /\ l = list[t],
               pc'[t] \in Acting => role = "call" /\ l = list[t]
        PROVE  OwnInv'
    <3> DEFINE e == [role |-> role, turn |-> t]
    <3>1. /\ e \in Entry /\ lists[l] \in Seq(Entry)
          /\ lists'[l] = Append(lists[l], e)
          /\ \A k \in ListId \ {l} : lists'[k] = lists[k]
          /\ e.turn = t /\ e.role = role
      BY <1>0, <2>3 DEF AppendTo, Entry
    <3>2. ASSUME NEW k \in ListId, NEW u \in Turn PROVE OwnFollow(lists'[k], u)
      <4>1. e = [role |-> "response", turn |-> u] => OwnCallIsLast(lists[l], u, Len(lists[l]))
        BY <1>0, <2>3, <3>1
      <4>2. OwnFollow(lists[l], u) /\ OwnFollow(lists[k], u)
        BY <1>0
      <4> HIDE DEF e
      <4>3. OwnFollow(Append(lists[l], e), u)
        BY <3>1, <4>1, <4>2, AppendFollow
      <4> QED BY <3>1, <4>2, <4>3
    <3>3. ASSUME NEW u \in Turn, pc'[u] \in Acting
          PROVE  OwnCallIsLast(lists'[list'[u]], u, Len(lists'[list'[u]]))
      <4>1. list'[u] = list[u] /\ list[u] \in ListId
        BY <1>0, <2>1, <3>3
      <4>2. CASE u = t
        <5>1. e = [role |-> "call", turn |-> u] /\ list[u] = l
          BY <2>3, <3>3, <4>2
        <5> HIDE DEF e
        <5>2. OwnCallIsLast(Append(lists[l], e), u, Len(Append(lists[l], e)))
          BY <3>1, <5>1, AppendOwn
        <5>3. lists'[list'[u]] = Append(lists[l], e)
          BY <3>1, <4>1, <5>1
        <5> QED BY <5>2, <5>3, Zenon
      <4>3. CASE u # t
        <5>1. OwnCallIsLast(lists[list[u]], u, Len(lists[list[u]]))
          BY <1>0, <2>1, <3>3, <4>3
        <5> HIDE DEF e
        <5>2. CASE list[u] = l
          <6>1. OwnCallIsLast(Append(lists[l], e), u, Len(Append(lists[l], e)))
            BY <3>1, <4>3, <5>1, <5>2, AppendOwn
          <6>2. lists'[list'[u]] = Append(lists[l], e)
            BY <3>1, <4>1, <5>2
          <6> QED BY <6>1, <6>2, Zenon
        <5>3. CASE list[u] # l
          BY <3>1, <4>1, <5>1, <5>3
        <5> QED BY <5>2, <5>3
      <4> QED BY <4>2, <4>3
    <3>4. Entries' /\ Waits'
      BY <3>2, <3>3
    <3> QED BY <1>0, <3>4
  <2>4. CASE Submit(t)
    <3>1. pc'[t] = "saving" /\ contents \in ListId /\ AppendTo(contents, "user", t)
      BY <2>4 DEF Submit, Goto, TypeOK
    <3> QED BY <2>3, <3>1 DEF Acting
  <2>5. CASE Propose(t)
    BY <2>3, <2>5 DEF Propose, TypeOK
  <2>6. CASE Conclude(t)
    <3>1. PICK role \in {"model", "empty", "call"} : AppendTo(list[t], role, t)
      BY <2>6 DEF Conclude
    <3>2. pc'[t] \in {"answering", "answering nothing"} /\ list[t] \in ListId
      BY <2>6 DEF Conclude, Goto, TypeOK
    <3> QED BY <2>3, <3>1, <3>2 DEF Acting
  <2>7. CASE Respond(t)
    BY <2>3, <2>7 DEF Respond, Goto, TypeOK, Acting
  <2> QED BY <1>1, <2>2, <2>4, <2>5, <2>6, <2>7, ListEffects
<1>2. CASE ClearDisk \/ ClearMemory \/ UNCHANGED vars
  <2>1. UNCHANGED <<pc, list, lists>>
    BY <1>2 DEF ClearDisk, ClearMemory, vars, memory, turnVars
  <2> QED BY <1>0, <2>1
<1>3. CASE Crash
  <2>1. UNCHANGED <<list, lists>> /\ \A t \in Turn : pc'[t] \notin Acting
    BY <1>3 DEF Crash, InFlight, Ended, Acting
  <2>2. Entries' /\ Waits'
    BY <1>0, <2>1
  <2> QED BY <1>0, <2>2
<1>4. CASE Restart
  <2>1. \A t \in Turn : pc'[t] \notin Acting
    BY <1>4, RestartEffects DEF InFlight, Ended, Acting
  <2>2. \A t \in Turn : OwnFollow(messages, t)
    BY NoResponseOnDisk DEF OwnFollow
  <2>3. Entries' /\ Waits'
    BY <1>0, <1>4, <2>1, <2>2, RestartEffects
  <2> QED BY <1>0, <2>3
<1> QED BY <1>1, <1>2, <1>3, <1>4 DEF Next

\* Results follow their calls in the list of the calls, however turns overlap;
\* see OwnResponsesFollowCalls.
THEOREM ResponsesAreTheirTurns == Spec => []OwnResponsesFollowCalls
<1>1. Init => OwnInv
  BY BoundsAssumption DEF Init, OwnInv, OwnResponsesFollowCalls, Acting, ListId
<1>2. OwnInv => OwnResponsesFollowCalls
  BY DEF OwnInv
<1> QED BY <1>1, <1>2, OwnStep, Freshness, PTL DEF Spec

-----------------------------------------------------------------------------
(***************************************************************************)
(* Memory and disk, as long as requests have come one by one.              *)
(***************************************************************************)

AnsweredUpTo(entries, n) ==
    \A i \in 1..n : entries[i].role = "call" =>
        i < n /\ entries[i + 1] = [entries[i] EXCEPT !.role = "response"]

\* The rows are the texts of the list, but for the text that is about to be
\* saved, and as long as the calls of the list have their results, but for those
\* that are under way.
Mirrors(where, entries, rows) ==
    /\ \A t \in Turn :
         /\ where[t] = "saving" /\ AllAnswered(entries) =>
              SameTexts(entries, Append(rows, [role |-> "user", turn |-> t]))
         /\ where[t] = "answering" /\ AllAnswered(entries) =>
              SameTexts(entries, Append(rows, [role |-> "model", turn |-> t]))
         /\ where[t] \in Acting /\ AnsweredUpTo(entries, Len(entries) - 1) =>
              SameTexts(entries, rows)
    /\ (\A t \in Turn : where[t] \notin Acting \cup {"saving", "answering"}) =>
         (AllAnswered(entries) => SameTexts(entries, rows))

Mirrored == Mirrors(pc, lists[contents], messages)

MirrorInv ==
    /\ clearing => messages = <<>>
    /\ process = "up" /\ ~clearing /\ faults = 0 => Mirrored

LEMMA TextsAreFew ==
  ASSUME NEW s, NEW n \in Nat
  PROVE  IsFiniteSet(TextsUpTo(s, n)) /\ Cardinality(TextsUpTo(s, n)) \in Nat
<1>1. IsFiniteSet(1..n)
  BY FS_Interval
<1> QED BY <1>1, FS_Subset, FS_CardinalityType DEF TextsUpTo

\* What is appended comes after the texts there are.
LEMMA AppendTexts ==
  ASSUME NEW s \in Seq(Entry), NEW e \in Entry
  PROVE  /\ \A n \in 0..Len(s) : TextsUpTo(Append(s, e), n) = TextsUpTo(s, n)
         /\ TextsUpTo(Append(s, e), Len(s) + 1) =
              TextsUpTo(s, Len(s)) \cup
                (IF e.role \in {"user", "model"} THEN {Len(s) + 1} ELSE {})
<1> DEFINE a == Append(s, e)
<1>1. /\ Len(a) = Len(s) + 1 /\ Len(s) \in Nat
      /\ a[Len(s) + 1] = e
      /\ \A i \in 1..Len(s) : a[i] = s[i]
  OBVIOUS
<1> HIDE DEF a
<1>2. ASSUME NEW n \in 0..Len(s) PROVE TextsUpTo(a, n) = TextsUpTo(s, n)
  <2>1. \A i \in 1..n : i \in 1..Len(s) /\ a[i] = s[i]
    BY <1>1
  <2> QED BY <2>1 DEF TextsUpTo
<1>3. TextsUpTo(a, Len(s) + 1) =
        TextsUpTo(s, Len(s)) \cup (IF e.role \in {"user", "model"} THEN {Len(s) + 1} ELSE {})
  <2>1. 1..(Len(s) + 1) = 1..Len(s) \cup {Len(s) + 1}
    BY <1>1
  <2> QED BY <1>1, <2>1 DEF TextsUpTo
<1> QED BY <1>2, <1>3 DEF a

LEMMA SameTextsCall ==
  ASSUME NEW s \in Seq(Entry), NEW e \in Entry, e.role \notin {"user", "model"},
         NEW rows, SameTexts(s, rows)
  PROVE  SameTexts(Append(s, e), rows)
<1>1. /\ Len(Append(s, e)) = Len(s) + 1 /\ Len(s) \in Nat
      /\ \A i \in 1..Len(s) : Append(s, e)[i] = s[i]
  OBVIOUS
<1>2. TextsUpTo(Append(s, e), Len(s) + 1) = TextsUpTo(s, Len(s))
  BY AppendTexts
<1>3. ASSUME NEW i \in TextsUpTo(s, Len(s))
      PROVE  i \in 1..Len(s) /\ TextsUpTo(Append(s, e), i) = TextsUpTo(s, i)
  BY <1>1, AppendTexts DEF TextsUpTo
<1> QED BY <1>1, <1>2, <1>3 DEF SameTexts

LEMMA SameTextsText ==
  ASSUME NEW s \in Seq(Entry), NEW e \in Entry, e.role \in {"user", "model"},
         NEW rows \in Seq(Message), e \in Message, SameTexts(s, rows)
  PROVE  SameTexts(Append(s, e), Append(rows, e))
<1> DEFINE a == Append(s, e)
           b == Append(rows, e)
           T(i) == TextsUpTo(s, i)
<1>1. /\ Len(a) = Len(s) + 1 /\ Len(s) \in Nat
      /\ a[Len(s) + 1] = e
      /\ \A i \in 1..Len(s) : a[i] = s[i]
      /\ Len(b) = Len(rows) + 1 /\ Len(rows) \in Nat
      /\ b[Len(rows) + 1] = e
      /\ \A i \in 1..Len(rows) : b[i] = rows[i]
  OBVIOUS
<1>2. /\ TextsUpTo(a, Len(s) + 1) = T(Len(s)) \cup {Len(s) + 1}
      /\ \A n \in 0..Len(s) : TextsUpTo(a, n) = T(n)
  BY AppendTexts
<1>3. /\ Cardinality(T(Len(s))) = Len(rows)
      /\ \A i \in T(Len(s)) : s[i] = rows[Cardinality(T(i))]
  BY DEF SameTexts
<1> HIDE DEF a, b
<1>4. Cardinality(T(Len(s)) \cup {Len(s) + 1}) = Len(rows) + 1
  <2>1. Len(s) + 1 \notin T(Len(s)) /\ IsFiniteSet(T(Len(s)))
    BY <1>1, TextsAreFew DEF TextsUpTo
  <2> QED BY <1>3, <2>1, FS_AddElement
<1>5. ASSUME NEW i \in T(Len(s)) PROVE a[i] = b[Cardinality(TextsUpTo(a, i))]
  <2>1. i \in 1..Len(s) /\ i \in 0..Len(s)
    BY <1>1 DEF TextsUpTo
  <2>2. T(i) \subseteq T(Len(s)) /\ i \in T(i)
    BY <1>1, <2>1 DEF TextsUpTo
  <2>3. Cardinality(T(i)) \in 1..Len(rows)
    <3>1. IsFiniteSet(T(Len(s))) /\ IsFiniteSet(T(i)) /\ Cardinality(T(i)) \in Nat
      BY <1>1, <2>1, TextsAreFew
    <3>2. Cardinality(T(i)) <= Len(rows)
      BY <1>3, <2>2, <3>1, FS_Subset
    <3>3. Cardinality(T(i)) # 0
      BY <2>2, <3>1, FS_EmptySet
    <3> QED BY <1>1, <3>1, <3>2, <3>3
  <2> QED BY <1>1, <1>2, <1>3, <2>1, <2>3
<1>6. a[Len(s) + 1] = b[Cardinality(TextsUpTo(a, Len(s) + 1))]
  BY <1>1, <1>2, <1>4
<1> QED BY <1>1, <1>2, <1>4, <1>5, <1>6 DEF SameTexts, a, b

LEMMA SameTextsSelf ==
  ASSUME NEW rows \in Seq(Message) PROVE SameTexts(rows, rows)
<1>1. ASSUME NEW n \in 0..Len(rows)
      PROVE  TextsUpTo(rows, n) = 1..n /\ Cardinality(TextsUpTo(rows, n)) = n
  <2>1. \A i \in 1..n : rows[i] \in Message
    OBVIOUS
  <2>2. TextsUpTo(rows, n) = 1..n
    BY <2>1 DEF TextsUpTo, Message
  <2>3. Cardinality(1..n) = n
    BY FS_Interval
  <2> QED BY <2>2, <2>3
<1>2. Len(rows) \in 0..Len(rows) /\ \A i \in 1..Len(rows) : i \in 0..Len(rows)
  OBVIOUS
<1> QED BY <1>1, <1>2 DEF SameTexts

LEMMA NoTexts == SameTexts(<<>>, <<>>)
<1>1. <<>> \in Seq(Message)
  OBVIOUS
<1> QED BY <1>1, SameTextsSelf

\* Which calls an append leaves unanswered.
LEMMA AppendAnswered ==
  ASSUME NEW s \in Seq(Entry), NEW e \in Entry
  PROVE  /\ e.role # "response" /\ AllAnswered(Append(s, e)) => AllAnswered(s)
         /\ e.role = "call" => ~AllAnswered(Append(s, e))
         /\ AnsweredUpTo(Append(s, e), Len(Append(s, e)) - 1) => AllAnswered(s)
         /\ Len(s) > 0 /\ s[Len(s)].role = "call" /\ AllAnswered(Append(s, e)) =>
              AnsweredUpTo(s, Len(s) - 1)
<1> DEFINE a == Append(s, e)
           n == Len(s)
<1>1. /\ Len(a) = n + 1 /\ DOMAIN a = 1..(n + 1) /\ DOMAIN s = 1..n /\ n \in Nat
      /\ a[n + 1] = e
      /\ \A i \in 1..n : a[i] = s[i] /\ s[i] \in Entry
      /\ Len(s) = n
  OBVIOUS
<1> HIDE DEF a, n
<1>2. ASSUME e.role # "response", AllAnswered(a) PROVE AllAnswered(s)
  <2> SUFFICES ASSUME NEW i \in 1..n, s[i].role = "call"
               PROVE  i < n /\ s[i + 1] = [s[i] EXCEPT !.role = "response"]
    BY <1>1 DEF AllAnswered
  <2>1. a[i + 1] = [s[i] EXCEPT !.role = "response"]
    BY <1>1, <1>2 DEF AllAnswered
  <2>2. a[i + 1].role = "response"
    BY <1>1, <2>1 DEF Entry
  <2>3. i # n
    BY <1>1, <1>2, <2>2
  <2> QED BY <1>1, <2>1, <2>3
<1>3. ASSUME e.role = "call" PROVE ~AllAnswered(a)
  <2>1. n + 1 \in DOMAIN a /\ a[n + 1].role = "call" /\ ~(n + 1 < Len(a))
    BY <1>1, <1>3
  <2> QED BY <2>1 DEF AllAnswered
<1>4. ASSUME AnsweredUpTo(a, Len(a) - 1) PROVE AllAnswered(s)
  BY <1>1, <1>4 DEF AllAnswered, AnsweredUpTo
<1>5. ASSUME n > 0, s[n].role = "call", AllAnswered(a) PROVE AnsweredUpTo(s, n - 1)
  <2> SUFFICES ASSUME NEW i \in 1..(n - 1), s[i].role = "call"
               PROVE  i < n - 1 /\ s[i + 1] = [s[i] EXCEPT !.role = "response"]
    BY DEF AnsweredUpTo
  <2>1. i \in 1..n /\ i + 1 \in 1..n
    BY <1>1
  <2>2. s[i + 1] = [s[i] EXCEPT !.role = "response"]
    BY <1>1, <1>5, <2>1 DEF AllAnswered
  <2>3. s[i + 1].role = "response"
    BY <1>1, <2>1, <2>2 DEF Entry
  <2>4. i + 1 # n
    BY <1>5, <2>3
  <2> QED BY <1>1, <2>2, <2>4
<1> QED BY <1>2, <1>3, <1>4, <1>5 DEF a, n

LEMMA MirrorTurnStep ==
  ASSUME ~overlapped', [Next]_vars, TypeOK, Fresh, OneByOne, OneByOne', CallIsLast, Mirrored,
         NEW t \in Turn, Submit(t) \/ Proceed(t)
  PROVE  Mirrored'
<1> DEFINE L == lists[contents]
           M == messages
           User == [role |-> "user", turn |-> t]
           Model == [role |-> "model", turn |-> t]
           Busy == Acting \cup {"saving", "answering"}
<1>0. /\ L \in Seq(Entry) /\ M \in Seq(Message) /\ contents' = contents
      /\ User \in Entry /\ Model \in Entry /\ User \in Message /\ Model \in Message
      /\ \A role \in {"empty", "call", "response"} : [role |-> role, turn |-> t] \in Entry
      /\ User.role = "user" /\ Model.role = "model"
  BY ContentsEffects DEF TypeOK, Message, Entry
<1>1. \A u \in Turn \ {t} : pc[u] \notin Busy /\ pc'[u] \notin Busy
  <2>1. \A u \in Turn \ {t} : ~InFlight(u)
    BY StillAlone, TurnEffects DEF OneByOne, Alone
  <2>2. \A u \in Turn \ {t} : pc'[u] = pc[u]
    BY TurnEffects
  <2> QED BY <2>1, <2>2 DEF InFlight, Acting, Ended
<1>2. /\ pc[t] = "saving" /\ AllAnswered(L) => SameTexts(L, Append(M, User))
      /\ pc[t] = "answering" /\ AllAnswered(L) => SameTexts(L, Append(M, Model))
      /\ pc[t] \in Acting /\ AnsweredUpTo(L, Len(L) - 1) => SameTexts(L, M)
      /\ pc[t] \notin Busy /\ AllAnswered(L) => SameTexts(L, M)
  BY <1>1 DEF Mirrored, Mirrors
<1> DEFINE Mine(p, entries, rows) ==
             /\ p = "saving" /\ AllAnswered(entries) => SameTexts(entries, Append(rows, User))
             /\ p = "answering" /\ AllAnswered(entries) => SameTexts(entries, Append(rows, Model))
             /\ p \in Acting /\ AnsweredUpTo(entries, Len(entries) - 1) => SameTexts(entries, rows)
             /\ p \notin Busy /\ AllAnswered(entries) => SameTexts(entries, rows)
<1>3. SUFFICES Mine(pc'[t], L', M')
  <2>1. ASSUME Mine(pc'[t], L', M') PROVE Mirrored'
    BY <1>1, <2>1 DEF Mirrored, Mirrors
  <2> QED BY <2>1
<1>4. ASSUME NEW role, AppendTo(contents, role, t)
      PROVE  L' = Append(L, [role |-> role, turn |-> t])
  BY <1>0, <1>4 DEF AppendTo, TypeOK
<1>5. CASE Submit(t)
  <2>1. pc[t] = "idle" /\ pc'[t] = "saving" /\ M' = M /\ L' = Append(L, User)
    BY <1>4, <1>5 DEF Submit, Goto, TypeOK, disk
  <2> HIDE DEF L, User
  <2>2. AllAnswered(Append(L, User)) => SameTexts(Append(L, User), Append(M, User))
    BY <1>0, <1>2, <2>1, AppendAnswered, SameTextsText DEF Acting
  <2> QED BY <2>1, <2>2 DEF Acting
<1>6. CASE SaveUser(t)
  <2>1. pc[t] = "saving" /\ pc'[t] = "starting" /\ M' = Append(M, User) /\ L' = L
    BY <1>0, <1>6 DEF SaveUser, Goto, TypeOK, memory
  <2> HIDE DEF L, User
  <2> QED BY <1>2, <2>1 DEF Acting
<1>7. CASE \/ Begin(t) \/ LLMFails(t) \/ SaveNothingAsAnswer(t) \/ CountUsage(t) \/ SaveUsage(t)
           \/ SaveFailure(t)
  <2>1. pc[t] \notin Busy /\ pc'[t] \notin Busy /\ M' = M /\ L' = L
    BY <1>0, <1>7 DEF Begin, LLMFails, SaveNothingAsAnswer, CountUsage, SaveUsage,
                      SaveFailure, Goto, TypeOK, memory, disk, Acting
  <2> HIDE DEF L, M
  <2> QED BY <1>2, <2>1 DEF Acting
<1>8. CASE Propose(t)
  <2>0. list[t] = contents
    BY <1>8 DEF Propose, Goto, OneByOne, Looping
  <2>1. pc[t] = "generating" /\ pc'[t] = "acting" /\ M' = M
        /\ L' = Append(L, [role |-> "call", turn |-> t])
    BY <1>4, <1>8, <2>0 DEF Propose, Goto, TypeOK, disk
  <2> DEFINE Call == [role |-> "call", turn |-> t]
  <2>2. Call \in Entry /\ Call.role = "call"
    BY <1>0
  <2> HIDE DEF L, Call
  <2>3. AnsweredUpTo(Append(L, Call), Len(Append(L, Call)) - 1) => SameTexts(Append(L, Call), M)
    BY <1>0, <1>2, <2>1, <2>2, AppendAnswered, SameTextsCall DEF Acting
  <2> QED BY <2>1, <2>3 DEF Acting, Call
<1>9. CASE Conclude(t)
  <2>0. list[t] = contents
    BY <1>9 DEF Conclude, Goto, OneByOne, Looping
  <2>1. pc[t] = "generating" /\ M' = M
        /\ \/ pc'[t] = "answering" /\ L' = Append(L, Model)
           \/ pc'[t] = "answering nothing" /\ L' = Append(L, [role |-> "empty", turn |-> t])
           \/ pc'[t] = "answering" /\ L' = Append(L, [role |-> "call", turn |-> t])
    BY <1>4, <1>9, <2>0 DEF Conclude, Goto, TypeOK, disk
  <2> DEFINE Call == [role |-> "call", turn |-> t]
             Empty == [role |-> "empty", turn |-> t]
  <2>2. Call \in Entry /\ Call.role = "call" /\ Empty \in Entry /\ Empty.role = "empty"
    BY <1>0
  <2> HIDE DEF L, Call, Empty, Model
  <2>3. AllAnswered(Append(L, Model)) => SameTexts(Append(L, Model), Append(M, Model))
    BY <1>0, <1>2, <2>1, AppendAnswered, SameTextsText DEF Acting
  <2>4. ~AllAnswered(Append(L, Call))
    BY <1>0, <2>2, AppendAnswered
  <2>5. AllAnswered(Append(L, Empty)) => SameTexts(Append(L, Empty), M)
    BY <1>0, <1>2, <2>1, <2>2, AppendAnswered, SameTextsCall DEF Acting
  <2> QED BY <2>1, <2>3, <2>4, <2>5 DEF Acting, Call, Empty
<1>10. CASE SkipUnknown(t) \/ ExecuteTool(t) \/ ToolRecorded(t) \/ ToolReturns(t)
  <2>1. pc[t] \in Acting /\ pc'[t] \in Acting /\ M' = M /\ L' = L
    BY <1>0, <1>10 DEF SkipUnknown, ExecuteTool, ToolRecorded, ToolReturns, Goto, TypeOK, memory,
                       disk, Acting
  <2> HIDE DEF L, M
  <2> QED BY <1>2, <2>1 DEF Acting
<1>11. CASE Respond(t)
  <2>0. list[t] = contents /\ Len(L) > 0 /\ L[Len(L)] = [role |-> "call", turn |-> t]
    BY <1>11 DEF Respond, Goto, OneByOne, Looping, CallIsLast, Acting
  <2>1. pc[t] \in Acting /\ pc'[t] = "generating" /\ M' = M
        /\ L' = Append(L, [role |-> "response", turn |-> t])
    BY <1>4, <1>11, <2>0 DEF Respond, Goto, TypeOK, disk, Acting
  <2> DEFINE Response == [role |-> "response", turn |-> t]
  <2>2. Response \in Entry /\ Response.role = "response" /\ L[Len(L)].role = "call"
    BY <1>0, <2>0
  <2> HIDE DEF L, Response
  <2>3. AllAnswered(Append(L, Response)) => SameTexts(Append(L, Response), M)
    BY <1>0, <1>2, <2>0, <2>1, <2>2, AppendAnswered, SameTextsCall
  <2> QED BY <2>1, <2>3 DEF Acting, Response
<1>12. CASE SaveAnswer(t)
  <2>1. pc[t] = "answering" /\ pc'[t] = "counting" /\ M' = Append(M, Model) /\ L' = L
    BY <1>0, <1>12 DEF SaveAnswer, Goto, TypeOK, memory
  <2> HIDE DEF L, Model
  <2> QED BY <1>2, <2>1 DEF Acting
<1> QED BY <1>5, <1>6, <1>7, <1>8, <1>9, <1>10, <1>11, <1>12 DEF Proceed

LEMMA MirrorStep ==
  /\ ~overlapped' /\ TypeOK /\ LoopInv /\ Fresh /\ SerialInv /\ SerialInv'
  /\ MirrorInv /\ [Next]_vars
  => MirrorInv'
<1> SUFFICES ASSUME ~overlapped', TypeOK, LoopInv, Fresh, SerialInv, SerialInv',
                    MirrorInv, [Next]_vars
             PROVE  MirrorInv'
  OBVIOUS
<1>0. OneByOne /\ OneByOne' /\ CallIsLast
  BY DEF SerialInv
<1>1. ASSUME NEW t \in Turn, Submit(t) \/ Proceed(t) PROVE MirrorInv'
  <2>1. ~clearing /\ UNCHANGED <<clearing, process, faults>> /\ process = "up"
    <3>1. ~clearing /\ process = "up"
      BY <1>0, <1>1, StillAlone, TurnEffects DEF OneByOne, Submit, Alone, Fresh, TypeOK
    <3>2. faults' = faults
      BY <1>1 DEF Submit, Proceed, SaveUser, Begin, Propose, Conclude, LLMFails, SkipUnknown,
                  ExecuteTool, ToolRecorded, ToolReturns, Respond, SaveAnswer,
                  SaveNothingAsAnswer, CountUsage, SaveUsage, SaveFailure
    <3> QED BY <1>1, <3>1, <3>2, TurnEffects
  <2> QED BY <1>0, <1>1, <2>1, MirrorTurnStep DEF MirrorInv
<1>2. ASSUME NEW t \in Turn, DbError(t) PROVE MirrorInv'
  <2>1. ~clearing /\ clearing' = clearing
    BY <1>0, <1>2, TurnEffects DEF OneByOne, DbError, InFlight, Ended
  <2>2. faults' # 0
    <3>1. faults \in 0..MaxFaults
      BY DEF TypeOK
    <3>2. faults' = faults + 1
      BY <1>2 DEF DbError
    <3> QED BY <3>1, <3>2
  <2> QED BY <2>1, <2>2 DEF MirrorInv
<1>3. CASE ClearDisk
  BY <1>3 DEF ClearDisk, MirrorInv
<1>4. CASE ClearMemory
  <2>1. contents' = NextList + 1 /\ lists' = lists /\ messages = <<>> /\ ~clearing'
        /\ UNCHANGED <<messages, pc>> /\ \A t \in Turn : ~InFlight(t)
    BY <1>0, <1>4 DEF ClearMemory, MirrorInv, disk, turnVars, OneByOne
  <2>2. NextList + 1 \in ListId /\ NextList + 1 > NextList
    BY <1>4, BoundsAssumption DEF ClearMemory, LoopInv, TypeOK, NextList, ListId
  <2>3. lists'[contents'] = <<>> /\ SameTexts(<<>>, <<>>)
    BY <2>1, <2>2, NoTexts DEF Fresh
  <2>4. Mirrored'
    BY <2>1, <2>3 DEF Mirrored, Mirrors, InFlight, Ended, Acting
  <2> QED BY <2>1, <2>4 DEF MirrorInv
<1>5. CASE Crash
  BY <1>5 DEF Crash, MirrorInv
<1>6. CASE Restart
  <2>1. lists'[contents'] = messages /\ UNCHANGED <<messages, pc, clearing>>
        /\ ~clearing /\ \A t \in Turn : ~InFlight(t)
    BY <1>6, RestartEffects DEF Fresh, Restart
  <2>2. SameTexts(messages, messages)
    BY SameTextsSelf DEF TypeOK
  <2>3. Mirrored'
    BY <2>1, <2>2 DEF Mirrored, Mirrors, InFlight, Ended, Acting
  <2> QED BY <2>1, <2>3 DEF MirrorInv
<1>7. CASE UNCHANGED vars
  BY <1>7 DEF vars, disk, memory, turnVars, MirrorInv, Mirrored
<1> QED BY <1>1, <1>2, <1>3, <1>4, <1>5, <1>6, <1>7 DEF Next

LEMMA MirrorInvariant == Spec => [](~overlapped => MirrorInv)
<1>1. Init => MirrorInv
  <2>1. Init => lists[contents] = <<>> /\ messages = <<>>
    BY BoundsAssumption DEF Init, ListId
  <2> QED BY <2>1, NoTexts DEF Init, MirrorInv, Mirrored, Mirrors, Acting
<1>2. /\ TypeOK /\ LoopInv /\ Fresh
      /\ (~overlapped => SerialInv) /\ (~overlapped => SerialInv)'
      /\ (~overlapped => MirrorInv) /\ [Next]_vars
      => (~overlapped => MirrorInv)'
  <2> SUFFICES ASSUME TypeOK, LoopInv, Fresh, ~overlapped => SerialInv, SerialInv',
                      ~overlapped => MirrorInv, [Next]_vars, ~overlapped'
               PROVE  MirrorInv'
    OBVIOUS
  <2>1. SerialInv /\ MirrorInv
    BY StillAlone
  <2> QED BY <2>1, MirrorStep
<1> QED BY <1>1, <1>2, SerialInvariant, PTL DEF Spec

\* What a restart would load is what is in memory, while no requests or clears have
\* overlapped and no commit has failed; see RestartChangesNothing.
THEOREM RestartsAreUnnoticed == Spec => []RestartChangesNothing
<1>1. (~overlapped => MirrorInv) => RestartChangesNothing
  <2>1. ASSUME Quiet PROVE \A t \in Turn : pc[t] \notin Acting \cup {"saving", "answering"}
    BY <2>1 DEF Quiet, InFlight, Acting, Ended
  <2> QED BY <2>1 DEF MirrorInv, Mirrored, Mirrors, Quiet, RestartChangesNothing
<1> QED BY <1>1, MirrorInvariant, PTL
=============================================================================
