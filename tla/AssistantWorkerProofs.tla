------------------------ MODULE AssistantWorkerProofs ------------------------
(***************************************************************************)
(* What TLAPS proves of AssistantWorker, for any number of tasks, of       *)
(* generations, of sessions and of deaths of the process.                  *)
(***************************************************************************)
EXTENDS AssistantWorker, OrderLemmas, SequenceTheorems

(***************************************************************************)
(* The inductive invariant.  What the heap and the requests name is in the *)
(* tables, the worker holds a task only while the process is up, and that  *)
(* task is running from _start_task to its last write.                     *)
(***************************************************************************)
Known == {item \in Item : \/ item.prio = -1 /\ item.id = 0
                          \/ item.prio \in Priority /\ item.id \in Id /\ Exists(item.id)}
HeapKnown == heap \in Seq(Known) /\ \A i \in req : Exists(i)

Held == wk.pc \notin {"idle", "warm"}
WorkerHolds ==
  /\ wk.pc # "idle" => Up
  /\ Held <=> wk.id # 0
  /\ Held => Exists(wk.id)
  /\ Held /\ wk.pc # "start" => task[wk.id].state = "running"

BootHolds ==
  /\ boot.pc = "interrupt" =>
       boot.id \in Id /\ task[boot.id].kind = "ask" /\ task[boot.id].state = "failed"
  /\ boot.pc = "requeue" => Running = {}

TypeInv == AssistantTypeOK /\ HeapKnown /\ WorkerHolds /\ BootHolds

(***************************************************************************)
(* Between its steps the worker's task is half written: Progress says how  *)
(* far.  While the process starts, a running task and the turn that        *)
(* reconcile_assistant is about to interrupt need not agree.               *)
(***************************************************************************)
Blank == [state |-> "streaming", answer |-> 0, clean |-> FALSE]
Progress(i) ==
  IF task[i].kind = "ask"
    THEN /\ wk.pc = "finish" => turn[i].clean
         /\ wk.pc = "task" => turn[i].state \in Answered /\ turn[i].clean
         /\ wk.pc = "failTask" => turn[i].state = "failed"
    ELSE /\ wk.pc = "task" => summary[i] = "completed"
         /\ wk.pc = "failTask" => summary[i] = "failed"

InWork(i) == i = wk.id /\ wk.pc # "start"
Unsettled(i) == ~Up /\ (task[i].state = "running" \/ (boot.pc = "interrupt" /\ boot.id = i))
Sound(i) == Exists(i) =>
  /\ InWork(i) => Progress(i)
  /\ ~InWork(i) /\ ~Unsettled(i) => Agree(i)

TurnInv ==
  /\ TypeInv
  /\ \A i \in Id : ~Exists(i) => turn[i] = Blank
  /\ \A i \in Id \ (torn \cup errored) : Sound(i)

-----------------------------------------------------------------------------
(***************************************************************************)
(* The heap: a popped item leaves a sequence of the others.                *)
(***************************************************************************)
LEMMA SeqGrows ==
  ASSUME NEW S, NEW T, S \subseteq T, NEW s \in Seq(S)
  PROVE  s \in Seq(T)
OBVIOUS

LEMMA RemoveAtType ==
  ASSUME NEW S, NEW s \in Seq(S), NEW n \in DOMAIN s
  PROVE  RemoveAt(s, n) \in Seq(S)
<1>1. n \in 1..Len(s) /\ \A k \in 1..Len(s) : s[k] \in S
  OBVIOUS
<1>2. SubSeq(s, 1, n - 1) \in Seq(S)
  BY <1>1, SubSeqProperties
<1>3. SubSeq(s, n + 1, Len(s)) \in Seq(S)
  BY <1>1, SubSeqProperties
<1>. QED  BY <1>2, <1>3, ConcatProperties DEF RemoveAt

-----------------------------------------------------------------------------
(***************************************************************************)
(* The tables: what each transaction changes, and that it keeps the types. *)
(***************************************************************************)
LEMMA InsertEffect ==
  ASSUME StoreTypeOK, NEW i \in Id, NEW kind \in {"summary", "ask"}, NEW priority \in Priority,
         InsertTask(i, kind, priority)
  PROVE  /\ StoreTypeOK'
         /\ ~Exists(i)
         /\ task'[i] = [kind |-> kind, priority |-> priority, state |-> "queued"]
         /\ \A j \in Id : j # i => task'[j] = task[j]
         /\ UNCHANGED <<summary, turn>>
<1>1. ~Exists(i)
  BY DEF InsertTask, IsNext, Id
<1>. QED  BY <1>1 DEF InsertTask, StoreTypeOK, Kind, TaskState

LEMMA SetSummaryEffect ==
  ASSUME StoreTypeOK, NEW i \in Id, NEW s \in SummaryState, SetSummary(i, s)
  PROVE  /\ StoreTypeOK'
         /\ summary'[i] = s
         /\ \A j \in Id : j # i => summary'[j] = summary[j]
         /\ UNCHANGED <<task, turn>>
BY DEF SetSummary, StoreTypeOK

LEMMA AppendEffect ==
  ASSUME StoreTypeOK, NEW i \in Id, AppendAnswerText(i)
  PROVE  /\ StoreTypeOK'
         /\ turn'[i] = [state |-> turn[i].state, answer |-> turn[i].answer + 1,
                        clean |-> turn[i].clean]
         /\ \A j \in Id : j # i => turn'[j] = turn[j]
         /\ UNCHANGED <<task, summary>>
BY DEF AppendAnswerText, UpdateTurn, StoreTypeOK

LEMMA CleanEffect ==
  ASSUME StoreTypeOK, NEW i \in Id, SetTurnAnswer(i)
  PROVE  /\ StoreTypeOK'
         /\ turn'[i] = [state |-> turn[i].state, answer |-> turn[i].answer, clean |-> TRUE]
         /\ \A j \in Id : j # i => turn'[j] = turn[j]
         /\ UNCHANGED <<task, summary>>
BY DEF SetTurnAnswer, UpdateTurn, StoreTypeOK

LEMMA FinishEffect ==
  ASSUME StoreTypeOK, NEW i \in Id, NEW s \in TurnState, FinishTurn(i, s)
  PROVE  /\ StoreTypeOK'
         /\ turn'[i] = [state |-> s, answer |-> turn[i].answer, clean |-> turn[i].clean]
         /\ \A j \in Id : j # i => turn'[j] = turn[j]
         /\ UNCHANGED <<task, summary>>
BY DEF FinishTurn, UpdateTurn, StoreTypeOK

-----------------------------------------------------------------------------
(***************************************************************************)
(* Type correctness, one lemma per thread.                                 *)
(***************************************************************************)
WorkerType == [pc : WorkerPc, id : 0..Tasks, left : 0..MaxSteps]

LEMMA InitType == Init => TypeInv
<1>. SUFFICES ASSUME Init PROVE TypeInv
  OBVIOUS
<1>1. AssistantTypeOK
  <2>1. StoreTypeOK
    BY DEF Init, StoreInit, StoreTypeOK, Kind, Priority, TaskState, SummaryState, TurnState
  <2>2. Worker("idle", 0) \in [pc : WorkerPc, id : 0..Tasks, left : 0..MaxSteps]
    BY AssistantAssumption DEF Worker, WorkerPc
  <2>3. [pc |-> "scan", id |-> 0] \in [pc : BootPc, id : 0..Tasks]
    BY AssistantAssumption DEF BootPc
  <2>4. 0 \in 0..MaxWarm /\ 0 \in 0..MaxCrashes /\ <<>> \in Seq(Item)
    BY AssistantAssumption
  <2>. QED  BY <2>1, <2>2, <2>3, <2>4 DEF Init, AssistantTypeOK, Recording
<1>2. HeapKnown
  BY DEF Init, HeapKnown
<1>3. WorkerHolds /\ BootHolds
  BY DEF Init, Worker, WorkerHolds, Held, BootHolds
<1>. QED  BY <1>1, <1>2, <1>3 DEF TypeInv

\* The heap keeps naming tasks of the table while the table only grows.
LEMMA HeapStays ==
  ASSUME AssistantTypeOK, HeapKnown, \A i \in Id : Exists(i) => Exists(i)'
  PROVE  /\ Known \subseteq Known' /\ heap \in Seq(Known')
         /\ \A i \in req : i \in Id /\ Exists(i)'
<1>1. Known \subseteq Known'
  BY DEF Known
<1>2. heap \in Seq(Known')
  BY <1>1, SeqGrows DEF HeapKnown
<1>. QED  BY <1>1, <1>2 DEF HeapKnown, AssistantTypeOK

LEMMA KnownAreItems == Known \subseteq Item /\ \A s \in Seq(Known) : s \in Seq(Item)
<1>1. Known \subseteq Item
  BY DEF Known
<1>. QED  BY <1>1, SeqGrows

LEMMA RequestTypes ==
  ASSUME TypeInv, NEW i \in Id, RequestSummary(i) \/ RequestAsk(i)
  PROVE  TypeInv'
<1>1. PICK kind \in {"summary", "ask"}, priority \in Priority : InsertTask(i, kind, priority)
  BY DEF RequestSummary, RequestAsk, CreateSummary, CreateTurn, Priority
<1>2. /\ StoreTypeOK' /\ ~Exists(i)
      /\ task'[i] = [kind |-> kind, priority |-> priority, state |-> "queued"]
      /\ \A j \in Id : j # i => task'[j] = task[j]
  BY <1>1, InsertEffect DEF TypeInv, AssistantTypeOK
<1>3. Exists(i)' /\ \A j \in Id : Exists(j) => Exists(j)'
  BY <1>2 DEF Exists
<1>4. /\ UNCHANGED <<boot, heap, wk, engine, watch, recording, observed, history>>
      /\ req' = req \cup {i} /\ Up
  BY DEF RequestSummary, RequestAsk
<1>5. AssistantTypeOK'
  BY <1>2, <1>4 DEF TypeInv, AssistantTypeOK, history
<1>6. HeapKnown'
  BY <1>3, <1>4, HeapStays DEF TypeInv, HeapKnown
<1>7. WorkerHolds'
  BY <1>2, <1>3, <1>4 DEF TypeInv, WorkerHolds, Held, Up, AssistantTypeOK, Id
<1>8. BootHolds'
  BY <1>4 DEF TypeInv, BootHolds, Up
<1>. QED  BY <1>5, <1>6, <1>7, <1>8 DEF TypeInv

\* A push of something known, while tables, worker and start-up stay as they are.
LEMMA PushTypes ==
  ASSUME TypeInv, UNCHANGED <<tables, boot, wk, engine, watch, torn, errored, crashes>>,
         req' \subseteq req, NEW item \in Known, heap' = Append(heap, item),
         recording' \in Recording, observed' \in BOOLEAN,
         warmed' \in 0..MaxWarm
  PROVE  TypeInv'
<1>1. Known' = Known /\ StoreTypeOK'
  BY DEF tables, Known, Exists, StoreTypeOK, TypeInv, AssistantTypeOK
<1>2. heap' \in Seq(Known')
  BY <1>1, AppendProperties DEF TypeInv, HeapKnown
<1>3. HeapKnown'
  BY <1>2 DEF TypeInv, HeapKnown, tables, Exists
<1>4. AssistantTypeOK'
  BY <1>1, <1>2, KnownAreItems DEF TypeInv, AssistantTypeOK
<1>5. WorkerHolds' /\ BootHolds'
  BY DEF TypeInv, WorkerHolds, Held, Up, BootHolds, tables, Exists, Running, OpenTasks
<1>. QED  BY <1>3, <1>4, <1>5 DEF TypeInv

\* Nothing is pushed: the observer, the idle thread.
LEMMA QuietTypes ==
  ASSUME TypeInv, UNCHANGED <<tables, boot, heap, req, wk, torn, errored, crashes>>,
         engine' \in BOOLEAN, watch' \in {"sleep", "release"}, recording' \in Recording,
         observed' \in BOOLEAN, warmed' \in 0..MaxWarm
  PROVE  TypeInv'
<1>1. AssistantTypeOK'
  BY DEF TypeInv, AssistantTypeOK, StoreTypeOK, tables
<1>2. HeapKnown' /\ WorkerHolds' /\ BootHolds'
  BY DEF TypeInv, HeapKnown, Known, WorkerHolds, Held, Up, BootHolds, tables, Exists,
         Running, OpenTasks
<1>. QED  BY <1>1, <1>2 DEF TypeInv

LEMMA OthersTypes ==
  ASSUME TypeInv, Handing \/ CreateConversation \/ Capture \/ Idle
  PROVE  TypeInv'
<1>. USE DEF history
<1>0. AssistantTypeOK
  BY DEF TypeInv
<1>1. ASSUME NEW i \in Id, Hand(i)
      PROVE  TypeInv'
  <2>1. [prio |-> task[i].priority, id |-> i] \in Known
    BY <1>0, <1>1, AssistantAssumption
       DEF Hand, TypeInv, HeapKnown, Known, Item, Id, Priority, AssistantTypeOK, StoreTypeOK
  <2>. QED  BY <1>0, <1>1, <2>1, PushTypes DEF Hand, Push, AssistantTypeOK
<1>2. [prio |-> -1, id |-> 0] \in Known
  BY AssistantAssumption DEF Known, Item
<1>3. CASE CreateConversation
  BY <1>0, <1>2, <1>3, AssistantAssumption, PushTypes
     DEF CreateConversation, Warm, Push, AssistantTypeOK
<1>4. CASE OnStarted
  <2>1. recording' \in Recording
    BY <1>0, <1>4 DEF OnStarted, Recording, AssistantTypeOK
  <2>. QED  BY <1>0, <1>2, <1>4, <2>1, PushTypes DEF OnStarted, Warm, Push, AssistantTypeOK
<1>5. CASE Activate
  BY <1>0, <1>5, AssistantAssumption, QuietTypes
     DEF Activate, Recording, AssistantTypeOK
<1>6. ASSUME NEW notice, OnStopped(notice)
      PROVE  TypeInv'
  BY <1>0, <1>6, QuietTypes DEF OnStopped, Recording, AssistantTypeOK
<1>7. CASE IdleCheck \/ Release
  <2>1. /\ UNCHANGED <<tables, boot, heap, req, wk, recording, observed, history>>
        /\ engine' \in BOOLEAN /\ watch' \in {"sleep", "release"}
        /\ watch' = "release" => ~observed
    BY <1>0, <1>7 DEF IdleCheck, Release, Watch, AssistantTypeOK
  <2>. QED  BY <1>0, <2>1, QuietTypes DEF AssistantTypeOK
<1>. QED  BY <1>1, <1>3, <1>4, <1>5, <1>6, <1>7 DEF Handing, Capture, Idle

-----------------------------------------------------------------------------
(***************************************************************************)
(* The worker.  A step of it changes its own state, the engine, and the    *)
(* row it works on: the task keeps its kind, and runs while it is held.    *)
(***************************************************************************)
WorkerFrame == /\ UNCHANGED <<boot, req, watch, recording, observed,
                              warmed, crashes, torn>>
               /\ engine' \in BOOLEAN

LEMMA WorkerKeeps ==
  ASSUME TypeInv, Up, WorkerFrame, StoreTypeOK', \A i \in Id : Exists(i) => Exists(i)',
         heap' = heap, wk' \in WorkerType, WorkerHolds', errored' \subseteq Id
  PROVE  TypeInv'
<1>1. HeapKnown'
  <2>1. heap' \in Seq(Known')
    BY HeapStays DEF TypeInv
  <2>2. \A i \in req' : Exists(i)'
    BY HeapStays DEF TypeInv, WorkerFrame
  <2>. QED  BY <2>1, <2>2 DEF HeapKnown
<1>2. AssistantTypeOK'
  BY DEF TypeInv, AssistantTypeOK, WorkerFrame, WorkerType
<1>3. BootHolds'
  BY DEF TypeInv, BootHolds, WorkerFrame, Up
<1>. QED  BY <1>1, <1>2, <1>3 DEF TypeInv

LEMMA PopTypes ==
  ASSUME TypeInv, Pop
  PROVE  TypeInv'
<1>1. PICK n \in Least : /\ heap' = RemoveAt(heap, n)
                         /\ wk' = Worker(IF heap[n].prio = -1 THEN "warm" ELSE "start",
                                         heap[n].id)
  BY DEF Pop
<1>2. n \in DOMAIN heap /\ heap[n] \in Known /\ heap' \in Seq(Known)
  BY <1>1, RemoveAtType DEF Least, TypeInv, HeapKnown
<1>3. UNCHANGED <<tables, boot, req, engine, watch, recording, observed, history>> /\ Up
  BY DEF Pop
<1>4. Known' = Known /\ HeapKnown'
  <2>1. Known' = Known
    BY <1>3 DEF Known, Exists, tables
  <2>. QED  BY <1>2, <1>3, <2>1 DEF TypeInv, HeapKnown, Exists, tables
<1>5. heap[n].id \in 0..Tasks
  BY <1>2 DEF Known, Item
<1>6. wk' \in WorkerType
  BY <1>1, <1>5, AssistantAssumption DEF Worker, WorkerType, WorkerPc
<1>7. AssistantTypeOK'
  BY <1>2, <1>3, <1>6, KnownAreItems
     DEF TypeInv, AssistantTypeOK, StoreTypeOK, tables, history, WorkerType
<1>8. WorkerHolds'
  BY <1>1, <1>2, <1>3
     DEF WorkerHolds, Held, Worker, Known, Up, Exists, tables, Priority, Id
<1>9. BootHolds'
  BY <1>3 DEF TypeInv, BootHolds, Up
<1>. QED  BY <1>4, <1>7, <1>8, <1>9 DEF TypeInv

\* What the other steps of the worker share.
Works ==
  \/ WarmUp \/ StartTask \/ ReadTurn \/ FirstGeneration \/ NextGeneration \/ Chunk
  \/ GenerationFails \/ Generated \/ Clean \/ Finish \/ EndTask \/ Fail \/ FailTask \/ WorkerError

LEMMA WorksFrame ==
  ASSUME TypeInv, Works
  PROVE  /\ WorkerFrame /\ heap' = heap /\ Up /\ wk.pc # "idle"
         /\ errored' \in SUBSET Id /\ errored \subseteq errored'
         /\ Held => wk.id \in Id
<1>1. wk.pc # "idle"
  BY DEF Works, WarmUp, StartTask, ReadTurn, FirstGeneration, NextGeneration, Chunk,
         GenerationFails, Generated, Generating, Clean, Finish, EndTask, Fail, FailTask,
         WorkerError, TypeInv, WorkerHolds, Held
<1>2. Up /\ (Held => wk.id \in Id)
  BY <1>1, AssistantAssumption DEF TypeInv, WorkerHolds, AssistantTypeOK, Id
<1>3. /\ UNCHANGED <<boot, heap, req, watch, recording, observed, warmed, crashes, torn>>
      /\ \/ errored' = errored
         \/ errored' = errored \cup {wk.id} /\ Held
  <2>1. CASE WorkerError
    BY <2>1 DEF WorkerError, TypeInv, WorkerHolds
  <2>2. CASE ~WorkerError
    BY <2>2 DEF Works, WarmUp, StartTask, ReadTurn, FirstGeneration, NextGeneration, Chunk,
           GenerationFails, Generated, Clean, Finish, EndTask, Fail, FailTask,
           Rest, Go, Step, OneLess, history
  <2>. QED  BY <2>1, <2>2
<1>4. engine' \in BOOLEAN
  BY DEF Works, WarmUp, StartTask, ReadTurn, FirstGeneration, NextGeneration, Chunk,
         GenerationFails, Generated, Clean, Finish, EndTask, Fail, FailTask, WorkerError,
         GetEngine, NoEngine, TypeInv, AssistantTypeOK
<1>5. errored' \in SUBSET Id /\ errored \subseteq errored'
  BY <1>2, <1>3 DEF TypeInv, AssistantTypeOK
<1>. QED  BY <1>1, <1>2, <1>3, <1>4, <1>5 DEF WorkerFrame
\* It touches the rows of its own task only, which keeps its kind and runs until it is let go.
WorkLocal ==
  /\ StoreTypeOK' /\ wk' \in WorkerType
  /\ \A j \in Id : task'[j].kind = task[j].kind
  /\ \A j \in Id : j # wk.id => <<task[j], summary[j], turn[j]>>' = <<task[j], summary[j], turn[j]>>
  /\ \/ wk' = Worker("idle", 0)
     \/ /\ Held /\ wk'.id = wk.id /\ wk'.pc \notin {"idle", "warm", "start"}
        /\ task'[wk.id].state = "running"

LEMMA WorkIsLocal ==
  ASSUME TypeInv, Works
  PROVE  WorkLocal
<1>0. StoreTypeOK /\ wk \in WorkerType /\ Worker("idle", 0) \in WorkerType /\ wk.id \in 0..Tasks
  BY AssistantAssumption DEF TypeInv, AssistantTypeOK, Worker, WorkerType, WorkerPc
<1>1. Held => wk.id \in Id
  BY WorksFrame
<1>2. wk.pc \notin {"idle", "warm", "start"} => Held /\ task[wk.id].state = "running"
  BY DEF TypeInv, WorkerHolds, Held
<1>3. ASSUME UNCHANGED tables, wk' = Worker("idle", 0)
      PROVE  WorkLocal
  BY <1>0, <1>3 DEF WorkLocal, tables, StoreTypeOK
<1>4. ASSUME UNCHANGED tables, wk'.id = wk.id, wk' \in WorkerType, Held, wk.pc # "start",
             wk'.pc \notin {"idle", "warm", "start"}
      PROVE  WorkLocal
  BY <1>0, <1>2, <1>4 DEF WorkLocal, tables, StoreTypeOK, Held
<1>5. CASE WarmUp \/ WorkerError
  BY <1>3, <1>5 DEF WarmUp, WorkerError, Rest
<1>6. CASE ReadTurn \/ GenerationFails \/ Generated
  BY <1>0, <1>4, <1>6
     DEF ReadTurn, GenerationFails, Generated, Generating, Step, Go, Held, WorkerType, WorkerPc
<1>7. CASE FirstGeneration
  BY <1>0, <1>4, <1>7 DEF FirstGeneration, Step, Go, Held, WorkerType, WorkerPc
<1>8. CASE NextGeneration
  BY <1>0, <1>4, <1>8, AssistantAssumption
     DEF NextGeneration, Generating, OneLess, Step, Go, Held, WorkerType, WorkerPc
<1>9. CASE StartTask
  <2>1. Held /\ wk.pc = "start"
    BY <1>9 DEF StartTask, Held
  <2>2. CASE wk.id \in Queued
    <3>1. /\ UpdateTask(wk.id, "running")
          /\ \E pc \in {"read", "engine"} : wk' = [wk EXCEPT !.pc = pc]
      BY <1>9, <2>2 DEF StartTask, Step, Go
    <3>2. /\ StoreTypeOK' /\ UNCHANGED <<summary, turn>>
          /\ task'[wk.id].kind = task[wk.id].kind /\ task'[wk.id].state = "running"
          /\ \A j \in Id : j # wk.id => task'[j] = task[j]
      <4>1. wk.id \in Id /\ "running" \in TaskState
        BY <1>1, <2>1 DEF TaskState
      <4>. QED  BY <1>0, <3>1, <4>1 DEF UpdateTask, StoreTypeOK
    <3>3. wk' \in WorkerType /\ wk'.id = wk.id /\ wk'.pc \notin {"idle", "warm", "start"}
      BY <1>0, <3>1 DEF WorkerType, WorkerPc
    <3>. QED  BY <2>1, <3>2, <3>3 DEF WorkLocal
  <2>. QED  BY <1>3, <1>9, <2>2 DEF StartTask, Rest
<1>10. CASE Chunk
  <2>1. AppendAnswerText(wk.id) /\ wk' = [wk EXCEPT !.left = @ - 1] /\ wk.pc = "run" /\ wk.left > 0
    BY <1>10 DEF Chunk, Generating, OneLess, Go
  <2>2. wk' \in WorkerType /\ wk'.id = wk.id /\ wk'.pc = "run"
    BY <1>0, <2>1, AssistantAssumption DEF WorkerType
  <2>. QED  BY <1>0, <1>1, <1>2, <2>1, <2>2, AppendEffect DEF WorkLocal
<1>11. CASE Clean
  <2>1. SetTurnAnswer(wk.id) /\ wk' = [wk EXCEPT !.pc = "finish"] /\ wk.pc = "clean"
    BY <1>11 DEF Clean, Step, Go
  <2>. QED  BY <1>0, <1>1, <1>2, <2>1, CleanEffect DEF WorkLocal, WorkerType, WorkerPc
<1>12. ASSUME NEW s \in TurnState, FinishTurn(wk.id, s), NEW pc \in {"task", "failTask"},
              Step(pc), wk.pc \notin {"idle", "warm", "start"}
       PROVE  WorkLocal
  BY <1>0, <1>1, <1>2, <1>12, FinishEffect DEF WorkLocal, Step, Go, WorkerType, WorkerPc
<1>13. ASSUME NEW s \in SummaryState, SetSummary(wk.id, s), NEW pc \in {"task", "failTask"},
              Step(pc), wk.pc \notin {"idle", "warm", "start"}
       PROVE  WorkLocal
  BY <1>0, <1>1, <1>2, <1>13, SetSummaryEffect DEF WorkLocal, Step, Go, WorkerType, WorkerPc
<1>14. CASE Finish
  BY <1>12, <1>13, <1>14
     DEF Finish, CompleteSummary, TurnState, SummaryState
<1>15. CASE Fail
  BY <1>12, <1>13, <1>15 DEF Fail, FailSummary, TurnState, SummaryState
<1>16. CASE EndTask \/ FailTask
  <2>1. PICK s \in TaskState : UpdateTask(wk.id, s)
    BY <1>16 DEF EndTask, FailTask, Outcome, TaskState
  <2>2. wk' = Worker("idle", 0) /\ wk.pc \notin {"idle", "warm", "start"}
    BY <1>16 DEF EndTask, FailTask, Rest
  <2>3. /\ StoreTypeOK' /\ UNCHANGED <<summary, turn>>
        /\ task'[wk.id].kind = task[wk.id].kind
        /\ \A j \in Id : j # wk.id => task'[j] = task[j]
    <3>1. wk.id \in Id
      BY <1>1, <1>2, <2>2
    <3>. QED  BY <1>0, <2>1, <3>1 DEF UpdateTask, StoreTypeOK
  <2>. QED  BY <1>0, <2>2, <2>3 DEF WorkLocal
<1>. QED  BY <1>5, <1>6, <1>7, <1>8, <1>9, <1>10, <1>11, <1>14, <1>15, <1>16 DEF Works

LEMMA WorkTypes ==
  ASSUME TypeInv, Works
  PROVE  TypeInv'
<1>1. WorkLocal
  BY WorkIsLocal
<1>2. WorkerFrame /\ heap' = heap /\ Up /\ errored' \subseteq Id /\ (Held => wk.id \in Id)
  BY WorksFrame
<1>3. \A i \in Id : Exists(i) => Exists(i)'
  BY <1>1 DEF WorkLocal, Exists
<1>4. WorkerHolds'
  <2>1. CASE wk' = Worker("idle", 0)
    BY <2>1 DEF WorkerHolds, Held, Worker
  <2>2. CASE Held /\ wk'.id = wk.id /\ wk'.pc \notin {"idle", "warm", "start"}
             /\ task'[wk.id].state = "running"
    <3>1. Held' /\ Up' /\ wk.id # 0
      BY <1>2, <2>2 DEF Held, TypeInv, WorkerHolds, WorkerFrame, Up
    <3>2. Exists(wk.id)'
      BY <1>2, <1>3, <2>2 DEF TypeInv, WorkerHolds, Exists
    <3>. QED  BY <2>2, <3>1, <3>2 DEF WorkerHolds
  <2>. QED  BY <1>1, <2>1, <2>2 DEF WorkLocal
<1>. QED  BY <1>1, <1>2, <1>3, <1>4, WorkerKeeps DEF WorkLocal

-----------------------------------------------------------------------------
(***************************************************************************)
(* The death of the process, and its start.                                *)
(***************************************************************************)
LEMMA CrashTypes ==
  ASSUME TypeInv, Crash
  PROVE  TypeInv'
<1>1. AssistantTypeOK'
  <2>1. /\ Worker("idle", 0) \in [pc : WorkerPc, id : 0..Tasks, left : 0..MaxSteps]
        /\ [pc |-> "down", id |-> 0] \in [pc : BootPc, id : 0..Tasks]
    BY AssistantAssumption DEF Worker, WorkerPc, BootPc
  <2>2. torn' \subseteq Id
    <3>1. torn \subseteq Id /\ (boot.pc = "interrupt" => boot.id \in Id)
      BY DEF TypeInv, AssistantTypeOK, BootHolds
    <3>. QED  BY <3>1 DEF Crash
  <2>3. crashes' \in 0..MaxCrashes /\ StoreTypeOK'
    BY AssistantAssumption DEF Crash, TypeInv, AssistantTypeOK, tables, StoreTypeOK
  <2>4. errored' \subseteq Id /\ warmed' \in 0..MaxWarm
    BY DEF Crash, TypeInv, AssistantTypeOK
  <2>5. heap' \in Seq(Item) /\ req' \subseteq Id
    BY DEF Crash
  <2>6. /\ {engine', observed'} \subseteq BOOLEAN
        /\ watch' \in {"sleep", "release"} /\ recording' \in Recording
        /\ boot' \in [pc : BootPc, id : 0..Tasks]
        /\ wk' \in [pc : WorkerPc, id : 0..Tasks, left : 0..MaxSteps]
    BY <2>1 DEF Crash, Recording
  <2>. QED  BY <2>2, <2>3, <2>4, <2>5, <2>6 DEF AssistantTypeOK
<1>2. HeapKnown'
  BY DEF Crash, HeapKnown
<1>3. WorkerHolds' /\ BootHolds'
  BY DEF Crash, WorkerHolds, Held, Worker, BootHolds
<1>. QED  BY <1>1, <1>2, <1>3 DEF TypeInv

\* A step of the start: the threads are not there yet.
LEMMA StartTypes ==
  ASSUME TypeInv, ~Up, StoreTypeOK', \A i \in Id : Exists(i) => Exists(i)',
         UNCHANGED <<req, wk, engine, watch, recording, observed, history>>,
         boot' \in [pc : BootPc, id : 0..Tasks], BootHolds', heap' \in Seq(Known')
  PROVE  TypeInv'
<1>1. HeapKnown'
  BY HeapStays DEF TypeInv, HeapKnown
<1>2. AssistantTypeOK'
  <2>1. \A s \in Seq(Known') : s \in Seq(Item)
    <3>1. Known' \subseteq Item
      BY DEF Known
    <3>. QED  BY <3>1, SeqGrows
  <2>. QED  BY <2>1 DEF TypeInv, AssistantTypeOK, history
<1>3. WorkerHolds'
  BY DEF TypeInv, WorkerHolds, Held
<1>. QED  BY <1>1, <1>2, <1>3 DEF TypeInv

LEMMA BootTypes ==
  ASSUME TypeInv, Start
  PROVE  TypeInv'
<1>0. AssistantTypeOK /\ StoreTypeOK /\ 0 \in 0..Tasks /\ heap \in Seq(Known)
  BY AssistantAssumption DEF TypeInv, AssistantTypeOK, HeapKnown
<1>1. /\ ~Up
      /\ UNCHANGED <<req, wk, engine, watch, recording, observed, history>>
  BY DEF Start, Launch, Reconcile, Interrupt, RequeueOpen, Boot, Up
<1>2. ASSUME UNCHANGED tables, boot' \in [pc : BootPc, id : 0..Tasks], BootHolds',
             heap' \in Seq(Known)
      PROVE  TypeInv'
  <2>1. StoreTypeOK' /\ Known' = Known /\ \A i \in Id : Exists(i) => Exists(i)'
    BY <1>0, <1>2 DEF tables, StoreTypeOK, Known, Exists
  <2>. QED  BY <1>1, <1>2, <2>1, StartTypes
<1>3. ASSUME StoreTypeOK', \A i \in Id : task'[i].kind = task[i].kind, UNCHANGED heap,
             boot' \in [pc : BootPc, id : 0..Tasks], BootHolds'
      PROVE  TypeInv'
  <2>1. \A i \in Id : Exists(i) => Exists(i)'
    BY <1>3 DEF Exists
  <2>2. heap' \in Seq(Known')
    BY <1>0, <1>3, <2>1, HeapStays DEF TypeInv
  <2>. QED  BY <1>1, <1>3, <2>1, <2>2, StartTypes
<1>4. CASE Launch
  BY <1>0, <1>2, <1>4 DEF Launch, Boot, BootPc, BootHolds
<1>5. CASE Reconcile
  <2>1. CASE Running = {} /\ Boot("requeue", 0) /\ UNCHANGED tables
    <3>1. BootHolds'
      BY <2>1 DEF BootHolds, Boot, Running, OpenTasks, Exists, tables
    <3>. QED  BY <1>0, <1>2, <1>5, <2>1, <3>1 DEF Reconcile, Boot, BootPc
  <2>2. ASSUME NEW i \in Running, task[i].kind = "ask", UpdateTask(i, "failed"),
               Boot("interrupt", i), UNCHANGED heap
        PROVE  TypeInv'
    <3>1. i \in Id
      BY DEF Running, OpenTasks
    <3>2. /\ StoreTypeOK' /\ \A j \in Id : task'[j].kind = task[j].kind
          /\ task'[i].state = "failed"
      BY <1>0, <2>2, <3>1 DEF UpdateTask, StoreTypeOK, TaskState
    <3>3. boot' \in [pc : BootPc, id : 0..Tasks] /\ BootHolds'
      BY <2>2, <3>1, <3>2, AssistantAssumption DEF Boot, BootPc, BootHolds, Id
    <3>. QED  BY <1>3, <2>2, <3>2, <3>3
  <2>3. ASSUME NEW i \in Running, UpdateTask(i, "queued"), Boot("scan", 0), UNCHANGED heap
        PROVE  TypeInv'
    <3>1. StoreTypeOK' /\ \A j \in Id : task'[j].kind = task[j].kind
      BY <1>0, <2>3 DEF UpdateTask, StoreTypeOK, TaskState, Running, OpenTasks
    <3>2. boot' \in [pc : BootPc, id : 0..Tasks] /\ BootHolds'
      BY <1>0, <2>3 DEF Boot, BootPc, BootHolds
    <3>. QED  BY <1>3, <2>3, <3>1, <3>2
  <2>. QED  BY <1>5, <2>1, <2>2, <2>3 DEF Reconcile
<1>6. CASE Interrupt
  <2>1. boot.id \in Id /\ FinishTurn(boot.id, "interrupted")
    BY <1>6 DEF Interrupt, TypeInv, BootHolds
  <2>2. StoreTypeOK' /\ UNCHANGED task
    BY <1>0, <2>1 DEF FinishTurn, UpdateTurn, StoreTypeOK, TurnState
  <2>3. boot' \in [pc : BootPc, id : 0..Tasks] /\ BootHolds'
    BY <1>0, <1>6 DEF Interrupt, Boot, BootPc, BootHolds
  <2>. QED  BY <1>3, <1>6, <2>2, <2>3 DEF Interrupt
<1>7. CASE RequeueOpen
  <2>1. boot' \in [pc : BootPc, id : 0..Tasks] /\ BootHolds' /\ UNCHANGED tables
    BY <1>0, <1>7 DEF RequeueOpen, Boot, BootPc, BootHolds
  <2>2. heap' \in Seq(Known)
    <3>1. ASSUME NEW i \in NextQueued
          PROVE  [prio |-> task[i].priority, id |-> i] \in Known
      BY <1>0, AssistantAssumption
         DEF NextQueued, Queued, Known, Item, Id, Priority, StoreTypeOK
    <3>. QED  BY <1>0, <1>7, <3>1, AppendProperties DEF RequeueOpen, Push
  <2>. QED  BY <1>2, <2>1, <2>2
<1>. QED  BY <1>4, <1>5, <1>6, <1>7 DEF Start

LEMMA TypeStep == TypeInv /\ [Next]_avars => TypeInv'
<1>. SUFFICES ASSUME TypeInv, [Next]_avars
              PROVE  TypeInv'
  OBVIOUS
<1>1. CASE UNCHANGED avars
  BY <1>1, QuietTypes
     DEF avars, history, TypeInv, AssistantTypeOK
<1>2. CASE Next
  <2>1. CASE Requests
    BY <2>1, RequestTypes, OthersTypes DEF Requests
  <2>2. CASE Handing \/ Capture \/ Idle
    BY <2>2, OthersTypes
  <2>3. CASE Work \/ GenerationFails \/ WorkerError
    BY <2>3, PopTypes, WorkTypes DEF Work, Works
  <2>4. CASE Crash \/ Start
    BY <2>4, CrashTypes, BootTypes
  <2>. QED  BY <1>2, <2>1, <2>2, <2>3, <2>4 DEF Next
<1>. QED  BY <1>1, <1>2

(***************************************************************************)
(* Every reachable state has the types of AssistantTypeOK: rows, heap,     *)
(* requests and threads hold only what the code knows.                     *)
(***************************************************************************)
THEOREM AssistantTypeCorrect == Spec => []AssistantTypeOK
<1>1. TypeInv => AssistantTypeOK
  BY DEF TypeInv
<1>. QED  BY <1>1, InitType, TypeStep, PTL DEF Spec

-----------------------------------------------------------------------------
(***************************************************************************)
(* Task and row agree.                                                     *)
(***************************************************************************)
Blanks == \A i \in Id : ~Exists(i) => turn[i] = Blank
Sounds == \A i \in Id \ (torn \cup errored) : Sound(i)

LEMMA InitTurn == Init => TurnInv
<1>. SUFFICES ASSUME Init PROVE TurnInv
  OBVIOUS
<1>1. Blanks /\ Sounds
  BY DEF Init, StoreInit, Blanks, Sounds, Blank, Sound, Exists
<1>. QED  BY <1>1, InitType DEF TurnInv, Blanks, Sounds

\* A step that leaves the tables and both of the threads that write to them.
LEMMA FrameTurn ==
  ASSUME TurnInv, TypeInv', UNCHANGED <<tables, wk, boot, torn, errored>>
  PROVE  TurnInv'
<1>1. Blanks'
  BY DEF TurnInv, Blanks, Exists, tables
<1>2. Sounds'
  BY DEF TurnInv, Sounds, Sound, Exists, tables, InWork, Progress, Unsettled, Up, Agree
<1>. QED  BY <1>1, <1>2 DEF TurnInv, Blanks, Sounds

LEMMA RequestTurn ==
  ASSUME TurnInv, NEW i \in Id, RequestSummary(i) \/ RequestAsk(i)
  PROVE  TurnInv'
<1>0. TypeInv /\ TypeInv' /\ AssistantTypeOK
  BY RequestTypes DEF TurnInv, TypeInv
<1>1. PICK kind \in {"summary", "ask"}, priority \in Priority : InsertTask(i, kind, priority)
  BY DEF RequestSummary, RequestAsk, CreateSummary, CreateTurn, Priority
<1>2. /\ ~Exists(i) /\ UNCHANGED <<summary, turn>>
      /\ task'[i] = [kind |-> kind, priority |-> priority, state |-> "queued"]
      /\ \A j \in Id : j # i => task'[j] = task[j]
  BY <1>0, <1>1, InsertEffect DEF AssistantTypeOK
<1>3. UNCHANGED <<wk, boot, torn, errored>> /\ Up
  BY DEF RequestSummary, RequestAsk, history
<1>4. Blanks'
  BY <1>2 DEF TurnInv, Blanks, Exists
<1>5. wk.id # i \/ wk.pc \in {"idle", "warm"}
  BY <1>0, <1>2 DEF TypeInv, WorkerHolds, Held
<1>6. ASSUME NEW j \in Id \ (torn \cup errored)
      PROVE  Sound(j)'
  <2>1. CASE j = i
    <3>1. Agree(i)'
      BY <1>2 DEF TurnInv, Agree, Blank
    <3>2. ~InWork(i)'
      BY <1>0, <1>2, <1>3 DEF InWork, TypeInv, WorkerHolds, Held, Id
    <3>. QED  BY <2>1, <3>1, <3>2 DEF Sound
  <2>2. CASE j # i
    BY <1>2, <1>3, <2>2 DEF TurnInv, Sound, Exists, InWork, Progress, Unsettled, Up, Agree
  <2>. QED  BY <2>1, <2>2
<1>. QED  BY <1>0, <1>3, <1>4, <1>6 DEF TurnInv, Blanks

LEMMA PopTurn ==
  ASSUME TurnInv, Pop
  PROVE  TurnInv'
<1>0. TypeInv /\ TypeInv'
  BY PopTypes DEF TurnInv
<1>1. /\ UNCHANGED <<tables, boot, torn, errored>> /\ wk.pc = "idle"
      /\ wk'.pc = "start" \/ wk'.pc = "warm"
  BY DEF Pop, Worker, history
<1>2. \A i \in Id : ~InWork(i) /\ ~InWork(i)'
  BY <1>0, <1>1 DEF InWork, TypeInv, WorkerHolds, Held, Id
<1>. QED  BY <1>0, <1>1, <1>2 DEF TurnInv, Sound, Exists, tables, Unsettled, Up, Agree

\* The worker's own task, step by step: how far it is, or that it agrees once it is let go.
LEMMA OwnTask ==
  ASSUME TurnInv, Works, ~WorkerError, Held, wk.id \notin torn \cup errored,
         NEW i \in Id, i = wk.id
  PROVE  /\ wk'.id = i => Progress(i)'
         /\ wk' = Worker("idle", 0) => Agree(i)'
<1>0. /\ TypeInv /\ WorkLocal /\ StoreTypeOK /\ Up
      /\ task'[i].kind = task[i].kind /\ task[i].kind \in {"ask", "summary"}
      /\ wk.pc # "start" => Progress(i)
      /\ wk.pc = "start" => Agree(i)
  <2>1. TypeInv /\ WorkLocal /\ StoreTypeOK /\ Up
    BY WorkIsLocal, WorksFrame DEF TurnInv, TypeInv, AssistantTypeOK
  <2>2. Exists(i) /\ task[i].kind \in {"ask", "summary"}
    BY <2>1 DEF TypeInv, WorkerHolds, Exists, StoreTypeOK, Kind
  <2>3. Sound(i)
    BY DEF TurnInv
  <2>. QED  BY <2>1, <2>2, <2>3 DEF WorkLocal, Sound, InWork, Unsettled
<1>1. ASSUME wk'.pc \notin {"finish", "task", "failTask", "idle"}
      PROVE  /\ wk'.id = i => Progress(i)'
             /\ wk' # Worker("idle", 0)
  BY <1>1 DEF Progress, Worker
<1>2. CASE StartTask
  <2>1. CASE wk.id \in Queued
    <3>1. wk'.pc \in {"read", "engine"}
      BY <1>0, <1>2, <2>1 DEF StartTask, Step, Go, TypeInv, AssistantTypeOK
    <3>. QED  BY <1>1, <3>1
  <2>2. CASE wk.id \notin Queued
    BY <1>0, <1>2, <2>2 DEF StartTask, Rest, Worker, tables, Agree, Id
  <2>. QED  BY <2>1, <2>2
<1>3. CASE WarmUp \/ ReadTurn \/ FirstGeneration \/ NextGeneration \/ Chunk \/ GenerationFails
  <2>1. ~WarmUp
    BY DEF WarmUp, Held
  <2>2. wk'.pc \in {"engine", "fail", "run"}
    BY <1>0, <1>3, <2>1
       DEF ReadTurn, FirstGeneration, NextGeneration, Chunk, GenerationFails, Generating,
           OneLess, Step, Go, TypeInv, AssistantTypeOK
  <2>. QED  BY <1>1, <2>2
<1>4. CASE Generated
  <2>1. \/ wk'.pc = "clean"
        \/ wk'.pc = "finish" /\ task[i].kind = "summary"
    BY <1>0, <1>4 DEF Generated, Generating, Step, Go, TypeInv, AssistantTypeOK
  <2>. QED  BY <1>0, <2>1 DEF Progress, Worker
<1>5. CASE Clean
  <2>1. wk'.pc = "finish" /\ turn'[i].clean
    BY <1>0, <1>5 DEF Clean, Step, Go, SetTurnAnswer, UpdateTurn, TypeInv, AssistantTypeOK,
                      StoreTypeOK
  <2>. QED  BY <1>0, <2>1 DEF Progress, Worker
<1>6. CASE Finish
  <2>1. wk'.pc = "task"
    BY <1>0, <1>6 DEF Finish, Step, Go, TypeInv, AssistantTypeOK
  <2>2. task[i].kind = "ask" => turn'[i].state \in Answered /\ turn'[i].clean
    BY <1>0, <1>6 DEF Finish, Progress, FinishTurn, UpdateTurn, StoreTypeOK
  <2>3. task[i].kind = "summary" => summary'[i] = "completed"
    BY <1>0, <1>6 DEF Finish, CompleteSummary, SetSummary, StoreTypeOK
  <2>. QED  BY <1>0, <2>1, <2>2, <2>3 DEF Progress, Worker
<1>7. CASE Fail
  <2>1. wk'.pc = "failTask"
    BY <1>0, <1>7 DEF Fail, Step, Go, TypeInv, AssistantTypeOK
  <2>2. task[i].kind = "ask" => turn'[i].state = "failed"
    BY <1>0, <1>7 DEF Fail, FinishTurn, UpdateTurn, StoreTypeOK
  <2>3. task[i].kind = "summary" => summary'[i] = "failed"
    BY <1>0, <1>7 DEF Fail, FailSummary, SetSummary, StoreTypeOK
  <2>. QED  BY <1>0, <2>1, <2>2, <2>3 DEF Progress, Worker
<1>8. CASE EndTask
  <2>1. task'[i].state = "completed" /\ UNCHANGED <<summary, turn>>
    BY <1>0, <1>8 DEF EndTask, Outcome, UpdateTask, StoreTypeOK
  <2>. QED  BY <1>0, <1>8, <2>1 DEF EndTask, Progress, Agree, Rest, Worker, Id
<1>9. CASE FailTask
  <2>1. task'[i].state = "failed" /\ UNCHANGED <<summary, turn>>
    BY <1>0, <1>9 DEF FailTask, UpdateTask, StoreTypeOK
  <2>. QED  BY <1>0, <1>9, <2>1 DEF FailTask, Progress, Agree, Rest, Worker, Id
<1>. QED  BY <1>2, <1>3, <1>4, <1>5, <1>6, <1>7, <1>8, <1>9 DEF Works

LEMMA WorkTurn ==
  ASSUME TurnInv, Works
  PROVE  TurnInv'
<1>0. TypeInv /\ TypeInv' /\ WorkLocal
  BY WorkTypes, WorkIsLocal DEF TurnInv
<1>1. WorkerFrame /\ Up /\ errored \subseteq errored' /\ (Held => wk.id \in Id)
  BY WorksFrame DEF TurnInv
<1>2. Blanks'
  <2>1. ASSUME NEW i \in Id, ~Exists(i)'
        PROVE  turn'[i] = turn[i] /\ ~Exists(i)
    <3>1. ~Exists(i)
      BY <1>0, <2>1 DEF WorkLocal, Exists
    <3>2. i # wk.id
      BY <1>0, <3>1 DEF TypeInv, WorkerHolds, Id
    <3>. QED  BY <1>0, <3>1, <3>2 DEF WorkLocal
  <2>. QED  BY <2>1 DEF TurnInv, Blanks
<1>3. ASSUME NEW i \in Id \ (torn \cup errored)', Exists(i)'
      PROVE  Sound(i)'
  <2>1. i \notin torn \cup errored /\ Exists(i) /\ Sound(i) /\ ~Unsettled(i)
    BY <1>0, <1>1, <1>3 DEF TurnInv, WorkerFrame, WorkLocal, Exists, Unsettled
  <2>2. CASE i # wk.id
    <3>1. ~InWork(i) /\ ~InWork(i)'
      BY <1>0, <2>2 DEF InWork, WorkLocal, Worker, Id
    <3>2. Agree(i)'
      BY <1>0, <2>1, <2>2, <3>1 DEF Sound, WorkLocal, Agree
    <3>. QED  BY <3>1, <3>2 DEF Sound
  <2>3. CASE i = wk.id
    <3>1. Held /\ ~WorkerError
      BY <1>0, <1>3, <2>1, <2>3 DEF TypeInv, WorkerHolds, Id, WorkerError
    <3>2. /\ wk'.id = i => Progress(i)'
          /\ wk' = Worker("idle", 0) => Agree(i)'
      BY <2>1, <2>3, <3>1, OwnTask
    <3>3. \/ wk' = Worker("idle", 0)
          \/ wk'.id = i /\ wk'.pc # "start"
      BY <1>0, <2>3 DEF WorkLocal
    <3>. QED  BY <3>2, <3>3 DEF Sound, InWork, Worker, Id
  <2>. QED  BY <2>2, <2>3
<1>. QED  BY <1>0, <1>2, <1>3 DEF TurnInv, Blanks, Sound

LEMMA CrashTurn ==
  ASSUME TurnInv, Crash
  PROVE  TurnInv'
<1>0. TypeInv /\ TypeInv'
  BY CrashTypes DEF TurnInv
<1>1. /\ UNCHANGED <<tables, errored>> /\ boot'.pc = "down" /\ wk'.id = 0
      /\ torn' = IF boot.pc = "interrupt" THEN torn \cup {boot.id} ELSE torn
  BY DEF Crash, Worker
<1>2. Blanks'
  BY <1>1 DEF TurnInv, Blanks, Exists, tables
<1>3. ASSUME NEW i \in Id \ (torn \cup errored)', Exists(i)'
      PROVE  Sound(i)'
  <2>1. Exists(i) /\ Sound(i) /\ i \notin torn \cup errored /\ ~InWork(i)'
    BY <1>1, <1>3 DEF TurnInv, Exists, tables, InWork, Id
  <2>2. CASE task[i].state = "running"
    BY <1>1, <2>1, <2>2 DEF Sound, Unsettled, Up, tables
  <2>3. CASE task[i].state # "running"
    <3>1. ~InWork(i) /\ ~Unsettled(i)
      BY <1>0, <1>1, <1>3, <2>3 DEF InWork, Unsettled, TypeInv, WorkerHolds, Held, Id
    <3>. QED  BY <1>1, <2>1, <3>1 DEF Sound, Agree, tables
  <2>. QED  BY <2>2, <2>3
<1>. QED  BY <1>0, <1>2, <1>3 DEF TurnInv, Blanks, Sound

LEMMA BootTurn ==
  ASSUME TurnInv, Start
  PROVE  TurnInv'
<1>0. TypeInv /\ TypeInv' /\ StoreTypeOK /\ ~Up
  BY BootTypes DEF TurnInv, TypeInv, AssistantTypeOK, Start, Launch, Reconcile, Interrupt,
                   RequeueOpen, Up
<1>1. UNCHANGED <<wk, torn, errored>> /\ \A i \in Id : ~InWork(i) /\ ~InWork(i)'
  BY <1>0 DEF Start, Launch, Reconcile, Interrupt, RequeueOpen, Boot, history,
              TypeInv, WorkerHolds, Held, InWork, Id
<1>2. \A i \in Id \ (torn \cup errored) : Exists(i) /\ ~Unsettled(i) => Agree(i)
  BY <1>1 DEF TurnInv, Sound
\* The rows of i alone may change, and i is then agreed or still unsettled.
<1>3. ASSUME NEW i \in Id, \A j \in Id : task'[j].kind = task[j].kind, Exists(i),
             \A j \in Id : j # i =>
               /\ <<task[j], summary[j], turn[j]>>' = <<task[j], summary[j], turn[j]>>
               /\ ~Unsettled(j)' => ~Unsettled(j),
             i \notin torn \cup errored => Unsettled(i)' \/ Agree(i)'
      PROVE  TurnInv'
  <2>1. \A j \in Id : Exists(j)' <=> Exists(j)
    BY <1>3 DEF Exists
  <2>2. Blanks'
    BY <1>3, <2>1 DEF TurnInv, Blanks
  <2>3. \A j \in Id \ (torn \cup errored) : Exists(j)' /\ ~Unsettled(j)' => Agree(j)'
    BY <1>2, <1>3, <2>1 DEF Agree
  <2>. QED  BY <1>0, <1>1, <2>2, <2>3 DEF TurnInv, Blanks, Sound
\* No row changes, and what is agreed or unsettled stays so.
<1>4. ASSUME UNCHANGED tables, \A j \in Id : ~Unsettled(j)' => ~Unsettled(j) \/ Agree(j)
      PROVE  TurnInv'
  BY <1>0, <1>1, <1>2, <1>4 DEF TurnInv, Sound, Exists, tables, Agree
<1>5. CASE Launch
  <2>1. UNCHANGED tables /\ boot.pc = "down" /\ boot'.pc = "scan"
    BY <1>5 DEF Launch, Boot
  <2>. QED  BY <1>0, <1>4, <2>1 DEF Unsettled, Up, tables
<1>6. CASE Reconcile
  <2>1. CASE Running = {} /\ Boot("requeue", 0) /\ UNCHANGED tables
    <3>1. \A j \in Id : Exists(j) => task[j].state # "running"
      BY <2>1 DEF Running, OpenTasks
    <3>2. boot.pc = "scan"
      BY <1>6 DEF Reconcile
    <3>3. \A j \in Id \ (torn \cup errored) : Exists(j) => Agree(j)
      BY <1>2, <3>1, <3>2 DEF Unsettled
    <3>. QED  BY <1>0, <1>1, <2>1, <3>3 DEF TurnInv, Sound, Exists, tables, Agree
  <2>2. ASSUME NEW i \in Running, task[i].kind = "ask", UpdateTask(i, "failed"),
               Boot("interrupt", i)
        PROVE  TurnInv'
    <3>1. i \in Id /\ Exists(i)
      BY DEF Running, OpenTasks
    <3>2. /\ \A j \in Id : task'[j].kind = task[j].kind
          /\ \A j \in Id : j # i => task'[j] = task[j]
          /\ UNCHANGED <<summary, turn>>
      BY <1>0, <2>2, <3>1 DEF UpdateTask, StoreTypeOK
    <3>3. Unsettled(i)' /\ boot.pc = "scan"
      BY <1>6, <2>2 DEF Reconcile, Boot, Unsettled, Up
    <3>. QED  BY <1>0, <1>3, <2>2, <3>1, <3>2, <3>3 DEF Unsettled, Boot, Up
  <2>3. ASSUME NEW i \in Running, task[i].kind # "ask", UpdateTask(i, "queued"),
               Boot("scan", 0)
        PROVE  TurnInv'
    <3>1. i \in Id /\ Exists(i)
      BY DEF Running, OpenTasks
    <3>2. /\ \A j \in Id : task'[j].kind = task[j].kind
          /\ \A j \in Id : j # i => task'[j] = task[j]
          /\ UNCHANGED <<summary, turn>> /\ task'[i].state = "queued"
      BY <1>0, <2>3, <3>1 DEF UpdateTask, StoreTypeOK
    <3>3. Agree(i)' /\ boot.pc = "scan"
      BY <1>6, <2>3, <3>1, <3>2 DEF Reconcile, Agree
    <3>. QED  BY <1>0, <1>3, <2>3, <3>1, <3>2, <3>3 DEF Unsettled, Boot, Up
  <2>. QED  BY <1>6, <2>1, <2>2, <2>3 DEF Reconcile
<1>7. CASE Interrupt
  <2>1. /\ boot.id \in Id /\ task[boot.id].kind = "ask" /\ task[boot.id].state = "failed"
        /\ FinishTurn(boot.id, "interrupted") /\ boot.pc = "interrupt" /\ Boot("scan", 0)
    BY <1>0, <1>7 DEF Interrupt, TypeInv, BootHolds
  <2>2. PICK i \in Id : i = boot.id
    BY <2>1
  <2>3. /\ UNCHANGED <<task, summary>> /\ turn'[i].state = "interrupted"
        /\ \A j \in Id : j # i => turn'[j] = turn[j]
    BY <1>0, <2>1, <2>2 DEF FinishTurn, UpdateTurn, StoreTypeOK
  <2>4. Agree(i)' /\ Exists(i)
    BY <2>1, <2>2, <2>3 DEF Agree, Exists
  <2>. QED  BY <1>0, <1>3, <2>1, <2>2, <2>3, <2>4 DEF Unsettled, Boot, Up
<1>8. CASE RequeueOpen
  <2>1. UNCHANGED tables /\ boot.pc = "requeue" /\ Running = {}
    BY <1>0, <1>8 DEF RequeueOpen, Boot, TypeInv, BootHolds
  <2>2. \A j \in Id \ (torn \cup errored) : Exists(j) => Agree(j)
    BY <1>2, <2>1 DEF Unsettled, Running, OpenTasks
  <2>. QED  BY <1>0, <1>1, <2>1, <2>2 DEF TurnInv, Sound, Exists, tables, Agree
<1>. QED  BY <1>5, <1>6, <1>7, <1>8 DEF Start

LEMMA TurnStep == TurnInv /\ [Next]_avars => TurnInv'
<1>. SUFFICES ASSUME TurnInv, [Next]_avars
              PROVE  TurnInv'
  OBVIOUS
<1>0. TypeInv'
  BY TypeStep DEF TurnInv
<1>1. CASE UNCHANGED avars
  BY <1>0, <1>1, FrameTurn DEF avars
<1>2. CASE Next
  <2>1. ASSUME NEW i \in Id, RequestSummary(i) \/ RequestAsk(i)
        PROVE  TurnInv'
    BY <2>1, RequestTurn
  <2>2. CASE CreateConversation \/ Handing \/ Capture \/ Idle
    <3>1. UNCHANGED <<tables, wk, boot, torn, errored>>
      BY <2>2 DEF CreateConversation, Handing, Hand, Capture, Activate, OnStarted, OnStopped,
                  Idle, IdleCheck, Release, Watch, history
    <3>. QED  BY <1>0, <3>1, FrameTurn
  <2>3. CASE Work \/ GenerationFails \/ WorkerError
    BY <2>3, PopTurn, WorkTurn DEF Work, Works
  <2>4. CASE Crash \/ Start
    BY <2>4, CrashTurn, BootTurn
  <2>. QED  BY <1>2, <2>1, <2>2, <2>3, <2>4 DEF Next, Requests
<1>. QED  BY <1>1, <1>2

(***************************************************************************)
(* While the process is up, every task that the worker does not hold       *)
(* agrees with the turn or the summary it makes, whatever order requests,  *)
(* worker, deaths and starts come in (TurnTaskAgree).                      *)
(***************************************************************************)
THEOREM TurnTaskCorrect == Spec => []TurnTaskAgree
<1>1. TurnInv => TurnTaskAgree
  BY DEF TurnInv, TurnTaskAgree, Sound, InWork, Unsettled
<1>. QED  BY <1>1, InitTurn, TurnStep, PTL DEF Spec

-----------------------------------------------------------------------------
(***************************************************************************)
(* What ended is final.                                                    *)
(***************************************************************************)
LEMMA RowsStay ==
  ASSUME TypeInv, [Next]_avars, NEW i \in Id, Exists(i), Ended(i),
         boot.pc = "interrupt" => boot.id # i
  PROVE  <<task[i], summary[i], turn[i]>>' = <<task[i], summary[i], turn[i]>>
<1>0. StoreTypeOK /\ task[i].state \in {"completed", "failed"}
  BY DEF TypeInv, AssistantTypeOK, Ended
<1>1. ASSUME UNCHANGED tables
      PROVE  <<task[i], summary[i], turn[i]>>' = <<task[i], summary[i], turn[i]>>
  BY <1>1 DEF tables
<1>2. CASE UNCHANGED avars
  BY <1>1, <1>2 DEF avars
<1>3. ASSUME NEW j \in Id, RequestSummary(j) \/ RequestAsk(j)
      PROVE  <<task[i], summary[i], turn[i]>>' = <<task[i], summary[i], turn[i]>>
  <2>1. PICK kind \in {"summary", "ask"}, priority \in Priority : InsertTask(j, kind, priority)
    BY <1>3 DEF RequestSummary, RequestAsk, CreateSummary, CreateTurn, Priority
  <2>2. /\ ~Exists(j) /\ UNCHANGED <<summary, turn>>
        /\ \A k \in Id : k # j => task'[k] = task[k]
    BY <1>0, <2>1, InsertEffect
  <2>. QED  BY <2>2
<1>4. CASE CreateConversation \/ Handing \/ Capture \/ Idle \/ Pop \/ Crash
  <2>1. UNCHANGED tables
    BY <1>4 DEF CreateConversation, Handing, Hand, Capture, Activate, OnStarted, OnStopped,
                Idle, IdleCheck, Release, Watch, Pop, Crash
  <2>. QED  BY <1>1, <2>1
<1>5. CASE Works
  <2>1. CASE i # wk.id
    BY <1>5, <2>1, WorkIsLocal DEF WorkLocal
  <2>2. CASE i = wk.id
    <3>1. wk.pc = "start" /\ wk.id \notin Queued
      BY <1>0, <2>2 DEF TypeInv, WorkerHolds, Held, Queued, Id
    <3>2. UNCHANGED tables
      BY <1>5, <3>1
         DEF Works, WarmUp, StartTask, ReadTurn, FirstGeneration, NextGeneration, Chunk,
             GenerationFails, Generated, Generating, Clean, Finish, EndTask, Fail, FailTask,
             WorkerError
    <3>. QED  BY <1>1, <3>2
  <2>. QED  BY <2>1, <2>2
<1>6. CASE Start
  <2>1. CASE Launch \/ RequeueOpen
    BY <1>1, <2>1 DEF Launch, RequeueOpen
  <2>2. CASE Reconcile
    <3>1. ASSUME NEW j \in Running, NEW s, UpdateTask(j, s)
          PROVE  <<task[i], summary[i], turn[i]>>' = <<task[i], summary[i], turn[i]>>
      <4>1. i # j
        BY <1>0 DEF Running
      <4>. QED  BY <1>0, <3>1, <4>1 DEF UpdateTask, StoreTypeOK
    <3>. QED  BY <1>1, <2>2, <3>1 DEF Reconcile
  <2>3. CASE Interrupt
    <3>1. boot.id # i /\ FinishTurn(boot.id, "interrupted")
      BY <2>3 DEF Interrupt
    <3>. QED  BY <1>0, <3>1 DEF FinishTurn, UpdateTurn, StoreTypeOK
  <2>. QED  BY <1>6, <2>1, <2>2, <2>3 DEF Start
<1>. QED  BY <1>2, <1>3, <1>4, <1>5, <1>6 DEF Next, Requests, Work, Works

(***************************************************************************)
(* No step of any thread, request, death or start changes a task that      *)
(* ended, nor the turn or summary it made (EndedIsFinal).                  *)
(***************************************************************************)
THEOREM EndedStaysEnded == Spec => EndedIsFinal
<1>1. TypeInv /\ [Next]_avars =>
        [\A i \in Id : Exists(i) /\ Ended(i) /\ RowEnded(i) /\ boot.id # i =>
           <<task[i], summary[i], turn[i]>>' = <<task[i], summary[i], turn[i]>>]_avars
  BY RowsStay
<1>. QED  BY <1>1, InitType, TypeStep, PTL DEF Spec, EndedIsFinal

-----------------------------------------------------------------------------
(***************************************************************************)
(* A set of tasks has a newest one: the task with the fewest after it.     *)
(***************************************************************************)
LEMMA NewestExists ==
  ASSUME NEW s \in SUBSET (1..Tasks), s # {}
  PROVE  \E m \in s : \A j \in s : j <= m
<1>. DEFINE room == {Tasks - x : x \in s}
<1>1. \A x \in s : x \in Nat /\ Tasks - x \in Nat /\ Tasks - x \in room
  <2>1. \A x \in s : x \in Nat /\ x <= Tasks
    OBVIOUS
  <2>. QED  BY <2>1, AssistantAssumption
<1>2. room # {} /\ room \in SUBSET Nat
  BY <1>1
<1>3. PICK n \in room : \A k \in room : n <= k
  <2>. HIDE DEF room
  <2>. QED  BY <1>2, HasLeast
<1>4. PICK m \in s : n = Tasks - m
  OBVIOUS
<1>5. \A j \in s : Tasks - m <= Tasks - j
  <2>. HIDE DEF room
  <2>. QED  BY <1>1, <1>3, <1>4
<1>6. \A j \in s : j <= m
  BY <1>1, <1>5, AssistantAssumption
<1>. QED  BY <1>6

(***************************************************************************)
(* A readable summary is replaced by a newer completed one only            *)
(* (ReadableSummaryStays): it ended, so it stays completed, and the newest *)
(* completed one is never older than it.                                   *)
(***************************************************************************)
THEOREM ReadableStays == Spec => ReadableSummaryStays
<1>1. ASSUME TypeInv, [Next]_avars, NEW i \in Readable
      PROVE  \E j \in CurrentSummary' : j >= i /\ summary'[j] = "completed"
  <2>1. /\ i \in Id /\ task[i].kind = "summary" /\ summary[i] = "completed"
        /\ task[i].state = "completed"
    BY DEF Readable, CurrentSummary, Newest, Summaries
  <2>2. task'[i] = task[i] /\ summary'[i] = summary[i]
    <3>1. boot.pc = "interrupt" => boot.id # i
      BY <1>1, <2>1 DEF TypeInv, BootHolds
    <3>. QED  BY <1>1, <2>1, <3>1, RowsStay DEF Exists, Ended
  <2>3. i \in Summaries({"completed"})'
    BY <2>1, <2>2 DEF Summaries
  <2>4. Summaries({"completed"})' \in SUBSET (1..Tasks)
    BY DEF Summaries, Id
  <2>5. PICK j \in Summaries({"completed"})' : \A k \in Summaries({"completed"})' : k <= j
    BY <2>3, <2>4, NewestExists
  <2>6. j \in CurrentSummary'
    BY <2>3, <2>5 DEF CurrentSummary, Newest
  <2>7. j >= i
    <3>1. i \in Nat /\ j \in Nat /\ i <= j
      BY <2>1, <2>3, <2>4, <2>5 DEF Id
    <3>. QED  BY <3>1
  <2>8. summary'[j] = "completed"
    BY DEF Summaries
  <2>. QED  BY <2>6, <2>7, <2>8
<1>2. TypeInv /\ [Next]_avars =>
        [\A i \in Readable : \E j \in CurrentSummary' : j >= i /\ summary'[j] = "completed"]_avars
  BY <1>1
<1>. QED  BY <1>2, InitType, TypeStep, PTL DEF Spec, ReadableSummaryStays
=============================================================================
