---------------------------- MODULE AssistantWorker ----------------------------
(***************************************************************************)
(* The assistant's thread (assistant/worker.py): it takes warm-ups, asks   *)
(* and summaries from a heap that the request threads and the capture      *)
(* engine's observer push to, while a second thread unloads an idle        *)
(* engine; and the start of the process, which reconciles what the last    *)
(* one left behind.  The process may die at any step.                      *)
(***************************************************************************)
EXTENDS AssistantStore, SequencesExt

CONSTANTS MaxSteps,      \* bound: generations of a summary, chunks of an answer
          MaxWarm,       \* bound: sessions recorded and conversations created, together
          MaxCrashes     \* bound: deaths of the process

ASSUME AssistantAssumption ==
  /\ Tasks \in Nat /\ MaxSteps \in Nat /\ MaxCrashes \in Nat
  /\ MaxWarm \in Nat

VARIABLES boot,      \* how far the start of the process is
          heap,      \* _q, in the order pushed
          req,       \* tasks stored by a request that has yet to push them
          wk,        \* the worker thread
          engine,    \* _engine is loaded
          watch,     \* the idle thread
          recording, \* the capture engine's session
          observed,  \* _session_active
          warmed, crashes,   \* counters of the bounds
          torn,      \* history: asks that a death in reconcile_assistant left half done
          errored    \* history: tasks that an unexpected exception left open

avars == <<tables, boot, heap, req, wk, engine, watch, recording, observed,
           warmed, crashes, torn, errored>>
history == <<warmed, crashes, torn, errored>>

Up == boot.pc = "up"
BootPc == {"down", "scan", "interrupt", "requeue", "up"}
WorkerPc == {"idle", "warm", "start", "read", "engine", "run", "clean", "finish", "task",
             "fail", "failTask"}
Recording == {"no", "starting", "yes", "stopping"}
Item == [prio : -1..2, id : 0..Tasks]
Worker(pc, i) == [pc |-> pc, id |-> i, left |-> 0]

(***************************************************************************)
(* Every value is one the code knows: of the rows, the heap and the three  *)
(* threads (assistant/worker.py, storage/assistant.py).                    *)
(***************************************************************************)
AssistantTypeOK ==
  /\ StoreTypeOK
  /\ boot \in [pc : BootPc, id : 0..Tasks]
  /\ heap \in Seq(Item) /\ req \subseteq Id
  /\ wk \in [pc : WorkerPc, id : 0..Tasks, left : 0..MaxSteps]
  /\ {engine, observed} \subseteq BOOLEAN
  /\ watch \in {"sleep", "release"} /\ recording \in Recording
  /\ warmed \in 0..MaxWarm /\ crashes \in 0..MaxCrashes
  /\ torn \subseteq Id /\ errored \subseteq Id

Init ==
  /\ StoreInit
  /\ boot = [pc |-> "scan", id |-> 0]
  /\ heap = <<>> /\ req = {} /\ wk = Worker("idle", 0)
  /\ engine = FALSE /\ watch = "sleep"
  /\ recording = "no" /\ observed = FALSE
  /\ warmed = 0 /\ crashes = 0 /\ torn = {} /\ errored = {}

-----------------------------------------------------------------------------
(***************************************************************************)
(* Requests.  A summary needs a session that ended, an ask any session:    *)
(* it is live when its session is the one being recorded.                  *)
(***************************************************************************)
Push(prio, i) == heap' = Append(heap, [prio |-> prio, id |-> i])
Warm == Push(-1, 0)

RequestSummary(i) ==
  /\ Up /\ CreateSummary(i)
  /\ req' = req \cup {i}
  /\ UNCHANGED <<boot, heap, wk, engine, watch, recording, observed, history>>

RequestAsk(i) ==
  /\ Up /\ \E live \in BOOLEAN : (live => recording # "no") /\ CreateTurn(i, live)
  /\ req' = req \cup {i}
  /\ UNCHANGED <<boot, heap, wk, engine, watch, recording, observed, history>>

\* The row is committed; its request now pushes it.
Hand(i) ==
  /\ i \in req
  /\ req' = req \ {i} /\ Push(task[i].priority, i)
  /\ UNCHANGED <<tables, boot, wk, engine, watch, recording, observed, history>>

\* A new conversation hides the cold load behind the typing of its first question.
CreateConversation ==
  /\ Up /\ warmed < MaxWarm
  /\ warmed' = warmed + 1 /\ Warm
  /\ UNCHANGED <<tables, boot, req, wk, engine, watch, recording, observed,
                 crashes, torn, errored>>

-----------------------------------------------------------------------------
\* The capture engine, and what it tells the observer under its lock.
Activate ==
  /\ Up /\ recording = "no" /\ warmed < MaxWarm
  /\ recording' = "starting" /\ warmed' = warmed + 1
  /\ UNCHANGED <<tables, boot, heap, req, wk, engine, watch, observed,
                 crashes, torn, errored>>

OnStarted ==
  /\ recording = "starting"
  /\ recording' = "yes" /\ observed' = TRUE /\ Warm
  /\ UNCHANGED <<tables, boot, req, wk, engine, watch, history>>

\* "stopped" comes before the writers end, "finalized" after the session did; a session
\* that loses its devices or its disk only has the second.
OnStopped(notice) ==
  /\ \/ notice = "stopped" /\ recording = "yes" /\ recording' = "stopping"
     \/ notice = "finalized" /\ recording \in {"yes", "stopping"} /\ recording' = "no"
  /\ observed' = FALSE
  /\ UNCHANGED <<tables, boot, heap, req, wk, engine, watch, history>>

-----------------------------------------------------------------------------
(***************************************************************************)
(* The idle thread: no recording, an engine, and nothing done for          *)
(* assistant_idle_unload_s, which may be 0 and is left to chance; then it  *)
(* unloads under the engine's lock, on what it saw before.                 *)
(***************************************************************************)
Watch(w) ==
  /\ watch' = w
  /\ UNCHANGED <<tables, boot, heap, req, wk, recording, observed, history>>

IdleCheck ==
  /\ Up /\ watch = "sleep" /\ ~observed /\ engine
  /\ Watch("release") /\ UNCHANGED engine

Release ==
  /\ watch = "release"
  /\ Watch("sleep") /\ engine' = FALSE

-----------------------------------------------------------------------------
Least == {n \in DOMAIN heap : \A m \in DOMAIN heap :
            \/ heap[n].prio < heap[m].prio
            \/ heap[n].prio = heap[m].prio /\ n <= m}

Pop ==
  /\ Up /\ wk.pc = "idle"
  /\ \E n \in Least :
       /\ heap' = RemoveAt(heap, n)
       /\ wk' = Worker(IF heap[n].prio = -1 THEN "warm" ELSE "start", heap[n].id)
  /\ UNCHANGED <<tables, boot, req, engine, watch, recording, observed, history>>

Go(w) ==
  /\ wk' = w
  /\ UNCHANGED <<boot, heap, req, watch, recording, observed, history>>
Step(pc) == Go([wk EXCEPT !.pc = pc])
Rest ==
  /\ wk' = Worker("idle", 0)
  /\ UNCHANGED <<boot, heap, req, watch, recording, observed, history>>

\* _get_engine, under its lock: loaded, or an engine error.
GetEngine == engine' = TRUE
NoEngine == ~engine /\ UNCHANGED engine

WarmUp ==
  /\ wk.pc = "warm"
  /\ GetEngine \/ NoEngine
  /\ Rest /\ UNCHANGED tables

StartTask ==
  /\ wk.pc = "start"
  /\ IF wk.id \in Queued
     THEN UpdateTask(wk.id, "running")
          /\ Step(IF task[wk.id].kind = "ask" THEN "read" ELSE "engine")
     ELSE Rest /\ UNCHANGED tables
  /\ UNCHANGED engine

\* The turn and its transcript: there may be none.
ReadTurn ==
  /\ wk.pc = "read"
  /\ Step("engine") \/ Step("fail")
  /\ UNCHANGED <<tables, engine>>

\* The first generation; how many follow it, or how many chunks the answer has.
FirstGeneration ==
  /\ wk.pc = "engine"
  /\ \/ /\ GetEngine
        /\ \E n \in 0..MaxSteps : Go([wk EXCEPT !.pc = "run", !.left = n])
     \/ NoEngine /\ Step("fail")
  /\ UNCHANGED tables

Generating(kind) == wk.pc = "run" /\ task[wk.id].kind = kind
OneLess == Go([wk EXCEPT !.left = @ - 1])

\* A summary asks for the engine before each generation: it may have been unloaded.
NextGeneration ==
  /\ Generating("summary") /\ wk.left > 0
  /\ \/ GetEngine /\ OneLess
     \/ NoEngine /\ Step("fail")
  /\ UNCHANGED tables

Chunk ==
  /\ Generating("ask") /\ wk.left > 0
  /\ AppendAnswerText(wk.id) /\ OneLess /\ UNCHANGED engine

\* EngineError in a generation, or output without structure.
GenerationFails ==
  /\ wk.pc = "run"
  /\ Step("fail") /\ UNCHANGED <<tables, engine>>

Generated ==
  /\ wk.pc = "run" /\ wk.left = 0
  /\ \/ Generating("summary") /\ Step("finish")
     \/ Generating("ask") /\ Step("clean")
  /\ UNCHANGED <<tables, engine>>

Clean ==
  /\ wk.pc = "clean"
  /\ SetTurnAnswer(wk.id) /\ Step("finish") /\ UNCHANGED engine

Finish ==
  /\ wk.pc = "finish"
  /\ \/ task[wk.id].kind = "ask" /\ \E verdict \in Answered : FinishTurn(wk.id, verdict)
     \/ task[wk.id].kind = "summary" /\ CompleteSummary(wk.id)
  /\ Step("task") /\ UNCHANGED engine

\* A bug: the task gets the state of its turn.
MutantOutcome == IF task[wk.id].kind = "ask" THEN turn[wk.id].state ELSE "completed"

Outcome == "completed"

EndTask ==
  /\ wk.pc = "task"
  /\ UpdateTask(wk.id, Outcome) /\ Rest /\ UNCHANGED engine

\* A bug: the turn fails and its task stays open.
MutantFail ==
  /\ wk.pc = "fail"
  /\ IF task[wk.id].kind = "ask" THEN FinishTurn(wk.id, "failed") /\ Rest
                                 ELSE FailSummary(wk.id) /\ Step("failTask")
  /\ UNCHANGED engine

Fail ==
  /\ wk.pc = "fail"
  /\ IF task[wk.id].kind = "ask" THEN FinishTurn(wk.id, "failed") ELSE FailSummary(wk.id)
  /\ Step("failTask") /\ UNCHANGED engine

FailTask ==
  /\ wk.pc = "failTask"
  /\ UpdateTask(wk.id, "failed") /\ Rest /\ UNCHANGED engine

\* Any other exception (the store, the parser) ends the task where it is.
WorkerError ==
  /\ wk.id # 0
  /\ errored' = errored \cup {wk.id}
  /\ wk' = Worker("idle", 0)
  /\ UNCHANGED <<tables, boot, heap, req, engine, watch, recording, observed,
                 warmed, crashes, torn>>

-----------------------------------------------------------------------------
\* The process dies; everything but the tables is gone.
Crash ==
  /\ boot.pc # "down" /\ crashes < MaxCrashes
  /\ crashes' = crashes + 1
  /\ torn' = IF boot.pc = "interrupt" THEN torn \cup {boot.id} ELSE torn
  /\ boot' = [pc |-> "down", id |-> 0]
  /\ heap' = <<>> /\ req' = {} /\ wk' = Worker("idle", 0)
  /\ engine' = FALSE /\ watch' = "sleep"
  /\ recording' = "no" /\ observed' = FALSE
  /\ UNCHANGED <<tables, warmed, errored>>

Boot(pc, i) ==
  /\ boot' = [pc |-> pc, id |-> i]
  /\ UNCHANGED <<req, wk, engine, watch, recording, observed, history>>

Launch ==
  /\ boot.pc = "down"
  /\ Boot("scan", 0) /\ UNCHANGED <<tables, heap>>

\* reconcile_assistant, one running task after the other.
Reconcile ==
  /\ boot.pc = "scan"
  /\ \/ Running = {} /\ Boot("requeue", 0) /\ UNCHANGED tables
     \/ \E i \in Running :
          /\ \A j \in Running : i <= j
          /\ IF task[i].kind = "ask" THEN UpdateTask(i, "failed") /\ Boot("interrupt", i)
                                     ELSE UpdateTask(i, "queued") /\ Boot("scan", 0)
  /\ UNCHANGED heap

Interrupt ==
  /\ boot.pc = "interrupt"
  /\ FinishTurn(boot.id, "interrupted") /\ Boot("scan", 0) /\ UNCHANGED heap

\* requeue_open: the loop pushes one task.
RequeueOpen ==
  /\ boot.pc = "requeue"
  /\ \/ NextQueued = {} /\ UNCHANGED heap
     \/ \E i \in NextQueued : Push(task[i].priority, i)
  /\ Boot("up", 0) /\ UNCHANGED tables

-----------------------------------------------------------------------------
Requests ==
  \/ \E i \in Id : RequestSummary(i) \/ RequestAsk(i)
  \/ CreateConversation
Capture == Activate \/ OnStarted \/ OnStopped("stopped") \/ OnStopped("finalized")
Idle == IdleCheck \/ Release
Work ==
  \/ Pop \/ WarmUp \/ StartTask \/ ReadTurn \/ FirstGeneration \/ NextGeneration \/ Chunk
  \/ Generated \/ Clean \/ Finish \/ EndTask \/ Fail \/ FailTask
Start == Launch \/ Reconcile \/ Interrupt \/ RequeueOpen
Handing == \E i \in Id : Hand(i)

Next ==
  \/ Requests \/ Handing \/ Capture \/ Idle \/ Work \/ GenerationFails \/ WorkerError
  \/ Crash \/ Start

\* Threads run, every request ends, and whoever starts the recorder starts it again.
Spec == Init /\ [][Next]_avars /\ WF_avars(Handing) /\ WF_avars(Work) /\ WF_avars(Start)

-----------------------------------------------------------------------------
Ended(i) == task[i].state \in {"completed", "failed"}
RowEnded(i) == IF task[i].kind = "ask" THEN turn[i].state # "streaming"
                                       ELSE summary[i] # "pending"

(***************************************************************************)
(* A task nobody works on and the turn or summary it makes tell the same   *)
(* story: no task stays running, a queued ask has not begun to answer, a   *)
(* completed task has its answer or summary, a failed one a failed or      *)
(* interrupted row.  (_run_ask, _run_summary, _fail_turn,                  *)
(* reconcile_assistant; except where an unexpected exception or a death    *)
(* inside reconcile_assistant tore the two writes apart.)                  *)
(***************************************************************************)
Agree(i) ==
  CASE task[i].state = "running" -> FALSE
    [] task[i].state = "queued" /\ task[i].kind = "ask" ->
         turn[i] = [state |-> "streaming", answer |-> 0, clean |-> FALSE]
    [] task[i].state = "completed" /\ task[i].kind = "ask" ->
         turn[i].state \in Answered /\ turn[i].clean
    [] task[i].state = "failed" /\ task[i].kind = "ask" ->
         turn[i].state \in {"failed", "interrupted"}
    [] task[i].state = "completed" /\ task[i].kind = "summary" -> summary[i] = "completed"
    [] task[i].state = "failed" /\ task[i].kind = "summary" -> summary[i] = "failed"
    [] OTHER -> TRUE
TurnTaskAgree ==
  Up => \A i \in Id \ (torn \cup errored) : Exists(i) /\ i # wk.id => Agree(i)

(***************************************************************************)
(* What ended is final: once a task and its turn or summary have ended,    *)
(* neither a later step nor a later start of the process changes either    *)
(* (_start_task takes queued tasks only, reconcile_assistant running ones, *)
(* whose turn is still to be written when their task has ended).           *)
(***************************************************************************)
EndedIsFinal ==
  [][\A i \in Id : Exists(i) /\ Ended(i) /\ RowEnded(i) /\ boot.id # i =>
       <<task[i], summary[i], turn[i]>>' = <<task[i], summary[i], turn[i]>>]_avars

(***************************************************************************)
(* A readable summary stays on show: once current_summary is a completed   *)
(* one whose task ended, only a newer completed one replaces it; a         *)
(* pending or failed re-run does not (current_summary, GET /summary).      *)
(***************************************************************************)
Readable == {i \in CurrentSummary : summary[i] = "completed" /\ task[i].state = "completed"}
ReadableSummaryStays ==
  [][\A i \in Readable : \E j \in CurrentSummary' : j >= i /\ summary'[j] = "completed"]_avars

(***************************************************************************)
(* A task that was handed to the worker ends, whatever is asked meanwhile, *)
(* unless the process dies or an unexpected exception hits it (_run).      *)
(***************************************************************************)
Handed(i) == \E n \in DOMAIN heap : heap[n].id = i
TasksEnd == \A i \in Id : Handed(i) ~> (Ended(i) \/ i \in errored \/ ~Up)

(***************************************************************************)
(* "next_queued re-consulted as tasks complete" (worker.py:163): a task    *)
(* that is queued when the process starts is run in the end.               *)
(***************************************************************************)
QueuedTasksRun == \A i \in Id : (Exists(i) /\ i \notin errored) ~> (Ended(i) \/ i \in errored)
=============================================================================
