---------------------------- MODULE AssistantStore ----------------------------
(***************************************************************************)
(* The assistant's tables (storage/assistant.py): tasks, and the summary   *)
(* or the conversation turn each of them makes.  Every operation is one    *)
(* transaction.                                                            *)
(***************************************************************************)
EXTENDS Naturals, FiniteSets

CONSTANT Tasks   \* bound: tasks of this instance

(***************************************************************************)
(* A task and what it makes are created together, so both have the task's  *)
(* number; numbers are in the order of created_at and enqueued_at.         *)
(***************************************************************************)
Id == 1..Tasks
Kind == {"none", "summary", "ask"}
Priority == 0..2   \* a live ask, an ask, a summary
TaskState == {"queued", "running", "completed", "failed"}
SummaryState == {"pending", "completed", "failed"}
Answered == {"completed", "ungrounded", "declined"}
TurnState == Answered \cup {"streaming", "failed", "interrupted"}

VARIABLES task,      \* table assistant_tasks
          summary,   \* table summaries, the state
          turn       \* table conversation_turns: state, tokens of the answer, cleaned or not

tables == <<task, summary, turn>>

StoreTypeOK ==
  /\ task \in [Id -> [kind : Kind, priority : Priority, state : TaskState]]
  /\ summary \in [Id -> SummaryState]
  /\ turn \in [Id -> [state : TurnState, answer : Nat, clean : BOOLEAN]]

StoreInit ==
  /\ task = [i \in Id |-> [kind |-> "none", priority |-> 0, state |-> "queued"]]
  /\ summary = [i \in Id |-> "pending"]
  /\ turn = [i \in Id |-> [state |-> "streaming", answer |-> 0, clean |-> FALSE]]

-----------------------------------------------------------------------------
Exists(i) == task[i].kind # "none"
IsNext(i) == \A j \in Id : j < i <=> Exists(j)

\* create_summary and create_turn: the row as it starts, and its task.
InsertTask(i, kind, priority) ==
  /\ IsNext(i)
  /\ task' = [task EXCEPT ![i] = [kind |-> kind, priority |-> priority, state |-> "queued"]]
  /\ UNCHANGED <<summary, turn>>
CreateSummary(i) == InsertTask(i, "summary", 2)
CreateTurn(i, live) == InsertTask(i, "ask", IF live THEN 0 ELSE 1)

UpdateTask(i, state) ==
  /\ task' = [task EXCEPT ![i].state = state]
  /\ UNCHANGED <<summary, turn>>

SetSummary(i, state) ==
  /\ summary' = [summary EXCEPT ![i] = state]
  /\ UNCHANGED <<task, turn>>
CompleteSummary(i) == SetSummary(i, "completed")
FailSummary(i) == SetSummary(i, "failed")

UpdateTurn(i, t) ==
  /\ turn' = [turn EXCEPT ![i] = t]
  /\ UNCHANGED <<task, summary>>
AppendAnswerText(i) == UpdateTurn(i, [turn[i] EXCEPT !.answer = @ + 1])
SetTurnAnswer(i) == UpdateTurn(i, [turn[i] EXCEPT !.clean = TRUE])
FinishTurn(i, state) == UpdateTurn(i, [turn[i] EXCEPT !.state = state])

-----------------------------------------------------------------------------
Summaries(states) == {i \in Id : task[i].kind = "summary" /\ summary[i] \in states}
Newest(s) == {i \in s : \A j \in s : j <= i}

\* A bug: the newest summary that did not fail, readable or not.
MutantCurrentSummary == Newest(Summaries({"completed", "pending"}))

\* current_summary: the newest completed one, else the newest that did not fail.
CurrentSummary ==
  IF Summaries({"completed"}) # {} THEN Newest(Summaries({"completed"}))
                                   ELSE Newest(Summaries({"pending"}))

OpenTasks == {i \in Id : Exists(i) /\ task[i].state \in {"queued", "running"}}

\* A bug: every task that was ever started.
MutantRunning == {i \in Id : Exists(i) /\ task[i].state # "queued"}

Running == {i \in OpenTasks : task[i].state = "running"}

Queued == {i \in Id : Exists(i) /\ task[i].state = "queued"}
NextQueued ==
  {i \in Queued : \A j \in Queued :
     \/ task[i].priority < task[j].priority
     \/ task[i].priority = task[j].priority /\ i <= j}
=============================================================================
