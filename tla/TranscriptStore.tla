---------------------------- MODULE TranscriptStore ----------------------------
(***************************************************************************)
(* The transcript tables (storage/transcripts.py): transcripts, their      *)
(* segments and their jobs.  Every operation is one transaction.           *)
(***************************************************************************)
EXTENDS Naturals, Sequences, FiniteSets

CONSTANT Transcripts   \* bound: transcripts of this instance

(***************************************************************************)
(* Ids are numbered in the order of created_at, the order every query      *)
(* sorts by.  A segment's seq is its place in the sequence: the insert     *)
(* takes MAX(seq) + 1, and rows go only by whole transcripts.              *)
(***************************************************************************)
Id == 1..Transcripts
Mode == {"live", "on_demand"}
TranscriptState == {"absent", "pending", "live", "finalising", "completed",
                    "interrupted_live", "failed"}
JobState == {"absent", "queued", "running", "finalising", "completed", "failed"}
Ended == {"completed", "failed"}
Open == {"queued", "running", "finalising"}

VARIABLES transcript,   \* table transcripts
          job,          \* table transcription_jobs: state and progress_chunks
          segment       \* table transcript_segments, by transcript

store == <<transcript, job, segment>>

StoreTypeOK(S, Speech) ==
  /\ transcript \in [Id -> [session : S, mode : Mode,
                            state : TranscriptState, final : BOOLEAN]]
  /\ job \in [Id -> [state : JobState, progress : Nat, total : Nat]]
  /\ segment \in [Id -> Seq(Speech)]

StoreInit(noSession) ==
  /\ transcript = [i \in Id |-> [session |-> noSession, mode |-> "live",
                                 state |-> "absent", final |-> FALSE]]
  /\ job = [i \in Id |-> [state |-> "absent", progress |-> 0, total |-> 0]]
  /\ segment = [i \in Id |-> <<>>]

-----------------------------------------------------------------------------
\* The transcript that the next create_transcript makes.
IsNext(i) == \A j \in Id : j < i <=> transcript[j].state # "absent"

CreateTranscript(i, s, mode, tstate, jstate) ==
  /\ IsNext(i)
  /\ transcript' = [transcript EXCEPT ![i] = [session |-> s, mode |-> mode,
                                              state |-> tstate, final |-> FALSE]]
  /\ job' = [job EXCEPT ![i].state = jstate]
  /\ UNCHANGED segment

AppendSegment(i, seg) ==
  /\ segment' = [segment EXCEPT ![i] = Append(@, seg)]
  /\ UNCHANGED <<transcript, job>>

\* set_state writes final in every case: a state without final=True takes it back.
SetState(i, state, final) ==
  /\ transcript' = [transcript EXCEPT ![i].state = state, ![i].final = final]
  /\ UNCHANGED <<job, segment>>

UpdateJob(i, j) ==
  /\ job' = [job EXCEPT ![i] = j]
  /\ UNCHANGED <<transcript, segment>>

SetJobState(i, state) == UpdateJob(i, [job[i] EXCEPT !.state = state])

DeleteSegments(i) ==
  /\ segment' = [segment EXCEPT ![i] = <<>>]
  /\ UNCHANGED <<transcript, job>>

-----------------------------------------------------------------------------
\* A bug: an attempt counts as soon as it exists.
MutantNonCurrent == {"failed"}

NonCurrent == {"failed", "pending"}

\* current_transcript: the newest that is neither failed nor pending, or none.
Current(s) ==
  {i \in Id :
     LET counts(j) == /\ transcript[j].state \notin NonCurrent \cup {"absent"}
                      /\ transcript[j].session = s
     IN counts(i) /\ \A j \in Id : counts(j) => j <= i}

\* A bug: every job, ended ones too.
MutantOpenJobs == {i \in Id : job[i].state # "absent"}

OpenJobs == {i \in Id : job[i].state \in Open}

\* next_queued: the first in the queue; a live job is never queued.
NextQueued ==
  {i \in Id : job[i].state = "queued" /\ \A j \in Id : job[j].state = "queued" => i <= j}

\* running_on_demand
RunningOnDemand(s) ==
  \E i \in Id : /\ transcript[i].session = s /\ transcript[i].mode = "on_demand"
                /\ job[i].state \in {"queued", "running"}
=============================================================================
