------------------------- MODULE CaptureSessionProofs -------------------------
(***************************************************************************)
(* What TLAPS proves of the sessions of CaptureEngine: its types, that a   *)
(* row is a file, that at most one session is active and the engine knows  *)
(* it, that no stream is left open, and that a finished session is final.  *)
(***************************************************************************)
EXTENDS CaptureEngine, TLAPS

-----------------------------------------------------------------------------
(***************************************************************************)
(* Type correctness, one lemma per process.                                *)
(***************************************************************************)

\* The metadata operations keep the types of the tables.
LEMMA MetadataTypes ==
  ASSUME MetadataTypeOK
  PROVE  /\ \A s \in Session \cup {NoSession} :
              CreateActiveSession(s) => MetadataTypeOK'
         /\ \A w : \A c \in Chunk : RecordChunk(w, c) => MetadataTypeOK'
         /\ \A w : \A status \in SourceStatus : EndSource(w, status) => MetadataTypeOK'
         /\ \A s : \A status \in SessionStatus : \A d \in Nat :
              FinalizeSession(s, status, d) => MetadataTypeOK'
         /\ \A s : \A e \in Event : AppendEvent(s, e) => MetadataTypeOK'
         /\ UNCHANGED metadata => MetadataTypeOK'
<1>. USE DEF MetadataTypeOK
<1>1. ASSUME NEW s \in Session \cup {NoSession}, CreateActiveSession(s)
      PROVE  MetadataTypeOK'
  <2>1. session' \in [Session -> [status : SessionStatus, duration : Nat, size : Nat]]
    BY <1>1 DEF CreateActiveSession, SessionStatus
  <2>2. source' \in [Source -> [status : SourceStatus, count : Nat]]
    BY <1>1 DEF CreateActiveSession, SourceStatus
  <2>. QED  BY <1>1, <2>1, <2>2 DEF CreateActiveSession
<1>2. ASSUME NEW w, NEW c \in Chunk, RecordChunk(w, c)
      PROVE  MetadataTypeOK'
  <2>1. CASE IsRecorded(w, c)
    BY <1>2, <2>1 DEF RecordChunk
  <2>2. CASE ~IsRecorded(w, c)
    <3>1. row' \in [Source -> SUBSET Chunk]
      BY <1>2, <2>2 DEF RecordChunk
    <3>2. source' \in [Source -> [status : SourceStatus, count : Nat]]
      <4>1. source' = [source EXCEPT ![w].count = @ + 1]
        BY <1>2, <2>2 DEF RecordChunk
      <4>2. ASSUME NEW v \in Source
            PROVE  source'[v] \in [status : SourceStatus, count : Nat]
        <5>1. source[v] \in [status : SourceStatus, count : Nat]
          OBVIOUS
        <5>2. CASE v = w
          BY <4>1, <5>1, <5>2
        <5>3. CASE v # w
          BY <4>1, <5>1, <5>3
        <5>. QED  BY <5>2, <5>3
      <4>. QED  BY <4>1, <4>2
    <3>3. c.size \in Nat
      BY <1>2 DEF Chunk
    <3>4. session' \in [Session -> [status : SessionStatus, duration : Nat, size : Nat]]
      BY <1>2, <2>2, <3>3 DEF RecordChunk
    <3>. QED  BY <1>2, <2>2, <3>1, <3>2, <3>4 DEF RecordChunk
  <2>. QED  BY <2>1, <2>2
<1>3. ASSUME NEW w, NEW status \in SourceStatus, EndSource(w, status)
      PROVE  MetadataTypeOK'
  BY <1>3 DEF EndSource
<1>4. ASSUME NEW s, NEW status \in SessionStatus, NEW d \in Nat, FinalizeSession(s, status, d)
      PROVE  MetadataTypeOK'
  BY <1>4 DEF FinalizeSession
<1>5. ASSUME NEW s, NEW e \in Event, AppendEvent(s, e)
      PROVE  MetadataTypeOK'
  BY <1>5 DEF AppendEvent
<1>6. ASSUME UNCHANGED metadata
      PROVE  MetadataTypeOK'
  BY <1>6 DEF metadata
<1>. QED  BY <1>1, <1>2, <1>3, <1>4, <1>5, <1>6

\* Flushing what a worker holds keeps it a worker.
LEMMA DrainType ==
  ASSUME NEW wk \in Worker, NEW b \in Nat
  PROVE  Drain(wk, b) \in Worker
<1>1. ChunkFrames \in Nat /\ (b >= ChunkFrames => b - ChunkFrames \in Nat)
  BY CaptureAssumption
<1>2. CASE b >= ChunkFrames
  BY <1>1, <1>2 DEF Drain, Worker, WorkerPc
<1>3. CASE ~(b >= ChunkFrames)
  BY <1>3 DEF Drain, Worker, WorkerPc
<1>. QED  BY <1>2, <1>3

\* The records that processes start from have their types.
LEMMA StartTypes ==
  /\ NoWorker \in Worker
  /\ NewWorker \in Worker
  /\ NoOp \in Op
  /\ \A pc \in RecoveryPc : NoRecovery(pc) \in Recovery
<1>1. 0 \in 0..QueueSize
  BY CaptureAssumption
<1>2. NoWorker \in Worker /\ NewWorker \in Worker
  BY <1>1 DEF NoWorker, NewWorker, Worker, WorkerPc
<1>3. (CHOOSE k \in Kind : TRUE) \in Kind
  BY CaptureAssumption
<1>. QED  BY <1>2, <1>3 DEF NoOp, Op, OpName, OpPc, NoRecovery, Recovery

LEMMA InitType == Init => TypeOK
BY StartTypes, CaptureAssumption
   DEF Init, TypeOK, MetadataInit, MetadataTypeOK, SessionStatus, SourceStatus, RecoveryPc

-----------------------------------------------------------------------------
\* Callbacks, watchdogs and writer threads keep the types.
LEMMA WriterTypes ==
  ASSUME TypeOK, NEW w \in Source,
         Frame(w) \/ WatchdogFires(w) \/ Writer(w) \/ WriterFault(w)
  PROVE  TypeOK'
<1>. DEFINE wk == worker[w]
<1>0. wk \in Worker /\ worker \in [Source -> Worker] /\ MetadataTypeOK
  BY DEF TypeOK
<1>1. ASSUME UNCHANGED metadata
      PROVE  MetadataTypeOK'
  BY <1>0, <1>1, MetadataTypes
<1>2. CASE Frame(w)
  <2>1. worker' \in [Source -> Worker]
    <3>1. wk.heard + 1 \in Nat /\ wk.dropped + 1 \in Nat
      BY <1>0 DEF Worker
    <3>2. CASE wk.queued < QueueSize /\ worker' = [worker EXCEPT ![w] =
                 [wk EXCEPT !.queued = @ + 1, !.heard = @ + 1]]
      <4>. DEFINE q == wk.queued + 1
                  h == wk.heard + 1
      <4>1. q \in 0..QueueSize /\ h \in Nat
        BY <1>0, <3>1, <3>2, CaptureAssumption DEF Worker
      <4>2. worker' = [worker EXCEPT ![w] = [wk EXCEPT !.queued = q, !.heard = h]]
        BY <3>2
      <4>. HIDE DEF q, h, wk
      <4>3. [wk EXCEPT !.queued = q, !.heard = h] \in Worker
        BY <1>0, <4>1 DEF Worker
      <4>. QED  BY <1>0, <4>2, <4>3
    <3>3. CASE worker' = [worker EXCEPT ![w] = [wk EXCEPT !.dropped = @ + 1, !.heard = @ + 1]]
      <4>. DEFINE d == wk.dropped + 1
                  h == wk.heard + 1
      <4>1. worker' = [worker EXCEPT ![w] = [wk EXCEPT !.dropped = d, !.heard = h]]
        BY <3>3
      <4>2. d \in Nat /\ h \in Nat
        BY <3>1
      <4>. HIDE DEF d, h, wk
      <4>3. [wk EXCEPT !.dropped = d, !.heard = h] \in Worker
        BY <1>0, <4>2 DEF Worker
      <4>. QED  BY <1>0, <4>1, <4>3
    <3>. QED  BY <1>2, <3>2, <3>3 DEF Frame
  <2>. QED  BY <1>1, <1>2, <2>1 DEF Frame, TypeOK
<1>3. CASE WatchdogFires(w)
  <2>1. worker' \in [Source -> Worker]
    BY <1>0, <1>3 DEF WatchdogFires, Worker
  <2>. QED  BY <1>1, <1>3, <2>1 DEF WatchdogFires, TypeOK
<1>4. CASE TakeFrame(w)
  <2>1. worker' \in [Source -> Worker]
    <3>1. PICK gap \in {0, MaxGap} :
            LET taken == [worker[w] EXCEPT !.queued = @ - 1, !.heard = @ + gap] IN
            worker' = [worker EXCEPT ![w] = Drain(taken, taken.buffer + gap + 1)]
      BY <1>4 DEF TakeFrame
    <3>. DEFINE taken == [wk EXCEPT !.queued = @ - 1, !.heard = @ + gap]
                after == Drain(taken, taken.buffer + gap + 1)
    <3>2. gap \in Nat /\ wk.queued - 1 \in 0..QueueSize /\ wk.heard + gap \in Nat
      BY <1>0, <1>4, CaptureAssumption DEF TakeFrame, Worker
    <3>3. taken \in Worker
      BY <1>0, <3>2 DEF Worker
    <3>4. taken.buffer + gap + 1 \in Nat
      <4>. HIDE DEF taken
      <4>. QED  BY <3>2, <3>3 DEF Worker
    <3>6. after \in Worker
      <4>. HIDE DEF taken
      <4>. QED  BY <3>3, <3>4, DrainType
    <3>5. worker' = [worker EXCEPT ![w] = after]
      BY <3>1
    <3>. HIDE DEF after
    <3>. QED  BY <1>0, <3>5, <3>6
  <2>. QED  BY <1>1, <1>4, <2>1 DEF TakeFrame, TypeOK
<1>5. CASE TakeSentinel(w)
  <2>1. worker' \in [Source -> Worker]
    BY <1>0, <1>5 DEF TakeSentinel, Worker, WorkerPc
  <2>. QED  BY <1>1, <1>5, <2>1 DEF TakeSentinel, TypeOK
<1>6. CASE WriteChunk(w)
  <2>1. worker' \in [Source -> Worker]
    BY <1>0, <1>6 DEF WriteChunk, Worker, WorkerPc
  <2>2. [seq |-> wk.seq, size |-> wk.out] \in Chunk
    BY <1>0 DEF Worker, Chunk
  <2>3. file' \in [Source -> SUBSET Chunk]
    BY <1>6, <2>2 DEF WriteChunk, TypeOK
  <2>. QED  BY <1>1, <1>6, <2>1, <2>3 DEF WriteChunk, TypeOK
<1>7. CASE FinishChunk(w)
  <2>1. [seq |-> wk.seq, size |-> wk.out] \in Chunk
    BY <1>0 DEF Worker, Chunk
  <2>2. MetadataTypeOK'
    BY <1>0, <1>7, <2>1, MetadataTypes DEF FinishChunk
  <2>3. worker' \in [Source -> Worker]
    <3>. DEFINE done == [wk EXCEPT !.seq = @ + 1, !.dur = @ + wk.out]
    <3>1. wk.seq + 1 \in Nat /\ wk.dur + wk.out \in Nat
      BY <1>0 DEF Worker
    <3>2. done \in Worker
      BY <1>0, <3>1 DEF Worker
    <3>3. [done EXCEPT !.pc = "done", !.out = 0] \in Worker /\ done.buffer \in Nat
      BY <3>2 DEF Worker, WorkerPc
    <3>4. Drain(done, done.buffer) \in Worker
      BY <3>2, <3>3, DrainType
    <3>5. worker' = [worker EXCEPT ![w] =
                       IF done.sentinel = "taken" THEN [done EXCEPT !.pc = "done", !.out = 0]
                                                  ELSE Drain(done, done.buffer)]
      BY <1>7 DEF FinishChunk
    <3>. QED  BY <1>0, <3>3, <3>4, <3>5
  <2>. QED  BY <1>7, <2>2, <2>3 DEF FinishChunk, TypeOK
<1>8. CASE WriteFindsDiskFull(w)
  <2>1. worker' \in [Source -> Worker]
    BY <1>0, <1>8 DEF WriteFindsDiskFull, Worker, WorkerPc
  <2>. QED  BY <1>1, <1>8, <2>1 DEF WriteFindsDiskFull, TypeOK
<1>9. CASE WriterDies(w)
  <2>1. worker' \in [Source -> Worker]
    BY <1>0, <1>9 DEF WriterDies, Worker, WorkerPc
  <2>. QED  BY <1>1, <1>9, <2>1 DEF WriterDies, TypeOK
<1>. QED
  BY <1>2, <1>3, <1>4, <1>5, <1>6, <1>7, <1>8, <1>9 DEF Writer, WriterFault

\* Starting a session keeps the types.
LEMMA StartStepTypes ==
  ASSUME TypeOK,
         \/ \E s \in Session : StartSession(s)
         \/ \E k \in Kind : OpenStream(k)
         \/ OpenFails \/ DeviceVanished \/ CreateSession \/ CreateFails \/ TellStarted
  PROVE  TypeOK'
<1>0. worker \in [Source -> Worker] /\ MetadataTypeOK /\ op \in Op
  BY DEF TypeOK
<1>1. ASSUME UNCHANGED metadata
      PROVE  MetadataTypeOK'
  BY <1>0, <1>1, MetadataTypes
<1>2. ASSUME NEW s \in Session, StartSession(s)
      PROVE  TypeOK'
  <2>1. op' \in Op
    BY <1>0, <1>2 DEF StartSession, Begin, Op, OpName, OpPc
  <2>. QED  BY <1>1, <1>2, <2>1 DEF StartSession, TypeOK
<1>3. ASSUME NEW k \in Kind, OpenStream(k)
      PROVE  TypeOK'
  <2>1. op' \in Op
    BY <1>0, <1>3 DEF OpenStream, Op, OpPc
  <2>2. worker' \in [Source -> Worker]
    BY <1>0, <1>3, StartTypes DEF OpenStream
  <2>. QED  BY <1>1, <1>3, <2>1, <2>2 DEF OpenStream, TypeOK
<1>4. CloseOpened \in [Source -> Worker]
  BY <1>0, StartTypes DEF CloseOpened
<1>5. CASE OpenFails
  BY <1>1, <1>4, <1>5, StartTypes DEF OpenFails, TypeOK
<1>6. CASE DeviceVanished
  BY <1>1, <1>6, StartTypes DEF DeviceVanished, TypeOK
<1>7. CASE CreateSession
  <2>1. op.session \in Session \cup {NoSession}
    BY <1>0 DEF Op
  <2>2. MetadataTypeOK'
    BY <1>0, <1>7, <2>1, MetadataTypes DEF CreateSession
  <2>3. worker' \in [Source -> Worker]
    BY <1>0, <1>7 DEF CreateSession, Worker, WorkerPc
  <2>4. op' \in Op
    BY <1>0, <1>7 DEF CreateSession, Op, OpPc
  <2>. QED  BY <1>7, <2>1, <2>2, <2>3, <2>4 DEF CreateSession, TypeOK
<1>8. CASE CreateFails
  BY <1>1, <1>4, <1>8, StartTypes DEF CreateFails, TypeOK
<1>9. CASE TellStarted
  <2>1. <<"started">> \in Event
    BY DEF Event
  <2>2. MetadataTypeOK'
    BY <1>0, <1>9, <2>1, MetadataTypes DEF TellStarted
  <2>3. told' \in [Session -> SUBSET Notification]
    BY <1>9 DEF TellStarted, TypeOK, Notification
  <2>. QED  BY <1>9, <2>2, <2>3, StartTypes DEF TellStarted, TypeOK
<1>. QED
  BY <1>2, <1>3, <1>5, <1>6, <1>7, <1>8, <1>9

\* Ending a source, or the whole session, keeps the types.
LEMMA EndStepTypes ==
  ASSUME TypeOK,
         \/ StopSession
         \/ \E w \in Source : DeviceLost(w) \/ DiskFull(w)
         \/ \E k \in Kind : CloseSource(k)
         \/ RecordDiskLow \/ EndAsync \/ PutSentinel \/ JoinWriter \/ MarkSource
  PROVE  TypeOK'
<1>0. worker \in [Source -> Worker] /\ MetadataTypeOK /\ op \in Op
      /\ active \in Session \cup {NoSession}
  BY DEF TypeOK
<1>1. ASSUME UNCHANGED metadata
      PROVE  MetadataTypeOK'
  BY <1>0, <1>1, MetadataTypes
<1>2. CASE StopSession
  <2>1. op' \in Op
    BY <1>0, <1>2 DEF StopSession, Begin, Op, OpName, OpPc
  <2>2. told' \in [Session -> SUBSET Notification]
    BY <1>2 DEF StopSession, TypeOK, Notification
  <2>. QED  BY <1>1, <1>2, <2>1, <2>2 DEF StopSession, TypeOK
<1>3. ASSUME NEW w \in Source, DeviceLost(w)
      PROVE  TypeOK'
  <2>1. SessionOf(w) \in Session /\ KindOf(w) \in Kind
    BY DEF Source, SessionOf, KindOf
  <2>2. Begin("lost", "close", active, KindOf(w), {KindOf(w)}) \in Op
    BY <1>0, <2>1 DEF Begin, Op, OpName, OpPc
  <2>3. op' \in Op
    BY <1>3, <2>2, StartTypes DEF DeviceLost
  <2>. QED  BY <1>1, <1>3, <2>3 DEF DeviceLost, TypeOK
<1>4. ASSUME NEW w \in Source, DiskFull(w)
      PROVE  TypeOK'
  <2>1. SessionOf(w) \in Session /\ KindOf(w) \in Kind
    BY DEF Source, SessionOf, KindOf
  <2>2. Begin("disk", "disk_low", active, KindOf(w), Kind) \in Op
    BY <1>0, <2>1 DEF Begin, Op, OpName, OpPc
  <2>3. op' \in Op
    BY <1>4, <2>2, StartTypes DEF DiskFull
  <2>. QED  BY <1>1, <1>4, <2>3 DEF DiskFull, TypeOK
<1>5. CASE RecordDiskLow
  <2>1. MetadataTypeOK'
    BY <1>0, <1>5, MetadataTypes DEF RecordDiskLow, Event
  <2>2. op' \in Op
    BY <1>0, <1>5 DEF RecordDiskLow, Op, OpPc
  <2>. QED  BY <1>5, <2>1, <2>2 DEF RecordDiskLow, TypeOK
<1>6. ASSUME NEW k \in Kind, CloseSource(k)
      PROVE  TypeOK'
  <2>1. worker' \in [Source -> Worker]
    BY <1>0, <1>6 DEF CloseSource, Worker
  <2>2. op' \in Op
    BY <1>0, <1>6 DEF CloseSource, Op, OpPc
  <2>. QED  BY <1>1, <1>6, <2>1, <2>2 DEF CloseSource, TypeOK
<1>7. CASE EndAsync
  <2>1. worker' \in [Source -> Worker]
    BY <1>0, <1>7 DEF EndAsync, Worker
  <2>2. op' \in Op
    BY <1>0, <1>7 DEF EndAsync, Op, OpPc
  <2>. QED  BY <1>1, <1>7, <2>1, <2>2 DEF EndAsync, TypeOK
<1>8. CASE PutSentinel
  <2>1. worker' \in [Source -> Worker]
    BY <1>0, <1>8 DEF PutSentinel, Worker
  <2>2. op' \in Op
    BY <1>0, <1>8 DEF PutSentinel, Op, OpPc
  <2>. QED  BY <1>1, <1>8, <2>1, <2>2 DEF PutSentinel, TypeOK
<1>9. CASE JoinWriter
  <2>1. op' \in Op
    BY <1>0, <1>9 DEF JoinWriter, NextSource, Op, OpPc
  <2>. QED  BY <1>1, <1>9, <2>1 DEF JoinWriter, TypeOK
<1>10. CASE MarkSource
  <2>1. MetadataTypeOK'
    BY <1>0, <1>10, MetadataTypes DEF MarkSource, SourceStatus
  <2>2. op' \in Op
    BY <1>0, <1>10 DEF MarkSource, NextSource, Op, OpPc
  <2>. QED  BY <1>10, <2>1, <2>2 DEF MarkSource, TypeOK
<1>. QED
  BY <1>2, <1>3, <1>4, <1>5, <1>6, <1>7, <1>8, <1>9, <1>10

\* An event for a session that does not exist changes nothing.
LEMMA NoEvent ==
  ASSUME MetadataTypeOK, NEW e, AppendEvent(NoSession, e)
  PROVE  MetadataTypeOK'
BY CaptureAssumption DEF AppendEvent, MetadataTypeOK

\* The last steps of an operation keep the types.
LEMMA FinishTypes ==
  ASSUME TypeOK, RecordDeviceLost \/ Finalize \/ RecordStopped \/ OperationFails
  PROVE  TypeOK'
<1>0. worker \in [Source -> Worker] /\ MetadataTypeOK /\ op \in Op
      /\ told \in [Session -> SUBSET Notification]
  BY DEF TypeOK
<1>1. ASSUME UNCHANGED metadata
      PROVE  MetadataTypeOK'
  BY <1>0, <1>1, MetadataTypes
<1>2. Release => /\ active' \in Session \cup {NoSession}
                 /\ op' \in Op
                 /\ told' \in [Session -> SUBSET Notification]
  BY <1>0, StartTypes DEF Release, Notification
<1>3. CASE RecordDeviceLost
  <2>1. MetadataTypeOK'
    <3>1. CASE op.session \in Session
      <4>1. OpSource \in Source /\ op.kind \in Kind
        BY <1>0, <3>1 DEF OpSource, Source, Op
      <4>2. worker[OpSource].seq \in Nat
        BY <1>0, <4>1 DEF Worker
      <4>3. <<"device_lost", op.kind, worker[OpSource].seq>> \in Event
        BY <4>1, <4>2 DEF Event
      <4>. QED  BY <1>0, <1>3, <4>3, MetadataTypes DEF RecordDeviceLost
    <3>2. CASE op.session = NoSession
      BY <1>0, <1>3, <3>2, NoEvent DEF RecordDeviceLost
    <3>. QED  BY <1>0, <3>1, <3>2 DEF Op
  <2>2. op' \in Op
    BY <1>0, <1>3, StartTypes DEF RecordDeviceLost, Op, OpPc
  <2>. QED  BY <1>3, <2>1, <2>2 DEF RecordDeviceLost, TypeOK
<1>4. CASE Finalize
  <2>1. MetadataTypeOK'
    <3>1. PICK w \in Workers(op.session) :
            FinalizeSession(op.session, "completed", worker[w].dur)
      BY <1>4 DEF Finalize
    <3>2. worker[w].dur \in Nat
      BY <1>0 DEF Workers, Worker
    <3>. QED  BY <1>0, <3>1, <3>2, MetadataTypes DEF SessionStatus
  <2>2. CASE op.name = "stop"
    <3>1. op' \in Op
      BY <1>0, <1>4, <2>2 DEF Finalize, Op, OpPc
    <3>. QED  BY <1>4, <2>1, <2>2, <3>1 DEF Finalize, TypeOK
  <2>3. CASE op.name # "stop"
    BY <1>2, <1>4, <2>1, <2>3 DEF Finalize, TypeOK
  <2>. QED  BY <2>2, <2>3
<1>5. CASE RecordStopped
  <2>1. MetadataTypeOK'
    BY <1>0, <1>5, MetadataTypes DEF RecordStopped, Event
  <2>. QED  BY <1>2, <1>5, <2>1 DEF RecordStopped, TypeOK
<1>6. CASE OperationFails
  BY <1>1, <1>6, StartTypes DEF OperationFails, TypeOK
<1>. QED  BY <1>3, <1>4, <1>5, <1>6

\* Nothing but a crash and recovery itself changes where recovery is.
LEMMA OnlyRecoveryRecovers ==
  [Next]_vars => UNCHANGED recovery \/ Crash \/ Recover
<1>1. UNCHANGED vars => UNCHANGED recovery
  BY DEF vars
<1>2. \A w \in Source : Frame(w) \/ WatchdogFires(w) \/ Writer(w) \/ WriterFault(w)
        => UNCHANGED recovery
  BY DEF Frame, WatchdogFires, Writer, WriterFault, TakeFrame, TakeSentinel, WriteChunk,
         FinishChunk, WriteFindsDiskFull, WriterDies
<1>3. /\ \A s \in Session : StartSession(s) => UNCHANGED recovery
      /\ StopSession => UNCHANGED recovery
      /\ \A w \in Source : DeviceLost(w) \/ DiskFull(w) => UNCHANGED recovery
  BY DEF StartSession, StopSession, DeviceLost, DiskFull
<1>4. Operation => UNCHANGED recovery
  BY DEF Operation, OpenStream, CloseSource, CreateSession, TellStarted, RecordDiskLow,
         EndAsync, PutSentinel, JoinWriter, MarkSource, RecordDeviceLost, Finalize,
         RecordStopped
<1>5. OperationFault => UNCHANGED recovery
  BY DEF OperationFault, OpenFails, DeviceVanished, CreateFails, OperationFails
<1>. QED  BY <1>1, <1>2, <1>3, <1>4, <1>5 DEF Next

\* Past its scan, recovery works on a session: TypeOK alone is not inductive.
RecoveryHasSession == recovery.pc \notin {"up", "scan"} => recovery.session \in Session

LEMMA KeepsRecoverySession ==
  ASSUME TypeOK, RecoveryHasSession, [Next]_vars
  PROVE  RecoveryHasSession'
<1>. USE DEF RecoveryHasSession
<1>0. recovery \in Recovery
  BY DEF TypeOK
<1>1. CASE UNCHANGED recovery
  BY <1>1
<1>2. CASE Crash
  BY <1>2 DEF Crash, NoRecovery
<1>3. CASE Recover
  <2>1. CASE RecoverScan
    <3>1. CASE recovery' = NoRecovery("up")
      BY <3>1 DEF NoRecovery
    <3>2. ASSUME NEW s \in Session,
                 recovery' = [recovery EXCEPT !.pc = "source", !.session = s,
                                              !.todo = Kind, !.best = 0]
          PROVE  RecoveryHasSession'
      BY <1>0, <3>2 DEF Recovery
    <3>. QED  BY <2>1, <3>1, <3>2 DEF RecoverScan
  <2>2. ASSUME NEW k \in Kind, RecoverSource(k)
        PROVE  RecoveryHasSession'
    BY <1>0, <2>2 DEF RecoverSource, Recovery
  <2>3. CASE RecoverChunk
    BY <1>0, <2>3 DEF RecoverChunk, Recovery
  <2>4. CASE RecoverMark
    BY <1>0, <2>4 DEF RecoverMark, Recovery
  <2>5. CASE RecoverFinalize
    BY <1>0, <2>5 DEF RecoverFinalize, Recovery
  <2>6. CASE RecoverEvent
    BY <2>6 DEF RecoverEvent, NoRecovery
  <2>. QED  BY <1>3, <2>1, <2>2, <2>3, <2>4, <2>5, <2>6 DEF Recover
<1>. QED
  BY <1>1, <1>2, <1>3, OnlyRecoveryRecovers

\* Process death and recovery keep the types.
LEMMA RecoverTypes ==
  ASSUME TypeOK, RecoveryHasSession, Crash \/ Recover
  PROVE  TypeOK'
<1>0. /\ MetadataTypeOK /\ recovery \in Recovery /\ file \in [Source -> SUBSET Chunk]
      /\ RecoveryHasSession
  BY DEF TypeOK
<1>1. ASSUME UNCHANGED metadata
      PROVE  MetadataTypeOK'
  BY <1>0, <1>1, MetadataTypes
<1>2. \A pc \in {"up", "scan"} : NoRecovery(pc) \in Recovery
  BY StartTypes DEF RecoveryPc
<1>3. CASE Crash
  BY <1>1, <1>2, <1>3, StartTypes, CaptureAssumption DEF Crash, TypeOK
<1>4. CASE RecoverScan
  <2>1. recovery' \in Recovery
    <3>1. CASE recovery' = NoRecovery("up")
      BY <1>2, <3>1
    <3>2. ASSUME NEW s \in Session,
                 recovery' = [recovery EXCEPT !.pc = "source", !.session = s,
                                              !.todo = Kind, !.best = 0]
          PROVE  recovery' \in Recovery
      BY <1>0, <3>2 DEF Recovery, RecoveryPc
    <3>. QED  BY <1>4, <3>1, <3>2 DEF RecoverScan
  <2>. QED  BY <1>1, <1>4, <2>1 DEF RecoverScan, TypeOK, engine
<1>5. ASSUME NEW k \in Kind, RecoverSource(k)
      PROVE  TypeOK'
  <2>1. file[<<recovery.session, k>>] \in SUBSET Chunk
    BY <1>0, <1>5 DEF RecoverSource, RecoveryHasSession, Source
  <2>2. recovery' \in Recovery
    BY <1>0, <1>5, <2>1 DEF RecoverSource, Recovery, RecoveryPc
  <2>. QED  BY <1>1, <1>5, <2>2 DEF RecoverSource, TypeOK, engine
<1>6. CASE RecoverChunk
  <2>1. PICK c \in recovery.left :
          /\ RecordChunk(RecoverSourceAt, c)
          /\ recovery' = [recovery EXCEPT !.left = @ \ {c}, !.total = @ + c.size]
    BY <1>6 DEF RecoverChunk
  <2>2. c \in Chunk /\ c.size \in Nat
    BY <1>0 DEF Recovery, Chunk
  <2>3. MetadataTypeOK'
    BY <1>0, <2>1, <2>2, MetadataTypes
  <2>4. recovery.total + c.size \in Nat /\ recovery.left \ {c} \in SUBSET Chunk
    BY <1>0, <2>2 DEF Recovery
  <2>5. recovery' \in Recovery
    BY <1>0, <2>1, <2>4 DEF Recovery
  <2>. QED  BY <1>6, <2>3, <2>5 DEF RecoverChunk, TypeOK, engine
<1>7. CASE RecoverMark
  <2>1. MetadataTypeOK'
    BY <1>0, <1>7, MetadataTypes DEF RecoverMark, SourceStatus
  <2>2. recovery' \in Recovery
    BY <1>0, <1>7 DEF RecoverMark, Recovery, RecoveryPc
  <2>. QED  BY <1>7, <2>1, <2>2 DEF RecoverMark, TypeOK, engine
<1>8. CASE RecoverFinalize
  <2>1. MetadataTypeOK'
    BY <1>0, <1>8, MetadataTypes DEF RecoverFinalize, SessionStatus, Recovery
  <2>2. recovery' \in Recovery
    BY <1>0, <1>8 DEF RecoverFinalize, Recovery, RecoveryPc
  <2>. QED  BY <1>8, <2>1, <2>2 DEF RecoverFinalize, TypeOK, engine
<1>9. CASE RecoverEvent
  <2>1. MetadataTypeOK'
    BY <1>0, <1>9, MetadataTypes DEF RecoverEvent, Event
  <2>. QED  BY <1>2, <1>9, <2>1 DEF RecoverEvent, TypeOK, engine
<1>. QED  BY <1>3, <1>4, <1>5, <1>6, <1>7, <1>8, <1>9 DEF Recover

TypeInv == TypeOK /\ RecoveryHasSession

LEMMA TypeInvInductive ==
  /\ Init => TypeInv
  /\ TypeInv /\ [Next]_vars => TypeInv'
<1>. USE DEF TypeInv
<1>1. Init => TypeInv
  BY InitType DEF Init, RecoveryHasSession, NoRecovery
<1>2. ASSUME TypeInv, [Next]_vars
      PROVE  TypeInv'
  <2>1. CASE UNCHANGED vars
    BY <1>2, <2>1, KeepsRecoverySession DEF vars, engine, metadata, TypeOK, MetadataTypeOK
  <2>2. CASE Next
    BY <1>2, <2>2, KeepsRecoverySession,
       WriterTypes, StartStepTypes, EndStepTypes, FinishTypes, RecoverTypes
       DEF Next, Operation, OperationFault
  <2>. QED  BY <1>2, <2>1, <2>2
<1>. QED  BY <1>1, <1>2

(***************************************************************************)
(* The tables, the workers, the operation and the recovery keep their      *)
(* types; in particular no queue ever holds more than QueueSize frames.    *)
(***************************************************************************)
THEOREM TypeCorrect == Spec => []TypeOK
<1>1. TypeInv => TypeOK
  BY DEF TypeInv
<1>. QED  BY <1>1, TypeInvInductive, PTL DEF Spec

-----------------------------------------------------------------------------
(***************************************************************************)
(* Rows are files.  RowsAreFiles is not inductive: a writer about to       *)
(* record a chunk, and a recovery about to, must have it on disk.          *)
(***************************************************************************)
WritersHaveFiles ==
  \A w \in Source : worker[w].pc = "record" =>
    [seq |-> worker[w].seq, size |-> worker[w].out] \in file[w]
RecoveryHasFiles == recovery.pc = "chunk" => recovery.left \subseteq file[RecoverSourceAt]
RowInv == TypeInv /\ RowsAreFiles /\ WritersHaveFiles /\ RecoveryHasFiles

\* Files are never removed, and only a writer that has written may record.
LEMMA FilesGrow ==
  ASSUME TypeInv, [Next]_vars
  PROVE  /\ \A w \in Source : file[w] \subseteq file'[w]
         /\ UNCHANGED file \/ \E w \in Source : WriteChunk(w)
<1>0. file \in [Source -> SUBSET Chunk]
  BY DEF TypeInv, TypeOK
<1>1. ASSUME NEW w \in Source, WriteChunk(w)
      PROVE  \A v \in Source : file[v] \subseteq file'[v]
  BY <1>0, <1>1 DEF WriteChunk
<1>2. UNCHANGED vars => UNCHANGED file
  BY DEF vars
<1>3. ASSUME NEW w \in Source,
             Frame(w) \/ WatchdogFires(w) \/ Writer(w) \/ WriterFault(w)
      PROVE  UNCHANGED file \/ WriteChunk(w)
  BY <1>3 DEF Frame, WatchdogFires, Writer, WriterFault, TakeFrame, TakeSentinel,
         FinishChunk, WriteFindsDiskFull, WriterDies
<1>4. /\ \A s \in Session : StartSession(s) => UNCHANGED file
      /\ StopSession => UNCHANGED file
      /\ \A w \in Source : DeviceLost(w) \/ DiskFull(w) => UNCHANGED file
  BY DEF StartSession, StopSession, DeviceLost, DiskFull
<1>5. Operation => UNCHANGED file
  BY DEF Operation, OpenStream, CloseSource, CreateSession, TellStarted, RecordDiskLow,
         EndAsync, PutSentinel, JoinWriter, MarkSource, RecordDeviceLost, Finalize,
         RecordStopped
<1>6. OperationFault => UNCHANGED file
  BY DEF OperationFault, OpenFails, DeviceVanished, CreateFails, OperationFails
<1>7. Crash \/ Recover => UNCHANGED file
  BY DEF Crash, Recover, RecoverScan, RecoverSource, RecoverChunk, RecoverMark,
         RecoverFinalize, RecoverEvent
<1>. QED  BY <1>1, <1>2, <1>3, <1>4, <1>5, <1>6, <1>7 DEF Next

\* Only two actions record a chunk: a writer's and the recovery's.
LEMMA WhoRecords ==
  ASSUME [Next]_vars
  PROVE  UNCHANGED row \/ RecoverChunk \/ \E w \in Source : FinishChunk(w)
<1>. USE DEF EndSource, FinalizeSession, AppendEvent, CreateActiveSession, metadata
<1>1. UNCHANGED vars => UNCHANGED row
  BY DEF vars
<1>2. ASSUME NEW w \in Source,
             Frame(w) \/ WatchdogFires(w) \/ Writer(w) \/ WriterFault(w)
      PROVE  UNCHANGED row \/ FinishChunk(w)
  BY <1>2 DEF Frame, WatchdogFires, Writer, WriterFault, TakeFrame, TakeSentinel,
         WriteChunk, WriteFindsDiskFull, WriterDies
<1>3. /\ \A s \in Session : StartSession(s) => UNCHANGED row
      /\ StopSession => UNCHANGED row
      /\ \A w \in Source : DeviceLost(w) \/ DiskFull(w) => UNCHANGED row
  BY DEF StartSession, StopSession, DeviceLost, DiskFull
<1>4. Operation => UNCHANGED row
  BY DEF Operation, OpenStream, CloseSource, CreateSession, TellStarted, RecordDiskLow,
         EndAsync, PutSentinel, JoinWriter, MarkSource, RecordDeviceLost, Finalize,
         RecordStopped
<1>5. OperationFault => UNCHANGED row
  BY DEF OperationFault, OpenFails, DeviceVanished, CreateFails, OperationFails
<1>6. Crash \/ Recover => UNCHANGED row \/ RecoverChunk
  BY DEF Crash, Recover, RecoverScan, RecoverSource, RecoverMark, RecoverFinalize,
         RecoverEvent
<1>. QED  BY <1>1, <1>2, <1>3, <1>4, <1>5, <1>6 DEF Next

\* Recording a chunk adds no other row than that chunk's.
LEMMA RecordAdds ==
  ASSUME MetadataTypeOK, NEW w \in Source, NEW c, RecordChunk(w, c)
  PROVE  \A v \in Source : row'[v] \subseteq row[v] \cup (IF v = w THEN {c} ELSE {})
BY DEF RecordChunk, MetadataTypeOK

\* A writer reaches "record" only by writing, and stays at the same chunk there.
LEMMA RecordFollowsWrite ==
  ASSUME TypeInv, [Next]_vars, NEW w \in Source, worker'[w].pc = "record"
  PROVE  \/ WriteChunk(w)
         \/ /\ worker[w].pc = "record"
            /\ worker'[w].seq = worker[w].seq
            /\ worker'[w].out = worker[w].out
<1>. DEFINE Kept(v) == /\ worker[v].pc = "record"
                       /\ worker'[v].seq = worker[v].seq
                       /\ worker'[v].out = worker[v].out
<1>. SUFFICES ASSUME ~WriteChunk(w)
              PROVE  Kept(w)
  OBVIOUS
<1>0. worker \in [Source -> Worker]
  BY DEF TypeInv, TypeOK
<1>1. CASE UNCHANGED worker
  BY <1>1
<1>2. CASE \E v \in Source : Frame(v) \/ WatchdogFires(v)
  BY <1>0, <1>2 DEF Frame, WatchdogFires, Worker
<1>3. ASSUME NEW v \in Source, Writer(v) \/ WriterFault(v)
      PROVE  Kept(w)
  <2>1. v # w => worker'[w] = worker[w]
    BY <1>0, <1>3 DEF Writer, WriterFault, TakeFrame, TakeSentinel, WriteChunk, FinishChunk,
                      WriteFindsDiskFull, WriterDies
  <2>2. ASSUME v = w
        PROVE  FALSE
    <3>1. CASE TakeFrame(w)
      <4>1. worker'[w].pc \in {"write", "get"}
        BY <1>0, <3>1 DEF TakeFrame, Drain, Worker
      <4>. QED  BY <4>1
    <3>2. CASE TakeSentinel(w)
      BY <1>0, <3>2 DEF TakeSentinel, Worker
    <3>3. CASE FinishChunk(w)
      <4>1. worker'[w].pc \in {"done", "write", "get"}
        BY <1>0, <3>3 DEF FinishChunk, Drain, Worker
      <4>. QED  BY <4>1
    <3>4. CASE WriterFault(w)
      BY <1>0, <3>4 DEF WriterFault, WriteFindsDiskFull, WriterDies, Worker
    <3>. QED  BY <1>3, <2>2, <3>1, <3>2, <3>3, <3>4 DEF Writer
  <2>. QED  BY <1>0, <2>1, <2>2
<1>4. /\ \A s \in Session : StartSession(s) => UNCHANGED worker
      /\ StopSession => UNCHANGED worker
      /\ \A v \in Source : DeviceLost(v) \/ DiskFull(v) => UNCHANGED worker
  BY DEF StartSession, StopSession, DeviceLost, DiskFull
<1>5. ASSUME NEW k \in Kind, OpenStream(k) \/ CloseSource(k)
      PROVE  Kept(w)
  <2>1. CASE OpenStream(k)
    <3>1. NewWorker.pc = "new"
      BY DEF NewWorker, NoWorker
    <3>2. worker'[w] = worker[w] \/ worker'[w] = NewWorker
      BY <1>0, <2>1 DEF OpenStream
    <3>. QED  BY <3>1, <3>2
  <2>2. CASE CloseSource(k)
    BY <1>0, <2>2 DEF CloseSource, Worker
  <2>. QED  BY <1>5, <2>1, <2>2
<1>6. CASE CreateSession
  BY <1>0, <1>6 DEF CreateSession, Worker
<1>7. CASE EndAsync \/ PutSentinel
  BY <1>0, <1>7 DEF EndAsync, PutSentinel, Worker
<1>8. TellStarted \/ RecordDiskLow \/ JoinWriter \/ MarkSource \/ RecordDeviceLost
        \/ Finalize \/ RecordStopped => UNCHANGED worker
  BY DEF TellStarted, RecordDiskLow, JoinWriter, MarkSource, RecordDeviceLost, Finalize,
         RecordStopped
<1>9. CASE OperationFault
  BY <1>0, <1>9 DEF OperationFault, OpenFails, DeviceVanished, CreateFails, OperationFails,
                    CloseOpened, NoWorker
<1>10. CASE Crash
  BY <1>10 DEF Crash, NoWorker
<1>11. Recover => UNCHANGED worker
  BY DEF Recover, RecoverScan, RecoverSource, RecoverChunk, RecoverMark, RecoverFinalize,
         RecoverEvent, engine
<1>. QED
  BY <1>1, <1>2, <1>3, <1>4, <1>5, <1>6, <1>7, <1>8, <1>9, <1>10, <1>11
     DEF Next, Operation, vars, engine

LEMMA RowInvInductive ==
  /\ Init => RowInv
  /\ RowInv /\ [Next]_vars => RowInv'
<1>1. Init => RowInv
  <2>1. Init => TypeInv
    BY TypeInvInductive
  <2>. QED
    BY <2>1 DEF Init, RowInv, MetadataInit, RowsAreFiles, WritersHaveFiles, NoWorker,
                RecoveryHasFiles, NoRecovery
<1>2. RowInv /\ [Next]_vars => RowInv'
  <2>. SUFFICES ASSUME RowInv, [Next]_vars
                PROVE  RowInv'
    OBVIOUS
  <2>. USE DEF RowInv
  <2>0. /\ TypeInv' /\ MetadataTypeOK /\ recovery \in Recovery
        /\ worker \in [Source -> Worker] /\ file \in [Source -> SUBSET Chunk]
    BY TypeInvInductive DEF TypeInv, TypeOK
  <2>1. \A w \in Source : file[w] \subseteq file'[w]
    BY FilesGrow
  <2>2. RowsAreFiles'
    <3>1. CASE UNCHANGED row
      BY <2>1, <3>1 DEF RowsAreFiles
    <3>2. ASSUME NEW w \in Source, FinishChunk(w)
          PROVE  RowsAreFiles'
      <4>1. RecordChunk(w, [seq |-> worker[w].seq, size |-> worker[w].out])
        BY <3>2 DEF FinishChunk
      <4>2. [seq |-> worker[w].seq, size |-> worker[w].out] \in file[w]
        BY <3>2 DEF FinishChunk, WritersHaveFiles
      <4>. QED  BY <2>0, <2>1, <4>1, <4>2, RecordAdds DEF RowsAreFiles
    <3>3. CASE RecoverChunk
      <4>1. PICK c \in recovery.left : RecordChunk(RecoverSourceAt, c)
        BY <3>3 DEF RecoverChunk
      <4>2. c \in file[RecoverSourceAt] /\ RecoverSourceAt \in Source
        BY <2>0, <3>3, <4>1 DEF RecoverChunk, RecoveryHasFiles, TypeInv, RecoveryHasSession,
                                RecoverSourceAt, Recovery, Source
      <4>. QED  BY <2>0, <2>1, <4>1, <4>2, RecordAdds DEF RowsAreFiles
    <3>. QED  BY <3>1, <3>2, <3>3, WhoRecords
  <2>3. WritersHaveFiles'
    <3>. SUFFICES ASSUME NEW w \in Source, worker'[w].pc = "record"
                  PROVE  [seq |-> worker'[w].seq, size |-> worker'[w].out] \in file'[w]
      BY DEF WritersHaveFiles
    <3>1. CASE WriteChunk(w)
      BY <2>0, <3>1 DEF WriteChunk, Worker
    <3>2. CASE ~WriteChunk(w)
      BY <2>1, <3>2, RecordFollowsWrite DEF WritersHaveFiles
    <3>. QED  BY <3>1, <3>2
  <2>4. RecoveryHasFiles'
    <3>. USE DEF RecoveryHasFiles
    <3>1. CASE UNCHANGED recovery
      <4>1. recovery.pc = "chunk" => RecoverSourceAt \in Source
        BY <2>0 DEF TypeInv, RecoveryHasSession, RecoverSourceAt, Recovery, Source
      <4>. QED  BY <2>1, <3>1, <4>1 DEF RecoverSourceAt
    <3>2. CASE Crash \/ RecoverFinalize \/ RecoverEvent
      <4>1. recovery'.pc # "chunk"
        BY <2>0, <3>2 DEF Crash, RecoverFinalize, RecoverEvent, NoRecovery, Recovery
      <4>. QED  BY <4>1
    <3>6. CASE RecoverScan
      <4>1. CASE recovery' = NoRecovery("up")
        BY <4>1 DEF NoRecovery
      <4>2. ASSUME NEW s \in Session,
                   recovery' = [recovery EXCEPT !.pc = "source", !.session = s,
                                                !.todo = Kind, !.best = 0]
            PROVE  recovery'.pc # "chunk"
        BY <2>0, <4>2 DEF Recovery
      <4>. QED  BY <3>6, <4>1, <4>2 DEF RecoverScan
    <3>3. ASSUME NEW k \in Kind, RecoverSource(k)
          PROVE  RecoveryHasFiles'
      BY <2>0, <3>3 DEF RecoverSource, RecoverSourceAt, Recovery
    <3>4. CASE RecoverChunk
      BY <2>0, <3>4 DEF RecoverChunk, RecoverSourceAt, Recovery
    <3>5. CASE RecoverMark
      BY <2>0, <3>5 DEF RecoverMark, Recovery
    <3>. QED  BY <3>1, <3>2, <3>3, <3>4, <3>5, <3>6, OnlyRecoveryRecovers DEF Recover
  <2>. QED  BY <2>0, <2>2, <2>3, <2>4
<1>. QED  BY <1>1, <1>2

(***************************************************************************)
(* Every row names a chunk that is on disk with the same seq and size, in  *)
(* every behaviour: whatever the faults, crashes and interleavings.        *)
(***************************************************************************)
THEOREM RowsOnDisk == Spec => []RowsAreFiles
<1>1. RowInv => RowsAreFiles
  BY DEF RowInv
<1>. QED  BY <1>1, RowInvInductive, PTL DEF Spec

-----------------------------------------------------------------------------
(***************************************************************************)
(* The inductive invariant.  A start works on a session that has no row    *)
(* yet, every other operation on the active one; "stopped" comes after the *)
(* row was finalised.  Nothing runs before recovery is over.               *)
(***************************************************************************)
Starting == op.pc \in {"open", "create"}
Busy == op.pc \notin {"idle", "open", "create"}
StatusOf(s) == session[s].status

EngineHolds ==
  /\ Starting => op.session \in Session /\ active = NoSession /\ StatusOf(op.session) = "absent"
  /\ Busy => active \in Session /\ op.session = active
  /\ active # NoSession => StatusOf(active) \in {"active", "completed"}
  /\ active # NoSession /\ StatusOf(active) = "completed" =>
       op.pc = "stopped" \/ "sqlite" \in Faults
  /\ op.pc = "stopped" => StatusOf(active) = "completed"

ActiveHolds ==
  /\ \A s, t \in Session : StatusOf(s) = "active" /\ StatusOf(t) = "active" => s = t
  /\ Serving => \A s \in Session : StatusOf(s) = "active" => s = active

Quiet == ~Serving =>
  /\ active = NoSession /\ op = NoOp
  /\ worker = [w \in Source |-> NoWorker]
  /\ told = [s \in Session |-> {}]

RecoveryHolds ==
  /\ recovery.pc \in {"source", "chunk", "finalize"} => StatusOf(recovery.session) = "active"
  /\ recovery.pc = "event" => StatusOf(recovery.session) = "interrupted"

(***************************************************************************)
(* How far an operation is with the sources of its session: those it has   *)
(* gone past have ended, and only an active session has one to end.        *)
(***************************************************************************)
Ended(k) == worker[<<op.session, k>>].ended
AtSource == op.pc \in {"end", "put", "join", "rejoin", "mark", "device_lost"}
StartHolds ==
  Starting => /\ \A k \in Kind : worker[<<op.session, k>>].pc
                                   = IF k \in op.todo THEN "none" ELSE "new"
              /\ op.pc = "create" => op.todo = {}
EndHolds ==
  /\ op.pc = "disk_low" => op.name = "disk" /\ op.todo = Kind
  /\ op.pc = "rejoin" => op.name # "lost"
  /\ op.pc \in {"close", "end", "put", "join", "rejoin", "mark"} /\ op.name # "lost" =>
       \A k \in Kind : k \in op.todo \/ (op.pc = "end" /\ k = op.kind) \/ Ended(k)
  /\ op.pc \in {"put", "join", "rejoin", "mark", "device_lost"} => Ended(op.kind)
  /\ op.pc \in {"finalize", "stopped"} => \A k \in Kind : Ended(k)
  /\ AtSource => ~worker[OpSource].stream
  /\ (AtSource /\ op.pc # "rejoin") \/ (op.pc = "close" /\ op.name = "lost") =>
       StatusOf(op.session) = "active"

(***************************************************************************)
(* The workers: there is one of a session from the start of the session to *)
(* the end of the process; it ends no later than its session does.         *)
(***************************************************************************)
Ready(wk) == /\ ~wk.ended /\ wk.sentinel = "no"
             /\ wk.buffer = 0 /\ wk.out = 0 /\ wk.seq = 0 /\ wk.dur = 0
             /\ wk.heard = wk.queued + wk.dropped
WorkerHolds(w) ==
  LET wk == worker[w]
      status == StatusOf(SessionOf(w))
  IN
  /\ wk.pc = "none" => wk = NoWorker
  /\ wk.pc = "new" => Ready(wk) /\ status = "absent"
  /\ wk.pc = "new" => (Starting /\ op.session = SessionOf(w)) \/ "vanished" \in Faults
  /\ wk.pc \notin {"none", "new"} => status \in {"active", "completed"}
  /\ wk.pc \notin {"none", "new"} => SessionOf(w) = active \/ wk.ended
  /\ status = "completed" => wk.pc = "none" \/ wk.ended
  /\ wk.ended => ~wk.stream \/ wk.pc = "full"
  /\ wk.sentinel # "no" => wk.ended /\ ~wk.stream
  /\ SessionOf(w) = active => wk.pc \notin {"none", "new"}
WorkersHold == \A w \in Source : WorkerHolds(w)

\* A join that does not give up returns when its writer has.
WritersJoined ==
  \A w \in Source : worker[w].ended => Exited(w) \/ (op.pc \in {"put", "join"} /\ w = OpSource)

SessionInv ==
  /\ TypeInv
  /\ EngineHolds /\ ActiveHolds /\ Quiet /\ RecoveryHolds
  /\ StartHolds /\ EndHolds /\ WorkersHold

-----------------------------------------------------------------------------
\* A source is the pair of its session and its kind.
LEMMA SourceIs ==
  /\ \A w \in Source : /\ SessionOf(w) \in Session /\ KindOf(w) \in Kind
                       /\ w = <<SessionOf(w), KindOf(w)>>
  /\ \A s \in Session : \A k \in Kind : /\ <<s, k>> \in Source
                                        /\ SessionOf(<<s, k>>) = s
                                        /\ KindOf(<<s, k>>) = k
BY DEF Source, SessionOf, KindOf

\* The metadata operations, as far as the status of a session goes.
LEMMA StatusSteps ==
  ASSUME MetadataTypeOK
  PROVE  /\ UNCHANGED metadata => \A s \in Session : session'[s] = session[s]
         /\ \A w \in Source : \A c : RecordChunk(w, c) =>
              \A s \in Session : session'[s].status = session[s].status
         /\ \A w : \A status : EndSource(w, status) => UNCHANGED session
         /\ \A s : \A e : AppendEvent(s, e) => UNCHANGED session
         /\ \A s : CreateActiveSession(s) =>
              \A t \in Session : session'[t].status = IF t = s THEN "active"
                                                     ELSE session[t].status
         /\ \A s : \A status : \A d : FinalizeSession(s, status, d) =>
              \A t \in Session :
                session'[t].status = IF t = s /\ session[t].status = "active" THEN status
                                     ELSE session[t].status
<1>. USE DEF MetadataTypeOK
<1>1. ASSUME NEW w \in Source, NEW c, RecordChunk(w, c), NEW s \in Session
      PROVE  session'[s].status = session[s].status
  BY <1>1 DEF RecordChunk
<1>2. ASSUME NEW s, CreateActiveSession(s), NEW t \in Session
      PROVE  session'[t].status = IF t = s THEN "active" ELSE session[t].status
  BY <1>2 DEF CreateActiveSession
<1>3. ASSUME NEW s, NEW status, NEW d, FinalizeSession(s, status, d), NEW t \in Session
      PROVE  session'[t].status = IF t = s /\ session[t].status = "active" THEN status
                                  ELSE session[t].status
  BY <1>3 DEF FinalizeSession
<1>. QED  BY <1>1, <1>2, <1>3 DEF EndSource, AppendEvent, metadata

SameStatus == \A s \in Session : StatusOf(s)' = StatusOf(s)
Core == EngineHolds /\ ActiveHolds /\ RecoveryHolds

\* Steps of the writers, the callbacks and their queues leave the sessions alone.
LEMMA WriterKeepsCore ==
  ASSUME TypeInv, TypeInv', Core, NEW w \in Source,
         Frame(w) \/ WatchdogFires(w) \/ Writer(w) \/ WriterFault(w)
  PROVE  Core' /\ SameStatus /\ UNCHANGED <<active, op, recovery, told>>
<1>1. MetadataTypeOK /\ active \in Session \cup {NoSession} /\ op \in Op
      /\ recovery \in Recovery
  BY DEF TypeInv, TypeOK
<1>2. UNCHANGED <<active, op, recovery, told>>
  BY DEF Frame, WatchdogFires, Writer, WriterFault, TakeFrame, TakeSentinel, WriteChunk,
         FinishChunk, WriteFindsDiskFull, WriterDies
<1>3. SameStatus
  <2>1. CASE FinishChunk(w)
    BY <1>1, <2>1, StatusSteps DEF FinishChunk, SameStatus, StatusOf
  <2>2. CASE ~FinishChunk(w)
    <3>1. UNCHANGED metadata
      BY <2>2 DEF Frame, WatchdogFires, Writer, WriterFault, TakeFrame, TakeSentinel,
                  WriteChunk, WriteFindsDiskFull, WriterDies
    <3>. QED  BY <1>1, <3>1, StatusSteps DEF SameStatus, StatusOf
  <2>. QED  BY <2>1, <2>2
<1>4. Core'
  <2>1. EngineHolds'
    BY <1>1, <1>2, <1>3 DEF Core, EngineHolds, SameStatus, Starting, Busy, Op
  <2>2. ActiveHolds'
    BY <1>2, <1>3 DEF Core, ActiveHolds, SameStatus, Serving
  <2>3. RecoveryHolds'
    BY <1>1, <1>2, <1>3 DEF Core, RecoveryHolds, SameStatus, TypeInv, RecoveryHasSession
  <2>. QED  BY <2>1, <2>2, <2>3 DEF Core
<1>. QED  BY <1>2, <1>3, <1>4

\* Nothing but recovery runs before recovery is over.
LEMMA OperationServes ==
  ASSUME Quiet, op.pc # "idle" \/ LockFree
  PROVE  Serving
BY DEF Quiet, LockFree, NoOp

LEMMA StartKeepsCore ==
  ASSUME TypeInv, TypeInv', Core, Quiet,
         \/ \E s \in Session : StartSession(s)
         \/ \E k \in Kind : OpenStream(k)
         \/ OpenFails \/ DeviceVanished \/ CreateSession \/ CreateFails \/ TellStarted
  PROVE  Core'
<1>. USE DEF EngineHolds, Starting, Busy
<1>0. /\ MetadataTypeOK /\ active \in Session \cup {NoSession} /\ op \in Op
      /\ recovery \in Recovery /\ NoSession \notin Session
  BY CaptureAssumption DEF TypeInv, TypeOK
<1>1. UNCHANGED recovery
  BY DEF StartSession, OpenStream, OpenFails, DeviceVanished, CreateSession, CreateFails,
         TellStarted
<1>2. Serving
  BY OperationServes
     DEF StartSession, OpenStream, OpenFails, DeviceVanished, CreateSession, CreateFails,
         TellStarted, AtOp
<1>3. RecoveryHolds'
  BY <1>1, <1>2 DEF RecoveryHolds, Serving
<1>4. ASSUME SameStatus, UNCHANGED active
      PROVE  ActiveHolds'
  BY <1>1, <1>4 DEF Core, ActiveHolds, SameStatus, Serving
<1>5. UNCHANGED session => SameStatus
  BY DEF SameStatus, StatusOf
<1>6. ASSUME NEW s \in Session, StartSession(s)
      PROVE  Core'
  <2>1. SameStatus /\ UNCHANGED active /\ active = NoSession /\ StatusOf(s) = "absent"
    BY <1>5, <1>6 DEF StartSession, metadata, StatusOf
  <2>2. op' = Begin("start", "open", s, op.kind, Kind)
    BY <1>6 DEF StartSession
  <2>3. EngineHolds'
    BY <1>0, <2>1, <2>2 DEF Core, SameStatus, Begin
  <2>. QED  BY <1>3, <1>4, <2>1, <2>3 DEF Core
<1>7. ASSUME NEW k \in Kind, OpenStream(k)
      PROVE  Core'
  <2>1. SameStatus /\ UNCHANGED active
    BY <1>5, <1>7 DEF OpenStream, metadata
  <2>2. EngineHolds'
    BY <1>0, <1>7, <2>1 DEF Core, SameStatus, OpenStream, Op, AtOp
  <2>. QED  BY <1>3, <1>4, <2>1, <2>2 DEF Core
<1>8. CASE OpenFails \/ DeviceVanished \/ CreateFails \/ TellStarted
  <2>1. SameStatus /\ UNCHANGED active /\ op' = NoOp
    BY <1>0, <1>5, <1>8, StatusSteps
       DEF OpenFails, DeviceVanished, CreateFails, TellStarted, metadata
  <2>2. op.pc # "stopped"
    BY <1>8 DEF OpenFails, DeviceVanished, CreateFails, TellStarted, AtOp
  <2>3. EngineHolds'
    BY <1>0, <2>1, <2>2 DEF Core, SameStatus, NoOp
  <2>. QED  BY <1>3, <1>4, <2>1, <2>3 DEF Core
<1>9. CASE CreateSession
  <2>1. op.session \in Session /\ active' = op.session
    BY <1>9 DEF Core, CreateSession, AtOp
  <2>2. \A t \in Session : StatusOf(t)' = IF t = op.session THEN "active" ELSE StatusOf(t)
    BY <1>0, <1>9, StatusSteps DEF CreateSession, StatusOf
  <2>3. \A t \in Session : StatusOf(t) # "active"
    BY <1>9 DEF CreateSession, CreateActiveSession, StatusOf
  <2>4. ActiveHolds'
    BY <2>1, <2>2, <2>3 DEF ActiveHolds
  <2>5. EngineHolds'
    BY <1>0, <1>9, <2>1, <2>2 DEF CreateSession, Op
  <2>. QED  BY <1>3, <2>4, <2>5 DEF Core
<1>. QED  BY <1>6, <1>7, <1>8, <1>9

LEMMA EndKeepsCore ==
  ASSUME TypeInv, TypeInv', Core, Quiet,
         \/ StopSession
         \/ \E w \in Source : DeviceLost(w) \/ DiskFull(w)
         \/ \E k \in Kind : CloseSource(k)
         \/ RecordDiskLow \/ EndAsync \/ PutSentinel \/ JoinWriter \/ MarkSource
  PROVE  Core' /\ SameStatus /\ UNCHANGED <<active, recovery>>
<1>. USE DEF EngineHolds, Starting, Busy
<1>0. /\ MetadataTypeOK /\ active \in Session \cup {NoSession} /\ op \in Op
      /\ recovery \in Recovery /\ NoSession \notin Session
  BY CaptureAssumption DEF TypeInv, TypeOK
<1>1. UNCHANGED <<active, recovery>>
  BY DEF StopSession, DeviceLost, DiskFull, CloseSource, RecordDiskLow, EndAsync, PutSentinel,
         JoinWriter, MarkSource
<1>2. Serving
  BY OperationServes
     DEF StopSession, DeviceLost, DiskFull, CloseSource, RecordDiskLow, EndAsync, PutSentinel,
         JoinWriter, MarkSource, AtOp
<1>3. UNCHANGED session
  BY <1>0, StatusSteps
     DEF StopSession, DeviceLost, DiskFull, CloseSource, RecordDiskLow, EndAsync, PutSentinel,
         JoinWriter, MarkSource, metadata
<1>4. SameStatus
  BY <1>3 DEF SameStatus, StatusOf
<1>5. RecoveryHolds' /\ ActiveHolds'
  BY <1>1, <1>2, <1>4 DEF Core, ActiveHolds, RecoveryHolds, SameStatus, Serving
<1>6. EngineHolds'
  <2>1. CASE StopSession
    BY <1>0, <1>1, <1>4, <2>1 DEF Core, SameStatus, StopSession, LockFree, AtOp, Begin
  <2>2. ASSUME NEW w \in Source, DeviceLost(w) \/ DiskFull(w)
        PROVE  EngineHolds'
    <3>1. \/ op' = NoOp
          \/ active # NoSession /\ op' = Begin("lost", "close", active, KindOf(w), {KindOf(w)})
          \/ active # NoSession /\ op' = Begin("disk", "disk_low", active, KindOf(w), Kind)
      BY <2>2 DEF DeviceLost, DiskFull
    <3>2. op.pc = "idle"
      BY <2>2 DEF DeviceLost, DiskFull, LockFree, AtOp
    <3>. QED  BY <1>0, <1>1, <1>4, <3>1, <3>2 DEF Core, SameStatus, Begin, NoOp
  <2>3. CASE \/ \E k \in Kind : CloseSource(k)
             \/ RecordDiskLow \/ EndAsync \/ PutSentinel \/ JoinWriter \/ MarkSource
    <3>1. /\ Busy /\ op.pc # "stopped"
          /\ op'.session = op.session /\ op'.pc \notin {"idle", "open", "create", "stopped"}
      BY <1>0, <2>3 DEF CloseSource, RecordDiskLow, EndAsync, PutSentinel, JoinWriter,
                        MarkSource, AtOp, Op, NextSource
    <3>. QED  BY <1>0, <1>1, <1>4, <3>1 DEF Core, SameStatus
  <2>. QED  BY <2>1, <2>2, <2>3
<1>. QED  BY <1>1, <1>4, <1>5, <1>6 DEF Core

LEMMA FinishKeepsCore ==
  ASSUME TypeInv, TypeInv', Core, Quiet,
         RecordDeviceLost \/ Finalize \/ RecordStopped \/ OperationFails
  PROVE  Core'
<1>. USE DEF EngineHolds, Starting, Busy
<1>0. /\ MetadataTypeOK /\ active \in Session \cup {NoSession} /\ op \in Op
      /\ recovery \in Recovery /\ NoSession \notin Session
  BY CaptureAssumption DEF TypeInv, TypeOK
<1>1. UNCHANGED recovery
  BY DEF RecordDeviceLost, Finalize, RecordStopped, OperationFails
<1>2. Serving /\ Busy /\ op.session = active /\ active \in Session
  BY OperationServes
     DEF RecordDeviceLost, Finalize, RecordStopped, OperationFails, AtOp, Core
<1>3. RecoveryHolds'
  BY <1>1, <1>2 DEF RecoveryHolds, Serving
<1>4. CASE RecordDeviceLost \/ OperationFails
  <2>1. UNCHANGED <<session, active>>
    BY <1>0, <1>4, StatusSteps DEF RecordDeviceLost, OperationFails, metadata
  <2>2. op' = NoOp \/ op' = [op EXCEPT !.pc = "finalize"]
    BY <1>4 DEF RecordDeviceLost, OperationFails
  <2>3. StatusOf(active) = "completed" => "sqlite" \in Faults
    BY <1>0, <1>2, <1>4 DEF Core, RecordDeviceLost, OperationFails, AtOp
  <2>4. EngineHolds'
    BY <1>0, <1>2, <2>1, <2>2, <2>3 DEF Core, NoOp, Op, StatusOf
  <2>5. ActiveHolds'
    BY <1>1, <2>1 DEF Core, ActiveHolds, StatusOf, Serving
  <2>. QED  BY <1>3, <2>4, <2>5 DEF Core
<1>5. CASE Finalize
  <2>1. PICK d : FinalizeSession(op.session, "completed", d)
    BY <1>5 DEF Finalize
  <2>2. \A t \in Session : StatusOf(t)' = IF t = active /\ StatusOf(t) = "active"
                                            THEN "completed" ELSE StatusOf(t)
    BY <1>0, <1>2, <2>1, StatusSteps DEF StatusOf
  <2>3. \A t \in Session : StatusOf(t)' # "active"
    BY <1>2, <2>2 DEF Core, ActiveHolds
  <2>4. ActiveHolds'
    BY <2>3 DEF ActiveHolds
  <2>5. session'[active].status = "completed"
    BY <1>0, <1>2, <2>2 DEF Core, StatusOf
  <2>6. \/ op' = [op EXCEPT !.pc = "stopped"] /\ UNCHANGED active
        \/ op' = NoOp /\ active' = NoSession
    BY <1>5 DEF Finalize, Release
  <2>7. EngineHolds'
    BY <1>0, <1>2, <2>5, <2>6 DEF NoOp, Op, StatusOf
  <2>. QED  BY <1>3, <2>4, <2>7 DEF Core
<1>6. CASE RecordStopped
  <2>1. UNCHANGED session /\ op' = NoOp /\ active' = NoSession
    BY <1>0, <1>6, StatusSteps DEF RecordStopped, Release
  <2>2. \A t \in Session : StatusOf(t) # "active"
    BY <1>0, <1>2, <1>6 DEF Core, ActiveHolds, RecordStopped, AtOp
  <2>. QED  BY <1>0, <1>3, <2>1, <2>2 DEF Core, ActiveHolds, StatusOf, NoOp
<1>. QED  BY <1>4, <1>5, <1>6

LEMMA RecoverKeepsCore ==
  ASSUME TypeInv, TypeInv', Core, Quiet, Crash \/ Recover
  PROVE  Core' /\ Quiet'
<1>. USE DEF EngineHolds, Starting, Busy
<1>0. /\ MetadataTypeOK /\ active \in Session \cup {NoSession} /\ op \in Op
      /\ recovery \in Recovery /\ NoSession \notin Session
      /\ recovery.pc \notin {"up", "scan"} => recovery.session \in Session
  BY CaptureAssumption DEF TypeInv, TypeOK, RecoveryHasSession
<1>1. CASE Crash
  <2>1. UNCHANGED session /\ active' = NoSession /\ op' = NoOp /\ recovery' = NoRecovery("scan")
    BY <1>1 DEF Crash, metadata
  <2>2. EngineHolds'
    BY <2>1 DEF NoOp
  <2>3. ActiveHolds' /\ RecoveryHolds'
    BY <2>1 DEF Core, ActiveHolds, RecoveryHolds, StatusOf, Serving, NoRecovery
  <2>4. Quiet'
    BY <1>1 DEF Quiet, Crash
  <2>. QED  BY <2>2, <2>3, <2>4 DEF Core
<1>2. CASE Recover
  <2>1. ~Serving /\ active = NoSession /\ op = NoOp /\ UNCHANGED <<active, op, worker, told>>
    BY <1>2 DEF Recover, RecoverScan, RecoverSource, RecoverChunk, RecoverMark, RecoverFinalize,
                RecoverEvent, engine, Serving, Quiet
  <2>2. EngineHolds' /\ Quiet'
    BY <2>1 DEF NoOp, Quiet
  <2>. SUFFICES ActiveHolds' /\ RecoveryHolds'
    BY <2>2 DEF Core
  <2>3. CASE RecoverScan
    <3>1. UNCHANGED session
      BY <2>3 DEF RecoverScan, metadata
    <3>2. ASSUME NEW s \in Session, StatusOf(s) = "active",
                 recovery' = [recovery EXCEPT !.pc = "source", !.session = s,
                                              !.todo = Kind, !.best = 0]
          PROVE  ActiveHolds' /\ RecoveryHolds'
      BY <1>0, <3>1, <3>2 DEF Core, ActiveHolds, RecoveryHolds, StatusOf, Serving, Recovery
    <3>3. ASSUME \A s \in Session : StatusOf(s) # "active", recovery' = NoRecovery("up")
          PROVE  ActiveHolds' /\ RecoveryHolds'
      BY <1>0, <3>1, <3>3 DEF Core, ActiveHolds, RecoveryHolds, StatusOf, NoRecovery
    <3>. QED  BY <2>3, <3>2, <3>3 DEF RecoverScan, StatusOf
  <2>4. ASSUME NEW k \in Kind, RecoverSource(k)
        PROVE  ActiveHolds' /\ RecoveryHolds'
    BY <1>0, <2>4
       DEF RecoverSource, metadata, Core, ActiveHolds, RecoveryHolds, StatusOf, Serving, Recovery
  <2>5. CASE RecoverChunk
    <3>1. PICK c \in recovery.left :
            /\ RecordChunk(RecoverSourceAt, c)
            /\ recovery' = [recovery EXCEPT !.left = @ \ {c}, !.total = @ + c.size]
      BY <2>5 DEF RecoverChunk
    <3>2. RecoverSourceAt \in Source
      BY <1>0, <2>5 DEF RecoverChunk, RecoverSourceAt, Source, Recovery
    <3>3. SameStatus
      BY <1>0, <3>1, <3>2, StatusSteps DEF SameStatus, StatusOf
    <3>4. recovery.pc = "chunk" /\ recovery'.pc = "chunk" /\ recovery'.session = recovery.session
      BY <1>0, <2>5, <3>1 DEF RecoverChunk, Recovery
    <3>. QED  BY <1>0, <3>3, <3>4 DEF Core, ActiveHolds, RecoveryHolds, SameStatus, Serving
  <2>6. CASE RecoverMark
    <3>1. UNCHANGED session
      BY <1>0, <2>6, StatusSteps DEF RecoverMark
    <3>. QED  BY <1>0, <2>6, <3>1
              DEF RecoverMark, Core, ActiveHolds, RecoveryHolds, StatusOf, Serving, Recovery
  <2>7. CASE RecoverFinalize
    <3>1. \A t \in Session : StatusOf(t)' = IF t = recovery.session /\ StatusOf(t) = "active"
                                              THEN "interrupted" ELSE StatusOf(t)
      BY <1>0, <2>7, StatusSteps DEF RecoverFinalize, StatusOf
    <3>. QED  BY <1>0, <2>7, <3>1
              DEF RecoverFinalize, Core, ActiveHolds, RecoveryHolds, Serving, Recovery
  <2>8. CASE RecoverEvent
    <3>1. UNCHANGED session /\ recovery' = NoRecovery("scan")
      BY <1>0, <2>8, StatusSteps DEF RecoverEvent
    <3>. QED  BY <1>0, <3>1
              DEF Core, ActiveHolds, RecoveryHolds, StatusOf, Serving, NoRecovery
  <2>. QED  BY <1>2, <2>3, <2>4, <2>5, <2>6, <2>7, <2>8 DEF Recover
<1>. QED  BY <1>1, <1>2

\* Only recovery leaves the state in which nothing else runs; no other step enters it.
LEMMA KeepsQuiet ==
  ASSUME TypeInv, Core, Quiet, [Next]_vars
  PROVE  Quiet'
<1>1. CASE UNCHANGED vars
  BY <1>1 DEF vars, engine, Quiet, Serving
<1>2. CASE Crash
  BY <1>2 DEF Crash, Quiet
<1>3. CASE Recover
  BY <1>3 DEF Recover, RecoverScan, RecoverSource, RecoverChunk, RecoverMark, RecoverFinalize,
              RecoverEvent, engine, Serving, Quiet
<1>4. CASE Serving /\ UNCHANGED recovery
  BY <1>4 DEF Quiet, Serving
<1>5. ASSUME ~Serving, Next
      PROVE  Crash \/ Recover
  <2>1. op.pc = "idle" /\ ~LockFree /\ worker = [w \in Source |-> NoWorker]
    BY <1>5 DEF Quiet, LockFree, NoOp
  <2>2. ASSUME NEW w \in Source,
               Frame(w) \/ WatchdogFires(w) \/ Writer(w) \/ WriterFault(w)
        PROVE  FALSE
    BY <2>1, <2>2 DEF Frame, WatchdogFires, Writer, WriterFault, TakeFrame, TakeSentinel,
       WriteChunk, FinishChunk, WriteFindsDiskFull, WriterDies, NoWorker
  <2>3. ~Operation
    BY <2>1 DEF Operation, OpenStream, CloseSource, CreateSession, TellStarted, RecordDiskLow,
       EndAsync, PutSentinel, JoinWriter, MarkSource, RecordDeviceLost, Finalize,
       RecordStopped, AtOp
  <2>4. ~OperationFault
    BY <2>1 DEF OperationFault, OpenFails, DeviceVanished, CreateFails, OperationFails, AtOp
  <2>. QED  BY <1>5, <2>1, <2>2, <2>3, <2>4
            DEF Next, StartSession, StopSession, DeviceLost, DiskFull
<1>. QED  BY <1>1, <1>2, <1>3, <1>4, <1>5, OnlyRecoveryRecovers

-----------------------------------------------------------------------------
(***************************************************************************)
(* What a step of one source's callback, watchdog or writer can do to the  *)
(* worker: only a full disk ends it, and it never opens or closes streams. *)
(***************************************************************************)
Moved(wk, after) ==
  /\ after.stream = wk.stream
  /\ after.sentinel = "no" <=> wk.sentinel = "no"
  /\ wk.ended => after.ended
  /\ after.ended => wk.ended \/ after.pc = "full"
  /\ wk.pc # "none" /\ after.pc # "none"
  /\ wk.pc = "new" => /\ after.pc = "new" /\ (Ready(wk) => Ready(after))
  /\ wk.pc # "new" => after.pc # "new"
  /\ wk.pc \in {"done", "full", "failed"} => after.pc = wk.pc

LEMMA DrainMoves ==
  ASSUME NEW wk \in Worker, NEW b
  PROVE  /\ Drain(wk, b).stream = wk.stream
         /\ Drain(wk, b).sentinel = wk.sentinel
         /\ Drain(wk, b).ended = wk.ended
         /\ Drain(wk, b).queued = wk.queued
         /\ Drain(wk, b).heard = wk.heard
         /\ Drain(wk, b).dropped = wk.dropped
         /\ Drain(wk, b).seq = wk.seq
         /\ Drain(wk, b).dur = wk.dur
         /\ b >= ChunkFrames => /\ Drain(wk, b).pc = "write"
                                /\ Drain(wk, b).out = ChunkFrames
                                /\ Drain(wk, b).buffer = b - ChunkFrames
         /\ ~(b >= ChunkFrames) => /\ Drain(wk, b).pc = "get"
                                   /\ Drain(wk, b).out = 0
                                   /\ Drain(wk, b).buffer = b
<1>1. CASE b >= ChunkFrames
  BY <1>1 DEF Drain, Worker
<1>2. CASE ~(b >= ChunkFrames)
  BY <1>2 DEF Drain, Worker
<1>. QED  BY <1>1, <1>2

LEMMA WriterMoves ==
  ASSUME TypeInv, WorkersHold, NEW v \in Source,
         Frame(v) \/ WatchdogFires(v) \/ Writer(v) \/ WriterFault(v)
  PROVE  /\ \A w \in Source : w # v => worker'[w] = worker[w]
         /\ Moved(worker[v], worker'[v])
<1>. DEFINE wk == worker[v]
<1>0. worker \in [Source -> Worker] /\ wk \in Worker
  BY DEF TypeInv, TypeOK
<1>1. wk.pc = "none" => wk = NoWorker
  BY DEF WorkersHold, WorkerHolds
<1>2. CASE Frame(v)
  <2>1. wk.pc # "none"
    BY <1>1, <1>2 DEF Frame, NoWorker
  <2>2. \/ worker' = [worker EXCEPT ![v] = [wk EXCEPT !.queued = @ + 1, !.heard = @ + 1]]
        \/ worker' = [worker EXCEPT ![v] = [wk EXCEPT !.dropped = @ + 1, !.heard = @ + 1]]
    BY <1>2 DEF Frame
  <2>3. /\ worker'[v].pc = wk.pc /\ worker'[v].stream = wk.stream
        /\ worker'[v].sentinel = wk.sentinel /\ worker'[v].ended = wk.ended
        /\ worker'[v].watched = wk.watched /\ worker'[v].buffer = wk.buffer
        /\ worker'[v].out = wk.out /\ worker'[v].seq = wk.seq /\ worker'[v].dur = wk.dur
        /\ \A w \in Source : w # v => worker'[w] = worker[w]
    <3>1. ASSUME NEW n, worker' = [worker EXCEPT ![v] = n]
          PROVE  worker'[v] = n /\ \A w \in Source : w # v => worker'[w] = worker[w]
      BY <1>0, <3>1
    <3>2. CASE worker' = [worker EXCEPT ![v] = [wk EXCEPT !.queued = @ + 1, !.heard = @ + 1]]
      <4>1. /\ worker'[v] = [wk EXCEPT !.queued = @ + 1, !.heard = @ + 1]
            /\ \A w \in Source : w # v => worker'[w] = worker[w]
        BY <3>1, <3>2
      <4>. QED  BY <1>0, <4>1 DEF Worker
    <3>3. CASE worker' = [worker EXCEPT ![v] = [wk EXCEPT !.dropped = @ + 1, !.heard = @ + 1]]
      <4>1. /\ worker'[v] = [wk EXCEPT !.dropped = @ + 1, !.heard = @ + 1]
            /\ \A w \in Source : w # v => worker'[w] = worker[w]
        BY <3>1, <3>3
      <4>. QED  BY <1>0, <4>1 DEF Worker
    <3>. QED  BY <2>2, <3>2, <3>3
  <2>4. /\ wk.queued \in Nat /\ wk.dropped \in Nat /\ wk.heard \in Nat
        /\ worker'[v].heard = wk.heard + 1
        /\ \/ worker'[v].queued = wk.queued + 1 /\ worker'[v].dropped = wk.dropped
           \/ worker'[v].queued = wk.queued /\ worker'[v].dropped = wk.dropped + 1
    <3>1. wk.queued \in Nat /\ wk.dropped \in Nat /\ wk.heard \in Nat
      BY <1>0, CaptureAssumption DEF Worker
    <3>2. CASE worker' = [worker EXCEPT ![v] = [wk EXCEPT !.queued = @ + 1, !.heard = @ + 1]]
      BY <1>0, <3>1, <3>2 DEF Worker
    <3>3. CASE worker' = [worker EXCEPT ![v] = [wk EXCEPT !.dropped = @ + 1, !.heard = @ + 1]]
      BY <1>0, <3>1, <3>3 DEF Worker
    <3>. QED  BY <2>2, <3>1, <3>2, <3>3
  <2>5. Ready(wk) => Ready(worker'[v])
    BY <2>3, <2>4 DEF Ready
  <2>. QED  BY <2>1, <2>3, <2>5 DEF Moved
<1>3. CASE WatchdogFires(v)
  <2>1. wk.pc # "none"
    BY <1>1, <1>3 DEF WatchdogFires, NoWorker
  <2>2. worker' = [worker EXCEPT ![v] = [wk EXCEPT !.watched = FALSE]]
    BY <1>3 DEF WatchdogFires
  <2>3. Ready(wk) => Ready(worker'[v])
    BY <1>0, <2>2 DEF Ready, Worker
  <2>. QED  BY <1>0, <2>1, <2>2, <2>3 DEF Moved, Worker
<1>4. CASE TakeFrame(v)
  <2>1. PICK gap \in {0, MaxGap} :
          LET taken == [worker[v] EXCEPT !.queued = @ - 1, !.heard = @ + gap] IN
          worker' = [worker EXCEPT ![v] = Drain(taken, taken.buffer + gap + 1)]
    BY <1>4 DEF TakeFrame
  <2>. DEFINE taken == [wk EXCEPT !.queued = @ - 1, !.heard = @ + gap]
              b == taken.buffer + gap + 1
  <2>2. gap \in Nat /\ wk.queued - 1 \in 0..QueueSize /\ wk.heard + gap \in Nat
        /\ wk.pc = "get"
    BY <1>0, <1>4, CaptureAssumption DEF TakeFrame, Worker
  <2>3. taken \in Worker
    BY <1>0, <2>2 DEF Worker
  <2>4. taken.stream = wk.stream /\ taken.sentinel = wk.sentinel /\ taken.ended = wk.ended
    BY <1>0 DEF Worker
  <2>5. worker' = [worker EXCEPT ![v] = Drain(taken, b)]
    BY <2>1
  <2>. HIDE DEF taken, b
  <2>6. worker'[v] = Drain(taken, b) /\ \A w \in Source : w # v => worker'[w] = worker[w]
    BY <1>0, <2>5
  <2>7. Drain(taken, b).pc \in {"write", "get"}
    BY <2>3, DrainMoves
  <2>8. /\ Drain(taken, b).stream = wk.stream /\ Drain(taken, b).sentinel = wk.sentinel
        /\ Drain(taken, b).ended = wk.ended
    BY <2>3, <2>4, DrainMoves, Zenon
  <2>9. /\ worker'[v].stream = wk.stream /\ worker'[v].sentinel = wk.sentinel
        /\ worker'[v].ended = wk.ended /\ worker'[v].pc \in {"write", "get"}
    BY <2>6, <2>7, <2>8, Zenon
  <2>. QED  BY <2>2, <2>6, <2>9 DEF Moved
<1>5. CASE TakeSentinel(v)
  BY <1>0, <1>5 DEF TakeSentinel, Moved, Worker
<1>6. CASE WriteChunk(v) \/ WriteFindsDiskFull(v) \/ WriterDies(v)
  BY <1>0, <1>6 DEF WriteChunk, WriteFindsDiskFull, WriterDies, Moved, Worker
<1>7. CASE FinishChunk(v)
  <2>. DEFINE done == [wk EXCEPT !.seq = @ + 1, !.dur = @ + wk.out]
              last == [done EXCEPT !.pc = "done", !.out = 0]
  <2>1. wk.seq + 1 \in Nat /\ wk.dur + wk.out \in Nat /\ wk.pc = "record"
    BY <1>0, <1>7 DEF FinishChunk, Worker
  <2>2. done \in Worker
    BY <1>0, <2>1 DEF Worker
  <2>3. /\ done.stream = wk.stream /\ done.sentinel = wk.sentinel /\ done.ended = wk.ended
        /\ last.stream = wk.stream /\ last.sentinel = wk.sentinel /\ last.ended = wk.ended
        /\ last.pc = "done"
    BY <1>0 DEF Worker
  <2>4. worker' = [worker EXCEPT ![v] = IF done.sentinel = "taken" THEN last
                                                                 ELSE Drain(done, done.buffer)]
    BY <1>7 DEF FinishChunk
  <2>. HIDE DEF done, last
  <2>5. /\ worker'[v] = last \/ worker'[v] = Drain(done, done.buffer)
        /\ \A w \in Source : w # v => worker'[w] = worker[w]
    BY <1>0, <2>4
  <2>6. Drain(done, done.buffer).pc \in {"write", "get"}
    BY <2>2, DrainMoves
  <2>7. /\ Drain(done, done.buffer).stream = wk.stream
        /\ Drain(done, done.buffer).sentinel = wk.sentinel
        /\ Drain(done, done.buffer).ended = wk.ended
    BY <2>2, <2>3, DrainMoves, Zenon
  <2>8. /\ worker'[v].stream = wk.stream /\ worker'[v].sentinel = wk.sentinel
        /\ worker'[v].ended = wk.ended /\ worker'[v].pc \in {"write", "get", "done"}
    BY <2>3, <2>5, <2>6, <2>7, Zenon
  <2>. QED  BY <2>1, <2>5, <2>8 DEF Moved
<1>. QED  BY <1>2, <1>3, <1>4, <1>5, <1>6, <1>7 DEF Writer, WriterFault

-----------------------------------------------------------------------------
(***************************************************************************)
(* Every process keeps the workers where their session and the operation   *)
(* expect them.                                                            *)
(***************************************************************************)
SessionInvBut == TypeInv /\ Core /\ Quiet /\ StartHolds /\ EndHolds /\ WorkersHold

LEMMA SessionInvIs == SessionInv <=> SessionInvBut
BY DEF SessionInv, SessionInvBut, Core

LEMMA InvTypes ==
  ASSUME SessionInvBut
  PROVE  /\ MetadataTypeOK /\ active \in Session \cup {NoSession} /\ op \in Op
         /\ worker \in [Source -> Worker] /\ recovery \in Recovery
         /\ NoSession \notin Session /\ op.todo \in SUBSET Kind /\ op.kind \in Kind
         /\ Busy => op.session \in Session /\ op.session = active
         /\ Starting => op.session \in Session /\ active = NoSession
BY CaptureAssumption DEF SessionInvBut, TypeInv, TypeOK, Op, Core, EngineHolds

LEMMA WriterKeepsWorkers ==
  ASSUME SessionInvBut, TypeInv', NEW v \in Source,
         Frame(v) \/ WatchdogFires(v) \/ Writer(v) \/ WriterFault(v)
  PROVE  StartHolds' /\ EndHolds' /\ WorkersHold'
<1>. USE DEF SessionInvBut
<1>0. /\ worker \in [Source -> Worker] /\ worker' \in [Source -> Worker] /\ op \in Op
      /\ Starting \/ Busy => op.session \in Session
  BY InvTypes DEF TypeInv, TypeOK
<1>1. SameStatus /\ UNCHANGED <<active, op>>
  BY WriterKeepsCore
<1>2. /\ \A w \in Source : w # v => worker'[w] = worker[w]
      /\ Moved(worker[v], worker'[v])
  BY WriterMoves
<1>3. WorkersHold'
  <2>. SUFFICES ASSUME NEW w \in Source
                PROVE  WorkerHolds(w)'
    BY DEF WorkersHold
  <2>1. StatusOf(SessionOf(w))' = StatusOf(SessionOf(w)) /\ WorkerHolds(w)
    BY <1>1, SourceIs DEF SameStatus, WorkersHold
  <2>2. CASE w = v
    <3>1. worker[v].sentinel # "no" => worker[v].ended
      BY <2>1, <2>2 DEF WorkerHolds
    <3>. QED  BY <1>1, <1>2, <2>1, <2>2, <3>1 DEF WorkerHolds, Moved, Starting
  <2>3. CASE w # v
    BY <1>1, <1>2, <2>1, <2>3 DEF WorkerHolds, Starting
  <2>. QED  BY <2>2, <2>3
<1>4. \A w \in Source : /\ worker[w].ended => worker'[w].ended
                        /\ worker'[w].stream = worker[w].stream
                        /\ worker[w].pc \in {"none", "new"} => worker'[w].pc = worker[w].pc
  BY <1>2 DEF Moved
<1>5. StartHolds'
  BY <1>0, <1>1, <1>4, SourceIs DEF StartHolds, Starting
<1>6. EndHolds'
  <2>1. Busy => \A k \in Kind : Ended(k) => Ended(k)'
    BY <1>0, <1>1, <1>4, SourceIs DEF Ended
  <2>2. Busy => StatusOf(op.session)' = StatusOf(op.session)
    BY <1>0, <1>1 DEF SameStatus
  <2>3. AtSource => OpSource \in Source /\ op.kind \in Kind /\ UNCHANGED OpSource
    BY <1>0, <1>1, SourceIs DEF AtSource, Busy, OpSource, Op
  <2>4. CASE Busy
    BY <1>0, <1>1, <1>4, <2>1, <2>2, <2>3, <2>4 DEF EndHolds, AtSource
  <2>5. CASE ~Busy
    BY <1>1, <2>5 DEF EndHolds, AtSource, Busy
  <2>. QED  BY <2>4, <2>5
<1>. QED  BY <1>3, <1>5, <1>6

\* While a session starts, its workers are there or wait for their turn; no other is touched.
LEMMA StartKeepsWorkers ==
  ASSUME SessionInvBut, TypeInv', Core',
         \/ \E s \in Session : StartSession(s)
         \/ \E k \in Kind : OpenStream(k)
         \/ OpenFails \/ DeviceVanished \/ CreateSession \/ CreateFails \/ TellStarted
  PROVE  StartHolds' /\ EndHolds' /\ WorkersHold'
<1>. USE DEF SessionInvBut
<1>0. /\ MetadataTypeOK /\ worker \in [Source -> Worker] /\ op \in Op
      /\ NoSession \notin Session
      /\ Starting \/ Busy => op.session \in Session
  BY InvTypes
<1>1. UNCHANGED session => \A w \in Source : StatusOf(SessionOf(w))' = StatusOf(SessionOf(w))
  BY DEF StatusOf
<1>2. ASSUME NEW s \in Session, StartSession(s)
      PROVE  StartHolds' /\ EndHolds' /\ WorkersHold'
  <2>1. /\ UNCHANGED <<worker, active, session>> /\ op.pc = "idle"
        /\ op'.pc = "open" /\ op'.session = s /\ op'.todo = Kind
    BY <1>2 DEF StartSession, Begin, metadata, LockFree, AtOp
  <2>2. StartHolds'
    BY <1>2, <2>1, SourceIs DEF StartSession, StartHolds, Workers
  <2>3. EndHolds'
    BY <2>1 DEF EndHolds, AtSource
  <2>4. WorkersHold'
    BY <1>1, <2>1 DEF WorkersHold, WorkerHolds, Starting
  <2>. QED  BY <2>2, <2>3, <2>4
<1>3. ASSUME NEW k \in Kind, OpenStream(k)
      PROVE  StartHolds' /\ EndHolds' /\ WorkersHold'
  <2>. DEFINE v == <<op.session, k>>
  <2>1. /\ UNCHANGED <<active, session>> /\ op.pc = "open" /\ k \in op.todo /\ Starting
        /\ op'.pc \in {"open", "create"} /\ op'.session = op.session /\ op'.todo = op.todo \ {k}
        /\ op'.pc = "create" => op.todo = {k}
        /\ v \in Source /\ SessionOf(v) = op.session
    BY <1>0, <1>3, SourceIs DEF OpenStream, AtOp, Op, metadata, Starting
  <2>2. worker' = [worker EXCEPT ![v] = NewWorker]
    BY <1>3 DEF OpenStream
  <2>3. StartHolds'
    <3>1. ASSUME NEW j \in Kind
          PROVE  worker'[<<op.session, j>>].pc = IF j \in op'.todo THEN "none" ELSE "new"
      BY <1>0, <2>1, <2>2, SourceIs DEF StartHolds, NewWorker, NoWorker
    <3>. QED  BY <2>1, <3>1 DEF StartHolds
  <2>4. EndHolds'
    BY <2>1 DEF EndHolds, AtSource
  <2>5. WorkersHold'
    <3>. SUFFICES ASSUME NEW w \in Source
                  PROVE  WorkerHolds(w)'
      BY DEF WorkersHold
    <3>1. CASE w = v
      <4>1. worker'[w] = NewWorker
        BY <1>0, <2>1, <2>2, <3>1
      <4>2. StatusOf(SessionOf(w))' = "absent" /\ active' # SessionOf(w)
        BY <1>0, <1>1, <2>1, <3>1 DEF Core, EngineHolds
      <4>. QED  BY <2>1, <3>1, <4>1, <4>2 DEF WorkerHolds, NewWorker, NoWorker, Ready, Starting
    <3>2. CASE w # v
      BY <1>0, <1>1, <2>1, <2>2, <3>2 DEF WorkersHold, WorkerHolds, Starting
    <3>. QED  BY <3>1, <3>2
  <2>. QED  BY <2>3, <2>4, <2>5
<1>4. CASE OpenFails \/ CreateFails
  <2>1. /\ UNCHANGED <<active, session>> /\ op' = NoOp /\ worker' = CloseOpened /\ Starting
        /\ active = NoSession
    BY <1>4 DEF OpenFails, CreateFails, metadata, Starting, AtOp, Core, EngineHolds
  <2>2. WorkersHold'
    <3>. SUFFICES ASSUME NEW w \in Source
                  PROVE  WorkerHolds(w)'
      BY DEF WorkersHold
    <3>0. active' # SessionOf(w)
      BY <1>0, <2>1, SourceIs
    <3>1. CASE SessionOf(w) = op.session
      <4>1. worker'[w] = NoWorker
        BY <2>1, <3>1 DEF CloseOpened
      <4>. QED  BY <3>0, <4>1 DEF WorkerHolds, NoWorker
    <3>2. CASE SessionOf(w) # op.session
      <4>1. worker'[w] = worker[w]
        BY <2>1, <3>2 DEF CloseOpened
      <4>. QED  BY <1>1, <2>1, <3>0, <3>2, <4>1 DEF WorkersHold, WorkerHolds
    <3>. QED  BY <3>1, <3>2
  <2>. QED  BY <2>1, <2>2 DEF StartHolds, EndHolds, AtSource, Starting, NoOp
<1>5. CASE DeviceVanished \/ TellStarted
  <2>1. /\ UNCHANGED <<active, session, worker>> /\ op' = NoOp
        /\ Starting => "vanished" \in Faults
    BY <1>0, <1>5, StatusSteps DEF DeviceVanished, TellStarted, metadata, Starting, AtOp
  <2>2. WorkersHold'
    BY <1>1, <2>1 DEF WorkersHold, WorkerHolds
  <2>. QED  BY <2>1, <2>2 DEF StartHolds, EndHolds, AtSource, Starting, NoOp
<1>6. CASE CreateSession
  <2>1. /\ op.pc = "create" /\ Starting /\ op.session \in Session /\ active = NoSession
        /\ active' = op.session /\ op'.pc = "started" /\ op'.session = op.session
        /\ op.todo = {}
    BY <1>0, <1>6 DEF CreateSession, AtOp, Op, Starting, Core, EngineHolds, StartHolds
  <2>2. \A t \in Session : StatusOf(t)' = IF t = op.session THEN "active" ELSE StatusOf(t)
    BY <1>0, <1>6, StatusSteps DEF CreateSession, StatusOf
  <2>3. WorkersHold'
    <3>. SUFFICES ASSUME NEW w \in Source
                  PROVE  WorkerHolds(w)'
      BY DEF WorkersHold
    <3>0. WorkerHolds(w) /\ SessionOf(w) \in Session /\ KindOf(w) \in Kind
          /\ w = <<SessionOf(w), KindOf(w)>>
      BY SourceIs DEF WorkersHold
    <3>1. CASE SessionOf(w) = op.session
      <4>1. worker[w].pc = "new"
        BY <2>1, <3>0, <3>1 DEF StartHolds
      <4>2. worker'[w] = [worker[w] EXCEPT !.pc = "get"]
        BY <1>6, <3>1 DEF CreateSession
      <4>3. StatusOf(SessionOf(w))' = "active"
        BY <2>2, <3>0, <3>1
      <4>4. Ready(worker[w])
        BY <3>0, <4>1 DEF WorkerHolds
      <4>5. /\ worker'[w].pc = "get" /\ ~worker'[w].ended /\ worker'[w].sentinel = "no"
        BY <1>0, <4>2, <4>4 DEF Worker, Ready
      <4>. QED  BY <2>1, <3>1, <4>3, <4>5 DEF WorkerHolds
    <3>2. CASE SessionOf(w) # op.session
      <4>1. worker'[w] = worker[w]
        BY <1>6, <3>2 DEF CreateSession
      <4>2. StatusOf(SessionOf(w))' = StatusOf(SessionOf(w))
        BY <2>2, <3>0, <3>2
      <4>. QED  BY <1>0, <2>1, <3>0, <3>2, <4>1, <4>2 DEF WorkerHolds, Starting
    <3>. QED  BY <3>1, <3>2
  <2>. QED  BY <2>1, <2>3 DEF StartHolds, EndHolds, AtSource, Starting
<1>. QED  BY <1>2, <1>3, <1>4, <1>5, <1>6

\* Ending a source: its stream is closed before it is told to end.
LEMMA EndKeepsWorkers ==
  ASSUME SessionInvBut, TypeInv', Core',
         \/ StopSession
         \/ \E w \in Source : DeviceLost(w) \/ DiskFull(w)
         \/ \E k \in Kind : CloseSource(k)
         \/ RecordDiskLow \/ EndAsync \/ PutSentinel \/ JoinWriter \/ MarkSource
  PROVE  StartHolds' /\ EndHolds' /\ WorkersHold'
<1>. USE DEF SessionInvBut
<1>0. /\ worker \in [Source -> Worker] /\ op \in Op /\ NoSession \notin Session
      /\ active \in Session \cup {NoSession}
      /\ op.todo \in SUBSET Kind /\ op.kind \in Kind
      /\ Busy => op.session \in Session /\ op.session = active
  BY InvTypes
<1>1. SameStatus /\ UNCHANGED active
  BY EndKeepsCore
<1>2. ~Starting /\ ~Starting'
  <2>1. ~Starting
    BY DEF StopSession, DeviceLost, DiskFull, CloseSource, RecordDiskLow, EndAsync, PutSentinel,
           JoinWriter, MarkSource, AtOp, LockFree, Starting
  <2>2. CASE StopSession \/ \E w \in Source : DeviceLost(w) \/ DiskFull(w)
    <3>1. StopSession => op'.pc = "close"
      BY DEF StopSession, Begin
    <3>2. \A w \in Source : DeviceLost(w) => op'.pc \in {"idle", "close"}
      BY DEF DeviceLost, Begin, NoOp
    <3>3. \A w \in Source : DiskFull(w) => op'.pc \in {"idle", "disk_low"}
      BY DEF DiskFull, Begin, NoOp
    <3>. QED  BY <2>1, <2>2, <3>1, <3>2, <3>3 DEF Starting
  <2>3. CASE \/ \E k \in Kind : CloseSource(k)
             \/ RecordDiskLow \/ EndAsync \/ PutSentinel \/ JoinWriter \/ MarkSource
    BY <1>0, <2>1, <2>3 DEF CloseSource, RecordDiskLow, EndAsync, PutSentinel, JoinWriter,
                            MarkSource, Starting, NextSource, Op
  <2>. QED  BY <2>1, <2>2, <2>3
<1>3. StartHolds'
  BY <1>2 DEF StartHolds
<1>4. \A w \in Source : StatusOf(SessionOf(w))' = StatusOf(SessionOf(w))
  BY <1>1, SourceIs DEF SameStatus
<1>5. ASSUME NEW w \in Source, worker'[w] = worker[w]
      PROVE  WorkerHolds(w)'
  BY <1>1, <1>2, <1>4, <1>5 DEF WorkersHold, WorkerHolds
<1>6. UNCHANGED worker => WorkersHold'
  BY <1>5 DEF WorkersHold
<1>7. CASE StopSession
  <2>1. /\ op'.pc = "close" /\ op'.name = "stop" /\ op'.todo = Kind /\ UNCHANGED worker
    BY <1>7 DEF StopSession, Begin
  <2>. QED  BY <1>3, <1>6, <2>1 DEF EndHolds, AtSource
<1>8. ASSUME NEW w \in Source, DeviceLost(w)
      PROVE  EndHolds' /\ WorkersHold'
  <2>1. UNCHANGED worker /\ KindOf(w) \in Kind
    BY <1>8, SourceIs DEF DeviceLost
  <2>2. CASE op' = NoOp
    BY <1>6, <2>1, <2>2 DEF EndHolds, AtSource, NoOp
  <2>3. CASE op' # NoOp
    <3>. DEFINE v == <<active, KindOf(w)>>
    <3>1. /\ active \in Session /\ ~worker[v].ended
          /\ op' = Begin("lost", "close", active, KindOf(w), {KindOf(w)})
      BY <1>0, <1>8, <2>3 DEF DeviceLost
    <3>2. v \in Source /\ SessionOf(v) = active
      BY <2>1, <3>1, SourceIs
    <3>3. StatusOf(active) = "active"
      <4>1. StatusOf(active) \in {"active", "completed"}
        BY <1>0, <3>1 DEF Core, EngineHolds
      <4>. QED  BY <3>1, <3>2, <4>1 DEF WorkersHold, WorkerHolds
    <3>4. StatusOf(active)' = "active"
      BY <1>1, <3>1, <3>3 DEF SameStatus, StatusOf
    <3>. QED  BY <1>1, <1>6, <2>1, <3>1, <3>4 DEF EndHolds, AtSource, Begin
  <2>. QED  BY <2>2, <2>3
<1>9. ASSUME NEW w \in Source, DiskFull(w)
      PROVE  EndHolds' /\ WorkersHold'
  <2>1. UNCHANGED worker /\ (op' = NoOp \/ op' = Begin("disk", "disk_low", active, KindOf(w), Kind))
    BY <1>9 DEF DiskFull
  <2>. QED  BY <1>6, <2>1 DEF EndHolds, AtSource, NoOp, Begin
<1>10. CASE RecordDiskLow
  <2>1. /\ op'.pc = "close" /\ op'.name = "disk" /\ op'.todo = Kind /\ UNCHANGED worker
    BY <1>0, <1>10 DEF RecordDiskLow, EndHolds, AtOp, Op
  <2>. QED  BY <1>3, <1>6, <2>1 DEF EndHolds, AtSource
<1>11. ASSUME NEW k \in Kind, CloseSource(k)
       PROVE  EndHolds' /\ WorkersHold'
  <2>0. PICK v \in Source : v = <<op.session, k>>
    BY <1>0, <1>11, SourceIs DEF CloseSource, AtOp, Busy
  <2>1. /\ op.pc = "close" /\ k \in op.todo /\ Busy
        /\ worker' = [worker EXCEPT ![v].stream = FALSE]
        /\ op'.session = op.session /\ op'.kind = k /\ op'.todo = op.todo \ {k}
        /\ op'.name = op.name
        /\ op'.pc = IF worker[v].ended /\ op.name # "lost" THEN "rejoin" ELSE "end"
    BY <1>0, <1>11, <2>0 DEF CloseSource, AtOp, Op, Busy
  <2>2. v \in Source /\ SessionOf(v) = active /\ active = op.session /\ active \in Session
    BY <1>0, <2>0, <2>1, SourceIs
  <2>3. /\ \A w \in Source : w # v => worker'[w] = worker[w]
        /\ worker'[v] = [worker[v] EXCEPT !.stream = FALSE]
    BY <1>0, <2>1, <2>2
  <2>4. /\ ~worker'[v].stream /\ worker'[v].ended = worker[v].ended
        /\ worker'[v].pc = worker[v].pc /\ worker'[v].sentinel = worker[v].sentinel
    BY <1>0, <2>2, <2>3 DEF Worker
  <2>5. worker[v].pc \notin {"none", "new"}
    BY <2>2 DEF WorkersHold, WorkerHolds
  <2>6. WorkerHolds(v)'
    BY <1>1, <1>2, <1>4, <2>2, <2>4, <2>5 DEF WorkersHold, WorkerHolds
  <2>7. WorkersHold'
    BY <1>5, <2>3, <2>6 DEF WorkersHold
  <2>8. \A j \in Kind : Ended(j)' = Ended(j)
    BY <1>0, <2>0, <2>1, <2>2, <2>3, <2>4, SourceIs DEF Ended
  <2>9. op'.pc = "end" => StatusOf(op.session) = "active"
    <3>1. op.name # "lost" /\ ~worker[v].ended => StatusOf(op.session) # "completed"
      BY <2>2, <2>5 DEF WorkersHold, WorkerHolds
    <3>2. StatusOf(op.session) \in {"active", "completed"}
      BY <1>0, <2>2 DEF Core, EngineHolds
    <3>. QED  BY <2>1, <3>1, <3>2 DEF EndHolds
  <2>10. StatusOf(op.session)' = StatusOf(op.session)
    BY <1>1, <2>1, <2>2 DEF SameStatus, StatusOf
  <2>11. OpSource' = v
    BY <2>0, <2>1 DEF OpSource
  <2>12. worker[v].ended <=> Ended(k)
    BY <2>0 DEF Ended
  <2>. QED  BY <2>1, <2>4, <2>7, <2>8, <2>9, <2>10, <2>11, <2>12 DEF EndHolds, AtSource
<1>12. CASE EndAsync \/ PutSentinel
  <2>0. PICK v \in Source : v = OpSource
    BY <1>0, <1>12, SourceIs DEF EndAsync, PutSentinel, AtOp, Busy, OpSource
  <2>1. /\ Busy /\ AtSource /\ op.pc # "rejoin"
        /\ op'.session = op.session /\ op'.kind = op.kind /\ op'.todo = op.todo
        /\ op'.name = op.name /\ op'.pc \in {"put", "join"}
    BY <1>0, <1>12 DEF EndAsync, PutSentinel, AtOp, AtSource, Busy, Op
  <2>2. v \in Source /\ SessionOf(v) = active /\ active = op.session /\ active \in Session
    BY <1>0, <2>0, <2>1, SourceIs DEF OpSource
  <2>3. /\ \A w \in Source : w # v => worker'[w] = worker[w]
        /\ \/ worker'[v] = [worker[v] EXCEPT !.ended = TRUE]
           \/ worker[v].ended /\ worker'[v] = [worker[v] EXCEPT !.sentinel = "queued"]
    BY <1>0, <1>12, <2>0, <2>2 DEF EndAsync, PutSentinel, EndHolds, Ended, OpSource, AtOp
  <2>4. /\ worker'[v].ended /\ worker'[v].stream = worker[v].stream
        /\ worker'[v].pc = worker[v].pc
    BY <1>0, <2>2, <2>3 DEF Worker
  <2>5. worker[v].pc \notin {"none", "new"} /\ ~worker[v].stream
    BY <2>0, <2>1, <2>2 DEF WorkersHold, WorkerHolds, EndHolds
  <2>6. WorkerHolds(v)'
    BY <1>1, <1>2, <1>4, <2>2, <2>4, <2>5 DEF WorkersHold, WorkerHolds
  <2>7. WorkersHold'
    BY <1>5, <2>3, <2>6 DEF WorkersHold
  <2>8. OpSource' = v /\ \A j \in Kind : Ended(j) \/ j = op.kind => Ended(j)'
    BY <1>0, <2>0, <2>1, <2>2, <2>3, <2>4, SourceIs DEF Ended, OpSource
  <2>9. StatusOf(op.session)' = StatusOf(op.session)
    BY <1>1, <2>1, <2>2 DEF SameStatus, StatusOf
  <2>10. \A j \in Kind : j \in op.todo \/ j = op.kind \/ Ended(j) \/ op.name = "lost"
    BY <1>12 DEF EndHolds, EndAsync, PutSentinel, AtOp
  <2>11. Ended(op.kind)'
    BY <2>1, <2>4, <2>8 DEF Ended, OpSource
  <2>12. /\ op'.pc \in {"put", "join"} /\ AtSource' /\ op'.name = op.name
         /\ op.name # "lost" => \A j \in Kind : j \in op'.todo \/ Ended(j)'
    BY <2>1, <2>8, <2>10 DEF AtSource
  <2>13. ~worker'[OpSource'].stream
    BY <2>4, <2>5, <2>8
  <2>14. StatusOf(op.session) = "active"
    BY <2>1 DEF EndHolds
  <2>15. EndHolds'
    BY <2>9, <2>11, <2>12, <2>13, <2>14 DEF EndHolds
  <2>. QED  BY <1>3, <2>7, <2>15
<1>13. CASE JoinWriter \/ MarkSource
  <2>1. /\ Busy /\ AtSource /\ UNCHANGED worker
        /\ op'.session = op.session /\ op'.kind = op.kind /\ op'.todo = op.todo
        /\ op'.name = op.name
        /\ \/ op.pc = "join" /\ op'.pc = "mark"
           \/ op.pc = "rejoin" /\ op'.pc = NextSource
           \/ op.pc = "mark" /\ op'.pc = IF op.name = "lost" THEN "device_lost" ELSE NextSource
    BY <1>0, <1>13 DEF JoinWriter, MarkSource, AtOp, AtSource, Busy, Op
  <2>2. /\ \A j \in Kind : Ended(j)' = Ended(j)
        /\ Ended(op.kind)' = Ended(op.kind)
        /\ OpSource' = OpSource
    BY <2>1 DEF Ended, OpSource
  <2>3. StatusOf(op.session)' = StatusOf(op.session)
    BY <1>0, <1>1, <2>1 DEF SameStatus, StatusOf
  <2>4. /\ op.pc # "rejoin" => StatusOf(op.session) = "active"
        /\ op'.pc = "device_lost" => op'.pc \notin {"finalize", "stopped", "close"}
        /\ ~worker[OpSource].stream
        /\ op.pc = "rejoin" => op.name # "lost"
        /\ Ended(op.kind)
        /\ op.name # "lost" => \A j \in Kind : j \in op.todo \/ Ended(j)
    BY <2>1 DEF EndHolds, AtSource
  <2>5. EndHolds'
    BY <2>1, <2>2, <2>3, <2>4 DEF EndHolds, AtSource, NextSource
  <2>. QED  BY <1>3, <1>6, <2>1, <2>5
<1>. QED  BY <1>3, <1>7, <1>8, <1>9, <1>10, <1>11, <1>12, <1>13

\* The end of an operation: the session is completed when all its sources have ended.
LEMMA FinishKeepsWorkers ==
  ASSUME SessionInvBut, TypeInv', Core',
         RecordDeviceLost \/ Finalize \/ RecordStopped \/ OperationFails
  PROVE  StartHolds' /\ EndHolds' /\ WorkersHold'
<1>. USE DEF SessionInvBut
<1>0. /\ MetadataTypeOK /\ op \in Op /\ NoSession \notin Session
      /\ UNCHANGED worker
      /\ Busy /\ op.session \in Session /\ op.session = active
  BY InvTypes DEF RecordDeviceLost, Finalize, RecordStopped, OperationFails, AtOp, Busy
<1>1. ~Starting
  BY <1>0 DEF Starting, Busy
<1>2. CASE UNCHANGED <<session, active>> /\ op' = NoOp
  <2>1. WorkersHold'
    BY <1>0, <1>1, <1>2 DEF WorkersHold, WorkerHolds, StatusOf
  <2>. QED  BY <1>2, <2>1 DEF StartHolds, EndHolds, Starting, AtSource, NoOp
<1>3. CASE RecordDeviceLost /\ op' # NoOp
  <2>1. /\ op.pc = "device_lost"
        /\ \A w \in Workers(op.session) : worker[w].ended
        /\ op' = [op EXCEPT !.pc = "finalize"]
    BY <1>3 DEF RecordDeviceLost, AtOp
  <2>2. op'.pc = "finalize" /\ op'.session = op.session
    BY <1>0, <2>1 DEF Op
  <2>3. UNCHANGED <<session, active>>
    BY <1>0, <1>3, StatusSteps DEF RecordDeviceLost
  <2>4. \A k \in Kind : Ended(k)'
    BY <1>0, <2>1, <2>2, SourceIs DEF Ended, Workers
  <2>5. WorkersHold'
    BY <1>0, <1>1, <2>2, <2>3 DEF WorkersHold, WorkerHolds, StatusOf
  <2>. QED  BY <2>2, <2>4, <2>5 DEF StartHolds, EndHolds, Starting, AtSource
<1>4. CASE Finalize \/ RecordStopped
  <2>1. op.pc \in {"finalize", "stopped"} /\ \A k \in Kind : Ended(k)
    BY <1>4 DEF Finalize, RecordStopped, AtOp, EndHolds
  <2>2. \A w \in Source : SessionOf(w) = active => worker[w].ended
    BY <1>0, <2>1, SourceIs DEF Ended
  <2>3. \/ op' = [op EXCEPT !.pc = "stopped"] /\ UNCHANGED active
        \/ op' = NoOp /\ active' = NoSession
    BY <1>4 DEF Finalize, RecordStopped, Release
  <2>4. \A t \in Session :
          /\ t # active => StatusOf(t)' = StatusOf(t)
          /\ t = active => /\ StatusOf(t) \in {"active", "completed"}
                           /\ StatusOf(t)' \in {StatusOf(t), "completed"}
    <3>1. CASE Finalize
      <4>1. PICK d : FinalizeSession(op.session, "completed", d)
        BY <3>1 DEF Finalize
      <4>. QED  BY <1>0, <4>1, StatusSteps DEF StatusOf, Core, EngineHolds
    <3>2. CASE RecordStopped
      BY <1>0, <3>2, StatusSteps DEF RecordStopped, StatusOf, Core, EngineHolds
    <3>. QED  BY <1>4, <3>1, <3>2
  <2>5. WorkersHold'
    <3>. SUFFICES ASSUME NEW w \in Source
                  PROVE  WorkerHolds(w)'
      BY DEF WorkersHold
    <3>1. WorkerHolds(w) /\ SessionOf(w) \in Session
      BY SourceIs DEF WorkersHold
    <3>2. active' = active \/ active' = NoSession
      BY <2>3
    <3>3. CASE SessionOf(w) = active
      BY <1>0, <1>1, <2>2, <2>4, <3>1, <3>2, <3>3 DEF WorkerHolds
    <3>4. CASE SessionOf(w) # active
      BY <1>0, <1>1, <2>4, <3>1, <3>2, <3>4 DEF WorkerHolds
    <3>. QED  BY <3>3, <3>4
  <2>6. CASE op' = NoOp
    BY <2>5, <2>6 DEF StartHolds, EndHolds, Starting, AtSource, NoOp
  <2>7. CASE op' = [op EXCEPT !.pc = "stopped"]
    <3>1. op'.pc = "stopped" /\ op'.session = op.session
      BY <1>0, <2>7 DEF Op
    <3>2. \A k \in Kind : Ended(k)'
      BY <1>0, <2>1, <3>1 DEF Ended
    <3>. QED  BY <2>5, <3>1, <3>2 DEF StartHolds, EndHolds, Starting, AtSource
  <2>. QED  BY <2>3, <2>6, <2>7
<1>. QED
  <2>1. OperationFails => UNCHANGED <<session, active>> /\ op' = NoOp
    BY DEF OperationFails, metadata
  <2>2. RecordDeviceLost => UNCHANGED <<session, active>>
    BY <1>0, StatusSteps DEF RecordDeviceLost
  <2>. QED  BY <1>2, <1>3, <1>4, <2>1, <2>2

\* After a crash there is no worker until a session starts.
LEMMA RecoverKeepsWorkers ==
  ASSUME SessionInvBut, Crash \/ Recover
  PROVE  StartHolds' /\ EndHolds' /\ WorkersHold'
<1>1. op' = NoOp /\ active' = NoSession /\ worker' = [w \in Source |-> NoWorker]
  <2>1. CASE Crash
    BY <2>1 DEF Crash
  <2>2. CASE Recover
    BY <2>2 DEF Recover, RecoverScan, RecoverSource, RecoverChunk, RecoverMark, RecoverFinalize,
                RecoverEvent, engine, Serving, Quiet, SessionInvBut
  <2>. QED  BY <2>1, <2>2
<1>2. WorkersHold'
  BY <1>1, SourceIs, CaptureAssumption DEF WorkersHold, WorkerHolds, NoWorker
<1>. QED  BY <1>1, <1>2 DEF StartHolds, EndHolds, Starting, AtSource, NoOp

LEMMA SessionInvInductive ==
  /\ Init => SessionInv
  /\ SessionInv /\ [Next]_vars => SessionInv'
<1>1. ASSUME Init
      PROVE  SessionInv
  <2>1. TypeInv
    BY <1>1, TypeInvInductive
  <2>2. /\ op = NoOp /\ active = NoSession /\ worker = [w \in Source |-> NoWorker]
        /\ recovery = NoRecovery("scan") /\ told = [s \in Session |-> {}]
        /\ \A s \in Session : StatusOf(s) = "absent"
    BY <1>1 DEF Init, MetadataInit, StatusOf
  <2>3. EngineHolds /\ ActiveHolds /\ Quiet /\ RecoveryHolds /\ StartHolds /\ EndHolds
    BY <2>2 DEF EngineHolds, ActiveHolds, Quiet, RecoveryHolds, StartHolds, EndHolds,
                Starting, Busy, AtSource, NoOp, NoRecovery
  <2>4. WorkersHold
    BY <2>2, SourceIs, CaptureAssumption DEF WorkersHold, WorkerHolds, NoWorker
  <2>. QED  BY <2>1, <2>3, <2>4 DEF SessionInv
<1>2. ASSUME SessionInv, [Next]_vars
      PROVE  SessionInv'
  <2>. DEFINE Kept == Core' /\ StartHolds' /\ EndHolds' /\ WorkersHold'
  <2>1. TypeInv' /\ SessionInvBut /\ TypeInv /\ Core /\ Quiet /\ WorkersHold
    BY <1>2, TypeInvInductive, SessionInvIs DEF SessionInv, Core
  <2>2. Quiet'
    BY <1>2, <2>1, KeepsQuiet
  <2>3. ASSUME UNCHANGED vars
        PROVE  Kept
    <3>1. UNCHANGED <<session, active, op, worker, recovery>>
      BY <2>3 DEF vars, metadata, engine
    <3>2. Core'
      BY <2>1, <3>1 DEF Core, EngineHolds, ActiveHolds, RecoveryHolds, Starting, Busy, StatusOf,
                        Serving
    <3>3. StartHolds' /\ EndHolds'
      BY <2>1, <3>1 DEF SessionInvBut, StartHolds, EndHolds, Starting, AtSource, OpSource,
                        Ended, StatusOf
    <3>4. WorkersHold'
      BY <2>1, <3>1 DEF WorkersHold, WorkerHolds, Starting, StatusOf
    <3>. QED  BY <3>2, <3>3, <3>4
  <2>4. ASSUME NEW w \in Source, Frame(w) \/ WatchdogFires(w) \/ Writer(w) \/ WriterFault(w)
        PROVE  Kept
    BY <2>1, <2>4, WriterKeepsCore, WriterKeepsWorkers
  <2>5. ASSUME \/ \E s \in Session : StartSession(s)
               \/ \E k \in Kind : OpenStream(k)
               \/ OpenFails \/ DeviceVanished \/ CreateSession \/ CreateFails \/ TellStarted
        PROVE  Kept
    BY <2>1, <2>5, StartKeepsCore, StartKeepsWorkers
  <2>6. ASSUME \/ StopSession
               \/ \E w \in Source : DeviceLost(w) \/ DiskFull(w)
               \/ \E k \in Kind : CloseSource(k)
               \/ RecordDiskLow \/ EndAsync \/ PutSentinel \/ JoinWriter \/ MarkSource
        PROVE  Kept
    BY <2>1, <2>6, EndKeepsCore, EndKeepsWorkers
  <2>7. ASSUME RecordDeviceLost \/ Finalize \/ RecordStopped \/ OperationFails
        PROVE  Kept
    BY <2>1, <2>7, FinishKeepsCore, FinishKeepsWorkers
  <2>8. ASSUME Crash \/ Recover
        PROVE  Kept
    BY <2>1, <2>8, RecoverKeepsCore, RecoverKeepsWorkers
  <2>9. Kept
    <3>. HIDE DEF Kept
    <3>. QED  BY <1>2, <2>3, <2>4, <2>5, <2>6, <2>7, <2>8 DEF Next, Operation, OperationFault
  <2>. QED  BY <2>1, <2>2, <2>9 DEF SessionInv, Core
<1>. QED  BY <1>1, <1>2

(***************************************************************************)
(* At most one session is active, the engine's while the process serves,   *)
(* and without database errors an engine at rest holds no finished one:    *)
(* for every combination of faults.                                        *)
(***************************************************************************)
THEOREM SessionsAreSingle == Spec => []OneActiveSession
<1>1. SessionInv => OneActiveSession
  <2>. SUFFICES ASSUME SessionInv
                PROVE  OneActiveSession
    OBVIOUS
  <2>1. LockFree /\ active # NoSession /\ "sqlite" \notin Faults => session[active].status = "active"
    BY DEF SessionInv, EngineHolds, LockFree, AtOp, StatusOf
  <2>. QED  BY <2>1 DEF SessionInv, ActiveHolds, OneActiveSession, StatusOf
<1>. QED  BY <1>1, SessionInvInductive, PTL DEF Spec

(***************************************************************************)
(* Unless a device vanishes between the readiness check and the open, no   *)
(* stream outlives its session, but for a writer that met the full disk.   *)
(***************************************************************************)
THEOREM StreamsAreClosed ==
  ASSUME "vanished" \notin Faults
  PROVE  Spec => []NoOrphanStream
<1>1. SessionInv => NoOrphanStream
  <2>. SUFFICES ASSUME SessionInv, LockFree, NEW w \in Source,
                       worker[w].stream, worker[w].pc # "full"
                PROVE  SessionOf(w) = active
    BY DEF NoOrphanStream
  <2>1. ~Starting /\ WorkerHolds(w)
    BY DEF SessionInv, WorkersHold, Starting, LockFree, AtOp
  <2>2. worker[w].pc \notin {"none", "new"}
    BY <2>1 DEF WorkerHolds, NoWorker
  <2>. QED  BY <2>1, <2>2 DEF WorkerHolds
<1>. QED  BY <1>1, SessionInvInductive, PTL DEF Spec

-----------------------------------------------------------------------------
\* Without join timeouts an operation goes on only after the writer it ended has returned.
LEMMA JoinedInductive ==
  ASSUME "timeout" \notin Faults
  PROVE  /\ Init => WritersJoined
         /\ SessionInv /\ WritersJoined /\ [Next]_vars => WritersJoined'
<1>1. Init => WritersJoined
  BY DEF Init, WritersJoined, NoWorker
<1>2. ASSUME SessionInv, WritersJoined, [Next]_vars
      PROVE  WritersJoined'
  <2>. USE DEF WritersJoined
  <2>0. /\ worker \in [Source -> Worker] /\ op \in Op /\ SessionInvBut
        /\ Busy => op.session \in Session
        /\ op.kind \in Kind /\ WorkersHold /\ TypeInv
    BY <1>2, SessionInvIs, InvTypes DEF SessionInvBut
  <2>1. CASE UNCHANGED <<worker, op>>
    BY <1>2, <2>1 DEF Exited, OpSource
  <2>2. ASSUME NEW v \in Source, Frame(v) \/ WatchdogFires(v) \/ Writer(v) \/ WriterFault(v)
        PROVE  WritersJoined'
    <3>1. UNCHANGED op
      BY <2>2 DEF Frame, WatchdogFires, Writer, WriterFault, TakeFrame, TakeSentinel, WriteChunk,
                  FinishChunk, WriteFindsDiskFull, WriterDies
    <3>2. /\ \A w \in Source : w # v => worker'[w] = worker[w]
          /\ Moved(worker[v], worker'[v])
      BY <2>0, <2>2, WriterMoves
    <3>. QED  BY <1>2, <3>1, <3>2 DEF Exited, OpSource, Moved
  <2>3. ASSUME NEW k \in Kind, OpenStream(k)
        PROVE  WritersJoined'
    <3>1. \A w \in Source : worker'[w] = worker[w] \/ worker'[w] = NewWorker
      BY <2>0, <2>3 DEF OpenStream
    <3>. QED  BY <1>2, <2>3, <3>1 DEF OpenStream, AtOp, Exited, NewWorker, NoWorker
  <2>4. CASE OpenFails \/ CreateFails
    <3>1. \A w \in Source : worker'[w] = worker[w] \/ worker'[w] = NoWorker
      BY <2>4 DEF OpenFails, CreateFails, CloseOpened
    <3>. QED  BY <1>2, <2>4, <3>1 DEF OpenFails, CreateFails, AtOp, Exited, NoWorker
  <2>5. CASE CreateSession
    <3>. SUFFICES ASSUME NEW w \in Source, worker'[w].ended
                  PROVE  Exited(w)'
      OBVIOUS
    <3>1. CASE SessionOf(w) = op.session
      <4>1. worker[w].pc = "new"
        BY <2>0, <2>5, <3>1, SourceIs
           DEF CreateSession, AtOp, SessionInvBut, StartHolds, Starting
      <4>2. ~worker[w].ended
        BY <2>0, <4>1 DEF WorkersHold, WorkerHolds, Ready
      <4>3. worker'[w] = [worker[w] EXCEPT !.pc = "get"]
        BY <2>5, <3>1 DEF CreateSession
      <4>. QED  BY <2>0, <4>2, <4>3 DEF Worker
    <3>2. CASE SessionOf(w) # op.session
      BY <1>2, <2>5, <3>2 DEF CreateSession, AtOp, Exited
    <3>. QED  BY <3>1, <3>2
  <2>6. ASSUME NEW k \in Kind, CloseSource(k)
        PROVE  WritersJoined'
    BY <1>2, <2>0, <2>6 DEF CloseSource, AtOp, Exited, Worker
  <2>7. CASE EndAsync \/ PutSentinel
    <3>1. PICK v \in Source : v = OpSource
      BY <2>0, <2>7, SourceIs DEF EndAsync, PutSentinel, AtOp, Busy, OpSource
    <3>2. OpSource' = v /\ op'.pc \in {"put", "join"} /\ op.pc \in {"end", "put"}
      BY <2>0, <2>7, <3>1 DEF EndAsync, PutSentinel, AtOp, OpSource, Op
    <3>3. \/ worker' = [worker EXCEPT ![v].ended = TRUE]
          \/ worker' = [worker EXCEPT ![v].sentinel = "queued"]
      BY <2>7, <3>1 DEF EndAsync, PutSentinel
    <3>4. \A w \in Source : /\ worker'[w].pc = worker[w].pc
                            /\ w # v => worker'[w] = worker[w]
      BY <2>0, <3>1, <3>3 DEF Worker
    <3>. QED  BY <1>2, <3>1, <3>2, <3>4 DEF Exited
  <2>8. CASE JoinWriter
    BY <1>2, <2>8 DEF JoinWriter, AtOp, Exited
  <2>9. CASE UNCHANGED worker /\ op.pc \notin {"put", "join"}
    BY <1>2, <2>9 DEF Exited
  <2>10. \/ StopSession \/ \E w \in Source : DeviceLost(w) \/ DiskFull(w)
         \/ \E s \in Session : StartSession(s)
         \/ DeviceVanished \/ TellStarted \/ RecordDiskLow \/ MarkSource
         \/ RecordDeviceLost \/ Finalize \/ RecordStopped \/ OperationFails
         => UNCHANGED worker /\ op.pc \notin {"put", "join"}
    BY DEF StopSession, DeviceLost, DiskFull, StartSession, DeviceVanished, TellStarted,
           RecordDiskLow, MarkSource, RecordDeviceLost, Finalize, RecordStopped, OperationFails,
           AtOp, LockFree
  <2>11. CASE Crash
    BY <2>11 DEF Crash, NoWorker
  <2>12. Recover \/ UNCHANGED vars => UNCHANGED <<worker, op>>
    BY DEF Recover, RecoverScan, RecoverSource, RecoverChunk, RecoverMark, RecoverFinalize,
           RecoverEvent, engine, vars
  <2>. HIDE DEF WritersJoined
  <2>. QED
    BY <1>2, <2>1, <2>2, <2>3, <2>4, <2>5, <2>6, <2>7, <2>8, <2>9, <2>10, <2>11, <2>12
       DEF Next, Operation, OperationFault
<1>. QED  BY <1>1, <1>2

(***************************************************************************)
(* What a source that still has something to do belongs to: an active      *)
(* session.  A writer with a chunk at hand has not returned.               *)
(***************************************************************************)
LEMMA WritersOfActive ==
  ASSUME SessionInv, WritersJoined, NEW w \in Source,
         worker[w].pc \in {"get", "write", "record"}
  PROVE  StatusOf(SessionOf(w)) = "active"
<1>0. SessionInvBut
  BY SessionInvIs
<1>1. StatusOf(SessionOf(w)) \in {"active", "completed"} /\ WorkerHolds(w)
  BY DEF SessionInv, WorkersHold, WorkerHolds
<1>2. ASSUME StatusOf(SessionOf(w)) = "completed"
      PROVE  FALSE
  <2>1. worker[w].ended
    BY <1>1, <1>2 DEF WorkerHolds
  <2>2. op.pc \in {"put", "join"} /\ w = OpSource
    BY <2>1 DEF WritersJoined, Exited
  <2>3. StatusOf(op.session) = "active"
    BY <2>2 DEF SessionInv, EndHolds, AtSource
  <2>4. SessionOf(w) = op.session
    BY <1>0, <2>2, InvTypes, SourceIs DEF OpSource, Busy
  <2>. QED  BY <1>2, <2>3, <2>4
<1>. QED  BY <1>1, <1>2

\* A finished session changes only if a writer of it still has a chunk at hand.
LEMMA SessionStays ==
  ASSUME SessionInv, [Next]_vars, NEW s \in Session, session[s].status \in Finished,
         \A w \in Workers(s) : worker[w].pc \notin {"write", "record"}
  PROVE  /\ session'[s] = session[s]
         /\ \A w \in Workers(s) :
              source'[w] = source[w] /\ row'[w] = row[w] /\ file'[w] = file[w]
<1>0. /\ MetadataTypeOK /\ SessionInvBut /\ TypeInv /\ recovery \in Recovery
      /\ file \in [Source -> SUBSET Chunk]
      /\ recovery.pc \notin {"up", "scan"} => recovery.session \in Session
      /\ Busy => op.session \in Session
  BY SessionInvIs, InvTypes DEF SessionInvBut, TypeInv, TypeOK, RecoveryHasSession
<1>1. StatusOf(s) # "active" /\ StatusOf(s) # "absent"
  BY DEF StatusOf, Finished
<1>2. \A w \in Workers(s) : w \in Source /\ SessionOf(w) = s
  BY DEF Workers
<1>. DEFINE Same == /\ session'[s] = session[s]
                    /\ \A w \in Workers(s) : source'[w] = source[w] /\ row'[w] = row[w]
<1>3. UNCHANGED metadata => Same
  BY DEF metadata
<1>4. ASSUME NEW w \in Source, NEW c, RecordChunk(w, c), SessionOf(w) # s
      PROVE  Same
  BY <1>0, <1>2, <1>4, SourceIs DEF RecordChunk, MetadataTypeOK
<1>5. ASSUME NEW w \in Source, NEW status, EndSource(w, status), SessionOf(w) # s
      PROVE  Same
  BY <1>0, <1>2, <1>5 DEF EndSource, MetadataTypeOK
<1>6. ASSUME NEW t, NEW status, NEW d, FinalizeSession(t, status, d)
      PROVE  Same
  BY <1>0, <1>1, <1>6 DEF FinalizeSession, MetadataTypeOK, StatusOf
<1>7. \A t : \A e : AppendEvent(t, e) => Same
  BY DEF AppendEvent
<1>8. ASSUME UNCHANGED vars
      PROVE  Same
  BY <1>3, <1>8 DEF vars
<1>9. ASSUME NEW w \in Source, Frame(w) \/ WatchdogFires(w) \/ Writer(w) \/ WriterFault(w)
      PROVE  Same
  <2>1. CASE FinishChunk(w)
    <3>1. SessionOf(w) # s
      BY <1>1, <2>1 DEF FinishChunk, Workers
    <3>. QED  BY <1>4, <2>1, <3>1 DEF FinishChunk
  <2>2. CASE ~FinishChunk(w)
    BY <1>3, <1>9, <2>2 DEF Frame, WatchdogFires, Writer, WriterFault, TakeFrame, TakeSentinel,
                            WriteChunk, WriteFindsDiskFull, WriterDies
  <2>. QED  BY <2>1, <2>2
<1>10. ASSUME CreateSession
       PROVE  Same
  <2>1. StatusOf(op.session) = "absent"
    BY <1>10 DEF CreateSession, AtOp, SessionInv, EngineHolds, Starting
  <2>. QED  BY <1>0, <1>1, <1>2, <1>10, <2>1
            DEF CreateSession, CreateActiveSession, MetadataTypeOK, StatusOf
<1>11. ASSUME MarkSource
       PROVE  Same
  <2>1. op.pc = "mark" /\ EndSource(OpSource, IF op.name = "lost" THEN "ended_device_lost"
                                                                  ELSE "completed")
    BY <1>11 DEF MarkSource, AtOp
  <2>2. OpSource \in Source /\ SessionOf(OpSource) = op.session
    BY <1>0, <2>1, InvTypes, SourceIs DEF OpSource, Busy
  <2>3. StatusOf(op.session) = "active"
    BY <2>1 DEF SessionInv, EndHolds, AtSource
  <2>. QED  BY <1>1, <1>5, <2>1, <2>2, <2>3
<1>12. ASSUME TellStarted \/ RecordDiskLow \/ RecordDeviceLost \/ RecordStopped
       PROVE  Same
  BY <1>7, <1>12 DEF TellStarted, RecordDiskLow, RecordDeviceLost, RecordStopped
<1>13. ASSUME Finalize
       PROVE  Same
  BY <1>6, <1>13 DEF Finalize
<1>14. \/ StopSession \/ \E w \in Source : DeviceLost(w) \/ DiskFull(w)
       \/ \E t \in Session : StartSession(t)
       \/ \E k \in Kind : OpenStream(k) \/ CloseSource(k)
       \/ OperationFault \/ EndAsync \/ PutSentinel \/ JoinWriter \/ Crash
       => Same
  BY <1>3 DEF StopSession, DeviceLost, DiskFull, StartSession, OpenStream, CloseSource,
     OperationFault, OpenFails, DeviceVanished, CreateFails, OperationFails, EndAsync,
     PutSentinel, JoinWriter, Crash
<1>15. ASSUME Recover
       PROVE  Same
  <2>1. CASE RecoverChunk \/ RecoverMark
    <3>1. /\ RecoverSourceAt \in Source /\ SessionOf(RecoverSourceAt) = recovery.session
          /\ StatusOf(recovery.session) = "active"
      BY <1>0, <2>1, SourceIs
         DEF RecoverChunk, RecoverMark, RecoverSourceAt, Recovery, SessionInv, RecoveryHolds
    <3>2. SessionOf(RecoverSourceAt) # s
      BY <1>1, <3>1
    <3>. QED  BY <1>4, <1>5, <2>1, <3>1, <3>2 DEF RecoverChunk, RecoverMark
  <2>2. CASE RecoverFinalize \/ RecoverEvent
    BY <1>6, <1>7, <2>2 DEF RecoverFinalize, RecoverEvent
  <2>3. CASE RecoverScan \/ \E k \in Kind : RecoverSource(k)
    BY <1>3, <2>3 DEF RecoverScan, RecoverSource
  <2>. QED  BY <1>15, <2>1, <2>2, <2>3 DEF Recover
<1>16. Same
  <2>. HIDE DEF Same
  <2>. QED
    BY <1>8, <1>9, <1>10, <1>11, <1>12, <1>13, <1>14, <1>15 DEF Next, Operation
<1>17. \A w \in Workers(s) : file'[w] = file[w]
  <2>1. CASE UNCHANGED file
    BY <2>1
  <2>2. ASSUME NEW v \in Source, WriteChunk(v)
        PROVE  \A w \in Workers(s) : file'[w] = file[w]
    <3>1. SessionOf(v) # s
      BY <1>1, <2>2 DEF WriteChunk, Workers
    <3>. QED  BY <1>0, <1>2, <2>2, <3>1 DEF WriteChunk
  <2>. QED  BY <1>0, <2>1, <2>2, FilesGrow
<1>. QED  BY <1>16, <1>17

LEMMA FinishedStays ==
  ASSUME SessionInv, WritersJoined, [Next]_vars,
         NEW s \in Session, session[s].status \in Finished
  PROVE  /\ session'[s] = session[s]
         /\ \A w \in Workers(s) :
              source'[w] = source[w] /\ row'[w] = row[w] /\ file'[w] = file[w]
<1>1. \A w \in Workers(s) : worker[w].pc \notin {"write", "record"}
  BY WritersOfActive DEF Workers, StatusOf, Finished
<1>. QED  BY <1>1, SessionStays

(***************************************************************************)
(* Joins that time out aside, a finished session is final: with every      *)
(* other fault, no step changes its row, sources, chunks or files.         *)
(***************************************************************************)
THEOREM FinishedStaysFinished ==
  ASSUME "timeout" \notin Faults
  PROVE  Spec => FinishedIsFinal
<1>1. SessionInv /\ WritersJoined /\ [Next]_vars =>
        [\A s \in Session : session[s].status \in Finished =>
           /\ session'[s] = session[s]
           /\ \A w \in Workers(s) :
                source'[w] = source[w] /\ row'[w] = row[w] /\ file'[w] = file[w]]_vars
  BY FinishedStays
<1>. QED  BY <1>1, SessionInvInductive, JoinedInductive, PTL DEF Spec, FinishedIsFinal
=============================================================================
