----------------------------- MODULE CaptureEngine -----------------------------
(***************************************************************************)
(* The capture engine (audio/engine.py) with the chunk store it writes and *)
(* the startup reconciliation that repairs what a crash left.              *)
(*                                                                         *)
(* Processes: the threads that take the engine lock (a start or stop       *)
(* request, a watchdog's device-lost callback, the disk-full finaliser),   *)
(* one writer thread per source, the capture callbacks that feed the       *)
(* writers' queues, and the process itself, which may die at any point.    *)
(***************************************************************************)
EXTENDS MetadataStore, FiniteSetsExt

CONSTANTS NoSession,     \* no session is active (_active is None)
          QueueSize,     \* maxsize of a writer's frame queue (256 in the code)
          ChunkFrames,   \* frames in a full 10 s chunk
          MaxGap,        \* frames of silence a gap fill may insert
          MaxFrames,     \* bound: frames a source hears
          MaxCrashes,    \* bound: process deaths
          Faults         \* the failures this instance lets happen

Fault == {"enospc",       \* write_chunk raises DiskFullError
          "oserror",      \* write_chunk raises another OSError
          "sqlite",       \* a metadata transaction raises
          "timeout",      \* thread.join(timeout=10) gives up
          "unavailable",  \* provider.open raises DeviceUnavailableError
          "vanished"}     \* a device seen by readiness() is gone in enumerate()

ASSUME CaptureAssumption ==
  /\ NoSession \notin Session
  /\ IsFiniteSet(Kind) /\ Kind # {}
  /\ QueueSize \in Nat \ {0}
  /\ ChunkFrames \in Nat \ {0}
  /\ MaxGap \in Nat
  /\ MaxFrames \in Nat
  /\ MaxCrashes \in Nat
  /\ Faults \subseteq Fault

VARIABLES file,       \* the chunk files on disk, by source
          active,     \* CaptureEngine._active
          op,         \* the operation that holds CaptureEngine._lock
          worker,     \* the _SourceWorker of each source, with its stream
          lostCall,   \* watchdogs waiting to enter handle_device_lost
          diskCall,   \* disk-full finalisers waiting for the lock
          told,       \* what this process told the session observers
          recovery,   \* reconcile_interrupted's progress; pc = "up" when serving
          crashes     \* process deaths so far

engine == <<active, op, worker, lostCall, diskCall, told>>
vars == <<metadata, file, engine, recovery, crashes>>

(***************************************************************************)
(* A worker and its stream.  pc: none - not created; new - stream open,    *)
(* thread not started; get - at queue.get; write - in _flush, before the   *)
(* chunk is on disk; record - before its row is; done - returned after the *)
(* sentinel; full - gave up on DiskFullError; failed - died of another     *)
(* exception.  heard and dropped are history: every frame the source       *)
(* delivered plus the silence filled in for the gaps between them, and the *)
(* delivered frames that found the queue full.                             *)
(***************************************************************************)
WorkerPc == {"none", "new", "get", "write", "record", "done", "full", "failed"}
Worker == [pc : WorkerPc, stream : BOOLEAN, watched : BOOLEAN, ended : BOOLEAN,
           queued : 0..QueueSize, sentinel : {"no", "queued", "taken"},
           buffer : Nat, out : Nat, seq : Nat, dur : Nat, heard : Nat, dropped : Nat]
NoWorker == [pc |-> "none", stream |-> FALSE, watched |-> FALSE, ended |-> FALSE,
             queued |-> 0, sentinel |-> "no",
             buffer |-> 0, out |-> 0, seq |-> 0, dur |-> 0, heard |-> 0, dropped |-> 0]
NewWorker == [NoWorker EXCEPT !.pc = "new", !.stream = TRUE, !.watched = TRUE]

Exited(w) == worker[w].pc \in {"done", "full", "failed"}
Workers(s) == {w \in Source : SessionOf(w) = s}

(***************************************************************************)
(* The holder of the engine lock: which method, the session it works on,   *)
(* the kind it is at and the kinds it has yet to end.  The code keeps only *)
(* the kind of the caller: not the session its watchdog or writer was of.  *)
(***************************************************************************)
OpName == {"none", "start", "stop", "lost", "disk"}
OpPc == {"idle", "open", "create", "started", "disk_low",
         "close", "end", "put", "join", "rejoin", "mark", "device_lost", "finalize", "stopped"}
Op == [name : OpName, pc : OpPc, session : Session \cup {NoSession},
       kind : Kind, todo : SUBSET Kind]
NoOp == [name |-> "none", pc |-> "idle", session |-> NoSession,
         kind |-> CHOOSE k \in Kind : TRUE, todo |-> {}]
Begin(name, pc, s, k, todo) ==
  [name |-> name, pc |-> pc, session |-> s, kind |-> k, todo |-> todo]
AtOp(pc) == op.pc = pc
OpSource == <<op.session, op.kind>>

RecoveryPc == {"up", "scan", "source", "chunk", "finalize", "event"}
Recovery == [pc : RecoveryPc, session : Session \cup {NoSession}, kind : Kind,
             todo : SUBSET Kind, left : SUBSET Chunk, total : Nat, best : Nat]
Serving == recovery.pc = "up"
NoRecovery(pc) == [pc |-> pc, session |-> NoSession, kind |-> CHOOSE k \in Kind : TRUE,
                   todo |-> {}, left |-> {}, total |-> 0, best |-> 0]

Notification == {"started", "stopped", "finalized"}

TypeOK ==
  /\ MetadataTypeOK
  /\ file \in [Source -> SUBSET Chunk]
  /\ active \in Session \cup {NoSession}
  /\ op \in Op
  /\ worker \in [Source -> Worker]
  /\ lostCall \in SUBSET Source
  /\ diskCall \in SUBSET Source
  /\ told \in [Session -> SUBSET Notification]
  /\ recovery \in Recovery
  /\ crashes \in 0..MaxCrashes

Init ==
  /\ MetadataInit
  /\ file = [w \in Source |-> {}]
  /\ active = NoSession
  /\ op = NoOp
  /\ worker = [w \in Source |-> NoWorker]
  /\ lostCall = {}
  /\ diskCall = {}
  /\ told = [s \in Session |-> {}]
  /\ recovery = NoRecovery("scan")
  /\ crashes = 0

-----------------------------------------------------------------------------
(***************************************************************************)
(* Capture callbacks and watchdogs.                                        *)
(***************************************************************************)

\* A bug: the queue has no bound.
MutantFrame(w) ==
  /\ worker[w].stream /\ ~worker[w].ended
  /\ worker[w].heard < MaxFrames
  /\ worker' = [worker EXCEPT ![w].queued = @ + 1, ![w].heard = @ + 1]
  /\ UNCHANGED <<metadata, file, active, op, lostCall, diskCall, told, recovery, crashes>>

\* on_frames: put_nowait queues the frame, or drops it when the queue is full.
Frame(w) ==
  /\ worker[w].stream /\ ~worker[w].ended
  /\ worker[w].heard < MaxFrames
  /\ \/ /\ worker[w].queued < QueueSize
        /\ worker' = [worker EXCEPT ![w].queued = @ + 1, ![w].heard = @ + 1]
     \/ /\ worker[w].queued = QueueSize
        /\ worker' = [worker EXCEPT ![w].dropped = @ + 1, ![w].heard = @ + 1]
  /\ UNCHANGED <<metadata, file, active, op, lostCall, diskCall, told, recovery, crashes>>

(***************************************************************************)
(* WasapiStream._watch finds the device gone and fires, once.  The poll    *)
(* does not look at _closed again, and a closed stream is not active: a    *)
(* close during the poll fires too, so the stream may be closed by now.    *)
(***************************************************************************)
WatchdogFires(w) ==
  /\ worker[w].watched
  /\ worker' = [worker EXCEPT ![w].watched = FALSE]
  /\ lostCall' = lostCall \cup {w}
  /\ UNCHANGED <<metadata, file, active, op, diskCall, told, recovery, crashes>>

-----------------------------------------------------------------------------
(***************************************************************************)
(* The writer thread: _run and _flush.                                     *)
(***************************************************************************)

\* A bug: the whole buffer is flushed, not one chunk of it.
MutantDrain(wk, b) ==
  IF b >= ChunkFrames
    THEN [wk EXCEPT !.pc = "write", !.out = b, !.buffer = 0]
    ELSE [wk EXCEPT !.pc = "get", !.out = 0, !.buffer = b]

\* The inner while loop: wk holds b frames and flushes while that is a full chunk.
Drain(wk, b) ==
  IF b >= ChunkFrames
    THEN [wk EXCEPT !.pc = "write", !.out = ChunkFrames, !.buffer = b - ChunkFrames]
    ELSE [wk EXCEPT !.pc = "get", !.out = 0, !.buffer = b]

\* A bug: the tail of the buffer is dropped with the chunk that was flushed.
MutantTakeFrame(w) ==
  /\ worker[w].pc = "get" /\ worker[w].queued > 0
  /\ \E gap \in {0, MaxGap} :
       /\ worker[w].heard + gap <= MaxFrames
       /\ LET wk == [worker[w] EXCEPT !.queued = @ - 1, !.heard = @ + gap]
              b == wk.buffer + gap + 1
          IN worker' = [worker EXCEPT ![w] =
               [Drain(wk, b) EXCEPT !.buffer = IF b >= ChunkFrames THEN 0 ELSE b]]
  /\ UNCHANGED <<metadata, file, active, op, lostCall, diskCall, told, recovery, crashes>>

\* One frame off the queue, after the silence that fills the gap before it.
TakeFrame(w) ==
  /\ worker[w].pc = "get" /\ worker[w].queued > 0
  /\ \E gap \in {0, MaxGap} :
       /\ worker[w].heard + gap <= MaxFrames
       /\ LET wk == [worker[w] EXCEPT !.queued = @ - 1, !.heard = @ + gap] IN
          worker' = [worker EXCEPT ![w] = Drain(wk, wk.buffer + gap + 1)]
  /\ UNCHANGED <<metadata, file, active, op, lostCall, diskCall, told, recovery, crashes>>

\* A bug: the thread returns on the sentinel without a last flush.
MutantTakeSentinel(w) ==
  /\ worker[w].pc = "get" /\ worker[w].queued = 0 /\ worker[w].sentinel = "queued"
  /\ worker' = [worker EXCEPT ![w].sentinel = "taken", ![w].pc = "done", ![w].buffer = 0]
  /\ UNCHANGED <<metadata, file, active, op, lostCall, diskCall, told, recovery, crashes>>

\* The sentinel is last in the queue: what is buffered becomes the final chunk.
TakeSentinel(w) ==
  /\ worker[w].pc = "get" /\ worker[w].queued = 0 /\ worker[w].sentinel = "queued"
  /\ worker' = [worker EXCEPT ![w].sentinel = "taken",
                              ![w].pc = IF worker[w].buffer > 0 THEN "write" ELSE "done",
                              ![w].out = worker[w].buffer,
                              ![w].buffer = 0]
  /\ UNCHANGED <<metadata, file, active, op, lostCall, diskCall, told, recovery, crashes>>

\* write_chunk: the rename makes the chunk visible in one step.
WriteChunk(w) ==
  /\ worker[w].pc = "write"
  /\ file' = [file EXCEPT ![w] = @ \cup {[seq |-> worker[w].seq, size |-> worker[w].out]}]
  /\ worker' = [worker EXCEPT ![w].pc = "record"]
  /\ UNCHANGED <<metadata, active, op, lostCall, diskCall, told, recovery, crashes>>

\* A bug: the chunk is recorded although its write failed.
MutantWriteFindsDiskFull(w) ==
  /\ "enospc" \in Faults
  /\ worker[w].pc = "write"
  /\ worker' = [worker EXCEPT ![w].pc = "record"]
  /\ UNCHANGED <<metadata, file, active, op, lostCall, diskCall, told, recovery, crashes>>

\* DiskFullError: the source ends itself and a finaliser thread is started.
WriteFindsDiskFull(w) ==
  /\ "enospc" \in Faults
  /\ worker[w].pc = "write"
  /\ worker' = [worker EXCEPT ![w].pc = "full", ![w].ended = TRUE]
  /\ diskCall' = diskCall \cup {w}
  /\ UNCHANGED <<metadata, file, active, op, lostCall, told, recovery, crashes>>

\* Any other exception of write_chunk or record_chunk ends the thread; nobody is told.
WriterDies(w) ==
  /\ \/ worker[w].pc = "write" /\ "oserror" \in Faults
     \/ worker[w].pc = "record" /\ "sqlite" \in Faults
  /\ worker' = [worker EXCEPT ![w].pc = "failed"]
  /\ UNCHANGED <<metadata, file, active, op, lostCall, diskCall, told, recovery, crashes>>

\* record_chunk commits, the chunk is counted and its observers are told.
FinishChunk(w) ==
  /\ worker[w].pc = "record"
  /\ RecordChunk(w, [seq |-> worker[w].seq, size |-> worker[w].out])
  /\ LET wk == [worker[w] EXCEPT !.seq = @ + 1, !.dur = @ + worker[w].out] IN
     worker' = [worker EXCEPT ![w] =
                  IF wk.sentinel = "taken" THEN [wk EXCEPT !.pc = "done", !.out = 0]
                                           ELSE Drain(wk, wk.buffer)]
  /\ UNCHANGED <<file, active, op, lostCall, diskCall, told, recovery, crashes>>

Writer(w) == TakeFrame(w) \/ TakeSentinel(w) \/ WriteChunk(w) \/ FinishChunk(w)
WriterFault(w) == WriteFindsDiskFull(w) \/ WriterDies(w)

-----------------------------------------------------------------------------
(***************************************************************************)
(* start_session.  A failed preflight changes nothing and is a stutter.    *)
(***************************************************************************)
LockFree == Serving /\ AtOp("idle")

StartSession(s) ==
  /\ LockFree /\ active = NoSession
  /\ session[s].status = "absent"
  /\ \A w \in Workers(s) : worker[w].pc = "none"
  /\ op' = Begin("start", "open", s, op.kind, Kind)
  /\ UNCHANGED <<metadata, file, active, worker, lostCall, diskCall, told, recovery, crashes>>

OpenStream(k) ==
  /\ AtOp("open") /\ k \in op.todo
  /\ worker' = [worker EXCEPT ![<<op.session, k>>] = NewWorker]
  /\ op' = [op EXCEPT !.todo = @ \ {k}, !.pc = IF op.todo = {k} THEN "create" ELSE "open"]
  /\ UNCHANGED <<metadata, file, active, lostCall, diskCall, told, recovery, crashes>>

CloseOpened == [w \in Source |-> IF SessionOf(w) = op.session THEN NoWorker ELSE worker[w]]

\* A bug: the streams opened before the failure stay open.
MutantOpenFails ==
  /\ "unavailable" \in Faults
  /\ AtOp("open")
  /\ op' = NoOp
  /\ UNCHANGED <<metadata, file, active, worker, lostCall, diskCall, told, recovery, crashes>>

\* DeviceUnavailableError: what was opened is closed again.
OpenFails ==
  /\ "unavailable" \in Faults
  /\ AtOp("open")
  /\ worker' = CloseOpened
  /\ op' = NoOp
  /\ UNCHANGED <<metadata, file, active, lostCall, diskCall, told, recovery, crashes>>

\* devices[kind] raises KeyError: only DeviceUnavailableError closes what was opened.
DeviceVanished ==
  /\ "vanished" \in Faults
  /\ AtOp("open")
  /\ op' = NoOp
  /\ UNCHANGED <<metadata, file, active, worker, lostCall, diskCall, told, recovery, crashes>>

\* The row is written, _active is set and the writer threads start.
CreateSession ==
  /\ AtOp("create")
  /\ CreateActiveSession(op.session)
  /\ active' = op.session
  /\ worker' = [w \in Source |-> IF SessionOf(w) = op.session
                                   THEN [worker[w] EXCEPT !.pc = "get"]
                                   ELSE worker[w]]
  /\ op' = [op EXCEPT !.pc = "started"]
  /\ UNCHANGED <<file, lostCall, diskCall, told, recovery, crashes>>

CreateFails ==
  /\ "sqlite" \in Faults
  /\ AtOp("create")
  /\ worker' = CloseOpened
  /\ op' = NoOp
  /\ UNCHANGED <<metadata, file, active, lostCall, diskCall, told, recovery, crashes>>

\* The STARTED event, then the observers: by now the writers may have flushed a chunk.
TellStarted ==
  /\ AtOp("started")
  /\ AppendEvent(op.session, <<"started">>)
  /\ told' = [told EXCEPT ![op.session] = @ \cup {"started"}]
  /\ op' = NoOp
  /\ UNCHANGED <<file, active, worker, lostCall, diskCall, recovery, crashes>>

-----------------------------------------------------------------------------
(***************************************************************************)
(* The three ways to end a session: stop_session, handle_device_lost and   *)
(* the finaliser of _on_disk_full.                                         *)
(***************************************************************************)
StopSession ==
  /\ LockFree /\ active # NoSession
  /\ told' = [told EXCEPT ![active] = @ \cup {"stopped"}]
  /\ op' = Begin("stop", "close", active, op.kind, Kind)
  /\ UNCHANGED <<metadata, file, active, worker, lostCall, diskCall, recovery, crashes>>

\* The callback of source w reaches the lock; it knows only the kind it is about.
DeviceLost(w) ==
  /\ LockFree /\ w \in lostCall
  /\ lostCall' = lostCall \ {w}
  /\ op' = IF active = NoSession \/ worker[<<active, KindOf(w)>>].ended
             THEN NoOp
             ELSE Begin("lost", "close", active, KindOf(w), {KindOf(w)})
  /\ UNCHANGED <<metadata, file, active, worker, diskCall, told, recovery, crashes>>

\* A bug: the finaliser gives up, as it may when the session is gone.
MutantDiskFull(w) ==
  /\ LockFree /\ w \in diskCall
  /\ diskCall' = diskCall \ {w}
  /\ UNCHANGED <<metadata, file, active, op, worker, lostCall, told, recovery, crashes>>

\* The finaliser that writer w started reaches the lock.
DiskFull(w) ==
  /\ LockFree /\ w \in diskCall
  /\ diskCall' = diskCall \ {w}
  /\ op' = IF active = NoSession
             THEN NoOp
             ELSE Begin("disk", "disk_low", active, KindOf(w), Kind)
  /\ UNCHANGED <<metadata, file, active, worker, lostCall, told, recovery, crashes>>

RecordDiskLow ==
  /\ AtOp("disk_low")
  /\ AppendEvent(op.session, <<"disk_low">>)
  /\ op' = [op EXCEPT !.pc = "close"]
  /\ UNCHANGED <<file, active, worker, lostCall, diskCall, told, recovery, crashes>>

(***************************************************************************)
(* The next source: its stream is closed.  _end_all_sources remembers that *)
(* the source had ended before; a lost source is marked in any case.       *)
(***************************************************************************)
CloseSource(k) ==
  /\ AtOp("close") /\ k \in op.todo
  /\ LET w == <<op.session, k>> IN
       /\ worker' = [worker EXCEPT ![w].stream = FALSE]
       /\ op' = [op EXCEPT !.kind = k, !.todo = @ \ {k},
                           !.pc = IF worker[w].ended /\ op.name # "lost"
                                    THEN "rejoin" ELSE "end"]
  /\ UNCHANGED <<metadata, file, active, lostCall, diskCall, told, recovery, crashes>>

\* end_async: the writer may have ended by itself since the stream was closed.
EndAsync ==
  /\ AtOp("end")
  /\ worker' = [worker EXCEPT ![OpSource].ended = TRUE]
  /\ op' = [op EXCEPT !.pc = IF worker[OpSource].ended THEN "join" ELSE "put"]
  /\ UNCHANGED <<metadata, file, active, lostCall, diskCall, told, recovery, crashes>>

\* A bug: put_nowait, whose queue.Full is swallowed: the writer never hears of the end.
MutantPutSentinel ==
  /\ AtOp("put")
  /\ worker' = [worker EXCEPT ![OpSource].sentinel =
                  IF worker[OpSource].queued < QueueSize THEN "queued" ELSE @]
  /\ op' = [op EXCEPT !.pc = "join"]
  /\ UNCHANGED <<metadata, file, active, lostCall, diskCall, told, recovery, crashes>>

\* queue.put(_SENTINEL) waits for a place in the queue.
PutSentinel ==
  /\ AtOp("put")
  /\ worker[OpSource].queued < QueueSize
  /\ worker' = [worker EXCEPT ![OpSource].sentinel = "queued"]
  /\ op' = [op EXCEPT !.pc = "join"]
  /\ UNCHANGED <<metadata, file, active, lostCall, diskCall, told, recovery, crashes>>

NextSource == IF op.todo = {} THEN "finalize" ELSE "close"

\* A bug: the operation goes on without waiting for the flush.
MutantJoinWriter ==
  /\ AtOp("join") \/ AtOp("rejoin")
  /\ op' = [op EXCEPT !.pc = IF @ = "join" THEN "mark" ELSE NextSource]
  /\ UNCHANGED <<metadata, file, active, worker, lostCall, diskCall, told, recovery, crashes>>

\* thread.join(timeout=10); a source that had ended before is not marked.
JoinWriter ==
  /\ AtOp("join") \/ AtOp("rejoin")
  /\ Exited(OpSource) \/ "timeout" \in Faults
  /\ op' = [op EXCEPT !.pc = IF @ = "join" THEN "mark" ELSE NextSource]
  /\ UNCHANGED <<metadata, file, active, worker, lostCall, diskCall, told, recovery, crashes>>

MarkSource ==
  /\ AtOp("mark")
  /\ EndSource(OpSource, IF op.name = "lost" THEN "ended_device_lost" ELSE "completed")
  /\ op' = [op EXCEPT !.pc = IF op.name = "lost" THEN "device_lost" ELSE NextSource]
  /\ UNCHANGED <<file, active, worker, lostCall, diskCall, told, recovery, crashes>>

\* A bug: nobody asks whether the lost source was the last one.
MutantRecordDeviceLost ==
  /\ AtOp("device_lost")
  /\ AppendEvent(op.session, <<"device_lost", op.kind, worker[OpSource].seq>>)
  /\ op' = NoOp
  /\ UNCHANGED <<file, active, worker, lostCall, diskCall, told, recovery, crashes>>

\* The DEVICE_LOST event; the session goes on while another source does.
RecordDeviceLost ==
  /\ AtOp("device_lost")
  /\ AppendEvent(op.session, <<"device_lost", op.kind, worker[OpSource].seq>>)
  /\ op' = IF \A w \in Workers(op.session) : worker[w].ended
             THEN [op EXCEPT !.pc = "finalize"]
             ELSE NoOp
  /\ UNCHANGED <<file, active, worker, lostCall, diskCall, told, recovery, crashes>>

\* _active is cleared and the observers hear the last of the session.
Release ==
  /\ active' = NoSession
  /\ told' = [told EXCEPT ![op.session] = @ \cup {"finalized"}]
  /\ op' = NoOp

\* A bug: the duration of whichever source comes to hand.
MutantFinalize ==
  /\ AtOp("finalize")
  /\ \E w \in Workers(op.session) : FinalizeSession(op.session, "completed", worker[w].dur)
  /\ IF op.name = "stop"
       THEN op' = [op EXCEPT !.pc = "stopped"] /\ UNCHANGED <<active, told>>
       ELSE Release
  /\ UNCHANGED <<file, worker, lostCall, diskCall, recovery, crashes>>

\* The longest source gives the session's duration; only a stop has an event to append.
Finalize ==
  /\ AtOp("finalize")
  /\ \E w \in Workers(op.session) :
       /\ \A v \in Workers(op.session) : worker[v].dur <= worker[w].dur
       /\ FinalizeSession(op.session, "completed", worker[w].dur)
  /\ IF op.name = "stop"
       THEN op' = [op EXCEPT !.pc = "stopped"] /\ UNCHANGED <<active, told>>
       ELSE Release
  /\ UNCHANGED <<file, worker, lostCall, diskCall, recovery, crashes>>

RecordStopped ==
  /\ AtOp("stopped")
  /\ AppendEvent(op.session, <<"stopped">>)
  /\ Release
  /\ UNCHANGED <<file, worker, lostCall, diskCall, recovery, crashes>>

\* A transaction raises: the operation ends half way and the lock is released.
OperationFails ==
  /\ "sqlite" \in Faults
  /\ op.pc \in {"started", "disk_low", "mark", "device_lost", "finalize", "stopped"}
  /\ op' = NoOp
  /\ UNCHANGED <<metadata, file, active, worker, lostCall, diskCall, told, recovery, crashes>>

Operation ==
  \/ \E k \in Kind : OpenStream(k) \/ CloseSource(k)
  \/ CreateSession \/ TellStarted
  \/ RecordDiskLow \/ EndAsync \/ PutSentinel \/ JoinWriter \/ MarkSource
  \/ RecordDeviceLost \/ Finalize \/ RecordStopped
OperationFault == OpenFails \/ DeviceVanished \/ CreateFails \/ OperationFails

-----------------------------------------------------------------------------
(***************************************************************************)
(* Process death, and reconcile_interrupted before the next process serves.*)
(***************************************************************************)
Crash ==
  /\ crashes < MaxCrashes
  /\ crashes' = crashes + 1
  /\ active' = NoSession
  /\ op' = NoOp
  /\ worker' = [w \in Source |-> NoWorker]
  /\ lostCall' = {} /\ diskCall' = {}
  /\ told' = [s \in Session |-> {}]
  /\ recovery' = NoRecovery("scan")
  /\ UNCHANGED <<metadata, file>>

\* A bug: the process serves without looking for a session a crash left.
MutantRecoverScan ==
  /\ recovery.pc = "scan"
  /\ recovery' = NoRecovery("up")
  /\ UNCHANGED <<metadata, file, engine, crashes>>

\* active_sessions(): the session a crash left, or nothing to repair.
RecoverScan ==
  /\ recovery.pc = "scan"
  /\ \/ \E s \in Session :
          /\ session[s].status = "active"
          /\ recovery' = [recovery EXCEPT !.pc = "source", !.session = s,
                                          !.todo = Kind, !.best = 0]
     \/ /\ \A s \in Session : session[s].status # "active"
        /\ recovery' = NoRecovery("up")
  /\ UNCHANGED <<metadata, file, engine, crashes>>

\* A bug: the rows are taken for the truth, not the files.
MutantRecoverSource(k) ==
  /\ recovery.pc = "source" /\ k \in recovery.todo
  /\ recovery' = [recovery EXCEPT !.pc = "chunk", !.kind = k, !.todo = @ \ {k},
                                  !.left = row[<<recovery.session, k>>], !.total = 0]
  /\ UNCHANGED <<metadata, file, engine, crashes>>

\* inventory(): the chunks found on disk.
RecoverSource(k) ==
  /\ recovery.pc = "source" /\ k \in recovery.todo
  /\ recovery' = [recovery EXCEPT !.pc = "chunk", !.kind = k, !.todo = @ \ {k},
                                  !.left = file[<<recovery.session, k>>], !.total = 0]
  /\ UNCHANGED <<metadata, file, engine, crashes>>

RecoverSourceAt == <<recovery.session, recovery.kind>>

RecoverChunk ==
  /\ recovery.pc = "chunk"
  /\ \E c \in recovery.left :
       /\ \A d \in recovery.left : c.seq <= d.seq
       /\ RecordChunk(RecoverSourceAt, c)
       /\ recovery' = [recovery EXCEPT !.left = @ \ {c}, !.total = @ + c.size]
  /\ UNCHANGED <<file, engine, crashes>>

RecoverMark ==
  /\ recovery.pc = "chunk" /\ recovery.left = {}
  /\ EndSource(RecoverSourceAt, "completed")
  /\ recovery' = [recovery EXCEPT !.best = IF @ < recovery.total THEN recovery.total ELSE @,
                                  !.pc = IF recovery.todo = {} THEN "finalize" ELSE "source"]
  /\ UNCHANGED <<file, engine, crashes>>

RecoverFinalize ==
  /\ recovery.pc = "finalize"
  /\ FinalizeSession(recovery.session, "interrupted", recovery.best)
  /\ recovery' = [recovery EXCEPT !.pc = "event"]
  /\ UNCHANGED <<file, engine, crashes>>

RecoverEvent ==
  /\ recovery.pc = "event"
  /\ AppendEvent(recovery.session, <<"reconciled">>)
  /\ recovery' = NoRecovery("scan")
  /\ UNCHANGED <<file, engine, crashes>>

Recover ==
  \/ RecoverScan \/ RecoverChunk \/ RecoverMark \/ RecoverFinalize \/ RecoverEvent
  \/ \E k \in Kind : RecoverSource(k)

-----------------------------------------------------------------------------
Next ==
  \/ \E w \in Source : Frame(w) \/ WatchdogFires(w) \/ Writer(w) \/ WriterFault(w)
  \/ \E s \in Session : StartSession(s)
  \/ StopSession
  \/ \E w \in Source : DeviceLost(w) \/ DiskFull(w)
  \/ Operation \/ OperationFault
  \/ Crash \/ Recover

Spec == Init /\ [][Next]_vars

(***************************************************************************)
(* Fairness: the threads that hold the engine lock, wait for it or drain a *)
(* queue run on until they block, and a restarted process recovers.        *)
(* Requests, device losses, faults and crashes need never happen.  The     *)
(* waiters need no more than weak fairness because requests are finite.    *)
(***************************************************************************)
FairSpec ==
  /\ Spec
  /\ WF_vars(Operation) /\ WF_vars(Recover)
  /\ \A w \in Source : WF_vars(Writer(w)) /\ WF_vars(DeviceLost(w)) /\ WF_vars(DiskFull(w))

-----------------------------------------------------------------------------
(***************************************************************************)
(* What the engine promises.                                               *)
(***************************************************************************)
Frames(chunks) == MapThenSumSet(LAMBDA c : c.size, chunks)
Longest(s, chunks) == Max({Frames(chunks[w]) : w \in Workers(s)})

(***************************************************************************)
(* At most one session is active, and while the process serves it is the   *)
(* engine's: no row stays active behind an engine that has let go of it    *)
(* (_active against the index one_active), and without database errors the *)
(* engine never clings to a finished one.                                  *)
(***************************************************************************)
OneActiveSession ==
  /\ \A s, t \in Session :
       session[s].status = "active" /\ session[t].status = "active" => s = t
  /\ Serving => \A s \in Session : session[s].status = "active" => s = active
  /\ LockFree /\ active # NoSession /\ "sqlite" \notin Faults
       => session[active].status = "active"

(***************************************************************************)
(* A chunk is in the metadata only if the very same chunk is on disk: rows *)
(* follow the rename, in the writer and in recovery.                       *)
(***************************************************************************)
RowsAreFiles == \A w \in Source : row[w] \subseteq file[w]

(***************************************************************************)
(* The chunks of a source are numbered without a gap or a duplicate, and   *)
(* all but the last hold exactly ten seconds (AudioChunk's seq and         *)
(* duration_s), whatever gap fills, final flushes and crashes happen.      *)
(***************************************************************************)
ChunksContiguous ==
  \A w \in Source :
    LET n == Cardinality(file[w]) IN
    /\ {c.seq : c \in file[w]} = {i \in 0..MaxFrames : i < n}
    /\ \A c \in file[w] : c.size = ChunkFrames \/ (c.size < ChunkFrames /\ c.seq = n - 1)

\* chunk_count and size_bytes equal what audio_chunks holds: no chunk counts twice.
CountsMatchRows ==
  /\ \A w \in Source : source[w].count = Cardinality(row[w])
  /\ \A s \in Session :
       session[s].size = MapThenSumSet(LAMBDA w : Frames(row[w]), Workers(s))

(***************************************************************************)
(* While a writer lives, every frame its source delivered and every frame  *)
(* of silence it filled in is in a recorded chunk, in the chunk being      *)
(* written, in the buffer, in the queue, or was dropped at the full queue: *)
(* nothing else loses a frame, and none is twice.                          *)
(***************************************************************************)
AudioConserved ==
  \A w \in Source : worker[w].pc \notin {"none", "full", "failed"} =>
    worker[w].heard
      = Frames(row[w]) + worker[w].out + worker[w].buffer + worker[w].queued
          + worker[w].dropped

(***************************************************************************)
(* Once the writers of a completed session have returned, all they heard   *)
(* but what the full queue dropped is recorded: stop flushes the final     *)
(* partial chunks.                                                         *)
(***************************************************************************)
FinishedLosesNothing ==
  \A w \in Source :
    session[SessionOf(w)].status = "completed" /\ worker[w].pc = "done"
      => Frames(row[w]) + worker[w].dropped = worker[w].heard

(***************************************************************************)
(* The duration of a finished session is its longest source's recorded     *)
(* audio, however the session ended (join timeouts aside).                 *)
(***************************************************************************)
DurationIsAudio ==
  \A s \in Session : session[s].status \in Finished => session[s].duration = Longest(s, row)

(***************************************************************************)
(* A session that recovery has finalised holds exactly the chunks on disk  *)
(* and no source of it is active: nothing the crash left is lost.          *)
(***************************************************************************)
RecoveredMatchesDisk ==
  \A w \in Source : session[SessionOf(w)].status = "interrupted" =>
    row[w] = file[w] /\ source[w].status \in {"completed", "ended_device_lost"}

(***************************************************************************)
(* The DEVICE_LOST event's last_seq is the last chunk of that source: the  *)
(* flush comes before the event and nothing is recorded after it.          *)
(***************************************************************************)
LossEventIsExact ==
  \A w \in Source : \A n \in 0..MaxFrames :
    <<"device_lost", KindOf(w), n>> \in event[SessionOf(w)] => n = Cardinality(row[w])

(***************************************************************************)
(* While no operation runs, a stream is open only for the active session:  *)
(* neither a failed start nor any way of ending leaves one capturing.      *)
(* Aside from DeviceVanished, and from a source whose writer met the full  *)
(* disk: it counts as ended, so a device-lost call that comes first        *)
(* completes the session and nobody closes that stream.                    *)
(***************************************************************************)
NoOrphanStream ==
  LockFree => \A w \in Source :
    worker[w].stream /\ worker[w].pc # "full" => SessionOf(w) = active

(***************************************************************************)
(* A finished session is final: no late writer, stale callback, restart or *)
(* second end changes its row, its sources, its chunks or their files.     *)
(***************************************************************************)
FinishedIsFinal ==
  [][\A s \in Session : session[s].status \in Finished =>
       /\ session'[s] = session[s]
       /\ \A w \in Workers(s) :
            source'[w] = source[w] /\ row'[w] = row[w] /\ file'[w] = file[w]]_vars

-----------------------------------------------------------------------------
(***************************************************************************)
(* The engine implements SessionFeed: to an observer a session that a      *)
(* crash left active is finished, since recovery ends it before anyone is  *)
(* served.  Only a join that times out breaks this: its writer tells of    *)
(* chunks of a finished session.                                           *)
(***************************************************************************)
FeedStatusOf(s) == IF session[s].status \in Finished THEN "finished"
                   ELSE IF session[s].status = "active" /\ ~Serving THEN "finished"
                   ELSE session[s].status
Feed == INSTANCE SessionFeed WITH
          status <- [s \in Session |-> FeedStatusOf(s)],
          onDisk <- [w \in Source |-> Cardinality(file[w])],
          fed <- [w \in Source |-> worker[w].seq]
ImplementsFeed == Feed!FeedSpec

-----------------------------------------------------------------------------
(***************************************************************************)
(* What the documents say and the code does not do.  The spec's disk-full  *)
(* edge case, "capture must stop safely": ending a source never waits for  *)
(* a writer that is gone (end_async holds the engine lock over its put).   *)
(* Stuck is that wait: the put of the sentinel into a full queue that      *)
(* nobody drains any more.                                                 *)
(***************************************************************************)
Stuck == AtOp("put") /\ worker[OpSource].queued = QueueSize /\ Exited(OpSource)
EndNeverWaitsForDeadWriter == ~Stuck

(***************************************************************************)
(* Stuck is the only way the engine lock is held for ever: otherwise it is *)
(* released again, whatever queues are full behind their living writers,   *)
(* and a restarted process serves again.                                   *)
(***************************************************************************)
LockIsReleased == ~LockFree ~> LockFree \/ Stuck

\* A stop request that found its session active finishes it, or is Stuck.
StopFinishes ==
  \A s \in Session :
    op.name = "stop" /\ op.session = s ~> session[s].status \in Finished \/ Stuck

\* A writer that meets a full disk ends its session, unless the operation before it is Stuck.
DiskFullFinishes ==
  \A w \in Source : w \in diskCall ~> session[SessionOf(w)].status \in Finished \/ Stuck

\* When every device of the active session is lost, the session ends by itself, or is Stuck.
AllLostFinishes ==
  \A s \in Session :
    active = s /\ Workers(s) \subseteq lostCall ~> session[s].status \in Finished \/ Stuck
=============================================================================
