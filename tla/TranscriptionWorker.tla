-------------------------- MODULE TranscriptionWorker --------------------------
(***************************************************************************)
(* The transcription worker (transcription/worker.py) on the stores and    *)
(* observers it is wired to: one thread serves a heap of items, live work  *)
(* before on-demand work; the observers run on capture threads and only    *)
(* enqueue; /transcribe requests create on-demand jobs; a restarted        *)
(* process reconciles the jobs it finds open.                              *)
(***************************************************************************)
EXTENDS SessionFeed, TranscriptStore, SequencesExt

CONSTANTS NoSession,    \* no session
          Mic, System,  \* the two kinds
          Request,      \* /transcribe requests
          Window,       \* chunks the energy window of attribution reaches back
          MaxChunks,    \* bound: chunks of a source, by kind
          MaxCrashes,   \* bound: process deaths
          MaxErrors,    \* bound: unexpected errors in the worker
          Hearings,     \* what the engine may hear in a chunk in this instance
          Outcomes      \* what may go wrong with the engine in this instance

Outcome == {"engine_error",    \* transcribe raises EngineError
            "not_ready",       \* readiness() when a session starts
            "not_installed"}   \* likewise

Hearing == {"nothing",   \* no speech begins in the chunk
            "whole",     \* speech that ends in it
           "late",      \* likewise, all of it in the part the next window shows again
            "cut"}       \* speech that runs past its end

ASSUME WorkerAssumption ==
  /\ NoSession \notin Session
  /\ Mic # System /\ Kind = {Mic, System}
  /\ Transcripts \in Nat /\ Window \in Nat \ {0}
  /\ MaxChunks \in [Kind -> Nat] /\ MaxCrashes \in Nat /\ MaxErrors \in Nat
  /\ Outcomes \subseteq Outcome /\ Hearings \subseteq Hearing

VARIABLES live,      \* _live, by session
          starting,  \* the session whose "started" observer runs, and its transcript
          pushing,   \* on_chunk calls that have counted their chunk, not yet pushed it
          liveQ,     \* the heap's items of priority 0, in order
          jobQ,      \* its items of priority 1: on-demand steps
          track,     \* the tracks of each transcript's _LiveSession
          od,        \* _od_state, by transcript
          wk,        \* the worker thread
          request,   \* the requests
          boot,      \* reconcile_transcription and requeue_open_on_demand
          crashes, errors,
          read,      \* history: the chunks that went into each transcript
          heard,     \* history: the speech found in them
          again      \* history: the speech an overlap gave again before all of it was out

memory == <<live, starting, pushing, liveQ, jobQ, track, od, wk>>
past == <<read, heard, again>>
wvars == <<feed, store, memory, request, boot, crashes, errors, past>>

(***************************************************************************)
(* A stretch of speech: the track, the chunk whose window shows it whole,  *)
(* and its time, counted in chunks the track had processed (next_start_s): *)
(* it ends in that chunk and reaches back less than one before it.         *)
(***************************************************************************)
Speech == [kind : Kind, chunk : Nat, at : Nat]

(***************************************************************************)
(* tail_pcm: what the next window of the track shows again of its last     *)
(* chunk - nothing, the beginning of speech that runs on, speech that was  *)
(* found already, or was found cut off at the end of the chunk.            *)
(***************************************************************************)
Overlap == [how : {"nothing", "beginning", "found", "found_cut"}, chunk : Nat]
NoTail == [how |-> "nothing", chunk |-> 0]

NoLive == [id |-> 0, stopping |-> FALSE, outstanding |-> 0]
Listed(s) == live[s].id # 0
NoTrack == [done |-> [k \in Kind |-> 0],         \* next_start_s
            pending |-> [k \in Kind |-> <<>>],   \* deferred by attribution
            tail |-> [k \in Kind |-> NoTail]]
NoOd == [listed |-> FALSE, idx |-> 0, inv |-> [k \in Kind |-> 0]]

(***************************************************************************)
(* The worker thread.  idle - at the heap; transcribe - with a chunk of    *)
(* track kind; retry - before what the other track has deferred; emit -    *)
(* appending the segments of out, then next; account - after a live chunk; *)
(* finalise - in _finalise_live; report - there, holding _live_lock;       *)
(* advance - at the end of an on-demand step; settle and job - before      *)
(* set_state and update_job to the last state, verdict.  session is        *)
(* NoSession in on-demand work.                                            *)
(***************************************************************************)
WorkerPc == {"idle", "transcribe", "retry", "emit", "account", "finalise", "report",
             "advance", "settle", "job"}
Wk == [pc : WorkerPc, id : 0..Transcripts, session : Session \cup {NoSession},
       kind : Kind, chunk : Nat, out : Seq(Speech), next : WorkerPc, verdict : Ended]
Idle == [pc |-> "idle", id |-> 0, session |-> NoSession, kind |-> Mic, chunk |-> 0,
         out |-> <<>>, next |-> "idle", verdict |-> "completed"]
At(pc) == wk.pc = pc
LiveLockFree == ~At("report")

ChunkItem(w, n) == [session |-> SessionOf(w), kind |-> KindOf(w), chunk |-> n, stop |-> FALSE]
StopItem(s) == [session |-> s, kind |-> Mic, chunk |-> 0, stop |-> TRUE]
Item == [session : Session, kind : Kind, chunk : Nat, stop : BOOLEAN]

NewRequest == [pc |-> "new", session |-> NoSession, id |-> 0]
RequestPc == {"new", "checked", "created", "done"}

BootPc == {"up", "scan", "next", "job", "queue"}
Boot(pc) == [pc |-> pc, todo |-> {}, id |-> 0]
Up == boot.pc = "up"

TypeOK ==
  /\ FeedTypeOK
  /\ StoreTypeOK(Session \cup {NoSession}, Speech)
  /\ live \in [Session -> [id : 0..Transcripts, stopping : BOOLEAN, outstanding : Nat]]
  /\ starting \in [session : Session \cup {NoSession}, id : 0..Transcripts]
  /\ pushing \in SUBSET Source
  /\ liveQ \in Seq(Item)
  /\ jobQ \in Seq(Id)
  /\ track \in [Id -> [done : [Kind -> Nat], pending : [Kind -> Seq(Speech)],
                       tail : [Kind -> Overlap]]]
  /\ od \in [Id -> [listed : BOOLEAN, idx : Nat, inv : [Kind -> Nat]]]
  /\ wk \in Wk
  /\ request \in [Request -> [pc : RequestPc, session : Session \cup {NoSession},
                              id : 0..Transcripts]]
  /\ boot \in [pc : BootPc, todo : SUBSET Id, id : 0..Transcripts]
  /\ crashes \in 0..MaxCrashes /\ errors \in 0..MaxErrors
  /\ read \in [Id -> SUBSET (Kind \X Nat)]
  /\ heard \in [Id -> SUBSET Speech] /\ again \in [Id -> SUBSET Speech]

NoStart == [session |-> NoSession, id |-> 0]
Init ==
  /\ FeedInit
  /\ StoreInit(NoSession)
  /\ live = [s \in Session |-> NoLive] /\ starting = NoStart
  /\ pushing = {} /\ liveQ = <<>> /\ jobQ = <<>>
  /\ track = [i \in Id |-> NoTrack] /\ od = [i \in Id |-> NoOd]
  /\ wk = Idle
  /\ request = [r \in Request |-> NewRequest]
  /\ boot = Boot("scan")
  /\ crashes = 0 /\ errors = 0
  /\ read = [i \in Id |-> {}]
  /\ heard = [i \in Id |-> {}] /\ again = [i \in Id |-> {}]

-----------------------------------------------------------------------------
(***************************************************************************)
(* Capture: the steps nobody hears of, and the observers.  A thread is in  *)
(* one observer at a time: the engine's lock holder in "started", a writer *)
(* in on_chunk.                                                            *)
(***************************************************************************)
LockHolderFree == Up /\ starting = NoStart
WritersFree(s) == \A w \in pushing : SessionOf(w) # s

Capture ==
  /\ LockHolderFree
  /\ \/ \E s \in Session :
          \/ Activate(s)
          \/ WritersFree(s) /\ (Finish(s) \/ TellFinalized(s))
     \/ \E w \in Source : w \notin pushing /\ onDisk[w] < MaxChunks[KindOf(w)] /\ FileChunk(w)
  /\ UNCHANGED <<store, memory, request, boot, crashes, errors, past>>

\* _begin_live: the transcript and its job; with a ready engine the session is yet to list.
BeginLive(s) ==
  /\ LockHolderFree
  /\ TellStarted(s)
  /\ \/ /\ "not_installed" \in Outcomes
        /\ UNCHANGED <<store, starting>>
     \/ \E i \in Id :
          /\ "not_ready" \in Outcomes
          /\ CreateTranscript(i, s, "live", "failed", "failed")
          /\ UNCHANGED starting
     \/ \E i \in Id :
          /\ CreateTranscript(i, s, "live", "live", "running")
          /\ starting' = [session |-> s, id |-> i]
  /\ UNCHANGED <<live, pushing, liveQ, jobQ, track, od, wk, request, boot, crashes, errors, past>>

ListLive ==
  /\ starting # NoStart /\ LiveLockFree
  /\ live' = [live EXCEPT ![starting.session] = [NoLive EXCEPT !.id = starting.id]]
  /\ starting' = NoStart
  /\ UNCHANGED <<feed, store, pushing, liveQ, jobQ, track, od, wk, request, boot,
                 crashes, errors, past>>

\* Bound: a stop that is told again is left out; its second item finds nothing new to do.
OnStopped(s) ==
  /\ LockHolderFree /\ LiveLockFree
  /\ "stopped" \notin told[s]
  /\ TellStopped(s)
  /\ IF Listed(s)
       THEN /\ live' = [live EXCEPT ![s].stopping = TRUE]
            /\ liveQ' = Append(liveQ, StopItem(s))
       ELSE UNCHANGED <<live, liveQ>>
  /\ UNCHANGED <<store, starting, pushing, jobQ, track, od, wk, request, boot,
                 crashes, errors, past>>

\* A bug: the chunk is counted when it is pushed, not before.
MutantOnChunk(w) ==
  /\ Up /\ LiveLockFree /\ w \notin pushing
  /\ TellChunk(w)
  /\ pushing' = IF Listed(SessionOf(w)) THEN pushing \cup {w} ELSE pushing
  /\ UNCHANGED <<store, live, starting, liveQ, jobQ, track, od, wk, request, boot,
                 crashes, errors, past>>

\* A chunk of a session that is not live, or not listed yet, is not transcribed live.
OnChunk(w) ==
  /\ Up /\ LiveLockFree /\ w \notin pushing
  /\ TellChunk(w)
  /\ IF Listed(SessionOf(w))
       THEN /\ live' = [live EXCEPT ![SessionOf(w)].outstanding = @ + 1]
            /\ pushing' = pushing \cup {w}
       ELSE UNCHANGED <<live, pushing>>
  /\ UNCHANGED <<store, starting, liveQ, jobQ, track, od, wk, request, boot,
                 crashes, errors, past>>

PushChunk(w) ==
  /\ w \in pushing
  /\ pushing' = pushing \ {w}
  /\ liveQ' = Append(liveQ, ChunkItem(w, fed[w] - 1))
  /\ UNCHANGED <<feed, store, live, starting, jobQ, track, od, wk, request, boot,
                 crashes, errors, past>>

-----------------------------------------------------------------------------
(***************************************************************************)
(* POST /transcribe: the checks, then request_on_demand's transaction and  *)
(* its push, with other requests in between.                               *)
(***************************************************************************)
CheckRequest(r, s) ==
  /\ Up /\ request[r].pc = "new"
  /\ status[s] = "finished"
  /\ ~RunningOnDemand(s)
  /\ request' = [request EXCEPT ![r].pc = "checked", ![r].session = s]
  /\ UNCHANGED <<feed, store, memory, boot, crashes, errors, past>>

CreateRequested(r) ==
  /\ request[r].pc = "checked"
  /\ \E i \in Id :
       /\ CreateTranscript(i, request[r].session, "on_demand", "pending", "queued")
       /\ request' = [request EXCEPT ![r].pc = "created", ![r].id = i]
  /\ UNCHANGED <<feed, memory, boot, crashes, errors, past>>

PushRequested(r) ==
  /\ request[r].pc = "created"
  /\ jobQ' = Append(jobQ, request[r].id)
  /\ request' = [request EXCEPT ![r].pc = "done"]
  /\ UNCHANGED <<feed, store, live, starting, pushing, liveQ, track, od, wk, boot,
                 crashes, errors, past>>
-----------------------------------------------------------------------------
(***************************************************************************)
(* What attribution does with the speech of a track.  Times within a chunk *)
(* are not kept, nor texts: what depends on them is a choice.              *)
(***************************************************************************)
Other(k) == IF k = Mic THEN System ELSE Mic

(***************************************************************************)
(* The loudness of both tracks may be known over the span of c, or its     *)
(* start may have left the energy window.  An error after energy.add       *)
(* leaves the loudness of a track a chunk ahead of what it transcribed.    *)
(***************************************************************************)
CanJudge(t, c) ==
  \/ t.done[Other(c.kind)] > c.at
  \/ \E k \in Kind : t.done[k] >= c.at + Window
  \/ errors > 0

\* It surely is by now, even when the last chunk of either track was a short one.
MustJudge(t, c) ==
  \/ \A k \in Kind : t.done[k] > c.at + 1
  \/ \E k \in Kind : t.done[k] > c.at + Window + 1

\* The places of pending speech that may be judged now: the first ones, as time passes.
Judgements(t, k) == LET s == t.pending[k] IN
  {J \in {1..m : m \in 0..Len(s)} :
     \A n \in DOMAIN s : IF n \in J THEN CanJudge(t, s[n]) ELSE ~MustJudge(t, s[n])}

(***************************************************************************)
(* The members of s at the places of T, by their key and, of equal ones,   *)
(* by place: what SelectSeq and SortSeq compute, in a form to reason about. *)
(***************************************************************************)
Ahead(key, m, n) == key[m] < key[n] \/ (key[m] = key[n] /\ m < n)
Picked(s, T, key) ==
  [n \in 1..Cardinality(T) |->
     s[CHOOSE m \in T : Cardinality({x \in T : Ahead(key, x, m)}) = n - 1]]
Kept(s, T) == Picked(s, T, [n \in DOMAIN s |-> 0])

(***************************************************************************)
(* Mic speech may be a copy of system speech within a second of it, which  *)
(* may have been found in the chunk before or after; one that may be is    *)
(* dropped as bleed if the twin was emitted or is deferred.                *)
(***************************************************************************)
CopyOf(c, d) ==
  /\ c.kind = Mic /\ d.kind = System
  /\ c.at <= d.at + 1 /\ d.at <= c.at + 1
Twins(i, t, cands) ==
  {c \in cands : \E d \in ToSet(segment[i]) \cup ToSet(t.pending[System]) : CopyOf(c, d)}
Unbled(s, T, bleed) == {n \in T : s[n] \notin bleed}

\* attribute sorts what it gives out by start time.
Attributed(s, J, bleed) == Picked(s, Unbled(s, J, bleed), [n \in DOMAIN s |-> s[n].at])

\* A bug: new speech is put before what was deferred.
MutantHear(t, k, speech) ==
  [t EXCEPT !.pending[k] = speech \o t.pending[k], !.done[k] = @ + 1]

Hear(t, k, speech) ==
  [t EXCEPT !.pending[k] = t.pending[k] \o speech, !.done[k] = @ + 1]

\* The worker with segments to append before it goes on to next.
EmitThen(w, out, next) ==
  [w EXCEPT !.pc = IF out = <<>> THEN next ELSE "emit", !.out = out, !.next = next]

\* _attribute_and_emit: what track k has pending in t is judged or deferred.
Attribute(i, t, k, next) == LET s == t.pending[k] IN
  \E J \in Judgements(t, k) :
    /\ track' = [track EXCEPT ![i] = [t EXCEPT !.pending[k] = Kept(s, DOMAIN s \ J)]]
    /\ \E bleed \in SUBSET Twins(i, t, {s[n] : n \in J}) :
         wk' = EmitThen(wk, Attributed(s, J, bleed), next)

-----------------------------------------------------------------------------
(***************************************************************************)
(* The worker thread: _run takes the first item of the heap.               *)
(***************************************************************************)
IsLive == wk.session # NoSession
AfterChunk == IF IsLive THEN "account" ELSE "advance"

\* The chunk of session s that the worker is at, before its finally has run.
InProgress(s) == /\ wk.session = s
                 /\ \/ wk.pc \in {"transcribe", "retry", "account"}
                    \/ At("emit") /\ wk.next \in {"retry", "account"}
Unlist(s) == live' = [live EXCEPT ![s] = NoLive]

TakeChunk ==
  /\ Up /\ At("idle") /\ liveQ # <<>> /\ ~Head(liveQ).stop
  /\ LET item == Head(liveQ) IN
     wk' = IF Listed(item.session)
             THEN [Idle EXCEPT !.pc = "transcribe", !.id = live[item.session].id,
                               !.session = item.session, !.kind = item.kind,
                               !.chunk = item.chunk]
             ELSE wk
  /\ liveQ' = Tail(liveQ)
  /\ UNCHANGED <<feed, store, live, starting, pushing, jobQ, track, od, request, boot,
                 crashes, errors, past>>

TakeStop ==
  /\ Up /\ At("idle") /\ liveQ # <<>> /\ Head(liveQ).stop
  /\ wk' = [Idle EXCEPT !.pc = "finalise", !.session = Head(liveQ).session]
  /\ liveQ' = Tail(liveQ)
  /\ UNCHANGED <<feed, store, live, starting, pushing, jobQ, track, od, request, boot,
                 crashes, errors, past>>

\* The idx-th chunk of an inventory, by number and, of equal ones, mic before system.
Inventory(inv) == UNION {{k} \X (0..(inv[k] - 1)) : k \in Kind}
Before(a, b) == a[2] < b[2] \/ (a[2] = b[2] /\ a[1] = Mic /\ b[1] = System)
ChunkAt(inv, idx) ==
  CHOOSE c \in Inventory(inv) :
    Cardinality({b \in Inventory(inv) : Before(b, c)}) = idx

\* A bug: the last chunk of the inventory is never read.
MutantTotal(inv) == IF Inventory(inv) = {} THEN 0 ELSE Cardinality(Inventory(inv)) - 1

Total(inv) == Cardinality(Inventory(inv))

\* A bug: the system track's deferred speech is forgotten.
MutantFlushed(i, bleed) == LET s == track[i].pending[Mic] IN
  Kept(s, Unbled(s, DOMAIN s, bleed))

\* _flush_pending: what is still deferred comes out, mic copies of system speech aside.
Flushed(i, bleed) == LET s == track[i].pending[Mic] IN
  Kept(s, Unbled(s, DOMAIN s, bleed)) \o track[i].pending[System]
FlushThenSettle(w, i) ==
  /\ \E bleed \in SUBSET Twins(i, track[i], ToSet(track[i].pending[Mic])) :
       wk' = EmitThen([w EXCEPT !.id = i], Flushed(i, bleed), "settle")
  /\ track' = [track EXCEPT ![i].pending = [k \in Kind |-> <<>>]]

\* One chunk of an on-demand job or, after the last, its end.
Step(i, o) ==
  IF o.idx >= Total(o.inv)
    THEN FlushThenSettle(Idle, i)
    ELSE /\ wk' = [Idle EXCEPT !.pc = "transcribe", !.id = i,
                               !.kind = ChunkAt(o.inv, o.idx)[1],
                               !.chunk = ChunkAt(o.inv, o.idx)[2]]
         /\ UNCHANGED track

\* An on-demand step runs only when no live item waits.
TakeStep ==
  /\ Up /\ At("idle") /\ liveQ = <<>> /\ jobQ # <<>>
  /\ jobQ' = Tail(jobQ)
  /\ LET i == Head(jobQ)
         inv == [k \in Kind |-> onDisk[<<transcript[i].session, k>>]]
         fresh == [listed |-> TRUE, idx |-> 0, inv |-> inv]
     IN IF job[i].state \in Ended
          THEN UNCHANGED <<store, od, wk, track>>
          ELSE IF od[i].listed
            THEN Step(i, od[i]) /\ UNCHANGED <<store, od>>
            ELSE /\ od' = [od EXCEPT ![i] = fresh]
                 /\ UpdateJob(i, [state |-> "running", progress |-> 0,
                                  total |-> Total(inv)])
                 /\ Step(i, fresh)
  /\ UNCHANGED <<feed, live, starting, pushing, liveQ, request, boot, crashes, errors, past>>

-----------------------------------------------------------------------------
(***************************************************************************)
(* _transcribe_chunk.  A window is the overlap and the chunk.  Speech that *)
(* runs past its end waits for the next window, unless the session stops.  *)
(* The track's own speech is attributed and emitted first, then what the   *)
(* other track has deferred is tried again.                                *)
(***************************************************************************)

\* A bug: no test of what has been emitted.
MutantRepeats(i, c, how) ==
  IF how \in {"found", "found_cut"} THEN {<<c>>} ELSE {<<>>}

(***************************************************************************)
(* The overlap's speech c is a candidate again unless it ends before what  *)
(* the track has emitted; if it goes on past that, unless most of it was.  *)
(***************************************************************************)
Repeats(i, c, how) ==
  {repeat \in {<<>>, <<c>>} :
     IF how \in {"found", "found_cut"} /\ c \notin ToSet(segment[i])
       THEN repeat = <<c>>
       ELSE repeat = <<>> \/ how = "found_cut"}

Transcribe ==
  /\ At("transcribe")
  /\ \E hearing \in Hearings :
       LET i == wk.id
           k == wk.kind
           was == track[i].tail[k]
           waits == hearing = "cut" /\ ~(IsLive /\ live[wk.session].stopping)
           found == was.how = "beginning" \/ (hearing # "nothing" /\ ~waits)
           b == [kind |-> k, chunk |-> was.chunk, at |-> track[i].done[k] - 1]
           c == [kind |-> k, chunk |-> wk.chunk, at |-> track[i].done[k]]
           how == CASE hearing = "cut"  -> IF waits THEN "beginning" ELSE "found_cut"
                    [] hearing = "late" -> "found"
                    [] OTHER            -> "nothing"
       IN \E repeat \in Repeats(i, b, was.how) :
            LET speech == repeat \o (IF found THEN <<c>> ELSE <<>>)
                t == [Hear(track[i], k, speech) EXCEPT
                        !.tail[k] = [how |-> how, chunk |-> wk.chunk]]
            IN /\ Attribute(i, t, k, IF t.pending[Other(k)] = <<>> THEN AfterChunk ELSE "retry")
               /\ read' = [read EXCEPT ![i] = @ \cup {<<k, wk.chunk>>}]
               /\ heard' = [heard EXCEPT ![i] = @ \cup ToSet(speech)]
               /\ again' = [again EXCEPT ![i] = @ \cup
                    {d \in ToSet(repeat) : d \notin ToSet(segment[i]) \/ was.how = "found_cut"}]
  /\ UNCHANGED <<feed, store, live, starting, pushing, liveQ, jobQ, od, request, boot,
                 crashes, errors>>

Retry ==
  /\ At("retry")
  /\ Attribute(wk.id, track[wk.id], Other(wk.kind), AfterChunk)
  /\ UNCHANGED <<feed, store, live, starting, pushing, liveQ, jobQ, od, request, boot,
                 crashes, errors, past>>

\* append_segment, one transaction each; publishing is left to the stream.
Emit ==
  /\ At("emit")
  /\ AppendSegment(wk.id, Head(wk.out))
  /\ wk' = EmitThen(wk, Tail(wk.out), wk.next)
  /\ UNCHANGED <<feed, live, starting, pushing, liveQ, jobQ, track, od, request, boot,
                 crashes, errors, past>>

\* A bug: the count is taken down in the handler as well as in its finally.
MutantAccount ==
  /\ At("account")
  /\ live' = [live EXCEPT ![wk.session].outstanding = @ - 2]
  /\ wk' = Idle
  /\ SetJobState(wk.id, "running")
  /\ UNCHANGED <<feed, starting, pushing, liveQ, jobQ, track, od, request, boot,
                 crashes, errors, past>>

\* A bug: the last chunk of a stopping session is not noticed.
MutantAccountForgets ==
  /\ At("account")
  /\ live' = [live EXCEPT ![wk.session].outstanding = @ - 1]
  /\ wk' = Idle
  /\ SetJobState(wk.id, "running")
  /\ UNCHANGED <<feed, starting, pushing, liveQ, jobQ, track, od, request, boot,
                 crashes, errors, past>>

\* The chunk no longer counts; the last one of a stopping session finalises it.
Account ==
  /\ At("account")
  /\ LET l == live[wk.session] IN
       /\ live' = [live EXCEPT ![wk.session].outstanding = @ - 1]
       /\ wk' = IF l.stopping /\ l.outstanding = 1
                    THEN [Idle EXCEPT !.pc = "finalise", !.session = wk.session]
                    ELSE Idle
  /\ SetJobState(wk.id, "running")
  /\ UNCHANGED <<feed, starting, pushing, liveQ, jobQ, track, od, request, boot,
                 crashes, errors, past>>

\* EngineError: _fail_live, or the end of the on-demand job.
EngineFails ==
  /\ "engine_error" \in Outcomes /\ At("transcribe")
  /\ IF IsLive THEN Unlist(wk.session) /\ UNCHANGED od
               ELSE od' = [od EXCEPT ![wk.id] = NoOd] /\ UNCHANGED live
  /\ wk' = [wk EXCEPT !.pc = "settle", !.verdict = "failed"]
  /\ UNCHANGED <<feed, store, starting, pushing, liveQ, jobQ, track, request, boot,
                 crashes, errors, past>>

\* A bug: the step is not put back on the heap.
MutantAdvance ==
  /\ At("advance")
  /\ od' = [od EXCEPT ![wk.id].idx = @ + 1]
  /\ UpdateJob(wk.id, [job[wk.id] EXCEPT !.progress = od[wk.id].idx + 1])
  /\ wk' = Idle
  /\ UNCHANGED <<feed, live, starting, pushing, liveQ, jobQ, track, request, boot,
                 crashes, errors, past>>

\* The next chunk of the job is a new item, behind every live one.
Advance ==
  /\ At("advance")
  /\ od' = [od EXCEPT ![wk.id].idx = @ + 1]
  /\ UpdateJob(wk.id, [job[wk.id] EXCEPT !.progress = od[wk.id].idx + 1])
  /\ jobQ' = Append(jobQ, wk.id)
  /\ wk' = Idle
  /\ UNCHANGED <<feed, live, starting, pushing, liveQ, track, request, boot,
                 crashes, errors, past>>

-----------------------------------------------------------------------------
(***************************************************************************)
(* _finalise_live: with chunks outstanding it only says so, holding        *)
(* _live_lock over two transactions; else the session leaves _live.        *)
(***************************************************************************)
Finalise ==
  /\ At("finalise")
  /\ LET s == wk.session
         i == live[s].id
     IN \/ /\ ~Listed(s)
           /\ wk' = Idle
           /\ UNCHANGED <<store, live, track>>
        \/ /\ Listed(s) /\ live[s].outstanding > 0
           /\ SetJobState(i, "finalising")
           /\ wk' = [wk EXCEPT !.pc = "report", !.id = i]
           /\ UNCHANGED <<live, track>>
        \/ /\ Listed(s) /\ live[s].outstanding = 0
           /\ Unlist(s)
           /\ FlushThenSettle(wk, i)
           /\ UNCHANGED store
  /\ UNCHANGED <<feed, starting, pushing, liveQ, jobQ, od, request, boot,
                 crashes, errors, past>>

Report ==
  /\ At("report")
  /\ SetState(wk.id, "finalising", FALSE)
  /\ wk' = Idle
  /\ UNCHANGED <<feed, live, starting, pushing, liveQ, jobQ, track, od, request, boot,
                 crashes, errors, past>>

\* The transcript first, then its job; an on-demand job has left _od_state by now.
Settle ==
  /\ At("settle")
  /\ SetState(wk.id, wk.verdict, wk.verdict = "completed")
  /\ od' = [od EXCEPT ![wk.id] = NoOd]
  /\ wk' = [wk EXCEPT !.pc = "job"]
  /\ UNCHANGED <<feed, live, starting, pushing, liveQ, jobQ, track, request, boot,
                 crashes, errors, past>>

SettleJob ==
  /\ At("job")
  /\ SetJobState(wk.id, wk.verdict)
  /\ wk' = Idle
  /\ UNCHANGED <<feed, live, starting, pushing, liveQ, jobQ, track, od, request, boot,
                 crashes, errors, past>>

(***************************************************************************)
(* Any other exception (a transaction, a chunk file that cannot be read):  *)
(* _run logs it and takes the next item.  The chunk is accounted for, but  *)
(* nobody looks whether it was the last; an on-demand job is not pushed    *)
(* again.  What was to be appended is lost, and with it what was dropped   *)
(* as a copy of it.                                                        *)
(***************************************************************************)
WorkerError ==
  /\ errors < MaxErrors /\ ~At("idle")
  /\ errors' = errors + 1
  /\ heard' = IF At("emit") THEN [heard EXCEPT ![wk.id] =
                                       {c \in @ : \A d \in ToSet(wk.out) :
                                                   c # d /\ ~CopyOf(c, d)}]
                              ELSE heard
  /\ live' = IF IsLive /\ InProgress(wk.session)
               THEN [live EXCEPT ![wk.session].outstanding = @ - 1]
               ELSE live
  /\ wk' = Idle
  /\ UNCHANGED <<feed, store, starting, pushing, liveQ, jobQ, track, od, request, boot,
                 crashes, read, again>>

WorkerStep ==
  \/ TakeChunk \/ TakeStop \/ TakeStep
  \/ Transcribe \/ Retry \/ Emit \/ Account \/ Advance
  \/ Finalise \/ Report \/ Settle \/ SettleJob

-----------------------------------------------------------------------------
(***************************************************************************)
(* Process death, and what the next process does before it serves:         *)
(* reconcile_transcription over the open jobs, then                        *)
(* requeue_open_on_demand, which puts one queued job on the heap.          *)
(***************************************************************************)
Crash ==
  /\ crashes < MaxCrashes
  /\ crashes' = crashes + 1
  /\ Restart
  /\ live' = [s \in Session |-> NoLive] /\ starting' = NoStart
  /\ pushing' = {} /\ liveQ' = <<>> /\ jobQ' = <<>>
  /\ track' = [i \in Id |-> NoTrack] /\ od' = [i \in Id |-> NoOd]
  /\ wk' = Idle
  /\ request' = [r \in Request |-> IF request[r].pc = "new" THEN request[r]
                                   ELSE [request[r] EXCEPT !.pc = "done"]]
  /\ boot' = Boot("scan")
  /\ UNCHANGED <<store, errors, past>>

BootScan ==
  /\ boot.pc = "scan"
  /\ boot' = [Boot("next") EXCEPT !.todo = OpenJobs]
  /\ UNCHANGED <<feed, store, memory, request, crashes, errors, past>>

ReconcileLive ==
  /\ boot.pc = "next"
  /\ \E i \in boot.todo :
       /\ transcript[i].mode = "live"
       /\ SetState(i, "interrupted_live", FALSE)
       /\ boot' = [boot EXCEPT !.pc = "job", !.id = i]
  /\ UNCHANGED <<feed, memory, request, crashes, errors, past>>

ReconcileLiveJob ==
  /\ boot.pc = "job"
  /\ SetJobState(boot.id, "failed")
  /\ boot' = [boot EXCEPT !.pc = "next", !.todo = @ \ {boot.id}, !.id = 0]
  /\ UNCHANGED <<feed, memory, request, crashes, errors, past>>

\* A bug: the segments of the dead run stay.
MutantReconcileOnDemand ==
  /\ boot.pc = "next"
  /\ \E i \in boot.todo :
       /\ transcript[i].mode = "on_demand"
       /\ boot' = [boot EXCEPT !.pc = "queue", !.id = i]
  /\ UNCHANGED <<feed, store, memory, request, crashes, errors, past>>

\* The job starts from scratch, and so does the history of what went into its transcript.
ReconcileOnDemand ==
  /\ boot.pc = "next"
  /\ \E i \in boot.todo :
       /\ transcript[i].mode = "on_demand"
       /\ DeleteSegments(i)
       /\ boot' = [boot EXCEPT !.pc = "queue", !.id = i]
       /\ read' = [read EXCEPT ![i] = {}]
       /\ heard' = [heard EXCEPT ![i] = {}] /\ again' = [again EXCEPT ![i] = {}]
  /\ UNCHANGED <<feed, memory, request, crashes, errors>>

ReconcileOnDemandJob ==
  /\ boot.pc = "queue"
  /\ UpdateJob(boot.id, [job[boot.id] EXCEPT !.state = "queued", !.progress = 0])
  /\ boot' = [boot EXCEPT !.pc = "next", !.todo = @ \ {boot.id}, !.id = 0]
  /\ UNCHANGED <<feed, memory, request, crashes, errors, past>>

Requeue ==
  /\ boot.pc = "next" /\ boot.todo = {}
  /\ jobQ' = SetToSeq(NextQueued)
  /\ boot' = Boot("up")
  /\ UNCHANGED <<feed, store, live, starting, pushing, liveQ, track, od, wk, request,
                 crashes, errors, past>>

BootStep ==
  \/ BootScan \/ ReconcileLive \/ ReconcileLiveJob
  \/ ReconcileOnDemand \/ ReconcileOnDemandJob \/ Requeue

-----------------------------------------------------------------------------
RequestStep(r) == CreateRequested(r) \/ PushRequested(r)

Next ==
  \/ Capture \/ ListLive
  \/ \E s \in Session : BeginLive(s) \/ OnStopped(s)
  \/ \E w \in Source : OnChunk(w) \/ PushChunk(w)
  \/ \E r \in Request : RequestStep(r) \/ \E s \in Session : CheckRequest(r, s)
  \/ WorkerStep \/ EngineFails \/ WorkerError
  \/ Crash \/ BootStep

Spec == Init /\ [][Next]_wvars

(***************************************************************************)
(* Fairness: the worker takes the next item while there is one, calls that *)
(* are under way return, and a restarted process reconciles.  Capture,     *)
(* requests, errors and crashes never need to happen.                      *)
(***************************************************************************)
FairSpec ==
  /\ Spec
  /\ WF_wvars(WorkerStep) /\ WF_wvars(BootStep) /\ WF_wvars(ListLive)
  /\ \A w \in Source : WF_wvars(PushChunk(w))
  /\ \A r \in Request : WF_wvars(RequestStep(r))

-----------------------------------------------------------------------------
(***************************************************************************)
(* What the worker promises.                                               *)
(***************************************************************************)

(***************************************************************************)
(* outstanding is the number of chunks of the session that a capture       *)
(* thread is about to push, that wait on the heap or that are being        *)
(* processed: _finalise_live and Account may rely on it.                   *)
(***************************************************************************)
OutstandingIsExact ==
  \A s \in Session : Listed(s) =>
    live[s].outstanding
      = Cardinality({w \in pushing : SessionOf(w) = s})
        + Cardinality({n \in DOMAIN liveQ : liveQ[n].session = s /\ ~liveQ[n].stop})
        + (IF InProgress(s) THEN 1 ELSE 0)

(***************************************************************************)
(* No speech is in a transcript twice, whatever was deferred, retried,     *)
(* flushed or restarted, but what an overlap gave again before all of it   *)
(* was out (see SaidOnce).                                                 *)
(***************************************************************************)
Twice(i) == {segment[i][n] : n \in {n \in DOMAIN segment[i] :
                \E m \in DOMAIN segment[i] : m < n /\ segment[i][m] = segment[i][n]}}
NoDuplicates == \A i \in Id : Twice(i) \subseteq again[i]

\* The segments of a track come in the order they were spoken, deferred ones included.
TracksInOrder ==
  \A i \in Id : \A m, n \in DOMAIN segment[i] :
    m < n /\ segment[i][m].kind = segment[i][n].kind => segment[i][m].at <= segment[i][n].at

Settled(i) == job[i].state = "completed"

(***************************************************************************)
(* A completed transcript holds all the speech its chunks were heard to    *)
(* hold; what is missing is a mic copy of system speech that is there      *)
(* (FR-003: exactly once).                                                 *)
(***************************************************************************)
NothingHeardIsLost ==
  \A i \in Id : Settled(i) =>
    \A c \in heard[i] :
      \/ c \in ToSet(segment[i])
      \/ \E d \in ToSet(segment[i]) : CopyOf(c, d)

(***************************************************************************)
(* A completed on-demand transcript is made of every chunk of its session, *)
(* each at its time, and the progress it reported has reached the total.   *)
(***************************************************************************)
OnDemandReadsAll ==
  \A i \in Id : Settled(i) /\ transcript[i].mode = "on_demand" =>
    /\ read[i] = Inventory([k \in Kind |-> onDisk[<<transcript[i].session, k>>]])
    /\ job[i].progress = job[i].total
    /\ \A c \in ToSet(segment[i]) : c.at = c.chunk

(***************************************************************************)
(* Once its job has ended a transcript is stable: no late chunk, retry,    *)
(* restart or other job changes its state or its segments (FR-002, FR-007).*)
(***************************************************************************)
EndedIsStable ==
  [][\A i \in Id : job[i].state \in Ended =>
       /\ transcript'[i] = transcript[i]
       /\ segment'[i] = segment[i]
       /\ job'[i] = job[i]]_wvars

(***************************************************************************)
(* What a reader sees of a session only improves: while its current        *)
(* transcript is completed, that one stays as it is or a completed one     *)
(* takes its place; an attempt that is queued, running or failed never     *)
(* does.  The promise ends when a death or an error tears the two          *)
(* transactions that end a transcript apart: then the next process takes   *)
(* a completed transcript for one whose job it has to end.                 *)
(***************************************************************************)
Torn(i) == job[i].state \in Open /\ ~(At("job") /\ wk.id = i)
CurrentOnlyImproves ==
  [][\A s \in Session : \A i \in Current(s) :
       transcript[i].state = "completed" /\ ~Torn(i) =>
         \E j \in Current(s)' :
           /\ transcript'[j].state = "completed"
           /\ j = i => segment'[i] = segment[i]]_wvars

-----------------------------------------------------------------------------
\* A stopped session's transcript ends, in this process or the next (no worker error).
StoppedIsSettled ==
  \A s \in Session : \A i \in Id :
    live[s].id = i /\ live[s].stopping ~> job[i].state \in Ended \/ errors > 0

\* An on-demand job ends by itself while the process lives (no worker error).
OnDemandEnds ==
  \A i \in Id :
    job[i].state \in {"queued", "running"} /\ transcript[i].mode = "on_demand"
      ~> job[i].state \in Ended \/ errors > 0 \/ crashes > 0

-----------------------------------------------------------------------------
(***************************************************************************)
(* What the documents say and the code does not do: final means that all   *)
(* captured audio up to the stop is accounted for (FR-012).  The observers *)
(* hear of the stop before the writers flush their last chunks, and a      *)
(* worker with nothing left to do completes the transcript at once: the    *)
(* chunks it is told of later are of a session it no longer lists.         *)
(***************************************************************************)
FinalAccountsForAll ==
  \A i \in Id : transcript[i].final /\ status[transcript[i].session] = "finished" =>
    \A w \in Source : SessionOf(w) = transcript[i].session =>
      \A n \in 0..(fed[w] - 1) : <<KindOf(w), n>> \in read[i]

(***************************************************************************)
(* SC-001: every utterance appears exactly once.  Speech that attribution  *)
(* deferred has not been emitted, so the overlap of the track's next       *)
(* window makes it a candidate a second time, and both come out.           *)
(***************************************************************************)
SaidOnce == \A i \in Id : Twice(i) = {}
=============================================================================
