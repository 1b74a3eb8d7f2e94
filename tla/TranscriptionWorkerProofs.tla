----------------------- MODULE TranscriptionWorkerProofs -----------------------
(***************************************************************************)
(* What TLAPS proves of TranscriptionWorker, for any sessions, requests,   *)
(* transcripts, chunks, errors and deaths of the process: its control, who *)
(* works on which transcript and what is counted.  The speech that a       *)
(* transcript holds is the subject of TranscriptionSpeechProofs.           *)
(***************************************************************************)
EXTENDS TranscriptionWorker, FiniteSetTheorems, TLAPS

(***************************************************************************)
(* Types, but for the speech that the worker and the tracks hold.          *)
(***************************************************************************)
Shaped(w) ==
  w \in [pc : WorkerPc, id : 0..Transcripts, session : Session \cup {NoSession},
         kind : {w.kind}, chunk : {w.chunk}, out : {w.out}, next : WorkerPc, verdict : Ended]
TableTypes ==
  /\ transcript \in [Id -> [session : Session \cup {NoSession}, mode : Mode,
                            state : TranscriptState, final : BOOLEAN]]
  /\ job \in [Id -> [state : JobState, progress : Nat, total : Nat]]
  /\ segment \in [Id -> {segment[i] : i \in Id}]
LiveTypes ==
  /\ live \in [Session -> [id : 0..Transcripts, stopping : BOOLEAN, outstanding : Nat]]
  /\ starting \in [session : Session \cup {NoSession}, id : 0..Transcripts]
  /\ pushing \in SUBSET Source
  /\ liveQ \in Seq(Item)
JobTypes ==
  /\ jobQ \in Seq(Id)
  /\ od \in [Id -> [listed : BOOLEAN, idx : Nat, inv : [Kind -> Nat]]]
  /\ request \in [Request -> [pc : RequestPc, session : Session \cup {NoSession},
                              id : 0..Transcripts]]
BootTypes == boot \in [pc : BootPc, todo : SUBSET Id, id : 0..Transcripts]
ControlTypes == FeedTypeOK /\ TableTypes /\ LiveTypes /\ JobTypes /\ Shaped(wk) /\ BootTypes

(***************************************************************************)
(* The tables.  A transcript has a job; both belong to a session that      *)
(* began, and one that is active has been told of; the live transcript of  *)
(* a session is its first.                                                 *)
(***************************************************************************)
Exists(i) == transcript[i].state # "absent"
IsOpen(i) == job[i].state \in Open
OnDemand(i) == Exists(i) /\ transcript[i].mode = "on_demand"
LiveOf(s, i) == /\ i \in Id /\ IsOpen(i)
                /\ transcript[i].session = s /\ transcript[i].mode = "live"

TablesHold ==
  /\ \A i \in Id : Exists(i) <=> job[i].state # "absent"
  /\ \A i \in Id : Exists(i) =>
       LET s == transcript[i].session IN
       s \in Session /\ status[s] # "absent" /\ (status[s] = "active" => told[s] # {})
  /\ \A i \in Id : job[i].state = "completed" => transcript[i].state = "completed"
  /\ \A i \in Id : job[i].state = "queued" => transcript[i].mode = "on_demand"
  /\ \A i, j \in Id : i < j /\ Exists(j) =>
       Exists(i) /\ (transcript[i].session = transcript[j].session => OnDemand(j))

(***************************************************************************)
(* Live sessions.  Nothing of a session is anywhere in the worker before   *)
(* its start was told and it was listed, and only once in a process.       *)
(***************************************************************************)
Touched(s) ==
  \/ Listed(s) \/ wk.session = s
  \/ \E w \in pushing : SessionOf(w) = s
  \/ \E n \in DOMAIN liveQ : liveQ[n].session = s

LiveHolds ==
  /\ \A s \in Session : Touched(s) => told[s] # {} /\ starting.session # s
  /\ \A s \in Session : IF Listed(s) THEN LiveOf(s, live[s].id) ELSE live[s] = NoLive
  /\ starting # NoStart =>
       /\ starting.session \in Session /\ told[starting.session] # {}
       /\ LiveOf(starting.session, starting.id)
  /\ \A w \in pushing : fed[w] > 0

\* On-demand work.
JobsHold ==
  /\ \A n \in DOMAIN jobQ : OnDemand(jobQ[n])
  /\ \A r \in Request :
       /\ request[r].pc = "checked" =>
            request[r].session \in Session /\ status[request[r].session] = "finished"
       /\ request[r].pc = "created" => request[r].id \in Id /\ OnDemand(request[r].id)

(***************************************************************************)
(* The worker has an open job.  A chunk of a live session is that of a     *)
(* session it lists; one that it ends is not listed any more.              *)
(***************************************************************************)
Chunking == \/ wk.pc \in {"transcribe", "retry", "account"}
            \/ wk.pc = "emit" /\ wk.next \in {"retry", "account"}
Closing == wk.pc \in {"settle", "job"} \/ (wk.pc = "emit" /\ wk.next = "settle")
WorkHolds ==
  /\ wk.pc = "idle" => wk = Idle
  /\ wk.pc = "finalise" => wk.session # NoSession /\ wk.verdict = "completed"
  /\ wk.pc = "emit" => wk.next \in {"retry", "account", "advance", "settle"}
  /\ wk.pc \notin {"idle", "finalise"} =>
       /\ wk.id \in Id /\ IsOpen(wk.id)
       /\ IF wk.session = NoSession THEN OnDemand(wk.id) ELSE LiveOf(wk.session, wk.id)
  /\ (wk.pc = "account" \/ wk.pc = "report" \/ (wk.pc = "emit" /\ wk.next = "account"))
       => wk.session # NoSession
  /\ wk.session # NoSession /\ (Chunking \/ wk.pc = "report") =>
       Listed(wk.session) /\ live[wk.session].id = wk.id
  /\ wk.session # NoSession /\ Closing => ~Listed(wk.session)
  /\ wk.pc = "advance" \/ (wk.pc = "emit" /\ wk.next = "advance") => wk.session = NoSession
  /\ wk.pc = "job" => transcript[wk.id].state = wk.verdict

\* A process that is starting has no work, and reconciles jobs that are open.
BootHolds ==
  /\ ~Up => /\ live = [s \in Session |-> NoLive] /\ starting = NoStart
            /\ pushing = {} /\ liveQ = <<>> /\ jobQ = <<>> /\ wk = Idle
            /\ \A r \in Request : request[r].pc \in {"new", "done"}
  /\ boot.pc \in {"next", "job", "queue"} => \A i \in boot.todo : IsOpen(i)
  /\ boot.pc \in {"job", "queue"} =>
       /\ boot.id \in boot.todo
       /\ transcript[boot.id].mode = IF boot.pc = "job" THEN "live" ELSE "on_demand"

Control == /\ ControlTypes /\ TablesHold /\ LiveHolds /\ JobsHold /\ WorkHolds /\ BootHolds
           /\ OutstandingIsExact

-----------------------------------------------------------------------------
(***************************************************************************)
(* Counting: the chunks of a session in the heap, and those being pushed.  *)
(***************************************************************************)
Chunks(q, s) == {n \in DOMAIN q : q[n].session = s /\ ~q[n].stop}
Pushed(s) == {w \in pushing : SessionOf(w) = s}
OneIf(b) == IF b THEN 1 ELSE 0
Exact(s) == live[s].outstanding
              = Cardinality(Pushed(s)) + Cardinality(Chunks(liveQ, s)) + OneIf(InProgress(s))

LEMMA ExactIs == OutstandingIsExact <=> \A s \in Session : Listed(s) => Exact(s)
BY DEF OutstandingIsExact, Exact, Pushed, Chunks, OneIf

LEMMA ChunksFinite ==
  ASSUME NEW q \in Seq(Item), NEW s
  PROVE  IsFiniteSet(Chunks(q, s)) /\ Cardinality(Chunks(q, s)) \in Nat
<1>1. IsFiniteSet(1..Len(q))
  BY FS_Interval
<1>2. Chunks(q, s) \subseteq 1..Len(q)
  BY DEF Chunks
<1>. QED  BY <1>1, <1>2, FS_Subset, FS_CardinalityType

LEMMA AppendCounts ==
  ASSUME NEW q \in Seq(Item), NEW x \in Item, NEW s
  PROVE  Cardinality(Chunks(Append(q, x), s))
           = Cardinality(Chunks(q, s)) + OneIf(x.session = s /\ ~x.stop)
<1>. DEFINE n == Len(q) + 1
<1>1. DOMAIN Append(q, x) = 1..n /\ DOMAIN q = 1..Len(q) /\ Len(q) \in Nat
  OBVIOUS
<1>2. (\A m \in 1..Len(q) : Append(q, x)[m] = q[m]) /\ Append(q, x)[n] = x
  OBVIOUS
<1>3. n \notin Chunks(q, s)
  BY <1>1 DEF Chunks
<1>4. CASE x.session = s /\ ~x.stop
  <2>1. Chunks(Append(q, x), s) = Chunks(q, s) \cup {n}
    BY <1>1, <1>2, <1>4 DEF Chunks
  <2>. QED  BY <1>3, <1>4, <2>1, ChunksFinite, FS_AddElement DEF OneIf
<1>5. CASE ~(x.session = s /\ ~x.stop)
  <2>1. Chunks(Append(q, x), s) = Chunks(q, s)
    BY <1>1, <1>2, <1>5 DEF Chunks
  <2>. QED  BY <1>5, <2>1, ChunksFinite DEF OneIf
<1>. QED  BY <1>4, <1>5

LEMMA TailCounts ==
  ASSUME NEW q \in Seq(Item), q # <<>>, NEW s
  PROVE  Cardinality(Chunks(q, s))
           = Cardinality(Chunks(Tail(q), s)) + OneIf(Head(q).session = s /\ ~Head(q).stop)
<1>. DEFINE f == [n \in Chunks(Tail(q), s) |-> n + 1]
            rest == Chunks(q, s) \ {1}
<1>1. /\ DOMAIN Tail(q) = 1..(Len(q) - 1) /\ DOMAIN q = 1..Len(q) /\ Len(q) \in Nat \ {0}
      /\ Tail(q) \in Seq(Item) /\ Head(q) = q[1]
      /\ \A m \in 1..(Len(q) - 1) : Tail(q)[m] = q[m + 1]
  OBVIOUS
<1>2. f \in Bijection(Chunks(Tail(q), s), rest)
  <2>1. f \in [Chunks(Tail(q), s) -> rest]
    BY <1>1 DEF Chunks
  <2>2. \A a, b \in Chunks(Tail(q), s) : a # b => f[a] # f[b]
    BY <1>1 DEF Chunks
  <2>3. \A r \in rest : \E n \in Chunks(Tail(q), s) : f[n] = r
    <3>1. SUFFICES ASSUME NEW r \in rest
                   PROVE  r - 1 \in Chunks(Tail(q), s) /\ f[r - 1] = r
      OBVIOUS
    <3>. QED  BY <1>1 DEF Chunks
  <2>. QED  BY <2>1, <2>2, <2>3 DEF Bijection, Injection, Surjection, IsInjective
<1>3. Cardinality(Chunks(Tail(q), s)) = Cardinality(rest) /\ IsFiniteSet(rest)
  <2>. HIDE DEF f, rest
  <2>1. IsFiniteSet(Chunks(Tail(q), s))
    BY <1>1, ChunksFinite
  <2>. QED  BY <1>2, <2>1, FS_Bijection DEF ExistsBijection
<1>4. CASE Head(q).session = s /\ ~Head(q).stop
  <2>1. 1 \in Chunks(q, s)
    BY <1>1, <1>4 DEF Chunks
  <2>2. Cardinality(rest) = Cardinality(Chunks(q, s)) - 1
    BY <2>1, ChunksFinite, FS_RemoveElement
  <2>. QED  BY <1>3, <1>4, <2>2, ChunksFinite DEF OneIf
<1>5. CASE ~(Head(q).session = s /\ ~Head(q).stop)
  <2>1. rest = Chunks(q, s)
    BY <1>1, <1>5 DEF Chunks
  <2>2. OneIf(Head(q).session = s /\ ~Head(q).stop) = 0
    BY <1>5 DEF OneIf
  <2>3. Cardinality(Chunks(Tail(q), s)) = Cardinality(Chunks(q, s))
    BY <1>3, <2>1
  <2>4. Cardinality(Chunks(Tail(q), s)) \in Nat
    BY <1>1, ChunksFinite
  <2>. HIDE DEF f, rest
  <2>. QED  BY <2>2, <2>3, <2>4
<1>. QED  BY <1>4, <1>5

-----------------------------------------------------------------------------
(***************************************************************************)
(* Types, action by action.                                                *)
(***************************************************************************)
LEMMA EmitThenIs ==
  ASSUME NEW w, Shaped(w), NEW out, NEW next \in WorkerPc
  PROVE  LET e == EmitThen(w, out, next) IN
         /\ Shaped(e) /\ e.pc = IF out = <<>> THEN next ELSE "emit"
         /\ e.id = w.id /\ e.session = w.session /\ e.verdict = w.verdict
         /\ e.next = next /\ e.out = out
<1>1. "emit" \in WorkerPc
  BY DEF WorkerPc
<1>. QED  BY <1>1 DEF EmitThen, Shaped

LEMMA SameTypes ==
  ASSUME ControlTypes
  PROVE  /\ UNCHANGED feed => FeedTypeOK'
         /\ UNCHANGED store => TableTypes'
         /\ UNCHANGED <<live, starting, pushing, liveQ>> => LiveTypes'
         /\ UNCHANGED <<jobQ, od, request>> => JobTypes'
         /\ UNCHANGED wk => Shaped(wk)'
         /\ UNCHANGED boot => BootTypes'
<1>1. UNCHANGED feed => FeedTypeOK'
  BY DEF ControlTypes, feed, FeedTypeOK
<1>2. UNCHANGED store => TableTypes'
  BY DEF ControlTypes, store, TableTypes
<1>3. UNCHANGED <<live, starting, pushing, liveQ>> => LiveTypes'
  BY DEF ControlTypes, LiveTypes
<1>4. UNCHANGED <<jobQ, od, request>> => JobTypes'
  BY DEF ControlTypes, JobTypes
<1>5. UNCHANGED wk => Shaped(wk)'
  BY DEF ControlTypes, Shaped
<1>6. UNCHANGED boot => BootTypes'
  BY DEF ControlTypes, BootTypes
<1>. QED  BY <1>1, <1>2, <1>3, <1>4, <1>5, <1>6

LEMMA TableOps ==
  ASSUME TableTypes
  PROVE  /\ \A i \in Id : \A s \in Session \cup {NoSession} : \A mode \in Mode :
              \A ts \in TranscriptState : \A js \in JobState :
                CreateTranscript(i, s, mode, ts, js) => TableTypes'
         /\ \A i : \A seg : AppendSegment(i, seg) => TableTypes'
         /\ \A i : \A ts \in TranscriptState : \A final \in BOOLEAN :
              SetState(i, ts, final) => TableTypes'
         /\ \A i : \A j \in [state : JobState, progress : Nat, total : Nat] :
              UpdateJob(i, j) => TableTypes'
         /\ \A i \in Id : \A js \in JobState : SetJobState(i, js) => TableTypes'
         /\ \A i : DeleteSegments(i) => TableTypes'
<1>1. ASSUME NEW i \in Id, NEW s \in Session \cup {NoSession}, NEW mode \in Mode,
             NEW ts \in TranscriptState, NEW js \in JobState,
             CreateTranscript(i, s, mode, ts, js)
      PROVE  TableTypes'
  BY <1>1 DEF TableTypes, CreateTranscript
<1>2. ASSUME NEW i, NEW seg, AppendSegment(i, seg)
      PROVE  TableTypes'
  BY <1>2 DEF TableTypes, AppendSegment
<1>3. ASSUME NEW i, NEW ts \in TranscriptState, NEW final \in BOOLEAN, SetState(i, ts, final)
      PROVE  TableTypes'
  BY <1>3 DEF TableTypes, SetState
<1>4. ASSUME NEW i, NEW j \in [state : JobState, progress : Nat, total : Nat], UpdateJob(i, j)
      PROVE  TableTypes'
  BY <1>4 DEF TableTypes, UpdateJob
<1>5. ASSUME NEW i \in Id, NEW js \in JobState, SetJobState(i, js)
      PROVE  TableTypes'
  BY <1>5, <1>4 DEF TableTypes, SetJobState
<1>6. ASSUME NEW i, DeleteSegments(i)
      PROVE  TableTypes'
  BY <1>6 DEF TableTypes, DeleteSegments
<1>. QED  BY <1>1, <1>2, <1>3, <1>4, <1>5, <1>6

LEMMA FeedTypes ==
  ASSUME FeedTypeOK
  PROVE  /\ \A s \in Session : Activate(s) \/ TellStarted(s) \/ TellStopped(s) \/ Finish(s)
                                 \/ TellFinalized(s) => FeedTypeOK'
         /\ \A w \in Source : FileChunk(w) \/ TellChunk(w) => FeedTypeOK'
         /\ Restart => FeedTypeOK'
         /\ UNCHANGED feed => FeedTypeOK'
<1>1. \A s \in Session : Activate(s) \/ TellStarted(s) \/ TellStopped(s) \/ Finish(s)
                                 \/ TellFinalized(s) => FeedTypeOK'
  BY DEF FeedTypeOK, Activate, TellStarted, TellStopped, Finish, TellFinalized, Tell, Notice,
         FeedStatus
<1>2. \A w \in Source : FileChunk(w) \/ TellChunk(w) => FeedTypeOK'
  BY DEF FeedTypeOK, FileChunk, TellChunk
<1>3. Restart => FeedTypeOK'
  BY DEF FeedTypeOK, Restart, FeedStatus
<1>4. UNCHANGED feed => FeedTypeOK'
  BY DEF feed, FeedTypeOK
<1>. QED  BY <1>1, <1>2, <1>3, <1>4

\* The observers of capture.
LEMMA ObserverTypes ==
  ASSUME ControlTypes,
         \/ Capture \/ ListLive
         \/ \E s \in Session : BeginLive(s) \/ OnStopped(s)
         \/ \E w \in Source : OnChunk(w)
  PROVE  ControlTypes'
<1>0. FeedTypeOK /\ TableTypes /\ LiveTypes
  BY DEF ControlTypes
<1>1. CASE Capture
  <2>1. FeedTypeOK' /\ UNCHANGED <<store, memory, request, boot>>
    BY <1>0, <1>1, FeedTypes DEF Capture
  <2>. QED  BY <2>1, SameTypes DEF ControlTypes, memory
<1>2. CASE ListLive
  <2>1. LiveTypes'
    <3>1. starting.id \in 0..Transcripts /\ 0 \in 0..Transcripts
      BY <1>0, WorkerAssumption DEF LiveTypes
    <3>2. [NoLive EXCEPT !.id = starting.id]
            \in [id : 0..Transcripts, stopping : BOOLEAN, outstanding : Nat]
      BY <3>1 DEF NoLive
    <3>3. live' \in [Session -> [id : 0..Transcripts, stopping : BOOLEAN, outstanding : Nat]]
      BY <1>0, <1>2, <3>2 DEF LiveTypes, ListLive
    <3>4. starting' \in [session : Session \cup {NoSession}, id : 0..Transcripts]
      BY <1>2, <3>1 DEF ListLive, NoStart
    <3>. QED  BY <1>0, <1>2, <3>3, <3>4 DEF LiveTypes, ListLive
  <2>. QED  BY <1>2, <2>1, SameTypes DEF ControlTypes, ListLive
<1>3. ASSUME NEW s \in Session, BeginLive(s)
      PROVE  ControlTypes'
  <2>1. FeedTypeOK' /\ UNCHANGED <<live, pushing, liveQ, jobQ, od, wk, request, boot>>
    BY <1>0, <1>3, FeedTypes DEF BeginLive
  <2>2. CASE UNCHANGED <<store, starting>>
    BY <2>1, <2>2, SameTypes DEF ControlTypes
  <2>3. ASSUME NEW i \in Id, CreateTranscript(i, s, "live", "failed", "failed"), UNCHANGED starting
        PROVE  ControlTypes'
    <3>1. TableTypes'
      BY <1>0, <2>3, TableOps DEF Mode, TranscriptState, JobState
    <3>. QED  BY <2>1, <2>3, <3>1, SameTypes DEF ControlTypes
  <2>4. ASSUME NEW i \in Id, CreateTranscript(i, s, "live", "live", "running"),
               starting' = [session |-> s, id |-> i]
        PROVE  ControlTypes'
    <3>1. TableTypes'
      BY <1>0, <2>4, TableOps DEF Mode, TranscriptState, JobState
    <3>2. LiveTypes'
      BY <1>0, <2>1, <2>4 DEF LiveTypes, Id
    <3>. QED  BY <2>1, <3>1, <3>2, SameTypes DEF ControlTypes
  <2>. QED  BY <1>3, <2>2, <2>3, <2>4 DEF BeginLive
<1>4. ASSUME NEW s \in Session, OnStopped(s)
      PROVE  ControlTypes'
  <2>1. FeedTypeOK' /\ UNCHANGED <<store, starting, pushing, jobQ, od, wk, request, boot>>
    BY <1>0, <1>4, FeedTypes DEF OnStopped
  <2>2. StopItem(s) \in Item
    BY WorkerAssumption DEF StopItem, Item
  <2>3. LiveTypes'
    <3>1. CASE UNCHANGED <<live, liveQ>>
      BY <1>0, <2>1, <3>1 DEF LiveTypes
    <3>2. CASE live' = [live EXCEPT ![s].stopping = TRUE] /\ liveQ' = Append(liveQ, StopItem(s))
      <4>1. live' \in [Session -> [id : 0..Transcripts, stopping : BOOLEAN, outstanding : Nat]]
        BY <1>0, <3>2 DEF LiveTypes
      <4>2. liveQ' \in Seq(Item)
        BY <1>0, <2>2, <3>2 DEF LiveTypes
      <4>. QED  BY <1>0, <2>1, <4>1, <4>2 DEF LiveTypes
    <3>. QED  BY <1>4, <3>1, <3>2 DEF OnStopped
  <2>. QED  BY <2>1, <2>3, SameTypes DEF ControlTypes
<1>5. ASSUME NEW w \in Source, OnChunk(w)
      PROVE  ControlTypes'
  <2>1. FeedTypeOK' /\ UNCHANGED <<store, starting, liveQ, jobQ, od, wk, request, boot>>
    BY <1>0, <1>5, FeedTypes DEF OnChunk
  <2>2. SessionOf(w) \in Session
    BY DEF Source, SessionOf
  <2>3. LiveTypes'
    <3>1. CASE UNCHANGED <<live, pushing>>
      BY <1>0, <2>1, <3>1 DEF LiveTypes
    <3>2. CASE /\ live' = [live EXCEPT ![SessionOf(w)].outstanding = @ + 1]
               /\ pushing' = pushing \cup {w}
      <4>1. live' \in [Session -> [id : 0..Transcripts, stopping : BOOLEAN, outstanding : Nat]]
        <5>. DEFINE l == [live[SessionOf(w)] EXCEPT !.outstanding = @ + 1]
        <5>1. live[SessionOf(w)] \in [id : 0..Transcripts, stopping : BOOLEAN, outstanding : Nat]
          BY <1>0, <2>2 DEF LiveTypes
        <5>2. l \in [id : 0..Transcripts, stopping : BOOLEAN, outstanding : Nat]
          BY <5>1
        <5>3. live' = [live EXCEPT ![SessionOf(w)] = l]
          BY <3>2
        <5>. HIDE DEF l
        <5>. QED  BY <1>0, <5>2, <5>3 DEF LiveTypes
      <4>2. pushing' \in SUBSET Source
        BY <1>0, <3>2 DEF LiveTypes
      <4>. QED  BY <1>0, <2>1, <4>1, <4>2 DEF LiveTypes
    <3>. QED  BY <1>5, <3>1, <3>2 DEF OnChunk
  <2>. QED  BY <2>1, <2>3, SameTypes DEF ControlTypes
<1>. QED  BY <1>1, <1>2, <1>3, <1>4, <1>5

\* Requests, and the push of a chunk that was counted.
LEMMA PushTypes ==
  ASSUME ControlTypes, LiveHolds, JobsHold,
         \/ \E w \in Source : PushChunk(w)
         \/ \E r \in Request : RequestStep(r) \/ \E s \in Session : CheckRequest(r, s)
  PROVE  ControlTypes'
<1>0. FeedTypeOK /\ TableTypes /\ LiveTypes /\ JobTypes
  BY DEF ControlTypes
<1>1. ASSUME NEW w \in Source, PushChunk(w)
      PROVE  ControlTypes'
  <2>1. ChunkItem(w, fed[w] - 1) \in Item
    BY <1>0, <1>1 DEF LiveHolds, PushChunk, ChunkItem, Item, FeedTypeOK, Source, SessionOf, KindOf
  <2>2. LiveTypes'
    BY <1>0, <1>1, <2>1 DEF LiveTypes, PushChunk
  <2>. QED  BY <1>1, <2>2, SameTypes DEF ControlTypes, PushChunk
<1>2. ASSUME NEW r \in Request, NEW s \in Session, CheckRequest(r, s)
      PROVE  ControlTypes'
  <2>1. JobTypes'
    BY <1>0, <1>2 DEF JobTypes, CheckRequest, memory, RequestPc
  <2>. QED  BY <1>2, <2>1, SameTypes DEF ControlTypes, CheckRequest, memory
<1>3. ASSUME NEW r \in Request, CreateRequested(r)
      PROVE  ControlTypes'
  <2>1. PICK i \in Id : /\ CreateTranscript(i, request[r].session, "on_demand", "pending", "queued")
                        /\ request' = [request EXCEPT ![r].pc = "created", ![r].id = i]
    BY <1>3 DEF CreateRequested
  <2>2. request[r].session \in Session \cup {NoSession}
    BY <1>0 DEF JobTypes
  <2>3. TableTypes'
    BY <1>0, <2>1, <2>2, TableOps DEF Mode, TranscriptState, JobState
  <2>4. JobTypes'
    <3>1. i \in 0..Transcripts /\ "created" \in RequestPc
      BY WorkerAssumption DEF Id, RequestPc
    <3>2. request[r] \in [pc : RequestPc, session : Session \cup {NoSession}, id : 0..Transcripts]
      BY <1>0 DEF JobTypes
    <3>3. request' \in [Request -> [pc : RequestPc, session : Session \cup {NoSession},
                                    id : 0..Transcripts]]
      BY <1>0, <2>1, <3>1, <3>2 DEF JobTypes
    <3>. QED  BY <1>0, <1>3, <3>3 DEF JobTypes, CreateRequested, memory
  <2>. QED  BY <1>3, <2>3, <2>4, SameTypes DEF ControlTypes, CreateRequested, memory
<1>4. ASSUME NEW r \in Request, PushRequested(r)
      PROVE  ControlTypes'
  <2>1. JobTypes'
    <3>1. request[r].id \in Id
      BY <1>4 DEF PushRequested, JobsHold
    <3>2. jobQ' \in Seq(Id)
      BY <1>0, <1>4, <3>1 DEF JobTypes, PushRequested
    <3>3. request' \in [Request -> [pc : RequestPc, session : Session \cup {NoSession},
                                    id : 0..Transcripts]]
      BY <1>0, <1>4 DEF JobTypes, PushRequested, RequestPc
    <3>. QED  BY <1>0, <1>4, <3>2, <3>3 DEF JobTypes, PushRequested
  <2>. QED  BY <1>4, <2>1, SameTypes DEF ControlTypes, PushRequested
<1>. QED  BY <1>1, <1>2, <1>3, <1>4 DEF RequestStep

\* The numbers of what is counted.
LEMMA PushedFinite ==
  ASSUME LiveTypes, NEW s
  PROVE  IsFiniteSet(Pushed(s)) /\ Cardinality(Pushed(s)) \in Nat
<1>1. IsFiniteSet({<<s, Mic>>, <<s, System>>})
  <2>1. IsFiniteSet({<<s, Mic>>})
    BY FS_Singleton
  <2>2. {<<s, Mic>>, <<s, System>>} = {<<s, Mic>>} \cup {<<s, System>>}
    OBVIOUS
  <2>. QED  BY <2>1, <2>2, FS_AddElement
<1>2. Pushed(s) \subseteq {<<s, Mic>>, <<s, System>>}
  BY WorkerAssumption DEF LiveTypes, Pushed, Source, SessionOf
<1>. QED  BY <1>1, <1>2, FS_Subset, FS_CardinalityType

LEMMA InProgressCounts ==
  ASSUME LiveTypes, NEW s \in Session, InProgress(s), Exact(s)
  PROVE  live[s].outstanding \in Nat \ {0} /\ live[s].outstanding - 1 \in Nat
<1>1. OneIf(InProgress(s)) = 1
  BY DEF OneIf
<1>2. Cardinality(Chunks(liveQ, s)) \in Nat
  BY ChunksFinite DEF LiveTypes
<1>3. Cardinality(Pushed(s)) \in Nat
  BY PushedFinite
<1>4. live[s].outstanding = Cardinality(Pushed(s)) + Cardinality(Chunks(liveQ, s)) + 1
  BY <1>1 DEF Exact
<1>. QED  BY <1>2, <1>3, <1>4

LEMMA TotalType ==
  ASSUME NEW inv \in [Kind -> Nat]
  PROVE  Total(inv) \in Nat /\ IsFiniteSet(Inventory(inv))
<1>. DEFINE part(k) == {k} \X (0..(inv[k] - 1))
<1>1. \A k \in Kind : IsFiniteSet(part(k))
  <2>. SUFFICES ASSUME NEW k \in Kind PROVE IsFiniteSet(part(k))
    OBVIOUS
  <2>1. IsFiniteSet({k})
    BY FS_Singleton
  <2>2. 0 \in Int /\ inv[k] - 1 \in Int
    OBVIOUS
  <2>3. IsFiniteSet(0..(inv[k] - 1))
    BY <2>2, FS_Interval
  <2>. QED  BY <2>1, <2>3, FS_Product
<1>2. Inventory(inv) = part(Mic) \cup part(System)
  BY WorkerAssumption DEF Inventory
<1>3. IsFiniteSet(Inventory(inv))
  <2>. HIDE DEF part
  <2>1. IsFiniteSet(part(Mic)) /\ IsFiniteSet(part(System))
    BY <1>1, WorkerAssumption
  <2>. QED  BY <1>2, <2>1, FS_Union
<1>. QED  BY <1>3, FS_CardinalityType DEF Total

LEMMA ShapedIs ==
  /\ Shaped(Idle)
  /\ \A pc \in WorkerPc : \A i \in 0..Transcripts : \A s \in Session \cup {NoSession} :
       /\ Shaped([Idle EXCEPT !.pc = pc, !.session = s])
       /\ \A k, c : /\ Shaped([Idle EXCEPT !.pc = pc, !.id = i, !.kind = k, !.chunk = c])
                    /\ Shaped([Idle EXCEPT !.pc = pc, !.id = i, !.session = s,
                                           !.kind = k, !.chunk = c])
  /\ \A w : Shaped(w) => \A pc \in WorkerPc : \A i \in 0..Transcripts : \A v \in Ended :
       /\ Shaped([w EXCEPT !.pc = pc]) /\ Shaped([w EXCEPT !.id = i])
       /\ Shaped([w EXCEPT !.pc = pc, !.id = i]) /\ Shaped([w EXCEPT !.pc = pc, !.verdict = v])
<1>1. "idle" \in WorkerPc /\ "completed" \in Ended /\ 0 \in 0..Transcripts
  BY WorkerAssumption DEF WorkerPc, Ended
<1>2. Shaped(Idle)
  BY <1>1 DEF Shaped, Idle
<1>3. ASSUME NEW pc \in WorkerPc, NEW i \in 0..Transcripts, NEW s \in Session \cup {NoSession}
      PROVE  /\ Shaped([Idle EXCEPT !.pc = pc, !.session = s])
             /\ \A k, c : Shaped([Idle EXCEPT !.pc = pc, !.id = i, !.kind = k, !.chunk = c])
  BY <1>1 DEF Shaped, Idle
<1>4. ASSUME NEW pc \in WorkerPc, NEW i \in 0..Transcripts, NEW s \in Session \cup {NoSession}
      PROVE  \A k, c : Shaped([Idle EXCEPT !.pc = pc, !.id = i, !.session = s,
                                           !.kind = k, !.chunk = c])
  BY <1>1 DEF Shaped, Idle
<1>5. ASSUME NEW w, Shaped(w), NEW pc \in WorkerPc, NEW i \in 0..Transcripts, NEW v \in Ended
      PROVE  /\ Shaped([w EXCEPT !.pc = pc]) /\ Shaped([w EXCEPT !.id = i])
             /\ Shaped([w EXCEPT !.pc = pc, !.id = i])
             /\ Shaped([w EXCEPT !.pc = pc, !.verdict = v])
  BY <1>5 DEF Shaped
<1>. QED  BY <1>2, <1>3, <1>4, <1>5

\* The worker takes an item from the heap.
LEMMA TakeTypes ==
  ASSUME ControlTypes, TablesHold, JobsHold, TakeChunk \/ TakeStop \/ TakeStep
  PROVE  ControlTypes'
<1>0. FeedTypeOK /\ TableTypes /\ LiveTypes /\ JobTypes /\ Shaped(wk)
  BY DEF ControlTypes
<1>1. {"idle", "transcribe", "finalise", "settle"} \subseteq WorkerPc
  BY DEF WorkerPc
<1>2. CASE TakeChunk \/ TakeStop
  <2>1. Head(liveQ) \in Item /\ Tail(liveQ) \in Seq(Item)
    BY <1>0, <1>2 DEF LiveTypes, TakeChunk, TakeStop
  <2>2. LiveTypes' /\ UNCHANGED <<feed, store, jobQ, od, request, boot>>
    BY <1>0, <1>2, <2>1 DEF LiveTypes, TakeChunk, TakeStop
  <2>3. /\ Head(liveQ).session \in Session \cup {NoSession}
        /\ live[Head(liveQ).session].id \in 0..Transcripts
    BY <1>0, <2>1 DEF Item, LiveTypes
  <2>4. Shaped(wk)'
    <3>1. CASE TakeChunk
      BY <1>0, <1>1, <2>3, <3>1, ShapedIs DEF TakeChunk
    <3>2. CASE TakeStop
      BY <1>1, <2>3, <3>2, ShapedIs DEF TakeStop
    <3>. QED  BY <1>2, <3>1, <3>2
  <2>. QED  BY <2>2, <2>4, SameTypes DEF ControlTypes
<1>3. CASE TakeStep
  <2>. DEFINE i == Head(jobQ)
              inv == [k \in Kind |-> onDisk[<<transcript[i].session, k>>]]
              fresh == [listed |-> TRUE, idx |-> 0, inv |-> inv]
  <2>1. i \in Id /\ i \in 0..Transcripts /\ Tail(jobQ) \in Seq(Id) /\ OnDemand(i)
    <3>1. jobQ \in Seq(Id) /\ jobQ # <<>>
      BY <1>0, <1>3 DEF JobTypes, TakeStep
    <3>2. Head(jobQ) = jobQ[1] /\ 1 \in DOMAIN jobQ /\ jobQ[1] \in Id /\ Tail(jobQ) \in Seq(Id)
      BY <3>1
    <3>. QED  BY <3>2, WorkerAssumption DEF JobsHold, Id
  <2>2. inv \in [Kind -> Nat]
    <3>1. transcript[i].session \in Session
      BY <2>1 DEF TablesHold, OnDemand
    <3>. QED  BY <1>0, <3>1 DEF FeedTypeOK, Source
  <2>3. ASSUME NEW o, Step(i, o)
        PROVE  Shaped(wk)'
    <3>1. CASE FlushThenSettle(Idle, i)
      <4>1. PICK out : wk' = EmitThen([Idle EXCEPT !.id = i], out, "settle")
        BY <3>1 DEF FlushThenSettle
      <4>2. Shaped([Idle EXCEPT !.id = i])
        BY <1>1, <2>1, ShapedIs DEF Ended
      <4>3. Shaped(EmitThen([Idle EXCEPT !.id = i], out, "settle"))
        BY <1>1, <4>2, EmitThenIs
      <4>. QED  BY <4>1, <4>3 DEF Shaped
    <3>2. CASE wk' = [Idle EXCEPT !.pc = "transcribe", !.id = i,
                                  !.kind = ChunkAt(o.inv, o.idx)[1],
                                  !.chunk = ChunkAt(o.inv, o.idx)[2]]
      <4>1. \A k, c : Shaped([Idle EXCEPT !.pc = "transcribe", !.id = i, !.kind = k, !.chunk = c])
        BY <1>1, <2>1, ShapedIs
      <4>. QED  BY <3>2, <4>1
    <3>. QED  BY <2>3, <3>1, <3>2 DEF Step
  <2>4. UNCHANGED <<feed, live, starting, pushing, liveQ, request, boot>> /\ jobQ' = Tail(jobQ)
    BY <1>3 DEF TakeStep
  <2>5. CASE UNCHANGED <<store, od>> /\ (UNCHANGED wk \/ Step(i, od[i]))
    <3>1. JobTypes'
      BY <1>0, <2>1, <2>4, <2>5 DEF JobTypes
    <3>. QED  BY <2>3, <2>4, <2>5, <3>1, SameTypes DEF ControlTypes
  <2>6. CASE /\ od' = [od EXCEPT ![i] = fresh] /\ Step(i, fresh)
             /\ UpdateJob(i, [state |-> "running", progress |-> 0, total |-> Total(inv)])
    <3>1. [state |-> "running", progress |-> 0, total |-> Total(inv)]
            \in [state : JobState, progress : Nat, total : Nat]
      BY <2>2, TotalType DEF JobState
    <3>2. TableTypes'
      BY <1>0, <2>6, <3>1, TableOps
    <3>3. fresh \in [listed : BOOLEAN, idx : Nat, inv : [Kind -> Nat]]
      BY <2>2
    <3>4. JobTypes'
      <4>. HIDE DEF fresh, inv
      <4>. QED  BY <1>0, <2>1, <2>4, <2>6, <3>3 DEF JobTypes
    <3>. QED  BY <2>3, <2>4, <2>6, <3>2, <3>4, SameTypes DEF ControlTypes
  <2>. QED  BY <1>3, <2>5, <2>6 DEF TakeStep
<1>. QED  BY <1>2, <1>3

LEMMA TranscribeIs ==
  ASSUME Transcribe \/ Retry
  PROVE  /\ wk.pc \in {"transcribe", "retry"}
         /\ \E out : \E next \in {"retry", AfterChunk} : wk' = EmitThen(wk, out, next)
<1>1. CASE Transcribe
  <2>1. \E i, t, k, b : Attribute(i, t, k, IF b THEN AfterChunk ELSE "retry")
    BY <1>1, Zenon DEF Transcribe
  <2>2. PICK i, t, k, b : Attribute(i, t, k, IF b THEN AfterChunk ELSE "retry")
    BY <2>1
  <2>3. (IF b THEN AfterChunk ELSE "retry") \in {"retry", AfterChunk}
    OBVIOUS
  <2>. QED  BY <1>1, <2>2, <2>3, Zenon DEF Attribute, Transcribe, At
<1>2. CASE Retry
  BY <1>2, Zenon DEF Retry, Attribute, At
<1>. QED  BY <1>1, <1>2

\* The worker transcribes, counts and fails.
LEMMA WorkTypes ==
  ASSUME Control,
         Transcribe \/ Retry \/ Emit \/ Account \/ Advance \/ EngineFails
  PROVE  ControlTypes'
<1>0. /\ FeedTypeOK /\ TableTypes /\ LiveTypes /\ JobTypes /\ Shaped(wk)
      /\ ControlTypes /\ WorkHolds
  BY DEF Control, ControlTypes
<1>1. {"idle", "retry", "emit", "account", "advance", "finalise", "settle"} \subseteq WorkerPc
  BY DEF WorkerPc
<1>2. wk.id \in Id /\ wk.session \in Session \cup {NoSession} /\ wk.next \in WorkerPc
  BY <1>0 DEF WorkHolds, At, Transcribe, Retry, Emit, Account, Advance, EngineFails, Shaped
<1>3. \A out : \A next \in WorkerPc : Shaped(EmitThen(wk, out, next))
  BY <1>0, EmitThenIs
<1>4. CASE Transcribe \/ Retry
  <2>1. UNCHANGED <<feed, store, live, starting, pushing, liveQ, jobQ, od, request, boot>>
    BY <1>4 DEF Transcribe, Retry
  <2>2. \E out : \E next \in WorkerPc : wk' = EmitThen(wk, out, next)
    <3>1. {"retry", AfterChunk} \subseteq WorkerPc
      BY DEF WorkerPc, AfterChunk
    <3>. QED  BY <1>4, <3>1, TranscribeIs
  <2>3. Shaped(wk)'
    BY <1>3, <2>2 DEF Shaped
  <2>. QED  BY <1>0, <2>1, <2>3, SameTypes DEF ControlTypes
<1>5. CASE Emit
  <2>1. TableTypes' /\ UNCHANGED <<feed, live, starting, pushing, liveQ, jobQ, od, request, boot>>
    BY <1>0, <1>5, TableOps DEF Emit
  <2>2. Shaped(wk)'
    BY <1>2, <1>3, <1>5 DEF Emit, Shaped
  <2>. QED  BY <1>0, <2>1, <2>2, SameTypes DEF ControlTypes
<1>6. CASE Account
  <2>1. TableTypes'
    BY <1>0, <1>2, <1>6, TableOps DEF Account, JobState
  <2>2. wk.session \in Session /\ Listed(wk.session) /\ InProgress(wk.session)
    BY <1>0, <1>2, <1>6 DEF WorkHolds, Account, At, Chunking, InProgress
  <2>3. live[wk.session].outstanding - 1 \in Nat
    BY <1>0, <2>2, InProgressCounts, ExactIs DEF Control
  <2>4. LiveTypes'
    <3>. DEFINE l == [live[wk.session] EXCEPT !.outstanding = @ - 1]
    <3>1. l \in [id : 0..Transcripts, stopping : BOOLEAN, outstanding : Nat]
      BY <1>0, <2>2, <2>3 DEF LiveTypes
    <3>2. live' = [live EXCEPT ![wk.session] = l]
      BY <1>6 DEF Account
    <3>. HIDE DEF l
    <3>. QED  BY <1>0, <1>6, <3>1, <3>2 DEF LiveTypes, Account
  <2>5. Shaped(wk)'
    <3>1. 0 \in 0..Transcripts
      BY WorkerAssumption
    <3>2. Shaped(Idle) /\ Shaped([Idle EXCEPT !.pc = "finalise", !.session = wk.session])
      BY <1>1, <1>2, <3>1, ShapedIs
    <3>. QED  BY <1>6, <3>2 DEF Account, Shaped
  <2>6. UNCHANGED <<feed, jobQ, od, request, boot>>
    BY <1>6 DEF Account
  <2>. QED  BY <1>0, <2>1, <2>4, <2>5, <2>6, SameTypes DEF ControlTypes
<1>7. CASE Advance
  <2>1. od[wk.id] \in [listed : BOOLEAN, idx : Nat, inv : [Kind -> Nat]]
    BY <1>0, <1>2 DEF JobTypes
  <2>2. TableTypes'
    <3>1. job[wk.id] \in [state : JobState, progress : Nat, total : Nat]
      BY <1>0, <1>2 DEF TableTypes
    <3>2. [job[wk.id] EXCEPT !.progress = od[wk.id].idx + 1]
            \in [state : JobState, progress : Nat, total : Nat]
      BY <2>1, <3>1
    <3>. QED  BY <1>0, <1>7, <3>2, TableOps DEF Advance
  <2>3. od' \in [Id -> [listed : BOOLEAN, idx : Nat, inv : [Kind -> Nat]]]
    <3>. DEFINE o == [od[wk.id] EXCEPT !.idx = @ + 1]
    <3>1. o \in [listed : BOOLEAN, idx : Nat, inv : [Kind -> Nat]]
      BY <2>1
    <3>2. od' = [od EXCEPT ![wk.id] = o]
      BY <1>7 DEF Advance
    <3>. HIDE DEF o
    <3>. QED  BY <1>0, <3>1, <3>2 DEF JobTypes
  <2>4. jobQ' \in Seq(Id)
    BY <1>0, <1>2, <1>7 DEF JobTypes, Advance
  <2>5. JobTypes'
    BY <1>0, <1>7, <2>3, <2>4 DEF JobTypes, Advance
  <2>6. Shaped(wk)'
    BY <1>7, ShapedIs DEF Advance
  <2>7. UNCHANGED <<feed, live, starting, pushing, liveQ, boot>>
    BY <1>7 DEF Advance
  <2>. QED  BY <1>0, <2>2, <2>5, <2>6, <2>7, SameTypes DEF ControlTypes
<1>8. CASE EngineFails
  <2>1. LiveTypes'
    <3>1. NoLive \in [id : 0..Transcripts, stopping : BOOLEAN, outstanding : Nat]
      BY WorkerAssumption DEF NoLive
    <3>2. live' \in [Session -> [id : 0..Transcripts, stopping : BOOLEAN, outstanding : Nat]]
      BY <1>0, <1>8, <3>1 DEF LiveTypes, EngineFails, Unlist
    <3>. QED  BY <1>0, <1>8, <3>2 DEF LiveTypes, EngineFails
  <2>2. JobTypes'
    <3>1. NoOd \in [listed : BOOLEAN, idx : Nat, inv : [Kind -> Nat]]
      BY DEF NoOd
    <3>2. od' \in [Id -> [listed : BOOLEAN, idx : Nat, inv : [Kind -> Nat]]]
      BY <1>0, <1>8, <3>1 DEF JobTypes, EngineFails
    <3>. QED  BY <1>0, <1>8, <3>2 DEF JobTypes, EngineFails
  <2>3. Shaped(wk)'
    <3>1. 0 \in 0..Transcripts /\ "failed" \in Ended
      BY WorkerAssumption DEF Ended
    <3>2. Shaped([wk EXCEPT !.pc = "settle", !.verdict = "failed"])
      BY <1>0, <1>1, <3>1, ShapedIs
    <3>. QED  BY <1>8, <3>2 DEF EngineFails, Shaped
  <2>4. UNCHANGED <<feed, store, boot>>
    BY <1>8 DEF EngineFails
  <2>. QED  BY <1>0, <2>1, <2>2, <2>3, <2>4, SameTypes DEF ControlTypes
<1>. QED  BY <1>4, <1>5, <1>6, <1>7, <1>8

\* The worker ends what it works on, or trips over it.
LEMMA EndTypes ==
  ASSUME Control, Finalise \/ Report \/ Settle \/ SettleJob \/ WorkerError
  PROVE  ControlTypes'
<1>0. /\ FeedTypeOK /\ TableTypes /\ LiveTypes /\ JobTypes /\ Shaped(wk)
      /\ ControlTypes /\ WorkHolds /\ LiveHolds
  BY DEF Control, ControlTypes
<1>1. {"report", "settle", "job"} \subseteq WorkerPc /\ "settle" \in WorkerPc
  BY DEF WorkerPc
<1>2. /\ wk.verdict \in Ended /\ wk.id \in 0..Transcripts
      /\ wk.pc \notin {"idle", "finalise"} => wk.id \in Id
  BY <1>0 DEF WorkHolds, Shaped
<1>3. Shaped(Idle) /\ NoLive \in [id : 0..Transcripts, stopping : BOOLEAN, outstanding : Nat]
  <2>1. 0 \in 0..Transcripts
    BY WorkerAssumption
  <2>. QED  BY <2>1, ShapedIs DEF NoLive
<1>4. CASE Finalise
  <2>. DEFINE s == wk.session
              i == live[s].id
  <2>1. s \in Session
    BY <1>0, <1>4 DEF WorkHolds, Finalise, At, Shaped
  <2>2. i \in 0..Transcripts /\ (Listed(s) => i \in Id)
    BY <1>0, <2>1 DEF LiveTypes, LiveHolds, LiveOf
  <2>3. UNCHANGED <<feed, starting, pushing, liveQ, jobQ, od, request, boot>>
    BY <1>4 DEF Finalise
  <2>4. CASE wk' = Idle /\ UNCHANGED <<store, live>>
    BY <1>0, <1>3, <2>3, <2>4, SameTypes DEF ControlTypes, Shaped
  <2>5. CASE /\ Listed(s) /\ SetJobState(i, "finalising") /\ UNCHANGED live
             /\ wk' = [wk EXCEPT !.pc = "report", !.id = i]
    <3>1. TableTypes'
      BY <1>0, <2>2, <2>5, TableOps DEF JobState
    <3>2. Shaped([wk EXCEPT !.pc = "report", !.id = i])
      BY <1>0, <1>1, <1>2, <2>2, ShapedIs
    <3>3. Shaped(wk)'
      BY <2>5, <3>2 DEF Shaped
    <3>. QED  BY <1>0, <2>3, <2>5, <3>1, <3>3, SameTypes DEF ControlTypes
  <2>6. CASE Unlist(s) /\ FlushThenSettle(wk, i) /\ UNCHANGED store
    <3>1. live' \in [Session -> [id : 0..Transcripts, stopping : BOOLEAN, outstanding : Nat]]
      BY <1>0, <1>3, <2>6 DEF LiveTypes, Unlist
    <3>2. LiveTypes'
      BY <1>0, <2>3, <3>1 DEF LiveTypes
    <3>3. PICK out : wk' = EmitThen([wk EXCEPT !.id = i], out, "settle")
      BY <2>6 DEF FlushThenSettle
    <3>4. Shaped([wk EXCEPT !.id = i])
      BY <1>0, <1>1, <1>2, <2>2, ShapedIs
    <3>5. Shaped(EmitThen([wk EXCEPT !.id = i], out, "settle"))
      BY <1>1, <3>4, EmitThenIs
    <3>6. Shaped(wk)'
      BY <3>3, <3>5 DEF Shaped
    <3>. QED  BY <1>0, <2>3, <2>6, <3>2, <3>6, SameTypes DEF ControlTypes
  <2>. QED  BY <1>4, <2>4, <2>5, <2>6 DEF Finalise
<1>5. CASE Report
  <2>1. TableTypes'
    BY <1>0, <1>5, TableOps DEF Report, TranscriptState
  <2>2. Shaped(wk)' /\ UNCHANGED <<feed, live, starting, pushing, liveQ, jobQ, od, request, boot>>
    BY <1>3, <1>5 DEF Report, Shaped
  <2>. QED  BY <1>0, <2>1, <2>2, SameTypes DEF ControlTypes
<1>6. CASE Settle
  <2>1. TableTypes'
    <3>1. wk.verdict \in TranscriptState /\ (wk.verdict = "completed") \in BOOLEAN
      BY <1>2 DEF Ended, TranscriptState
    <3>. QED  BY <1>0, <1>6, <3>1, TableOps DEF Settle
  <2>2. JobTypes'
    <3>1. NoOd \in [listed : BOOLEAN, idx : Nat, inv : [Kind -> Nat]]
      BY DEF NoOd
    <3>2. od' \in [Id -> [listed : BOOLEAN, idx : Nat, inv : [Kind -> Nat]]]
      BY <1>0, <1>6, <3>1 DEF JobTypes, Settle
    <3>. QED  BY <1>0, <1>6, <3>2 DEF JobTypes, Settle
  <2>3. Shaped(wk)'
    <3>1. Shaped([wk EXCEPT !.pc = "job"])
      BY <1>0, <1>1, <1>2, ShapedIs
    <3>. QED  BY <1>6, <3>1 DEF Settle, Shaped
  <2>4. UNCHANGED <<feed, live, starting, pushing, liveQ, boot>>
    BY <1>6 DEF Settle
  <2>. QED  BY <1>0, <2>1, <2>2, <2>3, <2>4, SameTypes DEF ControlTypes
<1>7. CASE SettleJob
  <2>1. TableTypes'
    <3>1. wk.verdict \in JobState /\ wk.id \in Id
      BY <1>2, <1>7 DEF Ended, JobState, SettleJob, At
    <3>. QED  BY <1>0, <1>7, <3>1, TableOps DEF SettleJob
  <2>2. Shaped(wk)' /\ UNCHANGED <<feed, live, starting, pushing, liveQ, jobQ, od, request, boot>>
    BY <1>3, <1>7 DEF SettleJob, Shaped
  <2>. QED  BY <1>0, <2>1, <2>2, SameTypes DEF ControlTypes
<1>8. CASE WorkerError
  <2>1. LiveTypes'
    <3>1. CASE UNCHANGED live
      BY <1>0, <1>8, <3>1 DEF WorkerError, LiveTypes
    <3>2. CASE IsLive /\ Chunking /\ live' = [live EXCEPT ![wk.session].outstanding = @ - 1]
      <4>1. wk.session \in Session /\ Listed(wk.session) /\ InProgress(wk.session)
        BY <1>0, <3>2 DEF WorkHolds, IsLive, Shaped, Chunking, InProgress, At
      <4>2. live[wk.session].outstanding - 1 \in Nat
        BY <1>0, <4>1, InProgressCounts, ExactIs DEF Control
      <4>. DEFINE l == [live[wk.session] EXCEPT !.outstanding = @ - 1]
      <4>3. l \in [id : 0..Transcripts, stopping : BOOLEAN, outstanding : Nat]
        BY <1>0, <4>1, <4>2 DEF LiveTypes
      <4>4. live' = [live EXCEPT ![wk.session] = l]
        BY <3>2
      <4>5. live' \in [Session -> [id : 0..Transcripts, stopping : BOOLEAN, outstanding : Nat]]
        <5>. HIDE DEF l
        <5>. QED  BY <1>0, <4>3, <4>4 DEF LiveTypes
      <4>. QED  BY <1>0, <1>8, <4>5 DEF LiveTypes, WorkerError
    <3>. QED  BY <1>8, <3>1, <3>2 DEF WorkerError, Chunking, InProgress, At
  <2>2. Shaped(wk)' /\ UNCHANGED <<feed, store, jobQ, od, request, boot>>
    BY <1>3, <1>8 DEF WorkerError, Shaped
  <2>. QED  BY <1>0, <2>1, <2>2, SameTypes DEF ControlTypes
<1>. QED  BY <1>4, <1>5, <1>6, <1>7, <1>8

\* The queue of a process that has reconciled: one job at most.
LEMMA RequeueIs ==
  LET q == SetToSeq(NextQueued) IN
  /\ q \in Seq(Id) /\ \A n \in DOMAIN q : q[n] \in NextQueued
  /\ \A m, n \in DOMAIN q : m # n => q[m] # q[n]
<1>. DEFINE S == NextQueued
            Lists(f) == f \in [1..Cardinality(S) -> S] /\ IsInjective(f)
<1>1. \A i, j \in S : i = j
  BY DEF NextQueued, Id
<1>2. S \subseteq Id
  BY DEF NextQueued
<1>3. \E f : Lists(f) /\ Cardinality(S) \in Nat
  <2>1. CASE S = {}
    <3>1. Cardinality(S) = 0
      BY <2>1, FS_EmptySet
    <3>2. Lists(<<>>)
      BY <3>1 DEF IsInjective
    <3>3. Cardinality(S) \in Nat
      BY <3>1
    <3>. HIDE DEF Lists, S
    <3>. QED  BY <3>2, <3>3
  <2>2. CASE S # {}
    <3>1. PICK i : i \in S
      BY <2>2
    <3>2. S = {i}
      BY <1>1, <3>1
    <3>3. Cardinality(S) = 1
      BY <3>2, FS_Singleton
    <3>4. [n \in 1..1 |-> i] \in [1..1 -> S] /\ IsInjective([n \in 1..1 |-> i])
      <4>. HIDE DEF S
      <4>. QED  BY <3>1 DEF IsInjective
    <3>5. Lists([n \in 1..1 |-> i])
      <4>. HIDE DEF S
      <4>. QED  BY <3>3, <3>4
    <3>. QED  BY <3>3, <3>5
  <2>. QED  BY <2>1, <2>2
<1>4. Lists(CHOOSE f : Lists(f))
  <2>. HIDE DEF Lists
  <2>. QED  BY <1>3
<1>5. SetToSeq(S) = CHOOSE f : Lists(f)
  BY DEF SetToSeq
<1>. QED
  <2>. HIDE DEF S
  <2>1. SetToSeq(S) \in [1..Cardinality(S) -> S] /\ Cardinality(S) \in Nat
    BY <1>3, <1>4, <1>5
  <2>2. IsInjective(SetToSeq(S))
    BY <1>4, <1>5
  <2>. QED  BY <1>2, <2>1, <2>2 DEF S, IsInjective

\* A new process.
LEMMA CrashTypes ==
  ASSUME ControlTypes, Crash
  PROVE  ControlTypes'
<1>0. FeedTypeOK /\ JobTypes /\ FeedTypeOK'
  BY FeedTypes DEF ControlTypes, Crash
<1>1. 0 \in 0..Transcripts
  BY WorkerAssumption
<1>2. LiveTypes'
  <2>1. live' \in [Session -> [id : 0..Transcripts, stopping : BOOLEAN, outstanding : Nat]]
    BY <1>1 DEF Crash, NoLive
  <2>2. starting' \in [session : Session \cup {NoSession}, id : 0..Transcripts]
    BY <1>1 DEF Crash, NoStart
  <2>. QED  BY <2>1, <2>2 DEF Crash, LiveTypes
<1>3. JobTypes'
  <2>1. od' \in [Id -> [listed : BOOLEAN, idx : Nat, inv : [Kind -> Nat]]]
    BY DEF Crash, NoOd
  <2>2. request' \in [Request -> [pc : RequestPc, session : Session \cup {NoSession},
                                  id : 0..Transcripts]]
    <3>. DEFINE R == [pc : RequestPc, session : Session \cup {NoSession}, id : 0..Transcripts]
    <3>1. \A r \in Request : request[r] \in R /\ [request[r] EXCEPT !.pc = "done"] \in R
      BY <1>0 DEF JobTypes, RequestPc
    <3>. HIDE DEF R
    <3>2. request' \in [Request -> R]
      BY <3>1 DEF Crash
    <3>. QED  BY <3>2 DEF R
  <2>. QED  BY <2>1, <2>2 DEF Crash, JobTypes
<1>4. Shaped(wk)' /\ UNCHANGED store
  BY ShapedIs DEF Crash, Shaped
<1>5. BootTypes'
  BY <1>1 DEF Crash, BootTypes, Boot, BootPc
<1>. QED  BY <1>0, <1>2, <1>3, <1>4, <1>5, SameTypes DEF ControlTypes

LEMMA BootStepTypes ==
  ASSUME ControlTypes, BootHolds, BootStep
  PROVE  ControlTypes'
<1>0. FeedTypeOK /\ TableTypes /\ LiveTypes /\ JobTypes /\ BootTypes
  BY DEF ControlTypes
<1>1. {"up", "next", "job", "queue"} \subseteq BootPc /\ 0 \in 0..Transcripts
  BY WorkerAssumption DEF BootPc
<1>2. /\ boot.todo \subseteq Id /\ \A i \in boot.todo : i \in 0..Transcripts
      /\ boot.pc \in {"job", "queue"} => boot.id \in Id
  BY <1>0, WorkerAssumption DEF BootTypes, BootHolds, Id
<1>3. CASE BootScan
  <2>1. BootTypes'
    BY <1>1, <1>3 DEF BootScan, Boot, BootTypes, OpenJobs
  <2>. QED  BY <1>3, <2>1, SameTypes DEF ControlTypes, BootScan, memory
<1>4. CASE ReconcileLive
  <2>1. TableTypes'
    BY <1>0, <1>4, TableOps DEF ReconcileLive, TranscriptState
  <2>2. BootTypes'
    BY <1>0, <1>1, <1>2, <1>4 DEF ReconcileLive, BootTypes
  <2>. QED  BY <1>4, <2>1, <2>2, SameTypes DEF ControlTypes, ReconcileLive, memory
<1>5. CASE ReconcileLiveJob
  <2>1. TableTypes'
    BY <1>0, <1>2, <1>5, TableOps DEF ReconcileLiveJob, JobState
  <2>2. BootTypes'
    BY <1>0, <1>1, <1>2, <1>5 DEF ReconcileLiveJob, BootTypes
  <2>. QED  BY <1>5, <2>1, <2>2, SameTypes DEF ControlTypes, ReconcileLiveJob, memory
<1>6. CASE ReconcileOnDemand
  <2>1. TableTypes'
    BY <1>0, <1>6, TableOps DEF ReconcileOnDemand
  <2>2. BootTypes'
    BY <1>0, <1>1, <1>2, <1>6 DEF ReconcileOnDemand, BootTypes
  <2>. QED  BY <1>6, <2>1, <2>2, SameTypes DEF ControlTypes, ReconcileOnDemand, memory
<1>7. CASE ReconcileOnDemandJob
  <2>1. TableTypes'
    <3>1. job[boot.id] \in [state : JobState, progress : Nat, total : Nat]
      BY <1>0, <1>2, <1>7 DEF TableTypes, ReconcileOnDemandJob
    <3>2. [job[boot.id] EXCEPT !.state = "queued", !.progress = 0]
            \in [state : JobState, progress : Nat, total : Nat]
      BY <3>1 DEF JobState
    <3>. QED  BY <1>0, <1>7, <3>2, TableOps DEF ReconcileOnDemandJob
  <2>2. BootTypes'
    BY <1>0, <1>1, <1>2, <1>7 DEF ReconcileOnDemandJob, BootTypes
  <2>. QED  BY <1>7, <2>1, <2>2, SameTypes DEF ControlTypes, ReconcileOnDemandJob, memory
<1>8. CASE Requeue
  <2>1. JobTypes'
    BY <1>0, <1>8, RequeueIs DEF JobTypes, Requeue
  <2>2. BootTypes'
    BY <1>1, <1>8 DEF Requeue, Boot, BootTypes
  <2>. QED  BY <1>8, <2>1, <2>2, SameTypes DEF ControlTypes, Requeue
<1>. QED  BY <1>3, <1>4, <1>5, <1>6, <1>7, <1>8 DEF BootStep

-----------------------------------------------------------------------------
(***************************************************************************)
(* What a step may do to the feed and to the rows, and what lasts.         *)
(***************************************************************************)
Grows ==
  /\ \A s \in Session : /\ told[s] # {} => told'[s] # {}
                        /\ status[s] # "absent" => status'[s] # "absent"
                        /\ status[s] = "finished" => status'[s] = "finished"
                        /\ status'[s] = "active" => status[s] \in {"absent", "active"}
  /\ \A w \in Source : fed[w] > 0 => fed'[w] > 0

LEMMA FeedGrows ==
  ASSUME FeedTypeOK,
         \/ UNCHANGED feed
         \/ \E s \in Session : Activate(s) \/ TellStarted(s) \/ TellStopped(s)
                                 \/ Finish(s) \/ TellFinalized(s)
         \/ \E w \in Source : FileChunk(w) \/ TellChunk(w)
  PROVE  Grows
<1>1. UNCHANGED feed => Grows
  BY DEF feed, Grows, FeedTypeOK, FeedStatus
<1>2. ASSUME NEW s \in Session, Activate(s) \/ Finish(s)
      PROVE  Grows
  BY <1>2 DEF Activate, Finish, Tell, Grows, FeedTypeOK, FeedStatus
<1>3. ASSUME NEW s \in Session, TellStarted(s) \/ TellStopped(s) \/ TellFinalized(s)
      PROVE  Grows
  BY <1>3 DEF TellStarted, TellStopped, TellFinalized, Tell, Grows, FeedTypeOK, FeedStatus
<1>4. ASSUME NEW w \in Source, FileChunk(w) \/ TellChunk(w)
      PROVE  Grows
  BY <1>4 DEF FileChunk, TellChunk, Grows, FeedTypeOK, FeedStatus
<1>. QED  BY <1>1, <1>2, <1>3, <1>4

OnlyRow(i) == \A j \in Id \ {i} : /\ transcript'[j] = transcript[j] /\ job'[j] = job[j]
                                  /\ segment'[j] = segment[j]
Identified(i) == /\ transcript'[i].session = transcript[i].session
                 /\ transcript'[i].mode = transcript[i].mode

\* What the operations of the store do to the row they are about.
LEMMA RowOps ==
  ASSUME TableTypes, NEW i \in Id
  PROVE  /\ \A s, mode, ts, js : CreateTranscript(i, s, mode, ts, js) =>
              /\ OnlyRow(i) /\ job'[i].state = js
              /\ transcript'[i] = [session |-> s, mode |-> mode, state |-> ts, final |-> FALSE]
         /\ \A seg : AppendSegment(i, seg) => OnlyRow(i) /\ UNCHANGED <<transcript, job>>
         /\ \A ts, final : SetState(i, ts, final) =>
              OnlyRow(i) /\ transcript'[i].state = ts /\ Identified(i) /\ UNCHANGED job
         /\ \A j : UpdateJob(i, j) => OnlyRow(i) /\ job'[i] = j /\ UNCHANGED transcript
         /\ \A js : SetJobState(i, js) =>
              OnlyRow(i) /\ job'[i].state = js /\ UNCHANGED transcript
         /\ DeleteSegments(i) => OnlyRow(i) /\ UNCHANGED <<transcript, job>>
<1>. USE DEF OnlyRow, Identified
<1>1. ASSUME NEW s, NEW mode, NEW ts, NEW js, CreateTranscript(i, s, mode, ts, js)
      PROVE  /\ OnlyRow(i) /\ job'[i].state = js
             /\ transcript'[i] = [session |-> s, mode |-> mode, state |-> ts, final |-> FALSE]
  BY <1>1 DEF TableTypes, CreateTranscript
<1>2. ASSUME NEW seg, AppendSegment(i, seg)
      PROVE  OnlyRow(i) /\ UNCHANGED <<transcript, job>>
  BY <1>2 DEF TableTypes, AppendSegment
<1>3. ASSUME NEW ts, NEW final, SetState(i, ts, final)
      PROVE  OnlyRow(i) /\ transcript'[i].state = ts /\ Identified(i) /\ UNCHANGED job
  BY <1>3 DEF TableTypes, SetState
<1>4. ASSUME NEW j, UpdateJob(i, j)
      PROVE  OnlyRow(i) /\ job'[i] = j /\ UNCHANGED transcript
  BY <1>4 DEF TableTypes, UpdateJob
<1>5. ASSUME NEW js, SetJobState(i, js)
      PROVE  OnlyRow(i) /\ job'[i].state = js /\ UNCHANGED transcript
  BY <1>5 DEF TableTypes, SetJobState, UpdateJob
<1>6. ASSUME DeleteSegments(i)
      PROVE  OnlyRow(i) /\ UNCHANGED <<transcript, job>>
  BY <1>6 DEF TableTypes, DeleteSegments
<1>. QED  BY <1>1, <1>2, <1>3, <1>4, <1>5, <1>6

\* The tables under each kind of change.
LEMMA TablesGrow ==
  ASSUME TablesHold, Grows, UNCHANGED store
  PROVE  TablesHold'
BY DEF TablesHold, Grows, store, Exists, OnDemand

LEMMA TablesChange ==
  ASSUME TablesHold, UNCHANGED feed, NEW i \in Id, OnlyRow(i), Identified(i),
         Exists(i), Exists(i)', job'[i].state # "absent",
         job'[i].state = "completed" => transcript'[i].state = "completed",
         job'[i].state = "queued" => transcript[i].mode = "on_demand"
  PROVE  TablesHold'
<1>1. \A j \in Id : Identified(j) /\ (Exists(j)' <=> Exists(j))
  BY DEF OnlyRow, Identified, Exists
<1>2. \A j \in Id \ {i} : transcript'[j] = transcript[j] /\ job'[j] = job[j]
  BY DEF OnlyRow
<1>3. UNCHANGED <<status, told>>
  BY DEF feed
<1>4. \A j \in Id : Exists(j)' <=> job'[j].state # "absent"
  BY <1>1, <1>2 DEF TablesHold
<1>5. \A j \in Id : Exists(j)' =>
        LET s == transcript'[j].session IN
        s \in Session /\ status'[s] # "absent" /\ (status'[s] = "active" => told'[s] # {})
  BY <1>1, <1>3 DEF TablesHold, Identified
<1>6. \A j \in Id : job'[j].state = "completed" => transcript'[j].state = "completed"
  BY <1>2 DEF TablesHold
<1>7. \A j \in Id : job'[j].state = "queued" => transcript'[j].mode = "on_demand"
  BY <1>1, <1>2 DEF TablesHold, Identified
<1>8. \A j, k \in Id : j < k /\ Exists(k)' =>
        Exists(j)' /\ (transcript'[j].session = transcript'[k].session => OnDemand(k)')
  BY <1>1 DEF TablesHold, Identified, OnDemand
<1>. QED  BY <1>4, <1>5, <1>6, <1>7, <1>8 DEF TablesHold

LEMMA TablesCreate ==
  ASSUME TableTypes, TablesHold, Grows, NEW i \in Id, NEW s \in Session, NEW mode \in Mode,
         NEW ts, NEW js, CreateTranscript(i, s, mode, ts, js),
         ts # "absent", js \notin {"absent", "completed"}, js = "queued" => mode = "on_demand",
         status'[s] # "absent", status'[s] = "active" => told'[s] # {},
         mode = "live" => \A j \in Id : Exists(j) => transcript[j].session # s
  PROVE  TablesHold'
<1>1. /\ OnlyRow(i) /\ job'[i].state = js /\ IsNext(i)
      /\ transcript'[i] = [session |-> s, mode |-> mode, state |-> ts, final |-> FALSE]
  <2>1. IsNext(i)
    BY DEF CreateTranscript
  <2>. QED  BY <2>1, RowOps
<1>2. \A j \in Id \ {i} : transcript'[j] = transcript[j] /\ job'[j] = job[j]
  BY <1>1 DEF OnlyRow
<1>3. \A j \in Id : Exists(j)' <=> j = i \/ j < i
  BY <1>1, <1>2 DEF IsNext, Exists, Id
<1>4. \A j \in Id : Exists(j)' <=> job'[j].state # "absent"
  BY <1>1, <1>2 DEF TablesHold, Exists
<1>5. \A j \in Id : Exists(j)' =>
        LET t == transcript'[j].session IN
        t \in Session /\ status'[t] # "absent" /\ (status'[t] = "active" => told'[t] # {})
  BY <1>1, <1>2 DEF TablesHold, Grows, Exists
<1>6. \A j \in Id : job'[j].state = "completed" => transcript'[j].state = "completed"
  BY <1>1, <1>2 DEF TablesHold
<1>7. \A j \in Id : job'[j].state = "queued" => transcript'[j].mode = "on_demand"
  BY <1>1, <1>2 DEF TablesHold
<1>8. \A j, k \in Id : j < k /\ Exists(k)' =>
        Exists(j)' /\ (transcript'[j].session = transcript'[k].session => OnDemand(k)')
  <2>. SUFFICES ASSUME NEW j \in Id, NEW k \in Id, j < k, Exists(k)'
                PROVE  /\ Exists(j)'
                       /\ transcript'[j].session = transcript'[k].session => OnDemand(k)'
    OBVIOUS
  <2>1. j < i /\ j # i /\ Exists(j)' /\ Exists(j)
    BY <1>1, <1>3 DEF Id, IsNext, Exists
  <2>2. CASE k = i
    BY <1>1, <1>2, <2>1, <2>2 DEF OnDemand, Mode
  <2>3. CASE k # i
    BY <1>2, <2>1, <2>3 DEF TablesHold, OnDemand, Exists
  <2>. QED  BY <2>1, <2>2, <2>3
<1>. QED  BY <1>4, <1>5, <1>6, <1>7, <1>8 DEF TablesHold

Lasting == \A i \in Id : /\ OnDemand(i) => OnDemand(i)'
                         /\ \A s : LiveOf(s, i) => LiveOf(s, i)'
                         /\ IsOpen(i) => IsOpen(i)'

LEMMA Lasts ==
  ASSUME TablesHold
  PROVE  /\ UNCHANGED store => Lasting
         /\ \A i \in Id : OnlyRow(i) /\ Identified(i) /\ Exists(i)' /\ IsOpen(i)' => Lasting
         /\ \A i \in Id : OnlyRow(i) /\ ~Exists(i) => Lasting
<1>1. UNCHANGED store => Lasting
  BY DEF store, Lasting, LiveOf, OnDemand, IsOpen, Exists
<1>2. ASSUME NEW i \in Id, OnlyRow(i), Identified(i), Exists(i)', IsOpen(i)'
      PROVE  Lasting
  BY <1>2 DEF Lasting, OnlyRow, Identified, LiveOf, OnDemand, IsOpen, Exists
<1>3. ASSUME NEW i \in Id, OnlyRow(i), ~Exists(i)
      PROVE  Lasting
  <2>1. ~IsOpen(i)
    BY <1>3 DEF TablesHold, IsOpen, Open
  <2>. QED  BY <1>3, <2>1 DEF Lasting, OnlyRow, LiveOf, OnDemand, IsOpen, Exists
<1>. QED  BY <1>1, <1>2, <1>3

LEMMA KeepJobs ==
  ASSUME JobsHold, JobTypes, Lasting, Grows, UNCHANGED <<jobQ, request>>
  PROVE  JobsHold'
<1>1. \A n \in DOMAIN jobQ' : OnDemand(jobQ[n])'
  BY DEF JobsHold, JobTypes, Lasting
<1>2. \A r \in Request :
       /\ request'[r].pc = "checked" =>
            request'[r].session \in Session /\ status'[request'[r].session] = "finished"
       /\ request'[r].pc = "created" => request'[r].id \in Id /\ OnDemand(request[r].id)'
  BY DEF JobsHold, Lasting, Grows
<1>. QED  BY <1>1, <1>2 DEF JobsHold

\* Nothing new is touched, and what is live is as it was.
LEMMA KeepLive ==
  ASSUME LiveHolds, LiveTypes, Lasting, Grows, UNCHANGED <<live, starting, pushing, liveQ>>,
         wk'.session \in {wk.session, NoSession}
  PROVE  LiveHolds'
<1>1. \A s \in Session : Touched(s)' => Touched(s)
  BY WorkerAssumption DEF Touched, Listed
<1>2. \A s \in Session : Touched(s)' => told'[s] # {} /\ starting'.session # s
  BY <1>1 DEF LiveHolds, Grows
<1>3. \A s \in Session : IF Listed(s)' THEN LiveOf(s, live[s].id)' ELSE live'[s] = NoLive
  <2>. SUFFICES ASSUME NEW s \in Session
                PROVE  IF Listed(s)' THEN LiveOf(s, live[s].id)' ELSE live'[s] = NoLive
    OBVIOUS
  <2>1. CASE Listed(s)
    <3>1. LiveOf(s, live[s].id) /\ live[s].id \in Id
      BY <2>1 DEF LiveHolds, LiveOf
    <3>2. LiveOf(s, live[s].id)'
      BY <3>1 DEF Lasting, LiveOf, IsOpen
    <3>. QED  BY <2>1, <3>2 DEF Listed
  <2>2. CASE ~Listed(s)
    BY <2>2 DEF LiveHolds, Listed
  <2>. QED  BY <2>1, <2>2
<1>4. starting' # NoStart =>
       /\ starting'.session \in Session /\ told'[starting'.session] # {}
       /\ LiveOf(starting.session, starting.id)'
  <2>. SUFFICES ASSUME starting # NoStart
                PROVE  /\ starting.session \in Session /\ told'[starting.session] # {}
                       /\ LiveOf(starting.session, starting.id)'
    OBVIOUS
  <2>1. /\ starting.session \in Session /\ told[starting.session] # {}
        /\ LiveOf(starting.session, starting.id) /\ starting.id \in Id
    BY DEF LiveHolds, LiveOf
  <2>2. LiveOf(starting.session, starting.id)'
    BY <2>1 DEF Lasting, LiveOf, IsOpen
  <2>. QED  BY <2>1, <2>2 DEF Grows
<1>5. \A w \in pushing' : fed'[w] > 0
  BY DEF LiveHolds, LiveTypes, Grows
<1>. QED  BY <1>2, <1>3, <1>4, <1>5 DEF LiveHolds

\* What the worker is at stays what it is.
LEMMA KeepWork ==
  ASSUME WorkHolds, Shaped(wk), Lasting, UNCHANGED wk,
         wk.pc = "job" => transcript'[wk.id].state = transcript[wk.id].state,
         wk.session \in Session => live'[wk.session].id = live[wk.session].id
  PROVE  WorkHolds'
<1>0. wk.session \in Session \cup {NoSession}
  BY DEF Shaped
<1>1. wk.pc \notin {"idle", "finalise"} =>
       /\ wk.id \in Id /\ IsOpen(wk.id)'
       /\ IF wk.session = NoSession THEN OnDemand(wk.id)' ELSE LiveOf(wk.session, wk.id)'
  BY DEF WorkHolds, Lasting
<1>2. wk.session # NoSession /\ (Chunking \/ wk.pc = "report") =>
       Listed(wk.session)' /\ live'[wk.session].id = wk.id
  BY <1>0 DEF WorkHolds, Listed
<1>3. wk.session # NoSession /\ Closing => ~Listed(wk.session)'
  BY <1>0 DEF WorkHolds, Listed
<1>4. Chunking' = Chunking /\ Closing' = Closing
  BY DEF Chunking, Closing
<1>5. wk.pc = "job" => transcript'[wk.id].state = wk.verdict
  BY DEF WorkHolds
<1>. QED  BY <1>0, <1>1, <1>2, <1>3, <1>4, <1>5 DEF WorkHolds

LEMMA KeepCount ==
  ASSUME OutstandingIsExact, UNCHANGED <<pushing, liveQ>>,
         \A s \in Session : Listed(s)' => live'[s] = live[s] /\ (InProgress(s)' <=> InProgress(s))
  PROVE  OutstandingIsExact'
<1>. SUFFICES ASSUME NEW s \in Session, Listed(s)'
              PROVE  Exact(s)'
  BY ExactIs DEF OutstandingIsExact, Exact, Pushed, Chunks, OneIf
<1>1. live'[s] = live[s] /\ Listed(s) /\ (InProgress(s)' <=> InProgress(s))
  BY DEF Listed
<1>2. Exact(s)
  BY <1>1, ExactIs
<1>3. OneIf(InProgress(s))' = OneIf(InProgress(s))
  BY <1>1 DEF OneIf
<1>4. Pushed(s)' = Pushed(s) /\ Chunks(liveQ, s)' = Chunks(liveQ, s)
  BY DEF Pushed, Chunks
<1>. QED  BY <1>1, <1>2, <1>3, <1>4 DEF Exact

-----------------------------------------------------------------------------
(***************************************************************************)
(* The invariant, action by action.  All but the start of a process        *)
(* happens when it is up.                                                  *)
(***************************************************************************)
LEMMA ServesWhenUp ==
  ASSUME BootHolds,
         \/ Capture \/ ListLive
         \/ \E s \in Session : BeginLive(s) \/ OnStopped(s)
         \/ \E w \in Source : OnChunk(w) \/ PushChunk(w)
         \/ \E r \in Request : RequestStep(r) \/ \E s \in Session : CheckRequest(r, s)
         \/ WorkerStep \/ EngineFails \/ WorkerError
  PROVE  BootHolds'
<1>1. ~Up => starting = NoStart /\ pushing = {} /\ wk.pc = "idle"
  BY DEF BootHolds, Idle
<1>2. ~Up => \A r \in Request : request[r].pc \in {"new", "done"}
  BY DEF BootHolds
<1>3. Capture \/ ListLive \/ (\E s \in Session : BeginLive(s) \/ OnStopped(s))
      => Up /\ UNCHANGED boot
  BY <1>1 DEF Capture, ListLive, BeginLive, OnStopped, LockHolderFree
<1>4. ASSUME NEW w \in Source, OnChunk(w) \/ PushChunk(w)
      PROVE  Up /\ UNCHANGED boot
  BY <1>1, <1>4 DEF OnChunk, PushChunk
<1>5. ASSUME NEW r \in Request, RequestStep(r) \/ \E s \in Session : CheckRequest(r, s)
      PROVE  Up /\ UNCHANGED boot
  BY <1>2, <1>5 DEF RequestStep, CreateRequested, PushRequested, CheckRequest
<1>6. WorkerStep \/ EngineFails \/ WorkerError => Up /\ UNCHANGED boot
  BY <1>1 DEF WorkerStep, EngineFails, WorkerError, TakeChunk, TakeStop, TakeStep, Transcribe,
     Retry, Emit, Account, Advance, Finalise, Report, Settle, SettleJob, At
<1>7. Up /\ UNCHANGED boot => BootHolds'
  BY DEF Up, BootHolds
<1>. QED  BY <1>3, <1>4, <1>5, <1>6, <1>7

\* The invariant but for the types and the start of the process.
Core == TablesHold /\ LiveHolds /\ JobsHold /\ WorkHolds /\ OutstandingIsExact

LEMMA ControlParts ==
  ASSUME Control
  PROVE  /\ FeedTypeOK /\ TableTypes /\ LiveTypes /\ JobTypes /\ Shaped(wk) /\ BootTypes
         /\ TablesHold /\ LiveHolds /\ JobsHold /\ WorkHolds /\ BootHolds /\ OutstandingIsExact
BY DEF Control, ControlTypes

\* The memory of the worker does not move with capture and requests.
LEMMA KeepMemory ==
  ASSUME Control, Grows, Lasting, TablesHold', UNCHANGED <<live, starting, pushing, liveQ, wk>>,
         wk.pc = "job" => transcript'[wk.id].state = transcript[wk.id].state
  PROVE  LiveHolds' /\ WorkHolds' /\ OutstandingIsExact'
<1>1. LiveHolds' /\ WorkHolds'
  BY ControlParts, KeepLive, KeepWork
<1>2. OutstandingIsExact'
  <2>1. \A s \in Session : InProgress(s)' <=> InProgress(s)
    BY DEF InProgress, At
  <2>. QED  BY <2>1, ControlParts, KeepCount
<1>. QED  BY <1>1, <1>2

LEMMA CaptureKeeps ==
  ASSUME Control, Capture
  PROVE  Core'
<1>1. UNCHANGED <<store, live, starting, pushing, liveQ, jobQ, wk, request>>
  BY DEF Capture, memory
<1>2. Grows
  BY ControlParts, FeedGrows DEF Capture
<1>3. TablesHold' /\ Lasting
  BY <1>1, <1>2, ControlParts, TablesGrow, Lasts
<1>4. LiveHolds' /\ WorkHolds' /\ OutstandingIsExact'
  BY <1>1, <1>2, <1>3, KeepMemory DEF store
<1>. QED  BY <1>1, <1>2, <1>3, <1>4, ControlParts, KeepJobs DEF Core

LEMMA BeginKeeps ==
  ASSUME Control, NEW s \in Session, BeginLive(s)
  PROVE  Core'
<1>1. /\ TellStarted(s) /\ starting = NoStart
      /\ UNCHANGED <<live, pushing, liveQ, jobQ, wk, request>>
  BY DEF BeginLive, LockHolderFree
<1>2. Grows
  BY <1>1, ControlParts, FeedGrows
<1>3. /\ told[s] = {} /\ status[s] = "active" /\ status'[s] = "active" /\ told'[s] # {}
      /\ s # NoSession
  BY <1>1, ControlParts, WorkerAssumption DEF TellStarted, Tell, FeedTypeOK
<1>4. \A j \in Id : Exists(j) => transcript[j].session # s
  BY <1>3, ControlParts DEF TablesHold
<1>5. CASE UNCHANGED <<store, starting>>
  <2>1. TablesHold' /\ Lasting
    BY <1>2, <1>5, ControlParts, TablesGrow, Lasts
  <2>2. LiveHolds' /\ WorkHolds' /\ OutstandingIsExact'
    BY <1>1, <1>2, <1>5, <2>1, KeepMemory DEF store
  <2>. QED  BY <1>1, <1>2, <2>1, <2>2, ControlParts, KeepJobs DEF Core
<1>6. ASSUME NEW i \in Id, NEW ts \in {"failed", "live"}, NEW js \in {"failed", "running"},
             CreateTranscript(i, s, "live", ts, js)
      PROVE  /\ TablesHold' /\ Lasting /\ JobsHold'
             /\ wk.pc = "job" => transcript'[wk.id].state = transcript[wk.id].state
             /\ job'[i].state = js /\ transcript'[i].session = s /\ transcript'[i].mode = "live"
  <2>1. OnlyRow(i) /\ job'[i].state = js
        /\ transcript'[i] = [session |-> s, mode |-> "live", state |-> ts, final |-> FALSE]
    BY <1>6, ControlParts, RowOps
  <2>2. ~Exists(i)
    BY <1>6 DEF CreateTranscript, IsNext, Exists, Id
  <2>3. TablesHold'
    BY <1>2, <1>3, <1>4, <1>6, ControlParts, TablesCreate DEF Mode
  <2>4. Lasting
    BY <2>1, <2>2, ControlParts, Lasts
  <2>5. wk.pc = "job" => wk.id \in Id /\ wk.id # i
    BY <2>2, ControlParts DEF WorkHolds, LiveOf, OnDemand, IsOpen, TablesHold, Open
  <2>. QED  BY <1>1, <1>2, <2>1, <2>3, <2>4, <2>5, ControlParts, KeepJobs DEF OnlyRow
<1>7. ASSUME NEW i \in Id, CreateTranscript(i, s, "live", "failed", "failed"), UNCHANGED starting
      PROVE  Core'
  <2>1. TablesHold' /\ Lasting /\ JobsHold'
        /\ (wk.pc = "job" => transcript'[wk.id].state = transcript[wk.id].state)
    BY <1>6, <1>7
  <2>. QED  BY <1>1, <1>2, <1>7, <2>1, KeepMemory DEF Core
<1>8. ASSUME NEW i \in Id, CreateTranscript(i, s, "live", "live", "running"),
             starting' = [session |-> s, id |-> i]
      PROVE  Core'
  <2>1. /\ TablesHold' /\ Lasting /\ JobsHold'
        /\ wk.pc = "job" => transcript'[wk.id].state = transcript[wk.id].state
        /\ job'[i].state = "running" /\ transcript'[i].session = s
        /\ transcript'[i].mode = "live"
    BY <1>6, <1>8
  <2>2. WorkHolds'
    BY <1>1, <2>1, ControlParts, KeepWork
  <2>3. OutstandingIsExact'
    <3>1. \A t \in Session : InProgress(t)' <=> InProgress(t)
      BY <1>1 DEF InProgress, At
    <3>. QED  BY <1>1, <3>1, ControlParts, KeepCount
  <2>4. ~Touched(s) /\ \A t \in Session : Touched(t)' <=> Touched(t)
    BY <1>1, <1>3, ControlParts DEF LiveHolds, Touched, Listed
  <2>5. \A t \in Session : Touched(t)' => told'[t] # {} /\ starting'.session # t
    BY <1>2, <1>8, <2>4, ControlParts DEF LiveHolds, Grows
  <2>6. \A t \in Session : IF Listed(t)' THEN LiveOf(t, live[t].id)' ELSE live'[t] = NoLive
    <3>. SUFFICES ASSUME NEW t \in Session
                  PROVE  IF Listed(t)' THEN LiveOf(t, live[t].id)' ELSE live'[t] = NoLive
      OBVIOUS
    <3>1. Listed(t) => LiveOf(t, live[t].id) /\ live[t].id \in Id
      BY ControlParts DEF LiveHolds, LiveOf
    <3>2. Listed(t) => LiveOf(t, live[t].id)'
      BY <1>1, <2>1, <3>1 DEF Lasting, LiveOf, IsOpen
    <3>. QED  BY <1>1, <3>2, ControlParts DEF LiveHolds, Listed
  <2>7. LiveOf(starting.session, starting.id)'
    BY <1>8, <2>1 DEF LiveOf, IsOpen, Open
  <2>8. \A w \in pushing' : fed'[w] > 0
    BY <1>1, <1>2, ControlParts DEF LiveHolds, LiveTypes, Grows
  <2>9. LiveHolds'
    BY <1>3, <1>8, <2>5, <2>6, <2>7, <2>8 DEF LiveHolds
  <2>. QED  BY <2>1, <2>2, <2>3, <2>9 DEF Core
<1>. QED  BY <1>5, <1>7, <1>8 DEF BeginLive

\* Live sessions as far as their rows go: a step that adds nothing to what is live.
LEMMA ListedLasts ==
  ASSUME LiveHolds, Lasting, NEW s \in Session,
         IF Listed(s)' THEN Listed(s) /\ live'[s].id = live[s].id ELSE live'[s] = NoLive
  PROVE  IF Listed(s)' THEN LiveOf(s, live[s].id)' ELSE live'[s] = NoLive
<1>1. ASSUME Listed(s)'
      PROVE  LiveOf(s, live[s].id)'
  <2>1. LiveOf(s, live[s].id) /\ live[s].id \in Id /\ live'[s].id = live[s].id
    BY <1>1 DEF LiveHolds, LiveOf
  <2>. QED  BY <2>1 DEF Lasting, LiveOf, IsOpen
<1>. QED  BY <1>1

LEMMA StartingLasts ==
  ASSUME LiveHolds, Lasting, Grows, UNCHANGED starting, starting # NoStart
  PROVE  /\ starting'.session \in Session /\ told'[starting'.session] # {}
         /\ LiveOf(starting.session, starting.id)'
<1>1. /\ starting.session \in Session /\ told[starting.session] # {}
      /\ LiveOf(starting.session, starting.id) /\ starting.id \in Id
  BY DEF LiveHolds, LiveOf
<1>2. LiveOf(starting.session, starting.id)'
  BY <1>1 DEF Lasting, LiveOf, IsOpen
<1>. QED  BY <1>1, <1>2 DEF Grows

LEMMA ListKeeps ==
  ASSUME Control, ListLive
  PROVE  Core'
<1>0. PICK s : s = starting.session
  OBVIOUS
<1>1. /\ UNCHANGED <<feed, store, pushing, liveQ, jobQ, wk, request>> /\ starting' = NoStart
      /\ live' = [live EXCEPT ![s] = [NoLive EXCEPT !.id = starting.id]]
      /\ starting # NoStart
  BY <1>0 DEF ListLive
<1>2. Grows
  BY <1>1, ControlParts, FeedGrows
<1>3. TablesHold' /\ Lasting
  BY <1>1, <1>2, ControlParts, TablesGrow, Lasts
<1>4. /\ s \in Session /\ told[s] # {} /\ LiveOf(s, starting.id) /\ ~Touched(s)
      /\ starting.id \in Id
  BY <1>0, <1>1, ControlParts DEF LiveHolds, LiveOf
<1>5. /\ live'[s].id = starting.id /\ live'[s].outstanding = 0
      /\ \A t \in Session \ {s} : live'[t] = live[t]
  BY <1>1, <1>4, ControlParts DEF LiveTypes, NoLive
<1>6. WorkHolds'
  <2>1. wk.session # s
    BY <1>4 DEF Touched
  <2>. QED  BY <1>1, <1>3, <1>5, <2>1, ControlParts, KeepWork DEF store
<1>7. LiveHolds'
  <2>1. \A t \in Session : Touched(t)' => told'[t] # {} /\ starting'.session # t
    <3>1. \A t \in Session : Touched(t)' => Touched(t) \/ t = s
      BY <1>1, <1>5 DEF Touched, Listed
    <3>. QED  BY <1>1, <1>2, <1>4, <3>1, ControlParts, WorkerAssumption
              DEF LiveHolds, Grows, NoStart
  <2>2. \A t \in Session : IF Listed(t)' THEN LiveOf(t, live[t].id)' ELSE live'[t] = NoLive
    <3>1. LiveOf(s, live[s].id)'
      BY <1>3, <1>4, <1>5 DEF Lasting, LiveOf, IsOpen
    <3>2. Listed(s)'
      BY <1>4, <1>5 DEF Listed, Id
    <3>3. ASSUME NEW t \in Session, t # s
          PROVE  IF Listed(t)' THEN LiveOf(t, live[t].id)' ELSE live'[t] = NoLive
      BY <1>3, <1>5, <3>3, ControlParts, ListedLasts DEF LiveHolds, Listed
    <3>. QED  BY <3>1, <3>2, <3>3
  <2>. QED  BY <1>1, <1>2, <2>1, <2>2, ControlParts DEF LiveHolds, Grows, LiveTypes
<1>8. OutstandingIsExact'
  <2>. SUFFICES ASSUME NEW t \in Session, Listed(t)'
                PROVE  Exact(t)'
    BY ExactIs DEF OutstandingIsExact, Exact, Pushed, Chunks, OneIf
  <2>1. /\ Pushed(t)' = Pushed(t) /\ Chunks(liveQ, t)' = Chunks(liveQ, t)
        /\ OneIf(InProgress(t))' = OneIf(InProgress(t))
    BY <1>1 DEF Pushed, Chunks, OneIf, InProgress, At
  <2>2. CASE t = s
    <3>1. Pushed(s) = {} /\ Chunks(liveQ, s) = {} /\ ~InProgress(s)
      BY <1>4 DEF Touched, Pushed, Chunks, InProgress
    <3>2. Cardinality({}) = 0 /\ OneIf(InProgress(s)) = 0
      BY <3>1, FS_EmptySet DEF OneIf
    <3>. QED  BY <1>5, <2>1, <2>2, <3>1, <3>2 DEF Exact
  <2>3. CASE t # s
    <3>1. live'[t] = live[t] /\ Listed(t)
      BY <1>5, <2>3 DEF Listed
    <3>2. Exact(t)
      BY <3>1, ControlParts, ExactIs
    <3>. QED  BY <2>1, <3>1, <3>2 DEF Exact
  <2>. QED  BY <2>2, <2>3
<1>. QED  BY <1>1, <1>2, <1>3, <1>6, <1>7, <1>8, ControlParts, KeepJobs DEF Core

LEMMA AppendHas ==
  ASSUME NEW S, NEW q \in Seq(S), NEW x \in S
  PROVE  \A n \in DOMAIN Append(q, x) :
           Append(q, x)[n] = x \/ (n \in DOMAIN q /\ Append(q, x)[n] = q[n])
OBVIOUS

LEMMA StoppedKeeps ==
  ASSUME Control, NEW s \in Session, OnStopped(s)
  PROVE  Core'
<1>1. UNCHANGED <<store, starting, pushing, jobQ, wk, request>> /\ TellStopped(s)
  BY DEF OnStopped
<1>2. Grows
  BY <1>1, ControlParts, FeedGrows
<1>3. TablesHold' /\ Lasting
  BY <1>1, <1>2, ControlParts, TablesGrow, Lasts
<1>4. CASE UNCHANGED <<live, liveQ>>
  <2>1. LiveHolds' /\ WorkHolds' /\ OutstandingIsExact'
    BY <1>1, <1>2, <1>3, <1>4, KeepMemory DEF store
  <2>. QED  BY <1>1, <1>2, <1>3, <2>1, ControlParts, KeepJobs DEF Core
<1>5. CASE /\ Listed(s) /\ live' = [live EXCEPT ![s].stopping = TRUE]
           /\ liveQ' = Append(liveQ, StopItem(s))
  <2>1. /\ \A t \in Session : /\ live'[t].id = live[t].id
                              /\ live'[t].outstanding = live[t].outstanding
        /\ \A t \in Session \ {s} : live'[t] = live[t]
    BY <1>5, ControlParts DEF LiveTypes
  <2>2. StopItem(s) \in Item /\ StopItem(s).session = s /\ StopItem(s).stop
    BY WorkerAssumption DEF StopItem, Item
  <2>3. WorkHolds'
    BY <1>1, <1>3, <2>1, ControlParts, KeepWork DEF store
  <2>4. LiveHolds'
    <3>1. \A t \in Session : Touched(t)' => Touched(t)
      <4>1. \A n \in DOMAIN liveQ' : liveQ'[n].session = s
                \/ (n \in DOMAIN liveQ /\ liveQ'[n] = liveQ[n])
        BY <1>5, <2>2, ControlParts, AppendHas DEF LiveTypes
      <4>. QED  BY <1>1, <1>5, <2>1, <4>1 DEF Touched, Listed
    <3>2. \A t \in Session : Touched(t)' => told'[t] # {} /\ starting'.session # t
      BY <1>1, <1>2, <3>1, ControlParts DEF LiveHolds, Grows
    <3>3. ASSUME NEW t \in Session
          PROVE  IF Listed(t)' THEN LiveOf(t, live[t].id)' ELSE live'[t] = NoLive
      BY <1>3, <1>5, <2>1, ControlParts, ListedLasts DEF LiveHolds, Listed
    <3>4. starting' # NoStart =>
            /\ starting'.session \in Session /\ told'[starting'.session] # {}
            /\ LiveOf(starting.session, starting.id)'
      BY <1>1, <1>2, <1>3, ControlParts, StartingLasts
    <3>. QED  BY <1>1, <1>2, <3>2, <3>3, <3>4, ControlParts DEF LiveHolds, Grows, LiveTypes
  <2>5. OutstandingIsExact'
    <3>. SUFFICES ASSUME NEW t \in Session, Listed(t)'
                  PROVE  Exact(t)'
      BY ExactIs DEF OutstandingIsExact, Exact, Pushed, Chunks, OneIf
    <3>1. Pushed(t)' = Pushed(t) /\ OneIf(InProgress(t))' = OneIf(InProgress(t))
      BY <1>1 DEF Pushed, OneIf, InProgress, At
    <3>2. Cardinality(Chunks(liveQ, t))' = Cardinality(Chunks(liveQ, t))
      <4>1. OneIf(StopItem(s).session = t /\ ~StopItem(s).stop) = 0
        BY <2>2 DEF OneIf
      <4>2. Cardinality(Chunks(Append(liveQ, StopItem(s)), t)) = Cardinality(Chunks(liveQ, t)) + 0
        BY <2>2, <4>1, ControlParts, AppendCounts DEF LiveTypes
      <4>3. Cardinality(Chunks(liveQ, t)) \in Nat
        BY ControlParts, ChunksFinite DEF LiveTypes
      <4>4. Chunks(liveQ, t)' = Chunks(Append(liveQ, StopItem(s)), t)
        BY <1>5 DEF Chunks
      <4>. QED  BY <4>2, <4>3, <4>4
    <3>3. Exact(t)
      BY <2>1, ControlParts, ExactIs DEF Listed
    <3>. QED  BY <2>1, <3>1, <3>2, <3>3 DEF Exact
  <2>. QED  BY <1>1, <1>2, <1>3, <2>3, <2>4, <2>5, ControlParts, KeepJobs DEF Core
<1>. QED  BY <1>4, <1>5 DEF OnStopped

LEMMA ChunkKeeps ==
  ASSUME Control, NEW w \in Source, OnChunk(w)
  PROVE  Core'
<1>. DEFINE s == SessionOf(w)
<1>1. UNCHANGED <<store, starting, liveQ, jobQ, wk, request>> /\ TellChunk(w) /\ w \notin pushing
  BY DEF OnChunk
<1>2. Grows /\ s \in Session
  BY <1>1, ControlParts, FeedGrows DEF Source, SessionOf
<1>3. TablesHold' /\ Lasting
  BY <1>1, <1>2, ControlParts, TablesGrow, Lasts
<1>4. CASE UNCHANGED <<live, pushing>>
  <2>1. LiveHolds' /\ WorkHolds' /\ OutstandingIsExact'
    BY <1>1, <1>2, <1>3, <1>4, KeepMemory DEF store
  <2>. QED  BY <1>1, <1>2, <1>3, <2>1, ControlParts, KeepJobs DEF Core
<1>5. CASE /\ Listed(s) /\ live' = [live EXCEPT ![s].outstanding = @ + 1]
           /\ pushing' = pushing \cup {w}
  <2>1. /\ \A t \in Session : live'[t].id = live[t].id
        /\ live'[s].outstanding = live[s].outstanding + 1
        /\ \A t \in Session \ {s} : live'[t] = live[t]
    BY <1>2, <1>5, ControlParts DEF LiveTypes
  <2>2. WorkHolds'
    BY <1>1, <1>3, <2>1, ControlParts, KeepWork DEF store
  <2>3. LiveHolds'
    <3>1. \A t \in Session : Touched(t)' => Touched(t)
      BY <1>1, <1>5, <2>1 DEF Touched, Listed
    <3>2. \A t \in Session : Touched(t)' => told'[t] # {} /\ starting'.session # t
      BY <1>1, <1>2, <3>1, ControlParts DEF LiveHolds, Grows
    <3>3. ASSUME NEW t \in Session
          PROVE  IF Listed(t)' THEN LiveOf(t, live[t].id)' ELSE live'[t] = NoLive
      BY <1>3, <1>5, <2>1, ControlParts, ListedLasts DEF LiveHolds, Listed
    <3>4. starting' # NoStart =>
            /\ starting'.session \in Session /\ told'[starting'.session] # {}
            /\ LiveOf(starting.session, starting.id)'
      BY <1>1, <1>2, <1>3, ControlParts, StartingLasts
    <3>5. fed'[w] > 0
      BY <1>1, ControlParts DEF TellChunk, FeedTypeOK
    <3>. QED  BY <1>1, <1>2, <1>5, <3>2, <3>3, <3>4, <3>5, ControlParts
              DEF LiveHolds, Grows, LiveTypes
  <2>4. OutstandingIsExact'
    <3>. SUFFICES ASSUME NEW t \in Session, Listed(t)'
                  PROVE  Exact(t)'
      BY ExactIs DEF OutstandingIsExact, Exact, Pushed, Chunks, OneIf
    <3>1. /\ Chunks(liveQ, t)' = Chunks(liveQ, t)
          /\ OneIf(InProgress(t))' = OneIf(InProgress(t))
      BY <1>1 DEF Chunks, OneIf, InProgress, At
    <3>2. Exact(t)
      BY <2>1, ControlParts, ExactIs DEF Listed
    <3>3. CASE t = s
      <4>1. Pushed(t)' = Pushed(t) \cup {w} /\ w \notin Pushed(t)
        BY <1>1, <1>5, <3>3 DEF Pushed
      <4>2. Cardinality(Pushed(t)') = Cardinality(Pushed(t)) + 1
        BY <4>1, ControlParts, PushedFinite, FS_AddElement
      <4>3. Cardinality(Chunks(liveQ, t)) \in Nat /\ Cardinality(Pushed(t)) \in Nat
            /\ OneIf(InProgress(t)) \in Nat
        BY ControlParts, PushedFinite, ChunksFinite DEF LiveTypes, OneIf
      <4>. QED  BY <2>1, <3>1, <3>2, <3>3, <4>2, <4>3 DEF Exact
    <3>4. CASE t # s
      <4>1. Pushed(t)' = Pushed(t)
        BY <1>5, <3>4 DEF Pushed
      <4>. QED  BY <2>1, <3>1, <3>2, <3>4, <4>1 DEF Exact
    <3>. QED  BY <3>3, <3>4
  <2>. QED  BY <1>1, <1>2, <1>3, <2>2, <2>3, <2>4, ControlParts, KeepJobs DEF Core
<1>. QED  BY <1>4, <1>5 DEF OnChunk

LEMMA PushKeeps ==
  ASSUME Control, NEW w \in Source, PushChunk(w)
  PROVE  Core'
<1>0. PICK s : s = SessionOf(w)
  OBVIOUS
<1>x. PICK x : x = ChunkItem(w, fed[w] - 1)
  OBVIOUS
<1>1. /\ UNCHANGED <<feed, store, live, starting, jobQ, wk, request>> /\ w \in pushing
      /\ pushing' = pushing \ {w} /\ liveQ' = Append(liveQ, x)
  BY <1>x DEF PushChunk
<1>2. Grows /\ s \in Session
  BY <1>0, <1>1, ControlParts, FeedGrows DEF Source, SessionOf
<1>3. TablesHold' /\ Lasting
  BY <1>1, <1>2, ControlParts, TablesGrow, Lasts
<1>4. x \in Item /\ x.session = s /\ ~x.stop
  BY <1>0, <1>1, <1>x, ControlParts
     DEF ChunkItem, Item, LiveHolds, FeedTypeOK, Source, SessionOf, KindOf
<1>5. WorkHolds'
  BY <1>1, <1>3, ControlParts, KeepWork DEF store
<1>6. LiveHolds'
  <2>1. \A t \in Session : Touched(t)' => Touched(t)
    <3>1. \A n \in DOMAIN liveQ' : liveQ'[n].session = s
              \/ (n \in DOMAIN liveQ /\ liveQ'[n] = liveQ[n])
      BY <1>1, <1>4, ControlParts, AppendHas DEF LiveTypes
    <3>2. Touched(s)
      BY <1>0, <1>1 DEF Touched
    <3>. QED  BY <1>1, <3>1, <3>2 DEF Touched, Listed
  <2>2. \A t \in Session : Touched(t)' => told'[t] # {} /\ starting'.session # t
    BY <1>1, <1>2, <2>1, ControlParts DEF LiveHolds, Grows
  <2>3. ASSUME NEW t \in Session
        PROVE  IF Listed(t)' THEN LiveOf(t, live[t].id)' ELSE live'[t] = NoLive
    BY <1>1, <1>3, ControlParts, ListedLasts DEF LiveHolds, Listed
  <2>4. starting' # NoStart =>
          /\ starting'.session \in Session /\ told'[starting'.session] # {}
          /\ LiveOf(starting.session, starting.id)'
    BY <1>1, <1>2, <1>3, ControlParts, StartingLasts
  <2>. QED  BY <1>1, <1>2, <2>2, <2>3, <2>4, ControlParts DEF LiveHolds, Grows, LiveTypes
<1>7. OutstandingIsExact'
  <2>. SUFFICES ASSUME NEW t \in Session, Listed(t)'
                PROVE  Exact(t)'
    BY ExactIs DEF OutstandingIsExact, Exact, Pushed, Chunks, OneIf
  <2>1. OneIf(InProgress(t))' = OneIf(InProgress(t)) /\ live'[t] = live[t]
    BY <1>1 DEF OneIf, InProgress, At
  <2>2. Exact(t)
    BY <1>1, ControlParts, ExactIs DEF Listed
  <2>3. /\ Chunks(liveQ, t)' = Chunks(Append(liveQ, x), t)
        /\ Cardinality(Chunks(Append(liveQ, x), t))
             = Cardinality(Chunks(liveQ, t)) + OneIf(x.session = t /\ ~x.stop)
    <3>1. Chunks(liveQ, t)' = Chunks(Append(liveQ, x), t)
      BY <1>1 DEF Chunks
    <3>. QED  BY <1>4, <3>1, ControlParts, AppendCounts DEF LiveTypes
  <2>4. /\ Cardinality(Chunks(liveQ, t)) \in Nat /\ Cardinality(Pushed(t)) \in Nat
        /\ OneIf(InProgress(t)) \in Nat /\ IsFiniteSet(Pushed(t))
    BY ControlParts, PushedFinite, ChunksFinite DEF LiveTypes, OneIf
  <2>5. CASE t = s
    <3>1. Pushed(t)' = Pushed(t) \ {w} /\ w \in Pushed(t)
      BY <1>0, <1>1, <2>5 DEF Pushed
    <3>2. Cardinality(Pushed(t)') = Cardinality(Pushed(t)) - 1
      BY <2>4, <3>1, FS_RemoveElement
    <3>3. OneIf(x.session = t /\ ~x.stop) = 1
      BY <1>4, <2>5 DEF OneIf
    <3>. QED  BY <2>1, <2>2, <2>3, <2>4, <3>2, <3>3 DEF Exact
  <2>6. CASE t # s
    <3>1. Pushed(t)' = Pushed(t)
      BY <1>0, <1>1, <2>6 DEF Pushed
    <3>2. OneIf(x.session = t /\ ~x.stop) = 0
      BY <1>4, <2>6 DEF OneIf
    <3>. QED  BY <2>1, <2>2, <2>3, <2>4, <3>1, <3>2 DEF Exact
  <2>. QED  BY <2>5, <2>6
<1>. QED  BY <1>1, <1>2, <1>3, <1>5, <1>6, <1>7, ControlParts, KeepJobs DEF Core

LEMMA RequestKeeps ==
  ASSUME Control, NEW r \in Request, RequestStep(r) \/ \E s \in Session : CheckRequest(r, s)
  PROVE  Core'
<1>1. UNCHANGED <<feed, live, starting, pushing, liveQ, wk>>
  BY DEF RequestStep, CreateRequested, PushRequested, CheckRequest, memory
<1>2. Grows /\ \A t \in Session : status'[t] = status[t]
  BY <1>1, ControlParts, FeedGrows DEF feed
<1>3. ASSUME NEW s \in Session, CheckRequest(r, s)
      PROVE  Core'
  <2>1. /\ UNCHANGED <<store, jobQ>> /\ status[s] = "finished"
        /\ request' = [request EXCEPT ![r].pc = "checked", ![r].session = s]
    BY <1>3 DEF CheckRequest, memory
  <2>2. TablesHold' /\ Lasting
    BY <1>2, <2>1, ControlParts, TablesGrow, Lasts
  <2>3. LiveHolds' /\ WorkHolds' /\ OutstandingIsExact'
    BY <1>1, <1>2, <2>1, <2>2, KeepMemory DEF store
  <2>4. JobsHold'
    <3>1. /\ request'[r].pc = "checked" /\ request'[r].session = s
          /\ \A q \in Request \ {r} : request'[q] = request[q]
      BY <2>1, ControlParts DEF JobTypes
    <3>2. \A n \in DOMAIN jobQ' : OnDemand(jobQ[n])'
      BY <2>1, <2>2, ControlParts DEF JobsHold, JobTypes, Lasting
    <3>3. ASSUME NEW q \in Request
          PROVE  /\ request'[q].pc = "checked" =>
                      request'[q].session \in Session /\ status'[request'[q].session] = "finished"
                 /\ request'[q].pc = "created" => request'[q].id \in Id /\ OnDemand(request[q].id)'
      <4>1. CASE q = r
        BY <1>2, <2>1, <3>1, <4>1
      <4>2. CASE q # r
        BY <1>2, <2>2, <3>1, <4>2, ControlParts DEF JobsHold, Lasting
      <4>. QED  BY <4>1, <4>2
    <3>. QED  BY <3>2, <3>3 DEF JobsHold
  <2>. QED  BY <2>2, <2>3, <2>4 DEF Core
<1>4. CASE CreateRequested(r)
  <2>1. PICK i \in Id : /\ CreateTranscript(i, request[r].session, "on_demand", "pending", "queued")
                        /\ request' = [request EXCEPT ![r].pc = "created", ![r].id = i]
    BY <1>4 DEF CreateRequested
  <2>2. request[r].pc = "checked" /\ UNCHANGED jobQ
    BY <1>4 DEF CreateRequested, memory
  <2>3. request[r].session \in Session /\ status[request[r].session] = "finished"
    BY <2>2, ControlParts DEF JobsHold
  <2>4. /\ OnlyRow(i) /\ ~Exists(i)
        /\ transcript'[i] = [session |-> request[r].session, mode |-> "on_demand",
                             state |-> "pending", final |-> FALSE]
    <3>1. ~Exists(i)
      BY <2>1 DEF CreateTranscript, IsNext, Exists, Id
    <3>. QED  BY <2>1, <3>1, ControlParts, RowOps
  <2>5. TablesHold'
    BY <1>2, <2>1, <2>3, ControlParts, TablesCreate DEF Mode
  <2>6. Lasting
    BY <2>4, ControlParts, Lasts
  <2>7. wk.pc = "job" => wk.id \in Id /\ wk.id # i
    BY <2>4, ControlParts DEF WorkHolds, LiveOf, OnDemand, IsOpen, TablesHold, Open
  <2>8. LiveHolds' /\ WorkHolds' /\ OutstandingIsExact'
    BY <1>1, <1>2, <2>4, <2>5, <2>6, <2>7, KeepMemory DEF OnlyRow
  <2>9. JobsHold'
    <3>1. /\ request'[r].pc = "created" /\ request'[r].id = i
          /\ \A q \in Request \ {r} : request'[q] = request[q]
      BY <2>1, ControlParts DEF JobTypes
    <3>2. \A n \in DOMAIN jobQ' : OnDemand(jobQ[n])'
      BY <2>2, <2>6, ControlParts DEF JobsHold, JobTypes, Lasting
    <3>3. OnDemand(i)'
      BY <2>4 DEF OnDemand, Exists
    <3>4. ASSUME NEW q \in Request
          PROVE  /\ request'[q].pc = "checked" =>
                      request'[q].session \in Session /\ status'[request'[q].session] = "finished"
                 /\ request'[q].pc = "created" => request'[q].id \in Id /\ OnDemand(request[q].id)'
      <4>1. CASE q = r
        BY <3>1, <3>3, <4>1 DEF OnDemand, Exists
      <4>2. CASE q # r
        BY <1>2, <2>6, <3>1, <4>2, ControlParts DEF JobsHold, Lasting
      <4>. QED  BY <4>1, <4>2
    <3>. QED  BY <3>2, <3>4 DEF JobsHold
  <2>. QED  BY <2>5, <2>8, <2>9 DEF Core
<1>5. CASE PushRequested(r)
  <2>1. /\ UNCHANGED store /\ jobQ' = Append(jobQ, request[r].id) /\ request[r].pc = "created"
        /\ request' = [request EXCEPT ![r].pc = "done"]
    BY <1>5 DEF PushRequested
  <2>2. TablesHold' /\ Lasting
    BY <1>2, <2>1, ControlParts, TablesGrow, Lasts
  <2>3. LiveHolds' /\ WorkHolds' /\ OutstandingIsExact'
    BY <1>1, <1>2, <2>1, <2>2, KeepMemory DEF store
  <2>4. request[r].id \in Id /\ OnDemand(request[r].id)
    BY <2>1, ControlParts DEF JobsHold
  <2>5. JobsHold'
    <3>1. \A n \in DOMAIN jobQ' : OnDemand(jobQ[n])'
      <4>1. \A n \in DOMAIN jobQ' : jobQ'[n] \in Id /\ OnDemand(jobQ'[n])
        BY <2>1, <2>4, ControlParts, AppendHas DEF JobsHold, JobTypes
      <4>. QED  BY <2>2, <4>1 DEF Lasting, OnDemand, Exists
    <3>2. \A q \in Request : /\ request'[q].pc = IF q = r THEN "done" ELSE request[q].pc
                             /\ request'[q].session = request[q].session
                             /\ request'[q].id = request[q].id
      BY <2>1, ControlParts DEF JobTypes
    <3>3. ASSUME NEW q \in Request
          PROVE  /\ request'[q].pc = "checked" =>
                      request'[q].session \in Session /\ status'[request'[q].session] = "finished"
                 /\ request'[q].pc = "created" => request'[q].id \in Id /\ OnDemand(request[q].id)'
      <4>1. CASE q = r
        BY <3>2, <4>1
      <4>2. CASE q # r
        BY <1>2, <2>2, <3>2, <4>2, ControlParts DEF JobsHold, Lasting, OnDemand, Exists
      <4>. QED  BY <4>1, <4>2
    <3>. QED  BY <3>1, <3>3 DEF JobsHold
  <2>. QED  BY <2>2, <2>3, <2>5 DEF Core
<1>. QED  BY <1>3, <1>4, <1>5 DEF RequestStep

\* The worker takes an item.
LEMMA HeadHas ==
  ASSUME NEW S, NEW q \in Seq(S), q # <<>>
  PROVE  /\ Head(q) \in S /\ Tail(q) \in Seq(S) /\ 1 \in DOMAIN q /\ q[1] = Head(q)
         /\ \A n \in DOMAIN Tail(q) : n + 1 \in DOMAIN q /\ Tail(q)[n] = q[n + 1]
OBVIOUS

LEMMA TakeLiveKeeps ==
  ASSUME Control, TakeChunk \/ TakeStop
  PROVE  Core'
<1>0. PICK x : x = Head(liveQ)
  OBVIOUS
<1>1. /\ UNCHANGED <<feed, store, live, starting, pushing, jobQ, request>>
      /\ liveQ' = Tail(liveQ) /\ liveQ # <<>> /\ wk.pc = "idle"
  BY DEF TakeChunk, TakeStop, At
<1>2. Grows
  BY <1>1, ControlParts, FeedGrows
<1>3. TablesHold' /\ Lasting
  BY <1>1, <1>2, ControlParts, TablesGrow, Lasts
<1>4. /\ liveQ \in Seq(Item) /\ x \in Item /\ x.session \in Session
      /\ 1 \in DOMAIN liveQ /\ liveQ[1] = x
      /\ \A n \in DOMAIN liveQ' : n + 1 \in DOMAIN liveQ /\ liveQ'[n] = liveQ[n + 1]
  <2>1. liveQ \in Seq(Item)
    BY ControlParts DEF LiveTypes
  <2>2. x \in Item
    BY <1>0, <1>1, <2>1, HeadHas
  <2>3. x.session \in Session
    BY <2>2 DEF Item
  <2>. QED  BY <1>0, <1>1, <2>1, <2>2, <2>3, HeadHas
<1>5. wk = Idle /\ wk.session = NoSession /\ wk.pc = "idle"
  BY <1>1, ControlParts DEF WorkHolds, Idle
<1>6. \/ /\ TakeChunk /\ ~x.stop /\ Listed(x.session) /\ wk'.pc = "transcribe"
         /\ wk'.session = x.session /\ wk'.id = live[x.session].id
      \/ TakeChunk /\ ~x.stop /\ ~Listed(x.session) /\ wk' = wk
      \/ /\ TakeStop /\ x.stop /\ wk'.pc = "finalise" /\ wk'.session = x.session
         /\ wk'.verdict = "completed"
  BY <1>0 DEF TakeChunk, TakeStop, Idle
<1>7. WorkHolds'
  <2>1. CASE wk' = wk
    BY <1>1, <1>3, <1>5, <2>1, ControlParts, WorkerAssumption, KeepWork DEF store
  <2>2. CASE wk'.pc = "finalise" /\ wk'.session = x.session /\ wk'.verdict = "completed"
    BY <1>4, <2>2, WorkerAssumption DEF WorkHolds, Chunking, Closing
  <2>3. CASE /\ Listed(x.session) /\ wk'.pc = "transcribe"
             /\ wk'.session = x.session /\ wk'.id = live[x.session].id
    <3>1. PICK i \in Id : LiveOf(x.session, i) /\ live[x.session].id = i
      BY <1>4, <2>3, ControlParts DEF LiveHolds, LiveOf
    <3>2. LiveOf(x.session, i)' /\ IsOpen(i)'
      BY <1>3, <3>1 DEF Lasting, LiveOf, IsOpen
    <3>3. wk'.id = i /\ Listed(x.session)' /\ live'[x.session].id = i
      BY <1>1, <2>3, <3>1 DEF Listed
    <3>4. wk'.pc = "transcribe" /\ wk'.session = x.session /\ x.session # NoSession
      BY <1>4, <2>3, WorkerAssumption
    <3>. QED  BY <3>1, <3>2, <3>3, <3>4 DEF WorkHolds, Chunking, Closing, LiveOf, IsOpen, Listed
  <2>. QED  BY <1>6, <2>1, <2>2, <2>3
<1>8. LiveHolds'
  <2>1. \A t \in Session : Touched(t)' => Touched(t)
    <3>1. Touched(x.session) /\ wk'.session \in {NoSession, x.session}
      BY <1>4, <1>5, <1>6 DEF Touched
    <3>. QED  BY <1>1, <1>4, <3>1, WorkerAssumption DEF Touched, Listed
  <2>2. \A t \in Session : Touched(t)' => told'[t] # {} /\ starting'.session # t
    BY <1>1, <1>2, <2>1, ControlParts DEF LiveHolds, Grows
  <2>3. ASSUME NEW t \in Session
        PROVE  IF Listed(t)' THEN LiveOf(t, live[t].id)' ELSE live'[t] = NoLive
    BY <1>1, <1>3, ControlParts, ListedLasts DEF LiveHolds, Listed
  <2>4. starting' # NoStart =>
          /\ starting'.session \in Session /\ told'[starting'.session] # {}
          /\ LiveOf(starting.session, starting.id)'
    BY <1>1, <1>2, <1>3, ControlParts, StartingLasts
  <2>. QED  BY <1>1, <1>2, <2>2, <2>3, <2>4, ControlParts DEF LiveHolds, Grows, LiveTypes
<1>9. OutstandingIsExact'
  <2>. SUFFICES ASSUME NEW t \in Session, Listed(t)'
                PROVE  Exact(t)'
    BY ExactIs DEF OutstandingIsExact, Exact, Pushed, Chunks, OneIf
  <2>1. Pushed(t)' = Pushed(t) /\ live'[t] = live[t] /\ Listed(t)
    BY <1>1 DEF Pushed, Listed
  <2>2. Exact(t) /\ OneIf(InProgress(t)) = 0
    BY <1>5, <2>1, ControlParts, ExactIs DEF InProgress, At, OneIf
  <2>3. Cardinality(Chunks(liveQ, t))
          = Cardinality(Chunks(Tail(liveQ), t)) + OneIf(x.session = t /\ ~x.stop)
    BY <1>0, <1>1, <1>4, TailCounts
  <2>4. Chunks(liveQ, t)' = Chunks(Tail(liveQ), t)
    BY <1>1 DEF Chunks
  <2>5. OneIf(InProgress(t))' = OneIf(x.session = t /\ ~x.stop)
    BY <1>4, <1>5, <1>6, <2>1 DEF InProgress, At, OneIf
  <2>6. /\ Cardinality(Chunks(Tail(liveQ), t)) \in Nat /\ Cardinality(Pushed(t)) \in Nat
        /\ OneIf(x.session = t /\ ~x.stop) \in Nat
    BY <1>1, <1>4, ControlParts, HeadHas, PushedFinite, ChunksFinite DEF OneIf
  <2>7. live'[t].outstanding
          = Cardinality(Pushed(t)) + (Cardinality(Chunks(Tail(liveQ), t))
              + OneIf(x.session = t /\ ~x.stop))
    BY <2>1, <2>2, <2>3, <2>6 DEF Exact
  <2>. QED  BY <2>1, <2>4, <2>5, <2>6, <2>7 DEF Exact
<1>. QED  BY <1>1, <1>2, <1>3, <1>7, <1>8, <1>9, ControlParts, KeepJobs DEF Core

LEMMA StepIs ==
  ASSUME NEW i \in Id, NEW o, Step(i, o)
  PROVE  /\ wk'.id = i /\ wk'.session = NoSession
         /\ wk'.pc \in {"transcribe", "settle"} \/ (wk'.pc = "emit" /\ wk'.next = "settle")
<1>0. i \in 0..Transcripts /\ "settle" \in WorkerPc /\ "idle" \in WorkerPc /\ "completed" \in Ended
  BY WorkerAssumption DEF Id, WorkerPc, Ended
<1>1. CASE FlushThenSettle(Idle, i)
  <2>1. PICK out : wk' = EmitThen([Idle EXCEPT !.id = i], out, "settle")
    BY <1>1 DEF FlushThenSettle
  <2>2. PICK w : w = [Idle EXCEPT !.id = i]
    OBVIOUS
  <2>3. Shaped(w)
    BY <1>0, <2>2, ShapedIs
  <2>4. w.id = i /\ w.session = NoSession
    BY <2>2 DEF Idle
  <2>5. PICK e : e = EmitThen(w, out, "settle")
    OBVIOUS
  <2>6. e.id = w.id /\ e.session = w.session /\ e.pc \in {"settle", "emit"} /\ e.next = "settle"
    BY <1>0, <2>3, <2>5, EmitThenIs
  <2>. QED  BY <2>1, <2>2, <2>4, <2>5, <2>6
<1>2. CASE wk' = [Idle EXCEPT !.pc = "transcribe", !.id = i,
                              !.kind = ChunkAt(o.inv, o.idx)[1],
                              !.chunk = ChunkAt(o.inv, o.idx)[2]]
  BY <1>2 DEF Idle
<1>. QED  BY <1>1, <1>2 DEF Step

LEMMA TakeStepKeeps ==
  ASSUME Control, TakeStep
  PROVE  Core'
<1>0. PICK i : i = Head(jobQ)
  OBVIOUS
<1>1. /\ UNCHANGED <<feed, live, starting, pushing, liveQ, request>>
      /\ jobQ' = Tail(jobQ) /\ jobQ # <<>> /\ wk.pc = "idle"
  BY DEF TakeStep, At
<1>2. Grows
  BY <1>1, ControlParts, FeedGrows
<1>3. /\ i \in Id /\ OnDemand(i) /\ wk.session = NoSession /\ wk.pc # "job"
      /\ \A n \in DOMAIN jobQ' : jobQ'[n] \in Id /\ OnDemand(jobQ'[n])
  <2>1. /\ jobQ \in Seq(Id) /\ i \in Id /\ 1 \in DOMAIN jobQ /\ jobQ[1] = i
        /\ \A n \in DOMAIN jobQ' : n + 1 \in DOMAIN jobQ /\ jobQ'[n] = jobQ[n + 1]
    BY <1>0, <1>1, ControlParts, HeadHas DEF JobTypes
  <2>2. wk = Idle
    BY <1>1, ControlParts DEF WorkHolds
  <2>. QED  BY <1>1, <2>1, <2>2, ControlParts DEF JobsHold, Idle
<1>4. /\ UNCHANGED <<store, wk>> \/ (UNCHANGED store /\ Step(i, od[i]))
         \/ \E o : /\ Step(i, o)
                   /\ UpdateJob(i, [state |-> "running", progress |-> 0, total |-> Total(o.inv)])
      /\ UNCHANGED wk \/ job[i].state \notin Ended
  <2>. DEFINE inv == [k \in Kind |-> onDisk[<<transcript[i].session, k>>]]
              fresh == [listed |-> TRUE, idx |-> 0, inv |-> inv]
  <2>1. \/ UNCHANGED <<store, wk>>
        \/ job[i].state \notin Ended /\ UNCHANGED store /\ Step(i, od[i])
        \/ /\ job[i].state \notin Ended /\ Step(i, fresh)
           /\ UpdateJob(i, [state |-> "running", progress |-> 0, total |-> Total(inv)])
    BY <1>0 DEF TakeStep
  <2>2. fresh.inv = inv
    OBVIOUS
  <2>. HIDE DEF inv, fresh
  <2>. QED  BY <2>1, <2>2
<1>5. UNCHANGED wk \/ IsOpen(i)
  BY <1>3, <1>4, ControlParts DEF TablesHold, TableTypes, JobState, Ended, Open, IsOpen, OnDemand
<1>6. TablesHold' /\ Lasting /\ (IsOpen(i) => IsOpen(i)')
  <2>1. CASE UNCHANGED store
    BY <1>2, <1>3, <2>1, ControlParts, TablesGrow, Lasts DEF Lasting
  <2>2. ASSUME NEW o,
               UpdateJob(i, [state |-> "running", progress |-> 0, total |-> Total(o.inv)])
        PROVE  TablesHold' /\ Lasting /\ IsOpen(i)'
    <3>1. /\ OnlyRow(i) /\ UNCHANGED transcript
          /\ job'[i] = [state |-> "running", progress |-> 0, total |-> Total(o.inv)]
      BY <1>3, <2>2, ControlParts, RowOps
    <3>2. job'[i].state = "running" /\ IsOpen(i)' /\ Identified(i) /\ Exists(i) /\ Exists(i)'
      BY <1>3, <3>1 DEF IsOpen, Open, Identified, OnDemand, Exists
    <3>. QED  BY <1>1, <1>3, <3>1, <3>2, ControlParts, TablesChange, Lasts
  <2>. QED  BY <1>4, <2>1, <2>2
<1>7. UNCHANGED wk
      \/ /\ wk'.id = i /\ wk'.session = NoSession
         /\ wk'.pc \in {"transcribe", "settle"} \/ (wk'.pc = "emit" /\ wk'.next = "settle")
  BY <1>3, <1>4, StepIs
<1>8. LiveHolds'
  BY <1>1, <1>2, <1>3, <1>6, <1>7, ControlParts, KeepLive
<1>9. WorkHolds'
  <2>1. CASE UNCHANGED wk
    BY <1>1, <1>3, <1>6, <2>1, ControlParts, KeepWork
  <2>2. CASE ~UNCHANGED wk
    <3>1. IsOpen(i)' /\ OnDemand(i)'
      BY <1>3, <1>5, <1>6, <2>2 DEF Lasting
    <3>. QED  BY <1>3, <1>7, <2>2, <3>1 DEF WorkHolds, Chunking, Closing, IsOpen, OnDemand, Exists
  <2>. QED  BY <2>1, <2>2
<1>10. OutstandingIsExact'
  <2>1. \A t \in Session : ~InProgress(t)' /\ ~InProgress(t)
    BY <1>1, <1>3, <1>7, WorkerAssumption DEF InProgress, At
  <2>. QED  BY <1>1, <2>1, ControlParts, KeepCount
<1>11. JobsHold'
  <2>1. \A n \in DOMAIN jobQ' : OnDemand(jobQ[n])'
    BY <1>3, <1>6 DEF Lasting, OnDemand, Exists
  <2>2. \A r \in Request :
         /\ request'[r].pc = "checked" =>
              request'[r].session \in Session /\ status'[request'[r].session] = "finished"
         /\ request'[r].pc = "created" => request'[r].id \in Id /\ OnDemand(request[r].id)'
    BY <1>1, <1>2, <1>6, ControlParts DEF JobsHold, Lasting, Grows
  <2>. QED  BY <2>1, <2>2 DEF JobsHold
<1>. QED  BY <1>6, <1>8, <1>9, <1>10, <1>11 DEF Core

\* It transcribes and emits: only what it is at moves.
LEMMA SpeakKeeps ==
  ASSUME Control, Transcribe \/ Retry \/ Emit
  PROVE  Core'
<1>1. UNCHANGED <<feed, live, starting, pushing, liveQ, jobQ, request>>
  BY DEF Transcribe, Retry, Emit
<1>2. Grows
  BY <1>1, ControlParts, FeedGrows
<1>3. /\ wk.id \in Id /\ IsOpen(wk.id) /\ wk.session \in Session \cup {NoSession}
      /\ IF wk.session = NoSession THEN OnDemand(wk.id) ELSE LiveOf(wk.session, wk.id)
      /\ wk.next \in WorkerPc
  BY ControlParts DEF Transcribe, Retry, Emit, At, WorkHolds, Shaped
<1>4. UNCHANGED <<transcript, job>>
  BY <1>3, ControlParts, RowOps DEF Transcribe, Retry, Emit, store
<1>5. TablesHold' /\ Lasting
  <2>1. TablesHold'
    BY <1>1, <1>4, ControlParts DEF TablesHold, feed, Exists, OnDemand
  <2>. QED  BY <1>4, <2>1 DEF Lasting, OnDemand, LiveOf, IsOpen, Exists
<1>6. \E next \in WorkerPc :
        /\ wk'.id = wk.id /\ wk'.session = wk.session
        /\ wk'.pc = next \/ (wk'.pc = "emit" /\ wk'.next = next)
        /\ \/ /\ wk.pc \in {"transcribe", "retry"}
              /\ next \in {"retry", IF wk.session # NoSession THEN "account" ELSE "advance"}
           \/ wk.pc = "emit" /\ next = wk.next
  <2>1. ASSUME NEW out, NEW next \in WorkerPc, wk' = EmitThen(wk, out, next)
        PROVE  /\ wk'.id = wk.id /\ wk'.session = wk.session
               /\ wk'.pc = next \/ (wk'.pc = "emit" /\ wk'.next = next)
    <3>1. Shaped(wk)
      BY ControlParts
    <3>2. PICK e : e = EmitThen(wk, out, next)
      OBVIOUS
    <3>3. e.id = wk.id /\ e.session = wk.session /\ e.pc \in {next, "emit"} /\ e.next = next
      BY <3>1, <3>2, EmitThenIs
    <3>. QED  BY <2>1, <3>2, <3>3
  <2>2. CASE Transcribe \/ Retry
    <3>1. wk.pc \in {"transcribe", "retry"}
      BY <2>2, TranscribeIs
    <3>2. AfterChunk = IF wk.session # NoSession THEN "account" ELSE "advance"
      BY DEF AfterChunk, IsLive
    <3>3. PICK out : \E next \in {"retry", AfterChunk} : wk' = EmitThen(wk, out, next)
      BY <2>2, TranscribeIs
    <3>4. PICK next \in {"retry", AfterChunk} : wk' = EmitThen(wk, out, next)
      BY <3>3
    <3>5. next \in WorkerPc
      BY <3>2 DEF WorkerPc
    <3>. QED  BY <2>1, <3>1, <3>2, <3>4, <3>5
  <2>3. CASE Emit
    <3>1. wk.pc = "emit" /\ wk' = EmitThen(wk, Tail(wk.out), wk.next)
      BY <2>3 DEF Emit, At
    <3>. QED  BY <1>3, <2>1, <3>1
  <2>. QED  BY <2>2, <2>3
<1>7. LiveHolds'
  BY <1>1, <1>2, <1>5, <1>6, ControlParts, KeepLive
<1>8. WorkHolds'
  <2>1. PICK i \in Id, s \in Session \cup {NoSession} : i = wk.id /\ s = wk.session
    BY <1>3
  <2>2. IsOpen(i)' /\ IF s = NoSession THEN OnDemand(i)' ELSE LiveOf(s, i)'
    BY <1>3, <1>5, <2>1 DEF Lasting
  <2>3. WorkHolds /\ wk'.id = i /\ wk'.session = s
    BY <1>6, <2>1, ControlParts
  <2>4. wk.pc = "emit" => wk.next \in {"retry", "account", "advance", "settle"}
    BY <2>3 DEF WorkHolds
  <2>5. wk'.pc \in {"retry", "account", "advance", "settle"}
        \/ (wk'.pc = "emit" /\ wk'.next \in {"retry", "account", "advance", "settle"})
    BY <1>6, <2>4
  <2>6. wk'.pc = "account" \/ (wk'.pc = "emit" /\ wk'.next = "account") => s # NoSession
    BY <1>6, <2>1, <2>3 DEF WorkHolds
  <2>7. wk'.pc = "advance" \/ (wk'.pc = "emit" /\ wk'.next = "advance") => s = NoSession
    BY <1>6, <2>1, <2>3 DEF WorkHolds
  <2>8. Chunking' \/ wk'.pc = "report" => Chunking
    BY <1>6, <2>4 DEF Chunking
  <2>9. Closing' => Closing
    BY <1>6, <2>4 DEF Closing
  <2>10. s # NoSession /\ (Chunking' \/ wk'.pc = "report") => Listed(s) /\ live'[s].id = i
    BY <1>1, <2>1, <2>3, <2>8 DEF WorkHolds
  <2>11. s # NoSession /\ Closing' => ~Listed(s)
    BY <2>1, <2>3, <2>9 DEF WorkHolds
  <2>12. Listed(s)' <=> Listed(s)
    BY <1>1 DEF Listed
  <2>. QED  BY <2>2, <2>3, <2>5, <2>6, <2>7, <2>10, <2>11, <2>12
            DEF WorkHolds, IsOpen, OnDemand, LiveOf, Exists, Listed
<1>9. OutstandingIsExact'
  <2>1. \A t \in Session : InProgress(t)' <=> InProgress(t)
    BY <1>6, WorkerAssumption, ControlParts DEF InProgress, At, WorkHolds
  <2>. QED  BY <1>1, <2>1, ControlParts, KeepCount
<1>. QED  BY <1>1, <1>2, <1>5, <1>7, <1>8, <1>9, ControlParts, KeepJobs DEF Core

-----------------------------------------------------------------------------
(***************************************************************************)
(* What is live and what is counted when the worker is done with an item:  *)
(* sessions may leave live, and the count goes down with what is served.   *)
(***************************************************************************)
LEMMA LiveShrinks ==
  ASSUME LiveHolds, LiveTypes, Grows, UNCHANGED <<starting, pushing, liveQ>>,
         wk'.session \in {wk.session, NoSession},
         \A s \in Session : IF Listed(s)' THEN Listed(s) /\ live'[s].id = live[s].id
                                          ELSE live'[s] = NoLive,
         \A s \in Session : \A i \in Id :
           LiveOf(s, i) /\ ((Listed(s) /\ Listed(s)') \/ starting.session = s) => LiveOf(s, i)'
  PROVE  LiveHolds'
<1>1. \A s \in Session : Touched(s)' => Touched(s)
  <2>1. \A s \in Session : Listed(s)' => Listed(s)
    OBVIOUS
  <2>. QED  BY <2>1, WorkerAssumption DEF Touched
<1>2. \A s \in Session : Touched(s)' => told'[s] # {} /\ starting'.session # s
  BY <1>1 DEF LiveHolds, Grows
<1>3. ASSUME NEW s \in Session
      PROVE  IF Listed(s)' THEN LiveOf(s, live[s].id)' ELSE live'[s] = NoLive
  <2>1. ASSUME Listed(s)'
        PROVE  LiveOf(s, live[s].id)'
    <3>1. PICK i \in Id : LiveOf(s, i) /\ live[s].id = i /\ live'[s].id = i /\ Listed(s)
      BY <2>1 DEF LiveHolds, LiveOf
    <3>2. LiveOf(s, i)'
      BY <2>1, <3>1
    <3>. QED  BY <3>1, <3>2 DEF LiveOf, IsOpen
  <2>. QED  BY <2>1
<1>4. ASSUME starting # NoStart
      PROVE  /\ starting'.session \in Session /\ told'[starting'.session] # {}
             /\ LiveOf(starting.session, starting.id)'
  <2>1. PICK s \in Session, i \in Id : /\ s = starting.session /\ i = starting.id
                                       /\ told[s] # {} /\ LiveOf(s, i)
    BY <1>4 DEF LiveHolds, LiveOf
  <2>2. LiveOf(s, i)'
    BY <2>1
  <2>. QED  BY <2>1, <2>2 DEF Grows, LiveOf, IsOpen
<1>5. \A w \in pushing' : fed'[w] > 0
  BY DEF LiveHolds, LiveTypes, Grows
<1>. QED  BY <1>2, <1>3, <1>4, <1>5 DEF LiveHolds

LEMMA ServedCounts ==
  ASSUME OutstandingIsExact, LiveTypes, UNCHANGED <<pushing, liveQ>>,
         \A t \in Session : Listed(t)' =>
           /\ Listed(t)
           /\ live'[t].outstanding = live[t].outstanding - OneIf(InProgress(t))
                                       + OneIf(InProgress(t)')
  PROVE  OutstandingIsExact'
<1>. SUFFICES ASSUME NEW t \in Session, Listed(t)'
              PROVE  Exact(t)'
  BY ExactIs DEF OutstandingIsExact, Exact, Pushed, Chunks, OneIf
<1>1. Exact(t)
  BY ExactIs
<1>2. Pushed(t)' = Pushed(t) /\ Chunks(liveQ, t)' = Chunks(liveQ, t)
  BY DEF Pushed, Chunks
<1>3. /\ Cardinality(Pushed(t)) \in Nat /\ Cardinality(Chunks(liveQ, t)) \in Nat
      /\ OneIf(InProgress(t)) \in Nat /\ OneIf(InProgress(t)') \in Nat
  BY PushedFinite, ChunksFinite DEF LiveTypes, OneIf
<1>4. OneIf(InProgress(t))' = OneIf(InProgress(t)')
  BY DEF OneIf
<1>5. live'[t].outstanding = live[t].outstanding - OneIf(InProgress(t)) + OneIf(InProgress(t)')
  OBVIOUS
<1>6. live[t].outstanding
        = Cardinality(Pushed(t)) + Cardinality(Chunks(liveQ, t)) + OneIf(InProgress(t))
  BY <1>1 DEF Exact
<1>7. live'[t].outstanding
        = Cardinality(Pushed(t)) + Cardinality(Chunks(liveQ, t)) + OneIf(InProgress(t)')
  BY <1>3, <1>5, <1>6
<1>. QED  BY <1>2, <1>4, <1>7 DEF Exact

LEMMA RestHolds ==
  /\ wk' = Idle => WorkHolds'
  /\ \A s : s # NoSession /\ wk' = [Idle EXCEPT !.pc = "finalise", !.session = s] => WorkHolds'
<1>1. wk' = Idle => WorkHolds'
  BY DEF WorkHolds, Idle, Chunking, Closing
<1>2. ASSUME NEW s, s # NoSession, wk' = [Idle EXCEPT !.pc = "finalise", !.session = s]
      PROVE  WorkHolds'
  <2>1. /\ wk'.pc = "finalise" /\ wk'.session # NoSession /\ wk'.verdict = "completed"
        /\ wk'.next = "idle"
    BY <1>2 DEF Idle
  <2>. QED  BY <2>1 DEF WorkHolds, Chunking, Closing
<1>. QED  BY <1>1, <1>2

LEMMA RestIs ==
  /\ wk' = Idle => wk'.pc = "idle" /\ wk'.session = NoSession
  /\ \A s : wk' = [Idle EXCEPT !.pc = "finalise", !.session = s] =>
             wk'.pc = "finalise" /\ wk'.session = s
<1>1. wk' = Idle => wk'.pc = "idle" /\ wk'.session = NoSession
  BY DEF Idle
<1>2. ASSUME NEW s, wk' = [Idle EXCEPT !.pc = "finalise", !.session = s]
      PROVE  wk'.pc = "finalise" /\ wk'.session = s
  BY <1>2 DEF Idle
<1>. QED  BY <1>1, <1>2

\* A chunk that is counted is that of a session the worker lists.
LEMMA ChunkIsCounted ==
  ASSUME Control, wk.session # NoSession, Chunking
  PROVE  /\ wk.session \in Session /\ wk.id \in Id /\ LiveOf(wk.session, wk.id)
         /\ Listed(wk.session) /\ live[wk.session].id = wk.id
         /\ \A t \in Session : InProgress(t) <=> t = wk.session
<1>1. /\ wk.session \in Session /\ wk.pc \notin {"idle", "finalise"}
      /\ wk.pc = "emit" => wk.next \in {"retry", "account"}
  BY ControlParts DEF Shaped, Chunking
<1>2. LiveOf(wk.session, wk.id) /\ wk.id \in Id /\ Listed(wk.session)
      /\ live[wk.session].id = wk.id
  BY <1>1, ControlParts DEF WorkHolds
<1>. QED  BY <1>1, <1>2 DEF InProgress, Chunking, At

LEMMA AccountKeeps ==
  ASSUME Control, Account
  PROVE  Core'
<1>0. PICK i, s : i = wk.id /\ s = wk.session
  OBVIOUS
<1>1. /\ UNCHANGED <<feed, starting, pushing, liveQ, jobQ, request>> /\ wk.pc = "account"
      /\ SetJobState(i, "running") /\ live' = [live EXCEPT ![s].outstanding = @ - 1]
      /\ wk' = Idle \/ wk' = [Idle EXCEPT !.pc = "finalise", !.session = s]
  BY <1>0 DEF Account, At
<1>2. Grows
  BY <1>1, ControlParts, FeedGrows
<1>3. /\ s \in Session /\ i \in Id /\ s # NoSession /\ LiveOf(s, i)
      /\ \A t \in Session : InProgress(t) <=> t = s
  <2>1. wk.session # NoSession /\ Chunking
    BY <1>1, ControlParts DEF WorkHolds, Chunking
  <2>. QED  BY <1>0, <2>1, ChunkIsCounted
<1>4. OnlyRow(i) /\ job'[i].state = "running" /\ UNCHANGED transcript
  BY <1>1, <1>3, ControlParts, RowOps
<1>5. TablesHold' /\ Lasting
  <2>1. Exists(i) /\ Exists(i)' /\ Identified(i) /\ IsOpen(i)'
    BY <1>3, <1>4, ControlParts DEF TablesHold, LiveOf, IsOpen, Open, Exists, Identified
  <2>. QED  BY <1>1, <1>3, <1>4, <2>1, ControlParts, TablesChange, Lasts
<1>6. \A t \in Session : /\ live'[t].id = live[t].id /\ (Listed(t)' <=> Listed(t))
                         /\ t # s => live'[t] = live[t]
  BY <1>1, ControlParts DEF LiveTypes, Listed
<1>7. wk'.session \in {s, NoSession} /\ wk'.pc \in {"idle", "finalise"}
  BY <1>1, RestIs
<1>8. LiveHolds'
  <2>1. \A t \in Session : IF Listed(t)' THEN Listed(t) /\ live'[t].id = live[t].id
                                         ELSE live'[t] = NoLive
    BY <1>3, <1>6, ChunkIsCounted, ControlParts, <1>0, <1>1 DEF LiveHolds, Chunking
  <2>2. \A t \in Session : \A j \in Id : LiveOf(t, j) => LiveOf(t, j)'
    BY <1>5 DEF Lasting
  <2>. QED  BY <1>0, <1>1, <1>2, <1>7, <2>1, <2>2, ControlParts, LiveShrinks
<1>9. WorkHolds'
  BY <1>1, <1>3, RestHolds
<1>10. OutstandingIsExact'
  <2>1. \A t \in Session : ~InProgress(t)'
    BY <1>7 DEF InProgress, At
  <2>2. \A t \in Session : /\ OneIf(InProgress(t)') = 0
                           /\ OneIf(InProgress(t)) = IF t = s THEN 1 ELSE 0
    BY <1>3, <2>1 DEF OneIf
  <2>3. \A t \in Session : live'[t].outstanding
                             = live[t].outstanding - IF t = s THEN 1 ELSE 0
    BY <1>1, <1>3, ControlParts DEF LiveTypes
  <2>4. \A t \in Session : live'[t].outstanding = live[t].outstanding - OneIf(InProgress(t))
                                                    + OneIf(InProgress(t)')
    BY <2>2, <2>3, ControlParts DEF LiveTypes
  <2>. QED  BY <1>1, <1>6, <2>4, ControlParts, ServedCounts
<1>. QED  BY <1>1, <1>2, <1>5, <1>8, <1>9, <1>10, ControlParts, KeepJobs DEF Core

LEMMA ReportKeeps ==
  ASSUME Control, Report
  PROVE  Core'
<1>0. PICK i, s : i = wk.id /\ s = wk.session
  OBVIOUS
<1>1. /\ UNCHANGED <<feed, live, starting, pushing, liveQ, jobQ, request>> /\ wk.pc = "report"
      /\ SetState(i, "finalising", FALSE) /\ wk' = Idle
  BY <1>0 DEF Report, At
<1>2. Grows
  BY <1>1, ControlParts, FeedGrows
<1>3. i \in Id /\ s # NoSession /\ IsOpen(i) /\ job[i].state \notin {"absent", "completed"}
  BY <1>0, <1>1, ControlParts DEF WorkHolds, IsOpen, Open
<1>4. OnlyRow(i) /\ transcript'[i].state = "finalising" /\ Identified(i) /\ UNCHANGED job
  BY <1>1, <1>3, ControlParts, RowOps
<1>5. TablesHold' /\ Lasting
  <2>1. /\ Exists(i) /\ Exists(i)' /\ IsOpen(i)'
        /\ job[i].state = "queued" => transcript[i].mode = "on_demand"
    BY <1>3, <1>4, ControlParts DEF TablesHold, IsOpen, Exists
  <2>. QED  BY <1>1, <1>3, <1>4, <2>1, ControlParts, TablesChange, Lasts
<1>6. LiveHolds'
  BY <1>1, <1>2, <1>5, RestIs, ControlParts, KeepLive
<1>7. OutstandingIsExact'
  <2>1. \A t \in Session : ~InProgress(t) /\ ~InProgress(t)'
    BY <1>1, RestIs DEF InProgress, At
  <2>. QED  BY <1>1, <2>1, ControlParts, KeepCount
<1>. QED  BY <1>1, <1>2, <1>5, <1>6, <1>7, RestHolds, ControlParts, KeepJobs DEF Core

LEMMA AdvanceKeeps ==
  ASSUME Control, Advance
  PROVE  Core'
<1>0. PICK i, j : i = wk.id /\ j = [job[wk.id] EXCEPT !.progress = od[wk.id].idx + 1]
  OBVIOUS
<1>1. /\ UNCHANGED <<feed, live, starting, pushing, liveQ, request>> /\ wk.pc = "advance"
      /\ UpdateJob(i, j) /\ jobQ' = Append(jobQ, i) /\ wk' = Idle
  BY <1>0 DEF Advance, At
<1>2. Grows
  BY <1>1, ControlParts, FeedGrows
<1>3. i \in Id /\ wk.session = NoSession /\ OnDemand(i) /\ IsOpen(i)
  BY <1>0, <1>1, ControlParts DEF WorkHolds
<1>4. OnlyRow(i) /\ job'[i] = j /\ UNCHANGED transcript
  BY <1>1, <1>3, ControlParts, RowOps
<1>5. j.state = job[i].state
  BY <1>0, <1>3, ControlParts DEF TableTypes
<1>6. TablesHold' /\ Lasting
  <2>1. /\ Exists(i) /\ Exists(i)' /\ IsOpen(i)' /\ Identified(i)
        /\ job'[i].state \notin {"absent", "completed"} /\ transcript[i].mode = "on_demand"
    BY <1>3, <1>4, <1>5 DEF IsOpen, Open, OnDemand, Exists, Identified
  <2>. QED  BY <1>1, <1>3, <1>4, <2>1, ControlParts, TablesChange, Lasts
<1>7. LiveHolds'
  BY <1>1, <1>2, <1>6, RestIs, ControlParts, KeepLive
<1>8. OutstandingIsExact'
  <2>1. \A t \in Session : ~InProgress(t) /\ ~InProgress(t)'
    BY <1>1, RestIs DEF InProgress, At
  <2>. QED  BY <1>1, <2>1, ControlParts, KeepCount
<1>9. JobsHold'
  <2>1. \A n \in DOMAIN jobQ' : OnDemand(jobQ[n])'
    <3>1. \A n \in DOMAIN jobQ' : jobQ'[n] \in Id /\ OnDemand(jobQ'[n])
      BY <1>1, <1>3, ControlParts, AppendHas DEF JobsHold, JobTypes
    <3>. QED  BY <1>6, <3>1 DEF Lasting, OnDemand, Exists
  <2>2. \A r \in Request :
         /\ request'[r].pc = "checked" =>
              request'[r].session \in Session /\ status'[request'[r].session] = "finished"
         /\ request'[r].pc = "created" => request'[r].id \in Id /\ OnDemand(request[r].id)'
    BY <1>1, <1>2, <1>6, ControlParts DEF JobsHold, Lasting, Grows
  <2>. QED  BY <2>1, <2>2 DEF JobsHold
<1>. QED  BY <1>1, <1>6, <1>7, <1>8, <1>9, RestHolds DEF Core

LEMMA EngineFailsKeeps ==
  ASSUME Control, EngineFails
  PROVE  Core'
<1>0. PICK i, s : i = wk.id /\ s = wk.session
  OBVIOUS
<1>1. /\ UNCHANGED <<feed, store, starting, pushing, liveQ, jobQ, request>>
      /\ wk.pc = "transcribe" /\ wk' = [wk EXCEPT !.pc = "settle", !.verdict = "failed"]
      /\ IF s # NoSession THEN live' = [live EXCEPT ![s] = NoLive] ELSE UNCHANGED live
  BY <1>0 DEF EngineFails, At, IsLive, Unlist
<1>2. Grows
  BY <1>1, ControlParts, FeedGrows
<1>3. TablesHold' /\ Lasting
  BY <1>1, <1>2, ControlParts, TablesGrow, Lasts
<1>4. /\ wk'.pc = "settle" /\ wk'.id = i /\ wk'.session = s
      /\ i \in Id /\ IsOpen(i) /\ s \in Session \cup {NoSession}
      /\ IF s = NoSession THEN OnDemand(i) ELSE LiveOf(s, i)
  BY <1>0, <1>1, ControlParts DEF Shaped, WorkHolds
<1>5. /\ \A t \in Session : IF t = s THEN live'[t] = NoLive ELSE live'[t] = live[t]
      /\ \A t \in Session : Listed(t)' <=> Listed(t) /\ t # s
      /\ s # NoSession => Listed(s)
  <2>1. \A t \in Session : IF t = s THEN live'[t] = NoLive ELSE live'[t] = live[t]
    BY <1>1, <1>4, ControlParts, WorkerAssumption DEF LiveTypes
  <2>2. s # NoSession => Listed(s)
    BY <1>0, <1>1, ChunkIsCounted DEF Chunking
  <2>. QED  BY <2>1, <2>2 DEF Listed, NoLive
<1>6. LiveHolds'
  <2>1. \A t \in Session : IF Listed(t)' THEN Listed(t) /\ live'[t].id = live[t].id
                                         ELSE live'[t] = NoLive
    BY <1>5, ControlParts DEF LiveHolds
  <2>2. \A t \in Session : \A j \in Id : LiveOf(t, j) => LiveOf(t, j)'
    BY <1>3 DEF Lasting
  <2>. QED  BY <1>0, <1>1, <1>2, <1>4, <2>1, <2>2, ControlParts, LiveShrinks
<1>7. WorkHolds'
  <2>1. IsOpen(i)' /\ IF s = NoSession THEN OnDemand(i)' ELSE LiveOf(s, i)'
    BY <1>3, <1>4 DEF Lasting
  <2>2. s # NoSession => s \in Session /\ ~Listed(s)'
    BY <1>4, <1>5
  <2>. QED  BY <1>4, <2>1, <2>2
            DEF WorkHolds, Chunking, Closing, IsOpen, OnDemand, LiveOf, Exists, Listed
<1>8. OutstandingIsExact'
  <2>1. \A t \in Session : Listed(t)' => live'[t] = live[t] /\ ~InProgress(t) /\ ~InProgress(t)'
    BY <1>0, <1>4, <1>5 DEF InProgress, At
  <2>. QED  BY <1>1, <2>1, ControlParts, KeepCount
<1>. QED  BY <1>1, <1>2, <1>3, <1>6, <1>7, <1>8, ControlParts, KeepJobs DEF Core

LEMMA SettleKeeps ==
  ASSUME Control, Settle
  PROVE  Core'
<1>0. PICK i, s, v : i = wk.id /\ s = wk.session /\ v = wk.verdict
  OBVIOUS
<1>1. /\ UNCHANGED <<feed, live, starting, pushing, liveQ, jobQ, request>> /\ wk.pc = "settle"
      /\ SetState(i, v, v = "completed") /\ wk' = [wk EXCEPT !.pc = "job"]
  BY <1>0 DEF Settle, At
<1>2. Grows
  BY <1>1, ControlParts, FeedGrows
<1>3. /\ wk'.pc = "job" /\ wk'.id = i /\ wk'.session = s /\ wk'.verdict = v
      /\ i \in Id /\ IsOpen(i) /\ s \in Session \cup {NoSession} /\ v \in Ended
      /\ IF s = NoSession THEN OnDemand(i) ELSE LiveOf(s, i) /\ ~Listed(s)
  BY <1>0, <1>1, ControlParts DEF Shaped, WorkHolds, Closing
<1>4. OnlyRow(i) /\ transcript'[i].state = v /\ Identified(i) /\ UNCHANGED job
  BY <1>1, <1>3, ControlParts, RowOps
<1>5. TablesHold' /\ Lasting
  <2>1. /\ Exists(i) /\ Exists(i)' /\ IsOpen(i)'
        /\ job[i].state \notin {"absent", "completed"}
        /\ job[i].state = "queued" => transcript[i].mode = "on_demand"
    BY <1>3, <1>4, ControlParts DEF TablesHold, IsOpen, Open, Exists, Ended
  <2>. QED  BY <1>1, <1>3, <1>4, <2>1, ControlParts, TablesChange, Lasts
<1>6. LiveHolds'
  BY <1>0, <1>1, <1>2, <1>3, <1>5, ControlParts, KeepLive
<1>7. WorkHolds'
  <2>1. IsOpen(i)' /\ IF s = NoSession THEN OnDemand(i)' ELSE LiveOf(s, i)'
    BY <1>3, <1>5 DEF Lasting
  <2>2. s # NoSession => ~Listed(s)'
    BY <1>1, <1>3 DEF Listed
  <2>. QED  BY <1>3, <1>4, <2>1, <2>2
            DEF WorkHolds, Chunking, Closing, IsOpen, OnDemand, LiveOf, Exists, Listed
<1>8. OutstandingIsExact'
  <2>1. \A t \in Session : ~InProgress(t) /\ ~InProgress(t)'
    BY <1>1, <1>3 DEF InProgress, At
  <2>. QED  BY <1>1, <2>1, ControlParts, KeepCount
<1>. QED  BY <1>1, <1>2, <1>5, <1>6, <1>7, <1>8, ControlParts, KeepJobs DEF Core

\* A job that ends is not that of a session which is live or about to be.
LEMMA SettleJobKeeps ==
  ASSUME Control, SettleJob
  PROVE  Core'
<1>0. PICK i, s, v : i = wk.id /\ s = wk.session /\ v = wk.verdict
  OBVIOUS
<1>1. /\ UNCHANGED <<feed, live, starting, pushing, liveQ, jobQ, request>> /\ wk.pc = "job"
      /\ SetJobState(i, v) /\ wk' = Idle
  BY <1>0 DEF SettleJob, At
<1>2. Grows
  BY <1>1, ControlParts, FeedGrows
<1>3. /\ i \in Id /\ IsOpen(i) /\ s \in Session \cup {NoSession} /\ v \in Ended
      /\ transcript[i].state = v
      /\ IF s = NoSession THEN OnDemand(i) ELSE LiveOf(s, i) /\ ~Listed(s)
  BY <1>0, <1>1, ControlParts DEF Shaped, WorkHolds, Closing
<1>4. OnlyRow(i) /\ job'[i].state = v /\ UNCHANGED transcript
  BY <1>1, <1>3, ControlParts, RowOps
<1>5. TablesHold'
  <2>1. Exists(i) /\ Exists(i)' /\ Identified(i) /\ v \notin {"absent", "queued"}
    BY <1>3, <1>4 DEF Exists, Identified, Ended
  <2>. QED  BY <1>1, <1>3, <1>4, <2>1, ControlParts, TablesChange
<1>6. \A j \in Id : OnDemand(j) => OnDemand(j)'
  BY <1>4 DEF OnDemand, Exists
<1>7. LiveHolds'
  <2>1. ASSUME NEW t \in Session, NEW j \in Id, LiveOf(t, j),
               Listed(t) \/ starting.session = t
        PROVE  LiveOf(t, j)'
    <3>1. j # i
      <4>1. CASE s = NoSession
        BY <1>3, <2>1, <4>1 DEF OnDemand, LiveOf
      <4>2. CASE s # NoSession
        <5>1. Touched(s) /\ s \in Session
          BY <1>0, <1>3, <4>2 DEF Touched
        <5>2. ~Listed(s) /\ starting.session # s /\ transcript[i].session = s
          BY <1>3, <4>2, <5>1, ControlParts DEF LiveHolds, LiveOf
        <5>. QED  BY <2>1, <5>2 DEF LiveOf
      <4>. QED  BY <4>1, <4>2
    <3>. QED  BY <1>4, <2>1, <3>1 DEF OnlyRow, LiveOf, IsOpen
  <2>2. \A t \in Session : IF Listed(t)' THEN Listed(t) /\ live'[t].id = live[t].id
                                         ELSE live'[t] = NoLive
    BY <1>1, ControlParts DEF LiveHolds, Listed
  <2>. QED  BY <1>1, <1>2, <2>1, <2>2, RestIs, ControlParts, LiveShrinks
<1>8. OutstandingIsExact'
  <2>1. \A t \in Session : ~InProgress(t) /\ ~InProgress(t)'
    BY <1>1, RestIs DEF InProgress, At
  <2>. QED  BY <1>1, <2>1, ControlParts, KeepCount
<1>9. JobsHold'
  <2>1. \A n \in DOMAIN jobQ' : OnDemand(jobQ[n])'
    <3>1. \A n \in DOMAIN jobQ' : jobQ'[n] \in Id /\ OnDemand(jobQ'[n])
      BY <1>1, ControlParts DEF JobsHold, JobTypes
    <3>. QED  BY <1>6, <3>1 DEF OnDemand, Exists
  <2>2. \A r \in Request :
         /\ request'[r].pc = "checked" =>
              request'[r].session \in Session /\ status'[request'[r].session] = "finished"
         /\ request'[r].pc = "created" => request'[r].id \in Id /\ OnDemand(request[r].id)'
    BY <1>1, <1>2, <1>6, ControlParts DEF JobsHold, Grows
  <2>. QED  BY <2>1, <2>2 DEF JobsHold
<1>. QED  BY <1>1, <1>5, <1>7, <1>8, <1>9, RestHolds DEF Core

LEMMA WorkerErrorKeeps ==
  ASSUME Control, WorkerError
  PROVE  Core'
<1>0. PICK s : s = wk.session
  OBVIOUS
<1>1. /\ UNCHANGED <<feed, store, starting, pushing, liveQ, jobQ, request>> /\ wk' = Idle
      /\ live' = IF s # NoSession /\ Chunking THEN [live EXCEPT ![s].outstanding = @ - 1] ELSE live
  BY <1>0 DEF WorkerError, IsLive, Chunking, InProgress, At
<1>2. Grows
  BY <1>1, ControlParts, FeedGrows
<1>3. TablesHold' /\ Lasting
  BY <1>1, <1>2, ControlParts, TablesGrow, Lasts
<1>4. /\ s # NoSession /\ Chunking => /\ s \in Session /\ Listed(s)
                                      /\ \A t \in Session : InProgress(t) <=> t = s
      /\ ~(s # NoSession /\ Chunking) => \A t \in Session : ~InProgress(t)
  BY <1>0, ChunkIsCounted, WorkerAssumption DEF InProgress, Chunking, At
<1>5. \A t \in Session :
        /\ live'[t].id = live[t].id /\ (Listed(t)' <=> Listed(t))
        /\ ~InProgress(t) => live'[t] = live[t]
        /\ live'[t].outstanding = live[t].outstanding - OneIf(InProgress(t))
  <2>1. CASE s # NoSession /\ Chunking
    <3>1. s \in Session /\ live' = [live EXCEPT ![s].outstanding = @ - 1]
      BY <1>1, <1>4, <2>1
    <3>2. \A t \in Session : /\ live'[t].id = live[t].id /\ (Listed(t)' <=> Listed(t))
                             /\ t # s => live'[t] = live[t]
      BY <3>1, ControlParts DEF LiveTypes, Listed
    <3>3. \A t \in Session : live'[t].outstanding = live[t].outstanding - IF t = s THEN 1 ELSE 0
      BY <3>1, ControlParts DEF LiveTypes
    <3>. QED  BY <1>4, <2>1, <3>2, <3>3 DEF OneIf
  <2>2. CASE ~(s # NoSession /\ Chunking)
    <3>1. live' = live /\ \A t \in Session : OneIf(InProgress(t)) = 0
      BY <1>1, <1>4, <2>2 DEF OneIf
    <3>. QED  BY <3>1, ControlParts DEF LiveTypes, Listed
  <2>. QED  BY <2>1, <2>2
<1>6. LiveHolds'
  <2>1. \A t \in Session : IF Listed(t)' THEN Listed(t) /\ live'[t].id = live[t].id
                                         ELSE live'[t] = NoLive
    <3>1. \A t \in Session : InProgress(t) => Listed(t)
      BY <1>4
    <3>. QED  BY <1>5, <3>1, ControlParts DEF LiveHolds
  <2>2. \A t \in Session : \A j \in Id : LiveOf(t, j) => LiveOf(t, j)'
    BY <1>3 DEF Lasting
  <2>. QED  BY <1>1, <1>2, <2>1, <2>2, RestIs, ControlParts, LiveShrinks
<1>7. OutstandingIsExact'
  <2>1. \A t \in Session : OneIf(InProgress(t)') = 0
    BY <1>1, RestIs DEF InProgress, At, OneIf
  <2>2. \A t \in Session : live[t].outstanding \in Nat /\ OneIf(InProgress(t)) \in Nat
    BY ControlParts DEF LiveTypes, OneIf
  <2>3. \A t \in Session : live'[t].outstanding = live[t].outstanding - OneIf(InProgress(t))
                                                    + OneIf(InProgress(t)')
    BY <1>5, <2>1, <2>2
  <2>. QED  BY <1>1, <1>5, <2>3, ControlParts, ServedCounts
<1>. QED  BY <1>1, <1>2, <1>3, <1>6, <1>7, RestHolds, ControlParts, KeepJobs DEF Core

LEMMA FinaliseKeeps ==
  ASSUME Control, Finalise
  PROVE  Core'
<1>0. PICK s, i : s = wk.session /\ i = live[wk.session].id
  OBVIOUS
<1>1. UNCHANGED <<feed, starting, pushing, liveQ, jobQ, request>> /\ wk.pc = "finalise"
  BY DEF Finalise, At
<1>2. Grows /\ s \in Session /\ s # NoSession
  BY <1>0, <1>1, ControlParts, FeedGrows DEF WorkHolds, Shaped
<1>3. \A t \in Session : ~InProgress(t)
  BY <1>1 DEF InProgress, At
<1>4. CASE wk' = Idle /\ UNCHANGED <<store, live>>
  <2>1. TablesHold' /\ Lasting
    BY <1>1, <1>2, <1>4, ControlParts, TablesGrow, Lasts
  <2>2. LiveHolds'
    BY <1>1, <1>2, <1>4, <2>1, RestIs, ControlParts, KeepLive
  <2>3. OutstandingIsExact'
    <3>1. \A t \in Session : ~InProgress(t)'
      BY <1>4, RestIs DEF InProgress, At
    <3>. QED  BY <1>1, <1>3, <1>4, <3>1, ControlParts, KeepCount
  <2>. QED  BY <1>1, <1>2, <1>4, <2>1, <2>2, <2>3, RestHolds, ControlParts, KeepJobs DEF Core
<1>5. CASE /\ Listed(s) /\ SetJobState(i, "finalising") /\ UNCHANGED live
           /\ wk' = [wk EXCEPT !.pc = "report", !.id = i]
  <2>1. i \in Id /\ LiveOf(s, i)
    BY <1>0, <1>2, <1>5, ControlParts DEF LiveHolds, LiveOf
  <2>2. OnlyRow(i) /\ job'[i].state = "finalising" /\ UNCHANGED transcript
    BY <1>5, <2>1, ControlParts, RowOps
  <2>3. TablesHold' /\ Lasting
    <3>1. Exists(i) /\ Exists(i)' /\ Identified(i) /\ IsOpen(i)'
      BY <2>1, <2>2, ControlParts DEF TablesHold, LiveOf, IsOpen, Open, Exists, Identified
    <3>. QED  BY <1>1, <2>1, <2>2, <3>1, ControlParts, TablesChange, Lasts
  <2>4. wk'.pc = "report" /\ wk'.id = i /\ wk'.session = s
    BY <1>0, <1>5, ControlParts DEF Shaped
  <2>5. LiveHolds'
    BY <1>0, <1>1, <1>2, <1>5, <2>3, <2>4, ControlParts, KeepLive
  <2>6. WorkHolds'
    <3>1. IsOpen(i)' /\ LiveOf(s, i)'
      BY <2>1, <2>3 DEF Lasting, LiveOf
    <3>2. Listed(s)' /\ live'[s].id = i
      BY <1>0, <1>5 DEF Listed
    <3>. QED  BY <1>2, <2>1, <2>4, <3>1, <3>2
              DEF WorkHolds, Chunking, Closing, IsOpen, LiveOf, Listed
  <2>7. OutstandingIsExact'
    <3>1. \A t \in Session : ~InProgress(t)'
      BY <2>4 DEF InProgress, At
    <3>. QED  BY <1>1, <1>3, <1>5, <3>1, ControlParts, KeepCount
  <2>. QED  BY <1>1, <1>2, <2>3, <2>5, <2>6, <2>7, ControlParts, KeepJobs DEF Core
<1>6. CASE Listed(s) /\ Unlist(s) /\ FlushThenSettle(wk, i) /\ UNCHANGED store
  <2>1. i \in Id /\ LiveOf(s, i) /\ IsOpen(i)
    BY <1>0, <1>2, <1>6, ControlParts DEF LiveHolds, LiveOf
  <2>2. TablesHold' /\ Lasting
    BY <1>1, <1>2, <1>6, ControlParts, TablesGrow, Lasts
  <2>3. /\ wk'.id = i /\ wk'.session = s
        /\ wk'.pc = "settle" \/ (wk'.pc = "emit" /\ wk'.next = "settle")
    <3>1. PICK out : wk' = EmitThen([wk EXCEPT !.id = i], out, "settle")
      BY <1>6 DEF FlushThenSettle
    <3>2. PICK w : w = [wk EXCEPT !.id = i]
      OBVIOUS
    <3>3. Shaped(w) /\ w.id = i /\ w.session = s
      BY <1>0, <2>1, <3>2, ControlParts, WorkerAssumption DEF Shaped, Id
    <3>4. PICK e : e = EmitThen(w, out, "settle")
      OBVIOUS
    <3>5. "settle" \in WorkerPc
      BY DEF WorkerPc
    <3>6. e.id = w.id /\ e.session = w.session /\ e.pc \in {"settle", "emit"} /\ e.next = "settle"
      BY <3>3, <3>4, <3>5, EmitThenIs
    <3>. QED  BY <3>1, <3>2, <3>3, <3>4, <3>6
  <2>4. /\ \A t \in Session : IF t = s THEN live'[t] = NoLive ELSE live'[t] = live[t]
        /\ \A t \in Session : Listed(t)' <=> Listed(t) /\ t # s
    <3>1. \A t \in Session : IF t = s THEN live'[t] = NoLive ELSE live'[t] = live[t]
      BY <1>2, <1>6, ControlParts DEF LiveTypes, Unlist
    <3>. QED  BY <3>1 DEF Listed, NoLive
  <2>5. LiveHolds'
    <3>1. \A t \in Session : IF Listed(t)' THEN Listed(t) /\ live'[t].id = live[t].id
                                           ELSE live'[t] = NoLive
      BY <2>4, ControlParts DEF LiveHolds
    <3>2. \A t \in Session : \A j \in Id : LiveOf(t, j) => LiveOf(t, j)'
      BY <2>2 DEF Lasting
    <3>. QED  BY <1>0, <1>1, <1>2, <2>3, <3>1, <3>2, ControlParts, LiveShrinks
  <2>6. WorkHolds'
    <3>1. IsOpen(i)' /\ LiveOf(s, i)'
      BY <2>1, <2>2 DEF Lasting
    <3>2. ~Listed(s)'
      BY <1>2, <2>4
    <3>. QED  BY <1>2, <2>1, <2>3, <3>1, <3>2
              DEF WorkHolds, Chunking, Closing, IsOpen, LiveOf, Listed
  <2>7. OutstandingIsExact'
    <3>1. \A t \in Session : Listed(t)' => live'[t] = live[t] /\ ~InProgress(t)'
      BY <2>3, <2>4 DEF InProgress, At
    <3>. QED  BY <1>1, <1>3, <3>1, ControlParts, KeepCount
  <2>. QED  BY <1>1, <1>2, <2>2, <2>5, <2>6, <2>7, ControlParts, KeepJobs DEF Core
<1>. QED  BY <1>0, <1>4, <1>5, <1>6 DEF Finalise

-----------------------------------------------------------------------------
(***************************************************************************)
(* A process that dies, and one that starts: nothing is in memory.         *)
(***************************************************************************)
LEMMA EmptyHolds ==
  ASSUME live' = [s \in Session |-> NoLive], starting' = NoStart, pushing' = {}, liveQ' = <<>>,
         wk' = Idle
  PROVE  LiveHolds' /\ WorkHolds' /\ OutstandingIsExact'
<1>1. \A s \in Session : live'[s] = NoLive /\ ~Listed(s)'
  BY DEF Listed, NoLive
<1>2. \A s \in Session : ~Touched(s)'
  <2>1. wk'.session = NoSession
    BY RestIs
  <2>2. \A n : n \notin DOMAIN liveQ'
    OBVIOUS
  <2>. QED  BY <1>1, <2>1, <2>2, WorkerAssumption DEF Touched
<1>. QED  BY <1>1, <1>2, RestHolds DEF LiveHolds, OutstandingIsExact

LEMMA CrashKeeps ==
  ASSUME Control, Crash
  PROVE  Core' /\ BootHolds'
<1>1. /\ Restart /\ UNCHANGED store /\ jobQ' = <<>> /\ boot' = Boot("scan")
      /\ live' = [s \in Session |-> NoLive] /\ starting' = NoStart
      /\ pushing' = {} /\ liveQ' = <<>> /\ wk' = Idle
  BY DEF Crash
<1>2. \A r \in Request : request'[r].pc \in {"new", "done"}
  <2>1. \A r \in Request : request[r].pc = "new" \/ [request[r] EXCEPT !.pc = "done"].pc = "done"
    BY ControlParts DEF JobTypes
  <2>. QED  BY <2>1 DEF Crash
<1>3. TablesHold'
  <2>1. \A s \in Session : /\ status[s] # "absent" => status'[s] # "absent"
                           /\ status'[s] # "active"
    BY <1>1 DEF Restart
  <2>. QED  BY <1>1, <2>1, ControlParts DEF TablesHold, store, Exists, OnDemand
<1>4. JobsHold'
  BY <1>1, <1>2 DEF JobsHold
<1>5. BootHolds'
  BY <1>1, <1>2 DEF BootHolds, Boot, Up
<1>. QED  BY <1>1, <1>3, <1>4, <1>5, EmptyHolds DEF Core

LEMMA BootKeeps ==
  ASSUME Control, BootStep
  PROVE  Core' /\ BootHolds'
<1>1. /\ UNCHANGED <<feed, live, starting, pushing, liveQ, wk, request>> /\ ~Up
      /\ UNCHANGED jobQ \/ Requeue
  BY DEF BootStep, BootScan, ReconcileLive, ReconcileLiveJob, ReconcileOnDemand,
         ReconcileOnDemandJob, Requeue, memory, Up
<1>2. Grows
  BY <1>1, ControlParts, FeedGrows
<1>3. /\ live' = [s \in Session |-> NoLive] /\ starting' = NoStart
      /\ pushing' = {} /\ liveQ' = <<>> /\ wk' = Idle /\ jobQ = <<>>
      /\ \A r \in Request : request'[r].pc \in {"new", "done"}
  BY <1>1, ControlParts DEF BootHolds
<1>4. LiveHolds' /\ WorkHolds' /\ OutstandingIsExact'
  BY <1>3, EmptyHolds
<1>5. UNCHANGED jobQ => JobsHold'
  BY <1>3 DEF JobsHold
<1>6. CASE BootScan
  <2>1. UNCHANGED <<store, jobQ>> /\ boot'.pc = "next" /\ boot'.todo = OpenJobs
    BY <1>6 DEF BootScan, memory, Boot
  <2>2. TablesHold'
    BY <1>2, <2>1, ControlParts, TablesGrow
  <2>3. BootHolds'
    BY <1>3, <2>1 DEF BootHolds, OpenJobs, IsOpen, store
  <2>. QED  BY <1>4, <1>5, <2>1, <2>2, <2>3 DEF Core
<1>7. CASE ReconcileLive
  <2>1. PICK i \in boot.todo : /\ transcript[i].mode = "live"
                               /\ SetState(i, "interrupted_live", FALSE)
                               /\ boot' = [boot EXCEPT !.pc = "job", !.id = i]
    BY <1>7 DEF ReconcileLive
  <2>2. i \in Id /\ IsOpen(i) /\ \A j \in boot.todo : j \in Id /\ IsOpen(j)
    BY <1>7, <2>1, ControlParts DEF BootHolds, BootTypes, ReconcileLive
  <2>3. /\ OnlyRow(i) /\ transcript'[i].state = "interrupted_live" /\ Identified(i)
        /\ UNCHANGED job
    BY <2>1, <2>2, ControlParts, RowOps
  <2>4. TablesHold'
    <3>1. Exists(i) /\ Exists(i)' /\ job[i].state \notin {"absent", "completed"}
          /\ (job[i].state = "queued" => transcript[i].mode = "on_demand")
      BY <2>2, <2>3, ControlParts DEF TablesHold, IsOpen, Open, Exists
    <3>. QED  BY <1>1, <2>2, <2>3, <3>1, ControlParts, TablesChange
  <2>5. BootHolds'
    <3>1. boot'.pc = "job" /\ boot'.id = i /\ boot'.todo = boot.todo
      BY <2>1, ControlParts DEF BootTypes
    <3>2. transcript'[i].mode = "live"
      BY <2>1, <2>3 DEF Identified
    <3>3. UNCHANGED jobQ
      BY <1>7 DEF ReconcileLive, memory
    <3>. QED  BY <1>3, <2>1, <2>2, <2>3, <3>1, <3>2, <3>3 DEF BootHolds, IsOpen
  <2>. QED  BY <1>1, <1>4, <1>5, <1>7, <2>4, <2>5 DEF Core, ReconcileLive, memory
<1>8. ASSUME NEW i, i = boot.id, boot.pc \in {"job", "queue"}, UNCHANGED jobQ,
             NEW j, UpdateJob(i, j),
             \/ boot.pc = "job" /\ j.state = "failed"
             \/ boot.pc = "queue" /\ j.state = "queued",
             boot' = [boot EXCEPT !.pc = "next", !.todo = @ \ {i}, !.id = 0]
      PROVE  Core' /\ BootHolds'
  <2>1. /\ i \in Id /\ IsOpen(i) /\ \A k \in boot.todo : k \in Id /\ IsOpen(k)
        /\ boot.pc = "queue" => transcript[i].mode = "on_demand"
    BY <1>8, ControlParts DEF BootHolds, BootTypes
  <2>2. OnlyRow(i) /\ job'[i] = j /\ UNCHANGED transcript
    BY <1>8, <2>1, ControlParts, RowOps
  <2>3. TablesHold'
    <3>1. Exists(i) /\ Exists(i)' /\ Identified(i) /\ job'[i].state \notin {"absent", "completed"}
          /\ (job'[i].state = "queued" => transcript[i].mode = "on_demand")
      BY <1>8, <2>1, <2>2, ControlParts DEF TablesHold, IsOpen, Open, Exists, Identified
    <3>. QED  BY <1>1, <2>1, <2>2, <3>1, ControlParts, TablesChange
  <2>4. BootHolds'
    <3>1. boot'.pc = "next" /\ boot'.todo = boot.todo \ {i}
      BY <1>8, ControlParts DEF BootTypes
    <3>. QED  BY <1>3, <1>8, <2>1, <2>2, <3>1 DEF BootHolds, IsOpen, OnlyRow
  <2>. QED  BY <1>4, <1>5, <1>8, <2>3, <2>4 DEF Core
<1>9. CASE ReconcileLiveJob
  <2>1. PICK i, j : i = boot.id /\ j = [job[i] EXCEPT !.state = "failed"]
    OBVIOUS
  <2>2. /\ boot.pc = "job" /\ UpdateJob(i, j) /\ UNCHANGED jobQ
        /\ boot' = [boot EXCEPT !.pc = "next", !.todo = @ \ {i}, !.id = 0]
    BY <1>9, <2>1 DEF ReconcileLiveJob, SetJobState, memory
  <2>3. j.state = "failed"
    BY <2>1, <2>2, ControlParts DEF BootHolds, BootTypes, TableTypes
  <2>. QED  BY <1>8, <2>1, <2>2, <2>3
<1>10. CASE ReconcileOnDemand
  <2>1. PICK i \in boot.todo : /\ transcript[i].mode = "on_demand" /\ DeleteSegments(i)
                               /\ boot' = [boot EXCEPT !.pc = "queue", !.id = i]
    BY <1>10 DEF ReconcileOnDemand
  <2>2. UNCHANGED <<transcript, job, jobQ>>
    BY <1>10, <2>1 DEF ReconcileOnDemand, DeleteSegments, memory
  <2>3. TablesHold'
    BY <1>1, <2>2, ControlParts DEF TablesHold, feed, Exists, OnDemand
  <2>4. BootHolds'
    <3>1. boot'.pc = "queue" /\ boot'.id = i /\ boot'.todo = boot.todo
      BY <2>1, ControlParts DEF BootTypes
    <3>. QED  BY <1>3, <1>10, <2>1, <2>2, <3>1, ControlParts
              DEF BootHolds, IsOpen, ReconcileOnDemand
  <2>. QED  BY <1>4, <1>5, <2>2, <2>3, <2>4 DEF Core
<1>11. CASE ReconcileOnDemandJob
  <2>1. PICK i, j : i = boot.id /\ j = [job[i] EXCEPT !.state = "queued", !.progress = 0]
    OBVIOUS
  <2>2. /\ boot.pc = "queue" /\ UpdateJob(i, j) /\ UNCHANGED jobQ
        /\ boot' = [boot EXCEPT !.pc = "next", !.todo = @ \ {i}, !.id = 0]
    BY <1>11, <2>1 DEF ReconcileOnDemandJob, memory
  <2>3. j.state = "queued"
    BY <2>1, <2>2, ControlParts DEF BootHolds, BootTypes, TableTypes
  <2>. QED  BY <1>8, <2>1, <2>2, <2>3
<1>12. CASE Requeue
  <2>1. UNCHANGED store /\ jobQ' = SetToSeq(NextQueued) /\ boot' = Boot("up")
    BY <1>12 DEF Requeue
  <2>2. TablesHold'
    BY <1>2, <2>1, ControlParts, TablesGrow
  <2>3. BootHolds'
    BY <2>1 DEF BootHolds, Boot, Up
  <2>4. JobsHold'
    <3>1. \A n \in DOMAIN jobQ' : jobQ'[n] \in NextQueued
      BY <2>1, RequeueIs
    <3>2. \A i \in NextQueued : OnDemand(i)
      BY ControlParts DEF NextQueued, TablesHold, OnDemand, Exists
    <3>3. \A n \in DOMAIN jobQ' : OnDemand(jobQ[n])'
      BY <2>1, <3>1, <3>2 DEF OnDemand, Exists, store
    <3>. QED  BY <1>3, <3>3 DEF JobsHold
  <2>. QED  BY <1>4, <2>2, <2>3, <2>4 DEF Core
<1>. QED  BY <1>6, <1>7, <1>9, <1>10, <1>11, <1>12 DEF BootStep

-----------------------------------------------------------------------------
(***************************************************************************)
(* The invariant.                                                          *)
(***************************************************************************)
LEMMA InitControl ==
  ASSUME Init
  PROVE  Control
<1>1. 0 \in 0..Transcripts
  BY WorkerAssumption
<1>2. FeedTypeOK
  BY DEF Init, FeedInit, FeedTypeOK, FeedStatus
<1>3. /\ transcript = [i \in Id |-> [session |-> NoSession, mode |-> "live",
                                     state |-> "absent", final |-> FALSE]]
      /\ job = [i \in Id |-> [state |-> "absent", progress |-> 0, total |-> 0]]
      /\ segment = [i \in Id |-> <<>>]
  BY DEF Init, StoreInit
<1>4. TableTypes
  BY <1>3 DEF TableTypes, Mode, TranscriptState, JobState
<1>5. LiveTypes
  <2>1. live \in [Session -> [id : 0..Transcripts, stopping : BOOLEAN, outstanding : Nat]]
    BY <1>1 DEF Init, NoLive
  <2>2. starting \in [session : Session \cup {NoSession}, id : 0..Transcripts]
    BY <1>1 DEF Init, NoStart
  <2>3. liveQ \in Seq(Item) /\ pushing \in SUBSET Source
    BY DEF Init
  <2>. QED  BY <2>1, <2>2, <2>3 DEF LiveTypes
<1>6. JobTypes
  <2>1. od \in [Id -> [listed : BOOLEAN, idx : Nat, inv : [Kind -> Nat]]]
    BY DEF Init, NoOd
  <2>2. request \in [Request -> [pc : RequestPc, session : Session \cup {NoSession},
                                 id : 0..Transcripts]]
    BY <1>1 DEF Init, NewRequest, RequestPc
  <2>3. jobQ \in Seq(Id)
    BY DEF Init
  <2>. QED  BY <2>1, <2>2, <2>3 DEF JobTypes
<1>7. Shaped(wk)
  BY ShapedIs DEF Init
<1>8. BootTypes
  BY <1>1 DEF Init, BootTypes, Boot, BootPc
<1>9. TablesHold
  BY <1>3 DEF TablesHold, Exists
<1>10. \A s \in Session : live[s] = NoLive /\ ~Listed(s)
  BY DEF Init, Listed, NoLive
<1>11. wk = Idle /\ wk.session = NoSession /\ wk.pc = "idle" /\ wk.next = "idle"
  BY DEF Init, Idle
<1>12. LiveHolds
  <2>1. \A n : n \notin DOMAIN liveQ
    BY DEF Init
  <2>2. \A s \in Session : ~Touched(s)
    BY <1>10, <1>11, <2>1, WorkerAssumption DEF Init, Touched
  <2>. QED  BY <1>10, <2>2 DEF Init, LiveHolds
<1>13. \A r \in Request : request[r].pc = "new"
  BY DEF Init, NewRequest
<1>14. JobsHold
  <2>1. \A n : n \notin DOMAIN jobQ
    BY DEF Init
  <2>. QED  BY <1>13, <2>1 DEF JobsHold
<1>15. WorkHolds
  BY <1>11 DEF WorkHolds, Chunking, Closing
<1>16. BootHolds
  BY <1>11, <1>13 DEF Init, BootHolds, Boot, Up
<1>17. OutstandingIsExact
  BY <1>10 DEF OutstandingIsExact
<1>. QED  BY <1>2, <1>4, <1>5, <1>6, <1>7, <1>8, <1>9, <1>12, <1>14, <1>15, <1>16, <1>17
          DEF Control, ControlTypes

LEMMA StutterKeeps ==
  ASSUME Control, UNCHANGED wvars
  PROVE  Control'
<1>1. UNCHANGED <<feed, store, live, starting, pushing, liveQ, jobQ, od, wk, request, boot>>
  BY DEF wvars, memory
<1>2. Grows
  BY <1>1, ControlParts, FeedGrows
<1>3. TablesHold' /\ Lasting
  BY <1>1, <1>2, ControlParts, TablesGrow, Lasts
<1>4. LiveHolds' /\ WorkHolds' /\ OutstandingIsExact' /\ JobsHold'
  BY <1>1, <1>2, <1>3, ControlParts, KeepMemory, KeepJobs DEF store
<1>5. BootHolds'
  BY <1>1, ControlParts DEF BootHolds, Up, IsOpen, store
<1>6. ControlTypes'
  BY <1>1, SameTypes DEF Control, ControlTypes
<1>. QED  BY <1>3, <1>4, <1>5, <1>6 DEF Control

LEMMA ControlInductive ==
  ASSUME Control, [Next]_wvars
  PROVE  Control'
<1>1. CASE \/ Capture \/ ListLive
           \/ \E s \in Session : BeginLive(s) \/ OnStopped(s)
           \/ \E w \in Source : OnChunk(w)
  <2>1. ControlTypes'
    BY <1>1, ObserverTypes DEF Control
  <2>2. Core'
    BY <1>1, CaptureKeeps, ListKeeps, BeginKeeps, StoppedKeeps, ChunkKeeps
  <2>3. BootHolds'
    BY <1>1, ControlParts, ServesWhenUp
  <2>. QED  BY <2>1, <2>2, <2>3 DEF Core, Control
<1>2. CASE \/ \E w \in Source : PushChunk(w)
           \/ \E r \in Request : RequestStep(r) \/ \E s \in Session : CheckRequest(r, s)
  <2>1. ControlTypes'
    BY <1>2, PushTypes DEF Control
  <2>2. Core'
    BY <1>2, PushKeeps, RequestKeeps
  <2>3. BootHolds'
    BY <1>2, ControlParts, ServesWhenUp
  <2>. QED  BY <2>1, <2>2, <2>3 DEF Core, Control
<1>3. CASE WorkerStep \/ EngineFails \/ WorkerError
  <2>1. ControlTypes'
    BY <1>3, TakeTypes, WorkTypes, EndTypes DEF Control, WorkerStep
  <2>2. Core'
    BY <1>3, TakeLiveKeeps, TakeStepKeeps, SpeakKeeps, AccountKeeps, AdvanceKeeps, FinaliseKeeps,
       ReportKeeps, SettleKeeps, SettleJobKeeps, EngineFailsKeeps, WorkerErrorKeeps DEF WorkerStep
  <2>3. BootHolds'
    BY <1>3, ControlParts, ServesWhenUp
  <2>. QED  BY <2>1, <2>2, <2>3 DEF Core, Control
<1>4. CASE Crash
  BY <1>4, CrashTypes, CrashKeeps DEF Core, Control
<1>5. CASE BootStep
  BY <1>5, BootStepTypes, BootKeeps DEF Core, Control
<1>6. CASE UNCHANGED wvars
  BY <1>6, StutterKeeps
<1>. QED  BY <1>1, <1>2, <1>3, <1>4, <1>5, <1>6 DEF Next

(***************************************************************************)
(* What outstanding says of a session is what the capture threads, the     *)
(* heap and the worker hold of it, whatever stops, ends, fails or dies in  *)
(* between: _finalise_live and _transcribe_live may rely on it.            *)
(***************************************************************************)
THEOREM CountIsExact == Spec => []OutstandingIsExact
<1>1. Init => Control
  BY InitControl
<1>2. Control /\ [Next]_wvars => Control'
  BY ControlInductive
<1>3. Control => OutstandingIsExact
  BY DEF Control
<1>. QED  BY <1>1, <1>2, <1>3, PTL DEF Spec

-----------------------------------------------------------------------------
(***************************************************************************)
(* A step changes one transcript at most, with its job and its segments:   *)
(* a new one or one whose job is open.  What a reader may see of it then   *)
(* is nothing yet, the end of it, or the first transcript of its session.  *)
(***************************************************************************)
Revises(r) ==
  /\ OnlyRow(r) /\ job[r].state \notin Ended
  /\ \/ UNCHANGED transcript
     \/ transcript'[r].state \in NonCurrent \cup {"completed"}
     \/ \A j \in Id : Exists(j) => transcript[j].session # transcript'[r].session
     \/ Exists(r) /\ Identified(r) /\ transcript[r].mode = "live"

LEMMA WorkerRevises ==
  ASSUME Control, WorkerStep \/ EngineFails \/ WorkerError
  PROVE  UNCHANGED store \/ \E r \in Id : Revises(r)
<1>1. CASE EngineFails \/ WorkerError \/ TakeChunk \/ TakeStop \/ Transcribe \/ Retry
  BY <1>1 DEF EngineFails, WorkerError, TakeChunk, TakeStop, Transcribe, Retry
<1>2. CASE TakeStep
  <2>1. jobQ # <<>> /\ jobQ \in Seq(Id)
    BY <1>2, ControlParts DEF TakeStep, JobTypes
  <2>2. PICK i \in Id : i = Head(jobQ)
    BY <2>1, HeadHas
  <2>3. UNCHANGED store \/ (job[i].state \notin Ended /\ \E j : UpdateJob(i, j))
    BY <1>2, <2>2 DEF TakeStep
  <2>4. ASSUME NEW j, UpdateJob(i, j), job[i].state \notin Ended
        PROVE  Revises(i)
    BY <2>4, ControlParts, RowOps DEF Revises
  <2>. QED  BY <2>3, <2>4
<1>3. ASSUME wk.pc \notin {"idle", "finalise"}
      PROVE  /\ wk.id \in Id /\ job[wk.id].state \notin Ended
             /\ wk.verdict \in Ended
             /\ wk.pc = "report" => Exists(wk.id) /\ transcript[wk.id].mode = "live"
  BY <1>3, ControlParts DEF WorkHolds, Shaped, IsOpen, Open, Ended, LiveOf, TablesHold
<1>4. CASE Emit \/ Account \/ Advance \/ SettleJob
  <2>1. PICK r \in Id : r = wk.id /\ job[r].state \notin Ended
    BY <1>3, <1>4 DEF Emit, Account, Advance, SettleJob, At
  <2>2. \/ \E seg : AppendSegment(r, seg)
        \/ \E j : UpdateJob(r, j)
    BY <1>4, <2>1 DEF Emit, Account, Advance, SettleJob, SetJobState
  <2>3. OnlyRow(r) /\ UNCHANGED transcript
    BY <2>2, ControlParts, RowOps
  <2>. QED  BY <2>1, <2>3 DEF Revises
<1>5. CASE Report \/ Settle
  <2>1. PICK r \in Id : /\ r = wk.id /\ job[r].state \notin Ended /\ wk.verdict \in Ended
                        /\ wk.pc = "report" => Exists(r) /\ transcript[r].mode = "live"
    BY <1>3, <1>5 DEF Report, Settle, At
  <2>2. CASE Report
    <3>1. SetState(r, "finalising", FALSE) /\ wk.pc = "report"
      BY <2>1, <2>2 DEF Report, At
    <3>2. OnlyRow(r) /\ Identified(r)
      BY <3>1, ControlParts, RowOps
    <3>. QED  BY <2>1, <3>1, <3>2 DEF Revises
  <2>3. CASE Settle
    <3>1. SetState(r, wk.verdict, wk.verdict = "completed")
      BY <2>1, <2>3 DEF Settle
    <3>2. OnlyRow(r) /\ transcript'[r].state = wk.verdict
      BY <3>1, ControlParts, RowOps
    <3>. QED  BY <2>1, <3>2 DEF Revises, Ended, NonCurrent
  <2>. QED  BY <1>5, <2>2, <2>3
<1>6. CASE Finalise
  <2>1. wk.session \in Session
    BY <1>6, ControlParts DEF Finalise, At, WorkHolds, Shaped
  <2>2. PICK r : r = live[wk.session].id
    OBVIOUS
  <2>3. UNCHANGED store \/ (Listed(wk.session) /\ SetJobState(r, "finalising"))
    BY <1>6, <2>2 DEF Finalise
  <2>4. Listed(wk.session) => r \in Id /\ job[r].state \notin Ended
    BY <2>1, <2>2, ControlParts DEF LiveHolds, LiveOf, IsOpen, Open, Ended
  <2>5. ASSUME Listed(wk.session), SetJobState(r, "finalising")
        PROVE  r \in Id /\ Revises(r)
    BY <2>4, <2>5, ControlParts, RowOps DEF Revises
  <2>. QED  BY <2>3, <2>5
<1>. QED  BY <1>1, <1>2, <1>4, <1>5, <1>6 DEF WorkerStep

LEMMA CreationRevises ==
  ASSUME Control, NEW i \in Id, NEW s, NEW mode, NEW ts, NEW js,
         CreateTranscript(i, s, mode, ts, js),
         ts \in NonCurrent \/ \A j \in Id : Exists(j) => transcript[j].session # s
  PROVE  Revises(i)
<1>1. ~Exists(i)
  BY DEF CreateTranscript, IsNext, Exists, Id
<1>2. /\ OnlyRow(i)
      /\ transcript'[i] = [session |-> s, mode |-> mode, state |-> ts, final |-> FALSE]
  BY ControlParts, RowOps
<1>3. transcript'[i].state = ts /\ transcript'[i].session = s
  BY <1>2
<1>4. job[i].state \notin Ended
  BY <1>1, ControlParts DEF TablesHold, Ended
<1>. QED  BY <1>2, <1>3, <1>4 DEF Revises

LEMMA StepRevises ==
  ASSUME Control, [Next]_wvars
  PROVE  UNCHANGED store \/ \E r \in Id : Revises(r)
<1>1. CASE \/ Capture \/ ListLive \/ (\E s \in Session : OnStopped(s)) \/ Crash \/ UNCHANGED wvars
           \/ \E w \in Source : OnChunk(w) \/ PushChunk(w)
           \/ \E r \in Request : PushRequested(r) \/ \E s \in Session : CheckRequest(r, s)
  BY <1>1 DEF Capture, ListLive, OnStopped, Crash, wvars, OnChunk, PushChunk, PushRequested,
              CheckRequest
<1>2. ASSUME NEW s \in Session, BeginLive(s)
      PROVE  UNCHANGED store \/ \E r \in Id : Revises(r)
  <2>1. \A j \in Id : Exists(j) => transcript[j].session # s
    BY <1>2, ControlParts DEF BeginLive, TellStarted, TablesHold
  <2>2. UNCHANGED store \/ \E i \in Id : \E ts, js : CreateTranscript(i, s, "live", ts, js)
    BY <1>2 DEF BeginLive
  <2>. QED  BY <2>1, <2>2, CreationRevises
<1>3. ASSUME NEW q \in Request, CreateRequested(q)
      PROVE  \E r \in Id : Revises(r)
  <2>1. \E i \in Id : \E s, js : CreateTranscript(i, s, "on_demand", "pending", js)
    BY <1>3 DEF CreateRequested
  <2>2. "pending" \in NonCurrent
    BY DEF NonCurrent
  <2>. QED  BY <2>1, <2>2, CreationRevises
<1>4. CASE WorkerStep \/ EngineFails \/ WorkerError
  BY <1>4, WorkerRevises
<1>5. CASE BootStep
  <2>1. CASE BootScan \/ Requeue
    BY <2>1 DEF BootScan, Requeue
  <2>2. CASE ReconcileLive
    <3>1. PICK i \in boot.todo : /\ transcript[i].mode = "live"
                                 /\ SetState(i, "interrupted_live", FALSE)
      BY <2>2 DEF ReconcileLive
    <3>2. i \in Id /\ job[i].state \notin Ended /\ Exists(i)
      BY <2>2, <3>1, ControlParts
         DEF ReconcileLive, BootHolds, BootTypes, IsOpen, Open, Ended, TablesHold
    <3>. QED  BY <3>1, <3>2, ControlParts, RowOps DEF Revises
  <2>3. CASE ReconcileOnDemand
    <3>1. PICK i \in boot.todo : DeleteSegments(i)
      BY <2>3 DEF ReconcileOnDemand
    <3>2. i \in Id /\ job[i].state \notin Ended
      BY <2>3, <3>1, ControlParts
         DEF ReconcileOnDemand, BootHolds, BootTypes, IsOpen, Open, Ended
    <3>. QED  BY <3>1, <3>2, ControlParts, RowOps DEF Revises
  <2>4. CASE ReconcileLiveJob \/ ReconcileOnDemandJob
    <3>1. boot.pc \in {"job", "queue"} /\ \E j : UpdateJob(boot.id, j)
      BY <2>4 DEF ReconcileLiveJob, ReconcileOnDemandJob, SetJobState
    <3>2. boot.id \in Id /\ job[boot.id].state \notin Ended
      BY <3>1, ControlParts DEF BootHolds, BootTypes, IsOpen, Open, Ended
    <3>. QED  BY <3>1, <3>2, ControlParts, RowOps DEF Revises
  <2>. QED  BY <1>5, <2>1, <2>2, <2>3, <2>4 DEF BootStep
<1>. QED  BY <1>1, <1>2, <1>3, <1>4, <1>5 DEF Next, RequestStep

(***************************************************************************)
(* Once its job has ended a transcript is stable: no late chunk, retry,    *)
(* restart or other job changes its state or its segments (FR-002, FR-007).*)
(***************************************************************************)
THEOREM EndedStays == Spec => EndedIsStable
<1>. DEFINE Stable == \A i \in Id : job[i].state \in Ended =>
                        /\ transcript'[i] = transcript[i]
                        /\ segment'[i] = segment[i]
                        /\ job'[i] = job[i]
<1>1. Init => Control
  BY InitControl
<1>2. Control /\ [Next]_wvars => Control'
  BY ControlInductive
<1>3. Control /\ [Next]_wvars => Stable
  BY StepRevises DEF Revises, OnlyRow, store
<1>4. Spec => [][Stable]_wvars
  BY <1>1, <1>2, <1>3, PTL DEF Spec
<1>. QED  BY <1>4 DEF EndedIsStable

\* Between the two transactions that end a transcript nobody writes to it.
LEMMA EndingKeeps ==
  ASSUME Control, [Next]_wvars, At("job"), NEW i \in Id, wk.id = i
  PROVE  transcript'[i] = transcript[i] /\ segment'[i] = segment[i]
<1>1. Exists(i) /\ Up
  <2>1. job[i].state # "absent"
    BY ControlParts DEF WorkHolds, At, IsOpen, Open
  <2>. QED  BY <2>1, ControlParts DEF TablesHold, BootHolds, At, Idle
<1>2. CASE UNCHANGED store
  BY <1>2 DEF store
<1>3. ASSUME NEW j \in Id, NEW s, NEW mode, NEW ts, NEW js, CreateTranscript(j, s, mode, ts, js)
      PROVE  transcript'[i] = transcript[i] /\ segment'[i] = segment[i]
  <2>1. i # j
    BY <1>1, <1>3 DEF CreateTranscript, IsNext, Exists, Id
  <2>2. OnlyRow(j)
    BY <1>3, ControlParts, RowOps
  <2>. QED  BY <2>1, <2>2 DEF OnlyRow
<1>4. CASE \/ Capture \/ ListLive \/ (\E s \in Session : OnStopped(s)) \/ Crash \/ UNCHANGED wvars
           \/ \E w \in Source : OnChunk(w) \/ PushChunk(w)
           \/ \E r \in Request : PushRequested(r) \/ \E s \in Session : CheckRequest(r, s)
           \/ EngineFails \/ WorkerError
  BY <1>2, <1>4 DEF Capture, ListLive, OnStopped, Crash, wvars, OnChunk, PushChunk, PushRequested,
                    CheckRequest, EngineFails, WorkerError
<1>5. ASSUME NEW s \in Session, BeginLive(s)
      PROVE  transcript'[i] = transcript[i] /\ segment'[i] = segment[i]
  BY <1>2, <1>3, <1>5 DEF BeginLive
<1>6. ASSUME NEW r \in Request, CreateRequested(r)
      PROVE  transcript'[i] = transcript[i] /\ segment'[i] = segment[i]
  BY <1>3, <1>6 DEF CreateRequested
<1>7. CASE WorkerStep
  <2>1. SettleJob
    BY <1>7 DEF WorkerStep, At, TakeChunk, TakeStop, TakeStep, Transcribe, Retry, Emit, Account,
                Advance, Finalise, Report, Settle
  <2>. QED  BY <2>1 DEF SettleJob, SetJobState, UpdateJob
<1>8. CASE BootStep
  BY <1>1, <1>8 DEF Up, BootStep, BootScan, ReconcileLive, ReconcileLiveJob, ReconcileOnDemand,
                    ReconcileOnDemandJob, Requeue
<1>. QED  BY <1>4, <1>5, <1>6, <1>7, <1>8 DEF Next, RequestStep

(***************************************************************************)
(* What a reader sees of a session only improves.                          *)
(***************************************************************************)
LEMMA CurrentStep ==
  ASSUME Control, [Next]_wvars, NEW s \in Session, NEW i \in Current(s),
         transcript[i].state = "completed", ~Torn(i)
  PROVE  \E k \in Current(s)' : /\ transcript'[k].state = "completed"
                                /\ k = i => segment'[i] = segment[i]
<1>. DEFINE Counts(j) == transcript[j].state \notin NonCurrent \cup {"absent"}
                           /\ transcript[j].session = s
            Better(k) == transcript'[k].state = "completed" /\ (k = i => segment'[i] = segment[i])
<1>1. i \in Id /\ Counts(i) /\ \A j \in Id : Counts(j) => j <= i
  BY DEF Current
<1>2. transcript'[i] = transcript[i] /\ segment'[i] = segment[i]
  <2>1. CASE job[i].state \in Ended
    BY <1>1, <2>1, StepRevises DEF Revises, OnlyRow, store
  <2>2. CASE At("job") /\ wk.id = i
    BY <1>1, <2>2, EndingKeeps
  <2>3. job[i].state \in Ended \cup Open
    BY <1>1, ControlParts DEF TablesHold, TableTypes, Exists, JobState, Ended, Open
  <2>. QED  BY <2>1, <2>2, <2>3 DEF Torn
<1>3. \A k \in Id : Counts(k)' /\ (\A j \in Id : Counts(j)' => j <= k) => k \in Current(s)'
  BY DEF Current
<1>4. Better(i) /\ Counts(i)'
  BY <1>1, <1>2
<1>5. CASE UNCHANGED store
  <2>1. \A j \in Id : Counts(j)' <=> Counts(j)
    BY <1>5 DEF store
  <2>. QED  BY <1>1, <1>3, <1>4, <2>1
<1>6. ASSUME NEW r \in Id, Revises(r)
      PROVE  \E k \in Current(s)' : Better(k)
  <2>1. \A j \in Id : j # r => (Counts(j)' <=> Counts(j))
    BY <1>6 DEF Revises, OnlyRow
  <2>2. CASE Counts(r)' /\ i < r
    <3>1. ~Counts(r) /\ r # i
      BY <1>1, <2>2 DEF Id
    <3>2. transcript'[r].state = "completed"
      <4>1. Exists(i) /\ transcript[i].session = s
        BY <1>1 DEF Exists
      <4>2. ~UNCHANGED transcript
        BY <2>2, <3>1
      <4>3. transcript'[r].session = s /\ transcript'[r].state \notin NonCurrent
        BY <2>2
      <4>4. ~(Exists(r) /\ Identified(r) /\ transcript[r].mode = "live")
        BY <1>1, <2>2, <4>1, <4>3, ControlParts DEF TablesHold, Identified, OnDemand
      <4>. QED  BY <1>1, <1>6, <4>1, <4>2, <4>3, <4>4 DEF Revises
    <3>3. \A j \in Id : Counts(j)' => j <= r
      BY <1>1, <2>1, <2>2 DEF Id
    <3>. QED  BY <1>3, <2>2, <3>1, <3>2, <3>3
  <2>3. CASE ~(Counts(r)' /\ i < r)
    <3>1. \A j \in Id : Counts(j)' => j <= i
      BY <1>1, <2>1, <2>3 DEF Id
    <3>. QED  BY <1>1, <1>3, <1>4, <3>1
  <2>. QED  BY <2>2, <2>3
<1>. QED  BY <1>5, <1>6, StepRevises

(***************************************************************************)
(* While the current transcript of a session is completed it stays as it   *)
(* is, or a completed one takes its place: an attempt that is queued,      *)
(* running, interrupted or failed never does (current_transcript).  Not so *)
(* of one whose two last transactions a death or an error tore apart.      *)
(***************************************************************************)
THEOREM CurrentImproves == Spec => CurrentOnlyImproves
<1>. DEFINE Improves == \A s \in Session : \A i \in Current(s) :
       transcript[i].state = "completed" /\ ~Torn(i) =>
         \E j \in Current(s)' : /\ transcript'[j].state = "completed"
                                /\ j = i => segment'[i] = segment[i]
<1>1. Init => Control
  BY InitControl
<1>2. Control /\ [Next]_wvars => Control'
  BY ControlInductive
<1>3. Control /\ [Next]_wvars => Improves
  BY CurrentStep
<1>4. Spec => [][Improves]_wvars
  BY <1>1, <1>2, <1>3, PTL DEF Spec
<1>. QED  BY <1>4 DEF CurrentOnlyImproves
=============================================================================
