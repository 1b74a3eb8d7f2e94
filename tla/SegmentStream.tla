----------------------------- MODULE SegmentStream -----------------------------
(***************************************************************************)
(* How a transcript reaches the screen: the worker thread stores segments  *)
(* and publishes them (transcription/stream.py), a socket handler replays  *)
(* what is stored and tails what is published (api/ws.py), and one open    *)
(* session page loads a snapshot, tails from its cursor, reconnects, polls *)
(* and refetches (ui/js/streams.js, ui/js/views/session.js).               *)
(***************************************************************************)
EXTENDS TranscriptStore, SequencesExt

CONSTANTS S, NoSession,   \* the session on the page; no session
          MaxBuffer,      \* the size of a subscriber's queue
          MaxSegments,    \* bound: segments of a transcript, by mode
          MaxCuts,        \* bound: sockets the network cuts and process deaths, together
          Verdicts        \* how transcripts end in this instance

ASSUME StreamAssumption ==
  /\ S # NoSession
  /\ Transcripts \in Nat \ {0} /\ MaxBuffer \in Nat \ {0} /\ MaxCuts \in Nat
  /\ MaxSegments \in [Mode -> Nat]
  /\ Verdicts \subseteq Ended /\ "completed" \in Verdicts

VARIABLES session,   \* "active", "stopping" once the worker was told, "finished" in its row
          pub,       \* the worker thread
          conn,      \* the socket's handler, its subscription and its queue
          page,      \* the session page and its tail
          rest,      \* the GET the page waits for
          cuts,
          excuse     \* history: the first thing the page does not recover from

svars == <<store, session, pub, conn, page, rest, cuts, excuse>>

Terminal == {"completed", "failed", "interrupted_live"}

(***************************************************************************)
(* Segments are counted from 1, so a cursor of 0 is the code's -1.  Status *)
(* frames that are not terminal only show a lag and are left out.          *)
(***************************************************************************)
SegmentFrame(n) == [type |-> "segment", seq |-> n]
StatusFrame == [type |-> "status", seq |-> 0]
CloseMarker == [type |-> "close", seq |-> 0]
Frame == [type : {"segment", "status", "close"}, seq : Nat]

Pub(pc, i, verdict) == [pc |-> pc, id |-> i, verdict |-> verdict, next |-> "idle"]
Resting == Pub("idle", 1, "completed")
PubPc == {"idle", "publish", "mark", "flush", "job", "status", "close"}
PubIdle == pub.pc = "idle"

NoConn == [pc |-> "none", id |-> 1, last |-> 0, until |-> 0, q |-> <<>>]
ConnPc == {"none", "replay", "send", "wait", "beat", "farewell", "closed"}

\* A bug: the handler subscribes after the replay.
MutantSubscribed == conn.pc \in {"wait", "beat", "farewell"}

Subscribed == conn.pc \in {"replay", "send", "wait", "beat", "farewell"}

(***************************************************************************)
(* id is 0 while the page has no transcript; shown holds the segments on   *)
(* screen; tail, after and terminal belong to tailTranscript.              *)
(***************************************************************************)
Blank == [id |-> 0, shown |-> {}, cursor |-> 0, state |-> "absent", pending |-> FALSE,
          active |-> FALSE, tail |-> FALSE, after |-> 0, terminal |-> FALSE]
NoRest == [pc |-> "none", why |-> "poll", after |-> 0, id |-> 1, state |-> "absent",
           whole |-> FALSE]
Get(why, after) == [NoRest EXCEPT !.pc = "select", !.why = why, !.after = after]
RestIdle == rest.pc = "none"

(***************************************************************************)
(* overflow - a publisher found the queue full; mixed - a tail went on     *)
(* across two transcripts: it reconnected to another one with its cursor,  *)
(* or the page adopted under it; redone - a restart deleted the rows of a  *)
(* pass; rewritten - it changed the state of a transcript that had ended;  *)
(* overtaken - a new transcript became current between the two reads of a  *)
(* GET; refresh - a GET that nobody repeats failed with the process.       *)
(***************************************************************************)
Excuse == {"none", "overflow", "mixed", "redone", "rewritten", "overtaken", "refresh"}
Note(why) == excuse' = IF excuse = "none" THEN why ELSE excuse

StreamTypeOK ==
  /\ StoreTypeOK({S, NoSession}, {"speech"})
  /\ session \in {"active", "stopping", "finished"}
  /\ pub \in [pc : PubPc, id : Id, verdict : Ended, next : PubPc]
  /\ conn \in [pc : ConnPc, id : Id, last : Nat, until : Nat, q : Seq(Frame)]
  /\ Len(conn.q) <= MaxBuffer
  /\ page \in [id : Id \cup {0}, shown : SUBSET (Id \X (1..Max({MaxSegments[m] : m \in Mode}))), cursor : Nat,
               state : TranscriptState, pending : BOOLEAN, active : BOOLEAN,
               tail : BOOLEAN, after : Nat, terminal : BOOLEAN]
  /\ rest \in [pc : {"none", "select", "read"}, why : {"open", "poll", "end", "button"},
               after : Nat, id : Id, state : TranscriptState, whole : BOOLEAN]
  /\ cuts \in 0..MaxCuts
  /\ excuse \in Excuse

\* The page opens on an active session: its first GET is under way.
Init ==
  /\ StoreInit(NoSession)
  /\ session = "active"
  /\ pub = Resting
  /\ conn = NoConn
  /\ page = [Blank EXCEPT !.active = TRUE]
  /\ rest = Get("open", 0)
  /\ cuts = 0
  /\ excuse = "none"

-----------------------------------------------------------------------------
(***************************************************************************)
(* The publisher.  What the worker does between two segments is            *)
(* TranscriptionWorker's subject; here it stores and publishes one segment *)
(* at a time, of the live transcript or of an on-demand one.               *)
(***************************************************************************)
Live(i) == transcript[i].mode = "live" /\ transcript[i].state \in {"live", "finalising"}
Running(i) == transcript[i].mode = "on_demand" /\ job[i].state = "running"

RoomFor(i) == Len(segment[i]) < MaxSegments[transcript[i].mode]

BeginLive ==
  /\ session = "active" /\ transcript[1].state = "absent"
  /\ \/ CreateTranscript(1, S, "live", "live", "running")
     \/ "failed" \in Verdicts /\ CreateTranscript(1, S, "live", "failed", "failed")
  /\ UNCHANGED <<session, pub, conn, page, rest, cuts, excuse>>

\* The worker hears of a stop before the row ends; of the other ends it hears nothing.
StopSession ==
  /\ \/ session = "active" /\ session' = "stopping"
     \/ session # "finished" /\ session' = "finished"
  /\ UNCHANGED <<store, pub, conn, page, rest, cuts, excuse>>

StoreSegment(i) ==
  /\ PubIdle /\ (Live(i) \/ Running(i))
  /\ RoomFor(i)
  /\ AppendSegment(i, "speech")
  /\ pub' = Pub("publish", i, "completed")
  /\ UNCHANGED <<conn, excuse>>

(***************************************************************************)
(* publish: a frame the queue has no place for is lost, and the marker     *)
(* that should close the subscriber is offered next - to the same queue,   *)
(* unless the handler takes a frame in between.                            *)
(***************************************************************************)
Listens(i) == Subscribed /\ conn.id = i
\* A bug: a queue without a bound.
MutantFull == FALSE

Full == Len(conn.q) = MaxBuffer
Put(frame) == conn' = [conn EXCEPT !.q = Append(@, frame)]

Offer(i, frame, next) ==
  IF ~Listens(i)
    THEN /\ pub' = [pub EXCEPT !.pc = next]
         /\ UNCHANGED <<conn, excuse>>
    ELSE IF Full
      THEN /\ pub' = [pub EXCEPT !.pc = "mark", !.next = next]
           /\ Note("overflow")
           /\ UNCHANGED conn
      ELSE /\ pub' = [pub EXCEPT !.pc = next]
           /\ Put(frame)
           /\ UNCHANGED excuse

PublishSegment ==
  /\ pub.pc = "publish"
  /\ Offer(pub.id, SegmentFrame(Len(segment[pub.id])), "idle")
  /\ UNCHANGED store

CloseSub(i) == IF Listens(i) /\ ~Full THEN Put(CloseMarker) ELSE UNCHANGED conn

MarkDropped ==
  /\ pub.pc = "mark"
  /\ CloseSub(pub.id)
  /\ pub' = [pub EXCEPT !.pc = pub.next]
  /\ UNCHANGED <<store, excuse>>

\* set_state; only a stopped session's transcript completes.
EndLive(i, verdict) ==
  /\ PubIdle /\ Live(i)
  /\ verdict = "completed" => session # "active"
  /\ SetState(i, verdict, verdict = "completed")
  /\ pub' = Pub("job", i, verdict)
  /\ UNCHANGED <<conn, excuse>>

\* A backlog is left: the job is written first, then the state; nobody here tells them apart.
Finalising(i) ==
  /\ PubIdle /\ Live(i) /\ session # "active"
  /\ transcript[i].state = "live"
  /\ job' = [job EXCEPT ![i].state = "finalising"]
  /\ transcript' = [transcript EXCEPT ![i].state = "finalising", ![i].final = FALSE]
  /\ UNCHANGED <<segment, pub, conn, excuse>>

\* An on-demand transcript has no status frames and no close.
WriteJob ==
  /\ pub.pc = "job"
  /\ SetJobState(pub.id, pub.verdict)
  /\ pub' = IF transcript[pub.id].mode = "live" THEN [pub EXCEPT !.pc = "status"] ELSE Resting
  /\ UNCHANGED <<conn, excuse>>

PublishStatus ==
  /\ pub.pc = "status"
  /\ Offer(pub.id, StatusFrame, "close")
  /\ UNCHANGED store

Close ==
  /\ pub.pc = "close"
  /\ CloseSub(pub.id)
  /\ pub' = Resting
  /\ UNCHANGED <<store, excuse>>

StartJob(i) ==
  /\ PubIdle /\ job[i].state = "queued"
  /\ SetJobState(i, "running")
  /\ UNCHANGED <<pub, conn, excuse>>

\* _finish_on_demand: what was deferred is stored without being published.
FlushOnDemand(i) ==
  /\ PubIdle /\ Running(i)
  /\ pub' = Pub("flush", i, "completed")
  /\ UNCHANGED <<store, conn, excuse>>

FlushSegment ==
  /\ pub.pc = "flush" /\ RoomFor(pub.id)
  /\ AppendSegment(pub.id, "speech")
  /\ UNCHANGED <<pub, conn, excuse>>

EndOnDemand(i, verdict) ==
  /\ \/ verdict = "completed" /\ pub.pc = "flush" /\ pub.id = i
     \/ verdict = "failed" /\ PubIdle /\ Running(i)
  /\ SetState(i, verdict, verdict = "completed")
  /\ pub' = Pub("job", i, verdict)
  /\ UNCHANGED <<conn, excuse>>

Begins ==
  \/ FlushSegment
  \/ \E i \in Id :
       \/ StoreSegment(i) \/ Finalising(i) \/ StartJob(i) \/ FlushOnDemand(i)
       \/ \E v \in Verdicts : EndLive(i, v) \/ EndOnDemand(i, v)
GoesOn == PublishSegment \/ MarkDropped \/ WriteJob \/ PublishStatus \/ Close
Publisher == (Begins \/ GoesOn) /\ UNCHANGED <<session, page, rest, cuts>>

-----------------------------------------------------------------------------
(***************************************************************************)
(* What the page does with what arrives.                                   *)
(***************************************************************************)
SeqsOf(shown) == {r[2] : r \in shown}

\* appendSegments: rows whose seq is on screen already are left out.
WithRows(p, i, seqs) ==
  LET fresh == seqs \ SeqsOf(p.shown) IN
  [p EXCEPT !.shown = @ \cup ({i} \X fresh), !.cursor = Max({@} \cup fresh)]

\* tailTranscript's onmessage.
OnSegment(p, i, n) ==
  IF n <= p.after THEN p ELSE WithRows([p EXCEPT !.after = n], i, {n})
OnStatus(p, state) ==
  [p EXCEPT !.state = state, !.terminal = @ \/ state \in Terminal]

\* maybeStartTail; the engine is ready in this instance.
StartTail(p) ==
  IF \/ p.tail
     \/ ~(p.active \/ p.state \in {"live", "finalising"})
     \/ p.id # 0 /\ p.state \notin {"live", "finalising", "pending"}
    THEN p
    ELSE [p EXCEPT !.tail = TRUE, !.after = p.cursor, !.terminal = FALSE]

(***************************************************************************)
(* adopt: the cursor is the seq of the last row by start time, which an    *)
(* attribution that came late makes any of them.                           *)
(***************************************************************************)
Adopted(p, i, state, pending) ==
  LET rows == 1..Len(segment[i]) IN
  {StartTail([p EXCEPT !.id = i, !.state = state, !.pending = pending,
                       !.shown = {i} \X rows, !.cursor = c]) :
     c \in IF rows = {} THEN {0} ELSE rows}

-----------------------------------------------------------------------------
(***************************************************************************)
(* The handler.  A segment or a status that is sent is on the page; a cut  *)
(* before it arrives is Drop before it is sent.                            *)
(***************************************************************************)
Pending == {i \in Id : transcript[i].state = "pending"}
PendingTranscript == {i \in Pending : \A j \in Pending : j <= i}
Shown404 == Current(S) = {} /\ Pending = {}

(***************************************************************************)
(* The handler picks a transcript and subscribes: what is published while  *)
(* it accepts the socket is stored by then, and the replay reads it.       *)
(* Without a transcript the socket closes with 4409 and the page tries     *)
(* again.                                                                  *)
(***************************************************************************)
Connect ==
  /\ page.tail /\ conn.pc = "none" /\ ~Shown404
  /\ \E i \in IF Current(S) # {} THEN Current(S) ELSE PendingTranscript :
       /\ conn' = [NoConn EXCEPT !.pc = "replay", !.id = i, !.last = page.after]
       /\ Note(IF page.id \notin {0, i} \/ \E r \in page.shown : r[1] # i
                THEN "mixed" ELSE "none")
  /\ UNCHANGED <<store, session, pub, page, rest, cuts>>

ReadReplay ==
  /\ conn.pc = "replay"
  /\ conn' = [conn EXCEPT !.pc = "send", !.until = Len(segment[conn.id])]
  /\ UNCHANGED page

SendReplayed ==
  /\ conn.pc = "send" /\ conn.last < conn.until
  /\ conn' = [conn EXCEPT !.last = @ + 1]
  /\ page' = OnSegment(page, conn.id, conn.last + 1)

Closed == [conn EXCEPT !.pc = "closed", !.until = 0, !.q = <<>>]

\* A status read from the store; a terminal one ends the socket.
SendState(otherwise) ==
  LET state == transcript[conn.id].state IN
  /\ page' = OnStatus(page, state)
  /\ conn' = IF state \in Terminal THEN Closed ELSE otherwise

Waiting == [conn EXCEPT !.pc = "wait", !.until = 0]

ReadState ==
  /\ conn.pc = "send" /\ conn.last >= conn.until
  /\ SendState(Waiting)

Take ==
  /\ conn.pc = "wait" /\ conn.q # <<>>
  /\ LET frame == Head(conn.q)
         taken == [conn EXCEPT !.q = Tail(@)]
     IN CASE frame.type = "segment" /\ frame.seq <= conn.last ->
               conn' = taken /\ UNCHANGED page
          [] frame.type = "segment" /\ frame.seq > conn.last ->
               /\ conn' = [taken EXCEPT !.last = frame.seq]
               /\ page' = OnSegment(page, conn.id, frame.seq)
          [] frame.type = "status" ->
               /\ conn' = Closed
               /\ page' = OnStatus(page, transcript[conn.id].state)
          [] frame.type = "close" ->
               conn' = [taken EXCEPT !.pc = "farewell"] /\ UNCHANGED page

\* Nothing came for _HEARTBEAT_S.
TimeOut ==
  /\ conn.pc = "wait" /\ conn.q = <<>>
  /\ conn' = [conn EXCEPT !.pc = "beat"]
  /\ UNCHANGED page

\* A bug: the heartbeat does not look at the state.
MutantBeat ==
  /\ conn.pc = "beat"
  /\ conn' = [conn EXCEPT !.pc = "wait"]
  /\ UNCHANGED page

Beat ==
  /\ conn.pc = "beat"
  /\ SendState(Waiting)

Farewell ==
  /\ conn.pc = "farewell"
  /\ SendState(Closed)

Handler ==
  /\ ReadReplay \/ SendReplayed \/ ReadState \/ Take \/ TimeOut \/ Beat \/ Farewell
  /\ UNCHANGED <<store, session, pub, rest, cuts, excuse>>

Drop ==
  /\ conn.pc \notin {"none", "closed"} /\ cuts < MaxCuts
  /\ cuts' = cuts + 1
  /\ conn' = Closed
  /\ UNCHANGED <<store, session, pub, page, rest, excuse>>

-----------------------------------------------------------------------------
(***************************************************************************)
(* The page.  onclose ends the tail after a terminal status, and the page  *)
(* then refetches; otherwise the tail reconnects from its cursor.          *)
(***************************************************************************)
After == IF page.id = 0 THEN 0 ELSE page.cursor

\* A bug: the end of the tail is taken for the end of the transcript.
MutantOnClose ==
  /\ conn.pc = "closed" /\ RestIdle
  /\ conn' = NoConn
  /\ page' = IF page.terminal THEN [page EXCEPT !.tail = FALSE, !.after = 0, !.terminal = FALSE]
                           ELSE page
  /\ UNCHANGED <<store, session, pub, rest, cuts, excuse>>

OnClose ==
  /\ conn.pc = "closed" /\ RestIdle
  /\ conn' = NoConn
  /\ IF page.terminal
       THEN /\ page' = [page EXCEPT !.tail = FALSE, !.after = 0, !.terminal = FALSE]
            /\ rest' = Get("end", After)
       ELSE UNCHANGED <<page, rest>>
  /\ UNCHANGED <<store, session, pub, cuts, excuse>>

\* onPoll re-reads the session, refetches while a job may change what is on screen.
Poll ==
  /\ RestIdle
  /\ LET p == [page EXCEPT !.active = session # "finished"]
         due == /\ ~p.tail
                /\ \/ p.pending \/ p.state \in {"pending", "finalising"}
                   \/ p.id = 0 /\ p.active
     IN IF due
          THEN page' = p /\ rest' = Get("poll", After)
          ELSE page' = StartTail(p) /\ UNCHANGED rest
  /\ UNCHANGED <<store, session, pub, conn, cuts, excuse>>

\* The button, where the page offers it, POSTs /transcribe and refetches.
Transcribe ==
  /\ RestIdle
  /\ ~page.active /\ ~page.pending
  /\ page.id = 0 \/ page.state \in Terminal
  /\ session = "finished" /\ ~RunningOnDemand(S)
  /\ \E i \in Id : CreateTranscript(i, S, "on_demand", "pending", "queued")
  /\ rest' = Get("button", After)
  /\ UNCHANGED <<session, pub, conn, page, cuts, excuse>>

\* GET /transcript: the current one, else the pending one, else the newest, else 404.
Newest == {i \in Id : transcript[i].state # "absent" /\ \A j \in Id :
                        transcript[j].state # "absent" => j <= i}
Selected == IF Current(S) # {} THEN Current(S)
            ELSE IF Pending # {} THEN PendingTranscript ELSE Newest

RestSelect ==
  /\ rest.pc = "select"
  /\ IF Selected = {}
       THEN /\ rest' = NoRest
            /\ page' = IF rest.why = "open" THEN StartTail(page) ELSE page
       ELSE /\ \E i \in Selected :
                 rest' = [rest EXCEPT !.pc = "read", !.id = i, !.state = transcript[i].state]
            /\ UNCHANGED page
  /\ UNCHANGED <<store, session, pub, conn, cuts, excuse>>

(***************************************************************************)
(* _response reads the jobs and then the rows after the cursor.  Rows of   *)
(* another transcript than the page's are thrown away, and all of them are *)
(* fetched again.                                                          *)
(***************************************************************************)
PendingJob(i) == \E j \in PendingTranscript : j # i

RestRead ==
  /\ rest.pc = "read"
  /\ LET i == rest.id
         overtaken == IF i \in Selected THEN "none" ELSE "overtaken"
         adopts == page.id = 0 \/ rest.whole
         same == page.id = i /\ ~rest.whole
         pending == PendingJob(i)
     IN CASE same ->
               /\ page' = WithRows([page EXCEPT !.state = rest.state, !.pending = pending],
                                   i, (rest.after + 1)..Len(segment[i]))
               /\ rest' = NoRest
               /\ Note(overtaken)
          [] ~same /\ adopts ->
               /\ page' \in Adopted(page, i, rest.state, pending)
               /\ rest' = NoRest
               /\ Note(IF page.tail THEN "mixed" ELSE overtaken)
          [] OTHER ->
               /\ rest' = [Get(rest.why, 0) EXCEPT !.whole = TRUE]
               /\ UNCHANGED <<page, excuse>>
  /\ UNCHANGED <<store, session, pub, conn, cuts>>

-----------------------------------------------------------------------------
(***************************************************************************)
(* The process dies and restarts; the lifespan reconciles before it serves *)
(* (TranscriptionWorker has its steps): a live transcript is interrupted,  *)
(* an on-demand one starts over.  A fetch under way fails, and the page    *)
(* gives it up.                                                            *)
(***************************************************************************)
Crash ==
  /\ cuts < MaxCuts
  /\ cuts' = cuts + 1
  /\ session' = "finished"
  /\ pub' = Resting
  /\ conn' = IF conn.pc = "none" THEN conn ELSE Closed
  /\ rest' = NoRest
  /\ page' = IF ~RestIdle /\ rest.why = "open" THEN StartTail(page) ELSE page
  /\ LET redone == {i \in OpenJobs : transcript[i].mode = "on_demand"}
         cut == OpenJobs \ redone
     IN
     /\ transcript' = [i \in Id |->
          IF i \in cut THEN [transcript[i] EXCEPT !.state = "interrupted_live", !.final = FALSE]
                       ELSE transcript[i]]
     /\ job' = [i \in Id |->
          IF i \in OpenJobs
            THEN [job[i] EXCEPT !.state = IF i \in cut THEN "failed" ELSE "queued"]
            ELSE job[i]]
     /\ segment' = [i \in Id |-> IF i \in redone THEN <<>> ELSE segment[i]]
     /\ Note(IF \E i \in redone : segment[i] # <<>>                THEN "redone"
             ELSE IF \E i \in OpenJobs : transcript[i].state \in Ended THEN "rewritten"
             ELSE IF ~RestIdle /\ rest.why # "poll"                    THEN "refresh"
                                                                      ELSE "none")

Next ==
  \/ BeginLive \/ StopSession \/ Publisher
  \/ Connect \/ Handler \/ Drop \/ OnClose
  \/ Poll \/ Transcribe \/ RestSelect \/ RestRead
  \/ Crash

(***************************************************************************)
(* The worker goes on with what it began, the event loop serves the        *)
(* handlers, the browser runs the page's timers and callbacks.             *)
(***************************************************************************)
Fairness ==
  /\ WF_svars(Publisher /\ GoesOn)
  /\ WF_svars(Handler)
  /\ WF_svars(Connect) /\ WF_svars(OnClose)
  /\ WF_svars(Poll) /\ WF_svars(RestSelect) /\ WF_svars(RestRead)

Spec == Init /\ [][Next]_svars /\ Fairness

-----------------------------------------------------------------------------
(***************************************************************************)
(* However replay, tail, reconnects and refetches overlap, the rows on     *)
(* screen have no gap: their seqs are the first ones, all of them, unless  *)
(* a queue was full (ws.py subscribes before it replays, streams.js        *)
(* reconnects from its cursor) or two transcripts were mixed.              *)
(***************************************************************************)
NoGap ==
  excuse = "none" =>
    SeqsOf(page.shown) = 1..Cardinality(SeqsOf(page.shown))

(***************************************************************************)
(* A handler that serves a transcript which has ended closes its socket,   *)
(* even when the status frame and the close marker were lost to a full     *)
(* queue: the heartbeat sees the state.                                    *)
(***************************************************************************)
Served == transcript[conn.id].state
SocketCloses ==
  (Subscribed /\ Served \in Terminal) ~> (~Subscribed \/ Served \notin Terminal)

(***************************************************************************)
(* The page ends up with the transcript: when the current transcript of    *)
(* the stopped session has ended and no pass runs, the tail ends and the   *)
(* page shows exactly its segments and its state - whatever the sockets    *)
(* lost - unless the page is excused.                                      *)
(***************************************************************************)
Settled ==
  /\ session = "finished" /\ OpenJobs = {}
  /\ \E i \in Current(S) : transcript[i].state \in Terminal
Shows(i) ==
  /\ page.id = i /\ page.state = transcript[i].state /\ ~page.tail
  /\ page.shown = {i} \X (1..Len(segment[i]))
Converges ==
  Settled ~> (~Settled \/ (\A i \in Current(S) : Shows(i)) \/ excuse # "none")
=============================================================================
