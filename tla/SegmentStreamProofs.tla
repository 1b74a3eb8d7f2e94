-------------------------- MODULE SegmentStreamProofs --------------------------
(***************************************************************************)
(* What TLAPS proves of SegmentStream: its types, and that the rows on the *)
(* page have no gap (NoGap), for every number of transcripts, segments,    *)
(* cuts and deaths and every size of the queue.                            *)
(***************************************************************************)
EXTENDS SegmentStream, OrderLemmas

-----------------------------------------------------------------------------
(***************************************************************************)
(* The type invariant with what keeps it: the segments of a transcript,    *)
(* the frames on their way and the end of a replay stay below the bound.   *)
(***************************************************************************)
Top == Max({MaxSegments[m] : m \in Mode})
SegFrame == [type : {"segment"}, seq : 1..Top]
MarkFrame == [type : {"status", "close"}, seq : {0}]
OwnFrame == SegFrame \cup MarkFrame

Sessions == {S, NoSession}
Pubs == [pc : PubPc, id : Id, verdict : Ended, next : PubPc]
Conns == [pc : ConnPc, id : Id, last : Nat, until : 0..Top, q : Seq(OwnFrame)]
Pages == [id : Id \cup {0}, shown : SUBSET (Id \X (1..Top)), cursor : Nat,
          state : TranscriptState, pending : BOOLEAN, active : BOOLEAN,
          tail : BOOLEAN, after : Nat, terminal : BOOLEAN]
Rests == [pc : {"none", "select", "read"}, why : {"open", "poll", "end", "button"},
          after : Nat, id : Id, state : TranscriptState, whole : BOOLEAN]

StoreHolds == StoreTypeOK(Sessions, {"speech"}) /\ \A i \in Id : Len(segment[i]) <= Top
PubHolds ==
  /\ pub \in Pubs /\ pub.next # "publish"
  /\ pub.pc = "publish" => Len(segment[pub.id]) >= 1
ConnTyped == conn \in Conns /\ Len(conn.q) <= MaxBuffer
PageTyped == page \in Pages /\ rest \in Rests
OthersTyped ==
  /\ session \in {"active", "stopping", "finished"}
  /\ cuts \in 0..MaxCuts
  /\ excuse \in Excuse

TypeInv == StoreHolds /\ PubHolds /\ ConnTyped /\ PageTyped /\ OthersTyped

LEMMA TopIs == Top \in Nat /\ \A m \in Mode : MaxSegments[m] \in Nat /\ MaxSegments[m] <= Top
<1>. DEFINE all == {MaxSegments[m] : m \in Mode}
<1>1. PICK a \in Nat, b \in Nat : a = MaxSegments["live"] /\ b = MaxSegments["on_demand"]
  BY StreamAssumption DEF Mode
<1>2. all = {a, b}
  BY <1>1 DEF Mode
<1>3. all \in SUBSET (0..(a + b)) /\ a + b \in Nat /\ all # {}
  BY <1>2
<1>4. Max(all) \in all /\ \A j \in all : j <= Max(all)
  <2>. HIDE DEF all
  <2>. QED  BY <1>3, MaxIs
<1>5. Max(all) \in Nat
  BY <1>2, <1>4
<1>. QED  BY <1>1, <1>4, <1>5 DEF Top, Mode

LEMMA FrameTypes ==
  /\ \A f \in OwnFrame : f.seq \in 0..Top /\ f \in Frame
  /\ Seq(OwnFrame) \subseteq Seq(Frame)
<1>1. \A f \in OwnFrame : f.seq \in 0..Top /\ f \in Frame
  BY TopIs DEF OwnFrame, SegFrame, MarkFrame, Frame
<1>2. ASSUME NEW q \in Seq(OwnFrame)  PROVE q \in Seq(Frame)
  BY <1>1
<1>. QED  BY <1>1, <1>2

LEMMA TypeInvMeans == TypeInv => StreamTypeOK
<1>. SUFFICES ASSUME TypeInv  PROVE StreamTypeOK
  OBVIOUS
<1>. USE DEF TypeInv
<1>1. conn \in [pc : ConnPc, id : Id, last : Nat, until : Nat, q : Seq(Frame)]
  <2>1. conn \in Conns /\ \A n \in 0..Top : n \in Nat
    BY TopIs DEF ConnTyped
  <2>. QED  BY <2>1, FrameTypes, Zenon DEF Conns
<1>2. page \in [id : Id \cup {0},
                shown : SUBSET (Id \X (1..Max({MaxSegments[m] : m \in Mode}))), cursor : Nat,
                state : TranscriptState, pending : BOOLEAN, active : BOOLEAN,
                tail : BOOLEAN, after : Nat, terminal : BOOLEAN]
  BY DEF PageTyped, Pages, Top
<1>. QED
  BY <1>1, <1>2
  DEF StreamTypeOK, StoreHolds, Sessions, PubHolds, Pubs, ConnTyped, PageTyped, Rests, OthersTyped

-----------------------------------------------------------------------------
(***************************************************************************)
(* What the page's functions return.                                       *)
(***************************************************************************)
LEMMA SeqsOfUnion ==
  ASSUME NEW a, NEW b  PROVE SeqsOf(a \cup b) = SeqsOf(a) \cup SeqsOf(b)
BY DEF SeqsOf

LEMMA SeqsOfRows ==
  ASSUME NEW i, NEW x  PROVE SeqsOf({i} \X x) = x
<1>1. ASSUME NEW n \in x  PROVE n \in SeqsOf({i} \X x)
  <2>1. <<i, n>> \in {i} \X x /\ <<i, n>>[2] = n
    OBVIOUS
  <2>. QED  BY <2>1, Zenon DEF SeqsOf
<1>2. \A r \in {i} \X x : r[2] \in x
  OBVIOUS
<1>3. \A n \in SeqsOf({i} \X x) : n \in x
  BY <1>2, Zenon DEF SeqsOf
<1>. QED  BY <1>1, <1>3

SamePage(p, q) ==
  /\ q.tail = p.tail /\ q.after = p.after /\ q.terminal = p.terminal
  /\ q.id = p.id /\ q.active = p.active

LEMMA WithRowsIs ==
  ASSUME NEW p \in Pages, NEW i \in Id, NEW seqs \in SUBSET (1..Top)
  PROVE  LET q == WithRows(p, i, seqs) IN
         /\ q \in Pages
         /\ SeqsOf(q.shown) = SeqsOf(p.shown) \cup seqs
         /\ q.cursor = p.cursor \/ q.cursor \in seqs
         /\ SamePage(p, q)
<1>. DEFINE fresh == seqs \ SeqsOf(p.shown)
            last == Max({p.cursor} \cup fresh)
            q == WithRows(p, i, seqs)
<1>1. q = [p EXCEPT !.shown = p.shown \cup ({i} \X fresh), !.cursor = last]
  BY DEF WithRows
<1>2. last = p.cursor \/ last \in fresh
  <2>1. PICK c \in Nat : c = p.cursor
    BY DEF Pages
  <2>2. PICK k \in Nat : k = c + Top
    BY TopIs
  <2>3. \A n \in {c} \cup fresh : n \in 0..k
    BY <2>2, TopIs
  <2>4. {c} \cup fresh \in SUBSET (0..k) /\ {c} \cup fresh # {}
    BY <2>3, Zenon
  <2>5. Max({c} \cup fresh) \in {c} \cup fresh
    <3>. HIDE DEF fresh
    <3>. QED  BY <2>4, MaxIs
  <2>. QED  BY <2>1, <2>5
<1>. HIDE DEF last
<1>3. last \in Nat
  <2>1. p.cursor \in Nat /\ \A n \in 1..Top : n \in Nat
    BY TopIs DEF Pages
  <2>. QED  BY <1>2, <2>1
<1>4. p.shown \cup ({i} \X fresh) \in SUBSET (Id \X (1..Top))
  BY DEF Pages
<1>5. q \in Pages
  <2>. HIDE DEF q, fresh
  <2>. QED  BY <1>1, <1>3, <1>4 DEF Pages
<1>6. q.shown = p.shown \cup ({i} \X fresh) /\ q.cursor = last /\ SamePage(p, q)
  <2>. HIDE DEF q, fresh
  <2>. QED  BY <1>1 DEF Pages, SamePage
<1>7. SeqsOf(q.shown) = SeqsOf(p.shown) \cup fresh
  <2>1. SeqsOf(p.shown \cup ({i} \X fresh)) = SeqsOf(p.shown) \cup SeqsOf({i} \X fresh)
    BY SeqsOfUnion
  <2>2. SeqsOf({i} \X fresh) = fresh
    BY SeqsOfRows
  <2>. HIDE DEF q, fresh
  <2>. QED  BY <1>6, <2>1, <2>2
<1>8. SeqsOf(p.shown) \cup fresh = SeqsOf(p.shown) \cup seqs
  OBVIOUS
<1>. QED  BY <1>2, <1>5, <1>6, <1>7, <1>8

LEMMA OnSegmentIs ==
  ASSUME NEW p \in Pages, NEW i \in Id, NEW n \in 1..Top, n > p.after
  PROVE  LET q == OnSegment(p, i, n) IN
         /\ q \in Pages
         /\ SeqsOf(q.shown) = SeqsOf(p.shown) \cup {n}
         /\ q.cursor = p.cursor \/ q.cursor = n
         /\ q.tail = p.tail /\ q.after = n
<1>. DEFINE p1 == [p EXCEPT !.after = n]
            q == WithRows(p1, i, {n})
<1>0. n \in Nat /\ p.after \in Nat
  BY TopIs DEF Pages
<1>1. p1 \in Pages /\ p1.shown = p.shown /\ p1.cursor = p.cursor /\ p1.tail = p.tail
      /\ p1.after = n
  BY <1>0 DEF Pages
<1>. HIDE DEF p1
<1>2. {n} \in SUBSET (1..Top)
  OBVIOUS
<1>3. /\ q \in Pages
      /\ SeqsOf(q.shown) = SeqsOf(p1.shown) \cup {n}
      /\ q.cursor = p1.cursor \/ q.cursor \in {n}
      /\ SamePage(p1, q)
  BY <1>1, <1>2, WithRowsIs, Zenon
<1>4. OnSegment(p, i, n) = q
  BY <1>0 DEF OnSegment, p1
<1>. HIDE DEF q
<1>. QED  BY <1>1, <1>3, <1>4 DEF SamePage

LEMMA OnStatusIs ==
  ASSUME NEW p \in Pages, NEW state \in TranscriptState
  PROVE  LET q == OnStatus(p, state) IN
         /\ q \in Pages
         /\ q.shown = p.shown /\ q.cursor = p.cursor /\ q.tail = p.tail /\ q.after = p.after
<1>1. (p.terminal \/ state \in Terminal) \in BOOLEAN
  BY DEF Pages
<1>. QED  BY <1>1 DEF OnStatus, Pages

LEMMA StartTailIs ==
  ASSUME NEW p \in Pages
  PROVE  LET q == StartTail(p) IN
         /\ q \in Pages
         /\ q.shown = p.shown /\ q.cursor = p.cursor
         /\ q = p \/ (~p.tail /\ q.tail /\ q.after = p.cursor)
<1>1. [p EXCEPT !.tail = TRUE, !.after = p.cursor, !.terminal = FALSE] \in Pages
  BY DEF Pages
<1>. QED  BY <1>1 DEF StartTail, Pages

-----------------------------------------------------------------------------
(***************************************************************************)
(* Types: the store and the parts that a step leaves alone.                *)
(***************************************************************************)
LEMMA Unchanged ==
  /\ StoreHolds /\ UNCHANGED store => StoreHolds'
  /\ PubHolds /\ UNCHANGED <<segment, pub>> => PubHolds'
  /\ ConnTyped /\ UNCHANGED conn => ConnTyped'
  /\ PageTyped /\ UNCHANGED <<page, rest>> => PageTyped'
  /\ OthersTyped /\ UNCHANGED <<session, cuts, excuse>> => OthersTyped'
<1>1. StoreHolds /\ UNCHANGED store => StoreHolds'
  BY DEF StoreHolds, StoreTypeOK, store
<1>2. PubHolds /\ UNCHANGED <<segment, pub>> => PubHolds'
  BY DEF PubHolds
<1>3. ConnTyped /\ UNCHANGED conn => ConnTyped'
  BY DEF ConnTyped
<1>4. PageTyped /\ UNCHANGED <<page, rest>> => PageTyped'
  BY DEF PageTyped
<1>5. OthersTyped /\ UNCHANGED <<session, cuts, excuse>> => OthersTyped'
  BY DEF OthersTyped
<1>. QED  BY <1>1, <1>2, <1>3, <1>4, <1>5

Rows == [session : Sessions, mode : Mode, state : TranscriptState, final : BOOLEAN]
Jobs == [state : JobState, progress : Nat, total : Nat]

LEMMA StoreIs ==
  StoreHolds <=>
    /\ transcript \in [Id -> Rows]
    /\ job \in [Id -> Jobs]
    /\ segment \in [Id -> Seq({"speech"})]
    /\ \A i \in Id : Len(segment[i]) <= Top
BY DEF StoreHolds, StoreTypeOK, Rows, Jobs

LEMMA StoreIsThen ==
  StoreHolds' <=>
    /\ transcript' \in [Id -> Rows]
    /\ job' \in [Id -> Jobs]
    /\ segment' \in [Id -> Seq({"speech"})]
    /\ \A i \in Id : Len(segment'[i]) <= Top
BY DEF StoreHolds, StoreTypeOK, Rows, Jobs

LEMMA CreateType ==
  ASSUME StoreHolds, NEW i \in Id, NEW mode \in Mode, NEW tstate \in TranscriptState,
         NEW jstate \in JobState, CreateTranscript(i, S, mode, tstate, jstate)
  PROVE  StoreHolds' /\ segment' = segment
<1>1. [session |-> S, mode |-> mode, state |-> tstate, final |-> FALSE] \in Rows
  BY DEF Rows, Sessions
<1>2. transcript' \in [Id -> Rows]
  BY <1>1, StoreIs DEF CreateTranscript
<1>3. job' \in [Id -> Jobs]
  <2>1. job[i] \in Jobs
    BY StoreIs
  <2>2. [job[i] EXCEPT !.state = jstate] \in Jobs
    BY <2>1 DEF Jobs
  <2>. QED  BY <2>2, StoreIs DEF CreateTranscript
<1>4. segment' = segment
  BY DEF CreateTranscript
<1>. QED  BY <1>2, <1>3, <1>4, StoreIs, StoreIsThen

LEMMA SetStateType ==
  ASSUME StoreHolds, NEW i \in Id, NEW state \in TranscriptState, NEW final \in BOOLEAN,
         transcript' = [transcript EXCEPT ![i].state = state, ![i].final = final]
  PROVE  transcript' \in [Id -> Rows]
<1>1. transcript[i] \in Rows
  BY StoreIs
<1>2. [transcript[i] EXCEPT !.state = state, !.final = final] \in Rows
  BY <1>1 DEF Rows
<1>. QED  BY <1>1, <1>2, StoreIs

LEMMA SetJobType ==
  ASSUME StoreHolds, NEW i \in Id, NEW state \in JobState,
         job' = [job EXCEPT ![i].state = state]
  PROVE  job' \in [Id -> Jobs]
<1>1. job[i] \in Jobs
  BY StoreIs
<1>2. [job[i] EXCEPT !.state = state] \in Jobs
  BY <1>1 DEF Jobs
<1>. QED  BY <1>2, StoreIs

LEMMA AppendType ==
  ASSUME StoreHolds, NEW i \in Id, RoomFor(i), AppendSegment(i, "speech")
  PROVE  /\ StoreHolds'
         /\ Len(segment'[i]) = Len(segment[i]) + 1 /\ Len(segment[i]) \in Nat
         /\ \A j \in Id : j # i => segment'[j] = segment[j]
<1>1. segment[i] \in Seq({"speech"}) /\ transcript[i].mode \in Mode
  BY StoreIs DEF Rows
<1>2. Len(segment[i]) \in Nat /\ Len(segment[i]) + 1 <= Top
  <2>1. Len(segment[i]) \in Nat
    BY <1>1
  <2>2. Len(segment[i]) < MaxSegments[transcript[i].mode]
    BY DEF RoomFor
  <2>3. PICK x \in Nat : x = MaxSegments[transcript[i].mode] /\ x <= Top
    BY <1>1, TopIs
  <2>. QED  BY <2>1, <2>2, <2>3, TopIs
<1>3. /\ Append(segment[i], "speech") \in Seq({"speech"})
      /\ Len(Append(segment[i], "speech")) = Len(segment[i]) + 1
  BY <1>1
<1>4. segment' = [segment EXCEPT ![i] = Append(segment[i], "speech")]
      /\ transcript' = transcript /\ job' = job
  BY DEF AppendSegment
<1>5. segment' \in [Id -> Seq({"speech"})]
  BY <1>3, <1>4, StoreIs
<1>6. segment'[i] = Append(segment[i], "speech") /\ \A j \in Id : j # i => segment'[j] = segment[j]
  BY <1>4, StoreIs
<1>7. \A j \in Id : Len(segment'[j]) <= Top
  BY <1>2, <1>3, <1>6, StoreIs
<1>. QED  BY <1>2, <1>3, <1>4, <1>5, <1>6, <1>7, StoreIs, StoreIsThen

-----------------------------------------------------------------------------
(***************************************************************************)
(* Types: the publisher.                                                   *)
(***************************************************************************)
LEMMA FramesAre ==
  /\ \A n \in 1..Top : SegmentFrame(n) \in OwnFrame
  /\ StatusFrame \in OwnFrame /\ CloseMarker \in OwnFrame
BY DEF OwnFrame, SegFrame, MarkFrame, SegmentFrame, StatusFrame, CloseMarker

LEMMA NoteType ==
  ASSUME excuse \in Excuse, NEW why \in Excuse, Note(why)
  PROVE  excuse' \in Excuse /\ (excuse' = "none" => excuse = "none" /\ why = "none")
BY DEF Note

LEMMA PutType ==
  ASSUME ConnTyped, ~Full, NEW frame \in OwnFrame, Put(frame)
  PROVE  ConnTyped'
<1>1. conn.q \in Seq(OwnFrame) /\ Len(conn.q) \in Nat /\ Len(conn.q) <= MaxBuffer
      /\ Len(conn.q) # MaxBuffer
  BY DEF ConnTyped, Conns, Full
<1>2. Append(conn.q, frame) \in Seq(OwnFrame) /\ Len(Append(conn.q, frame)) <= MaxBuffer
  BY <1>1, StreamAssumption
<1>3. conn' = [conn EXCEPT !.q = Append(conn.q, frame)] /\ conn \in Conns
  BY DEF Put, ConnTyped
<1>4. conn' \in Conns /\ conn'.q = Append(conn.q, frame)
  BY <1>2, <1>3 DEF Conns
<1>. QED  BY <1>2, <1>4 DEF ConnTyped

LEMMA OfferType ==
  ASSUME ConnTyped, pub \in Pubs, excuse \in Excuse, NEW i, NEW frame \in OwnFrame,
         pub.next # "publish", NEW next \in PubPc, next # "publish", Offer(i, frame, next)
  PROVE  /\ ConnTyped' /\ excuse' \in Excuse
         /\ pub' \in Pubs /\ pub'.pc # "publish" /\ pub'.next # "publish"
         /\ excuse' = "none" =>
              /\ excuse = "none" /\ pub' = [pub EXCEPT !.pc = next]
              /\ IF Listens(i) THEN Put(frame) ELSE conn' = conn
<1>1. [pub EXCEPT !.pc = next] \in Pubs /\ [pub EXCEPT !.pc = next].pc # "publish"
      /\ [pub EXCEPT !.pc = next].next # "publish"
  BY DEF Pubs
<1>2. [pub EXCEPT !.pc = "mark", !.next = next] \in Pubs
      /\ [pub EXCEPT !.pc = "mark", !.next = next].pc # "publish"
      /\ [pub EXCEPT !.pc = "mark", !.next = next].next # "publish"
  BY DEF Pubs, PubPc
<1>3. CASE ~Listens(i)
  BY <1>1, <1>3, Unchanged DEF Offer
<1>4. CASE Listens(i) /\ Full
  <2>1. excuse' \in Excuse /\ excuse' # "none"
    BY <1>4 DEF Offer, Note, Excuse
  <2>. QED  BY <1>2, <1>4, <2>1, Unchanged DEF Offer
<1>5. CASE Listens(i) /\ ~Full
  BY <1>1, <1>5, PutType DEF Offer
<1>. QED  BY <1>3, <1>4, <1>5

LEMMA CloseSubType ==
  ASSUME ConnTyped, NEW i, CloseSub(i)
  PROVE  ConnTyped'
BY PutType, FramesAre, Unchanged DEF CloseSub

LEMMA BeginsType ==
  ASSUME TypeInv, Begins
  PROVE  StoreHolds' /\ PubHolds' /\ UNCHANGED <<conn, excuse>>
<1>. USE DEF TypeInv, PubHolds
<1>0. pub \in Pubs /\ pub.id \in Id
  BY DEF Pubs
<1>p. \A pc \in PubPc, i \in Id, v \in Ended :
        Pub(pc, i, v) \in Pubs /\ Pub(pc, i, v).next # "publish"
  BY DEF Pub, Pubs, PubPc
<1>v. \A v \in Verdicts : v \in Ended /\ v \in TranscriptState /\ v \in JobState
  BY StreamAssumption DEF Ended, TranscriptState, JobState
<1>1. CASE FlushSegment
  <2>1. StoreHolds' /\ pub' = pub /\ UNCHANGED <<conn, excuse>>
    BY <1>0, <1>1, AppendType DEF FlushSegment
  <2>2. pub'.pc # "publish"
    BY <1>1 DEF FlushSegment
  <2>. QED  BY <1>0, <2>1, <2>2
<1>2. ASSUME NEW i \in Id, StoreSegment(i)
      PROVE  StoreHolds' /\ PubHolds' /\ UNCHANGED <<conn, excuse>>
  <2>1. /\ StoreHolds'
        /\ Len(segment'[i]) = Len(segment[i]) + 1 /\ Len(segment[i]) \in Nat
    BY <1>2, AppendType DEF StoreSegment
  <2>2. pub' = Pub("publish", i, "completed") /\ UNCHANGED <<conn, excuse>>
    BY <1>2 DEF StoreSegment
  <2>3. pub' \in Pubs /\ pub'.next # "publish"
    BY <1>p, <2>2 DEF PubPc, Ended
  <2>4. pub'.id = i
    BY <2>2 DEF Pub
  <2>. QED  BY <2>1, <2>2, <2>3, <2>4
<1>3. ASSUME NEW i \in Id, Finalising(i)
      PROVE  StoreHolds' /\ PubHolds' /\ UNCHANGED <<conn, excuse>>
  <2>1. transcript' \in [Id -> Rows]
    BY <1>3, SetStateType DEF Finalising, TranscriptState
  <2>2. job' \in [Id -> Jobs]
    BY <1>3, SetJobType DEF Finalising, JobState
  <2>3. UNCHANGED <<segment, pub, conn, excuse>>
    BY <1>3 DEF Finalising
  <2>. QED  BY <2>1, <2>2, <2>3, StoreIs, StoreIsThen
<1>4. ASSUME NEW i \in Id, StartJob(i)
      PROVE  StoreHolds' /\ PubHolds' /\ UNCHANGED <<conn, excuse>>
  <2>1. job' = [job EXCEPT ![i].state = "running"]
        /\ UNCHANGED <<transcript, segment, pub, conn, excuse>>
    BY <1>4, StoreIs DEF StartJob, SetJobState, UpdateJob, Jobs
  <2>2. job' \in [Id -> Jobs]
    BY <2>1, SetJobType DEF JobState
  <2>. QED  BY <2>1, <2>2, StoreIs, StoreIsThen
<1>5. ASSUME NEW i \in Id, FlushOnDemand(i)
      PROVE  StoreHolds' /\ PubHolds' /\ UNCHANGED <<conn, excuse>>
  <2>1. pub' = Pub("flush", i, "completed") /\ UNCHANGED store /\ UNCHANGED <<conn, excuse>>
    BY <1>5 DEF FlushOnDemand
  <2>2. pub' \in Pubs /\ pub'.pc # "publish" /\ pub'.next # "publish"
    BY <1>p, <2>1 DEF PubPc, Ended, Pub
  <2>. QED  BY <2>1, <2>2, Unchanged
<1>6. ASSUME NEW i \in Id, NEW v \in Verdicts, EndLive(i, v) \/ EndOnDemand(i, v)
      PROVE  StoreHolds' /\ PubHolds' /\ UNCHANGED <<conn, excuse>>
  <2>1. SetState(i, v, v = "completed") /\ pub' = Pub("job", i, v)
        /\ UNCHANGED <<conn, excuse>>
    BY <1>6 DEF EndLive, EndOnDemand
  <2>2. transcript' \in [Id -> Rows]
    BY <1>v, <2>1, SetStateType DEF SetState
  <2>3. pub' \in Pubs /\ pub'.pc # "publish" /\ pub'.next # "publish"
    BY <1>p, <1>v, <2>1 DEF PubPc, Pub
  <2>. QED  BY <2>1, <2>2, <2>3, StoreIs, StoreIsThen DEF SetState
<1>. QED  BY <1>1, <1>2, <1>3, <1>4, <1>5, <1>6 DEF Begins

LEMMA RestingType == Resting \in Pubs /\ Resting.pc = "idle" /\ Resting.next # "publish"
BY StreamAssumption DEF Resting, Pub, Pubs, PubPc, Ended, Id

LEMMA GoesOnType ==
  ASSUME TypeInv, GoesOn
  PROVE  StoreHolds' /\ PubHolds' /\ ConnTyped' /\ excuse' \in Excuse
<1>. USE DEF TypeInv, PubHolds, OthersTyped
<1>0. /\ pub \in Pubs /\ pub.id \in Id /\ pub.next \in PubPc /\ pub.verdict \in JobState
      /\ segment[pub.id] \in Seq({"speech"}) /\ Len(segment[pub.id]) <= Top
  BY StoreIs DEF Pubs, Ended, JobState
<1>1. CASE PublishSegment
  <2>1. PICK n \in Nat : n = Len(segment[pub.id])
    BY <1>0
  <2>2. n \in 1..Top
    BY <1>0, <1>1, <2>1, TopIs DEF PublishSegment
  <2>3. Offer(pub.id, SegmentFrame(n), "idle") /\ UNCHANGED store
    BY <1>1, <2>1 DEF PublishSegment
  <2>4. /\ ConnTyped' /\ excuse' \in Excuse
        /\ pub' \in Pubs /\ pub'.pc # "publish" /\ pub'.next # "publish"
    BY <1>0, <2>2, <2>3, OfferType, FramesAre DEF PubPc
  <2>. QED  BY <2>3, <2>4, Unchanged
<1>2. CASE MarkDropped
  <2>1. ConnTyped'
    BY <1>2, CloseSubType DEF MarkDropped
  <2>2. pub' = [pub EXCEPT !.pc = pub.next] /\ UNCHANGED store /\ UNCHANGED excuse
    BY <1>2 DEF MarkDropped
  <2>3. pub' \in Pubs /\ pub'.pc # "publish" /\ pub'.next # "publish"
    BY <1>0, <2>2 DEF Pubs
  <2>. QED  BY <2>1, <2>2, <2>3, Unchanged
<1>3. CASE WriteJob
  <2>1. job' = [job EXCEPT ![pub.id].state = pub.verdict]
        /\ UNCHANGED <<transcript, segment, conn, excuse>>
    BY <1>0, <1>3, StoreIs DEF WriteJob, SetJobState, UpdateJob, Jobs
  <2>2. job' \in [Id -> Jobs]
    BY <1>0, <2>1, SetJobType
  <2>3. pub' = [pub EXCEPT !.pc = "status"] \/ pub' = Resting
    BY <1>3 DEF WriteJob
  <2>4. pub' \in Pubs /\ pub'.pc # "publish" /\ pub'.next # "publish"
    BY <1>0, RestingType, <2>3 DEF Pubs, PubPc
  <2>5. StoreHolds'
    BY <2>1, <2>2, StoreIs, StoreIsThen
  <2>. QED  BY <2>1, <2>4, <2>5, Unchanged
<1>4. CASE PublishStatus
  <2>1. Offer(pub.id, StatusFrame, "close") /\ UNCHANGED store
    BY <1>4 DEF PublishStatus
  <2>2. /\ ConnTyped' /\ excuse' \in Excuse
        /\ pub' \in Pubs /\ pub'.pc # "publish" /\ pub'.next # "publish"
    BY <1>0, <2>1, OfferType, FramesAre DEF PubPc
  <2>. QED  BY <2>1, <2>2, Unchanged
<1>5. CASE Close
  <2>1. ConnTyped'
    BY <1>5, CloseSubType DEF Close
  <2>2. pub' = Resting /\ UNCHANGED store /\ UNCHANGED excuse
    BY <1>5 DEF Close
  <2>. QED  BY RestingType, <2>1, <2>2, Unchanged
<1>. QED  BY <1>1, <1>2, <1>3, <1>4, <1>5 DEF GoesOn

LEMMA PublisherType ==
  ASSUME TypeInv, Publisher
  PROVE  TypeInv'
<1>1. UNCHANGED <<session, page, rest, cuts>>
  BY DEF Publisher
<1>2. StoreHolds' /\ PubHolds' /\ ConnTyped' /\ excuse' \in Excuse
  <2>1. CASE Begins
    BY <2>1, BeginsType, Unchanged DEF TypeInv, OthersTyped
  <2>2. CASE GoesOn
    BY <2>2, GoesOnType
  <2>. QED  BY <2>1, <2>2 DEF Publisher
<1>. QED  BY <1>1, <1>2, Unchanged DEF TypeInv, OthersTyped

-----------------------------------------------------------------------------
(***************************************************************************)
(* Types: the handler and the page.                                        *)
(***************************************************************************)
LEMMA ClosedType ==
  ASSUME conn \in Conns
  PROVE  Closed \in Conns /\ Len(Closed.q) <= MaxBuffer /\ Closed.pc = "closed"
<1>1. <<>> \in Seq(OwnFrame) /\ Len(<<>>) <= MaxBuffer /\ 0 \in 0..Top
  BY StreamAssumption, TopIs
<1>. QED  BY <1>1 DEF Closed, Conns, ConnPc

LEMMA WaitingType ==
  ASSUME conn \in Conns
  PROVE  /\ Waiting \in Conns /\ Waiting.q = conn.q /\ Waiting.id = conn.id
         /\ Waiting.last = conn.last /\ Waiting.pc = "wait"
<1>1. 0 \in 0..Top
  BY TopIs
<1>. QED  BY <1>1 DEF Waiting, Conns, ConnPc

LEMMA StateRead ==
  ASSUME StoreHolds, ConnTyped
  PROVE  conn.id \in Id /\ transcript[conn.id].state \in TranscriptState
BY StoreIs DEF ConnTyped, Conns, Rows

\* A frame that is taken: it has the type of its sender, and the rest stays.
LEMMA TakenIs ==
  ASSUME ConnTyped, conn.q # <<>>
  PROVE  /\ Head(conn.q) \in OwnFrame /\ Head(conn.q) = conn.q[1]
         /\ [conn EXCEPT !.q = Tail(conn.q)] \in Conns
         /\ Len(Tail(conn.q)) = Len(conn.q) - 1 /\ Len(conn.q) \in Nat /\ Len(conn.q) > 0
         /\ \A k \in 1..(Len(conn.q) - 1) : Tail(conn.q)[k] = conn.q[k + 1]
<1>1. conn \in Conns /\ conn.q \in Seq(OwnFrame)
  BY DEF ConnTyped, Conns
<1>2. Head(conn.q) \in OwnFrame /\ Head(conn.q) = conn.q[1] /\ Tail(conn.q) \in Seq(OwnFrame)
  BY <1>1
<1>3. Len(Tail(conn.q)) = Len(conn.q) - 1 /\ Len(conn.q) \in Nat /\ Len(conn.q) > 0
  BY <1>1
<1>4. \A k \in 1..(Len(conn.q) - 1) : Tail(conn.q)[k] = conn.q[k + 1]
  BY <1>1
<1>5. [conn EXCEPT !.q = Tail(conn.q)] \in Conns
  BY <1>1, <1>2 DEF Conns
<1>. QED  BY <1>2, <1>3, <1>4, <1>5

LEMMA SegmentTyped ==
  ASSUME NEW f \in OwnFrame
  PROVE  /\ f.type \in {"segment", "status", "close"} /\ f.seq \in Nat
         /\ f.type = "segment" => f.seq \in 1..Top
<1>1. CASE f \in SegFrame
  BY <1>1, TopIs DEF SegFrame
<1>2. CASE f \in MarkFrame
  BY <1>2 DEF MarkFrame
<1>. QED  BY <1>1, <1>2 DEF OwnFrame

LEMMA SendReplayedType ==
  ASSUME TypeInv, SendReplayed
  PROVE  ConnTyped' /\ page' \in Pages
<1>. USE DEF TypeInv, ConnTyped, PageTyped
<1>1. PICK n \in Nat : n = conn.last
  BY DEF Conns
<1>2. n < conn.until /\ conn.until \in 0..Top
  BY <1>1 DEF SendReplayed, Conns
<1>3. n + 1 \in 1..Top /\ n + 1 \in Nat
  BY <1>1, <1>2, TopIs
<1>4. conn' = [conn EXCEPT !.last = n + 1] /\ page' = OnSegment(page, conn.id, n + 1)
  BY <1>1 DEF SendReplayed
<1>5. conn' \in Conns /\ conn'.q = conn.q
  BY <1>3, <1>4 DEF Conns
<1>6. page' \in Pages
  <2>1. CASE n + 1 <= page.after
    BY <1>4, <2>1 DEF OnSegment
  <2>2. CASE ~(n + 1 <= page.after)
    <3>1. n + 1 > page.after /\ conn.id \in Id
      BY <1>3, <2>2 DEF Pages, Conns
    <3>. QED  BY <1>3, <1>4, <3>1, OnSegmentIs
  <2>. QED  BY <2>1, <2>2
<1>. QED  BY <1>5, <1>6

\* What Take does to the connection and the page, case by case.
LEMMA TakeIs ==
  ASSUME ConnTyped, page \in Pages, Take
  PROVE  /\ conn.q # <<>> /\ conn.pc = "wait"
         /\ \/ /\ Head(conn.q).type = "segment" /\ Head(conn.q).seq <= conn.last
               /\ conn' = [conn EXCEPT !.q = Tail(conn.q)] /\ page' = page
            \/ /\ Head(conn.q).type = "segment" /\ Head(conn.q).seq > conn.last
               /\ conn' = [conn EXCEPT !.q = Tail(conn.q), !.last = Head(conn.q).seq]
               /\ page' = OnSegment(page, conn.id, Head(conn.q).seq)
            \/ /\ conn' = Closed
               /\ page' = OnStatus(page, transcript[conn.id].state)
            \/ /\ Head(conn.q).type = "close"
               /\ conn' = [conn EXCEPT !.q = Tail(conn.q), !.pc = "farewell"]
               /\ page' = page
<1>1. conn.q # <<>> /\ conn.pc = "wait"
  BY DEF Take
<1>2. PICK f \in OwnFrame : f = Head(conn.q)
  BY <1>1, TakenIs
<1>3. f.type \in {"segment", "status", "close"} /\ f.seq \in Nat /\ conn.last \in Nat
  BY SegmentTyped DEF ConnTyped, Conns
<1>4. CASE f.type = "segment" /\ f.seq <= conn.last
  BY <1>1, <1>2, <1>4 DEF Take
<1>5. CASE f.type = "segment" /\ f.seq > conn.last
  BY <1>1, <1>2, <1>3, <1>5 DEF Take
<1>6. CASE f.type = "status"
  BY <1>1, <1>2, <1>6 DEF Take
<1>7. CASE f.type = "close"
  BY <1>1, <1>2, <1>7 DEF Take
<1>. QED  BY <1>3, <1>4, <1>5, <1>6, <1>7

LEMMA TakeType ==
  ASSUME TypeInv, Take
  PROVE  ConnTyped' /\ page' \in Pages
<1>. USE DEF TypeInv, ConnTyped, PageTyped
<1>1. PICK t \in Conns : t = [conn EXCEPT !.q = Tail(conn.q)]
  BY TakeIs, TakenIs
<1>2. PICK f \in OwnFrame : f = Head(conn.q)
  BY TakeIs, TakenIs
<1>3. t.q = Tail(conn.q) /\ Len(t.q) <= MaxBuffer
  <2>1. Len(Tail(conn.q)) = Len(conn.q) - 1 /\ Len(conn.q) \in Nat
    BY TakeIs, TakenIs
  <2>. QED  BY <1>1, <2>1, StreamAssumption DEF Conns
<1>4. f.seq \in Nat /\ (f.type = "segment" => f.seq \in 1..Top)
  BY SegmentTyped
<1>5. CASE conn' = t /\ page' = page
  BY <1>3, <1>5
<1>6. CASE /\ f.type = "segment" /\ f.seq > conn.last
           /\ conn' = [t EXCEPT !.last = f.seq]
           /\ page' = OnSegment(page, conn.id, f.seq)
  <2>1. conn' \in Conns /\ conn'.q = t.q
    BY <1>4, <1>6 DEF Conns
  <2>2. page' \in Pages
    <3>1. CASE f.seq <= page.after
      BY <1>6, <3>1 DEF OnSegment
    <3>2. CASE ~(f.seq <= page.after)
      <4>1. f.seq > page.after /\ conn.id \in Id
        BY <1>4, <3>2 DEF Pages, Conns
      <4>. QED  BY <1>4, <1>6, <4>1, OnSegmentIs
    <3>. QED  BY <3>1, <3>2
  <2>. QED  BY <1>3, <2>1, <2>2
<1>7. CASE conn' = Closed /\ page' = OnStatus(page, transcript[conn.id].state)
  BY <1>7, ClosedType, StateRead, OnStatusIs
<1>8. CASE conn' = [t EXCEPT !.pc = "farewell"] /\ page' = page
  <2>1. conn' \in Conns /\ conn'.q = t.q
    BY <1>8 DEF Conns, ConnPc
  <2>. QED  BY <1>3, <1>8, <2>1
<1>9. [conn EXCEPT !.q = Tail(conn.q), !.last = Head(conn.q).seq] = [t EXCEPT !.last = f.seq]
      /\ [conn EXCEPT !.q = Tail(conn.q), !.pc = "farewell"] = [t EXCEPT !.pc = "farewell"]
  BY <1>1, <1>2 DEF Conns
<1>. QED  BY <1>1, <1>2, <1>5, <1>6, <1>7, <1>8, <1>9, TakeIs

LEMMA HandlerType ==
  ASSUME TypeInv, Handler
  PROVE  TypeInv'
<1>. USE DEF TypeInv, ConnTyped, PageTyped
<1>0. UNCHANGED store /\ UNCHANGED <<session, pub, rest, cuts, excuse>> /\ segment' = segment
  BY DEF Handler, store
<1>1. ConnTyped' /\ page' \in Pages
  <2>1. CASE ReadReplay
    <3>1. PICK n \in 0..Top : n = Len(segment[conn.id])
      <4>1. segment[conn.id] \in Seq({"speech"}) /\ Len(segment[conn.id]) <= Top
        BY StoreIs DEF Conns
      <4>. QED  BY <4>1, TopIs
    <3>2. conn' = [conn EXCEPT !.pc = "send", !.until = n] /\ page' = page
      BY <2>1, <3>1 DEF ReadReplay
    <3>3. conn' \in Conns /\ conn'.q = conn.q
      BY <3>2 DEF Conns, ConnPc
    <3>. QED  BY <3>2, <3>3
  <2>2. CASE SendReplayed
    BY <2>2, SendReplayedType
  <2>3. CASE Take
    BY <2>3, TakeType
  <2>4. CASE TimeOut
    <3>1. conn' \in Conns /\ conn'.q = conn.q /\ page' = page
      BY <2>4 DEF TimeOut, Conns, ConnPc
    <3>. QED  BY <3>1
  <2>5. CASE ReadState \/ Beat \/ Farewell
    <3>1. page' = OnStatus(page, transcript[conn.id].state) /\ conn' \in {Closed, Waiting}
      BY <2>5 DEF ReadState, Beat, Farewell, SendState
    <3>2. page' \in Pages
      BY <3>1, StateRead, OnStatusIs
    <3>. QED  BY <3>1, <3>2, ClosedType, WaitingType
  <2>. QED  BY <2>1, <2>2, <2>3, <2>4, <2>5 DEF Handler
<1>. QED  BY <1>0, <1>1, Unchanged

LEMMA ConnectType ==
  ASSUME TypeInv, Connect
  PROVE  TypeInv'
<1>. USE DEF TypeInv
<1>1. PICK i \in Id :
        /\ conn' = [NoConn EXCEPT !.pc = "replay", !.id = i, !.last = page.after]
        /\ Note(IF page.id \notin {0, i} \/ \E r \in page.shown : r[1] # i
                 THEN "mixed" ELSE "none")
  <2>1. \A i \in (IF Current(S) # {} THEN Current(S) ELSE PendingTranscript) : i \in Id
    BY DEF Current, PendingTranscript, Pending
  <2>. QED  BY <2>1 DEF Connect
<1>2. ConnTyped'
  <2>1. page.after \in Nat
    BY DEF PageTyped, Pages
  <2>2. <<>> \in Seq(OwnFrame) /\ Len(<<>>) <= MaxBuffer /\ 0 \in 0..Top
    BY StreamAssumption, TopIs
  <2>. QED  BY <1>1, <2>1, <2>2 DEF ConnTyped, Conns, ConnPc, NoConn
<1>3. excuse' \in Excuse
  BY <1>1, NoteType DEF OthersTyped, Excuse
<1>. QED  BY <1>2, <1>3, Unchanged DEF Connect, OthersTyped, store

LEMMA NoConnType == NoConn \in Conns /\ Len(NoConn.q) <= MaxBuffer
<1>1. <<>> \in Seq(OwnFrame) /\ Len(<<>>) <= MaxBuffer /\ 0 \in 0..Top /\ 1 \in Id
  BY StreamAssumption, TopIs DEF Id
<1>. QED  BY <1>1 DEF NoConn, Conns, ConnPc

LEMMA GetType ==
  ASSUME NEW why \in {"open", "poll", "end", "button"}, NEW after \in Nat
  PROVE  /\ Get(why, after) \in Rests /\ Get(why, after).after = after
         /\ NoRest \in Rests /\ NoRest.after = 0
<1>1. 1 \in Id
  BY StreamAssumption DEF Id
<1>. QED  BY <1>1 DEF Get, NoRest, Rests, TranscriptState

LEMMA AfterType ==
  ASSUME page \in Pages
  PROVE  After \in Nat /\ (After = 0 \/ After = page.cursor)
BY DEF After, Pages

LEMMA OnCloseType ==
  ASSUME TypeInv, OnClose
  PROVE  TypeInv'
<1>. USE DEF TypeInv, PageTyped
<1>1. ConnTyped'
  BY NoConnType DEF ConnTyped, OnClose
<1>2. page' \in Pages /\ rest' \in Rests
  <2>1. [page EXCEPT !.tail = FALSE, !.after = 0, !.terminal = FALSE] \in Pages
    BY DEF Pages
  <2>2. Get("end", After) \in Rests
    BY GetType, AfterType
  <2>. QED  BY <2>1, <2>2 DEF OnClose
<1>. QED  BY <1>1, <1>2, Unchanged DEF OnClose, store

LEMMA PollType ==
  ASSUME TypeInv, Poll
  PROVE  TypeInv'
<1>. USE DEF TypeInv, PageTyped
<1>1. PICK p \in Pages : p = [page EXCEPT !.active = session # "finished"]
  BY DEF Pages
<1>2. (page' = p /\ rest' = Get("poll", After)) \/ (page' = StartTail(p) /\ rest' = rest)
  BY <1>1 DEF Poll
<1>3. page' \in Pages /\ rest' \in Rests
  BY <1>2, GetType, AfterType, StartTailIs
<1>. QED  BY <1>3, Unchanged DEF Poll, store

LEMMA TranscribeType ==
  ASSUME TypeInv, Transcribe
  PROVE  TypeInv'
<1>. USE DEF TypeInv, PageTyped
<1>1. PICK i \in Id : CreateTranscript(i, S, "on_demand", "pending", "queued")
  BY DEF Transcribe
<1>2. StoreHolds' /\ segment' = segment
  BY <1>1, CreateType DEF Mode, TranscriptState, JobState
<1>3. page' \in Pages /\ rest' \in Rests
  BY GetType, AfterType DEF Transcribe
<1>. QED  BY <1>2, <1>3, Unchanged DEF Transcribe

LEMMA RestSelectType ==
  ASSUME TypeInv, RestSelect
  PROVE  TypeInv'
<1>. USE DEF TypeInv, PageTyped
<1>1. CASE Selected = {}
  <2>1. rest' = NoRest /\ page' \in {StartTail(page), page}
    BY <1>1 DEF RestSelect
  <2>2. page' \in Pages /\ rest' \in Rests
    BY <2>1, StartTailIs, GetType
  <2>. QED  BY <2>2, Unchanged DEF RestSelect, store
<1>2. CASE Selected # {}
  <2>1. Selected \subseteq Id
    BY DEF Selected, Current, Pending, PendingTranscript, Newest
  <2>2. PICK i \in Selected :
          rest' = [rest EXCEPT !.pc = "read", !.id = i, !.state = transcript[i].state]
    BY <1>2 DEF RestSelect
  <2>3. transcript[i].state \in TranscriptState /\ i \in Id
    BY <2>1, StoreIs DEF Rows
  <2>4. rest' \in Rests /\ page' = page
    BY <1>2, <2>2, <2>3 DEF Rests, RestSelect
  <2>. QED  BY <2>4, Unchanged DEF RestSelect, store
<1>. QED  BY <1>1, <1>2

LEMMA AdoptedIs ==
  ASSUME StoreHolds, page \in Pages, NEW i \in Id, NEW state \in TranscriptState,
         NEW pending \in BOOLEAN, NEW q \in Adopted(page, i, state, pending)
  PROVE  \E n \in 0..Top :
           /\ q \in Pages /\ SeqsOf(q.shown) = 1..n /\ q.cursor <= n
           /\ ~page.tail => (q.tail /\ q.after = q.cursor) \/ (~q.tail /\ q.after = page.after)
<1>1. PICK n \in 0..Top : n = Len(segment[i])
  <2>1. segment[i] \in Seq({"speech"}) /\ Len(segment[i]) <= Top
    BY StoreIs
  <2>. QED  BY <2>1, TopIs
<1>2. PICK c \in IF 1..n = {} THEN {0} ELSE 1..n :
        q = StartTail([page EXCEPT !.id = i, !.state = state, !.pending = pending,
                                   !.shown = {i} \X (1..n), !.cursor = c])
  BY <1>1, Zenon DEF Adopted
<1>3. n \in Nat /\ c \in Nat /\ c <= n
  BY <1>2, TopIs
<1>4. PICK p \in Pages :
        /\ p = [page EXCEPT !.id = i, !.state = state, !.pending = pending,
                            !.shown = {i} \X (1..n), !.cursor = c]
        /\ p.shown = {i} \X (1..n) /\ p.cursor = c /\ p.tail = page.tail /\ p.after = page.after
  <2>1. {i} \X (1..n) \in SUBSET (Id \X (1..Top))
    BY <1>3, TopIs
  <2>2. [page EXCEPT !.id = i, !.state = state, !.pending = pending,
                     !.shown = {i} \X (1..n), !.cursor = c] \in Pages
    BY <1>3, <2>1 DEF Pages
  <2>. QED  BY <2>2 DEF Pages
<1>5. /\ q \in Pages /\ q.shown = {i} \X (1..n) /\ q.cursor = c
      /\ q = p \/ (~p.tail /\ q.tail /\ q.after = c)
  BY <1>2, <1>4, StartTailIs
<1>6. SeqsOf(q.shown) = 1..n
  BY <1>5, SeqsOfRows
<1>7. ~page.tail => (q.tail /\ q.after = q.cursor) \/ (~q.tail /\ q.after = page.after)
  BY <1>4, <1>5
<1>. QED  BY <1>1, <1>3, <1>5, <1>6, <1>7

\* What RestRead does to the page, case by case.
LEMMA RestReadIs ==
  ASSUME StoreHolds, PageTyped, excuse \in Excuse, RestRead
  PROVE  LET i == rest.id
             pending == PendingJob(i)
             p1 == [page EXCEPT !.state = rest.state, !.pending = pending]
             seqs == (rest.after + 1)..Len(segment[i])
         IN /\ i \in Id /\ pending \in BOOLEAN /\ seqs \in SUBSET (1..Top)
            /\ Len(segment[i]) \in 0..Top
            /\ excuse' \in Excuse /\ (excuse' = "none" => excuse = "none")
            /\ \/ page' = WithRows(p1, i, seqs) /\ rest' = NoRest
               \/ /\ page' \in Adopted(page, i, rest.state, pending) /\ rest' = NoRest
                  /\ excuse' = "none" => ~page.tail
               \/ page' = page /\ rest' = [Get(rest.why, 0) EXCEPT !.whole = TRUE]
<1>. DEFINE i == rest.id
            pending == PendingJob(i)
            p1 == [page EXCEPT !.state = rest.state, !.pending = pending]
            seqs == (rest.after + 1)..Len(segment[i])
            same == page.id = i /\ ~rest.whole
            adopts == page.id = 0 \/ rest.whole
            overtaken == IF i \in Selected THEN "none" ELSE "overtaken"
<1>1. i \in Id /\ rest.after \in Nat
  BY DEF PageTyped, Rests
<1>2. pending \in BOOLEAN
  BY DEF PendingJob
<1>3. segment[i] \in Seq({"speech"}) /\ Len(segment[i]) \in Nat /\ Len(segment[i]) <= Top
  BY <1>1, StoreIs
<1>4. seqs \in SUBSET (1..Top) /\ Len(segment[i]) \in 0..Top
  BY <1>1, <1>3, TopIs
<1>5. overtaken \in Excuse /\ "mixed" \in Excuse
  BY DEF Excuse
<1>. DEFINE Body ==
              /\ excuse' \in Excuse /\ (excuse' = "none" => excuse = "none")
              /\ \/ page' = WithRows(p1, i, seqs) /\ rest' = NoRest
                 \/ /\ page' \in Adopted(page, i, rest.state, pending) /\ rest' = NoRest
                    /\ excuse' = "none" => ~page.tail
                 \/ page' = page /\ rest' = [Get(rest.why, 0) EXCEPT !.whole = TRUE]
<1>6. ASSUME same  PROVE Body
  <2>1. page' = WithRows(p1, i, seqs) /\ rest' = NoRest /\ Note(overtaken)
    BY <1>6 DEF RestRead
  <2>. HIDE DEF overtaken, p1, seqs, pending
  <2>. QED  BY <1>5, <2>1, NoteType
<1>7. ASSUME ~same, adopts  PROVE Body
  <2>1. /\ page' \in Adopted(page, i, rest.state, pending) /\ rest' = NoRest
        /\ Note(IF page.tail THEN "mixed" ELSE overtaken)
    BY <1>7 DEF RestRead
  <2>2. excuse' = "none" => ~page.tail
    BY <2>1 DEF Note
  <2>3. excuse' \in Excuse /\ (excuse' = "none" => excuse = "none")
    <3>. HIDE DEF overtaken
    <3>. QED  BY <1>5, <2>1, NoteType
  <2>. HIDE DEF overtaken, p1, seqs, pending
  <2>. QED  BY <2>1, <2>2, <2>3
<1>8. ASSUME ~same, ~adopts  PROVE Body
  <2>1. rest' = [Get(rest.why, 0) EXCEPT !.whole = TRUE] /\ page' = page /\ excuse' = excuse
    BY <1>8 DEF RestRead
  <2>. QED  BY <2>1
<1>9. Body
  BY <1>6, <1>7, <1>8
<1>. QED  BY <1>1, <1>2, <1>4, <1>9

LEMMA RestReadType ==
  ASSUME TypeInv, RestRead
  PROVE  TypeInv'
<1>. USE DEF TypeInv, PageTyped, OthersTyped
<1>1. PICK i \in Id, pending \in BOOLEAN, p1 \in Pages :
        /\ i = rest.id /\ pending = PendingJob(i)
        /\ p1 = [page EXCEPT !.state = rest.state, !.pending = pending]
  BY DEF Rests, PendingJob, Pages
<1>2. PICK seqs \in SUBSET (1..Top) : seqs = (rest.after + 1)..Len(segment[i])
  BY <1>1, RestReadIs
<1>3. page' \in Pages /\ rest' \in Rests
  <2>1. CASE page' = WithRows(p1, i, seqs) /\ rest' = NoRest
    BY <2>1, WithRowsIs, GetType
  <2>2. CASE page' \in Adopted(page, i, rest.state, pending) /\ rest' = NoRest
    BY <1>1, <2>2, AdoptedIs, GetType DEF Rests
  <2>3. CASE page' = page /\ rest' = [Get(rest.why, 0) EXCEPT !.whole = TRUE]
    <3>1. Get(rest.why, 0) \in Rests
      BY GetType DEF Rests
    <3>. QED  BY <2>3, <3>1 DEF Rests
  <2>. QED  BY <1>1, <1>2, <2>1, <2>2, <2>3, RestReadIs
<1>4. excuse' \in Excuse
  BY RestReadIs
<1>. QED  BY <1>3, <1>4, Unchanged DEF RestRead, store

\* What a death leaves of a job and a transcript.
LEMMA CrashStore ==
  ASSUME StoreHolds, Crash
  PROVE  StoreHolds'
<1>. DEFINE redone == {i \in OpenJobs : transcript[i].mode = "on_demand"}
            cut == OpenJobs \ redone
<1>1. /\ transcript' = [i \in Id |->
           IF i \in cut THEN [transcript[i] EXCEPT !.state = "interrupted_live", !.final = FALSE]
                        ELSE transcript[i]]
      /\ job' = [i \in Id |->
           IF i \in OpenJobs
             THEN [job[i] EXCEPT !.state = IF i \in cut THEN "failed" ELSE "queued"]
             ELSE job[i]]
      /\ segment' = [i \in Id |-> IF i \in redone THEN <<>> ELSE segment[i]]
  BY DEF Crash
<1>. HIDE DEF redone, cut
<1>2. transcript' \in [Id -> Rows]
  <2>1. ASSUME NEW i \in Id
        PROVE  [transcript[i] EXCEPT !.state = "interrupted_live", !.final = FALSE] \in Rows
    <3>1. transcript[i] \in Rows
      BY StoreIs
    <3>. QED  BY <3>1 DEF Rows, TranscriptState
  <2>. QED  BY <1>1, <2>1, StoreIs
<1>3. job' \in [Id -> Jobs]
  <2>1. ASSUME NEW i \in Id, NEW state \in {"failed", "queued"}
        PROVE  [job[i] EXCEPT !.state = state] \in Jobs
    <3>1. job[i] \in Jobs
      BY StoreIs
    <3>. QED  BY <3>1 DEF Jobs, JobState
  <2>2. \A i \in Id : job[i] \in Jobs
    BY StoreIs
  <2>3. ASSUME NEW i \in Id  PROVE job'[i] \in Jobs
    <3>1. PICK state \in {"failed", "queued"} : state = IF i \in cut THEN "failed" ELSE "queued"
      OBVIOUS
    <3>2. job'[i] = [job[i] EXCEPT !.state = state] \/ job'[i] = job[i]
      BY <1>1, <3>1
    <3>. QED  BY <2>1, <2>2, <3>2
  <2>. QED  BY <1>1, <2>3
<1>4. segment' \in [Id -> Seq({"speech"})] /\ \A i \in Id : Len(segment'[i]) <= Top
  <2>1. <<>> \in Seq({"speech"}) /\ Len(<<>>) <= Top
    BY TopIs
  <2>. QED  BY <1>1, <2>1, StoreIs
<1>. QED  BY <1>2, <1>3, <1>4, StoreIsThen

LEMMA CrashType ==
  ASSUME TypeInv, Crash
  PROVE  TypeInv'
<1>. USE DEF TypeInv, PageTyped
<1>1. StoreHolds'
  BY CrashStore
<1>2. PubHolds'
  BY RestingType DEF PubHolds, Crash
<1>3. ConnTyped'
  <2>1. conn' = conn \/ conn' = Closed
    BY DEF Crash
  <2>. QED  BY <2>1, ClosedType DEF ConnTyped
<1>4. page' \in Pages /\ rest' \in Rests
  BY StartTailIs, GetType DEF Crash
<1>5. OthersTyped'
  <2>1. cuts' \in 0..MaxCuts /\ session' \in {"active", "stopping", "finished"}
    <3>1. PICK n \in 0..MaxCuts : n = cuts
      BY DEF OthersTyped
    <3>2. n < MaxCuts /\ cuts' = n + 1 /\ session' = "finished"
      BY <3>1 DEF Crash
    <3>. QED  BY <3>2, StreamAssumption
  <2>2. excuse' \in Excuse
    <3>1. \E why \in {"none", "redone", "rewritten", "refresh"} : Note(why)
      BY Zenon DEF Crash
    <3>. QED  BY <3>1, NoteType DEF Excuse, OthersTyped
  <2>. QED  BY <2>1, <2>2 DEF OthersTyped
<1>. QED  BY <1>1, <1>2, <1>3, <1>4, <1>5

LEMMA InitType == Init => TypeInv
<1>. SUFFICES ASSUME Init  PROVE TypeInv
  OBVIOUS
<1>1. StoreHolds
  <2>1. <<>> \in Seq({"speech"}) /\ Len(<<>>) <= Top
    BY TopIs
  <2>2. [session |-> NoSession, mode |-> "live", state |-> "absent", final |-> FALSE] \in Rows
    BY DEF Rows, Sessions, Mode, TranscriptState
  <2>3. [state |-> "absent", progress |-> 0, total |-> 0] \in Jobs
    BY DEF Jobs, JobState
  <2>. QED  BY <2>1, <2>2, <2>3, StoreIs DEF Init, StoreInit
<1>2. PubHolds
  BY RestingType DEF Init, PubHolds
<1>3. ConnTyped
  BY NoConnType DEF Init, ConnTyped
<1>4. PageTyped
  <2>1. page \in Pages
    BY DEF Init, Blank, Pages, TranscriptState
  <2>. QED  BY <2>1, GetType DEF Init, PageTyped
<1>5. OthersTyped
  BY StreamAssumption DEF Init, OthersTyped, Excuse
<1>. QED  BY <1>1, <1>2, <1>3, <1>4, <1>5 DEF TypeInv

LEMMA TypeStep == TypeInv /\ [Next]_svars => TypeInv'
<1>. SUFFICES ASSUME TypeInv, [Next]_svars  PROVE TypeInv'
  OBVIOUS
<1>1. CASE BeginLive
  <2>1. PICK tstate \in TranscriptState, jstate \in JobState :
          CreateTranscript(1, S, "live", tstate, jstate)
    BY <1>1 DEF BeginLive, TranscriptState, JobState
  <2>2. StoreHolds' /\ segment' = segment
    BY <2>1, CreateType, StreamAssumption DEF TypeInv, Id, Mode
  <2>. QED  BY <1>1, <2>2, Unchanged DEF TypeInv, BeginLive
<1>2. CASE StopSession
  BY <1>2, Unchanged DEF TypeInv, StopSession, OthersTyped, store
<1>3. CASE Drop
  <2>1. cuts' \in 0..MaxCuts
    BY <1>3, StreamAssumption DEF Drop, TypeInv, OthersTyped
  <2>2. ConnTyped'
    BY <1>3, ClosedType DEF Drop, TypeInv, ConnTyped
  <2>. QED  BY <1>3, <2>1, <2>2, Unchanged DEF Drop, TypeInv, OthersTyped, store
<1>4. CASE UNCHANGED svars
  BY <1>4, Unchanged DEF TypeInv, svars, store
<1>. QED
  BY <1>1, <1>2, <1>3, <1>4, PublisherType, ConnectType, HandlerType, OnCloseType, PollType,
     TranscribeType, RestSelectType, RestReadType, CrashType
  DEF Next

(***************************************************************************)
(* The store, the publisher, the handler with its queue and the page keep  *)
(* to their types (StreamTypeOK); no queue is longer than its bound.       *)
(***************************************************************************)
THEOREM StreamTypeCorrect == Spec => []StreamTypeOK
<1>. QED  BY InitType, TypeStep, TypeInvMeans, PTL DEF Spec

-----------------------------------------------------------------------------
(***************************************************************************)
(* The frames of a queue, read in order by a handler that has sent up to   *)
(* base, leave no gap: each segment follows the one before it, and the     *)
(* first is at most one ahead.  They reach p when the last of them is p.   *)
(***************************************************************************)
Chain(q, base) ==
  \A k \in 1..Len(q) : q[k].type = "segment" =>
    IF k = 1 THEN q[k].seq <= base + 1
             ELSE q[k - 1].type = "segment" /\ q[k].seq = q[k - 1].seq + 1

Reaches(q, base, p) ==
  IF q = <<>> THEN base >= p ELSE q[Len(q)].type = "segment" /\ q[Len(q)].seq = p

\* The worker may still publish a segment of transcript i, and what it has published.
Streams(i) ==
  \/ pub.pc = "publish" /\ pub.id = i
  \/ Live(i)
  \/ /\ transcript[i].mode = "on_demand" /\ job[i].state \in {"queued", "running"}
     /\ ~(pub.pc \in {"flush", "job"} /\ pub.id = i)

Published(i) ==
  IF pub.pc = "publish" /\ pub.id = i THEN Len(segment[i]) - 1 ELSE Len(segment[i])

\* A handler that goes on to read its queue, and what it has sent by then.
Reads == conn.pc \in {"replay", "send", "wait", "beat"}
Base ==
  IF conn.pc = "replay" THEN Len(segment[conn.id])
  ELSE IF conn.pc = "send" /\ conn.until > conn.last THEN conn.until
  ELSE conn.last

(***************************************************************************)
(* The rows on the page are the first ones, and no cursor is ahead of      *)
(* them; the handler has sent what the tail has; its queue continues that  *)
(* up to the last segment published.                                       *)
(***************************************************************************)
RowsHold ==
  /\ \E m \in Nat : /\ SeqsOf(page.shown) = 1..m
                    /\ page.cursor <= m /\ page.after <= m /\ rest.after <= m
  /\ ~page.tail => page.after = 0

PubEnds ==
  /\ pub.pc # "mark"
  /\ pub.pc \in {"job", "status", "close"} => transcript[pub.id].state \in Ended
  /\ pub.pc \in {"status", "close"} => transcript[pub.id].mode = "live"
  /\ pub.pc = "flush" => transcript[pub.id].mode = "on_demand"

QueueHolds ==
  Reads => /\ transcript[conn.id].state # "absent"
           /\ Chain(conn.q, Base)
           /\ \A i \in Id : i = conn.id /\ Streams(i) => Reaches(conn.q, Base, Published(i))

ConnHolds ==
  /\ conn.pc # "none" => page.tail
  /\ Reads => conn.last = page.after
  /\ QueueHolds

GapFree == RowsHold /\ PubEnds /\ ConnHolds

\* A transcript that does not exist yet is not taken for an on-demand one.
BlankRows == \A i \in Id : transcript[i].state = "absent" => transcript[i].mode = "live"

GapInv == BlankRows /\ (excuse = "none" => GapFree)

LEMMA ChainMore ==
  ASSUME NEW q \in Seq(OwnFrame), NEW b \in Nat, NEW c \in Nat, b <= c
  PROVE  /\ Chain(q, b) => Chain(q, c)
         /\ \A p \in Nat : Reaches(q, b, p) => Reaches(q, c, p)
<1>1. \A k \in 1..Len(q) : q[k].seq \in Nat
  BY SegmentTyped
<1>2. Chain(q, b) => Chain(q, c)
  BY <1>1 DEF Chain
<1>3. \A p \in Nat : Reaches(q, b, p) => Reaches(q, c, p)
  BY DEF Reaches
<1>. QED  BY <1>2, <1>3

LEMMA ChainMark ==
  ASSUME NEW q \in Seq(OwnFrame), NEW b \in Nat, Chain(q, b),
         NEW f \in OwnFrame, f.type # "segment"
  PROVE  Chain(Append(q, f), b)
<1>1. /\ Len(Append(q, f)) = Len(q) + 1 /\ Len(q) \in Nat
      /\ \A k \in 1..Len(q) : Append(q, f)[k] = q[k]
      /\ Append(q, f)[Len(q) + 1] = f
  OBVIOUS
<1>2. \A k \in 1..(Len(q) + 1) : k \in 1..Len(q) \/ k = Len(q) + 1
  BY <1>1
<1>. QED  BY <1>1, <1>2 DEF Chain

LEMMA ChainSegment ==
  ASSUME NEW q \in Seq(OwnFrame), NEW b \in Nat, Chain(q, b),
         NEW p \in Nat, Reaches(q, b, p),
         NEW f \in OwnFrame, f.type = "segment", f.seq = p + 1
  PROVE  Chain(Append(q, f), b) /\ Reaches(Append(q, f), b, p + 1)
<1>1. /\ Len(Append(q, f)) = Len(q) + 1 /\ Len(q) \in Nat
      /\ \A k \in 1..Len(q) : Append(q, f)[k] = q[k]
      /\ Append(q, f)[Len(q) + 1] = f
      /\ Append(q, f) # <<>>
  OBVIOUS
<1>2. Reaches(Append(q, f), b, p + 1)
  BY <1>1 DEF Reaches
<1>3. ASSUME NEW k \in 1..(Len(q) + 1), Append(q, f)[k].type = "segment"
      PROVE  IF k = 1 THEN Append(q, f)[k].seq <= b + 1
             ELSE /\ Append(q, f)[k - 1].type = "segment"
                  /\ Append(q, f)[k].seq = Append(q, f)[k - 1].seq + 1
  <2>1. CASE k \in 1..Len(q)
    BY <1>1, <1>3, <2>1 DEF Chain
  <2>2. CASE k = Len(q) + 1 /\ q = <<>>
    BY <1>1, <2>2 DEF Reaches
  <2>3. CASE k = Len(q) + 1 /\ q # <<>>
    <3>1. Len(q) > 0
      BY <2>3
    <3>. QED  BY <1>1, <2>3, <3>1 DEF Reaches
  <2>. QED  BY <1>1, <2>1, <2>2, <2>3
<1>. QED  BY <1>1, <1>2, <1>3 DEF Chain

LEMMA ChainTail ==
  ASSUME NEW q \in Seq(OwnFrame), q # <<>>, Head(q).type = "segment",
         NEW b \in Nat, Chain(q, b), NEW c \in Nat, Head(q).seq <= c
  PROVE  /\ Head(q).seq <= b + 1
         /\ Chain(Tail(q), c)
         /\ \A p \in Nat : Reaches(q, b, p) => Reaches(Tail(q), c, p)
<1>1. /\ Head(q) = q[1] /\ Len(q) \in Nat /\ Len(q) > 0 /\ Tail(q) \in Seq(OwnFrame)
      /\ Len(Tail(q)) = Len(q) - 1
      /\ \A k \in 1..(Len(q) - 1) : Tail(q)[k] = q[k + 1]
  OBVIOUS
<1>2. \A k \in 1..Len(q) : q[k].seq \in Nat
  BY SegmentTyped
<1>3. Head(q).seq <= b + 1
  BY <1>1 DEF Chain
<1>4. ASSUME NEW k \in 1..(Len(q) - 1), Tail(q)[k].type = "segment"
      PROVE  IF k = 1 THEN Tail(q)[k].seq <= c + 1
             ELSE /\ Tail(q)[k - 1].type = "segment"
                  /\ Tail(q)[k].seq = Tail(q)[k - 1].seq + 1
  <2>1. k + 1 \in 1..Len(q) /\ k + 1 # 1 /\ (k + 1) - 1 = k /\ k \in 1..Len(q)
    BY <1>1
  <2>2. q[k + 1].type = "segment" /\ Tail(q)[k] = q[k + 1]
    BY <1>1, <1>4
  <2>3. q[k].type = "segment" /\ q[k + 1].seq = q[k].seq + 1
    BY <2>1, <2>2 DEF Chain
  <2>4. CASE k = 1
    BY <1>1, <1>2, <2>1, <2>2, <2>3, <2>4
  <2>5. CASE k # 1
    <3>1. Tail(q)[k - 1] = q[k]
      <4>1. k - 1 \in 1..(Len(q) - 1) /\ (k - 1) + 1 = k
        BY <1>1, <2>5
      <4>. QED  BY <1>1, <4>1
    <3>. QED  BY <2>2, <2>3, <2>5, <3>1
  <2>. QED  BY <2>4, <2>5
<1>5. ASSUME NEW p \in Nat, Reaches(q, b, p)
      PROVE  Reaches(Tail(q), c, p)
  <2>1. q[Len(q)].type = "segment" /\ q[Len(q)].seq = p
    BY <1>5 DEF Reaches
  <2>2. CASE Len(q) = 1
    <3>1. Tail(q) = <<>>
      <4>1. Len(Tail(q)) = 0
        BY <1>1, <2>2
      <4>2. PICK t \in Seq(OwnFrame) : t = Tail(q)
        BY <1>1
      <4>3. Len(t) = 0 => t = <<>>
        OBVIOUS
      <4>. QED  BY <4>1, <4>2, <4>3
    <3>. QED  BY <1>1, <2>1, <2>2, <3>1 DEF Reaches
  <2>3. CASE Len(q) # 1
    <3>1. Len(q) - 1 \in 1..(Len(q) - 1) /\ (Len(q) - 1) + 1 = Len(q) /\ Tail(q) # <<>>
      BY <1>1, <2>3
    <3>. QED  BY <1>1, <2>1, <3>1 DEF Reaches
  <2>. QED  BY <2>2, <2>3
<1>. QED  BY <1>1, <1>3, <1>4, <1>5 DEF Chain

-----------------------------------------------------------------------------
(***************************************************************************)
(* What the steps of the publisher do to what may still be published.      *)
(***************************************************************************)
LEMMA BaseType ==
  ASSUME StoreHolds, ConnTyped
  PROVE  /\ conn.id \in Id /\ conn.last \in Nat /\ conn.until \in Nat /\ Base \in Nat
         /\ conn.q \in Seq(OwnFrame) /\ segment[conn.id] \in Seq({"speech"})
         /\ Len(segment[conn.id]) \in Nat
<1>1. conn.id \in Id /\ conn.last \in Nat /\ conn.until \in Nat /\ conn.q \in Seq(OwnFrame)
  BY TopIs DEF ConnTyped, Conns
<1>2. segment[conn.id] \in Seq({"speech"}) /\ Len(segment[conn.id]) \in Nat
  BY <1>1, StoreIs
<1>. QED  BY <1>1, <1>2 DEF Base

LEMMA PublishedType ==
  ASSUME TypeInv, NEW i \in Id
  PROVE  Published(i) \in Nat /\ Len(segment[i]) \in Nat /\ Published(i) <= Len(segment[i])
<1>1. segment[i] \in Seq({"speech"}) /\ Len(segment[i]) \in Nat
  BY StoreIs DEF TypeInv
<1>. QED  BY <1>1 DEF Published, TypeInv, PubHolds

Step(i) ==
  /\ Len(segment'[i]) >= Len(segment[i])
  /\ transcript[i].state # "absent" => transcript'[i].state # "absent"
  /\ Streams(i)' => Streams(i) /\ Published(i)' = Published(i)

LEMMA BeginsStreams ==
  ASSUME TypeInv, PubEnds, Begins, NEW i \in Id
  PROVE  Step(i) /\ PubEnds'
<1>. USE DEF PubEnds
<1>0. /\ StoreHolds /\ pub \in Pubs /\ pub.id \in Id
      /\ segment[i] \in Seq({"speech"}) /\ Len(segment[i]) \in Nat
      /\ transcript[i] \in Rows /\ job[i] \in Jobs
  BY StoreIs DEF TypeInv, PubHolds, Pubs
<1>v. \A v \in Verdicts : v \in Ended /\ v # "absent"
  BY StreamAssumption DEF Ended
<1>1. CASE FlushSegment
  <2>1. /\ pub.pc = "flush" /\ pub' = pub /\ transcript' = transcript /\ job' = job
        /\ Len(segment'[pub.id]) = Len(segment[pub.id]) + 1
        /\ \A j \in Id : j # pub.id => segment'[j] = segment[j]
    BY <1>0, <1>1, AppendType DEF FlushSegment, AppendSegment
  <2>2. PubEnds'
    BY <2>1
  <2>3. CASE i = pub.id
    BY <1>0, <2>1, <2>2, <2>3 DEF Step, Streams, Live
  <2>4. CASE i # pub.id
    BY <1>0, <2>1, <2>2, <2>4 DEF Step, Streams, Live, Published
  <2>. QED  BY <2>3, <2>4
<1>2. ASSUME NEW j \in Id, StoreSegment(j)
      PROVE  Step(i) /\ PubEnds'
  <2>1. /\ pub.pc = "idle" /\ pub' = Pub("publish", j, "completed")
        /\ transcript' = transcript /\ job' = job /\ (Live(j) \/ Running(j))
        /\ Len(segment'[j]) = Len(segment[j]) + 1
        /\ \A k \in Id : k # j => segment'[k] = segment[k]
    BY <1>0, <1>2, AppendType DEF StoreSegment, PubIdle, AppendSegment
  <2>2. pub'.pc = "publish" /\ pub'.id = j
    BY <2>1 DEF Pub
  <2>3. PubEnds'
    BY <2>2
  <2>4. CASE i = j
    BY <1>0, <2>1, <2>2, <2>3, <2>4 DEF Step, Streams, Live, Published, Running
  <2>5. CASE i # j
    BY <1>0, <2>1, <2>2, <2>3, <2>5 DEF Step, Streams, Live, Published
  <2>. QED  BY <2>4, <2>5
<1>3. ASSUME NEW j \in Id, Finalising(j)
      PROVE  Step(i) /\ PubEnds'
  <2>1. /\ pub.pc = "idle" /\ pub' = pub /\ segment' = segment /\ Live(j)
        /\ job' = [job EXCEPT ![j].state = "finalising"]
        /\ transcript' = [transcript EXCEPT ![j].state = "finalising", ![j].final = FALSE]
    BY <1>3 DEF Finalising, PubIdle
  <2>2. /\ transcript'[i].mode = transcript[i].mode
        /\ i = j => transcript'[i].state = "finalising"
        /\ i # j => transcript'[i] = transcript[i] /\ job'[i] = job[i]
    BY <1>0, <2>1, StoreIs DEF Rows
  <2>3. PubEnds'
    BY <2>1
  <2>4. CASE i = j
    BY <1>0, <2>1, <2>2, <2>3, <2>4 DEF Step, Streams, Live, Published
  <2>5. CASE i # j
    BY <1>0, <2>1, <2>2, <2>3, <2>5 DEF Step, Streams, Live, Published
  <2>. QED  BY <2>4, <2>5
<1>4. ASSUME NEW j \in Id, StartJob(j)
      PROVE  Step(i) /\ PubEnds'
  <2>1. /\ pub.pc = "idle" /\ pub' = pub /\ segment' = segment /\ transcript' = transcript
        /\ job' = [job EXCEPT ![j] = [job[j] EXCEPT !.state = "running"]]
        /\ job[j].state = "queued"
    BY <1>4 DEF StartJob, PubIdle, SetJobState, UpdateJob
  <2>2. /\ i = j => job'[i].state = "running"
        /\ i # j => job'[i] = job[i]
    BY <1>0, <2>1, StoreIs DEF Jobs
  <2>3. PubEnds'
    BY <2>1
  <2>. QED  BY <1>0, <2>1, <2>2, <2>3 DEF Step, Streams, Live, Published
<1>5. ASSUME NEW j \in Id, FlushOnDemand(j)
      PROVE  Step(i) /\ PubEnds'
  <2>1. /\ pub.pc = "idle" /\ pub' = Pub("flush", j, "completed")
        /\ segment' = segment /\ transcript' = transcript /\ job' = job
        /\ transcript[j].mode = "on_demand"
    BY <1>5 DEF FlushOnDemand, PubIdle, store, Running
  <2>2. pub'.pc = "flush" /\ pub'.id = j
    BY <2>1 DEF Pub
  <2>3. PubEnds'
    BY <2>1, <2>2
  <2>. QED  BY <1>0, <2>1, <2>2, <2>3 DEF Step, Streams, Live, Published
<1>6. ASSUME NEW j \in Id, NEW v \in Verdicts, EndLive(j, v) \/ EndOnDemand(j, v)
      PROVE  Step(i) /\ PubEnds'
  <2>1. /\ pub' = Pub("job", j, v) /\ segment' = segment /\ job' = job
        /\ transcript' = [transcript EXCEPT ![j].state = v, ![j].final = v = "completed"]
        /\ pub.pc = "idle" \/ (pub.pc = "flush" /\ pub.id = j)
    BY <1>6 DEF EndLive, EndOnDemand, SetState, PubIdle
  <2>2. pub'.pc = "job" /\ pub'.id = j
    BY <2>1 DEF Pub
  <2>3. /\ transcript'[i].mode = transcript[i].mode
        /\ i = j => transcript'[i].state = v
        /\ i # j => transcript'[i] = transcript[i]
        /\ transcript'[j].state = v
    BY <1>0, <2>1, StoreIs DEF Rows
  <2>4. PubEnds'
    BY <1>v, <2>2, <2>3
  <2>5. CASE i = j
    BY <1>0, <1>v, <2>1, <2>2, <2>3, <2>4, <2>5 DEF Step, Streams, Live, Published, Ended
  <2>6. CASE i # j
    BY <1>0, <2>1, <2>2, <2>3, <2>4, <2>6 DEF Step, Streams, Live, Published
  <2>. QED  BY <2>5, <2>6
<1>. QED  BY <1>1, <1>2, <1>3, <1>4, <1>5, <1>6 DEF Begins

LEMMA QueueKeeps ==
  ASSUME TypeInv, TypeInv', QueueHolds, conn' = conn, NEW i \in Id, i = conn.id, Step(i)
  PROVE  QueueHolds'
<1>0. Base \in Nat /\ Base' \in Nat /\ Base <= Base'
  <2>1. Len(segment[i]) \in Nat /\ Len(segment'[i]) \in Nat /\ Len(segment'[i]) >= Len(segment[i])
    BY StoreIs, StoreIsThen DEF TypeInv, Step
  <2>2. conn.last \in Nat /\ conn.until \in Nat
    BY BaseType DEF TypeInv
  <2>. QED  BY <2>1, <2>2 DEF Base
<1>1. PICK q \in Seq(OwnFrame), b \in Nat, c \in Nat :
        q = conn.q /\ q = conn'.q /\ b = Base /\ c = Base'
  BY <1>0, BaseType DEF TypeInv
<1>2. b <= c
  BY <1>0, <1>1
<1>3. ASSUME Reads
      PROVE  /\ transcript'[i].state # "absent"
             /\ Chain(q, c)
             /\ Streams(i)' => Reaches(q, c, Published(i)')
  <2>1. transcript[i].state # "absent" /\ Chain(q, b) /\ (Streams(i) => Reaches(q, b, Published(i)))
    BY <1>1, <1>3 DEF QueueHolds
  <2>2. Published(i) \in Nat
    BY PublishedType
  <2>. QED  BY <1>2, <2>1, <2>2, ChainMore DEF Step
<1>. QED  BY <1>1, <1>3 DEF QueueHolds, Reads

\* The publisher's frame reached the queue, and what it says is in it.
LEMMA QueuePut ==
  ASSUME TypeInv, QueueHolds, ~Full, NEW f \in OwnFrame, Put(f), UNCHANGED segment,
         NEW i \in Id, i = conn.id,
         transcript[i].state # "absent" => transcript'[i].state # "absent",
         f.type = "segment" => /\ Streams(i) /\ f.seq = Published(i) + 1
                               /\ Published(i)' = Published(i) + 1,
         f.type # "segment" => ~Streams(i)'
  PROVE  QueueHolds'
<1>1. PICK q \in Seq(OwnFrame), b \in Nat, p \in Nat :
        q = conn.q /\ b = Base /\ p = Published(i)
  BY BaseType, PublishedType DEF TypeInv
<1>2. conn' = [conn EXCEPT !.q = Append(q, f)] /\ conn \in Conns
  BY <1>1 DEF Put, TypeInv, ConnTyped
<1>3. /\ conn'.q = Append(q, f) /\ conn'.id = i /\ conn'.pc = conn.pc
      /\ conn'.last = conn.last /\ conn'.until = conn.until
  BY <1>2 DEF Conns
<1>4. Base' = b
  BY <1>1, <1>3 DEF Base
<1>5. ASSUME Reads
      PROVE  /\ transcript'[i].state # "absent"
             /\ Chain(Append(q, f), b)
             /\ Streams(i)' => Reaches(Append(q, f), b, Published(i)')
  <2>1. transcript[i].state # "absent" /\ Chain(q, b) /\ (Streams(i) => Reaches(q, b, p))
    BY <1>1, <1>5 DEF QueueHolds
  <2>2. CASE f.type = "segment"
    <3>1. Reaches(q, b, p) /\ f.seq = p + 1 /\ Published(i)' = p + 1
      BY <1>1, <2>1, <2>2
    <3>. QED  BY <2>1, <2>2, <3>1, ChainSegment
  <2>3. CASE f.type # "segment"
    BY <2>1, <2>3, ChainMark
  <2>. QED  BY <2>2, <2>3
<1>6. Reads' <=> Reads
  BY <1>3 DEF Reads
<1>. QED  BY <1>3, <1>4, <1>5, <1>6 DEF QueueHolds

\* What the publisher goes on to do keeps the queue, as long as no frame is lost.
LEMMA GoesOnQueue ==
  ASSUME TypeInv, TypeInv', PubEnds, ConnHolds, GoesOn, excuse' = "none"
  PROVE  /\ PubEnds' /\ QueueHolds' /\ excuse = "none"
         /\ conn'.pc = conn.pc /\ conn'.last = conn.last
<1>. USE DEF PubEnds
<1>0. /\ StoreHolds /\ pub \in Pubs /\ pub.id \in Id /\ pub.next # "publish"
      /\ ConnTyped /\ conn \in Conns /\ conn.id \in Id /\ excuse \in Excuse /\ QueueHolds
  BY DEF TypeInv, PubHolds, Pubs, ConnTyped, Conns, OthersTyped, ConnHolds
<1>i. PICK i \in Id : i = conn.id
  BY <1>0
<1>l. PICK j \in Id : j = pub.id /\ Len(segment[j]) \in Nat
  BY <1>0, PublishedType
<1>p. ASSUME NEW f, Put(f)
      PROVE  conn'.pc = conn.pc /\ conn'.last = conn.last
  BY <1>0, <1>p DEF Put, Conns
<1>1. CASE PublishSegment
  <2>1. PICK n \in Nat : n = Len(segment[j])
    BY <1>l
  <2>2. n \in 1..Top
    <3>1. Len(segment[j]) >= 1 /\ Len(segment[j]) <= Top
      BY <1>1, <1>l, StoreIs DEF TypeInv, PubHolds, PublishSegment
    <3>. QED  BY <2>1, <3>1, TopIs
  <2>3. Offer(pub.id, SegmentFrame(n), "idle") /\ UNCHANGED store /\ pub.pc = "publish"
    BY <1>1, <1>l, <2>1 DEF PublishSegment
  <2>4. SegmentFrame(n) \in OwnFrame /\ SegmentFrame(n).type = "segment"
        /\ SegmentFrame(n).seq = n
    BY <2>2, FramesAre DEF SegmentFrame
  <2>5. /\ excuse = "none" /\ pub' = [pub EXCEPT !.pc = "idle"]
        /\ IF Listens(pub.id) THEN Put(SegmentFrame(n)) ELSE conn' = conn
    BY <1>0, <2>3, <2>4, OfferType DEF PubPc
  <2>6. pub'.pc = "idle" /\ pub'.id = pub.id /\ UNCHANGED <<transcript, job, segment>>
    BY <1>0, <2>3, <2>5 DEF Pubs, store
  <2>7. PubEnds'
    BY <2>6
  <2>8. CASE ~Listens(pub.id)
    <3>1. i # j \/ ~Reads
      BY <1>i, <1>l, <2>8 DEF Listens, Subscribed, Reads
    <3>2. conn' = conn
      BY <2>5, <2>8
    <3>3. CASE ~Reads
      BY <2>5, <2>7, <3>2, <3>3 DEF QueueHolds, Reads
    <3>4. CASE i # j
      <4>1. segment[i] \in Seq({"speech"})
        BY <1>0, StoreIs
      <4>2. Step(i)
        BY <1>l, <2>3, <2>6, <3>4, <4>1 DEF Step, Streams, Live, Published
      <4>. QED  BY <1>0, <1>i, <2>5, <2>7, <3>2, <4>2, QueueKeeps
    <3>. QED  BY <3>1, <3>3, <3>4
  <2>9. CASE Listens(pub.id)
    <3>1. Put(SegmentFrame(n)) /\ i = j
      BY <1>i, <1>l, <2>5, <2>9 DEF Listens
    <3>2. ~Full
      <4>1. CASE Full
        BY <2>3, <2>9, <4>1 DEF Offer, Note
      <4>. QED  BY <4>1
    <3>3. Streams(i) /\ n = Published(i) + 1 /\ Published(i)' = Published(i) + 1
      <4>1. Streams(i) /\ Published(i) = n - 1 /\ Published(i)' = n
        BY <1>l, <2>1, <2>3, <2>6, <3>1 DEF Streams, Published
      <4>. QED  BY <2>1, <4>1
    <3>4. QueueHolds'
      BY <1>0, <1>i, <2>4, <2>6, <3>1, <3>2, <3>3, QueuePut
    <3>. QED  BY <1>p, <2>5, <2>7, <3>1, <3>4
  <2>. QED  BY <2>8, <2>9
<1>2. CASE MarkDropped
  BY <1>2 DEF MarkDropped
<1>3. CASE WriteJob
  <2>1. /\ job' = [job EXCEPT ![j] = [job[j] EXCEPT !.state = pub.verdict]]
        /\ UNCHANGED <<transcript, segment, conn, excuse>> /\ pub.pc = "job"
        /\ pub' = IF transcript[j].mode = "live" THEN [pub EXCEPT !.pc = "status"] ELSE Resting
    BY <1>3, <1>l DEF WriteJob, SetJobState, UpdateJob
  <2>2. /\ pub'.pc \in {"status", "idle"}
        /\ pub'.pc = "status" => pub'.id = j /\ transcript[j].mode = "live"
    BY <1>0, <1>l, <2>1, RestingType DEF Pubs
  <2>3. PubEnds'
    BY <1>l, <2>1, <2>2
  <2>4. /\ i = j => job'[i].state \in Ended
        /\ i # j => job'[i] = job[i]
    BY <1>0, <2>1, StoreIs DEF Jobs, Pubs
  <2>5. segment[i] \in Seq({"speech"})
    BY <1>0, StoreIs
  <2>6. Step(i)
    BY <1>l, <2>1, <2>2, <2>4, <2>5 DEF Step, Streams, Live, Published, Ended
  <2>7. QueueHolds'
    BY <1>0, <1>i, <2>1, <2>6, QueueKeeps
  <2>. QED  BY <2>1, <2>3, <2>7
<1>4. ASSUME NEW f \in {StatusFrame, CloseMarker}, pub.pc \in {"status", "close"},
             UNCHANGED store, pub'.pc \in {"close", "idle"}, pub'.pc = "close" => pub'.id = j,
             conn' = conn \/ (Listens(j) /\ ~Full /\ Put(f))
      PROVE  PubEnds' /\ QueueHolds' /\ conn'.pc = conn.pc /\ conn'.last = conn.last
  <2>1. UNCHANGED <<transcript, job, segment>>
    BY <1>4 DEF store
  <2>2. PubEnds'
    BY <1>4, <1>l, <2>1
  <2>3. segment[i] \in Seq({"speech"})
    BY <1>0, StoreIs
  <2>4. Step(i)
    BY <1>4, <1>l, <2>1, <2>3 DEF Step, Streams, Live, Published
  <2>5. CASE conn' = conn
    BY <1>0, <1>i, <2>2, <2>4, <2>5, QueueKeeps
  <2>6. CASE Listens(j) /\ ~Full /\ Put(f)
    <3>1. i = j
      BY <1>i, <2>6 DEF Listens
    <3>2. ~Streams(i)'
      BY <1>4, <1>l, <2>1, <3>1 DEF Streams, Live, Ended
    <3>3. f \in OwnFrame /\ f.type # "segment"
      BY FramesAre DEF StatusFrame, CloseMarker
    <3>4. QueueHolds'
      BY <1>0, <1>i, <2>1, <2>6, <3>2, <3>3, QueuePut
    <3>. QED  BY <1>p, <2>2, <2>6, <3>4
  <2>. QED  BY <1>4, <2>5, <2>6
<1>5. CASE PublishStatus
  <2>1. Offer(pub.id, StatusFrame, "close") /\ UNCHANGED store /\ pub.pc = "status"
    BY <1>5 DEF PublishStatus
  <2>2. /\ excuse = "none" /\ pub' = [pub EXCEPT !.pc = "close"]
        /\ IF Listens(j) THEN Put(StatusFrame) ELSE conn' = conn
    BY <1>0, <1>l, <2>1, OfferType, FramesAre DEF PubPc
  <2>3. Listens(j) => ~Full
    BY <1>l, <2>1 DEF Offer, Note
  <2>4. pub'.pc = "close" /\ pub'.id = j
    BY <1>0, <1>l, <2>2 DEF Pubs
  <2>. QED  BY <1>4, <2>1, <2>2, <2>3, <2>4
<1>6. CASE Close
  <2>1. /\ CloseSub(j) /\ UNCHANGED store /\ pub.pc = "close" /\ pub' = Resting
        /\ UNCHANGED excuse
    BY <1>6, <1>l DEF Close
  <2>2. pub'.pc = "idle"
    BY <2>1, RestingType
  <2>3. conn' = conn \/ (Listens(j) /\ ~Full /\ Put(CloseMarker))
    BY <2>1 DEF CloseSub
  <2>. QED  BY <1>4, <2>1, <2>2, <2>3
<1>. QED  BY <1>1, <1>2, <1>3, <1>5, <1>6 DEF GoesOn

LEMMA PublisherGap ==
  ASSUME TypeInv, TypeInv', GapFree, Publisher, excuse' = "none"
  PROVE  GapFree'
<1>. USE DEF GapFree
<1>1. page' = page /\ rest' = rest
  BY DEF Publisher
<1>2. RowsHold'
  BY <1>1 DEF RowsHold
<1>3. PubEnds' /\ QueueHolds' /\ conn'.pc = conn.pc /\ conn'.last = conn.last
  <2>1. CASE GoesOn
    BY <2>1, GoesOnQueue
  <2>2. CASE Begins
    <3>1. conn' = conn /\ conn.id \in Id
      BY <2>2, BeginsType, BaseType DEF TypeInv
    <3>2. PICK i \in Id : i = conn.id
      BY <3>1
    <3>3. Step(i) /\ PubEnds'
      BY <2>2, BeginsStreams
    <3>4. QueueHolds'
      BY <3>1, <3>2, <3>3, QueueKeeps DEF ConnHolds
    <3>. QED  BY <3>1, <3>3, <3>4
  <2>. QED  BY <2>1, <2>2 DEF Publisher
<1>4. ConnHolds'
  BY <1>1, <1>3 DEF ConnHolds, Reads
<1>. QED  BY <1>2, <1>3, <1>4

-----------------------------------------------------------------------------
(***************************************************************************)
(* The steps that leave the store, the publisher and the socket alone.     *)
(***************************************************************************)
LEMMA SameStep ==
  ASSUME TypeInv, NEW i \in Id, UNCHANGED <<transcript, job, segment>>, UNCHANGED pub
  PROVE  Step(i)
<1>1. Len(segment[i]) \in Nat
  BY PublishedType
<1>. QED  BY <1>1 DEF Step, Streams, Live, Published

LEMMA SameConn ==
  ASSUME TypeInv, TypeInv', PubEnds, ConnHolds,
         UNCHANGED <<transcript, job, segment>>, UNCHANGED pub, conn' = conn,
         page.tail => page'.tail /\ page'.after = page.after
  PROVE  PubEnds' /\ ConnHolds'
<1>1. PICK i \in Id : i = conn.id
  BY BaseType DEF TypeInv
<1>2. QueueHolds'
  BY <1>1, SameStep, QueueKeeps DEF ConnHolds
<1>3. PubEnds'
  BY DEF PubEnds
<1>4. /\ conn'.pc # "none" => page'.tail
      /\ Reads' => conn'.last = page'.after
  BY DEF ConnHolds, Reads
<1>. QED  BY <1>2, <1>3, <1>4 DEF ConnHolds

\* A transcript that is created is not the one a handler serves or the worker ends.
LEMMA CreateGap ==
  ASSUME TypeInv, TypeInv', BlankRows, GapFree,
         NEW j \in Id, NEW mode \in Mode, NEW tstate, NEW jstate,
         CreateTranscript(j, S, mode, tstate, jstate), UNCHANGED <<pub, conn>>, page' = page,
         RowsHold'
  PROVE  GapFree'
<1>. USE DEF GapFree
<1>0. /\ StoreHolds /\ pub \in Pubs /\ pub.id \in Id
      /\ conn.id \in Id
  BY BaseType DEF TypeInv, PubHolds, Pubs
<1>1. /\ transcript[j].state = "absent" /\ segment' = segment
      /\ \A i \in Id : i # j => transcript'[i] = transcript[i] /\ job'[i] = job[i]
  BY <1>0, StoreIs DEF CreateTranscript, IsNext, Id
<1>2. PICK i \in Id : i = conn.id
  BY <1>0
<1>p. PubEnds'
  BY <1>0, <1>1 DEF PubEnds, BlankRows, Ended
<1>3. CASE ~Reads
  BY <1>p, <1>3 DEF ConnHolds, QueueHolds, Reads
<1>4. CASE Reads
  <2>1. transcript[i].state # "absent" /\ i # j
    BY <1>1, <1>2, <1>4 DEF ConnHolds, QueueHolds
  <2>2. Len(segment[i]) \in Nat
    BY PublishedType
  <2>3. Step(i)
    BY <1>1, <2>1, <2>2 DEF Step, Streams, Live, Published
  <2>4. QueueHolds'
    BY <1>2, <2>3, QueueKeeps DEF ConnHolds
  <2>. QED  BY <1>p, <2>4 DEF ConnHolds, Reads
<1>. QED  BY <1>3, <1>4

-----------------------------------------------------------------------------
(***************************************************************************)
(* The handler: what it sends continues the rows on the page.              *)
(***************************************************************************)
\* The next segment the tail has not seen: the rows grow by at most one.
LEMMA RowsGrow ==
  ASSUME TypeInv, RowsHold, page.tail, NEW n \in 1..Top, n = page.after + 1,
         page' = OnSegment(page, conn.id, n), UNCHANGED rest
  PROVE  RowsHold' /\ page'.tail /\ page'.after = n
<1>1. PICK m \in Nat : /\ SeqsOf(page.shown) = 1..m
                       /\ page.cursor <= m /\ page.after <= m /\ rest.after <= m
  BY DEF RowsHold
<1>2. page \in Pages /\ page.after \in Nat /\ page.cursor \in Nat /\ rest.after \in Nat
      /\ conn.id \in Id /\ n \in Nat
  BY BaseType, TopIs DEF TypeInv, PageTyped, Pages, Rests
<1>3. PICK q \in Pages :
        /\ q = page' /\ SeqsOf(q.shown) = SeqsOf(page.shown) \cup {n}
        /\ q.cursor = page.cursor \/ q.cursor = n
        /\ q.tail = page.tail /\ q.after = n
  <2>1. n > page.after
    BY <1>2
  <2>. QED  BY <1>2, <2>1, OnSegmentIs
<1>4. PICK k \in Nat : k = IF n <= m THEN m ELSE n
  BY <1>2
<1>5. SeqsOf(q.shown) = 1..k
  <2>1. n <= m + 1 /\ 1 <= n
    BY <1>1, <1>2
  <2>2. (1..m) \cup {n} = 1..k
    BY <1>2, <1>4, <2>1
  <2>. QED  BY <1>1, <1>3, <2>2
<1>6. q.cursor <= k /\ q.after <= k /\ rest.after <= k
  BY <1>1, <1>2, <1>3, <1>4
<1>. QED  BY <1>3, <1>5, <1>6 DEF RowsHold

\* A handler that has finished or gives way to a status leaves the rows as they are.
LEMMA RowsSame ==
  ASSUME RowsHold, page'.shown = page.shown, page'.cursor = page.cursor,
         page'.after = page.after, page'.tail = page.tail, rest'.after = rest.after
  PROVE  RowsHold'
BY DEF RowsHold

LEMMA SendReplayedGap ==
  ASSUME TypeInv, TypeInv', GapFree, SendReplayed, UNCHANGED <<store, pub, rest>>
  PROVE  GapFree'
<1>. USE DEF GapFree
<1>1. PICK n \in Nat : n = conn.last
  BY BaseType DEF TypeInv
<1>2. conn.pc = "send" /\ n < conn.until /\ conn.until \in 0..Top
  BY <1>1 DEF SendReplayed, TypeInv, ConnTyped, Conns
<1>3. n + 1 \in 1..Top
  BY <1>2, TopIs
<1>4. page.tail /\ page.after = n
  BY <1>1, <1>2 DEF ConnHolds, Reads
<1>5. conn' = [conn EXCEPT !.last = n + 1] /\ page' = OnSegment(page, conn.id, n + 1)
  BY <1>1 DEF SendReplayed
<1>6. RowsHold' /\ page'.tail /\ page'.after = n + 1
  BY <1>3, <1>4, <1>5, RowsGrow
<1>7. /\ conn'.pc = "send" /\ conn'.id = conn.id /\ conn'.q = conn.q /\ conn'.last = n + 1
      /\ conn'.until = conn.until
  BY <1>2, <1>5 DEF TypeInv, ConnTyped, Conns
<1>8. Base' = Base
  BY <1>1, <1>2, <1>7, TopIs DEF Base
<1>9. PICK i \in Id : i = conn.id
  BY BaseType DEF TypeInv
<1>10. QueueHolds'
  <2>1. UNCHANGED <<transcript, job, segment>> /\ UNCHANGED pub
    BY DEF store
  <2>2. Step(i)
    BY <2>1, SameStep
  <2>3. /\ transcript[i].state # "absent" /\ Chain(conn.q, Base)
        /\ Streams(i) => Reaches(conn.q, Base, Published(i))
    BY <1>2, <1>9 DEF ConnHolds, QueueHolds, Reads
  <2>. QED  BY <1>7, <1>8, <1>9, <2>2, <2>3 DEF QueueHolds, Step
<1>11. PubEnds'
  BY DEF PubEnds, store
<1>. QED  BY <1>6, <1>7, <1>10, <1>11 DEF ConnHolds, Reads

\* The handler gets on with the queue as it is.
LEMMA BaseMoves ==
  ASSUME TypeInv, TypeInv', QueueHolds, UNCHANGED <<store, pub>>, Reads,
         conn'.q = conn.q, conn'.id = conn.id, Base <= Base'
  PROVE  QueueHolds'
<1>1. PICK i \in Id, b \in Nat : i = conn.id /\ b = Base /\ conn.q \in Seq(OwnFrame)
  BY BaseType DEF TypeInv
<1>2. PICK c \in Nat : c = Base'
  <2>1. segment'[conn'.id] \in Seq({"speech"}) /\ conn'.last \in Nat /\ conn'.until \in Nat
    <3>1. conn' \in Conns
      BY DEF TypeInv, ConnTyped
    <3>2. conn'.last \in Nat /\ conn'.until \in 0..Top /\ conn'.id \in Id
      BY <3>1 DEF Conns
    <3>. QED  BY <3>2, StoreIsThen, TopIs DEF TypeInv
  <2>. QED  BY <2>1 DEF Base
<1>3. UNCHANGED <<transcript, job, segment>> /\ UNCHANGED pub
  BY DEF store
<1>4. Step(i)
  BY <1>3, SameStep
<1>5. /\ transcript[i].state # "absent" /\ Chain(conn.q, b)
      /\ Streams(i) => Reaches(conn.q, b, Published(i))
  BY <1>1 DEF QueueHolds
<1>6. /\ Chain(conn.q, c)
      /\ Streams(i) => Reaches(conn.q, c, Published(i))
  BY <1>1, <1>2, <1>5, ChainMore, PublishedType
<1>. QED  BY <1>1, <1>2, <1>3, <1>4, <1>5, <1>6 DEF QueueHolds, Step

LEMMA TakeGap ==
  ASSUME TypeInv, TypeInv', GapFree, Take, UNCHANGED <<store, pub, rest>>
  PROVE  GapFree'
<1>. USE DEF GapFree
<1>1. PICK i \in Id, q \in Seq(OwnFrame), b \in Nat :
        i = conn.id /\ q = conn.q /\ b = conn.last /\ q # <<>> /\ conn.pc = "wait"
  BY BaseType, TakeIs DEF TypeInv, PageTyped
<1>2. Base = b /\ page.tail /\ page.after = b
  BY <1>1 DEF Base, ConnHolds, Reads
<1>3. /\ transcript[i].state # "absent" /\ Chain(q, b)
      /\ Streams(i) => Reaches(q, b, Published(i))
  BY <1>1, <1>2 DEF ConnHolds, QueueHolds, Reads
<1>4. UNCHANGED <<transcript, job, segment>> /\ UNCHANGED pub
  BY DEF store
<1>5. Step(i) /\ Published(i) \in Nat
  BY <1>4, SameStep, PublishedType
<1>6. PubEnds'
  BY <1>4 DEF PubEnds
<1>7. PICK f \in OwnFrame : f = Head(q) /\ f.seq \in Nat /\ (f.type = "segment" => f.seq \in 1..Top)
  BY <1>1, TakenIs, SegmentTyped DEF TypeInv
<1>8. ASSUME f.type = "segment", NEW c \in Nat, f.seq <= c,
             conn' = [conn EXCEPT !.q = Tail(q), !.last = c]
      PROVE  QueueHolds' /\ conn'.last = c
  <2>1. conn'.q = Tail(q) /\ conn'.id = i /\ conn'.pc = "wait" /\ conn'.last = c
    BY <1>1, <1>8 DEF TypeInv, ConnTyped, Conns
  <2>2. Base' = c
    BY <2>1 DEF Base
  <2>3. /\ Chain(Tail(q), c)
        /\ Streams(i) => Reaches(Tail(q), c, Published(i))
    BY <1>1, <1>3, <1>5, <1>7, <1>8, ChainTail
  <2>. QED  BY <1>3, <1>4, <1>5, <2>1, <2>2, <2>3 DEF QueueHolds, Step
<1>9. CASE /\ f.type = "segment" /\ f.seq <= b
           /\ conn' = [conn EXCEPT !.q = Tail(q)] /\ page' = page
  <2>1. conn' = [conn EXCEPT !.q = Tail(q), !.last = b]
    BY <1>1, <1>9 DEF TypeInv, ConnTyped, Conns
  <2>2. QueueHolds' /\ conn'.last = b
    BY <1>8, <1>9, <2>1
  <2>3. RowsHold'
    BY <1>9 DEF RowsHold
  <2>. QED  BY <1>2, <1>6, <1>9, <2>2, <2>3 DEF ConnHolds
<1>10. CASE /\ f.type = "segment" /\ f.seq > b
            /\ conn' = [conn EXCEPT !.q = Tail(q), !.last = f.seq]
            /\ page' = OnSegment(page, conn.id, f.seq)
  <2>1. QueueHolds' /\ conn'.last = f.seq
    <3>1. PICK c \in Nat : c = f.seq /\ f.seq <= c
      BY <1>7
    <3>. QED  BY <1>8, <1>10, <3>1
  <2>2. f.seq = b + 1
    <3>1. f.seq <= b + 1
      BY <1>1, <1>3, <1>7, <1>10, ChainTail
    <3>. QED  BY <1>7, <1>10, <3>1
  <2>3. RowsHold' /\ page'.tail /\ page'.after = f.seq
    BY <1>2, <1>7, <1>10, <2>2, RowsGrow
  <2>. QED  BY <1>6, <2>1, <2>3 DEF ConnHolds
<1>11. CASE conn' = Closed /\ page' = OnStatus(page, transcript[conn.id].state)
  <2>1. RowsHold' /\ page'.tail
    BY <1>2, <1>11, StateRead, OnStatusIs, RowsSame DEF TypeInv, PageTyped
  <2>2. conn'.pc = "closed"
    BY <1>11, ClosedType DEF TypeInv, ConnTyped
  <2>. QED  BY <1>6, <2>1, <2>2 DEF ConnHolds, QueueHolds, Reads
<1>12. CASE conn' = [conn EXCEPT !.q = Tail(q), !.pc = "farewell"] /\ page' = page
  <2>1. conn'.pc = "farewell"
    BY <1>12 DEF TypeInv, ConnTyped, Conns
  <2>2. RowsHold'
    BY <1>12 DEF RowsHold
  <2>. QED  BY <1>2, <1>6, <1>12, <2>1, <2>2 DEF ConnHolds, QueueHolds, Reads
<1>. QED  BY <1>1, <1>7, <1>9, <1>10, <1>11, <1>12, TakeIs DEF TypeInv, PageTyped

LEMMA HandlerGap ==
  ASSUME TypeInv, TypeInv', GapFree, Handler
  PROVE  GapFree'
<1>. USE DEF GapFree
<1>0. UNCHANGED <<store, pub, rest>> /\ UNCHANGED excuse
  BY DEF Handler
<1>1. PubEnds'
  BY <1>0 DEF PubEnds, store
<1>2. /\ conn \in Conns /\ conn.id \in Id /\ conn.last \in Nat /\ conn.until \in Nat
      /\ Len(segment[conn.id]) \in Nat
  BY BaseType DEF TypeInv, ConnTyped
<1>3. CASE SendReplayed
  BY <1>0, <1>3, SendReplayedGap
<1>4. CASE Take
  BY <1>0, <1>4, TakeGap
<1>5. CASE ReadReplay
  <2>1. conn.pc = "replay" /\ page' = page
        /\ conn' = [conn EXCEPT !.pc = "send", !.until = Len(segment[conn.id])]
    BY <1>5 DEF ReadReplay
  <2>2. /\ conn'.pc = "send" /\ conn'.id = conn.id /\ conn'.q = conn.q /\ conn'.last = conn.last
        /\ conn'.until = Len(segment[conn.id])
    BY <1>2, <2>1 DEF Conns
  <2>3. Base <= Base'
    BY <1>2, <2>1, <2>2 DEF Base
  <2>4. QueueHolds'
    BY <1>0, <2>1, <2>2, <2>3, BaseMoves DEF ConnHolds, Reads
  <2>5. RowsHold'
    BY <1>0, <2>1 DEF RowsHold
  <2>. QED  BY <1>1, <2>1, <2>2, <2>4, <2>5 DEF ConnHolds, Reads
<1>6. CASE TimeOut
  <2>1. conn.pc = "wait" /\ page' = page /\ conn' = [conn EXCEPT !.pc = "beat"]
    BY <1>6 DEF TimeOut
  <2>2. /\ conn'.pc = "beat" /\ conn'.id = conn.id /\ conn'.q = conn.q /\ conn'.last = conn.last
    BY <1>2, <2>1 DEF Conns
  <2>3. Base <= Base'
    BY <1>2, <2>1, <2>2 DEF Base
  <2>4. QueueHolds'
    BY <1>0, <2>1, <2>2, <2>3, BaseMoves DEF ConnHolds, Reads
  <2>5. RowsHold'
    BY <1>0, <2>1 DEF RowsHold
  <2>. QED  BY <1>1, <2>1, <2>2, <2>4, <2>5 DEF ConnHolds, Reads
<1>7. CASE ReadState \/ Beat \/ Farewell
  <2>1. /\ page' = OnStatus(page, transcript[conn.id].state)
        /\ conn.pc # "none"
        /\ \/ conn' = Closed
           \/ /\ conn' = Waiting
              /\ conn.pc = "beat" \/ (conn.pc = "send" /\ conn.last >= conn.until)
    BY <1>7 DEF ReadState, Beat, Farewell, SendState
  <2>2. page' \in Pages /\ page'.shown = page.shown /\ page'.cursor = page.cursor
        /\ page'.after = page.after /\ page'.tail = page.tail
    BY <2>1, StateRead, OnStatusIs DEF TypeInv, PageTyped
  <2>3. RowsHold' /\ page'.tail
    BY <1>0, <2>1, <2>2, RowsSame DEF ConnHolds
  <2>4. CASE conn' = Closed
    <3>1. conn'.pc = "closed"
      BY <1>2, <2>4, ClosedType
    <3>. QED  BY <1>1, <2>3, <3>1 DEF ConnHolds, QueueHolds, Reads
  <2>5. CASE conn' = Waiting /\ (conn.pc = "beat" \/ (conn.pc = "send" /\ conn.last >= conn.until))
    <3>1. /\ conn'.pc = "wait" /\ conn'.id = conn.id /\ conn'.q = conn.q
          /\ conn'.last = conn.last
      BY <1>2, <2>5, WaitingType
    <3>2. Base <= Base'
      BY <1>2, <2>5, <3>1 DEF Base
    <3>3. QueueHolds'
      BY <1>0, <2>5, <3>1, <3>2, BaseMoves DEF ConnHolds, Reads
    <3>. QED  BY <1>1, <2>2, <2>3, <2>5, <3>1, <3>3 DEF ConnHolds, Reads
  <2>. QED  BY <2>1, <2>4, <2>5
<1>. QED  BY <1>3, <1>4, <1>5, <1>6, <1>7 DEF Handler

-----------------------------------------------------------------------------
(***************************************************************************)
(* The page: its cursors stay behind its rows.                             *)
(***************************************************************************)
LEMMA ConnectGap ==
  ASSUME TypeInv, TypeInv', GapFree, Connect
  PROVE  GapFree'
<1>. USE DEF GapFree
<1>1. PICK i \in IF Current(S) # {} THEN Current(S) ELSE PendingTranscript :
        conn' = [NoConn EXCEPT !.pc = "replay", !.id = i, !.last = page.after]
  BY DEF Connect
<1>2. i \in Id /\ transcript[i].state # "absent"
  BY DEF Current, PendingTranscript, Pending
<1>3. UNCHANGED <<transcript, job, segment>> /\ UNCHANGED <<pub, page, rest>> /\ page.tail
  BY DEF Connect, store
<1>4. /\ conn'.pc = "replay" /\ conn'.id = i /\ conn'.last = page.after /\ conn'.q = <<>>
  BY <1>1 DEF NoConn
<1>5. Base' = Len(segment[i])
  BY <1>3, <1>4 DEF Base
<1>6. Chain(<<>>, Len(segment[i]))
  BY DEF Chain
<1>7. Reaches(<<>>, Len(segment[i]), Published(i)) /\ Published(i)' = Published(i)
  <2>1. Len(segment[i]) >= Published(i)
    BY <1>2, PublishedType
  <2>. QED  BY <1>3, <2>1 DEF Reaches, Published
<1>8. QueueHolds'
  BY <1>2, <1>3, <1>4, <1>5, <1>6, <1>7 DEF QueueHolds
<1>9. RowsHold' /\ PubEnds'
  BY <1>3 DEF RowsHold, PubEnds
<1>. QED  BY <1>3, <1>4, <1>8, <1>9 DEF ConnHolds

\* A socket that ended.
LEMMA EndedConn ==
  ASSUME conn'.pc \in {"none", "closed"}, conn'.pc = "closed" => page'.tail
  PROVE  ConnHolds'
BY DEF ConnHolds, QueueHolds, Reads

\* The page fetches from a cursor that it has, or from the start.
LEMMA Fetches ==
  ASSUME TypeInv, RowsHold, NEW why \in {"open", "poll", "end", "button"},
         page'.shown = page.shown, page'.cursor = page.cursor,
         page'.after = page.after \/ page'.after = page.cursor \/ page'.after = 0,
         ~page'.tail => page'.after = 0,
         rest' \in {rest, NoRest, Get(why, After), Get(why, 0), [Get(why, 0) EXCEPT !.whole = TRUE]}
           \/ rest'.after = rest.after
  PROVE  RowsHold'
<1>1. PICK m \in Nat : /\ SeqsOf(page.shown) = 1..m
                       /\ page.cursor <= m /\ page.after <= m /\ rest.after <= m
  BY DEF RowsHold
<1>2. page.cursor \in Nat /\ page.after \in Nat /\ rest.after \in Nat
  BY DEF TypeInv, PageTyped, Pages, Rests
<1>3. After \in Nat /\ After <= m
  BY <1>1, <1>2, AfterType DEF TypeInv, PageTyped
<1>4. [Get(why, 0) EXCEPT !.whole = TRUE].after = 0
  BY DEF Get, NoRest
<1>5. Get(why, After).after = After /\ Get(why, 0).after = 0 /\ NoRest.after = 0
  BY <1>3, GetType
<1>6. rest'.after <= m
  <2>1. CASE rest' \in {rest, NoRest, Get(why, After), Get(why, 0),
                       [Get(why, 0) EXCEPT !.whole = TRUE]}
    <3>1. CASE rest' = [Get(why, 0) EXCEPT !.whole = TRUE]
      BY <1>4, <3>1
    <3>2. CASE rest' \in {rest, NoRest, Get(why, After), Get(why, 0)}
      BY <1>1, <1>3, <1>5, <3>2
    <3>. QED  BY <2>1, <3>1, <3>2
  <2>. QED  BY <1>1, <2>1
<1>. QED  BY <1>1, <1>2, <1>6 DEF RowsHold

LEMMA OnCloseGap ==
  ASSUME TypeInv, TypeInv', GapFree, OnClose
  PROVE  GapFree'
<1>. USE DEF GapFree
<1>1. UNCHANGED <<transcript, pub>> /\ conn.pc = "closed" /\ conn' = NoConn
  BY DEF OnClose, store
<1>2. ConnHolds' /\ PubEnds'
  <2>1. conn'.pc = "none"
    BY <1>1 DEF NoConn
  <2>. QED  BY <1>1, <2>1, EndedConn DEF PubEnds
<1>3. CASE page.terminal
  <2>1. page' = [page EXCEPT !.tail = FALSE, !.after = 0, !.terminal = FALSE]
        /\ rest' = Get("end", After)
    BY <1>3 DEF OnClose
  <2>2. page'.shown = page.shown /\ page'.cursor = page.cursor /\ page'.after = 0
    BY <2>1 DEF TypeInv, PageTyped, Pages
  <2>3. RowsHold'
    BY <2>1, <2>2, Fetches
  <2>. QED  BY <1>2, <2>3
<1>4. CASE ~page.terminal
  <2>1. RowsHold'
    BY <1>4 DEF OnClose, RowsHold
  <2>. QED  BY <1>2, <2>1
<1>. QED  BY <1>3, <1>4

\* The tail that starts where the rows end.
LEMMA TailStarts ==
  ASSUME NEW p \in Pages, TypeInv, RowsHold,
         p.shown = page.shown, p.cursor = page.cursor, p.after = page.after, p.tail = page.tail,
         page' = StartTail(p) \/ page' = p,
         rest' \in {rest, NoRest, Get("poll", After)}
  PROVE  /\ RowsHold'
         /\ page.tail => page'.tail /\ page'.after = page.after
<1>1. /\ page'.shown = p.shown /\ page'.cursor = p.cursor
      /\ (page'.after = p.after /\ page'.tail = p.tail)
         \/ (~p.tail /\ page'.tail /\ page'.after = p.cursor)
  BY StartTailIs
<1>2. ~page'.tail => page'.after = 0
  BY <1>1 DEF RowsHold
<1>. QED  BY <1>1, <1>2, Fetches

LEMMA PageGap ==
  ASSUME TypeInv, TypeInv', BlankRows, GapFree, Poll \/ Transcribe \/ RestSelect
  PROVE  GapFree'
<1>. USE DEF GapFree
<1>1. CASE Poll
  <2>1. PICK p \in Pages : p = [page EXCEPT !.active = session # "finished"]
    BY DEF TypeInv, PageTyped, Pages
  <2>2. p.shown = page.shown /\ p.cursor = page.cursor /\ p.after = page.after
        /\ p.tail = page.tail
    BY <2>1 DEF TypeInv, PageTyped, Pages
  <2>3. (page' = p /\ rest' = Get("poll", After)) \/ (page' = StartTail(p) /\ rest' = rest)
    BY <1>1, <2>1 DEF Poll
  <2>4. RowsHold' /\ (page.tail => page'.tail /\ page'.after = page.after)
    BY <2>2, <2>3, TailStarts
  <2>5. UNCHANGED <<transcript, job, segment>> /\ UNCHANGED pub /\ conn' = conn
    BY <1>1 DEF Poll, store
  <2>. QED  BY <2>4, <2>5, SameConn
<1>2. CASE Transcribe
  <2>1. PICK j \in Id : CreateTranscript(j, S, "on_demand", "pending", "queued")
    BY <1>2 DEF Transcribe
  <2>2. UNCHANGED <<pub, conn>> /\ page' = page /\ rest' = Get("button", After)
    BY <1>2 DEF Transcribe
  <2>3. RowsHold'
    <3>1. ~page'.tail => page'.after = 0
      BY <2>2 DEF RowsHold
    <3>. QED  BY <2>2, <3>1, Fetches
  <2>4. "on_demand" \in Mode
    BY DEF Mode
  <2>. QED  BY <2>1, <2>2, <2>3, <2>4, CreateGap
<1>3. CASE RestSelect
  <2>1. UNCHANGED <<transcript, job, segment>> /\ UNCHANGED pub /\ conn' = conn
    BY <1>3 DEF RestSelect, store
  <2>2. CASE Selected = {}
    <3>1. (page' = StartTail(page) \/ page' = page) /\ rest' = NoRest
      BY <1>3, <2>2 DEF RestSelect
    <3>2. RowsHold' /\ (page.tail => page'.tail /\ page'.after = page.after)
      BY <3>1, TailStarts DEF TypeInv, PageTyped
    <3>. QED  BY <2>1, <3>2, SameConn
  <2>3. CASE Selected # {}
    <3>1. PICK i : rest' = [rest EXCEPT !.pc = "read", !.id = i, !.state = transcript[i].state]
                   /\ page' = page
      BY <1>3, <2>3 DEF RestSelect
    <3>2. rest'.after = rest.after
      BY <3>1 DEF TypeInv, PageTyped, Rests
    <3>3. RowsHold'
      BY <3>1, <3>2, RowsSame
    <3>. QED  BY <2>1, <3>1, <3>3, SameConn
  <2>. QED  BY <2>2, <2>3
<1>. QED  BY <1>1, <1>2, <1>3

LEMMA RestReadGap ==
  ASSUME TypeInv, TypeInv', GapFree, RestRead, excuse' = "none"
  PROVE  GapFree'
<1>. USE DEF GapFree
<1>0. UNCHANGED <<transcript, job, segment>> /\ UNCHANGED pub /\ conn' = conn
  BY DEF RestRead, store
<1>1. PICK i \in Id, pending \in BOOLEAN, p1 \in Pages :
        /\ i = rest.id /\ pending = PendingJob(i)
        /\ p1 = [page EXCEPT !.state = rest.state, !.pending = pending]
        /\ p1.shown = page.shown /\ p1.cursor = page.cursor /\ p1.after = page.after
        /\ p1.tail = page.tail
  <2>1. PendingJob(rest.id) \in BOOLEAN /\ rest.id \in Id /\ rest.state \in TranscriptState
    BY DEF TypeInv, PageTyped, Rests, PendingJob
  <2>2. PICK pending, p1 :
          /\ pending \in BOOLEAN /\ pending = PendingJob(rest.id)
          /\ p1 = [page EXCEPT !.state = rest.state, !.pending = pending]
    BY <2>1
  <2>3. p1 \in Pages /\ p1.shown = page.shown /\ p1.cursor = page.cursor
        /\ p1.after = page.after /\ p1.tail = page.tail
    BY <2>1, <2>2 DEF TypeInv, PageTyped, Pages
  <2>. QED  BY <2>1, <2>2, <2>3
<1>2. PICK n \in Nat, a \in Nat : n = Len(segment[i]) /\ a = rest.after
  BY PublishedType DEF TypeInv, PageTyped, Rests
<1>3. (a + 1)..n \in SUBSET (1..Top)
  BY <1>1, <1>2, RestReadIs DEF TypeInv, OthersTyped
<1>4. PICK m \in Nat : /\ SeqsOf(page.shown) = 1..m
                       /\ page.cursor <= m /\ page.after <= m /\ a <= m
  BY <1>2 DEF RowsHold
<1>5. page.cursor \in Nat /\ page.after \in Nat
  BY DEF TypeInv, PageTyped, Pages
<1>6. CASE page' = WithRows(p1, i, (a + 1)..n) /\ rest' = NoRest
  <2>1. /\ SeqsOf(page'.shown) = SeqsOf(p1.shown) \cup ((a + 1)..n)
        /\ page'.cursor = p1.cursor \/ page'.cursor \in (a + 1)..n
        /\ SamePage(p1, page')
    BY <1>3, <1>6, WithRowsIs
  <2>2. PICK k \in Nat : k = IF n <= m THEN m ELSE n
    OBVIOUS
  <2>3. (1..m) \cup ((a + 1)..n) = 1..k
    BY <1>4, <2>2
  <2>4. page'.cursor <= k /\ page'.after <= k
    BY <1>1, <1>4, <1>5, <2>1, <2>2 DEF SamePage
  <2>5. SeqsOf(page'.shown) = 1..k
    BY <1>1, <1>4, <2>1, <2>3
  <2>6. rest'.after <= k
    BY <1>6, GetType
  <2>7. page'.tail = page.tail /\ page'.after = page.after
    BY <1>1, <2>1 DEF SamePage
  <2>8. RowsHold'
    BY <2>4, <2>5, <2>6, <2>7 DEF RowsHold
  <2>. QED  BY <1>0, <2>7, <2>8, SameConn
<1>7. CASE /\ page' \in Adopted(page, i, rest.state, pending) /\ rest' = NoRest
           /\ ~page.tail
  <2>1. PICK k \in 0..Top :
           /\ page' \in Pages /\ SeqsOf(page'.shown) = 1..k /\ page'.cursor <= k
           /\ (page'.tail /\ page'.after = page'.cursor)
              \/ (~page'.tail /\ page'.after = page.after)
    BY <1>7, AdoptedIs DEF TypeInv, PageTyped, Rests
  <2>2. page.after = 0 /\ k \in Nat
    BY <1>7, TopIs DEF RowsHold
  <2>3. page'.after <= k /\ (~page'.tail => page'.after = 0)
    BY <2>1, <2>2
  <2>4. rest'.after <= k
    BY <1>7, <2>2, GetType
  <2>5. RowsHold'
    BY <2>1, <2>2, <2>3, <2>4 DEF RowsHold
  <2>. QED  BY <1>0, <1>7, <2>5, SameConn
<1>8. CASE page' = page /\ rest' = [Get(rest.why, 0) EXCEPT !.whole = TRUE]
  <2>1. rest.why \in {"open", "poll", "end", "button"}
    BY DEF TypeInv, PageTyped, Rests
  <2>2. ~page'.tail => page'.after = 0
    BY <1>8 DEF RowsHold
  <2>3. RowsHold'
    BY <1>8, <2>1, <2>2, Fetches
  <2>. QED  BY <1>0, <1>8, <2>3, SameConn
<1>. QED  BY <1>1, <1>2, <1>6, <1>7, <1>8, RestReadIs DEF TypeInv, OthersTyped

LEMMA CrashGap ==
  ASSUME TypeInv, TypeInv', GapFree, Crash
  PROVE  GapFree'
<1>. USE DEF GapFree
<1>1. page' = StartTail(page) \/ page' = page
  BY DEF Crash
<1>2. rest' = NoRest
  BY DEF Crash
<1>3. RowsHold' /\ (page.tail => page'.tail)
  BY <1>1, <1>2, TailStarts DEF TypeInv, PageTyped
<1>4. PubEnds'
  <2>1. pub'.pc = "idle"
    BY RestingType DEF Crash
  <2>. QED  BY <2>1 DEF PubEnds
<1>5. conn'.pc \in {"none", "closed"} /\ (conn'.pc = "closed" => page'.tail)
  <2>1. IF conn.pc = "none" THEN conn' = conn ELSE conn' = Closed
    BY DEF Crash
  <2>. QED  BY <1>3, <2>1, ClosedType DEF TypeInv, ConnTyped, ConnHolds
<1>. QED  BY <1>3, <1>4, <1>5, EndedConn

-----------------------------------------------------------------------------
LEMMA BlankStep ==
  ASSUME TypeInv, BlankRows, [Next]_svars
  PROVE  BlankRows'
<1>. USE DEF BlankRows
<1>0. /\ transcript \in [Id -> Rows] /\ job \in [Id -> Jobs] /\ pub.id \in Id
  BY StoreIs DEF TypeInv, PubHolds, Pubs
<1>v. \A v \in Verdicts : v # "absent"
  BY StreamAssumption DEF Ended
<1>1. ASSUME NEW i \in Id, NEW v, NEW final, v # "absent",
             transcript' = [transcript EXCEPT ![i].state = v, ![i].final = final]
      PROVE  BlankRows'
  BY <1>0, <1>1 DEF Rows
<1>2. ASSUME NEW i \in Id, NEW mode, NEW v, NEW jstate, v # "absent",
             CreateTranscript(i, S, mode, v, jstate)
      PROVE  BlankRows'
  BY <1>0, <1>2 DEF CreateTranscript, Rows
<1>3. CASE BeginLive
  <2>1. 1 \in Id
    BY StreamAssumption DEF Id
  <2>. QED  BY <1>2, <1>3, <2>1 DEF BeginLive
<1>4. CASE Transcribe
  BY <1>2, <1>4 DEF Transcribe
<1>5. CASE Crash
  <2>1. ASSUME NEW i \in Id, transcript'[i].state = "absent"
        PROVE  transcript'[i] = transcript[i]
    <3>1. \/ transcript'[i] = transcript[i]
          \/ transcript'[i] = [transcript[i] EXCEPT !.state = "interrupted_live", !.final = FALSE]
      BY <1>5, Zenon DEF Crash
    <3>2. [transcript[i] EXCEPT !.state = "interrupted_live", !.final = FALSE].state
            = "interrupted_live"
      BY <1>0 DEF Rows
    <3>. QED  BY <2>1, <3>1, <3>2
  <2>. QED  BY <2>1
<1>6. CASE Publisher
  <2>1. CASE Begins
    <3>1. CASE \E i \in Id, v \in Verdicts : EndLive(i, v) \/ EndOnDemand(i, v)
      <4>1. PICK i \in Id, v \in Verdicts : SetState(i, v, v = "completed")
        BY <3>1 DEF EndLive, EndOnDemand
      <4>2. transcript' = [transcript EXCEPT ![i].state = v, ![i].final = (v = "completed")]
        BY <4>1 DEF SetState
      <4>. QED  BY <1>1, <1>v, <4>2
    <3>2. CASE \E i \in Id : Finalising(i)
      <4>1. PICK i \in Id :
              transcript' = [transcript EXCEPT ![i].state = "finalising", ![i].final = FALSE]
        BY <3>2 DEF Finalising
      <4>. QED  BY <1>1, <4>1
    <3>3. CASE FlushSegment \/ \E i \in Id : StoreSegment(i) \/ StartJob(i) \/ FlushOnDemand(i)
      BY <3>3 DEF FlushSegment, StoreSegment, StartJob, FlushOnDemand, AppendSegment,
                  SetJobState, UpdateJob, store
    <3>. QED  BY <2>1, <3>1, <3>2, <3>3 DEF Begins
  <2>2. CASE GoesOn
    BY <2>2 DEF GoesOn, PublishSegment, MarkDropped, WriteJob, PublishStatus, Close,
                SetJobState, UpdateJob, store
  <2>. QED  BY <1>6, <2>1, <2>2 DEF Publisher
<1>7. CASE StopSession \/ Connect \/ Handler \/ Drop \/ OnClose \/ Poll \/ RestSelect \/ RestRead
           \/ UNCHANGED svars
  BY <1>7 DEF StopSession, Connect, Handler, Drop, OnClose, Poll, RestSelect, RestRead,
              store, svars
<1>. QED  BY <1>3, <1>4, <1>5, <1>6, <1>7 DEF Next

\* An excuse stays: a step that ends without one began without one.
LEMMA NoExcuse ==
  ASSUME TypeInv, [Next]_svars, excuse' = "none"
  PROVE  excuse = "none"
<1>0. excuse \in Excuse
  BY DEF TypeInv, OthersTyped
<1>1. ASSUME NEW why, Note(why)
      PROVE  excuse = "none"
  BY <1>1 DEF Note
<1>2. CASE Publisher
  <2>1. CASE Begins
    BY <2>1, BeginsType
  <2>2. CASE GoesOn
    <3>1. ASSUME NEW i, NEW frame, NEW next, Offer(i, frame, next)
          PROVE  excuse = "none"
      BY <1>1, <3>1 DEF Offer
    <3>2. CASE PublishSegment \/ PublishStatus
      BY <3>1, <3>2 DEF PublishSegment, PublishStatus
    <3>3. CASE MarkDropped \/ WriteJob \/ Close
      BY <3>3 DEF MarkDropped, WriteJob, Close
    <3>. QED  BY <2>2, <3>2, <3>3 DEF GoesOn
  <2>. QED  BY <1>2, <2>1, <2>2 DEF Publisher
<1>3. CASE Connect
  BY <1>1, <1>3 DEF Connect
<1>4. CASE RestRead
  BY <1>0, <1>4, RestReadIs DEF TypeInv
<1>5. CASE Crash
  BY <1>1, <1>5 DEF Crash
<1>6. CASE BeginLive \/ StopSession \/ Handler \/ Drop \/ OnClose \/ Poll \/ Transcribe
           \/ RestSelect \/ UNCHANGED svars
  BY <1>6 DEF BeginLive, StopSession, Handler, Drop, OnClose, Poll, Transcribe, RestSelect,
              svars
<1>. QED  BY <1>2, <1>3, <1>4, <1>5, <1>6 DEF Next

LEMMA InitGap == Init => GapInv
<1>. SUFFICES ASSUME Init  PROVE GapInv
  OBVIOUS
<1>1. BlankRows
  BY DEF Init, StoreInit, BlankRows
<1>2. RowsHold
  <2>1. page.shown = {} /\ page.cursor = 0 /\ page.after = 0 /\ rest.after = 0
    BY DEF Init, Blank, Get, NoRest
  <2>2. SeqsOf({}) = 1..0
    BY DEF SeqsOf
  <2>. QED  BY <2>1, <2>2 DEF RowsHold
<1>3. PubEnds
  BY RestingType DEF Init, PubEnds
<1>4. ConnHolds
  BY DEF Init, NoConn, ConnHolds, QueueHolds, Reads
<1>. QED  BY <1>1, <1>2, <1>3, <1>4 DEF GapInv, GapFree

LEMMA GapStep == TypeInv /\ TypeInv' /\ GapInv /\ [Next]_svars => GapInv'
<1>. SUFFICES ASSUME TypeInv, TypeInv', GapInv, [Next]_svars  PROVE GapInv'
  OBVIOUS
<1>1. BlankRows /\ BlankRows'
  BY BlankStep DEF GapInv
<1>2. ASSUME excuse' = "none"
      PROVE  GapFree'
  <2>1. GapFree
    BY <1>2, NoExcuse DEF GapInv
  <2>. USE DEF GapFree
  <2>2. CASE BeginLive
    <3>1. PICK tstate, jstate : CreateTranscript(1, S, "live", tstate, jstate)
      BY <2>2 DEF BeginLive
    <3>2. UNCHANGED <<pub, conn, page, rest>> /\ RowsHold'
      BY <2>1, <2>2 DEF BeginLive, RowsHold
    <3>3. 1 \in Id /\ "live" \in Mode
      BY StreamAssumption DEF Id, Mode
    <3>. QED  BY <1>1, <2>1, <3>1, <3>2, <3>3, CreateGap
  <2>3. CASE StopSession \/ UNCHANGED svars
    <3>1. UNCHANGED <<transcript, job, segment, page, rest>> /\ UNCHANGED pub /\ conn' = conn
      BY <2>3 DEF StopSession, svars, store
    <3>2. RowsHold'
      BY <2>1, <3>1 DEF RowsHold
    <3>. QED  BY <2>1, <3>1, <3>2, SameConn
  <2>4. CASE Drop
    <3>1. UNCHANGED <<transcript, pub, page, rest>> /\ conn' = Closed /\ conn.pc # "none"
      BY <2>4 DEF Drop, store
    <3>2. RowsHold' /\ PubEnds'
      BY <2>1, <3>1 DEF RowsHold, PubEnds
    <3>3. conn'.pc = "closed" /\ page'.tail
      BY <2>1, <3>1, ClosedType DEF TypeInv, ConnTyped, ConnHolds
    <3>. QED  BY <3>2, <3>3, EndedConn
  <2>. QED
    BY <1>1, <1>2, <2>1, <2>2, <2>3, <2>4, PublisherGap, ConnectGap, HandlerGap, OnCloseGap,
       PageGap, RestReadGap, CrashGap
    DEF Next
<1>. QED  BY <1>1, <1>2 DEF GapInv

(***************************************************************************)
(* The rows on screen have no gap (NoGap): the cursor of the page, the     *)
(* tail and every fetch stay behind its rows, the handler has sent what    *)
(* the tail has seen, and its queue continues that.                        *)
(***************************************************************************)
THEOREM RowsHaveNoGap == Spec => []NoGap
<1>1. TypeInv /\ GapInv => NoGap
  <2>. SUFFICES ASSUME GapInv, excuse = "none"
                PROVE  SeqsOf(page.shown) = 1..Cardinality(SeqsOf(page.shown))
    BY DEF NoGap
  <2>1. PICK m \in Nat : SeqsOf(page.shown) = 1..m
    BY DEF GapInv, GapFree, RowsHold
  <2>2. Cardinality(1..m) = m
    BY FS_Interval
  <2>. QED  BY <2>1, <2>2
<1>. QED  BY <1>1, InitType, TypeStep, InitGap, GapStep, PTL DEF Spec
=============================================================================
