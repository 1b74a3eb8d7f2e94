----------------------------- MODULE MetadataStore -----------------------------
(***************************************************************************)
(* The SQLite metadata store (storage/metadata.py): one row per session,   *)
(* one per capture source, one per audio chunk, and the append-only event  *)
(* trail.  Every operation is one transaction under the store's lock, so   *)
(* each is an action that changes the tables in a single step.             *)
(***************************************************************************)
EXTENDS Naturals, FiniteSets

CONSTANTS Session,   \* session ids
          Kind       \* SourceKind: mic and system

(***************************************************************************)
(* A capture source is identified by its session and kind, the primary key *)
(* of capture_sources; a chunk by its source and seq.  Sizes and durations *)
(* are both counted in frames of audio.                                    *)
(***************************************************************************)
Source == Session \X Kind
SessionOf(w) == w[1]
KindOf(w) == w[2]
Chunk == [seq : Nat, size : Nat]

SessionStatus == {"absent", "active", "completed", "interrupted"}
SourceStatus == {"absent", "active", "completed", "ended_device_lost"}
Finished == {"completed", "interrupted"}

VARIABLES session,   \* table sessions: status, duration_s, size_bytes
          source,    \* table capture_sources: status, chunk_count
          row,       \* table audio_chunks, by source
          event      \* table session_events, by session

metadata == <<session, source, row, event>>

Event == {<<"started">>, <<"stopped">>, <<"disk_low">>, <<"reconciled">>}
           \cup ({"device_lost"} \X Kind \X Nat)

MetadataTypeOK ==
  /\ session \in [Session -> [status : SessionStatus, duration : Nat, size : Nat]]
  /\ source \in [Source -> [status : SourceStatus, count : Nat]]
  /\ row \in [Source -> SUBSET Chunk]
  /\ event \in [Session -> SUBSET Event]

MetadataInit ==
  /\ session = [s \in Session |-> [status |-> "absent", duration |-> 0, size |-> 0]]
  /\ source = [w \in Source |-> [status |-> "absent", count |-> 0]]
  /\ row = [w \in Source |-> {}]
  /\ event = [s \in Session |-> {}]

-----------------------------------------------------------------------------
(***************************************************************************)
(* The session row and its source rows appear together, in one             *)
(* transaction.  The partial unique index one_active makes the insert fail *)
(* while another row is active; no caller relies on that failure, because  *)
(* the engine checks _active first (see OneActiveSession).                 *)
(***************************************************************************)
CreateActiveSession(s) ==
  /\ \A t \in Session : session[t].status # "active"
  /\ session' = [session EXCEPT ![s].status = "active"]
  /\ source' = [w \in Source |-> IF SessionOf(w) = s
                                   THEN [source[w] EXCEPT !.status = "active"]
                                   ELSE source[w]]
  /\ UNCHANGED <<row, event>>

IsRecorded(w, c) == \E r \in row[w] : r.seq = c.seq

\* A bug: the counters move without a look at cursor.rowcount.
MutantRecordChunk(w, c) ==
  /\ row' = [row EXCEPT ![w] = IF IsRecorded(w, c) THEN @ ELSE @ \cup {c}]
  /\ source' = [source EXCEPT ![w].count = @ + 1]
  /\ session' = [session EXCEPT ![SessionOf(w)].size = @ + c.size]
  /\ UNCHANGED event

(***************************************************************************)
(* INSERT OR IGNORE; the counters move only when a row was inserted, so    *)
(* recovery may record a chunk again.                                      *)
(***************************************************************************)
RecordChunk(w, c) ==
  /\ IF IsRecorded(w, c)
       THEN UNCHANGED <<row, source, session>>
       ELSE /\ row' = [row EXCEPT ![w] = @ \cup {c}]
            /\ source' = [source EXCEPT ![w].count = @ + 1]
            /\ session' = [session EXCEPT ![SessionOf(w)].size = @ + c.size]
  /\ UNCHANGED event

\* The WHERE clauses: only an active source ends, only an active session ends.
EndSource(w, status) ==
  /\ source' = IF source[w].status = "active"
                 THEN [source EXCEPT ![w].status = status]
                 ELSE source
  /\ UNCHANGED <<session, row, event>>

FinalizeSession(s, status, duration) ==
  /\ session' = IF session[s].status = "active"
                  THEN [session EXCEPT ![s].status = status, ![s].duration = duration]
                  ELSE session
  /\ UNCHANGED <<source, row, event>>

AppendEvent(s, e) ==
  /\ event' = [event EXCEPT ![s] = @ \cup {e}]
  /\ UNCHANGED <<session, source, row>>
=============================================================================
