------------------------------ MODULE SessionFeed ------------------------------
(***************************************************************************)
(* What the rest of the process sees of capture: the status of a session,  *)
(* the chunk files on disk, and the order in which the session and chunk   *)
(* observers of CaptureEngine are called.  CaptureEngine implements this   *)
(* specification (ImplementsFeed there, joins that time out aside), and    *)
(* TranscriptionWorker runs on it.                                         *)
(***************************************************************************)
EXTENDS Naturals

CONSTANTS Session,   \* session ids
          Kind       \* SourceKind: mic and system

Source == Session \X Kind
SessionOf(w) == w[1]
KindOf(w) == w[2]

VARIABLES status,    \* of each session: absent, active, or finished in any way
          told,      \* what the session observers were told by this process
          onDisk,    \* chunk files of each source; their numbers are 0, 1, ...
          fed        \* chunks of each source the chunk observers were told of

feed == <<status, told, onDisk, fed>>

FeedStatus == {"absent", "active", "finished"}
Notice == {"started", "stopped", "finalized"}

FeedTypeOK ==
  /\ status \in [Session -> FeedStatus]
  /\ told \in [Session -> SUBSET Notice]
  /\ onDisk \in [Source -> Nat]
  /\ fed \in [Source -> Nat]

FeedInit ==
  /\ status = [s \in Session |-> "absent"]
  /\ told = [s \in Session |-> {}]
  /\ onDisk = [w \in Source |-> 0]
  /\ fed = [w \in Source |-> 0]

\* One session at a time; its writers run before anyone is told that it started.
Activate(s) ==
  /\ \A t \in Session : status[t] # "active"
  /\ status[s] = "absent"
  /\ status' = [status EXCEPT ![s] = "active"]
  /\ UNCHANGED <<told, onDisk, fed>>

Tell(s, notice) == told' = [told EXCEPT ![s] = @ \cup {notice}]

TellStarted(s) ==
  /\ status[s] = "active" /\ told[s] = {}
  /\ Tell(s, "started")
  /\ UNCHANGED <<status, onDisk, fed>>

\* A stop that failed half way is told again when it is repeated.
TellStopped(s) ==
  /\ status[s] # "absent" /\ "finalized" \notin told[s]
  /\ Tell(s, "stopped")
  /\ UNCHANGED <<status, onDisk, fed>>

\* A chunk is on disk before its observers hear of it, and stays there if they never do.
FileChunk(w) ==
  /\ status[SessionOf(w)] = "active" /\ onDisk[w] = fed[w]
  /\ onDisk' = [onDisk EXCEPT ![w] = @ + 1]
  /\ UNCHANGED <<status, told, fed>>

TellChunk(w) ==
  /\ status[SessionOf(w)] = "active" /\ onDisk[w] = fed[w] + 1
  /\ fed' = [fed EXCEPT ![w] = @ + 1]
  /\ UNCHANGED <<status, told, onDisk>>

\* The session ends; a stop tells of it in a step of its own, the other ends in the same.
Finish(s) ==
  /\ status[s] = "active"
  /\ status' = [status EXCEPT ![s] = "finished"]
  /\ UNCHANGED told \/ Tell(s, "finalized")
  /\ UNCHANGED <<onDisk, fed>>

TellFinalized(s) ==
  /\ status[s] = "finished" /\ "finalized" \notin told[s]
  /\ Tell(s, "finalized")
  /\ UNCHANGED <<status, onDisk, fed>>

\* The process dies, and with it its observers; the next one ends what was active.
Restart ==
  /\ status' = [s \in Session |-> IF status[s] = "active" THEN "finished" ELSE status[s]]
  /\ told' = [s \in Session |-> {}]
  /\ fed' = [w \in Source |-> 0]
  /\ UNCHANGED onDisk

FeedNext ==
  \/ \E s \in Session : Activate(s) \/ TellStarted(s) \/ TellStopped(s)
                          \/ Finish(s) \/ TellFinalized(s)
  \/ \E w \in Source : FileChunk(w) \/ TellChunk(w)
  \/ Restart

FeedSpec == FeedInit /\ [][FeedNext]_feed
=============================================================================
