------------------------------- MODULE Grounding -------------------------------
(***************************************************************************)
(* How the text of a transcript becomes a summary or an answer that cites  *)
(* it (assistant/summarize.py, retrieval.py, grounding.py).  A transcript  *)
(* is cut into prompts that fit the model, the model answers whatever it   *)
(* likes, and every number it cites is checked against what it was shown.  *)
(* A text is what the code finds in it: headings, an overview, the set of  *)
(* excerpt numbers of each bullet, and a length.                           *)
(***************************************************************************)
EXTENDS Naturals, FiniteSets, SequencesExt

CONSTANTS WindowS,       \* summary_window_s
          Budget,        \* excerpt_budget_tokens, in the unit of the costs
          MaxMarker,     \* the largest number a marker may have: [9999]
          Transcripts,   \* bound: transcripts, the start and the length of each segment
          Sizes,         \* bound: length of the notes the model writes
          Cites,         \* bound: the sets of numbers a bullet cites
          Bullets,       \* bound: bullets of a reply
          Scores         \* bound: how well a segment matches a question

ASSUME GroundingAssumption ==
  /\ WindowS \in Nat \ {0} /\ Budget \in Nat /\ MaxMarker \in Nat
  /\ Transcripts \subseteq Seq([start : Nat, cost : Nat \ {0}]) /\ Sizes \subseteq Nat \ {0}
  /\ Cites \subseteq SUBSET (Nat \ {0}) /\ Bullets \in Nat /\ Scores \subseteq Nat

VARIABLES seg,       \* the transcript's segments, in seq order
          pc,
          prompts,   \* the windows, each shown to the model in one map prompt
          index,     \* excerpt_index: the segment each global number stands for
          notes,     \* the notes so far; merged notes while a tier runs
          merged,
          sources,   \* source_bullets: what the bullets of the map stage cite
          call,      \* the running _call_checked: attempt and fallback
          content,   \* what the summary's items, or the answer, cite
          said,      \* history: segments the model cited while it was shown them
          verdict    \* of an answer

gvars == <<seg, pc, prompts, index, notes, merged, sources, call, content, said, verdict>>

Text == [headings : BOOLEAN, overview : BOOLEAN, bullets : SUBSET Cites]
Reply == {t \in Text : /\ t.bullets # {} => t.headings
                       /\ Cardinality(t.bullets) <= Bullets}
Nothing == [attempt |-> 1, fallback |-> {}]   \* no structured reply yet
Calls == {"map", "merge", "final"}
Ids == DOMAIN seg

Init ==
  /\ seg \in Transcripts
  /\ pc = "start" /\ prompts = <<>> /\ index = <<>>
  /\ notes = <<>> /\ merged = <<>> /\ sources = {} /\ call = Nothing
  /\ content = {} /\ said = {} /\ verdict = "none"

-----------------------------------------------------------------------------
(***************************************************************************)
(* The loop that fills a prompt until the next item would overflow it: a   *)
(* single item may be larger than the budget.                              *)
(***************************************************************************)
Pack(acc, x, size) ==
  IF acc.cur # <<>> /\ acc.size + size[x] > Budget
  THEN [out |-> Append(acc.out, acc.cur), cur |-> <<x>>, size |-> size[x]]
  ELSE [out |-> acc.out, cur |-> Append(acc.cur, x), size |-> acc.size + size[x]]
Flushed(acc) == IF acc.cur = <<>> THEN acc.out ELSE Append(acc.out, acc.cur)

Packed(items, size) ==
  Flushed(FoldLeft(LAMBDA acc, x : Pack(acc, x, size),
                   [out |-> <<>>, cur |-> <<>>, size |-> 0], items))

\* The members of S in the order of a relation: the n-th has n - 1 before it.
InOrder(S, R) ==
  [n \in 1..Cardinality(S) |->
     CHOOSE m \in S : Cardinality({x \in S : <<x, m>> \in R}) = n - 1]

Sooner(a, b) == \/ seg[a].start < seg[b].start
                \/ seg[a].start = seg[b].start /\ a < b
InTime == InOrder(Ids, {p \in Ids \X Ids : Sooner(p[1], p[2])})

\* The next multiple of the window after a start; the first segment moves no edge.
EdgeAfter(start) == ((start \div WindowS) + 1) * WindowS
Cut(acc, s) ==
  IF seg[s].start >= acc.edge /\ acc.cur # <<>>
  THEN [out |-> Append(acc.out, acc.cur), cur |-> <<s>>, edge |-> EdgeAfter(seg[s].start)]
  ELSE [out |-> acc.out, cur |-> Append(acc.cur, s), edge |-> acc.edge]
Windows == Flushed(FoldLeft(Cut, [out |-> <<>>, cur |-> <<>>, edge |-> WindowS], InTime))

Cost == [s \in Ids |-> seg[s].cost]

SizeOf(items, size) == FoldLeft(LAMBDA n, x : n + size[x], 0, items)

\* A bug: a dense window stays one prompt.
MutantSized == Windows

Sized == FlattenSeq([k \in DOMAIN Windows |-> Packed(Windows[k], Cost)])

-----------------------------------------------------------------------------
\* _MARKER sees numbers of up to four digits only.
Visible(markers) == {m \in markers : m <= MaxMarker}
MarkersIn(bullets) == Visible(UNION bullets)

Structured(t, needOverview) == t.headings \/ (needOverview /\ t.overview)
Uncited(t) == t.bullets # {} /\ MarkersIn(t.bullets) = {}
\* A bug: what the retry repeats is let through.
MutantStripped(bullets, allowed) == bullets

Stripped(bullets, allowed) == {{m \in b : m \in Visible({m}) => m \in allowed} : b \in bullets}

Good(t, allowed, needOverview, needCites) ==
  /\ Structured(t, needOverview)
  /\ MarkersIn(t.bullets) \subseteq allowed
  /\ needCites => ~Uncited(t)

(***************************************************************************)
(* _call_checked: a good reply is taken; the first that is not earns one   *)
(* retry; after it, the last structured reply is taken without the numbers *)
(* it invented, and without one the output is malformed.  Taken holds the  *)
(* bullets that are taken, if any are.                                     *)
(***************************************************************************)
Usable(t, allowed, needOverview) ==
  IF Structured(t, needOverview) THEN {Stripped(t.bullets, allowed)} ELSE call.fallback

Taken(t, allowed, needOverview, needCites) ==
  IF Good(t, allowed, needOverview, needCites) THEN {t.bullets}
  ELSE IF call.attempt = 2 THEN Usable(t, allowed, needOverview) ELSE {}

\* summarize returns or raises, and what it worked with is gone.
Return(p) ==
  /\ pc' = p
  /\ prompts' = <<>> /\ index' = <<>> /\ notes' = <<>> /\ merged' = <<>> /\ sources' = {}
  /\ call' = Nothing
  /\ UNCHANGED <<seg, said, verdict>>

Again(t, allowed, needOverview) ==
  \/ /\ call.attempt = 1
     /\ call' = [attempt |-> 2, fallback |-> Usable(t, allowed, needOverview)]
     /\ UNCHANGED <<seg, pc, prompts, index, notes, merged, sources, content, said, verdict>>
  \/ call.attempt = 2 /\ Return("failed") /\ UNCHANGED content

\* An overview matters only where one is needed.
Replies(needOverview) == {t \in Reply : t.overview => needOverview}

Results(allowed, needOverview, needCites) ==
  UNION {Taken(t, allowed, needOverview, needCites) : t \in Replies(needOverview)}

Refused(allowed, needOverview, needCites) ==
  \E t \in Replies(needOverview) :
    Taken(t, allowed, needOverview, needCites) = {} /\ Again(t, allowed, needOverview)

\* The engine fails, and with it the summary or the answer.
EngineFails ==
  /\ pc \in Calls \cup {"answer"}
  /\ Return("failed") /\ UNCHANGED content

Cited(b) == {index[m] : m \in Visible(b) \cap DOMAIN index}
Some(cites) == cites \ {{}}

-----------------------------------------------------------------------------
StartSummary ==
  /\ pc = "start"
  /\ pc' = "map" /\ prompts' = Sized
  /\ UNCHANGED <<seg, index, notes, merged, sources, call, content, said, verdict>>

\* A bug: the numbers of a window are taken for global ones.
MutantGlobal(b) == b

\* The prompt numbers its excerpts from 1; the note gets numbers of its own.
Global(b) == {IF m \in Visible(b) THEN m + Len(index) ELSE m : m \in b}

TakeNotes(window, bullets) ==
  LET new == {Global(b) : b \in bullets}
  IN /\ index' = index \o window
     /\ \E n \in Sizes : notes' = Append(notes, [bullets |-> new, size |-> n])
     /\ sources' = sources \cup Some({Cited(b)' : b \in new})
     /\ said' = said \cup {window[m] : m \in MarkersIn(bullets) \cap DOMAIN window}
     /\ call' = Nothing
     /\ UNCHANGED <<seg, pc, prompts, merged, content, verdict>>

MapCall ==
  /\ pc = "map" /\ Len(notes) < Len(prompts)
  /\ LET window == prompts[Len(notes) + 1]
     IN \/ Refused(DOMAIN window, FALSE, TRUE)
        \/ \E bullets \in Results(DOMAIN window, FALSE, TRUE) : TakeNotes(window, bullets)

Goto(p) ==
  /\ pc' = p
  /\ UNCHANGED <<seg, prompts, index, sources, call, content, said, verdict>>

MapDone ==
  /\ pc = "map" /\ Len(notes) = Len(prompts)
  /\ Goto("reduce") /\ UNCHANGED <<notes, merged>>

-----------------------------------------------------------------------------
\* Tiers of merging, while the notes are together too long for one prompt.
Length == [note \in Range(notes) |-> note.size]
TotalLength == SizeOf(notes, Length)
Groups == Packed(notes, Length)
Allowed(texts) == MarkersIn(UNION {note.bullets : note \in Range(texts)})

StartTier ==
  /\ pc = "reduce"
  /\ Goto(IF Len(notes) > 1 /\ TotalLength > Budget THEN "merge" ELSE "final")
  /\ UNCHANGED <<notes, merged>>

TakeMerged(bullets) ==
  /\ \E n \in Sizes : merged' = Append(merged, [bullets |-> bullets, size |-> n])
  /\ call' = Nothing
  /\ UNCHANGED <<seg, pc, prompts, index, notes, sources, content, said, verdict>>

MergeCall ==
  /\ pc = "merge" /\ Len(merged) < Len(Groups)
  /\ LET allowed == Allowed(Groups[Len(merged) + 1])
     IN \/ Refused(allowed, FALSE, FALSE)
        \/ \E bullets \in Results(allowed, FALSE, FALSE) : TakeMerged(bullets)

\* A bug: a tier that merged nothing is followed by another.
MutantEndTier ==
  /\ pc = "merge" /\ Len(merged) = Len(Groups)
  /\ notes' = merged /\ merged' = <<>>
  /\ Goto("reduce")

EndTier ==
  /\ pc = "merge" /\ Len(merged) = Len(Groups)
  /\ notes' = merged /\ merged' = <<>>
  /\ Goto(IF Len(merged) >= Len(notes) THEN "final" ELSE "reduce")

(***************************************************************************)
(* A bullet without citations inherits those of the bullet of the map      *)
(* stage it resembles most, if it resembles one; without any it is         *)
(* dropped, and so is an action item without owner and task.               *)
(***************************************************************************)
TakeFinal(bullets) ==
  /\ \E kept \in SUBSET bullets, inherited \in SUBSET sources :
       /\ (\A b \in bullets : Cited(b) # {}) => inherited = {}
       /\ content' = Some({Cited(b) : b \in kept}) \cup inherited
  /\ Return("done")

FinalCall ==
  /\ pc = "final"
  /\ \/ Refused(Allowed(notes), TRUE, FALSE)
     \/ \E bullets \in Results(Allowed(notes), TRUE, FALSE) : TakeFinal(bullets)

-----------------------------------------------------------------------------
(***************************************************************************)
(* select_excerpts: the best segments first, each with its neighbours, as  *)
(* long as they fit; the break comes with the first one that does not      *)
(* score once something is chosen.                                         *)
(***************************************************************************)
None == [chosen |-> {}, used |-> 0, stop |-> FALSE]

\* A bug: a neighbour is included whether or not it fits.
MutantInclude(acc, s) ==
  IF s \notin Ids \/ s \in acc.chosen THEN acc
  ELSE [acc EXCEPT !.chosen = @ \cup {s}, !.used = @ + Cost[s]]

Include(acc, s) ==
  IF s \notin Ids \/ s \in acc.chosen \/ acc.used + Cost[s] > Budget THEN acc
  ELSE [acc EXCEPT !.chosen = @ \cup {s}, !.used = @ + Cost[s]]

TryBest(acc, s, sc) ==
  IF acc.stop \/ (sc[s] = 0 /\ acc.chosen # {}) THEN [acc EXCEPT !.stop = TRUE]
  ELSE LET near == Include(Include(Include(acc, s - 1), s), s + 1)
       IN [near EXCEPT !.stop = near.used * 20 >= Budget * 19]
Better(a, b, sc) == sc[a] > sc[b] \/ (sc[a] = sc[b] /\ a < b)
Ranked(sc) == InOrder(Ids, {p \in Ids \X Ids : Better(p[1], p[2], sc)})
Best(sc) == FoldLeft(LAMBDA acc, s : TryBest(acc, s, sc), None, Ranked(sc)).chosen

\* The latest segments, back to the first that does not fit.
TryRecent(acc, s) ==
  IF acc.stop \/ acc.used + Cost[s] > Budget THEN [acc EXCEPT !.stop = TRUE]
                                             ELSE Include(acc, s)
LatestFirst == InOrder(Ids, {p \in Ids \X Ids : p[1] > p[2]})
Recent == FoldLeft(TryRecent, None, LatestFirst).chosen

Chosen(sc) == IF Best(sc) # {} THEN Best(sc) ELSE Recent
SelectExcerpts(sc) == InOrder(Chosen(sc), {p \in Ids \X Ids : p[1] < p[2]})

StartAsk ==
  /\ pc = "start"
  /\ \E sc \in [Ids -> Scores] :
       prompts' = <<SelectExcerpts(sc)>> /\ index' = SelectExcerpts(sc)
  /\ pc' = "answer"
  /\ UNCHANGED <<seg, notes, merged, sources, call, content, said, verdict>>

\* validate_citations: an answer that declines cites nothing.
Verdict(cites, declines) ==
  IF declines THEN "declined" ELSE IF cites # {} THEN "grounded" ELSE "ungrounded"

Answer ==
  /\ pc = "answer"
  /\ \E b \in Cites \cup {{}}, declines \in BOOLEAN :
       /\ said' = Cited(b)
       /\ verdict' = Verdict(Cited(b), declines)
       /\ content' = IF declines THEN {} ELSE Some({Cited(b)})
  /\ pc' = "done"
  /\ UNCHANGED <<seg, prompts, index, notes, merged, sources, call>>

Work ==
  \/ StartSummary \/ MapCall \/ MapDone \/ StartTier \/ MergeCall \/ EndTier \/ FinalCall
  \/ StartAsk \/ Answer
Next == EngineFails \/ Work

\* The thread runs to the end of what it began.
Spec == Init /\ [][Next]_gvars /\ WF_gvars(Next)

-----------------------------------------------------------------------------
FitsOrAlone(items, size) == SizeOf(items, size) <= Budget \/ Len(items) = 1

(***************************************************************************)
(* Every segment is shown in exactly one map prompt, in the order of time, *)
(* no prompt spans two windows of time, and none is over the budget unless *)
(* it holds one segment; a group of notes is bounded the same way and no   *)
(* note is skipped.  The excerpts of an ask always fit.  (windows, the     *)
(* re-split by size, the reduce tiers, select_excerpts.)                   *)
(***************************************************************************)
PromptsFit ==
  /\ pc = "map" =>
       /\ FlattenSeq(prompts) = InTime
       /\ \A w \in Range(prompts) :
            /\ FitsOrAlone(w, Cost)
            /\ \A a, b \in Range(w) : seg[a].start \div WindowS = seg[b].start \div WindowS
  /\ pc = "merge" =>
       /\ FlattenSeq(Groups) = notes
       /\ \A g \in Range(Groups) : FitsOrAlone(g, Length)
  /\ pc = "answer" => SizeOf(prompts[1], Cost) <= Budget

(***************************************************************************)
(* A citation is never made up: what an item of a summary or an answer     *)
(* cites is what the model cited while that very segment was in its        *)
(* prompt, through the numbering of the windows, the retries, the merging  *)
(* and the inheriting; and nothing without citations is stored.            *)
(* (_call_checked, _bullet_citations, _inherit, validate_citations.)       *)
(***************************************************************************)
CitationsAreSaid == \A c \in content \cup sources : c # {} /\ c \subseteq said

(***************************************************************************)
(* A summary or an answer ends: the tiers make progress or stop, and a     *)
(* call is repeated once (summarize, _call_checked).                       *)
(***************************************************************************)
TextEnds == <>(pc \in {"done", "failed"})
=============================================================================
