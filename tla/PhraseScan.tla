----------------------------- MODULE PhraseScan -----------------------------
(***************************************************************************)
(* The exact phrase reader beside the writers: scan_query_with_options()   *)
(* and resolve_phrase() of crates/pin-core/src/mutable/query.rs.  It alone *)
(* among the readers follows payload fragments.  It holds the shared side  *)
(* of the structural barrier, which keeps compactions out; insertions and  *)
(* vacuum passes hold only the writer interlock and run beside it.         *)
(***************************************************************************)
EXTENDS MutableStore

VARIABLES
  ph,     \* the reader: its stage and the document it is reading
  image   \* its private copy of one owner page

phraseVars == <<ph, image>>
allVars == <<vars, phraseVars>>

(* at is the next fragment to load, index how many were read, total how    *)
(* many the copied owner slot announces.                                   *)
NoPhrase == [stage |-> "closed", owner |-> NoOwner, at |-> NoBlock,
             index |-> 0, total |-> 0]

NoImage == [o \in Owner |-> UnusedSlot]

PhraseInit == Init /\ ph = NoPhrase /\ image = NoImage

-----------------------------------------------------------------------------
CompactHolds == cpt.then = "compact"

(* with_reader(): the shared barrier. *)
PhraseOpen ==
  /\ ph.stage = "closed"
  /\ ~CompactHolds
  /\ ph' = [NoPhrase EXCEPT !.stage = "open"]
  /\ image' = NoImage

(* The copied owner page is reloaded when it is another page or ends       *)
(* before the slot; otherwise the copy is used, however old.               *)
Cached(o) == image[o].pub # "None"

(* Fault: an insertion that has written its payload counts as published.   *)
FaultOwnerPageOf(o) ==
  [p \in Owner |-> IF owner[p].page # owner[o].page THEN UnusedSlot
                   ELSE IF owner[p].pub = "FragmentsWritten" THEN Changed(p, "Publish", NoBlock)
                   ELSE owner[p]]

OwnerPageOf(o) ==
  [p \in Owner |-> IF owner[p].page = owner[o].page THEN owner[p] ELSE UnusedSlot]

Slot(o) == IF Cached(o) THEN image[o] ELSE owner[o]

(* seek() has produced the reference o; resolve_phrase() looks at its slot.*)
Resolve(o) ==
  /\ ph.stage = "open"
  /\ \E t \in Term : o \in TermRefs(t)
  /\ image' = IF Cached(o) THEN image ELSE OwnerPageOf(o)

(* Not live, decided from the inline payload or beyond the memory budget.  *)
ResolveSlot(o) == Resolve(o) /\ UNCHANGED ph

ResolveFragments(o) ==
  /\ Resolve(o)
  /\ Slot(o).pub = "Published" /\ Slot(o).live
  /\ Slot(o).doc.frags > 0
  /\ ph' = [ph EXCEPT !.stage = "reading", !.owner = o, !.at = Slot(o).head,
                      !.index = 0, !.total = Slot(o).doc.frags]

(* load_into() and fragment_data(): the page is the next fragment of the   *)
(* same owner incarnation.                                                 *)
FragmentFits ==
  /\ ph.at # NoBlock
  /\ page[ph.at].kind = "Fragment"
  /\ page[ph.at].owner = ph.owner
  /\ page[ph.at].index = ph.index
  /\ ph.index < ph.total

ReadFragment ==
  /\ ph.stage = "reading" /\ ph.index < ph.total
  /\ FragmentFits
  /\ ph' = [ph EXCEPT !.index = ph.index + 1, !.at = page[ph.at].next]
  /\ UNCHANGED image

(* The prefix of the first fragment already decides the phrase. *)
DecideEarly ==
  /\ ph.stage = "reading" /\ ph.index = 1
  /\ ph' = [NoPhrase EXCEPT !.stage = "open"]
  /\ UNCHANGED image

(* The chain ends where the payload does. *)
DecideComplete ==
  /\ ph.stage = "reading" /\ ph.index = ph.total
  /\ ph.at = NoBlock
  /\ ph' = [NoPhrase EXCEPT !.stage = "open"]
  /\ UNCHANGED image

(* Another page kind, owner or offset, a missing tail or a surplus one. *)
PhraseError ==
  /\ ph.stage = "reading"
  /\ IF ph.index < ph.total THEN ~FragmentFits ELSE ph.at # NoBlock
  /\ ph' = [ph EXCEPT !.stage = "error"]
  /\ UNCHANGED image

(* The end of the scan, or of the statement that failed. *)
PhraseClose ==
  /\ ph.stage \in {"open", "error"}
  /\ ph' = NoPhrase
  /\ image' = NoImage

PhraseStep ==
  \/ PhraseOpen
  \/ \E o \in Owner : ResolveSlot(o) \/ ResolveFragments(o)
  \/ ReadFragment \/ DecideEarly \/ DecideComplete \/ PhraseError
  \/ PhraseClose

(* The writers' steps; a compaction waits for the reader. *)
WriterStep ==
  \/ \E r \in Root, d \in Document : InsertBegin(r, d)
  \/ VacuumBegin
  \/ ph.stage = "closed" /\ \E mode \in CompactMode : CompactBegin(mode)
  \/ Step
  \/ Interrupt
  \/ \E r \in Root : HeapDelete(r)

PhraseNext ==
  \/ WriterStep /\ UNCHANGED phraseVars
  \/ PhraseStep /\ UNCHANGED vars

PhraseSpec == PhraseInit /\ [][PhraseNext]_allVars

-----------------------------------------------------------------------------
(* "No published live owner is reclaimed": the phrase reader meets a       *)
(* foreign, missing or reordered fragment only for a document that a       *)
(* vacuum pass has removed since its owner page was copied; the payload of *)
(* a live document can always be read to its end, however old the copy,    *)
(* whatever blocks were reclaimed and reused meanwhile.                    *)
LivePayloadReadable ==
  ph.stage = "reading" /\ Live(ph.owner) =>
    IF ph.index < ph.total THEN FragmentFits ELSE ph.at = NoBlock

(* A copied slot never runs ahead of the page: what the copy says is live  *)
(* is live or was removed later, and what it lacks is read afresh, so a    *)
(* reference never leads to a slot that was not written.                   *)
ImageBehindPage ==
  \A o \in Owner : Cached(o) =>
    /\ owner[o].pub # "None"
    /\ image[o].root = owner[o].root /\ image[o].doc = owner[o].doc
    /\ image[o].pub = "Published" => owner[o].pub = "Published"
    /\ Live(o) /\ image[o].live => image[o].head = owner[o].head

(* "reclamation requires its exclusive counterpart" and "No reader can     *)
(* retain a reclaimed structural page": under the shared barrier the       *)
(* phrase reader never finds a fragment gone.                              *)
PhraseNeverFails == ph.stage # "error"

=============================================================================
