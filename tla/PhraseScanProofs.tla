-------------------------- MODULE PhraseScanProofs --------------------------
(***************************************************************************)
(* Proofs about the phrase reader, for every number of blocks, owners and  *)
(* documents: the copied owner page never runs ahead of the page itself,   *)
(* and the payload of a document that is live can be read to its end.      *)
(*                                                                         *)
(* The reader takes steps of its own between those of the writers, so the  *)
(* pages it reads are those of StoreInv; what is added is where it stands. *)
(***************************************************************************)
EXTENDS PhraseScan, IndexProofs

(* The slots an image copies are those of a page, and only a published     *)
(* slot is live.                                                           *)
SlotsPublished == \A o \in Owner : owner[o].live => owner[o].pub = "Published"

ImageSound ==
  /\ image \in [Owner -> OwnerRecord]
  /\ \A o \in Owner : image[o].live => image[o].pub = "Published"

(* While it reads the payload of a document that is still live, the reader *)
(* is at the fragment whose turn it is.                                    *)
ReaderPlaced ==
  ph.stage = "reading" =>
    /\ ph.owner \in Owner /\ owner[ph.owner].pub = "Published"
    /\ ph.total = owner[ph.owner].doc.frags /\ ph.total \in Nat /\ ph.index \in 0 .. ph.total
    /\ Live(ph.owner) =>
         IF ph.index = ph.total THEN ph.at = NoBlock
         ELSE ph.at \in Fragments(ph.owner) /\ page[ph.at].index = ph.index

PhraseInv == StoreInv /\ SlotsPublished /\ ImageSound /\ ImageBehindPage /\ ReaderPlaced

-----------------------------------------------------------------------------
(* The writers beside the reader take the steps of the index. *)
LEMMA PhraseSteps == PhraseNext => [Next]_vars
BY DEF PhraseNext, WriterStep, Next

(* A slot becomes live by its publication and stops being so before or     *)
(* with its removal.                                                       *)
LEMMA SlotsPublishedStep ==
  ASSUME StoreOK, SlotsPublished, [Next]_vars
  PROVE  SlotsPublished'
<1> SUFFICES ASSUME NEW o \in Owner, owner'[o].live PROVE owner'[o].pub = "Published"
  BY DEF SlotsPublished
<1>0. owner \in [Owner -> OwnerRecord] /\ (owner[o].live => owner[o].pub = "Published")
  BY DEF StoreOK, TypeOK, SlotsPublished
<1>1. CASE owner'[o].live = owner[o].live
  BY <1>0, <1>1, PublishedStep
<1>2. CASE Reserve
  <2>1. PICK b, h : AppendOwner(b, h)
    BY <1>2 DEF Reserve, ReserveFirst, ReserveAppend, ReserveNext
  <2>2. owner'[o] = owner[o] \/ owner'[o].live = FALSE
    BY <1>0, <2>1 DEF AppendOwner
  <2> QED BY <1>1, <2>2
<1>3. CASE PayloadReady
  <2>1. owner'[o].live = owner[o].live
    BY <1>0, <1>3 DEF PayloadReady, Changed, OwnerRecord
  <2> QED BY <1>1, <2>1
<1>4. CASE Publish
  <2>1. o # ins.owner => owner'[o] = owner[o]
    BY <1>0, <1>4 DEF Publish
  <2> QED BY <1>1, <1>4, <2>1, PublishedStep
<1>5. CASE RemoveOwners
  <2>1. owner'[o] = Retired(o)
    BY <1>5 DEF RemoveOwners
  <2>2. \/ owner'[o] = owner[o]
        \/ owner'[o] = [owner[o] EXCEPT !.live = FALSE, !.head = NoBlock]
        \/ owner'[o] = [owner[o] EXCEPT !.pub = "Abandoned", !.head = NoBlock]
    BY <2>1 DEF Retired, Changed
  <2>3. owner'[o].live = owner[o].live \/ ~owner'[o].live
    BY <1>0, <2>2 DEF OwnerRecord
  <2> QED BY <1>1, <2>3
<1>6. CASE UNCHANGED owner
  BY <1>1, <1>6
<1>7. CASE \/ RecoverEndVacuum \/ SweepEnd \/ VacuumEnd \/ Starts \/ Abandoned \/ QuietStep
           \/ \E r \in Root : HeapDelete(r)
           \/ \E t \in Term : RewriteBegin(t)
  <2>1. UNCHANGED owner
    BY <1>7 DEF RecoverEndVacuum, SweepEnd, VacuumEnd, Starts, VacuumBegin, InsertBegin,
                CompactBegin, Abandoned, HeapDelete, RewriteBegin, QuietStep
  <2> QED BY <1>6, <2>1
<1> QED BY <1>2, <1>3, <1>4, <1>5, <1>7, StepKinds DEF StoreOK

-----------------------------------------------------------------------------
(* The image *)

(* A writer may leave the image behind; it never overtakes the page. *)
LEMMA ImageWriters ==
  ASSUME PhraseInv, [Next]_vars, UNCHANGED phraseVars
  PROVE  ImageSound' /\ ImageBehindPage'
<1>0. StoreOK /\ ImageSound /\ ImageBehindPage /\ image' = image
  BY DEF PhraseInv, StoreInv, phraseVars
<1>1. ImageSound'
  BY <1>0 DEF ImageSound
<1>2. ASSUME NEW o \in Owner, Cached(o)
      PROVE  /\ owner'[o].pub # "None"
             /\ image[o].root = owner'[o].root /\ image[o].doc = owner'[o].doc
             /\ image[o].pub = "Published" => owner'[o].pub = "Published"
             /\ Live(o)' /\ image[o].live => image[o].head = owner'[o].head
  <2>1. /\ owner[o].pub # "None"
        /\ image[o].root = owner[o].root /\ image[o].doc = owner[o].doc
        /\ image[o].pub = "Published" => owner[o].pub = "Published"
        /\ Live(o) /\ image[o].live => image[o].head = owner[o].head
    BY <1>0, <1>2 DEF ImageBehindPage
  <2>2. owner'[o].pub # "None" /\ owner'[o].root = owner[o].root /\ owner'[o].doc = owner[o].doc
    BY <1>0, <2>1, SlotFacts, SlotStep DEF StoreOK, SlotKept
  <2>3. owner[o].pub = "Published" => owner'[o].pub = "Published"
    BY <1>0, PublishedStep
  <2>4. ASSUME Live(o)', image[o].live PROVE image[o].head = owner'[o].head
    <3>1. owner[o].pub = "Published"
      BY <1>0, <2>1, <2>4 DEF ImageSound
    <3>2. Live(o)
      <4>1. Publish => owner[ins.owner].pub = "FragmentsWritten"
        BY DEF Publish, CanChange
      <4> QED BY <1>0, <2>4, <3>1, <4>1, SlotFacts DEF StoreOK
    <3>3. owner'[o].head = owner[o].head
      BY <1>0, <2>4, <3>2, LiveSlot
    <3> QED BY <2>1, <2>4, <3>2, <3>3
  <2> QED BY <2>1, <2>2, <2>3, <2>4
<1>3. ImageBehindPage'
  <2>1. \A o \in Owner : Cached(o)' = Cached(o)
    BY <1>0 DEF Cached
  <2> QED BY <1>0, <1>2, <2>1 DEF ImageBehindPage
<1> QED BY <1>1, <1>3

(* A fresh copy is the page, and no copy has no slot. *)
LEMMA ImageReader ==
  ASSUME PhraseInv, PhraseStep, UNCHANGED vars
  PROVE  ImageSound' /\ ImageBehindPage'
<1>0. /\ TypeOK /\ ImageSound /\ ImageBehindPage /\ SlotsPublished /\ owner' = owner
      /\ UnusedSlot \in OwnerRecord
      /\ UnusedSlot.pub = "None" /\ UnusedSlot.live = FALSE
  BY RecordFacts DEF PhraseInv, StoreInv, StoreOK, vars, UnusedSlot
<1>1. CASE UNCHANGED image
  BY <1>0, <1>1 DEF ImageSound, ImageBehindPage, Cached, Live
<1>2. CASE image' = NoImage
  BY <1>0, <1>2 DEF ImageSound, ImageBehindPage, NoImage, Cached
<1>3. ASSUME NEW o \in Owner, image' = OwnerPageOf(o) PROVE ImageSound' /\ ImageBehindPage'
  <2>1. \A p \in Owner : image'[p] = owner[p] \/ image'[p] = UnusedSlot
    BY <1>3 DEF OwnerPageOf
  <2>2. ImageSound'
    BY <1>0, <1>3, <2>1 DEF OwnerPageOf, ImageSound, SlotsPublished, TypeOK
  <2>3. ImageBehindPage'
    BY <1>0, <2>1 DEF ImageBehindPage, Cached
  <2> QED BY <2>2, <2>3
<1>4. \/ UNCHANGED image \/ image' = NoImage \/ \E o \in Owner : image' = OwnerPageOf(o)
  BY DEF PhraseStep, PhraseOpen, ResolveSlot, ResolveFragments, Resolve, ReadFragment,
         DecideEarly, DecideComplete, PhraseError, PhraseClose
<1> QED BY <1>1, <1>2, <1>3, <1>4

-----------------------------------------------------------------------------
(* The place of the reader *)

(* A writer keeps the fragments of a document that stays live. *)
LEMMA ReaderBeside ==
  ASSUME PhraseInv, [Next]_vars, UNCHANGED phraseVars
  PROVE  ReaderPlaced'
<1> SUFFICES ASSUME ph.stage = "reading" PROVE ReaderPlaced'
  BY DEF ReaderPlaced, phraseVars
<1>0. /\ StoreOK /\ OwnersChained /\ DictChained /\ InsertSound /\ PostingsSound /\ ph' = ph
      /\ ReaderPlaced
  BY DEF PhraseInv, StoreInv, phraseVars
<1>1. PICK o : o = ph.owner
  OBVIOUS
<1>2. /\ o \in Owner /\ owner[o].pub = "Published"
      /\ ph.total = owner[o].doc.frags /\ ph.total \in Nat /\ ph.index \in 0 .. ph.total
      /\ Live(o) => IF ph.index = ph.total THEN ph.at = NoBlock
                    ELSE ph.at \in Fragments(o) /\ page[ph.at].index = ph.index
  BY <1>0, <1>1 DEF ReaderPlaced
<1>3. owner'[o].pub = "Published" /\ owner'[o].doc = owner[o].doc
  BY <1>0, <1>2, PublishedStep, SlotStep DEF StoreOK, SlotKept
<1>4. ASSUME Live(o)'
      PROVE  IF ph.index = ph.total THEN ph.at = NoBlock
             ELSE ph.at \in Fragments(o)' /\ page'[ph.at].index = ph.index
  <2>1. Live(o)
    <3>1. Publish => owner[ins.owner].pub = "FragmentsWritten"
      BY DEF Publish, CanChange
    <3> QED BY <1>0, <1>2, <1>4, <3>1, SlotFacts DEF StoreOK
  <2>2. FragsOf(o)
    BY <1>0, <1>2, <2>1, LivePayloadKept
  <2> QED BY <1>2, <2>1, <2>2 DEF FragsOf, Same, Turned
<1>5. ph' = ph /\ o = ph'.owner
  BY <1>0, <1>1
<1> QED BY <1>2, <1>3, <1>4, <1>5 DEF ReaderPlaced

(* The reader's own steps *)
LEMMA ReaderOwn ==
  ASSUME PhraseInv, PhraseStep, UNCHANGED vars
  PROVE  ReaderPlaced'
<1>0. /\ StoreInv /\ TypeOK /\ ImageBehindPage /\ ReaderPlaced
      /\ page' = page /\ owner' = owner
  BY DEF PhraseInv, StoreInv, StoreOK, vars
<1>1. CASE ph'.stage # "reading"
  BY <1>1 DEF ReaderPlaced
<1>2. CASE UNCHANGED ph
  BY <1>0, <1>2 DEF ReaderPlaced, Live, Fragments
<1>3. ASSUME NEW o \in Owner, ResolveFragments(o) PROVE ReaderPlaced'
  <2>1. PICK s : s = Slot(o)
    OBVIOUS
  <2>2. s.pub = "Published" /\ s.live /\ s.doc.frags > 0
        /\ ph' = [ph EXCEPT !.stage = "reading", !.owner = o, !.at = s.head,
                            !.index = 0, !.total = s.doc.frags]
    BY <1>3, <2>1 DEF ResolveFragments
  <2>3. /\ owner[o].pub = "Published" /\ s.doc = owner[o].doc
        /\ Live(o) => s.head = owner[o].head
    <3>1. CASE Cached(o)
      BY <1>0, <2>1, <2>2, <3>1 DEF ImageBehindPage, Slot
    <3>2. CASE ~Cached(o)
      BY <2>1, <2>2, <3>2 DEF Slot
    <3> QED BY <3>1, <3>2
  <2>4. owner[o].doc.frags \in Nat
    <3>1. owner[o] \in OwnerRecord
      BY <1>0 DEF TypeOK
    <3> QED BY <3>1, DocumentFacts DEF OwnerRecord
  <2>5. Live(o) => owner[o].head \in Fragments(o) /\ page[owner[o].head].index = 0
    BY <1>0, <2>2, <2>3, LivePayloadFacts
  <2>6. ph'.stage = "reading" => /\ ph'.owner = o /\ ph'.at = s.head /\ ph'.index = 0
                                 /\ ph'.total = s.doc.frags
    BY <2>2
  <2> QED BY <1>0, <2>2, <2>3, <2>4, <2>5, <2>6 DEF ReaderPlaced, Live, Fragments
<1>4. CASE ReadFragment
  <2>1. PICK o : o = ph.owner
    OBVIOUS
  <2>2. /\ o \in Owner /\ owner[o].pub = "Published"
        /\ ph.total = owner[o].doc.frags /\ ph.total \in Nat /\ ph.index \in 0 .. ph.total
        /\ ph.index < ph.total
        /\ Live(o) => ph.at \in Fragments(o) /\ page[ph.at].index = ph.index
    BY <1>0, <1>4, <2>1 DEF ReaderPlaced, ReadFragment
  <2>3. ph' = [ph EXCEPT !.index = ph.index + 1, !.at = page[ph.at].next]
    BY <1>4 DEF ReadFragment
  <2>4. Live(o) =>
          IF ph.index + 1 = ph.total THEN page[ph.at].next = NoBlock
          ELSE page[ph.at].next \in Fragments(o) /\ page[page[ph.at].next].index = ph.index + 1
    <3> SUFFICES ASSUME Live(o)
                 PROVE  IF ph.index + 1 = ph.total THEN page[ph.at].next = NoBlock
                        ELSE /\ page[ph.at].next \in Fragments(o)
                             /\ page[page[ph.at].next].index = ph.index + 1
      OBVIOUS
    <3>1. PICK b, n : b = ph.at /\ n = page[ph.at].next
      OBVIOUS
    <3>2. b \in Fragments(o) /\ page[b].index = ph.index
      BY <2>2, <3>1
    <3>3. IF n = NoBlock THEN ph.index + 1 = ph.total
          ELSE /\ n \in Fragments(o) /\ page[n].index = ph.index + 1
               /\ page[n].index \in 0 .. (ph.total - 1)
      BY <1>0, <2>2, <3>1, <3>2, LivePayloadFacts
    <3> QED BY <2>2, <3>1, <3>3
  <2>5. /\ ph'.stage = "reading" => ph'.owner = o /\ ph'.total = ph.total
                                    /\ ph'.index = ph.index + 1 /\ ph'.at = page[ph.at].next
    BY <2>1, <2>3
  <2> QED BY <1>0, <2>2, <2>4, <2>5 DEF ReaderPlaced, Live, Fragments
<1>5. CASE \/ PhraseOpen \/ DecideEarly \/ DecideComplete \/ PhraseError \/ PhraseClose
  <2>1. NoPhrase.stage = "closed" /\ [NoPhrase EXCEPT !.stage = "open"].stage = "open"
    BY DEF NoPhrase
  <2>2. PhraseError => ph'.stage # "reading"
    BY DEF PhraseError
  <2> QED BY <1>1, <1>5, <2>1, <2>2 DEF PhraseOpen, DecideEarly, DecideComplete, PhraseClose
<1> QED BY <1>2, <1>3, <1>4, <1>5 DEF PhraseStep, ResolveSlot

-----------------------------------------------------------------------------
(* Nothing is read at first. *)
LEMMA PhraseInvInit == PhraseInit => PhraseInv
<1> SUFFICES ASSUME PhraseInit PROVE PhraseInv
  OBVIOUS
<1>1. StoreInv /\ UnusedSlot \in OwnerRecord /\ UnusedSlot.pub = "None" /\ ~UnusedSlot.live
  BY StoreInvInit, RecordFacts DEF PhraseInit, UnusedSlot
<1>2. \A o \in Owner : owner[o] = UnusedSlot
  BY DEF PhraseInit, Init
<1>3. NoPhrase.stage # "reading"
  BY DEF NoPhrase
<1> QED BY <1>1, <1>2, <1>3 DEF PhraseInv, PhraseInit, SlotsPublished, ImageSound, NoImage,
                                ImageBehindPage, Cached, ReaderPlaced

(* Every step preserves the invariant. *)
LEMMA PhraseInvStep ==
  ASSUME PhraseInv, [PhraseNext]_allVars
  PROVE  PhraseInv'
<1>1. StoreInv /\ StoreOK /\ SlotsPublished
  BY DEF PhraseInv, StoreInv
<1>2. \/ [Next]_vars /\ UNCHANGED phraseVars
      \/ PhraseStep /\ UNCHANGED vars
  BY PhraseSteps DEF PhraseNext, allVars, WriterStep, Next
<1>3. [Next]_vars
  BY <1>2
<1>4. StoreInv' /\ SlotsPublished'
  BY <1>1, <1>3, StoreInvStep, SlotsPublishedStep
<1>5. ImageSound' /\ ImageBehindPage' /\ ReaderPlaced'
  BY <1>2, ImageWriters, ImageReader, ReaderBeside, ReaderOwn
<1> QED BY <1>4, <1>5 DEF PhraseInv

(* The reader is placed where a live payload goes on. *)
LEMMA PhraseReadable == PhraseInv => LivePayloadReadable
<1> SUFFICES ASSUME PhraseInv, ph.stage = "reading", Live(ph.owner)
             PROVE  IF ph.index < ph.total THEN FragmentFits ELSE ph.at = NoBlock
  BY DEF LivePayloadReadable
<1>1. PICK o : o = ph.owner
  OBVIOUS
<1>2. /\ StoreInv /\ o \in Owner /\ ph.total \in Nat /\ ph.index \in 0 .. ph.total
      /\ IF ph.index = ph.total THEN ph.at = NoBlock
         ELSE ph.at \in Fragments(o) /\ page[ph.at].index = ph.index
  BY <1>1 DEF PhraseInv, ReaderPlaced
<1>3. CASE ph.index < ph.total
  <2>1. ph.at # NoBlock /\ page[ph.at].kind = "Fragment" /\ page[ph.at].owner = o
    BY <1>1, <1>2, <1>3, LivePayloadFacts DEF Fragments
  <2> QED BY <1>1, <1>2, <1>3, <2>1 DEF FragmentFits
<1> QED BY <1>2, <1>3

(* The invariant holds throughout. *)
LEMMA PhraseInvAlways == PhraseSpec => []PhraseInv
BY PhraseInvInit, PhraseInvStep, PTL DEF PhraseSpec

(* resolve_phrase() may go on with an old copy of an owner page: it lacks  *)
(* later slots, which are then read afresh, and holds removed documents as *)
(* live, but never one that was not published.                             *)
THEOREM ImageAlwaysBehind == PhraseSpec => []ImageBehindPage
BY PhraseInvAlways, PTL DEF PhraseInv

(* fragment_data() finds the next fragment of a live document, whatever    *)
(* vacuum reclaimed and insertions reused since the owner page was copied, *)
(* and the chain ends where the copied slot says.                          *)
THEOREM LivePayloadAlwaysReadable == PhraseSpec => []LivePayloadReadable
BY PhraseInvAlways, PhraseReadable, PTL
=============================================================================
