------------------------- MODULE FrontierScanProofs -------------------------
(***************************************************************************)
(* Proofs about the exact grouped reader beside the writers, for every     *)
(* program, relation size, document set and page capacity: valid anchors   *)
(* lead into the chain of their term, a scan of a sound index fails on     *)
(* removed documents only, and what it answers is exact.                   *)
(*                                                                         *)
(* The reader's shared barrier keeps rewrites away, so whatever it has     *)
(* captured stays a part of what it would find now: TermStays.  The        *)
(* invariant says of the generations what they hold, and of every cursor   *)
(* and walk that no document known at the start is behind it.              *)
(***************************************************************************)
EXTENDS FrontierScan, IndexProofs

-----------------------------------------------------------------------------
(* The generations *)

Open == fr.stage # "closed"

(* No rewrite runs while a reader is open or the anchors are valid, and    *)
(* none has left a journal beside valid anchors.                           *)
BarrierHeld ==
  /\ CompactStages
  /\ Open => ~CompactHolds
  /\ gen.valid => pc # "rewrite" /\ meta.journal.phase = "None"

GenRecord == [id : OwnerOrNone, after : OwnerOrNone, members : SUBSET Owner,
              valid : BOOLEAN, delta : BOOLEAN, post : [Term -> SUBSET Owner],
              anchors : [Term -> [head : BlockOrNone, tail : BlockOrNone, last : OwnerOrNone]]]

(* The fence of the generations: a slot is at most the last one they       *)
(* cover, or newer than the newest of them.                                *)
GenFence ==
  /\ gen.id = NoOwner => gen = NoGeneration
  /\ gen.id # NoOwner => gen.after < gen.id
  /\ gen.id < meta.inc
  /\ gen.after # NoOwner => owner[gen.after].pub # "None"
  /\ \A o \in Owner : owner[o].pub # "None" => o <= gen.after \/ gen.id < o

(* The host has not declared the document dead, and no pass removed it. *)
Used(o) == Live(o) /\ heap[owner[o].root] = "used"

GenHolds ==
  /\ \A o \in gen.members : o <= gen.after /\ owner[o].pub = "Published"
  /\ \A t \in Term : \A o \in gen.post[t] : o <= gen.after
  /\ \A o \in gen.members, t \in Term : o \in gen.post[t] <=> t \in owner[o].doc.terms
  /\ \A o \in Owner : Used(o) /\ o <= gen.after => o \in gen.members

GenSound == gen \in GenRecord /\ GenFence /\ GenHolds

(* The anchor of t, where a reader may look it up: the second owner in the *)
(* dictionary, promoted since or not, or a page of the chain.              *)
AnchorAt(t) ==
  LET a == gen.anchors[t] IN
  a.head # NoBlock =>
    /\ dict[t].page # NoBlock
    /\ IF a.head = dict[t].page
       THEN a.tail = a.head /\ dict[t].inline # 0 /\ a.last = dict[t].second
       ELSE /\ dict[t].inline # 1 /\ a.head = dict[t].head
            /\ a.tail \in ScanPages(t) /\ a.last \in page[a.tail].refs

(* The last owner of t at the snapshot, beyond which the reader goes on *)
AnchorLast(t) ==
  LET a == gen.anchors[t] IN
  /\ a.last <= gen.after
  /\ a.last = NoOwner => dict[t].page = NoBlock \/ gen.after < dict[t].first
  /\ a.head = NoBlock /\ a.last # NoOwner => dict[t].page # NoBlock /\ a.last = dict[t].first

AnchorsSound ==
  /\ gen.valid \/ (Open /\ fr.valid) =>
       \A t \in Term : AnchorAt(t) /\ (~gen.delta => AnchorLast(t))
  /\ gen.valid => \A t \in Term :
       gen.anchors[t].head # NoBlock => gen.anchors[t].head = dict[t].head

(* The reader's record *)
ReaderShape ==
  fr = [stage |-> fr.stage, prog |-> fr.prog, todo |-> fr.todo, target |-> fr.target,
        id |-> fr.id, after |-> fr.after, valid |-> fr.valid, next |-> fr.next,
        ownerHead |-> fr.ownerHead, ownerTail |-> fr.ownerTail, dictTail |-> fr.dictTail]

(* What the reader finds of the page file and the generations *)
GroundInv == StoreInv /\ BarrierHeld /\ GenSound /\ AnchorsSound /\ ReaderShape

-----------------------------------------------------------------------------
(* The page file *)

(* A generation takes its identity from the counter of the owners. *)
Numbered ==
  /\ pc = "idle" /\ meta.inc <= MaxOwners
  /\ meta' = [meta EXCEPT !.inc = meta.inc + 1]
  /\ UNCHANGED <<page, size, dict, owner, heap, crashes, pc, m, blk, ins, vac, cpt>>

(* Beside that, the steps of the reader and of the generations leave the   *)
(* page file to its writers.                                               *)
LEMMA PageFileSteps ==
  ASSUME [FrontierNext]_allVars
  PROVE  /\ [Next]_vars \/ (Numbered /\ (RebuildGeneration \/ SealGeneration))
         /\ WriterStep => Next
<1>1. WriterStep => Next
  BY DEF WriterStep, Next
<1>2. RebuildGeneration \/ SealGeneration => Numbered
  BY DEF RebuildGeneration, SealGeneration, Numbered, Writing
<1>3. RetireGeneration \/ InvalidateFrontier => UNCHANGED vars
  BY DEF RetireGeneration, InvalidateFrontier
<1> QED BY <1>1, <1>2, <1>3 DEF FrontierNext, allVars

(* Nothing in the page file depends on the counter but that it is ahead. *)
LEMMA NumberedKeeps ==
  ASSUME StoreInv, Numbered
  PROVE  StoreInv'
<1>0. /\ StoreOK /\ RootInv /\ NamesWritten /\ OwnersChained /\ DictChained /\ FreeChained
      /\ InsertSound /\ PayloadsSound /\ PostingsSound /\ TypeOK /\ meta \in MetaRecord
  BY DEF StoreInv, StoreOK, TypeOK
<1>1. /\ meta'.inc = meta.inc + 1 /\ meta.inc \in Nat
      /\ meta'.ownerHead = meta.ownerHead /\ meta'.ownerTail = meta.ownerTail
      /\ meta'.dictHead = meta.dictHead /\ meta'.dictTail = meta.dictTail
      /\ meta'.free = meta.free /\ meta'.journal = meta.journal /\ meta' \in MetaRecord
  BY <1>0, BoundAssumption DEF Numbered, MetaRecord
<1>2. /\ UNCHANGED <<page, size, dict, owner, heap, crashes, pc, m, blk, ins, vac, cpt>>
      /\ pc = "idle"
  BY DEF Numbered
<1>3. StoreOK'
  <2>1. TypeOK'
    BY <1>0, <1>1, <1>2 DEF TypeOK
  <2>2. PastEnd'
    BY <1>0, <1>2 DEF StoreOK, PastEnd
  <2>3. MetapageCurrent'
    <3>1. ASSUME NEW o \in Owner, owner[o].pub # "None" PROVE o < meta'.inc
      BY <1>0, <1>1, <3>1, BoundAssumption DEF StoreOK, ImageCurrent, MetapageCurrent, Owner
    <3> QED BY <1>0, <1>1, <1>2, <3>1 DEF StoreOK, ImageCurrent, MetapageCurrent
  <2>4. BlockAwaited'
    <3>1. blk = NoBlock
      BY <1>0, <1>2 DEF StoreOK, ImageCurrent, BlockAwaited, FragmentNeedsBlock, OutputNeedsBlock
    <3> QED BY <1>2, <3>1 DEF BlockAwaited
  <2> QED BY <2>1, <2>2, <2>3, <2>4 DEF StoreOK, ImageCurrent
<1>4. RootInv'
  <2>1. /\ BlockAtEnd' /\ SlotsOnOwnerPages' /\ SlotsHaveRoots' /\ DeadCollected'
        /\ OwnersRetired' /\ CoordinatesOwned'
    BY <1>0, <1>2 DEF RootInv, BlockAtEnd, SlotsOnOwnerPages, IsOwnerPage, SlotsHaveRoots,
                      DeadCollected, OwnersRetired, Retirable, Unfinished, CoordinatesOwned, Live
  <2>2. OwnerPagesAscend'
    BY <1>0, <1>1, <1>2 DEF RootInv, OwnerPagesAscend, IsOwnerPage
  <2>3. SweptClean' /\ InsertOwnsRoot' /\ PendingLive'
    BY <1>2 DEF SweptClean, InsertOwnsRoot, PendingLive
  <2>4. NoStaleRoot'
    BY <1>0, <1>2 DEF RootInv, NoStaleRoot, Live
  <2> QED BY <2>1, <2>2, <2>3, <2>4 DEF RootInv
<1>5. NamesWritten'
  BY <1>0, <1>1, <1>2 DEF NamesWritten, Written
<1>6. OwnersChained' /\ DictChained' /\ FreeChained'
  <2>1. Link' = Link /\ \A k : Kind(k)' = Kind(k)
    BY <1>2 DEF Link, Kind
  <2> QED BY <1>0, <1>1, <2>1 DEF OwnersChained, DictChained, FreeChained
<1>7. InsertSound'
  BY <1>2 DEF InsertSound
<1>8. PayloadsSound'
  <2>1. Link' = Link /\ \A o : Fragments(o)' = Fragments(o)
    BY <1>2 DEF Link, Fragments
  <2>2. \A o, d, i, h : PayloadFrom(o, d, i, h)' <=> PayloadFrom(o, d, i, h)
    BY <1>2, <2>1 DEF PayloadFrom
  <2> QED BY <1>0, <1>2, <2>2 DEF PayloadsSound, Live
<1>9. PostingsSound'
  <2>1. PICK J \in SUBSET Block, S \in SUBSET Block : PostingsHold(J, S)
    BY <1>0 DEF PostingsSound
  <2>2. Link' = Link /\ Posts' = Posts /\ \A t : Postings(t)' = Postings(t)
    BY <1>2 DEF Link, Posts, Postings
  <2>3. JournalSound(J)'
    BY <1>1, <1>2, <2>1, <2>2 DEF PostingsHold, JournalSound
  <2>4. EntriesSound(J)'
    BY <1>2, <2>1, <2>2 DEF PostingsHold, EntriesSound
  <2>5. RefsSound(J)'
    BY <1>2, <2>1, <2>2 DEF PostingsHold, RefsSound, Refers
  <2>6. RewriteSound(J, S)'
    BY <1>2 DEF RewriteSound
  <2>7. LinksComplete(J)'
    BY <1>2, <2>1, <2>2 DEF PostingsHold, LinksComplete, Has, Holds, Due, Live
  <2> QED BY <2>1, <2>3, <2>4, <2>5, <2>6, <2>7 DEF PostingsSound, PostingsHold
<1> QED BY <1>3, <1>4, <1>5, <1>6, <1>7, <1>8, <1>9 DEF StoreInv

(* The invariant of the page file, whatever the reader and the generations *)
(* do.                                                                     *)
LEMMA StoreBeside ==
  ASSUME StoreInv, [FrontierNext]_allVars
  PROVE  StoreInv'
BY PageFileSteps, NumberedKeeps, StoreInvStep

-----------------------------------------------------------------------------
(* The barriers *)

(* A reader that is closed can only open. *)
LEMMA ReadOpens ==
  ASSUME ReadStep
  PROVE  Open \/ \E p \in Program : FrontierOpen(p)
<1>1. ASSUME NEW t \in Term, Behind(t) PROVE Open
  <2>1. Sought # {}
    BY <1>1 DEF Behind, BehindTerms
  <2> QED BY <2>1 DEF Sought, Open
<1>2. SeekReady \/ FilterReady \/ OwnersReady \/ fr.stage \in {"terms", "owners", "done", "error"} => Open
  BY DEF SeekReady, FilterReady, OwnersReady, Open
<1>3. CASE \E t \in Term : CaptureTerm(t) \/ CursorOpen(t) \/ CursorAnchor(t) \/ CursorLoad(t)
  BY <1>1, <1>2, <1>3 DEF CaptureTerm, CursorOpen, CursorAnchor, CursorLoad
<1>4. CASE \/ UniverseLoad \/ SeekDone \/ FilterMiss \/ FilterUniverse \/ FilterResolve
           \/ \E stage \in {"done", "owners", "seek"} : ScanGenerations(stage)
  BY <1>2, <1>4 DEF UniverseLoad, SeekDone, FilterMiss, FilterUniverse, FilterResolve, ScanGenerations
<1>5. CASE OwnersLoad \/ FragmentsBegin \/ FragmentRead \/ FragmentsDone \/ OwnersFallBack
           \/ OwnersEmit \/ FrontierClose
  BY <1>2, <1>5 DEF OwnersLoad, FragmentsBegin, FragmentRead, FragmentsDone, OwnersFallBack,
                    OwnersEmit, FrontierClose
<1>6. CASE FrontierFails
  BY <1>1, <1>2, <1>6 DEF FrontierFails, OwnersFail, CursorFails
<1> QED BY <1>3, <1>4, <1>5, <1>6 DEF ReadStep

(* A rewrite begins with a chain, and only a compaction visits one. *)
LEMMA WriterBarrier ==
  ASSUME StoreOK, BarrierHeld, WriterStep \/ UNCHANGED vars, gen.valid \/ Open
  PROVE  /\ NoRewrite
         /\ pc' # "rewrite"
<1>0. TypeOK /\ ImageCurrent /\ cpt \in CompactRecord
  BY DEF StoreOK, TypeOK
<1>1. WriterStep => Next
  BY DEF WriterStep, Next
<1>2. pc # "rewrite"
  BY DEF BarrierHeld, CompactStages, CompactHolds
<1>3. ASSUME NEW t \in Term, CompactInline(t) PROVE FALSE
  <2>1. pc = "compact" /\ pc' = pc /\ heap' = heap /\ cpt' = [cpt EXCEPT !.todo = cpt.todo \ {t}]
        /\ t \in cpt.todo
    BY <1>3 DEF CompactInline, Visit
  <2>2. gen.valid /\ ~Open
    BY <2>1 DEF BarrierHeld, CompactStages, CompactHolds
  <2>3. cpt'.todo # cpt.todo
    BY <1>0, <2>1 DEF CompactRecord
  <2>4. ~WriterStep
    <3>2. \A r \in Root, d \in Document : ~InsertBegin(r, d)
      BY <2>1 DEF InsertBegin
    <3>3. ~VacuumBegin /\ ~Interrupt /\ \A mode \in CompactMode : ~CompactBegin(mode)
      BY <2>1 DEF VacuumBegin, CompactBegin, Interrupt, Abandoned
    <3>4. \A r \in Root : ~HeapDelete(r)
      BY <2>1, <2>3 DEF HeapDelete
    <3>5. Rewrites
      BY <1>3 DEF Rewrites
    <3> QED BY <2>2, <3>2, <3>3, <3>4, <3>5 DEF WriterStep
  <2> QED BY <2>3, <2>4 DEF vars
<1>4. pc' # "rewrite"
  <2>1. ASSUME pc' = "rewrite" PROVE FALSE
    <3>1. PICK t \in Term : RewriteBegin(t)
      BY <1>0, <1>1, <1>2, <2>1, InsertStages
    <3>2. pc = "compact" /\ cpt'.term = t /\ cpt'.todo = cpt.todo \ {t} /\ t \in cpt.todo /\ heap' = heap
      BY <1>0, <3>1 DEF RewriteBegin, Visit, CompactRecord
    <3>3. gen.valid /\ Rewrites
      BY <3>1, <3>2 DEF BarrierHeld, CompactStages, CompactHolds, Rewrites
    <3>4. ~VacuumBegin /\ ~Interrupt /\ (\A mode \in CompactMode : ~CompactBegin(mode))
          /\ (\A r \in Root, d \in Document : ~InsertBegin(r, d)) /\ (\A r \in Root : ~HeapDelete(r))
      BY <2>1, <3>2 DEF VacuumBegin, CompactBegin, Interrupt, Abandoned, InsertBegin, HeapDelete
    <3> QED BY <1>2, <2>1, <3>3, <3>4 DEF WriterStep, vars
  <2> QED BY <2>1
<1> QED BY <1>2, <1>3, <1>4 DEF NoRewrite

(* The steps of the model by what they do to the page file and generations *)
LEMMA FrontierSteps ==
  ASSUME [FrontierNext]_allVars
  PROVE  \/ (WriterStep \/ UNCHANGED vars) /\ UNCHANGED <<gen, readVars>>
         \/ RebuildGeneration \/ SealGeneration
         \/ (RetireGeneration \/ InvalidateFrontier) /\ UNCHANGED <<vars, readVars>>
         \/ ReadStep /\ UNCHANGED <<vars, gen>>
BY DEF FrontierNext, allVars, RetireGeneration, InvalidateFrontier

(* A step leaves the barrier as its holders need it. *)
LEMMA BarrierStep ==
  ASSUME StoreOK, BarrierHeld, gen \in GenRecord, [FrontierNext]_allVars
  PROVE  BarrierHeld'
<1>0. TypeOK /\ ImageCurrent
  BY DEF StoreOK
<1>1. CASE (WriterStep \/ UNCHANGED vars) /\ UNCHANGED <<gen, readVars>>
  <2>1. CompactStages' /\ (Open => ~CompactHolds')
    <3>1. CASE Step \/ Interrupt \/ (\E r \in Root : HeapDelete(r)) \/ UNCHANGED vars
      BY <1>0, <3>1, CompactSteps DEF BarrierHeld, CompactHolds
    <3>2. ASSUME NEW r \in Root, NEW d \in Document, InsertBegin(r, d)
          PROVE  pc' = "reserve" /\ cpt' = cpt
      BY <3>2 DEF InsertBegin
    <3>3. CASE VacuumBegin
      <4>1. pc' = "recover" /\ cpt'.then = "vacuum"
        BY <1>0, <3>3 DEF VacuumBegin, TypeOK, CompactRecord
      <4> QED BY <4>1 DEF CompactStages, CompactHolds
    <3>4. ASSUME NEW mode \in CompactMode, CompactBegin(mode), ~Open
          PROVE  pc' = "recover"
      BY <3>4 DEF CompactBegin
    <3> QED BY <1>1, <3>1, <3>2, <3>3, <3>4 DEF WriterStep, BarrierHeld, CompactStages, CompactHolds, Open
  <2>2. Open' = Open /\ gen'.valid = gen.valid
    BY <1>1 DEF Open, readVars
  <2>3. gen.valid => pc' # "rewrite"
    BY <1>1, WriterBarrier
  <2>4. gen.valid => meta'.journal.phase = "None"
    <3>1. [Next]_vars
      BY <1>1 DEF WriterStep, Next
    <3> QED BY <3>1, JournalStays DEF BarrierHeld
  <2> QED BY <2>1, <2>2, <2>3, <2>4 DEF BarrierHeld
<1>2. CASE RebuildGeneration \/ SealGeneration
  <2>1. meta'.journal = meta.journal
    BY <1>0, <1>2 DEF RebuildGeneration, SealGeneration, TypeOK, MetaRecord
  <2>2. gen'.valid => gen.valid \/ meta.journal.phase = "None"
    BY <1>2 DEF RebuildGeneration, SealGeneration, GenRecord
  <2> QED BY <1>2, <2>1, <2>2 DEF RebuildGeneration, SealGeneration, Writing, BarrierHeld,
                                  CompactStages, Open, CompactHolds, readVars
<1>3. CASE (RetireGeneration \/ InvalidateFrontier) /\ UNCHANGED <<vars, readVars>>
  <2>1. gen'.valid => gen.valid
    BY <1>3 DEF RetireGeneration, InvalidateFrontier, GenRecord
  <2> QED BY <1>3, <2>1 DEF BarrierHeld, CompactStages, Open, CompactHolds, vars, readVars
<1>4. CASE ReadStep /\ UNCHANGED <<vars, gen>>
  <2>1. Open' => ~CompactHolds
    BY <1>4, ReadOpens DEF BarrierHeld, FrontierOpen
  <2> QED BY <1>4, <2>1 DEF BarrierHeld, CompactStages, CompactHolds, vars
<1> QED BY <1>1, <1>2, <1>3, <1>4, FrontierSteps

-----------------------------------------------------------------------------
(* What the writers leave to the reader *)

(* A chain grows at its end: an entry keeps its head; a second owner stays *)
(* in the entry or moves to the first page; a new entry is that of the     *)
(* insertion under way.                                                    *)
EntryGrows(t) ==
  /\ dict[t].inline # 1 /\ dict[t].head # NoBlock =>
       dict'[t].inline # 1 /\ dict'[t].head = dict[t].head
  /\ dict[t].inline = 1 =>
       \/ dict'[t] = dict[t]
       \/ LinkPromote(t) /\ dict'[t].inline = 2 /\ Holds(ScanPages(t), dict[t].second)'
  /\ dict[t].page = NoBlock =>
       \/ dict'[t] = dict[t]
       \/ /\ pc = "link" /\ t \in ins.todo /\ dict'[t].first = ins.owner
          /\ dict'[t].inline = 0 /\ dict'[t].head = NoBlock

(* A promoted second owner is on the page it moved to. *)
LEMMA PromotedHeld ==
  ASSUME StoreInv, StoreInv', [Next]_vars, NEW t \in Term, LinkPromote(t)
  PROVE  Holds(ScanPages(t), dict[t].second)'
<1>0. /\ StoreOK /\ StoreOK' /\ NamesWritten /\ OwnersChained /\ DictChained /\ PostingsSound
  BY DEF StoreInv
<1>1. PICK J \in SUBSET Block, S \in SUBSET Block : PostingsHold(J, S)
  BY <1>0 DEF PostingsSound
<1>2. LinkTerm(t)
  BY DEF LinkTerm
<1>3. \A b \in J : Same(b)
  BY <1>0, <1>1, <1>2, LinkSpares
<1>4. /\ blk # NoBlock /\ Puts(blk, PostingsPage(t, {dict[t].second, ins.owner}))
      /\ EntryPut(t, Promoted(dict[t], blk)) /\ TermLinked(t)
  BY <1>0, LinkBatch
<1>5. blk \in Block /\ page[blk].kind = "Zero"
  BY <1>0, <1>4, Allocated
<1>6. JournalSound(J)'
  BY <1>1, <1>3, <1>4, JournalKept DEF PostingsHold, TermLinked
<1>7. ScanPages(t)' = Postings(t)' \ J
  BY <1>0, <1>6, ScanPagesNext
<1>8. blk \notin J
  BY <1>1, <1>5 DEF PostingsHold, JournalSound, Posts, PostingKind
<1>9. page'[blk] = PostingsPage(t, {dict[t].second, ins.owner})
  BY <1>4 DEF Puts
<1>10. page'[blk].kind = "Postings" /\ page'[blk].term = t /\ dict[t].second \in page'[blk].refs
  BY <1>9, PageFields
<1>11. blk \in ScanPages(t)'
  BY <1>5, <1>7, <1>8, <1>10 DEF Postings, Posts, PostingKind
<1>12. dict'[t].second = dict[t].second
  BY <1>4 DEF EntryPut, Promoted
<1> QED BY <1>10, <1>11, <1>12 DEF Holds

(* Beside readers an entry only grows. *)
LEMMA EntryGrowth ==
  ASSUME StoreInv, StoreInv', NoRewrite, [Next]_vars, NEW t \in Term
  PROVE  EntryGrows(t)
<1>0. /\ StoreOK /\ NamesWritten /\ OwnersChained /\ DictChained /\ PostingsSound
      /\ dict[t] \in TermRecord
  BY DEF StoreInv, StoreOK, TypeOK
<1>1. dict'[t] = dict[t] => EntryGrows(t)
  BY DEF EntryGrows
<1>2. Recover => dict' = dict
  BY <1>0, RecoverBatch
<1>3. ASSUME NEW u \in Term, u # t, LinkTerm(u) PROVE dict'[t] = dict[t]
  BY <1>0, <1>3, LinkOther
<1>4. ASSUME LinkTerm(t) PROVE EntryGrows(t)
  <2>1. TermLinked(t)
    BY <1>0, <1>4, LinkBatch DEF LinkTerm
  <2>2. CASE LinkFirstTerm(t) \/ LinkNewTerm(t) \/ LinkNewTermNextPage(t)
    <3>1. dict[t].page = NoBlock /\ \E b : dict'[t] = NewEntry(b, ins.owner)
      BY <1>0, <2>2, LinkBatch DEF EntryPut
    <3>2. dict[t] = NoEntry
      BY <1>0, <3>1 DEF PostingsSound, PostingsHold, EntriesSound
    <3> QED BY <2>1, <3>1, <3>2 DEF EntryGrows, NoEntry, NewEntry, TermLinked
  <2>3. CASE LinkPromote(t)
    <3>1. dict[t].page # NoBlock /\ dict[t].inline = 1 /\ dict'[t] = Promoted(dict[t], blk)
      BY <1>0, <2>3, LinkBatch DEF EntryPut
    <3>2. dict'[t].inline = 2
      BY <3>1 DEF Promoted
    <3>3. Holds(ScanPages(t), dict[t].second)'
      BY <2>3, PromotedHeld
    <3> QED BY <2>3, <3>1, <3>2, <3>3 DEF EntryGrows
  <2>4. CASE LinkInline(t) \/ LinkFirstPosting(t)
    <3>1. dict[t].page # NoBlock /\ dict[t].inline # 1 /\ dict[t].head = NoBlock
      BY <1>0, <2>4, LinkBatch
    <3> QED BY <3>1 DEF EntryGrows
  <2>5. CASE LinkAppend(t)
    <3>1. UNCHANGED dict
      BY <1>0, <2>5, LinkBatch
    <3> QED BY <1>1, <3>1
  <2>6. CASE LinkNextPage(t)
    <3>1. /\ dict[t].page # NoBlock /\ dict[t].inline # 1
          /\ dict'[t] = WithChain(dict[t], dict[t].head, blk)
      BY <1>0, <2>6, LinkBatch DEF EntryPut
    <3>2. dict'[t].head = dict[t].head /\ dict'[t].inline = dict[t].inline
      BY <1>0, <3>1 DEF WithChain, TermRecord
    <3> QED BY <3>1, <3>2 DEF EntryGrows
  <2> QED BY <1>4, <2>2, <2>3, <2>4, <2>5, <2>6 DEF LinkTerm
<1> QED BY <1>1, <1>2, <1>3, <1>4, BesideClasses DEF QuietStepOf

(* The counter of incarnations only grows. *)
LEMMA CounterGrows ==
  ASSUME StoreOK, [Next]_vars
  PROVE  meta.inc \in Nat /\ meta'.inc \in {meta.inc, meta.inc + 1}
<1>0. TypeOK /\ meta \in MetaRecord /\ meta.inc \in Nat
  BY BoundAssumption DEF StoreOK, TypeOK, MetaRecord
<1>1. CASE PlainStep \/ Allocate
  BY <1>0, <1>1, AllocateBatch DEF PlainStep
<1>2. CASE Reserve
  BY <1>0, <1>2, ReserveBatch
<1>3. CASE StoreFragmentReused \/ StoreFragmentAllocated
  <2>1. meta' = meta \/ meta' = [meta EXCEPT !.free = page[meta.free].next]
    BY <1>3, FragmentBatch
  <2> QED BY <1>0, <2>1 DEF MetaRecord
<1>4. ASSUME NEW t \in Term, LinkTerm(t) PROVE meta'.inc = meta.inc
  BY <1>4, LinkBatch DEF LinkTerm, TermLinked
<1>5. ASSUME NEW t \in Term, CompactInline(t) PROVE meta'.inc = meta.inc
  BY <1>5 DEF CompactInline
<1>6. CASE PersistReused \/ PersistAllocated \/ PublishReplacement \/ Recover
  <2>1. MetaKept
    BY <1>6, PersistBatch, ReplaceBatch, RecoverBatch DEF Persisted, Replaced
  <2> QED BY <1>0, <2>1 DEF MetaKept
<1>7. ASSUME NEW b \in Block, SweepFragment(b) \/ ReclaimZero(b) PROVE meta'.inc = meta.inc
  BY <1>7, ReclaimBatch DEF Reclaimed, MetaKept
<1> QED BY <1>0, <1>1, <1>2, <1>3, <1>4, <1>5, <1>6, <1>7, StepClasses

(* A slot is written under the counter's value, and keeps its root, page   *)
(* and document.                                                           *)
LEMMA SlotGrowth ==
  ASSUME StoreOK, [Next]_vars, NEW o \in Owner
  PROVE  /\ owner[o].pub # "None" =>
              /\ owner'[o].pub # "None" /\ o < meta.inc
              /\ owner'[o].page = owner[o].page /\ owner'[o].root = owner[o].root
              /\ owner'[o].doc = owner[o].doc
              /\ owner[o].pub = "Published" => owner'[o].pub = "Published"
         /\ owner[o].pub = "None" /\ owner'[o].pub # "None" => o = meta.inc
<1>0. TypeOK /\ ImageCurrent
  BY DEF StoreOK
<1>1. owner[o].pub # "None" =>
              /\ owner'[o].pub # "None"
              /\ owner'[o].page = owner[o].page /\ owner'[o].root = owner[o].root
  BY <1>0, SlotFacts
<1>2. owner[o].pub # "None" => owner'[o].doc = owner[o].doc
  BY <1>0, SlotStep DEF SlotKept
<1>3. owner[o].pub = "Published" => owner'[o].pub = "Published"
  BY PublishedStep
<1>4. owner[o].pub = "None" /\ owner'[o].pub # "None" => o = meta.inc
  BY <1>0, SlotFacts, ReserveBatch
<1>5. owner[o].pub # "None" => o < meta.inc
  BY <1>0 DEF ImageCurrent, MetapageCurrent
<1> QED BY <1>1, <1>2, <1>3, <1>4, <1>5

(* A document is used again by no step: it becomes live by its publication *)
(* and the host takes nothing back.                                        *)
LEMMA UsedStep ==
  ASSUME StoreInv, [Next]_vars, NEW o \in Owner, Used(o)'
  PROVE  Used(o) \/ (Publish /\ o = ins.owner)
<1>0. StoreOK /\ RootInv /\ TypeOK /\ ImageCurrent /\ heap \in [Root -> {"free", "used", "dead"}]
  BY DEF StoreInv, StoreOK, TypeOK
<1>1. Live(o) \/ (Publish /\ o = ins.owner)
  BY <1>0, SlotFacts DEF Used
<1>2. ASSUME Live(o) PROVE Used(o)
  <2>1. owner[o].pub # "None"
    BY <1>2 DEF Live
  <2>2. owner[o].root \in Root /\ owner'[o].root = owner[o].root /\ heap[owner[o].root] # "free"
    BY <1>0, <1>2, <2>1, SlotGrowth DEF RootInv, SlotsHaveRoots, NoStaleRoot
  <2>3. heap'[owner[o].root] = "used"
    BY <2>2 DEF Used
  <2>4. ASSUME heap[owner[o].root] = "dead" PROVE FALSE
    <3>1. VacuumEnd
      BY <1>0, <2>2, <2>3, <2>4, HeapFacts
    <3> QED BY <2>2, <2>3, <2>4, <3>1 DEF VacuumEnd
  <2> QED BY <1>0, <1>2, <2>2, <2>4 DEF Used
<1> QED BY <1>1, <1>2

-----------------------------------------------------------------------------
(* The generations hold what is live *)

(* A nonempty set of owners has a maximum, *)
LEMMA MaxIs ==
  ASSUME NEW S \in SUBSET OwnerOrNone, S # {}
  PROVE  Max(S) \in S /\ \A o \in S : o <= Max(S)
<1>0. OwnerOrNone \subseteq Nat
  BY BoundAssumption DEF OwnerOrNone, Owner, NoOwner
<1>1. \E x \in S : \A y \in S : x >= y
  <2>1. CASE S \subseteq {NoOwner}
    <3>1. NoOwner \in S /\ \A y \in S : y = NoOwner
      BY <2>1
    <3> QED BY <3>1 DEF NoOwner
  <2>2. CASE ~(S \subseteq {NoOwner})
    <3>1. PICK T : T = S \cap Owner
      OBVIOUS
    <3>2. T \in SUBSET Owner /\ T # {}
      BY <2>2, <3>1 DEF OwnerOrNone
    <3>3. PICK o \in T : \A p \in T : p <= o
      BY <3>2, LastIs
    <3>4. ASSUME NEW y \in S PROVE o >= y
      <4>1. y \in T \/ y = 0
        BY <3>1 DEF OwnerOrNone, NoOwner
      <4> QED BY <1>0, <3>1, <3>3, <4>1
    <3> QED BY <3>1, <3>4
  <2> QED BY <2>1, <2>2
<1>2. Max(S) \in S /\ \A y \in S : Max(S) >= y
  BY <1>1 DEF Max
<1> QED BY <1>0, <1>2

(* and one of numbers a minimum. *)
LEMMA MinIs ==
  ASSUME NEW S \in SUBSET Nat, S # {}
  PROVE  Min(S) \in S /\ \A o \in S : Min(S) <= o
<1>1. \E x \in S : \A y \in S : x <= y
  BY LeastElement
<1> QED BY <1>1 DEF Min

(* The last slot written *)
LEMMA LastSlotIs ==
  ASSUME StoreOK
  PROVE  /\ LastSlot \in OwnerOrNone /\ LastSlot < meta.inc
         /\ LastSlot # NoOwner => owner[LastSlot].pub # "None"
         /\ \A o \in Owner : owner[o].pub # "None" => o <= LastSlot
<1>1. PICK S : S = {NoOwner} \cup {o \in Owner : owner[o].pub # "None"}
  OBVIOUS
<1>2. S \in SUBSET OwnerOrNone /\ S # {}
  BY <1>1 DEF OwnerOrNone
<1>3. Max(S) \in S /\ \A o \in S : o <= Max(S)
  BY <1>2, MaxIs
<1>4. LastSlot = Max(S)
  BY <1>1 DEF LastSlot
<1>5. meta \in MetaRecord /\ 0 < meta.inc
  <2>1. meta \in MetaRecord
    BY DEF StoreOK, TypeOK
  <2> QED BY <2>1, BoundAssumption DEF MetaRecord
<1>6. \A o \in Owner : owner[o].pub # "None" => o < meta.inc
  BY DEF StoreOK, ImageCurrent, MetapageCurrent
<1>7. LastSlot < meta.inc
  <2>1. LastSlot = 0 \/ LastSlot < meta.inc
    BY <1>1, <1>3, <1>4, <1>6 DEF NoOwner
  <2> QED BY <1>5, <2>1
<1> QED BY <1>1, <1>2, <1>3, <1>4, <1>7

(* The insertion under way is beyond the fence. *)
LEMMA InsertBeyond ==
  ASSUME StoreInv, gen \in GenRecord, GenFence, pc \in {"fragment", "link"}
  PROVE  ins.owner \in Owner /\ gen.id < ins.owner /\ gen.after < ins.owner
<1>1. /\ StoreOK /\ InsertSound /\ TypeOK /\ meta \in MetaRecord /\ ins.owner \in Owner
  BY DEF StoreInv, StoreOK, TypeOK, ImageCurrent, MetapageCurrent
<1>2. ins.owner = meta.inc - 1 /\ owner[ins.owner].pub # "None"
  BY <1>1 DEF InsertSound
<1>3. /\ gen.id \in Nat /\ gen.after \in Nat /\ meta.inc \in Nat /\ ins.owner \in Nat /\ 0 < ins.owner
  BY <1>1, BoundAssumption DEF GenRecord, OwnerOrNone, Owner, NoOwner, MetaRecord
<1>4. gen.id < meta.inc /\ (ins.owner <= gen.after \/ gen.id < ins.owner)
      /\ (gen.id = 0 => gen.after = 0) /\ (gen.id # 0 => gen.after < gen.id)
  BY <1>1, <1>2 DEF GenFence, NoGeneration, NoOwner
<1> QED BY <1>1, <1>2, <1>3, <1>4

(* Insertions and passes of vacuum leave the fence and what is behind it. *)
LEMMA GenBeside ==
  ASSUME StoreInv, GenSound, [Next]_vars, gen' = gen
  PROVE  GenSound'
<1>0. StoreOK /\ TypeOK /\ gen \in GenRecord /\ GenFence /\ GenHolds /\ gen.members \subseteq Owner
  BY DEF GenSound, StoreInv, StoreOK, GenRecord
<1>1. gen.id \in Nat /\ gen.after \in Nat /\ gen.after \in OwnerOrNone
  BY <1>0, BoundAssumption DEF GenRecord, OwnerOrNone, Owner, NoOwner
<1>2. meta.inc \in Nat /\ meta'.inc \in Nat /\ meta.inc <= meta'.inc
  BY <1>0, CounterGrows
<1>3. GenFence'
  <2>1. gen.id < meta'.inc
    BY <1>0, <1>1, <1>2 DEF GenFence
  <2>2. gen.after # NoOwner => owner'[gen.after].pub # "None"
    BY <1>0, <1>1, SlotGrowth DEF GenFence, OwnerOrNone
  <2>3. ASSUME NEW o \in Owner, owner'[o].pub # "None" PROVE o <= gen.after \/ gen.id < o
    BY <1>0, <2>3, SlotGrowth DEF GenFence
  <2> QED BY <1>0, <2>1, <2>2, <2>3 DEF GenFence
<1>4. GenHolds'
  <2>1. \A o \in gen.members : owner'[o].pub = "Published" /\ owner'[o].doc = owner[o].doc
    BY <1>0, SlotGrowth DEF GenHolds
  <2>2. ASSUME NEW o \in Owner, Used(o)', o <= gen.after PROVE Used(o)
    <3>1. Publish => gen.after < ins.owner
      BY <1>0, InsertBeyond DEF Publish
    <3> QED BY <1>1, <2>2, <3>1, UsedStep DEF Owner
  <2> QED BY <1>0, <2>1, <2>2 DEF GenHolds
<1> QED BY <1>0, <1>3, <1>4 DEF GenSound

(* The references of a term that are live *)
LEMMA LiveRefs ==
  ASSUME StoreInv, NEW t \in Term, NEW o \in Owner, Live(o)
  PROVE  o \in TermRefs(t) <=> t \in owner[o].doc.terms
<1>1. StoreOK /\ PostingsSound
  BY DEF StoreInv
<1>2. PICK J \in SUBSET Block, S \in SUBSET Block : PostingsHold(J, S)
  BY <1>1 DEF PostingsSound
<1>3. t \in owner[o].doc.terms => o \in TermRefs(t)
  BY <1>1, <1>2, TermRefsAre DEF PostingsHold, LinksComplete, Due
<1>4. o \in TermRefs(t) => t \in owner[o].doc.terms
  BY TermHas DEF Refers
<1> QED BY <1>3, <1>4

(* What capture() finds of a term *)
LEMMA AnchorIs ==
  ASSUME StoreInv, NEW t \in Term
  PROVE  LET a == AnchorOf(t) IN
         /\ a \in [head : BlockOrNone, tail : BlockOrNone, last : OwnerOrNone]
         /\ dict[t].page = NoBlock => a = NoAnchor
         /\ dict[t].page # NoBlock => a.last \in Owner /\ owner[a.last].pub # "None"
         /\ dict[t].page # NoBlock /\ dict[t].head = NoBlock => a.last = dict[t].first
         /\ a.head = dict[t].head /\ (dict[t].page # NoBlock => a.tail = dict[t].tail)
         /\ a.head # NoBlock =>
              IF dict[t].inline = 1 THEN a.last = dict[t].second
              ELSE dict[t].tail \in ScanPages(t) /\ a.last \in page[dict[t].tail].refs
<1> DEFINE a == AnchorOf(t)
<1>0. /\ StoreOK /\ PostingsSound /\ dict[t] \in TermRecord /\ EntryValid(dict[t]) /\ OwnerOrNone \in SUBSET OwnerOrNone
      /\ Owner \subseteq OwnerOrNone
  BY TermEntry DEF StoreInv, StoreOK, TypeOK, OwnerOrNone
<1>1. CASE dict[t].page = NoBlock
  <2>1. dict[t] = NoEntry
    BY <1>0, <1>1 DEF PostingsSound, PostingsHold, EntriesSound
  <2>2. a = NoAnchor /\ dict[t].head = NoBlock
    BY <1>1, <2>1 DEF AnchorOf, NoEntry
  <2> QED BY <1>1, <2>2 DEF NoAnchor, BlockOrNone, OwnerOrNone
<1>2. CASE dict[t].page # NoBlock /\ dict[t].head = NoBlock
  <2>1. a = [head |-> dict[t].head, tail |-> dict[t].tail, last |-> dict[t].first]
    BY <1>2 DEF AnchorOf
  <2>2. dict[t].first \in Owner /\ owner[dict[t].first].pub # "None"
    BY <1>2, TermEntry DEF Refers
  <2> QED BY <1>0, <1>2, <2>1, <2>2 DEF TermRecord
<1>3. CASE dict[t].page # NoBlock /\ dict[t].head # NoBlock
  <2>1. PICK R : R = PageRefs(t, dict[t].tail)
    OBVIOUS
  <2>2. a = [head |-> dict[t].head, tail |-> dict[t].tail, last |-> Max(R)]
    BY <1>3, <2>1 DEF AnchorOf
  <2>3. CASE dict[t].inline = 1
    <3>1. dict[t].tail = dict[t].page /\ page[dict[t].tail].kind = "Dictionary"
      BY <1>0, <1>3, <2>3, TermEntry DEF EntryValid
    <3>2. R = {dict[t].second} /\ dict[t].second \in Owner /\ owner[dict[t].second].pub # "None"
      BY <2>1, <2>3, <3>1, TermEntry DEF PageRefs, Refers
    <3>3. R \in SUBSET OwnerOrNone /\ R # {}
      BY <1>0, <3>2
    <3>4. Max(R) = dict[t].second
      BY <3>2, <3>3, MaxIs
    <3> QED BY <1>0, <1>3, <2>2, <2>3, <3>2, <3>4 DEF TermRecord
  <2>4. CASE dict[t].inline # 1
    <3>1. PICK Q : Q = ScanPages(t)
      OBVIOUS
    <3>2. Q \subseteq Block /\ 0 \notin Q /\ Chained(Link, Q, dict[t].head, dict[t].tail)
      BY <2>4, <3>1, PlaceFacts, TermEntry
    <3>3. dict[t].tail \in Q
      BY <1>3, <3>2, ChainedFacts DEF NoBlock
    <3>4. /\ page[dict[t].tail].kind \in PostingKind /\ page[dict[t].tail].refs # {}
          /\ \A o \in page[dict[t].tail].refs : Refers(t, o)
      BY <3>1, <3>3, PlaceFacts
    <3>5. R = page[dict[t].tail].refs
      BY <2>1, <3>4 DEF PageRefs, PostingKind
    <3>6. R \in SUBSET OwnerOrNone /\ R # {} /\ \A o \in R : o \in Owner /\ owner[o].pub # "None"
      BY <1>0, <3>4, <3>5 DEF Refers
    <3>7. Max(R) \in R
      BY <3>6, MaxIs
    <3> QED BY <1>0, <1>3, <2>2, <2>4, <3>1, <3>3, <3>5, <3>6, <3>7 DEF TermRecord
  <2> QED BY <2>3, <2>4
<1> QED BY <1>1, <1>2, <1>3

(* rebuild() takes what is live and seals the slots written so far. *)
LEMMA GenRebuilt ==
  ASSUME StoreInv, GenSound, RebuildGeneration
  PROVE  GenSound'
<1>0. StoreOK /\ TypeOK /\ meta \in MetaRecord /\ meta.inc \in Owner /\ meta'.inc = meta.inc + 1
  <2>1. StoreOK /\ TypeOK /\ meta \in MetaRecord
    BY DEF StoreInv, StoreOK, TypeOK
  <2> QED BY <2>1, BoundAssumption DEF RebuildGeneration, MetaRecord, Owner
<1>1. /\ gen' = [id |-> meta.inc, after |-> LastSlot,
                 members |-> {o \in Owner : Live(o)}, valid |-> TRUE, delta |-> FALSE,
                 post |-> [t \in Term |-> {o \in TermRefs(t) : Live(o)}],
                 anchors |-> [t \in Term |-> AnchorOf(t)]]
      /\ UNCHANGED <<page, dict, owner, heap>>
  BY DEF RebuildGeneration
<1>2. gen' \in GenRecord
  <2>1. \A t \in Term : AnchorOf(t) \in [head : BlockOrNone, tail : BlockOrNone, last : OwnerOrNone]
    BY AnchorIs
  <2>2. \A t \in Term : {o \in TermRefs(t) : Live(o)} \in SUBSET Owner
    BY TermHas DEF Refers
  <2>3. [t \in Term |-> {o \in TermRefs(t) : Live(o)}] \in [Term -> SUBSET Owner]
    BY <2>2
  <2>4. [t \in Term |-> AnchorOf(t)]
          \in [Term -> [head : BlockOrNone, tail : BlockOrNone, last : OwnerOrNone]]
    BY <2>1
  <2>5. meta.inc \in OwnerOrNone /\ LastSlot \in OwnerOrNone
    BY <1>0, LastSlotIs DEF OwnerOrNone
  <2>6. {o \in Owner : Live(o)} \in SUBSET Owner
    OBVIOUS
  <2> QED BY <1>1, <2>3, <2>4, <2>5, <2>6 DEF GenRecord
<1>3. GenFence'
  <2>1. gen'.id = meta.inc /\ gen'.after = LastSlot /\ meta.inc # NoOwner /\ meta.inc < meta.inc + 1
    BY <1>0, <1>1, BoundAssumption DEF Owner, NoOwner
  <2> QED BY <1>0, <1>1, <2>1, LastSlotIs DEF GenFence
<1>4. GenHolds'
  <2>1. /\ gen'.members = {o \in Owner : Live(o)} /\ gen'.after = LastSlot
        /\ \A t \in Term : gen'.post[t] = {o \in TermRefs(t) : Live(o)}
    BY <1>1
  <2>2. \A o \in gen'.members : o <= gen'.after /\ owner[o].pub = "Published"
    BY <1>0, <2>1, LastSlotIs DEF Live
  <2>3. \A t \in Term : \A o \in gen'.post[t] : o <= gen'.after
    BY <1>0, <2>1, LastSlotIs, TermHas DEF Refers
  <2>4. \A o \in gen'.members, t \in Term : o \in gen'.post[t] <=> t \in owner[o].doc.terms
    BY <2>1, LiveRefs
  <2>5. \A o \in Owner : Used(o) => o \in gen'.members
    BY <2>1 DEF Used
  <2> QED BY <1>1, <2>2, <2>3, <2>4, <2>5 DEF GenHolds, Used, Live
<1> QED BY <1>2, <1>3, <1>4 DEF GenSound

(* seal_delta() adds the live documents beyond the fence. *)
LEMMA GenSealed ==
  ASSUME StoreInv, GenSound, SealGeneration
  PROVE  /\ GenSound' /\ gen'.anchors = gen.anchors /\ gen'.delta /\ gen'.valid = gen.valid
<1> DEFINE fresh == {o \in Owner : Live(o) /\ o > gen.after}
<1>0. /\ StoreOK /\ TypeOK /\ meta \in MetaRecord /\ meta.inc \in Owner /\ meta'.inc = meta.inc + 1
      /\ gen \in GenRecord /\ GenFence /\ GenHolds /\ gen.after \in Nat
  <2>1. StoreOK /\ TypeOK /\ meta \in MetaRecord /\ gen \in GenRecord /\ GenFence /\ GenHolds
    BY DEF StoreInv, StoreOK, TypeOK, GenSound
  <2> QED BY <2>1, BoundAssumption DEF SealGeneration, MetaRecord, Owner, GenRecord, OwnerOrNone, NoOwner
<1>1. /\ gen' = [gen EXCEPT !.id = meta.inc, !.after = LastSlot, !.delta = TRUE,
                   !.members = @ \cup fresh,
                   !.post = [t \in Term |-> @[t] \cup {o \in fresh : t \in owner[o].doc.terms}]]
      /\ gen.after < LastSlot
      /\ UNCHANGED <<page, dict, owner, heap>>
  BY DEF SealGeneration
<1>2. /\ gen'.id = meta.inc /\ gen'.after = LastSlot /\ gen'.delta = TRUE
      /\ gen'.members = gen.members \cup fresh
      /\ gen'.post = [t \in Term |-> gen.post[t] \cup {o \in fresh : t \in owner[o].doc.terms}]
      /\ gen'.valid = gen.valid /\ gen'.anchors = gen.anchors
      /\ gen' = [id |-> gen'.id, after |-> gen'.after, members |-> gen'.members, valid |-> gen'.valid,
                 delta |-> gen'.delta, post |-> gen'.post, anchors |-> gen'.anchors]
  BY <1>0, <1>1 DEF GenRecord
<1>3. LastSlot \in OwnerOrNone /\ LastSlot \in Nat
  BY <1>0, LastSlotIs, BoundAssumption DEF OwnerOrNone, Owner, NoOwner
<1>4. gen' \in GenRecord
  <2>1. fresh \in SUBSET Owner
    OBVIOUS
  <2> HIDE DEF fresh
  <2>2. \A t \in Term : gen.post[t] \cup {o \in fresh : t \in owner[o].doc.terms} \in SUBSET Owner
    BY <1>0, <2>1 DEF GenRecord
  <2>3. gen'.post \in [Term -> SUBSET Owner]
    BY <1>2, <2>2
  <2>4. gen'.members \in SUBSET Owner
    BY <1>0, <1>2, <2>1 DEF GenRecord
  <2>5. meta.inc \in OwnerOrNone
    BY <1>0 DEF OwnerOrNone
  <2> QED BY <1>0, <1>2, <1>3, <2>3, <2>4, <2>5 DEF GenRecord
<1>5. GenFence'
  <2>1. meta.inc # NoOwner /\ meta.inc < meta.inc + 1
    BY <1>0, BoundAssumption DEF Owner, NoOwner
  <2> QED BY <1>0, <1>1, <1>2, <2>1, LastSlotIs DEF GenFence
<1>6. GenHolds'
  <2>1. \A o \in fresh : o \in Owner /\ Live(o) /\ gen.after < o /\ o <= LastSlot
    BY <1>0, <1>3, LastSlotIs, BoundAssumption DEF Live, Owner
  <2>2. \A o \in gen.members : o \in Owner /\ o <= gen.after /\ o <= LastSlot
    BY <1>0, <1>1, <1>3, BoundAssumption DEF GenHolds, GenRecord, Owner
  <2>3. \A t \in Term : \A o \in gen.post[t] : o \in Owner /\ o <= gen.after /\ o <= LastSlot
    BY <1>0, <1>1, <1>3, BoundAssumption DEF GenHolds, GenRecord, Owner
  <2>4. \A o \in Owner : Live(o) /\ ~(o <= gen.after) => o \in fresh
    BY <1>0, BoundAssumption DEF Owner
  <2> HIDE DEF fresh
  <2>5. \A o \in gen'.members : o <= gen'.after /\ owner[o].pub = "Published"
    BY <1>0, <1>2, <2>1, <2>2 DEF GenHolds, Live
  <2>6. \A t \in Term : \A o \in gen'.post[t] : o <= gen'.after
    BY <1>2, <2>1, <2>3
  <2>7. ASSUME NEW o \in gen'.members, NEW t \in Term
        PROVE  o \in gen'.post[t] <=> t \in owner[o].doc.terms
    <3>1. gen'.post[t] = gen.post[t] \cup {q \in fresh : t \in owner[q].doc.terms}
      BY <1>2
    <3>2. CASE o \in fresh
      <4>1. o \notin gen.post[t]
        BY <1>0, <2>1, <2>3, <3>2, BoundAssumption DEF Owner
      <4> QED BY <3>1, <3>2, <4>1
    <3>3. CASE o \notin fresh
      <4>1. o \in gen.members
        BY <1>2, <3>3
      <4> QED BY <1>0, <3>1, <3>3, <4>1 DEF GenHolds
    <3> QED BY <3>2, <3>3
  <2>8. \A o \in Owner : Used(o) => o \in gen'.members
    BY <1>0, <1>2, <2>4 DEF Used, GenHolds
  <2> QED BY <1>1, <2>5, <2>6, <2>7, <2>8 DEF GenHolds, Used, Live
<1> QED BY <1>2, <1>4, <1>5, <1>6 DEF GenSound

(* A pass of vacuum takes dead documents out of them, an invalidation      *)
(* nothing.                                                                *)
LEMMA GenRetired ==
  ASSUME StoreInv, GenSound, RetireGeneration \/ InvalidateFrontier
  PROVE  /\ GenSound' /\ gen'.anchors = gen.anchors /\ gen'.delta = gen.delta
         /\ gen'.after = gen.after /\ gen'.id = gen.id /\ gen'.post = gen.post
         /\ gen'.members \subseteq gen.members
         /\ gen'.valid => gen.valid
<1>0. RootInv /\ gen \in GenRecord /\ GenFence /\ GenHolds /\ UNCHANGED vars
  BY DEF StoreInv, GenSound, RetireGeneration, InvalidateFrontier
<1>1. UNCHANGED <<page, dict, owner, heap, meta>>
  BY <1>0 DEF vars
<1>2. /\ gen' = [id |-> gen.id, after |-> gen.after, members |-> gen'.members, valid |-> gen'.valid,
                 delta |-> gen.delta, post |-> gen.post, anchors |-> gen.anchors]
      /\ gen'.members \subseteq gen.members
      /\ gen'.valid \in BOOLEAN /\ (gen'.valid => gen.valid)
      /\ \A o \in gen.members : Used(o) => o \in gen'.members
  <2>1. CASE InvalidateFrontier
    <3>1. gen' = [gen EXCEPT !.valid = FALSE]
      BY <2>1 DEF InvalidateFrontier
    <3> QED BY <1>0, <3>1 DEF GenRecord
  <2>2. CASE RetireGeneration
    <3>1. gen' = [gen EXCEPT !.members = {o \in gen.members : owner[o].root \notin vac.dead}]
      BY <2>2 DEF RetireGeneration
    <3>2. \A o \in gen.members : Used(o) => owner[o].root \notin vac.dead
      BY <1>0 DEF RootInv, DeadCollected, Used
    <3> QED BY <1>0, <3>1, <3>2 DEF GenRecord
  <2> QED BY <2>1, <2>2
<1>3. /\ gen'.anchors = gen.anchors /\ gen'.delta = gen.delta
      /\ gen'.after = gen.after /\ gen'.id = gen.id /\ gen'.post = gen.post
  BY <1>2
<1>4. gen' \in GenRecord
  BY <1>0, <1>2, <1>3 DEF GenRecord
<1>5. GenFence'
  <2>1. ASSUME gen.id = NoOwner PROVE gen' = NoGeneration
    <3>1. gen = NoGeneration
      BY <1>0, <2>1 DEF GenFence
    <3>2. gen'.members = {} /\ gen'.valid = FALSE
      BY <1>2, <3>1 DEF NoGeneration
    <3> QED BY <1>2, <3>1, <3>2 DEF NoGeneration
  <2> QED BY <1>0, <1>1, <1>3, <2>1 DEF GenFence
<1>6. GenHolds'
  BY <1>0, <1>1, <1>2, <1>3 DEF GenHolds, Used, Live
<1> QED BY <1>2, <1>3, <1>4, <1>5, <1>6 DEF GenSound

-----------------------------------------------------------------------------
(* Anchors *)

(* Appends and promotions leave an anchor where a reader may look it up.   *)
LEMMA AnchorKept ==
  ASSUME StoreInv, StoreInv', NoRewrite, GenSound, [Next]_vars, NEW t \in Term,
         gen'.anchors[t] = gen.anchors[t], gen'.after = gen.after
  PROVE  /\ AnchorAt(t) => AnchorAt(t)'
         /\ AnchorLast(t) => AnchorLast(t)'
<1>0. PagesStay(t) /\ EntryStays(t) /\ EntryGrows(t)
  BY TermStays, EntryGrowth
<1>1. PICK a : a = gen.anchors[t]
  OBVIOUS
<1>2. ASSUME AnchorAt(t) PROVE AnchorAt(t)'
  <2>1. SUFFICES ASSUME a.head # NoBlock
                 PROVE  /\ dict'[t].page # NoBlock
                        /\ IF a.head = dict'[t].page
                           THEN a.tail = a.head /\ dict'[t].inline # 0 /\ a.last = dict'[t].second
                           ELSE /\ dict'[t].inline # 1 /\ a.head = dict'[t].head
                                /\ a.tail \in ScanPages(t)' /\ a.last \in page'[a.tail].refs
    BY <1>1 DEF AnchorAt
  <2>2. /\ dict[t].page # NoBlock
        /\ IF a.head = dict[t].page
           THEN a.tail = a.head /\ dict[t].inline # 0 /\ a.last = dict[t].second
           ELSE /\ dict[t].inline # 1 /\ a.head = dict[t].head
                /\ a.tail \in ScanPages(t) /\ a.last \in page[a.tail].refs
    BY <1>1, <1>2, <2>1 DEF AnchorAt
  <2>3. dict'[t].page = dict[t].page
    BY <1>0, <2>2 DEF EntryStays
  <2>4. CASE a.head = dict[t].page
    BY <1>0, <2>2, <2>3, <2>4 DEF EntryStays
  <2>5. CASE a.head # dict[t].page
    BY <1>0, <2>1, <2>2, <2>3, <2>5 DEF PagesStay, EntryGrows
  <2> QED BY <2>4, <2>5
<1>3. ASSUME AnchorLast(t) PROVE AnchorLast(t)'
  <2>1. a.last = NoOwner => dict'[t].page = NoBlock \/ gen.after < dict'[t].first
    <3>1. CASE dict[t].page = NoBlock
      <4>1. pc = "link" => gen.after < ins.owner
        BY InsertBeyond DEF GenSound
      <4> QED BY <1>0, <3>1, <4>1 DEF EntryGrows
    <3>2. CASE dict[t].page # NoBlock
      BY <1>0, <1>1, <1>3, <3>2 DEF EntryStays, AnchorLast
    <3> QED BY <3>1, <3>2
  <2>2. a.head = NoBlock /\ a.last # NoOwner => dict'[t].page # NoBlock /\ a.last = dict'[t].first
    BY <1>0, <1>1, <1>3 DEF EntryStays, AnchorLast
  <2> QED BY <1>1, <1>3, <2>1, <2>2 DEF AnchorLast
<1> QED BY <1>2, <1>3

(* No promotion, no rewrite: the chain begins where the anchor says. *)
LEMMA AnchorHeadKept ==
  ASSUME StoreInv, StoreInv', NoRewrite, [Next]_vars, NEW t \in Term, ~LinkPromote(t),
         AnchorAt(t), gen.anchors[t].head # NoBlock, gen.anchors[t].head = dict[t].head
  PROVE  gen.anchors[t].head = dict'[t].head
BY EntryGrowth DEF EntryGrows

(* capture() makes anchors that satisfy the reader. *)
LEMMA AnchorMade ==
  ASSUME StoreInv, NEW t \in Term, NEW g, g.anchors[t] = AnchorOf(t), g.after = LastSlot,
         UNCHANGED <<page, dict, meta.journal>>, gen' = g
  PROVE  AnchorAt(t)' /\ AnchorLast(t)' /\ gen'.anchors[t].head = dict'[t].head
<1> DEFINE a == AnchorOf(t)
<1>0. StoreOK /\ dict[t] \in TermRecord /\ EntryValid(dict[t])
  BY TermEntry DEF StoreInv
<1>1. /\ dict[t].page = NoBlock => a = NoAnchor
      /\ dict[t].page # NoBlock => a.last \in Owner /\ owner[a.last].pub # "None"
      /\ dict[t].page # NoBlock /\ dict[t].head = NoBlock => a.last = dict[t].first
      /\ a.head = dict[t].head /\ (dict[t].page # NoBlock => a.tail = dict[t].tail)
      /\ a.head # NoBlock =>
              IF dict[t].inline = 1 THEN a.last = dict[t].second
              ELSE dict[t].tail \in ScanPages(t) /\ a.last \in page[dict[t].tail].refs
  BY AnchorIs
<1>2. page' = page /\ dict' = dict
  OBVIOUS
<1>3. ScanPages(t)' = ScanPages(t)
  <2>1. meta'.journal = meta.journal
    OBVIOUS
  <2> QED BY <1>2, <2>1 DEF ScanPages, Postings, Posts, JournalChain, Chain, Walk
<1>4. AnchorAt(t)'
  <2>1. SUFFICES ASSUME a.head # NoBlock
                 PROVE  /\ dict[t].page # NoBlock
                        /\ IF a.head = dict[t].page
                           THEN a.tail = a.head /\ dict[t].inline # 0 /\ a.last = dict[t].second
                           ELSE /\ dict[t].inline # 1 /\ a.head = dict[t].head
                                /\ a.tail \in ScanPages(t) /\ a.last \in page[a.tail].refs
    BY <1>2, <1>3 DEF AnchorAt
  <2>2. dict[t].page # NoBlock
    BY <1>1, <2>1 DEF NoAnchor
  <2>3. (a.head = dict[t].page) = (dict[t].inline = 1)
    BY <1>0, <1>1, <2>1 DEF EntryValid, TermRecord
  <2>4. dict[t].inline = 1 => a.tail = a.head
    BY <1>0, <1>1, <2>2 DEF EntryValid
  <2> QED BY <1>1, <2>1, <2>2, <2>3, <2>4
<1>5. AnchorLast(t)'
  <2>1. a.last <= LastSlot
    BY <1>0, <1>1, LastSlotIs, BoundAssumption DEF NoAnchor, OwnerOrNone, Owner, NoOwner
  <2>2. a.last = NoOwner => dict[t].page = NoBlock
    BY <1>1, BoundAssumption DEF Owner, NoOwner
  <2>3. a.head = NoBlock /\ a.last # NoOwner => dict[t].page # NoBlock /\ a.last = dict[t].first
    BY <1>1 DEF NoAnchor
  <2> QED BY <1>2, <2>1, <2>2, <2>3 DEF AnchorLast
<1> QED BY <1>1, <1>2, <1>4, <1>5

(* The reader keeps what it captured of the metapage until it closes. *)
Captures ==
  /\ fr'.prog = fr.prog /\ fr'.id = fr.id /\ fr'.after = fr.after /\ fr'.valid = fr.valid
  /\ fr'.next = fr.next /\ fr'.ownerHead = fr.ownerHead /\ fr'.ownerTail = fr.ownerTail

(* And its record keeps its form. *)
LEMMA ReaderKeeps ==
  ASSUME ReaderShape, ReadStep
  PROVE  /\ ReaderShape'
         /\ Captures \/ FrontierClose \/ \E p \in Program : FrontierOpen(p)
<1>1. ASSUME NEW p \in Program, FrontierOpen(p) PROVE ReaderShape'
  BY <1>1 DEF FrontierOpen, ReaderShape
<1>2. CASE FrontierClose
  BY <1>2 DEF FrontierClose, NoReader, ReaderShape
<1>3. ASSUME NEW s, fr' = [fr EXCEPT !.stage = s] PROVE ReaderShape' /\ Captures
  BY <1>3 DEF ReaderShape, Captures
<1>4. ASSUME NEW s, fr' = [fr EXCEPT !.target = s] PROVE ReaderShape' /\ Captures
  BY <1>4 DEF ReaderShape, Captures
<1>5. ASSUME fr' = Advanced PROVE ReaderShape' /\ Captures
  <2>1. PICK n : n = fr.target + 1
    OBVIOUS
  <2>2. fr' = [fr EXCEPT !.target = n, !.stage = "seek"]
    BY <1>5, <2>1 DEF Advanced
  <2> QED BY <2>2 DEF ReaderShape, Captures
<1>6. ASSUME NEW s, fr' = [fr EXCEPT !.stage = s, !.dictTail = NoBlock] PROVE ReaderShape' /\ Captures
  BY <1>6 DEF ReaderShape, Captures
<1>7. ASSUME NEW t \in Term, CaptureTerm(t) PROVE ReaderShape' /\ Captures
  <2>1. PICK s : s = fr.todo \ {t}
    OBVIOUS
  <2>2. fr' = [fr EXCEPT !.todo = s]
    BY <1>7, <2>1 DEF CaptureTerm
  <2> QED BY <2>2 DEF ReaderShape, Captures
<1>8. UNCHANGED fr => ReaderShape' /\ Captures
  BY DEF ReaderShape, Captures
<1>9. ASSUME NEW t \in Term, CursorOpen(t) \/ CursorAnchor(t) \/ CursorLoad(t) PROVE UNCHANGED fr
  BY <1>9 DEF CursorOpen, CursorAnchor, CursorLoad
<1>10. CASE UniverseLoad \/ OwnersLoad \/ FragmentsBegin \/ FragmentRead \/ FragmentsDone
  <2>1. UNCHANGED fr
    BY <1>10 DEF UniverseLoad, OwnersLoad, FragmentsBegin, FragmentRead, FragmentsDone
  <2> QED BY <1>8, <2>1
<1>11. CASE \/ SeekDone \/ FilterMiss \/ FilterUniverse \/ FilterResolve \/ OwnersFallBack \/ OwnersEmit
            \/ FrontierFails \/ \E stage \in {"done", "owners", "seek"} : ScanGenerations(stage)
  <2>1. SeekDone => (\E s : fr' = [fr EXCEPT !.stage = s]) \/ \E s : fr' = [fr EXCEPT !.target = s]
    BY DEF SeekDone
  <2>2. FilterMiss \/ FilterUniverse \/ FilterResolve => fr' = Advanced
    BY DEF FilterMiss, FilterUniverse, FilterResolve
  <2>3. OwnersFallBack \/ OwnersEmit \/ FrontierFails => \E s : fr' = [fr EXCEPT !.stage = s]
    BY DEF OwnersFallBack, OwnersEmit, FrontierFails
  <2>4. \A stage : ScanGenerations(stage) => fr' = [fr EXCEPT !.stage = stage, !.dictTail = NoBlock]
    BY DEF ScanGenerations
  <2> QED BY <1>3, <1>4, <1>5, <1>6, <1>11, <2>1, <2>2, <2>3, <2>4
<1> QED BY <1>1, <1>2, <1>7, <1>8, <1>9, <1>10, <1>11 DEF ReadStep

(* The anchors stay sound, whoever moves. *)
LEMMA AnchorsStep ==
  ASSUME GroundInv, StoreInv', [FrontierNext]_allVars
  PROVE  AnchorsSound'
<1>0. /\ StoreInv /\ StoreOK /\ BarrierHeld /\ GenSound /\ AnchorsSound /\ ReaderShape
  BY DEF GroundInv, StoreInv
<1> DEFINE Due1 == gen.valid \/ (Open /\ fr.valid)
<1>1. CASE (WriterStep \/ UNCHANGED vars) /\ UNCHANGED <<gen, readVars>>
  <2>1. [Next]_vars
    BY <1>1 DEF WriterStep, Next
  <2>2. Open' = Open /\ fr' = fr /\ gen' = gen
    BY <1>1 DEF Open, readVars
  <2>3. ASSUME gen.valid \/ (Open /\ fr.valid), NEW t \in Term
        PROVE  AnchorAt(t)' /\ (~gen.delta => AnchorLast(t)')
    <3>1. NoRewrite
      BY <1>0, <1>1, <2>3, WriterBarrier
    <3>2. AnchorAt(t) /\ (~gen.delta => AnchorLast(t))
      BY <1>0, <2>3 DEF AnchorsSound
    <3>3. gen'.anchors[t] = gen.anchors[t] /\ gen'.after = gen.after
      BY <2>2
    <3> QED BY <1>0, <2>1, <3>1, <3>2, <3>3, AnchorKept
  <2>4. ASSUME gen.valid, NEW t \in Term, gen.anchors[t].head # NoBlock
        PROVE  gen.anchors[t].head = dict'[t].head
    <3>1. NoRewrite
      BY <1>0, <1>1, <2>4, WriterBarrier
    <3>2. AnchorAt(t) /\ gen.anchors[t].head = dict[t].head
      BY <1>0, <2>4 DEF AnchorsSound
    <3>3. CASE UNCHANGED vars
      BY <3>2, <3>3 DEF vars
    <3>4. ASSUME LinkPromote(t) PROVE ~WriterStep
      <4>1. pc = "link" /\ pc' = "link" /\ heap' = heap /\ crashes' = crashes
            /\ ins' = [ins EXCEPT !.todo = ins.todo \ {t}] /\ t \in ins.todo
        BY <3>4 DEF LinkPromote, LinkReady, Linked
      <4>2. Rewrites
        BY <3>4 DEF Rewrites
      <4>3. ins' # ins
        BY <1>0, <4>1 DEF StoreOK, TypeOK, InsertRecord
      <4> QED BY <2>4, <4>1, <4>2, <4>3
              DEF WriterStep, InsertBegin, VacuumBegin, CompactBegin, Interrupt, Abandoned, HeapDelete
    <3> QED BY <1>0, <1>1, <2>1, <2>4, <3>1, <3>2, <3>3, <3>4, AnchorHeadKept
  <2> QED BY <2>2, <2>3, <2>4 DEF AnchorsSound
<1>2. CASE RebuildGeneration
  <2>1. /\ \A t \in Term : gen'.anchors[t] = AnchorOf(t)
        /\ gen'.after = LastSlot /\ UNCHANGED <<page, dict>> /\ fr.stage = "closed" /\ fr' = fr
        /\ meta'.journal = meta.journal
    <3>1. meta' = [meta EXCEPT !.inc = meta.inc + 1] /\ meta \in MetaRecord
      BY <1>0, <1>2 DEF RebuildGeneration, StoreOK, TypeOK
    <3>2. meta'.journal = meta.journal
      BY <3>1 DEF MetaRecord
    <3> QED BY <1>2, <3>2 DEF RebuildGeneration, readVars
  <2>2. ASSUME NEW t \in Term PROVE AnchorAt(t)' /\ AnchorLast(t)' /\ gen'.anchors[t].head = dict'[t].head
    BY <1>0, <2>1, AnchorMade
  <2> QED BY <2>2 DEF AnchorsSound
<1>3. CASE SealGeneration
  <2>1. gen'.anchors = gen.anchors /\ gen'.delta /\ gen'.valid = gen.valid
    BY <1>0, <1>3, GenSealed
  <2>2. /\ fr.stage = "closed" /\ fr' = fr /\ UNCHANGED <<page, dict>> /\ meta'.journal = meta.journal
    <3>1. meta' = [meta EXCEPT !.inc = meta.inc + 1] /\ meta \in MetaRecord
      BY <1>0, <1>3 DEF SealGeneration, StoreOK, TypeOK
    <3>2. meta'.journal = meta.journal
      BY <3>1 DEF MetaRecord
    <3> QED BY <1>3, <3>2 DEF SealGeneration, readVars
  <2>3. \A t \in Term : ScanPages(t)' = ScanPages(t)
    BY <2>2 DEF ScanPages, Postings, Posts, JournalChain, Chain, Walk
  <2>4. \A t \in Term : AnchorAt(t)' <=> AnchorAt(t)
    BY <2>1, <2>2, <2>3 DEF AnchorAt
  <2> QED BY <1>0, <2>1, <2>2, <2>4 DEF AnchorsSound, Open
<1>4. CASE (RetireGeneration \/ InvalidateFrontier) /\ UNCHANGED <<vars, readVars>>
  <2>1. /\ gen'.anchors = gen.anchors /\ gen'.delta = gen.delta
        /\ gen'.after = gen.after /\ (gen'.valid => gen.valid)
    BY <1>0, <1>4, GenRetired
  <2>2. fr' = fr /\ UNCHANGED <<page, dict, meta>>
    BY <1>4 DEF vars, readVars
  <2>3. \A t \in Term : ScanPages(t)' = ScanPages(t)
    BY <2>2 DEF ScanPages, Postings, Posts, JournalChain, Chain, Walk
  <2>4. \A t \in Term : (AnchorAt(t)' <=> AnchorAt(t)) /\ (AnchorLast(t)' <=> AnchorLast(t))
    BY <2>1, <2>2, <2>3 DEF AnchorAt, AnchorLast
  <2> QED BY <1>0, <2>1, <2>2, <2>4 DEF AnchorsSound, Open
<1>5. CASE ReadStep /\ UNCHANGED <<vars, gen>>
  <2>1. Open' /\ fr'.valid => gen.valid \/ (Open /\ fr.valid)
    <3>1. ASSUME NEW p \in Program, FrontierOpen(p) PROVE fr'.valid => gen.valid
      <4>1. fr'.valid = (gen.valid /\ ~gen.delta)
        BY <3>1, Zenon DEF FrontierOpen
      <4> QED BY <4>1, Zenon
    <3>2. FrontierClose => ~Open'
      BY DEF FrontierClose, NoReader, Open
    <3>3. Open \/ \E p \in Program : FrontierOpen(p)
      BY <1>5, ReadOpens
    <3> QED BY <1>0, <1>5, <3>1, <3>2, <3>3, ReaderKeeps DEF Captures
  <2>2. UNCHANGED <<page, dict, meta, gen>>
    BY <1>5 DEF vars
  <2>3. \A t \in Term : ScanPages(t)' = ScanPages(t)
    BY <2>2 DEF ScanPages, Postings, Posts, JournalChain, Chain, Walk
  <2>4. \A t \in Term : (AnchorAt(t)' <=> AnchorAt(t)) /\ (AnchorLast(t)' <=> AnchorLast(t))
    BY <2>2, <2>3 DEF AnchorAt, AnchorLast
  <2> QED BY <1>0, <2>1, <2>2, <2>4 DEF AnchorsSound
<1> QED BY <1>1, <1>2, <1>3, <1>4, <1>5, FrontierSteps

(* What the reader finds is an invariant. *)
LEMMA GroundInit == FrontierInit => GroundInv
<1> SUFFICES ASSUME FrontierInit PROVE GroundInv
  OBVIOUS
<1>0. StoreInv /\ pc = "idle" /\ gen = NoGeneration /\ fr = NoReader /\ StoreOK
  BY StoreInvInit DEF FrontierInit, Init, ReadInit, StoreInv
<1>1. BarrierHeld
  BY <1>0 DEF BarrierHeld, CompactStages, Open, NoReader, NoGeneration
<1>2. GenSound
  <2>1. gen \in GenRecord
    BY <1>0 DEF NoGeneration, GenRecord, NoAnchor, OwnerOrNone, BlockOrNone
  <2>2. GenFence
    <3>1. \A o \in Owner : owner[o].pub = "None"
      BY DEF FrontierInit, Init, UnusedSlot
    <3>2. 0 < meta.inc
      BY <1>0, BoundAssumption DEF StoreOK, TypeOK, MetaRecord
    <3> QED BY <1>0, <3>1, <3>2 DEF GenFence, NoGeneration, NoOwner
  <2>3. GenHolds
    <3>1. \A o \in Owner : owner[o].pub = "None"
      BY DEF FrontierInit, Init, UnusedSlot
    <3>2. \A o \in Owner : ~Used(o)
      BY <3>1 DEF Used, Live
    <3> QED BY <1>0, <3>2 DEF GenHolds, NoGeneration
  <2> QED BY <2>1, <2>2, <2>3 DEF GenSound
<1>3. AnchorsSound
  BY <1>0 DEF AnchorsSound, NoGeneration, Open, NoReader
<1>4. ReaderShape
  BY <1>0 DEF ReaderShape, NoReader
<1> QED BY <1>0, <1>1, <1>2, <1>3, <1>4 DEF GroundInv

(* And kept. *)
LEMMA GroundStep ==
  ASSUME GroundInv, [FrontierNext]_allVars
  PROVE  GroundInv'
<1>0. StoreInv /\ StoreOK /\ BarrierHeld /\ GenSound /\ gen \in GenRecord /\ ReaderShape
  BY DEF GroundInv, StoreInv, GenSound
<1>1. StoreInv' /\ BarrierHeld'
  BY <1>0, StoreBeside, BarrierStep
<1>2. AnchorsSound'
  BY <1>1, AnchorsStep
<1>3. GenSound'
  <2>1. WriterStep => Next
    BY DEF WriterStep, Next
  <2>2. CASE (WriterStep \/ UNCHANGED vars) /\ gen' = gen
    BY <1>0, <2>1, <2>2, GenBeside
  <2> QED BY <1>0, <2>2, FrontierSteps, GenRebuilt, GenSealed, GenRetired
<1>4. ReaderShape'
  <2>1. RebuildGeneration \/ SealGeneration => fr' = fr
    BY DEF RebuildGeneration, SealGeneration, readVars
  <2>2. UNCHANGED readVars => fr' = fr
    BY DEF readVars
  <2>3. fr' = fr => ReaderShape'
    BY <1>0 DEF ReaderShape
  <2> QED BY <1>0, <2>1, <2>2, <2>3, FrontierSteps, ReaderKeeps
<1> QED BY <1>1, <1>2, <1>3, <1>4 DEF GroundInv

(* An anchor that is sound and at the head of its chain is current. *)
LEMMA GroundCurrent == GroundInv => AnchorsCurrent
<1> SUFFICES ASSUME GroundInv, gen.valid, NEW t \in Term, NEW a, a = gen.anchors[t], a.head # NoBlock
             PROVE  /\ a.head = dict[t].head
                    /\ a.last \in PageRefs(t, a.tail)
                    /\ dict[t].inline # 1 => a.tail \in Chain(dict[t].head, dict[t].tail)
  BY DEF AnchorsCurrent
<1>0. StoreInv /\ StoreOK /\ PostingsSound /\ AnchorsSound
  BY DEF GroundInv, StoreInv
<1>1. AnchorAt(t) /\ a.head = dict[t].head
  BY <1>0 DEF AnchorsSound
<1>2. dict[t].page # NoBlock /\ page[dict[t].page].kind = "Dictionary" /\ EntryValid(dict[t])
      /\ dict[t] \in TermRecord
  BY <1>0, <1>1, TermEntry DEF AnchorAt
<1>3. CASE a.head = dict[t].page
  <2>1. a.tail = a.head /\ dict[t].inline # 0 /\ a.last = dict[t].second
    BY <1>1, <1>3 DEF AnchorAt
  <2>2. dict[t].inline = 1
    BY <1>1, <1>2, <1>3, <2>1 DEF EntryValid, TermRecord
  <2> QED BY <1>1, <1>2, <1>3, <2>1, <2>2 DEF PageRefs
<1>4. CASE a.head # dict[t].page
  <2>1. /\ dict[t].inline # 1 /\ a.tail \in ScanPages(t) /\ a.last \in page[a.tail].refs
    BY <1>1, <1>4 DEF AnchorAt
  <2>2. page[a.tail].kind # "Dictionary"
    BY <1>0, <2>1, PlaceFacts DEF PostingKind
  <2>3. PICK J \in SUBSET Block, S \in SUBSET Block : PostingsHold(J, S)
    BY <1>0 DEF PostingsSound
  <2>4. Chain(dict[t].head, dict[t].tail) = ScanPages(t)
    <3>1. Chain(dict[t].head, dict[t].tail) = Postings(t) \ J
      BY <1>0, <2>1, <2>3, PostingChainIs
    <3>2. JournalChain = J
      BY <1>0, <2>3, PostingChainIs
    <3> QED BY <3>1, <3>2 DEF ScanPages
  <2> QED BY <1>1, <2>1, <2>2, <2>4 DEF PageRefs
<1> QED BY <1>3, <1>4

(* "source pointers are valid only until the first canonical chain         *)
(* rewrite": while the metapage says that they are valid, every anchor     *)
(* leads into the chain of its term, to the last owner of the snapshot.    *)
THEOREM AnchorsAlwaysCurrent == FrontierSpec => []AnchorsCurrent
<1>1. GroundInv /\ [FrontierNext]_allVars => GroundInv'
  BY GroundStep
<1> QED BY <1>1, GroundInit, GroundCurrent, PTL DEF FrontierSpec

(* recover() never refuses the journal of an interrupted rewrite, whatever *)
(* insertions, passes, rebuilds and seals came between: no anchors are     *)
(* valid beside it, and its pages pass every check.                        *)
THEOREM JournalAlwaysRecoverable == FrontierSpec => []JournalRecoverable
<1>1. GroundInv /\ [FrontierNext]_allVars => GroundInv'
  BY GroundStep
<1>2. GroundInv => JournalRecoverable
  BY StoreInvAccepts DEF GroundInv, BarrierHeld, JournalRecoverable, RecoveryAccepts
<1> QED BY <1>1, <1>2, GroundInit, PTL DEF FrontierSpec


-----------------------------------------------------------------------------
(* Where a block stands in its chain *)

(* What stands before the end of a chain whose references ascend is below  *)
(* the end.                                                                *)
LEMMA BelowTail ==
  ASSUME NEW link, NEW S, 0 \notin S, NEW R, Ascends(link, S, R), NEW head, NEW tail,
         Chained(link, S, head, tail), NEW c \in S, c # tail
  PROVE  Below(R, c, tail)
<1>1. PICK k \in Nat : \E s \in [1 .. k -> S] : ChainIs(s, k, link, S, head, tail)
  BY DEF Chained
<1>2. PICK s \in [1 .. k -> S] : ChainIs(s, k, link, S, head, tail)
  BY <1>1
<1>3. Links(s, k, link, S) /\ (k # 0 => tail = s[k])
  BY <1>2 DEF ChainIs
<1>4. PICK i \in 1 .. k : s[i] = c
  BY <1>3 DEF Links
<1>5. k \in 1 .. k /\ i < k /\ s[k] = tail
  BY <1>3, <1>4
<1> QED BY <1>3, <1>4, <1>5, AscendsFar

(* V is the part of a chain behind b: above b, and the rest below.         *)
Divides(link, S, R, head, tail, b, V) ==
  /\ IF b = tail THEN V = {} ELSE Chained(link, V, link[b], tail) /\ link[b] \in V
  /\ b \notin V /\ (b = head => V = S \ {b})
  /\ \A c \in V : Below(R, b, c)
  /\ \A c \in S \ V : c = b \/ Below(R, c, b)

(* Every block of a chain divides it so. *)
LEMMA ChainedBehind ==
  ASSUME NEW link, NEW S, 0 \notin S, NEW R, Ascends(link, S, R), NEW head, NEW tail,
         Chained(link, S, head, tail), NEW b \in S
  PROVE  \E V \in SUBSET S : Divides(link, S, R, head, tail, b, V)
<1>1. CASE b = tail
  <2>1. \A c \in S : c = b \/ Below(R, c, b)
    BY <1>1, BelowTail
  <2>2. b = head => S \ {b} = {}
    <3>1. ASSUME b = head PROVE S \ {head} = {}
      <4>1. head # 0
        BY <3>1
      <4>2. PICK new : new = link
        OBVIOUS
      <4>3. \A c \in S : c # head => new[c] = link[c]
        BY <4>2
      <4>4. head = tail /\ Chained(link, S, head, tail) /\ 0 \notin S
        BY <1>1, <3>1
      <4> QED BY ONLY <4>1, <4>3, <4>4, ChainedPop
    <3> QED BY <3>1
  <2>3. Divides(link, S, R, head, tail, b, {})
    BY <1>1, <2>1, <2>2 DEF Divides
  <2> QED BY <2>3
<1>2. CASE b # tail
  <2>1. link[b] \in S /\ link[b] # 0
    BY <1>2, ChainedFacts
  <2>2. PICK U, V \in SUBSET S : Split(link, S, head, tail, b, U, V)
    BY <2>1, ChainedSplit
  <2>3. /\ U \cup V = S /\ U \cap V = {} /\ b \in U /\ link[b] \in V
        /\ Chained(link, V, link[b], tail)
        /\ \A c \in U, d \in V : Below(R, c, d)
    BY <2>2 DEF Split
  <2>4. PICK cut : cut = [c \in U |-> IF c = b THEN 0 ELSE link[c]]
    OBVIOUS
  <2>5. Chained(cut, U, head, b)
    <3>1. cut[b] = 0 /\ \A c \in U : c # b => cut[c] = link[c]
      BY <2>3, <2>4
    <3> QED BY <2>2, <3>1 DEF Split
  <2>6. Ascends(cut, U, R)
    BY <2>3, <2>4 DEF Ascends
  <2>7. 0 \notin U
    BY <2>3
  <2>8. ASSUME NEW c \in U, c # b PROVE Below(R, c, b)
    BY <2>5, <2>6, <2>7, <2>8, BelowTail
  <2>9. b = head => U = {b}
    <3>1. ASSUME b = head PROVE U \ {head} = {}
      <4>1. head # 0
        BY <2>3, <2>7, <3>1
      <4>2. PICK new : new = cut
        OBVIOUS
      <4>3. \A c \in U : c # head => new[c] = cut[c]
        BY <4>2
      <4> QED BY <2>5, <2>7, <3>1, <4>1, <4>3, ChainedPop
    <3> QED BY <2>3, <3>1
  <2>10. b = head => V = S \ {b}
    BY <2>3, <2>9
  <2>11. \A c \in S \ V : c = b \/ Below(R, c, b)
    BY <2>3, <2>8
  <2>12. b \notin V /\ \A c \in V : Below(R, b, c)
    BY <2>3
  <2> QED BY <1>2, <2>3, <2>10, <2>11, <2>12 DEF Divides
<1> QED BY <1>1, <1>2

-----------------------------------------------------------------------------
(* The pages of a chain that a cursor has still to visit *)

(* A second owner that the dictionary holds or held *)
Entered(t, b) == b = dict[t].page /\ dict[t].inline # 0

(* The pages R from at to a captured tail *)
Run(t, R, at, tail) == R \subseteq ScanPages(t) /\ Chained(Cut(tail), R, at, tail)

PageBelow(b, c) == \A o \in page[b].refs, p \in page[c].refs : o < p

(* Every page of a run but the last leads to another one of it. *)
LEMMA RunFacts ==
  ASSUME StoreInv, NEW t \in Term, NEW R \in SUBSET Block, NEW at, NEW tail, Run(t, R, at, tail),
         at # NoBlock
  PROVE  /\ at \in R /\ tail \in R /\ R \subseteq ScanPages(t) /\ 0 \notin R /\ NoBlock = 0
         /\ \A b \in R : b # tail => page[b].next \in R /\ page[b].next # NoBlock
<1>1. R \subseteq ScanPages(t) /\ 0 \notin R /\ NoBlock = 0 /\ Chained(Cut(tail), R, at, tail)
  BY PlaceFacts DEF Run
<1>2. \A b \in R : b # tail => Cut(tail)[b] = page[b].next
  BY DEF Cut
<1>3. PICK c : c = Cut(tail)
  OBVIOUS
<1>4. /\ at # 0 => at \in R /\ tail \in R
      /\ \A b \in R : b # tail => c[b] \in R
  BY ONLY <1>1, <1>3, ChainedFacts
<1> QED BY <1>1, <1>2, <1>3, <1>4

(* V are the pages of the run behind b. *)
Splits(t, R, at, tail, b, V) ==
  /\ IF b = tail THEN V = {} ELSE Run(t, V, page[b].next, tail)
  /\ b \notin V /\ (b = at => V = R \ {b})
  /\ \A c \in V : PageBelow(b, c)
  /\ \A c \in R \ V : c = b \/ PageBelow(c, b)

(* A run is divided by each of its pages. *)
LEMMA RunBehind ==
  ASSUME StoreInv, NEW t \in Term, NEW R \in SUBSET Block, NEW at, NEW tail, Run(t, R, at, tail),
         at # NoBlock, NEW b \in R
  PROVE  \E V \in SUBSET R : Splits(t, R, at, tail, b, V)
<1>1. /\ at \in R /\ tail \in R /\ R \subseteq ScanPages(t) /\ 0 \notin R /\ NoBlock = 0
      /\ \A c \in R : c # tail => page[c].next \in R /\ page[c].next # NoBlock
  BY RunFacts
<1>2. PICK link : link = Cut(tail)
  OBVIOUS
<1>3. PICK refs : refs = [c \in R |-> page[c].refs]
  OBVIOUS
<1>4. Chained(link, R, at, tail)
  BY <1>2 DEF Run
<1>5. \A c \in R : link[c] = IF c = tail THEN 0 ELSE page[c].next
  BY <1>1, <1>2 DEF Cut
<1>6. Ascends(link, R, refs)
  <2> SUFFICES ASSUME NEW c \in R
               PROVE  /\ refs[c] \subseteq Nat /\ refs[c] # {}
                      /\ link[c] # 0 => \A o \in refs[c], p \in refs[link[c]] : o < p
    BY DEF Ascends
  <2>1. page[c].refs # {} /\ page[c].refs \subseteq Nat
    BY <1>1, PlaceFacts, BoundAssumption DEF Refers, Owner
  <2>2. ASSUME link[c] # 0 PROVE \A o \in refs[c], p \in refs[link[c]] : o < p
    <3>1. c # tail /\ link[c] = page[c].next /\ page[c].next \in R /\ page[c].next # NoBlock
      BY <1>1, <1>5, <2>2
    <3>2. \A o \in page[c].refs, p \in page[page[c].next].refs : o < p
      BY <1>1, <3>1, PlaceFacts
    <3> QED BY <1>3, <3>1, <3>2
  <2> QED BY <1>3, <2>1, <2>2
<1>7. PICK V \in SUBSET R : Divides(link, R, refs, at, tail, b, V)
  BY ONLY <1>1, <1>4, <1>6, b \in R, ChainedBehind
<1>8. /\ IF b = tail THEN V = {} ELSE Chained(link, V, link[b], tail)
      /\ b \notin V /\ (b = at => V = R \ {b})
      /\ \A c \in V : Below(refs, b, c)
      /\ \A c \in R \ V : c = b \/ Below(refs, c, b)
  BY <1>7 DEF Divides
<1>9. \A c, d \in R : Below(refs, c, d) => PageBelow(c, d)
  BY <1>3 DEF Below, PageBelow
<1>10. b # tail => Run(t, V, page[b].next, tail)
  BY <1>1, <1>2, <1>5, <1>8 DEF Run
<1> QED BY <1>8, <1>9, <1>10 DEF Splits

(* The writers beside a reader leave it its run. *)
LEMMA RunKept ==
  ASSUME StoreInv, NEW t \in Term, PagesStay(t), NEW R \in SUBSET Block, NEW at, NEW tail,
         at # NoBlock, Run(t, R, at, tail)
  PROVE  Run(t, R, at, tail)' /\ \A o : Holds(R, o) => Holds(R, o)'
<1>1. /\ at \in R /\ R \subseteq ScanPages(t)
      /\ \A b \in R : b # tail => page[b].next # NoBlock
  BY RunFacts
<1>2. R \subseteq ScanPages(t)' /\ \A b \in R : page[b].refs \subseteq page'[b].refs
  BY <1>1 DEF PagesStay
<1>3. Chained(Cut(tail)', R, at, tail)
  <2>1. PICK c, d : c = Cut(tail) /\ d = Cut(tail)'
    OBVIOUS
  <2>2. \A b \in R : d[b] = c[b]
    BY <1>1, <2>1 DEF Cut, PagesStay
  <2>3. Chained(c, R, at, tail)
    BY <2>1 DEF Run
  <2>4. Chained(d, R, at, tail)
    BY ONLY <2>2, <2>3, ChainedSame
  <2> QED BY <2>1, <2>4
<1>4. \A o : Holds(R, o) => Holds(R, o)'
  BY <1>2 DEF Holds
<1> QED BY <1>2, <1>3, <1>4 DEF Run

-----------------------------------------------------------------------------
(* What else the reader finds of the page file *)

(* The second owner stays in the entry after its promotion, behind the     *)
(* first.                                                                  *)
SecondAbove ==
  \A t \in Term : dict[t].inline # 0 =>
    dict[t].page # NoBlock /\ Refers(t, dict[t].second) /\ dict[t].first < dict[t].second

SlotsUnused == \A o \in Owner : owner[o].pub = "None" => owner[o].page = NoBlock

(* Later slots are on later owner pages. *)
SlotsAscend ==
  \A o, q \in Owner : owner[o].pub # "None" /\ owner[q].pub # "None" /\ o < q =>
    owner[o].page <= owner[q].page

Paged == DictBelow /\ SecondAbove /\ SlotsUnused /\ SlotsAscend

(* What a step does to an entry with a second owner *)
LEMMA SecondSteps ==
  ASSUME StoreInv, [Next]_vars, NEW t \in Term
  PROVE  \/ dict'[t].inline = 0
         \/ /\ dict[t].inline # 0 /\ dict'[t].second = dict[t].second
            /\ dict'[t].page = dict[t].page /\ dict'[t].first = dict[t].first
         \/ /\ LinkInline(t) /\ dict'[t].second = ins.owner
            /\ dict'[t].page = dict[t].page /\ dict'[t].first = dict[t].first
<1>0. /\ StoreOK /\ NamesWritten /\ OwnersChained /\ DictChained /\ PostingsSound
      /\ dict \in [Term -> TermRecord]
  BY DEF StoreInv, StoreOK, TypeOK
<1> DEFINE Fine == \/ dict'[t].inline = 0
                   \/ /\ dict[t].inline # 0 /\ dict'[t].second = dict[t].second
                      /\ dict'[t].page = dict[t].page /\ dict'[t].first = dict[t].first
                   \/ /\ LinkInline(t) /\ dict'[t].second = ins.owner
                      /\ dict'[t].page = dict[t].page /\ dict'[t].first = dict[t].first
<1>1. dict'[t] = dict[t] => Fine
  OBVIOUS
<1>2. ASSUME NEW u \in Term, u # t, LinkTerm(u) PROVE dict'[t] = dict[t]
  BY <1>0, <1>2, LinkOther
<1>3. ASSUME LinkTerm(t) PROVE Fine
  <2>1. CASE LinkFirstTerm(t) \/ LinkNewTerm(t) \/ LinkNewTermNextPage(t)
    <3>1. \E b : dict'[t] = NewEntry(b, ins.owner)
      BY <1>0, <2>1, LinkBatch DEF EntryPut
    <3> QED BY <3>1 DEF NewEntry
  <2>2. CASE LinkPromote(t)
    <3>1. dict[t].inline = 1 /\ dict'[t] = Promoted(dict[t], blk)
      BY <1>0, <2>2, LinkBatch DEF EntryPut
    <3> QED BY <3>1 DEF Promoted
  <2>3. CASE LinkInline(t)
    <3>1. dict'[t] = WithSecond(dict[t], ins.owner)
      BY <1>0, <2>3, LinkBatch DEF EntryPut
    <3> QED BY <2>3, <3>1 DEF WithSecond
  <2>4. CASE LinkFirstPosting(t) \/ LinkNextPage(t)
    <3>1. dict'[t] \in {WithChain(dict[t], blk, blk), WithChain(dict[t], dict[t].head, blk)}
      BY <1>0, <2>4, LinkBatch DEF EntryPut
    <3>2. /\ dict'[t].page = dict[t].page /\ dict'[t].first = dict[t].first
          /\ dict'[t].second = dict[t].second /\ dict'[t].inline = dict[t].inline
      BY <1>0, <3>1 DEF WithChain, TermRecord
    <3> QED BY <3>2
  <2>5. CASE LinkAppend(t)
    <3>1. UNCHANGED dict
      BY <1>0, <2>5, LinkBatch
    <3> QED BY <1>1, <3>1
  <2> QED BY <1>3, <2>1, <2>2, <2>3, <2>4, <2>5 DEF LinkTerm
<1>4. ASSUME NEW u \in Term, CompactInline(u) PROVE Fine
  <2>1. dict' = [dict EXCEPT ![u] = WithoutSecond(dict[u])]
    BY <1>4 DEF CompactInline
  <2>2. WithoutSecond(dict[u]).inline = 0
    BY DEF WithoutSecond, NewEntry
  <2> QED BY <1>0, <1>1, <2>1, <2>2
<1>5. CASE PublishReplacement
  <2>1. \E h, l : dict' = [dict EXCEPT ![cpt.term] = WithChain(dict[cpt.term], h, l)]
    BY <1>5 DEF PublishReplacement, Replacement
  <2>2. /\ dict'[t].page = dict[t].page /\ dict'[t].first = dict[t].first
        /\ dict'[t].second = dict[t].second /\ dict'[t].inline = dict[t].inline
    BY <1>0, <2>1 DEF WithChain, TermRecord
  <2> QED BY <2>2
<1>6. CASE PersistReused \/ PersistAllocated \/ Recover
  <2>1. dict' = dict
    BY <1>6 DEF PersistReused, PersistAllocated, PersistOutput, Recover, RecoverOne, RecoverTwo
  <2> QED BY <1>1, <2>1
<1> QED BY <1>0, <1>1, <1>2, <1>3, <1>4, <1>5, <1>6, QuietEntries, StepClasses

(* A second owner is linked after the first. *)
LEMMA SecondAboveStep ==
  ASSUME StoreInv, SecondAbove, [Next]_vars
  PROVE  SecondAbove'
<1>0. StoreOK /\ TypeOK /\ MetapageCurrent /\ InsertSound
  BY DEF StoreInv, StoreOK, ImageCurrent
<1> SUFFICES ASSUME NEW t \in Term, dict'[t].inline # 0
             PROVE  /\ dict'[t].page # NoBlock /\ Refers(t, dict[t].second)'
                    /\ dict'[t].first < dict'[t].second
  BY DEF SecondAbove
<1>1. \A o : Refers(t, o) => Refers(t, o)'
  BY <1>0, SlotsStayStep, RefersKept
<1>2. CASE /\ dict[t].inline # 0 /\ dict'[t].second = dict[t].second
           /\ dict'[t].page = dict[t].page /\ dict'[t].first = dict[t].first
  BY <1>1, <1>2 DEF SecondAbove, Refers
<1>3. CASE /\ LinkInline(t) /\ dict'[t].second = ins.owner
           /\ dict'[t].page = dict[t].page /\ dict'[t].first = dict[t].first
  <2>1. pc = "link" /\ t \in ins.todo /\ dict[t].page # NoBlock
    BY <1>0, <1>3, LinkBatch DEF TermLinked
  <2>2. ins.owner \in Owner
    BY <1>0, <1>3, LinkFacts DEF LinkInline
  <2>3. Refers(t, ins.owner)
    BY <1>0, <2>1, <2>2 DEF InsertSound, Refers
  <2>4. dict[t].first < ins.owner
    BY <2>1, TargetAbove DEF Reached
  <2> QED BY <1>1, <1>3, <2>1, <2>3, <2>4 DEF Refers
<1> QED BY <1>2, <1>3, SecondSteps

(* A slot has its page from its reservation on. *)
LEMMA SlotsUnusedStep ==
  ASSUME StoreInv, SlotsUnused, [Next]_vars
  PROVE  SlotsUnused'
<1>0. StoreOK /\ TypeOK
  BY DEF StoreInv, StoreOK
<1> SUFFICES ASSUME NEW o \in Owner, owner'[o].pub = "None" PROVE owner'[o].page = NoBlock
  BY DEF SlotsUnused
<1>1. owner[o].page = NoBlock
  BY <1>0, SlotGrowth DEF SlotsUnused
<1>2. CASE Reserve
  <2>1. o # meta.inc
    BY <1>0, <1>2, ReserveBatch
  <2> QED BY <1>0, <1>1, <1>2, <2>1, ReserveBatch
<1>3. CASE ~Reserve
  BY <1>0, <1>1, <1>3, SlotNames
<1> QED BY <1>2, <1>3

(* A slot is reserved on the last owner page. *)
LEMMA SlotsAscendStep ==
  ASSUME StoreInv, StoreInv', SlotsAscend, [Next]_vars
  PROVE  SlotsAscend'
<1>0. StoreOK /\ TypeOK /\ ImageCurrent /\ SlotsOnOwnerPages' /\ OwnerPagesAscend'
  BY DEF StoreInv, StoreOK, RootInv
<1> SUFFICES ASSUME NEW o \in Owner, NEW q \in Owner, owner'[o].pub # "None", owner'[q].pub # "None",
                    o < q
             PROVE  owner'[o].page <= owner'[q].page
  BY DEF SlotsAscend
<1>1. \A p \in {o, q} : IF owner[p].pub # "None" THEN owner'[p].page = owner[p].page /\ p < meta.inc
                        ELSE p = meta.inc
  BY <1>0, SlotGrowth
<1>2. CASE owner[o].pub # "None" /\ owner[q].pub # "None"
  BY <1>1, <1>2 DEF SlotsAscend
<1>3. CASE owner[q].pub = "None"
  <2>1. Reserve /\ q = m.inc
    BY <1>0, <1>3, SlotFacts
  <2>2. owner'[q].page = meta'.ownerTail
    BY <1>0, <1>1, <1>3, <2>1, ReserveBatch
  <2>3. owner'[o].page <= meta'.ownerTail
    BY <1>0 DEF SlotsOnOwnerPages, OwnerPagesAscend, IsOwnerPage
  <2> QED BY <2>2, <2>3
<1>4. CASE owner[o].pub = "None" /\ owner[q].pub # "None"
  <2>1. o = meta.inc /\ q < meta.inc /\ meta.inc \in Nat
    BY <1>0, <1>1, <1>4, CounterGrows
  <2> QED BY <2>1, BoundAssumption DEF Owner
<1> QED BY <1>2, <1>3, <1>4

(* So every step keeps where slots and entries are. *)
LEMMA PagedStep ==
  ASSUME StoreInv, StoreInv', Paged, [FrontierNext]_allVars
  PROVE  Paged'
<1>1. CASE [Next]_vars
  BY <1>1, DictBelowStep, SecondAboveStep, SlotsUnusedStep, SlotsAscendStep DEF Paged
<1>2. CASE Numbered
  <2>1. meta'.dictTail = meta.dictTail
    BY <1>2 DEF Numbered, StoreInv, StoreOK, TypeOK, MetaRecord
  <2>2. dict' = dict /\ owner' = owner
    BY <1>2 DEF Numbered
  <2> QED BY <2>1, <2>2 DEF Paged, DictBelow, SecondAbove, Refers, SlotsUnused, SlotsAscend
<1> QED BY <1>1, <1>2, PageFileSteps

(* An empty index has neither slots nor entries. *)
LEMMA PagedInit == Init => Paged
<1> SUFFICES ASSUME Init PROVE Paged
  OBVIOUS
<1>1. \A t \in Term : dict[t] = NoEntry
  BY DEF Init
<1>2. \A o \in Owner : owner[o] = UnusedSlot
  BY DEF Init
<1>3. meta.dictTail = NoBlock /\ NoBlock <= NoBlock
  BY DEF Init, EmptyMeta, NoBlock
<1> QED BY <1>1, <1>2, <1>3 DEF Paged, DictBelow, SecondAbove, SlotsUnused, SlotsAscend, NoEntry, UnusedSlot

(* The owner pages are linked in the order of their blocks. *)
LEMMA OwnerNext ==
  ASSUME StoreInv, NEW b \in Block, page[b].kind = "Owners", b # meta.ownerTail
  PROVE  /\ page[b].next \in Block /\ page[page[b].next].kind = "Owners" /\ b < page[b].next
         /\ \A c \in Block : page[c].kind = "Owners" /\ b < c => page[b].next <= c
<1>0. /\ OwnersChained /\ OwnerPagesAscend /\ TypeOK
      /\ Block \subseteq Nat /\ 0 \notin Block
  BY BoundAssumption DEF StoreInv, StoreOK, RootInv, Block
<1>1. PICK S : S = Kind("Owners")
  OBVIOUS
<1>2. PICK head, tail, link : head = meta.ownerHead /\ tail = meta.ownerTail /\ link = Link
  OBVIOUS
<1>3. S \subseteq Block /\ 0 \notin S /\ Chained(link, S, head, tail) /\ NoBlock = 0
  BY <1>0, <1>1, <1>2, LinkFacts2 DEF OwnersChained
<1>4. /\ \A c \in S : c # tail => link[c] \in S
      /\ \A c \in S : link[c] # head
      /\ \A c, d \in S : link[c] = link[d] /\ link[c] # 0 => c = d
  BY <1>3, ChainedFacts
<1>5. \A c \in S : /\ head <= c /\ c <= tail
                   /\ c # tail => \A d \in S : c < d => link[c] <= d
  BY <1>0, <1>1, <1>2, LinkFacts2 DEF OwnerPagesAscend, Kind
<1>6. head \in S /\ tail \in S
  <2>1. b \in S
    BY <1>1 DEF Kind
  <2> QED BY <1>3, <2>1, ChainedFacts
<1> DEFINE Bad == {c \in S : c # tail /\ link[c] <= c}
<1>7. Bad = {}
  <2>1. SUFFICES ASSUME Bad # {} PROVE FALSE
    OBVIOUS
  <2>2. PICK x \in Bad : \A y \in Bad : x <= y
    BY <1>0, <1>3, <2>1, LeastElement
  <2>3. PICK l : l = link[x]
    OBVIOUS
  <2>4. x \in S /\ x # tail /\ l <= x /\ l \in S /\ l # head
    BY <1>4, <2>2, <2>3
  <2>5. \A c \in S : c \in Nat /\ c # 0
    BY <1>0, <1>3
  <2>6. head < l
    BY <1>5, <1>6, <2>4, <2>5
  <2> DEFINE Gaps == {l - c : c \in {d \in S : d < l}}
  <2>7. Gaps \subseteq Nat /\ l - head \in Gaps
    BY <1>6, <2>4, <2>5, <2>6
  <2>8. PICK g \in Gaps : \A h \in Gaps : g <= h
    <3>1. Gaps # {}
      BY <2>7
    <3> HIDE DEF Gaps
    <3> QED BY <2>7, <3>1, LeastElement
  <2>9. PICK p \in S : p < l /\ g = l - p
    BY <2>8
  <2>10. \A c \in S : c < l => c <= p
    <3>1. ASSUME NEW c \in S, c < l PROVE c <= p
      <4>1. l - c \in Gaps
        BY <3>1
      <4>2. l - p <= l - c
        BY <2>8, <2>9, <4>1
      <4> QED BY <2>4, <2>5, <2>9, <4>2
    <3> QED BY <3>1
  <2> HIDE DEF Gaps
  <2>11. p # tail /\ link[p] \in S /\ link[p] <= l
    BY <1>4, <1>5, <2>4, <2>5, <2>9
  <2>12. link[p] > p
    <3>1. p \notin Bad
      BY <2>2, <2>4, <2>5, <2>9
    <3> QED BY <2>5, <2>9, <2>11, <3>1
  <2>13. link[p] = l
    BY <2>4, <2>5, <2>9, <2>10, <2>11, <2>12
  <2>14. p = x
    BY <1>4, <2>3, <2>4, <2>5, <2>13
  <2> QED BY <2>4, <2>5, <2>9, <2>14
<1>8. b \in S /\ link[b] = page[b].next
  BY <1>0, <1>1, <1>2, LinkFacts2 DEF Kind
<1>9. link[b] \in S /\ ~(link[b] <= b)
  BY <1>2, <1>4, <1>7, <1>8
<1>10. b < link[b]
  <2>1. PICK n : n = link[b]
    OBVIOUS
  <2>2. n \in Nat /\ b \in Nat /\ ~(n <= b)
    BY <1>0, <1>3, <1>9, <2>1
  <2>3. b < n
    BY <2>2
  <2> QED BY <2>1, <2>3
<1>11. \A c \in Block : page[c].kind = "Owners" => c \in S
  BY <1>1 DEF Kind
<1>12. page[link[b]].kind = "Owners"
  BY <1>1, <1>9 DEF Kind
<1> QED BY <1>2, <1>3, <1>5, <1>8, <1>9, <1>10, <1>11, <1>12

-----------------------------------------------------------------------------
(* The reader's invariant *)

ReadStages == {"terms", "seek", "filter", "owners", "done", "error"}

(* What it captured of the metapage, and how far it is *)
ReadFacts ==
  /\ fr.prog \in Program /\ fr.stage \in ReadStages
  /\ fr.id = gen.id /\ fr.id # NoOwner /\ fr.after = gen.after
  /\ fr.todo \subseteq Names(fr.prog)
  /\ fr.target \in Nat /\ fr.id < fr.target
  /\ fr.next \in Nat /\ fr.id < fr.next /\ fr.next <= meta.inc
  /\ fr.valid => ~gen.delta
  /\ fr.stage \in {"terms", "owners"} => fr.target = fr.id + 1 /\ emitted = {}
  /\ fr.stage = "terms" => sealed = {}
  /\ fr.stage # "terms" => fr.todo = {}
  /\ known \subseteq Owner
  /\ \A o \in known : o < fr.next /\ owner[o].pub = "Published"

(* The cursors.  K are the documents of t that are to be found. *)
CursorRecord == [first : OwnerOrNone, head : BlockOrNone, tail : BlockOrNone,
                 shadow : BOOLEAN, opened : BOOLEAN, anchored : BOOLEAN,
                 refs : SUBSET OwnerOrNone, last : OwnerOrNone, at : BlockOrNone]

KnownOf(t) == {o \in known : t \in owner[o].doc.terms}

(* find_term() will find the entry, and the entry leads to o. *)
Listed(t, o) ==
  /\ dict[t].page # NoBlock /\ dict[t].page <= fr.dictTail
  /\ \/ o = dict[t].first
     \/ dict[t].inline = 1 /\ o = dict[t].second
     \/ Holds(ScanPages(t), o)

(* The captured chain is R: it leads to K and to the anchor. *)
CapturedRun(t, c, K, R) ==
  /\ Run(t, R, c.head, c.tail)
  /\ \A o \in K : o = c.first \/ Holds(R, o)
  /\ fr.valid /\ gen.anchors[t].head = c.head => gen.anchors[t].tail \in R

Captured(t, c, K) ==
  IF c.first = NoOwner THEN K = {}
  ELSE /\ dict[t].page # NoBlock /\ c.first = dict[t].first
       /\ fr.valid /\ gen.anchors[t].head # NoBlock => gen.anchors[t].head = c.head \/ c.shadow
       /\ IF c.head = NoBlock THEN K \subseteq {c.first}
          ELSE \/ /\ Entered(t, c.head) /\ c.tail = c.head
                  /\ K \subseteq {c.first, dict[t].second}
               \/ \E R \in SUBSET Block : CapturedRun(t, c, K, R)

Waiting(c) ==
  ~c.opened /\ ~c.anchored /\ c.refs = {} /\ c.last = NoOwner /\ c.at = NoBlock

Anchored(c) ==
  /\ c.opened /\ c.anchored /\ c.refs = {} /\ c.last = c.first /\ c.at = NoBlock
  /\ fr.valid /\ c.first # NoOwner /\ c.first < fr.id /\ c.head # NoBlock

(* What is due, D, is on the pages to come, behind what has been handed    *)
(* out.                                                                    *)
Placed(t, c, D) ==
  /\ \A o \in c.refs : Refers(t, o) /\ o <= c.last
  /\ IF c.at = NoBlock THEN D = {}
     ELSE /\ dict[t].page # NoBlock /\ Reached(t, c.last)
          /\ \/ /\ Entered(t, c.at) /\ c.at = c.tail /\ c.last < dict[t].second
                /\ D \subseteq {dict[t].second}
             \/ \E R \in SUBSET Block :
                  /\ Run(t, R, c.at, c.tail)
                  /\ \A b \in R : \A o \in page[b].refs : c.last < o
                  /\ \A o \in D : Holds(R, o)

Owing(c, K) == {o \in K : o >= fr.target /\ o \notin c.refs}

CursorAt(t, c, K) ==
  IF fr.stage = "terms" /\ t \in fr.todo THEN c = NoCursor /\ \A o \in K : Listed(t, o)
  ELSE /\ Captured(t, c, K)
       /\ \/ Waiting(c)
          \/ fr.stage # "terms" /\ Anchored(c)
          \/ fr.stage # "terms" /\ c.opened /\ ~c.anchored /\ Placed(t, c, Owing(c, K))

CursorsSound == \A t \in Names(fr.prog) : CursorAt(t, cur[t], KnownOf(t))

(* The walk over the owner pages *)
WalkFacts ==
  /\ \A o \in known : owner[o].page <= fr.ownerTail
  /\ fr.after = NoOwner /\ known # {} => fr.ownerHead # NoBlock
  /\ fr.after # NoOwner => owner[fr.after].pub # "None" /\ owner[fr.after].page <= fr.ownerTail
  /\ fr.ownerHead # NoBlock =>
       IsOwnerPage(fr.ownerHead) /\ IsOwnerPage(fr.ownerTail) /\ fr.ownerHead = meta.ownerHead
  /\ fr.ownerHead = NoBlock => fr.ownerTail = NoBlock
  /\ own.at # NoBlock => IsOwnerPage(own.at) /\ own.at <= fr.ownerTail

Fits(o) == Matches(fr.prog, owner[o].doc.terms)

(* The live documents beyond the fence, and those on pages to come *)
Beyonds == {o \in known : fr.after < o /\ Live(o)}
Coming(o) == own.at # NoBlock /\ own.at <= owner[o].page

Outside(o) == o \in Owner /\ fr.after < o /\ owner[o].pub # "None"

(* The reader of a payload is where the next fragment is. *)
PayloadAt(o, index, frag) ==
  /\ index \in 0 .. owner[o].doc.frags
  /\ Live(o) => IF index = owner[o].doc.frags THEN frag = NoBlock
                ELSE frag \in Fragments(o) /\ page[frag].index = index

OwnersSound ==
  /\ \A o \in own.out : Outside(o) /\ Fits(o)
  /\ \A s \in own.left : /\ Outside(s.owner) /\ owner[s.owner].pub = "Published"
                         /\ owner[s.owner].doc.frags > 0
                         /\ Live(s.owner) => s.head = owner[s.owner].head
  /\ own.owner # NoOwner =>
       /\ Outside(own.owner) /\ owner[own.owner].pub = "Published"
       /\ PayloadAt(own.owner, own.index, own.frag)
  /\ \A o \in Beyonds : \/ o \in own.out \/ o = own.owner \/ Coming(o) \/ ~Fits(o)
                        \/ \E s \in own.left : o = s.owner

UniverseSound ==
  /\ own.owner = NoOwner
  /\ \A o \in own.left : /\ o \in Owner /\ owner[o].pub # "None"
                         /\ own.at # NoBlock => owner[o].page < own.at
  /\ \A o \in Beyonds : o >= fr.target /\ Fits(o) => o \in own.left \/ Coming(o)

WalkSound ==
  /\ WalkFacts
  /\ fr.stage = "terms" => own = NoOwners
  /\ fr.stage = "owners" => OwnersSound
  /\ fr.stage \in {"seek", "filter"} => UniverseSound
  /\ fr.stage = "error" =>
       own.owner \in Owner /\ owner[own.owner].pub = "Published" /\ ~Live(own.owner)

CopySound == \A o \in known : Live(o) /\ o \in img.slots => o \in img.live

(* The answer *)
Pledged(o) ==
  fr.after < o /\ (fr.stage = "owners" \/ (fr.stage \in {"seek", "filter"} /\ fr.target <= o))

Answered ==
  /\ \A o \in sealed : o \in Owner /\ o <= fr.after
  /\ \A o \in emitted : fr.after < o
  /\ \A o \in known \cap (sealed \cup emitted) : Fits(o)
  /\ fr.stage \in {"seek", "filter", "owners", "done"} =>
       \A o \in known : Used(o) /\ Fits(o) => o \in sealed \cup emitted \/ Pledged(o)

OwnShape ==
  own = [at |-> own.at, left |-> own.left, owner |-> own.owner, frag |-> own.frag,
         index |-> own.index, out |-> own.out]

Closed ==
  /\ fr = NoReader /\ cur = [t \in Term |-> NoCursor] /\ own = NoOwners /\ img = NoCopy
  /\ sealed = {} /\ emitted = {} /\ known = {}

ReaderSound ==
  /\ cur \in [Term -> CursorRecord] /\ OwnShape
  /\ ~Open => Closed
  /\ Open => ReadFacts /\ CursorsSound /\ WalkSound /\ CopySound /\ Answered

FrontierInv == GroundInv /\ Paged /\ ReaderSound

-----------------------------------------------------------------------------
(* What a program computes *)

(* Induction over the nodes of a program *)
LEMMA NodeInduction ==
  ASSUME NEW n \in Nat, NEW S,
         \A i \in 1 .. n : (\A j \in 1 .. n : j < i => j \in S) => i \in S
  PROVE  1 .. n \subseteq S
<1> DEFINE T == (1 .. n) \ S
<1> SUFFICES ASSUME T # {} PROVE FALSE
  OBVIOUS
<1>1. T \subseteq Nat
  OBVIOUS
<1>2. PICK x \in T : \A y \in T : x <= y
  BY <1>1, LeastElement
<1>3. ASSUME NEW j \in 1 .. n, j < x PROVE j \in S
  BY <1>1, <1>2, <1>3
<1> QED BY <1>2, <1>3

(* f is computed from node to node, from two nodes before each. *)
Computes(f, n, v0, l, r, step) ==
  f[0] = v0 /\ \A i \in 1 .. n : f[i] = step[i][f[l[i]]][f[r[i]]]

Earlier(l, r, n) ==
  l \in [1 .. n -> Nat] /\ r \in [1 .. n -> Nat] /\ \A i \in 1 .. n : l[i] < i /\ r[i] < i

(* A function that is computed so exists. *)
LEMMA TreeExists ==
  ASSUME NEW n \in Nat, NEW V, NEW v0 \in V, NEW l, NEW r, Earlier(l, r, n),
         NEW step \in [1 .. n -> [V -> [V -> V]]]
  PROVE  \E f \in [0 .. n -> V] : Computes(f, n, v0, l, r, step)
<1>0. l \in [1 .. n -> Nat] /\ r \in [1 .. n -> Nat] /\ \A i \in 1 .. n : l[i] < i /\ r[i] < i
  BY DEF Earlier
<1> DEFINE Fine(f, k) == f[0] = v0 /\ \A i \in 1 .. k : f[i] = step[i][f[l[i]]][f[r[i]]]
           Good(k) == \E f \in [0 .. k -> V] : Fine(f, k)
           S == {k \in Nat : k <= n => Good(k)}
<1>1. Good(0)
  <2> DEFINE f == [i \in 0 .. 0 |-> v0]
  <2>1. f \in [0 .. 0 -> V] /\ Fine(f, 0)
    OBVIOUS
  <2> QED BY <2>1
<1>2. ASSUME NEW k \in Nat, k + 1 <= n, Good(k) PROVE Good(k + 1)
  <2>1. PICK f \in [0 .. k -> V] : Fine(f, k)
    BY <1>2
  <2>2. PICK a, b : a = l[k + 1] /\ b = r[k + 1]
    OBVIOUS
  <2>3. k + 1 \in 1 .. n
    BY <1>2
  <2>4. a \in 0 .. k /\ b \in 0 .. k
    BY <1>0, <2>2, <2>3
  <2>5. PICK new : new = step[k + 1][f[a]][f[b]]
    OBVIOUS
  <2>6. new \in V
    BY <2>3, <2>4, <2>5
  <2> DEFINE g == [i \in 0 .. (k + 1) |-> IF i = k + 1 THEN new ELSE f[i]]
  <2>7. g \in [0 .. (k + 1) -> V]
    BY <2>6
  <2>8. g[k + 1] = new /\ \A i \in 0 .. k : g[i] = f[i]
    OBVIOUS
  <2> HIDE DEF g
  <2>9. g[0] = v0
    BY <2>1, <2>8
  <2>10. ASSUME NEW i \in 1 .. (k + 1) PROVE g[i] = step[i][g[l[i]]][g[r[i]]]
    <3>1. i \in 1 .. n /\ l[i] \in 0 .. k /\ r[i] \in 0 .. k
      BY <1>0, <1>2
    <3>2. g[l[i]] = f[l[i]] /\ g[r[i]] = f[r[i]]
      BY <2>8, <3>1
    <3>3. CASE i = k + 1
      BY <2>2, <2>5, <2>8, <3>2, <3>3
    <3>4. CASE i \in 1 .. k
      BY <2>1, <2>8, <3>2, <3>4
    <3> QED BY <3>3, <3>4
  <2> QED BY <2>7, <2>9, <2>10
<1> HIDE DEF Good
<1>3. 0 \in S
  BY <1>1
<1>4. ASSUME NEW k \in Nat, k \in S PROVE k + 1 \in S
  BY <1>2, <1>4
<1>5. Nat \subseteq S
  <2> HIDE DEF S
  <2> QED BY <1>3, <1>4, SetInduction
<1>6. Good(n)
  BY <1>5
<1> QED BY <1>6 DEF Good, Computes

(* A node is a term or applies to nodes before it. *)
Nodes(p) ==
  /\ Len(p) \in Nat /\ Len(p) \in 1 .. Len(p)
  /\ \A i \in 1 .. Len(p) :
       \/ p[i].op = "Term" /\ p[i].term \in Names(p) /\ p[i].left = 0 /\ p[i].right = 0
       \/ /\ p[i].op \in {"And", "Or"}
          /\ p[i].left \in 1 .. (i - 1) /\ p[i].right \in 1 .. (i - 1)
       \/ p[i].op = "Not" /\ p[i].left \in 1 .. (i - 1) /\ p[i].right = 0

(* validate_program() leaves no other nodes, and terms of the dictionary. *)
LEMMA ProgramIs ==
  ASSUME NEW p \in Program
  PROVE  Nodes(p) /\ Names(p) \subseteq Term
<1>1. p \in Seq(Node) /\ p # <<>>
  BY ProgramAssumption DEF WellFormed
<1>2. Len(p) \in Nat /\ Len(p) # 0
  BY <1>1
<1>3. ASSUME NEW i \in 1 .. Len(p)
      PROVE  /\ \/ /\ p[i].op = "Term" /\ p[i].term \in Term /\ p[i].left = 0 /\ p[i].right = 0
                \/ /\ p[i].op \in {"And", "Or"}
                   /\ p[i].left \in 1 .. (i - 1) /\ p[i].right \in 1 .. (i - 1)
                \/ p[i].op = "Not" /\ p[i].left \in 1 .. (i - 1) /\ p[i].right = 0
             /\ p[i].term \in Term \cup {NoTerm}
  <2>1. \/ \E t \in Term : p[i] = TermNode(t)
        \/ \E l, r \in 1 .. (i - 1) : p[i] \in {AndNode(l, r), OrNode(l, r), NotNode(l)}
    BY ProgramAssumption DEF WellFormed
  <2>2. ASSUME NEW t \in Term, p[i] = TermNode(t)
        PROVE  p[i].op = "Term" /\ p[i].term = t /\ p[i].left = 0 /\ p[i].right = 0
    BY <2>2 DEF TermNode
  <2>3. ASSUME NEW l \in 1 .. (i - 1), NEW r \in 1 .. (i - 1), p[i] = AndNode(l, r)
        PROVE  p[i].op = "And" /\ p[i].term = NoTerm /\ p[i].left = l /\ p[i].right = r
    BY <2>3 DEF AndNode
  <2>4. ASSUME NEW l \in 1 .. (i - 1), NEW r \in 1 .. (i - 1), p[i] = OrNode(l, r)
        PROVE  p[i].op = "Or" /\ p[i].term = NoTerm /\ p[i].left = l /\ p[i].right = r
    BY <2>4 DEF OrNode
  <2>5. ASSUME NEW l \in 1 .. (i - 1), p[i] = NotNode(l)
        PROVE  p[i].op = "Not" /\ p[i].term = NoTerm /\ p[i].left = l /\ p[i].right = 0
    BY <2>5 DEF NotNode
  <2> QED BY <2>1, <2>2, <2>3, <2>4, <2>5
<1>4. Names(p) \subseteq Term
  BY <1>3 DEF Names
<1>5. \A i \in 1 .. Len(p) : p[i].term \in Term => p[i].term \in Names(p)
  BY NullAssumption DEF Names
<1> QED BY <1>2, <1>3, <1>4, <1>5 DEF Nodes

(* The children of a node, in the form the recursion needs *)
Lefts(p) == [i \in 1 .. Len(p) |-> p[i].left]
Rights(p) == [i \in 1 .. Len(p) |-> p[i].right]

(* They come before the node. *)
LEMMA ChildrenAre ==
  ASSUME NEW p, Nodes(p)
  PROVE  Earlier(Lefts(p), Rights(p), Len(p))
<1>1. ASSUME NEW i \in 1 .. Len(p)
      PROVE  p[i].left \in Nat /\ p[i].right \in Nat /\ p[i].left < i /\ p[i].right < i
  BY DEF Nodes
<1> QED BY <1>1 DEF Lefts, Rights, Earlier

(* The values of the nodes of matches() *)
Evaluates(v, p, S) ==
  \A i \in 1 .. Len(p) :
    /\ p[i].op = "Term" => (v[i] <=> p[i].term \in S)
    /\ p[i].op = "And" => (v[i] <=> v[p[i].left] /\ v[p[i].right])
    /\ p[i].op = "Or" => (v[i] <=> v[p[i].left] \/ v[p[i].right])
    /\ p[i].op = "Not" => (v[i] <=> ~v[p[i].left])

(* matches() computes them. *)
LEMMA MatchesIs ==
  ASSUME NEW p \in Program, NEW S
  PROVE  \E v : Evaluates(v, p, S) /\ (Matches(p, S) <=> v[Len(p)])
<1> DEFINE E(f, i) == \/ p[i].op = "Term" /\ p[i].term \in S
                      \/ p[i].op = "And"  /\ f[p[i].left] /\ f[p[i].right]
                      \/ p[i].op = "Or"   /\ (f[p[i].left] \/ f[p[i].right])
                      \/ p[i].op = "Not"  /\ ~f[p[i].left]
           c == CHOOSE f : f = [i \in 1 .. Len(p) |-> E(f, i)]
<1>1. Matches(p, S) = c[Len(p)]
  BY DEF Matches
<1>2. Nodes(p)
  BY ProgramIs
<1>3. PICK n \in Nat : Len(p) = n
  BY <1>2 DEF Nodes
<1> DEFINE Apply(i, a, b) == \/ p[i].op = "Term" /\ p[i].term \in S
                             \/ p[i].op = "And"  /\ a /\ b
                             \/ p[i].op = "Or"   /\ (a \/ b)
                             \/ p[i].op = "Not"  /\ ~a
           step == [i \in 1 .. n |-> [a \in BOOLEAN |-> [b \in BOOLEAN |-> Apply(i, a, b)]]]
<1>5. \A i, a, b : Apply(i, a, b) \in BOOLEAN
  OBVIOUS
<1>6. step \in [1 .. n -> [BOOLEAN -> [BOOLEAN -> BOOLEAN]]]
  <2> HIDE DEF Apply
  <2> QED BY <1>5
<1>7. \E f \in [0 .. n -> BOOLEAN] : Computes(f, n, TRUE, Lefts(p), Rights(p), step)
  <2>1. Earlier(Lefts(p), Rights(p), n)
    BY <1>2, <1>3, ChildrenAre
  <2> HIDE DEF step
  <2> QED BY <1>6, <2>1, TreeExists
<1>8. PICK f \in [0 .. n -> BOOLEAN] :
        \A i \in 1 .. n : f[i] = step[i][f[Lefts(p)[i]]][f[Rights(p)[i]]]
  <2> HIDE DEF step
  <2> QED BY <1>7 DEF Computes
<1> DEFINE g == [i \in 1 .. n |-> f[i]]
<1>9. ASSUME NEW i \in 1 .. n PROVE g[i] = E(g, i)
  <2>1. PICK a, b : a = f[p[i].left] /\ b = f[p[i].right]
    OBVIOUS
  <2>2. a \in BOOLEAN /\ b \in BOOLEAN
    BY <1>2, <1>3, <2>1 DEF Nodes
  <2>3. g[i] = step[i][a][b]
    BY <1>3, <1>8, <2>1 DEF Lefts, Rights
  <2>4. p[i].op # "Term" => g[p[i].left] = a
    BY <1>2, <1>3, <2>1 DEF Nodes
  <2>5. p[i].op \in {"And", "Or"} => g[p[i].right] = b
    BY <1>2, <1>3, <2>1 DEF Nodes
  <2>6. step[i][a][b] = Apply(i, a, b)
    BY <2>2, Zenon
  <2>7. p[i].op \in {"Term", "And", "Or", "Not"}
    BY <1>2, <1>3 DEF Nodes
  <2> HIDE DEF step, g
  <2>8. Apply(i, a, b) = E(g, i)
    BY <2>4, <2>5, <2>7
  <2> QED BY <2>3, <2>6, <2>8, Zenon
<1>10. c = [i \in 1 .. Len(p) |-> E(c, i)]
  <2>1. g = [i \in 1 .. Len(p) |-> E(g, i)]
    <3>1. g = [i \in 1 .. n |-> g[i]]
      OBVIOUS
    <3> HIDE DEF g, E
    <3> QED BY <1>3, <1>9, <3>1, Zenon
  <2> HIDE DEF g, E
  <2> QED BY <2>1, Zenon
<1>11. \A i \in 1 .. Len(p) : c[i] = E(c, i)
  <2> HIDE DEF c, E
  <2> QED BY <1>10
<1>12. Evaluates(c, p, S)
  <2> HIDE DEF c
  <2>1. ASSUME NEW i \in 1 .. Len(p)
        PROVE  /\ p[i].op = "Term" => (c[i] <=> (p[i].term \in S))
               /\ p[i].op = "And" => (c[i] <=> (c[p[i].left] /\ c[p[i].right]))
               /\ p[i].op = "Or" => (c[i] <=> (c[p[i].left] \/ c[p[i].right]))
               /\ p[i].op = "Not" => (c[i] <=> ~c[p[i].left])
    <3>1. c[i] = E(c, i)
      BY <1>11
    <3> QED BY <3>1
  <2> QED BY <2>1 DEF Evaluates
<1> HIDE DEF c
<1> QED BY <1>1, <1>12, Zenon

(* The terms below the nodes *)
Gathers(b, p) ==
  \A i \in 1 .. Len(p) :
    /\ p[i].op = "Term" => b[i] = {p[i].term}
    /\ p[i].op = "Not" => b[i] = {}
    /\ p[i].op \in {"And", "Or"} => b[i] = b[p[i].left] \cup b[p[i].right]

(* The seek terms are the terms of the program that are gathered. *)
LEMMA SeekTermsAre ==
  ASSUME NEW p \in Program
  PROVE  /\ \E b : Gathers(b, p) /\ SeekTerms(p) = b[Len(p)]
         /\ SeekTerms(p) \subseteq Names(p)
<1> DEFINE E(f, i) == IF p[i].op = "Term" THEN {p[i].term}
                      ELSE IF p[i].op = "Not" THEN {}
                      ELSE f[p[i].left] \cup f[p[i].right]
           c == CHOOSE f : f = [i \in 1 .. Len(p) |-> E(f, i)]
<1>1. SeekTerms(p) = c[Len(p)]
  BY DEF SeekTerms
<1>2. Nodes(p)
  BY ProgramIs
<1>3. PICK n \in Nat : Len(p) = n
  BY <1>2 DEF Nodes
<1>4. PICK V : V = SUBSET Names(p)
  OBVIOUS
<1> DEFINE Apply(i, a, b) == IF p[i].op = "Term" THEN {p[i].term}
                             ELSE IF p[i].op = "Not" THEN {}
                             ELSE a \cup b
           step == [i \in 1 .. n |-> [a \in V |-> [b \in V |-> Apply(i, a, b)]]]
<1>5. \A i \in 1 .. n, a, b \in V : Apply(i, a, b) \in V
  BY <1>2, <1>3, <1>4 DEF Nodes
<1>6. step \in [1 .. n -> [V -> [V -> V]]] /\ {} \in V
  <2> HIDE DEF Apply
  <2> QED BY <1>4, <1>5
<1>7. \E f \in [0 .. n -> V] : Computes(f, n, {}, Lefts(p), Rights(p), step)
  <2>1. Earlier(Lefts(p), Rights(p), n)
    BY <1>2, <1>3, ChildrenAre
  <2> HIDE DEF step
  <2> QED BY <1>6, <2>1, TreeExists
<1>8. PICK f \in [0 .. n -> V] :
        \A i \in 1 .. n : f[i] = step[i][f[Lefts(p)[i]]][f[Rights(p)[i]]]
  <2> HIDE DEF step
  <2> QED BY <1>7 DEF Computes
<1> DEFINE g == [i \in 1 .. n |-> f[i]]
<1>9. ASSUME NEW i \in 1 .. n PROVE g[i] = E(g, i)
  <2>1. PICK a, b : a = f[p[i].left] /\ b = f[p[i].right]
    OBVIOUS
  <2>2. a \in V /\ b \in V
    BY <1>2, <1>3, <2>1 DEF Nodes
  <2>3. g[i] = step[i][a][b]
    <3>1. g[i] = f[i] /\ Lefts(p)[i] = p[i].left /\ Rights(p)[i] = p[i].right
      BY <1>3 DEF Lefts, Rights
    <3> HIDE DEF step, g
    <3> QED BY <1>8, <2>1, <3>1
  <2>4. p[i].op \notin {"Term", "Not"} => g[p[i].left] = a /\ g[p[i].right] = b
    BY <1>2, <1>3, <2>1 DEF Nodes
  <2>6. step[i][a][b] = Apply(i, a, b)
    BY <2>2, Zenon
  <2> HIDE DEF step, g
  <2>8. Apply(i, a, b) = E(g, i)
    BY <2>4
  <2> QED BY <2>3, <2>6, <2>8, Zenon
<1>10. c = [i \in 1 .. Len(p) |-> E(c, i)]
  <2>1. g = [i \in 1 .. Len(p) |-> E(g, i)]
    <3>1. g = [i \in 1 .. n |-> g[i]]
      OBVIOUS
    <3> HIDE DEF g, E
    <3> QED BY <1>3, <1>9, <3>1, Zenon
  <2> HIDE DEF g, E
  <2> QED BY <2>1, Zenon
<1>11. \A i \in 1 .. Len(p) : c[i] = E(c, i)
  <2> HIDE DEF c, E
  <2> QED BY <1>10
<1>12. Gathers(c, p)
  <2> HIDE DEF c
  <2> QED BY <1>11 DEF Gathers
<1> HIDE DEF c
<1>13. c[Len(p)] \subseteq Names(p)
  <2> DEFINE S == {i \in 1 .. n : c[i] \subseteq Names(p)}
  <2>1. ASSUME NEW i \in 1 .. n, \A j \in 1 .. n : j < i => j \in S PROVE i \in S
    BY <1>2, <1>3, <1>12, <2>1 DEF Nodes, Gathers
  <2>2. 1 .. n \subseteq S
    <3> HIDE DEF S
    <3> QED BY <2>1, NodeInduction
  <2> QED BY <1>2, <1>3, <2>2 DEF Nodes
<1> QED BY <1>1, <1>12, <1>13

(* The larger and the smaller of two *)
LEMMA PairIs ==
  ASSUME NEW a \in Nat, NEW b \in Nat
  PROVE  /\ Max({a, b}) \in {a, b} /\ a <= Max({a, b}) /\ b <= Max({a, b})
         /\ Min({a, b}) \in {a, b} /\ Min({a, b}) <= a /\ Min({a, b}) <= b
<1>1. \E x \in {a, b} : \A y \in {a, b} : x >= y
  OBVIOUS
<1>2. Max({a, b}) \in {a, b} /\ \A y \in {a, b} : Max({a, b}) >= y
  BY <1>1 DEF Max
<1>3. \E x \in {a, b} : \A y \in {a, b} : x <= y
  OBVIOUS
<1>4. Min({a, b}) \in {a, b} /\ \A y \in {a, b} : Min({a, b}) <= y
  BY <1>3 DEF Min
<1> QED BY <1>2, <1>4

(* The bounds of the nodes *)
Bounds(b, p, current, target) ==
  \A i \in 1 .. Len(p) :
    /\ b[i] \in Nat
    /\ p[i].op = "Term" => b[i] = current[p[i].term]
    /\ p[i].op = "Not" => b[i] = target
    /\ p[i].op \in {"And", "Or"} =>
         LET l == b[p[i].left]
             r == b[p[i].right]
         IN  IF l = 0 \/ r = 0 THEN b[i] = IF p[i].op = "And" THEN 0 ELSE l + r
             ELSE /\ b[i] \in {l, r}
                  /\ IF p[i].op = "And" THEN l <= b[i] /\ r <= b[i] ELSE b[i] <= l /\ b[i] <= r

(* lower_bound() computes them. *)
LEMMA LowerBoundIs ==
  ASSUME NEW p \in Program, NEW current, \A t \in Term : current[t] \in Nat, NEW target \in Nat
  PROVE  \E b : Bounds(b, p, current, target) /\ LowerBound(p, current, target) = b[Len(p)]
<1> DEFINE Apply(i, l, r) == IF p[i].op = "Term" THEN current[p[i].term]
                             ELSE IF p[i].op = "Not" THEN target
                             ELSE IF l = 0 \/ r = 0 THEN IF p[i].op = "And" THEN 0 ELSE l + r
                             ELSE IF p[i].op = "And" THEN Max({l, r}) ELSE Min({l, r})
           E(f, i) == Apply(i, IF p[i].left = 0 THEN 0 ELSE f[p[i].left],
                               IF p[i].right = 0 THEN 0 ELSE f[p[i].right])
           c == CHOOSE f : f = [i \in 1 .. Len(p) |-> E(f, i)]
<1>1. LowerBound(p, current, target) = c[Len(p)]
  BY DEF LowerBound
<1>2. Nodes(p) /\ Names(p) \subseteq Term
  BY ProgramIs
<1>3. PICK n \in Nat : Len(p) = n
  BY <1>2 DEF Nodes
<1> DEFINE step == [i \in 1 .. n |-> [a \in Nat |-> [b \in Nat |-> Apply(i, a, b)]]]
<1>5. ASSUME NEW i \in 1 .. n, NEW a \in Nat, NEW b \in Nat PROVE Apply(i, a, b) \in Nat
  <2>1. Max({a, b}) \in Nat /\ Min({a, b}) \in Nat /\ a + b \in Nat
    BY PairIs
  <2>2. p[i].op = "Term" => current[p[i].term] \in Nat
    BY <1>2, <1>3 DEF Nodes
  <2> QED BY <2>1, <2>2
<1>6. step \in [1 .. n -> [Nat -> [Nat -> Nat]]]
  <2> HIDE DEF Apply
  <2> QED BY <1>5
<1>7. \E f \in [0 .. n -> Nat] : Computes(f, n, 0, Lefts(p), Rights(p), step)
  <2>1. Earlier(Lefts(p), Rights(p), n)
    BY <1>2, <1>3, ChildrenAre
  <2> HIDE DEF step
  <2> QED BY <1>6, <2>1, TreeExists
<1>8. PICK f \in [0 .. n -> Nat] :
        f[0] = 0 /\ \A i \in 1 .. n : f[i] = step[i][f[Lefts(p)[i]]][f[Rights(p)[i]]]
  <2> HIDE DEF step
  <2> QED BY <1>7 DEF Computes
<1> DEFINE g == [i \in 1 .. n |-> f[i]]
<1>9. ASSUME NEW i \in 1 .. n PROVE g[i] = E(g, i)
  <2>1. PICK a, b : a = f[p[i].left] /\ b = f[p[i].right]
    OBVIOUS
  <2>2. /\ p[i].left \in 0 .. n /\ p[i].right \in 0 .. n
        /\ p[i].left = 0 \/ p[i].left \in 1 .. n
        /\ p[i].right = 0 \/ p[i].right \in 1 .. n
    BY <1>2, <1>3 DEF Nodes
  <2>3. a \in Nat /\ b \in Nat
    BY <2>1, <2>2
  <2>4. g[i] = step[i][a][b]
    BY <1>3, <1>8, <2>1 DEF Lefts, Rights
  <2>5. /\ a = IF p[i].left = 0 THEN 0 ELSE g[p[i].left]
        /\ b = IF p[i].right = 0 THEN 0 ELSE g[p[i].right]
    BY <1>8, <2>1, <2>2
  <2> HIDE DEF Apply
  <2>6. step[i][a][b] = Apply(i, a, b)
    BY <2>3
  <2> HIDE DEF step, g
  <2>8. Apply(i, a, b) = E(g, i)
    BY <2>5
  <2> QED BY <2>4, <2>6, <2>8
<1>10. c = [i \in 1 .. Len(p) |-> E(c, i)]
  <2>1. g = [i \in 1 .. Len(p) |-> E(g, i)]
    <3>1. g = [i \in 1 .. n |-> g[i]]
      OBVIOUS
    <3> HIDE DEF g, E
    <3> QED BY <1>3, <1>9, <3>1, Zenon
  <2> HIDE DEF g, E
  <2> QED BY <2>1, Zenon
<1>11. \A i \in 1 .. n : c[i] = E(c, i)
  <2> HIDE DEF c, E
  <2> QED BY <1>3, <1>10
<1> HIDE DEF c
<1>12. ASSUME NEW i \in 1 .. n
       PROVE  /\ p[i].op = "Term" => c[i] = current[p[i].term]
              /\ p[i].op = "Not" => c[i] = target
              /\ p[i].op \in {"And", "Or"} => c[i] = Apply(i, c[p[i].left], c[p[i].right])
  <2>1. c[i] = E(c, i)
    BY <1>11
  <2>2. p[i].op \in {"And", "Or"} => p[i].left # 0 /\ p[i].right # 0
    BY <1>2, <1>3 DEF Nodes
  <2>3. p[i].op \in {"And", "Or"} => E(c, i) = Apply(i, c[p[i].left], c[p[i].right])
    <3> HIDE DEF Apply
    <3> QED BY <2>2
  <2>4. /\ p[i].op = "Term" => E(c, i) = current[p[i].term]
        /\ p[i].op = "Not" => E(c, i) = target
    OBVIOUS
  <2> HIDE DEF E, Apply
  <2> QED BY <2>1, <2>3, <2>4
<1>13. 1 .. n \subseteq {i \in 1 .. n : c[i] \in Nat}
  <2> DEFINE S == {i \in 1 .. n : c[i] \in Nat}
  <2>1. ASSUME NEW i \in 1 .. n, \A j \in 1 .. n : j < i => j \in S PROVE i \in S
    <3> HIDE DEF Apply
    <3>1. CASE p[i].op = "Term"
      BY <1>2, <1>3, <1>12, <3>1 DEF Nodes
    <3>2. CASE p[i].op = "Not"
      BY <1>12, <3>2
    <3>3. CASE p[i].op \in {"And", "Or"}
      <4>1. p[i].left \in S /\ p[i].right \in S
        BY <1>2, <1>3, <2>1, <3>3 DEF Nodes
      <4>2. PICK l, r : l = c[p[i].left] /\ r = c[p[i].right]
        OBVIOUS
      <4>3. c[i] = Apply(i, l, r)
        BY <1>12, <3>3, <4>2
      <4>4. l \in Nat /\ r \in Nat
        BY <4>1, <4>2
      <4> QED BY <1>5, <4>3, <4>4
    <3> QED BY <1>2, <1>3, <3>1, <3>2, <3>3 DEF Nodes
  <2>2. 1 .. n \subseteq S
    <3> HIDE DEF S
    <3> QED BY <2>1, NodeInduction
  <2> QED BY <2>2
<1>14. Bounds(c, p, current, target)
  <2> SUFFICES ASSUME NEW i \in 1 .. n
               PROVE  /\ c[i] \in Nat
                      /\ p[i].op = "Term" => c[i] = current[p[i].term]
                      /\ p[i].op = "Not" => c[i] = target
                      /\ p[i].op \in {"And", "Or"} =>
                           LET l == c[p[i].left]
                               r == c[p[i].right]
                           IN  IF l = 0 \/ r = 0 THEN c[i] = IF p[i].op = "And" THEN 0 ELSE l + r
                               ELSE /\ c[i] \in {l, r}
                                    /\ IF p[i].op = "And" THEN l <= c[i] /\ r <= c[i]
                                       ELSE c[i] <= l /\ c[i] <= r
    BY <1>3 DEF Bounds
  <2>1. CASE p[i].op \in {"And", "Or"}
    <3>1. PICK l, r : l = c[p[i].left] /\ r = c[p[i].right]
      OBVIOUS
    <3>2. l \in Nat /\ r \in Nat
      <4> HIDE DEF Apply
      <4>1. p[i].left \in 1 .. n /\ p[i].right \in 1 .. n
        BY <1>2, <1>3, <2>1 DEF Nodes
      <4> QED BY <1>13, <3>1, <4>1
    <3>3. c[i] = Apply(i, l, r)
      <4> HIDE DEF Apply
      <4> QED BY <1>12, <2>1, <3>1
    <3>4. /\ Max({l, r}) \in {l, r} /\ l <= Max({l, r}) /\ r <= Max({l, r})
          /\ Min({l, r}) \in {l, r} /\ Min({l, r}) <= l /\ Min({l, r}) <= r
      BY <3>2, PairIs
    <3>5. p[i].op # "Term" /\ p[i].op # "Not"
      BY <2>1
    <3>6. c[i] = IF l = 0 \/ r = 0 THEN IF p[i].op = "And" THEN 0 ELSE l + r
                 ELSE IF p[i].op = "And" THEN Max({l, r}) ELSE Min({l, r})
      BY <3>3, <3>5
    <3> HIDE DEF Apply
    <3> QED BY <1>13, <3>1, <3>4, <3>5, <3>6
  <2>2. CASE p[i].op \in {"Term", "Not"}
    BY <1>12, <1>13, <2>2
  <2> QED BY <1>2, <1>3, <2>1, <2>2 DEF Nodes
<1> QED BY <1>1, <1>14

(* Only the terms it names decide whether a program matches. *)
LEMMA MatchesNamed ==
  ASSUME NEW p \in Program, NEW S, NEW T, \A t \in Names(p) : t \in S <=> t \in T
  PROVE  Matches(p, S) <=> Matches(p, T)
<1>1. Nodes(p)
  BY ProgramIs
<1>2. PICK n \in Nat : Len(p) = n /\ n \in 1 .. n
  BY <1>1 DEF Nodes
<1>3. PICK v : Evaluates(v, p, S) /\ (Matches(p, S) <=> v[n])
  BY <1>2, MatchesIs
<1>4. PICK w : Evaluates(w, p, T) /\ (Matches(p, T) <=> w[n])
  BY <1>2, MatchesIs
<1> DEFINE G == {i \in 1 .. n : v[i] <=> w[i]}
<1>5. ASSUME NEW i \in 1 .. n, \A j \in 1 .. n : j < i => j \in G PROVE i \in G
  <2>1. p[i].op \in {"And", "Or", "Not"} => p[i].left \in G
    BY <1>1, <1>2, <1>5 DEF Nodes
  <2>2. p[i].op \in {"And", "Or"} => p[i].right \in G
    BY <1>1, <1>2, <1>5 DEF Nodes
  <2>3. CASE p[i].op = "Term"
    <3>1. p[i].term \in Names(p)
      BY <1>1, <1>2, <2>3 DEF Nodes
    <3> QED BY <1>2, <1>3, <1>4, <2>3, <3>1 DEF Evaluates
  <2>4. CASE p[i].op = "And"
    BY <1>2, <1>3, <1>4, <2>1, <2>2, <2>4 DEF Evaluates
  <2>5. CASE p[i].op = "Or"
    BY <1>2, <1>3, <1>4, <2>1, <2>2, <2>5 DEF Evaluates
  <2>6. CASE p[i].op = "Not"
    BY <1>2, <1>3, <1>4, <2>1, <2>6 DEF Evaluates
  <2> QED BY <1>1, <1>2, <2>3, <2>4, <2>5, <2>6 DEF Nodes
<1>6. 1 .. n \subseteq G
  <2> HIDE DEF G
  <2> QED BY <1>5, NodeInduction
<1> QED BY <1>2, <1>3, <1>4, <1>6

(* A lower bound is not below the target. *)
LEMMA LowerBoundFacts ==
  ASSUME NEW p \in Program, NEW current, NEW target \in Nat,
         \A t \in Term : current[t] \in Nat /\ (current[t] = 0 \/ target <= current[t])
  PROVE  LET b == LowerBound(p, current, target) IN b \in Nat /\ (b = 0 \/ target <= b)
<1>1. Nodes(p) /\ Names(p) \subseteq Term
  BY ProgramIs
<1>2. PICK n \in Nat : Len(p) = n /\ n \in 1 .. n
  BY <1>1 DEF Nodes
<1>3. PICK b : Bounds(b, p, current, target) /\ LowerBound(p, current, target) = b[n]
  BY <1>2, LowerBoundIs
<1> DEFINE G == {i \in 1 .. n : b[i] = 0 \/ target <= b[i]}
<1>4. \A i \in 1 .. n : b[i] \in Nat
  BY <1>2, <1>3 DEF Bounds
<1>5. ASSUME NEW i \in 1 .. n, \A j \in 1 .. n : j < i => j \in G PROVE i \in G
  <2>1. CASE p[i].op = "Term"
    BY <1>1, <1>2, <1>3, <2>1 DEF Nodes, Bounds
  <2>2. CASE p[i].op = "Not"
    BY <1>2, <1>3, <2>2 DEF Bounds
  <2>3. CASE p[i].op \in {"And", "Or"}
    <3>1. PICK l, r : l = p[i].left /\ r = p[i].right
      OBVIOUS
    <3>2. l \in G /\ r \in G /\ l \in 1 .. n /\ r \in 1 .. n
      BY <1>1, <1>2, <1>5, <2>3, <3>1 DEF Nodes
    <3>3. b[i] = 0 \/ b[i] = b[l] \/ b[i] = b[r]
      <4>1. IF b[l] = 0 \/ b[r] = 0 THEN b[i] = IF p[i].op = "And" THEN 0 ELSE b[l] + b[r]
            ELSE b[i] \in {b[l], b[r]}
        BY <1>2, <1>3, <2>3, <3>1 DEF Bounds
      <4>2. b[l] \in Nat /\ b[r] \in Nat
        BY <1>4, <3>2
      <4> QED BY <4>1, <4>2
    <3> QED BY <3>2, <3>3
  <2> QED BY <1>1, <1>2, <2>1, <2>2, <2>3 DEF Nodes
<1>6. 1 .. n \subseteq G
  <2> HIDE DEF G
  <2> QED BY <1>5, NodeInduction
<1> QED BY <1>2, <1>3, <1>4, <1>6

(* No match is below the lower bound, if every cursor of a seek term that  *)
(* the document has is at the document or before it.                       *)
LEMMA LowerBoundBelow ==
  ASSUME NEW p \in Program, NEW current, NEW target \in Nat, target # 0,
         \A t \in Term : current[t] \in Nat,
         NEW o \in Nat, target <= o, NEW S, Matches(p, S),
         \A t \in SeekTerms(p) : t \in S => current[t] # 0 /\ current[t] <= o
  PROVE  LET b == LowerBound(p, current, target) IN b # 0 /\ b <= o
<1>1. Nodes(p) /\ Names(p) \subseteq Term
  BY ProgramIs
<1>2. PICK n \in Nat : Len(p) = n /\ n \in 1 .. n
  BY <1>1 DEF Nodes
<1>3. PICK b : Bounds(b, p, current, target) /\ LowerBound(p, current, target) = b[n]
  BY <1>2, LowerBoundIs
<1>4. PICK v : Evaluates(v, p, S) /\ v[n]
  BY <1>2, MatchesIs
<1>5. PICK s : Gathers(s, p) /\ SeekTerms(p) = s[n]
  BY <1>2, SeekTermsAre
<1> DEFINE Low(i) == (\A t \in s[i] : t \in S => current[t] # 0 /\ current[t] <= o) /\ v[i]
                       => b[i] # 0 /\ b[i] <= o
           G == {i \in 1 .. n : Low(i)}
<1>6. ASSUME NEW i \in 1 .. n, \A j \in 1 .. n : j < i => j \in G PROVE i \in G
  <2>1. CASE p[i].op = "Term"
    <3>1. s[i] = {p[i].term} /\ (v[i] <=> p[i].term \in S) /\ b[i] = current[p[i].term]
      BY <1>2, <1>3, <1>4, <1>5, <2>1 DEF Gathers, Evaluates, Bounds
    <3> QED BY <3>1
  <2>2. CASE p[i].op = "Not"
    <3>1. b[i] = target
      BY <1>2, <1>3, <2>2 DEF Bounds
    <3> QED BY <3>1
  <2>3. CASE p[i].op \in {"And", "Or"}
    <3>1. PICK l, r : l = p[i].left /\ r = p[i].right
      OBVIOUS
    <3>2. l \in G /\ r \in G
      BY <1>1, <1>2, <1>6, <2>3, <3>1 DEF Nodes
    <3>3. PICK x, y, z : x = b[l] /\ y = b[r] /\ z = b[i]
      OBVIOUS
    <3>4. x \in Nat /\ y \in Nat /\ z \in Nat
      BY <1>2, <1>3, <3>2, <3>3 DEF Bounds
    <3>5. s[i] = s[l] \cup s[r]
      BY <1>2, <1>5, <2>3, <3>1 DEF Gathers
    <3>6. IF x = 0 \/ y = 0 THEN z = IF p[i].op = "And" THEN 0 ELSE x + y
          ELSE /\ z \in {x, y}
               /\ IF p[i].op = "And" THEN x <= z /\ y <= z ELSE z <= x /\ z <= y
      BY <1>2, <1>3, <2>3, <3>1, <3>3 DEF Bounds
    <3>7. SUFFICES ASSUME \A t \in s[i] : t \in S => current[t] # 0 /\ current[t] <= o, v[i]
                   PROVE  z # 0 /\ z <= o
      BY <3>3
    <3>8. /\ v[l] => x # 0 /\ x <= o
          /\ v[r] => y # 0 /\ y <= o
      BY <3>2, <3>3, <3>5, <3>7
    <3>9. IF p[i].op = "And" THEN v[l] /\ v[r] ELSE v[l] \/ v[r]
      BY <1>2, <1>4, <2>3, <3>1, <3>7 DEF Evaluates
    <3> QED BY <3>4, <3>6, <3>8, <3>9
  <2> QED BY <1>1, <1>2, <2>1, <2>2, <2>3 DEF Nodes
<1>7. 1 .. n \subseteq G
  <2> HIDE DEF G
  <2> QED BY <1>6, NodeInduction
<1> QED BY <1>2, <1>3, <1>4, <1>5, <1>7

(* The first of some of its terms is one of them. *)
LEMMA FirstNamedIs ==
  ASSUME NEW p \in Program, NEW T \in SUBSET Names(p), T # {}
  PROVE  FirstNamed(p, T) \in T
<1> DEFINE I == {i \in 1 .. Len(p) : p[i].term \in T}
<1>1. Len(p) \in Nat
  BY ProgramIs DEF Nodes
<1>2. I \subseteq Nat /\ I # {}
  BY <1>1 DEF Names
<1>3. Min(I) \in I
  BY <1>2, MinIs
<1> QED BY <1>3 DEF FirstNamed

-----------------------------------------------------------------------------
(* The writers beside the reader *)

(* A published slot stays what it was, and its document can only die. *)
LEMMA KnownSlot ==
  ASSUME StoreInv, [Next]_vars, NEW o \in Owner, owner[o].pub = "Published"
  PROVE  /\ owner'[o].pub = "Published" /\ owner'[o].doc = owner[o].doc
         /\ owner'[o].page = owner[o].page /\ owner'[o].root = owner[o].root
         /\ Live(o)' => Live(o) /\ owner'[o].head = owner[o].head
         /\ Used(o)' => Used(o)
<1>0. StoreOK /\ TypeOK /\ ImageCurrent
  BY DEF StoreInv, StoreOK
<1>1. Publish => owner[ins.owner].pub = "FragmentsWritten"
  BY DEF Publish, CanChange
<1>2. Live(o)' => Live(o)
  BY <1>0, <1>1, SlotFacts
<1>3. Live(o)' => owner'[o].head = owner[o].head
  BY <1>0, <1>2, LiveSlot
<1>4. Used(o)' => Used(o)
  BY <1>1, UsedStep
<1> QED BY <1>0, <1>2, <1>3, <1>4, SlotGrowth

(* An entry that will be found is found later. *)
LEMMA ListedKept ==
  ASSUME StoreInv, StoreInv', NoRewrite, [Next]_vars, NEW t \in Term, NEW o, Listed(t, o),
         fr'.dictTail = fr.dictTail
  PROVE  Listed(t, o)'
<1>1. PagesStay(t) /\ EntryStays(t) /\ EntryGrows(t)
  BY TermStays, EntryGrowth
<1>2. dict[t].page # NoBlock /\ dict'[t].page = dict[t].page /\ dict'[t].first = dict[t].first
  BY <1>1 DEF Listed, EntryStays
<1>3. CASE o = dict[t].first
  BY <1>2, <1>3 DEF Listed
<1>4. CASE dict[t].inline = 1 /\ o = dict[t].second
  <2>1. CASE dict'[t] = dict[t]
    BY <1>2, <1>4, <2>1 DEF Listed
  <2>2. CASE Holds(ScanPages(t), dict[t].second)'
    <3>1. dict'[t].second = dict[t].second
      BY <1>1, <1>4 DEF EntryStays
    <3> QED BY <1>2, <1>4, <2>2, <3>1 DEF Listed, Holds
  <2>3. dict'[t] = dict[t] \/ Holds(ScanPages(t), o)'
    <3>1. dict'[t].second = dict[t].second
      BY <1>1, <1>4 DEF EntryStays
    <3> QED BY <1>1, <1>4, <3>1 DEF EntryGrows, Holds
  <2>4. CASE Holds(ScanPages(t), o)'
    BY <1>2, <2>4 DEF Listed
  <2> QED BY <2>1, <2>3, <2>4
<1>5. CASE Holds(ScanPages(t), o)
  <2>1. Holds(ScanPages(t), o)'
    BY <1>1, <1>5 DEF Holds, PagesStay
  <2> QED BY <1>2, <2>1 DEF Listed
<1> QED BY <1>3, <1>4, <1>5 DEF Listed

(* A captured chain leads where it led. *)
LEMMA CapturedKept ==
  ASSUME StoreInv, StoreInv', NoRewrite, [Next]_vars, NEW t \in Term, NEW c, NEW K,
         fr'.valid = fr.valid, gen'.anchors = gen.anchors, Captured(t, c, K)
  PROVE  Captured(t, c, K)'
<1>1. PagesStay(t) /\ EntryStays(t)
  BY TermStays
<1>2. CASE c.first = NoOwner
  BY <1>2 DEF Captured
<1>3. CASE c.first # NoOwner
  <2>1. /\ dict[t].page # NoBlock /\ c.first = dict[t].first
        /\ fr.valid /\ gen.anchors[t].head # NoBlock => gen.anchors[t].head = c.head \/ c.shadow
    BY <1>3 DEF Captured
  <2>2. dict'[t].page = dict[t].page /\ dict'[t].first = dict[t].first
    BY <1>1, <2>1 DEF EntryStays
  <2>3. CASE c.head = NoBlock
    BY <1>3, <2>1, <2>2, <2>3 DEF Captured
  <2>4. CASE c.head # NoBlock /\ Entered(t, c.head) /\ c.tail = c.head /\ K \subseteq {c.first, dict[t].second}
    <3>1. Entered(t, c.head)' /\ dict'[t].second = dict[t].second
      BY <1>1, <2>2, <2>4 DEF Entered, EntryStays
    <3> QED BY <1>3, <2>1, <2>2, <2>4, <3>1 DEF Captured
  <2>5. ASSUME c.head # NoBlock, NEW R \in SUBSET Block, CapturedRun(t, c, K, R)
        PROVE  Captured(t, c, K)'
    <3>1. Run(t, R, c.head, c.tail)' /\ \A o : Holds(R, o) => Holds(R, o)'
      BY <1>1, <2>5, RunKept DEF CapturedRun
    <3>2. CapturedRun(t, c, K, R)'
      BY <2>5, <3>1 DEF CapturedRun
    <3> QED BY <1>3, <2>1, <2>2, <2>5, <3>2 DEF Captured
  <2> QED BY <1>3, <2>3, <2>4, <2>5 DEF Captured
<1> QED BY <1>2, <1>3

(* A cursor goes on with what it had to go on with; an appended owner      *)
(* comes behind all that was handed out.                                   *)
LEMMA PlacedKept ==
  ASSUME StoreInv, StoreInv', NoRewrite, [Next]_vars, NEW t \in Term, NEW c, NEW D,
         Placed(t, c, D)
  PROVE  Placed(t, c, D)'
<1>0. StoreOK /\ PagesStay(t) /\ EntryStays(t)
  BY TermStays DEF StoreInv
<1>1. \A o : Refers(t, o) => Refers(t, o)'
  BY <1>0, SlotsStayStep, RefersKept
<1>2. \A o \in c.refs : Refers(t, o)' /\ o <= c.last
  BY <1>1 DEF Placed
<1>3. CASE c.at = NoBlock
  BY <1>2, <1>3 DEF Placed
<1>4. CASE c.at # NoBlock
  <2>1. dict[t].page # NoBlock /\ Reached(t, c.last)
    BY <1>4 DEF Placed
  <2>2. dict'[t].page = dict[t].page /\ dict'[t].first = dict[t].first
    BY <1>0, <2>1 DEF EntryStays
  <2>3. Reached(t, c.last)'
    BY <1>0, <2>1, <2>2 DEF Reached, Holds, PagesStay
  <2>4. CASE Entered(t, c.at) /\ c.at = c.tail /\ c.last < dict[t].second /\ D \subseteq {dict[t].second}
    <3>1. Entered(t, c.at)' /\ dict'[t].second = dict[t].second
      BY <1>0, <2>2, <2>4 DEF Entered, EntryStays
    <3> QED BY <1>2, <1>4, <2>1, <2>2, <2>3, <2>4, <3>1 DEF Placed
  <2>5. ASSUME NEW R \in SUBSET Block, Run(t, R, c.at, c.tail),
               \A b \in R : \A o \in page[b].refs : c.last < o, \A o \in D : Holds(R, o)
        PROVE  Placed(t, c, D)'
    <3>1. Run(t, R, c.at, c.tail)' /\ \A o : Holds(R, o) => Holds(R, o)'
      BY <1>0, <1>4, <2>5, RunKept
    <3>2. ASSUME NEW b \in R, NEW o \in page'[b].refs PROVE c.last < o
      <4>1. b \in ScanPages(t)
        BY <2>5 DEF Run
      <4>2. o \in page[b].refs \/ (pc = "link" /\ t \in ins.todo /\ o = ins.owner)
        BY <1>0, <4>1 DEF PagesStay
      <4> QED BY <2>1, <2>5, <4>2, TargetAbove
    <3> QED BY <1>2, <1>4, <2>1, <2>2, <2>3, <2>5, <3>1, <3>2 DEF Placed
  <2> QED BY <1>4, <2>4, <2>5 DEF Placed
<1> QED BY <1>3, <1>4

(* A cursor beside the writers *)
LEMMA CursorKept ==
  ASSUME StoreInv, StoreInv', NoRewrite, [Next]_vars, NEW t \in Term, NEW c, NEW K,
         fr' = fr, gen'.anchors = gen.anchors, CursorAt(t, c, K)
  PROVE  CursorAt(t, c, K)'
<1>1. CASE fr.stage = "terms" /\ t \in fr.todo
  <2>1. c = NoCursor /\ \A o \in K : Listed(t, o)
    BY <1>1 DEF CursorAt
  <2>2. \A o \in K : Listed(t, o)'
    BY <2>1, ListedKept
  <2> QED BY <1>1, <2>1, <2>2 DEF CursorAt
<1>2. CASE ~(fr.stage = "terms" /\ t \in fr.todo)
  <2>1. Captured(t, c, K)'
    BY <1>2, CapturedKept DEF CursorAt
  <2>2. CASE Waiting(c) \/ (fr.stage # "terms" /\ Anchored(c))
    BY <1>2, <2>1, <2>2 DEF CursorAt, Waiting, Anchored
  <2>3. CASE fr.stage # "terms" /\ c.opened /\ ~c.anchored /\ Placed(t, c, Owing(c, K))
    <3>1. PICK D : D = Owing(c, K)
      OBVIOUS
    <3>2. D = Owing(c, K)'
      BY <3>1 DEF Owing
    <3>3. Placed(t, c, D)'
      BY <2>3, <3>1, PlacedKept
    <3>4. Placed(t, c, Owing(c, K))'
      BY <3>2, <3>3 DEF Placed
    <3> QED BY <1>2, <2>1, <2>3, <3>4 DEF CursorAt
  <2> QED BY <1>2, <2>2, <2>3 DEF CursorAt
<1> QED BY <1>1, <1>2

(* The reader rests, and the fence of the generations stays. *)
Resting ==
  /\ fr' = fr /\ cur' = cur /\ own' = own /\ img' = img
  /\ sealed' = sealed /\ emitted' = emitted /\ known' = known
  /\ gen'.id = gen.id /\ gen'.after = gen.after /\ gen'.delta = gen.delta
  /\ gen'.anchors = gen.anchors

Beside == StoreInv /\ StoreInv' /\ NoRewrite /\ [Next]_vars /\ Resting

(* What the reader knows of its documents stays true of them. *)
LEMMA KnownBeside ==
  ASSUME Beside, ReadFacts
  PROVE  /\ ReadFacts'
         /\ \A o \in known : Live(o)' => Live(o)
         /\ \A o \in known : Used(o)' => Used(o)
         /\ \A o \in known : owner'[o].doc = owner[o].doc /\ owner'[o].page = owner[o].page
         /\ \A t : KnownOf(t)' = KnownOf(t)
<1>0. StoreInv /\ [Next]_vars /\ StoreOK /\ Resting
  BY DEF Beside, StoreInv
<1>1. \A o \in known : o \in Owner /\ owner[o].pub = "Published"
  BY DEF ReadFacts
<1>2. \A o \in known : /\ owner'[o].pub = "Published" /\ owner'[o].doc = owner[o].doc
                       /\ owner'[o].page = owner[o].page
                       /\ Live(o)' => Live(o)
                       /\ Used(o)' => Used(o)
  BY <1>0, <1>1, KnownSlot
<1>3. meta.inc \in Nat /\ meta'.inc \in {meta.inc, meta.inc + 1}
  BY <1>0, CounterGrows
<1>4. fr'.next <= meta'.inc
  <2>1. PICK n, a, b : n = fr.next /\ a = meta.inc /\ b = meta'.inc
    OBVIOUS
  <2>2. n \in Nat /\ n <= a
    BY <2>1 DEF ReadFacts
  <2>3. n <= b
    BY <1>3, <2>1, <2>2
  <2> QED BY <1>0, <2>1, <2>3 DEF Resting
<1>5. ReadFacts'
  BY <1>0, <1>2, <1>4 DEF ReadFacts, Resting
<1>6. ASSUME NEW t PROVE KnownOf(t)' = KnownOf(t)
  BY <1>0, <1>2 DEF KnownOf, Resting
<1> QED BY <1>2, <1>5, <1>6

(* Every cursor keeps its place. *)
LEMMA CursorsBeside ==
  ASSUME Beside, ReadFacts, CursorsSound
  PROVE  CursorsSound'
<1>0. Resting /\ fr' = fr /\ gen'.anchors = gen.anchors
  BY DEF Beside, Resting
<1>1. ASSUME NEW t \in Names(fr.prog) PROVE CursorAt(t, cur[t], KnownOf(t))'
  <2>1. PICK c, K : c = cur[t] /\ K = KnownOf(t)
    OBVIOUS
  <2>2. c = cur'[t] /\ K = KnownOf(t)'
    BY <1>0, <2>1, KnownBeside DEF Resting
  <2>3. t \in Term
    BY <1>1, ProgramIs DEF ReadFacts
  <2>4. CursorAt(t, c, K)'
    BY <1>0, <1>1, <2>1, <2>3, CursorKept DEF Beside, CursorsSound
  <2> QED BY <2>2, <2>4
<1> QED BY <1>0, <1>1 DEF CursorsSound

(* Owner pages stay owner pages, and the first stays the first. *)
LEMMA OwnerPagesBeside ==
  ASSUME StoreInv, StoreInv', [Next]_vars
  PROVE  /\ \A b : IsOwnerPage(b) => IsOwnerPage(b)'
         /\ meta.ownerHead # NoBlock => meta'.ownerHead = meta.ownerHead
<1>0. StoreOK /\ TypeOK' /\ BlockAtEnd /\ OwnerPagesAscend
  BY DEF StoreInv, StoreOK, RootInv
<1>1. CASE Reserve
  <2>1. \A b \in Block : page[b].kind = "Owners" => page'[b].kind = "Owners"
    BY <1>0, <1>1, ReservePages
  <2>2. meta.ownerHead # NoBlock => meta'.ownerHead = meta.ownerHead
    BY <1>0, <1>1, ReserveBatch
  <2> QED BY <2>1, <2>2 DEF IsOwnerPage
<1>2. CASE ~Reserve
  <2>1. PlainBatch
    BY <1>0, <1>2, StepPlain DEF StoreOK
  <2> QED BY <2>1, PlainOwnerPages DEF IsOwnerPage, PlainBatch
<1> QED BY <1>1, <1>2

(* The owner pages that the reader captured are still there. *)
LEMMA WalkFactsBeside ==
  ASSUME Beside, ReadFacts, gen \in GenRecord, WalkFacts
  PROVE  WalkFacts'
<1>0. StoreInv /\ StoreInv' /\ [Next]_vars /\ StoreOK /\ Resting
  BY DEF Beside, StoreInv
<1>1. /\ \A b : IsOwnerPage(b) => IsOwnerPage(b)'
      /\ meta.ownerHead # NoBlock => meta'.ownerHead = meta.ownerHead
  BY <1>0, OwnerPagesBeside
<1>2. \A o \in known : owner'[o].page = owner[o].page
  BY KnownBeside
<1>3. fr.after # NoOwner => owner'[fr.after].pub # "None" /\ owner'[fr.after].page = owner[fr.after].page
  <2>1. PICK a : a = fr.after
    OBVIOUS
  <2>2. a # NoOwner => a \in Owner
    BY <2>1 DEF ReadFacts, GenRecord, OwnerOrNone
  <2>3. a # NoOwner => owner[a].pub # "None"
    BY <2>1 DEF WalkFacts
  <2> QED BY <1>0, <2>1, <2>2, <2>3, SlotGrowth
<1>4. /\ \A o \in known : owner'[o].page <= fr.ownerTail
      /\ fr.after # NoOwner => owner'[fr.after].pub # "None" /\ owner'[fr.after].page <= fr.ownerTail
  BY <1>2, <1>3 DEF WalkFacts
<1>5. fr.ownerHead # NoBlock =>
       IsOwnerPage(fr.ownerHead)' /\ IsOwnerPage(fr.ownerTail)' /\ fr.ownerHead = meta'.ownerHead
  <2>1. PICK h, t : h = fr.ownerHead /\ t = fr.ownerTail
    OBVIOUS
  <2>2. h = fr'.ownerHead /\ t = fr'.ownerTail
    BY <1>0, <2>1 DEF Resting
  <2>3. h # NoBlock => IsOwnerPage(h)' /\ IsOwnerPage(t)' /\ h = meta'.ownerHead
    BY <1>1, <2>1 DEF WalkFacts
  <2> QED BY <2>1, <2>2, <2>3 DEF IsOwnerPage
<1>6. own.at # NoBlock => IsOwnerPage(own.at)' /\ own.at <= fr.ownerTail
  <2>1. PICK b : b = own.at
    OBVIOUS
  <2>2. b = own'.at
    BY <1>0, <2>1 DEF Resting
  <2>3. b # NoBlock => IsOwnerPage(b)' /\ b <= fr.ownerTail
    BY <1>1, <2>1 DEF WalkFacts
  <2> QED BY <2>1, <2>2, <2>3 DEF IsOwnerPage
<1>7. fr' = fr /\ own' = own /\ known' = known
  BY <1>0 DEF Resting
<1>8. /\ fr.after = NoOwner /\ known # {} => fr.ownerHead # NoBlock
      /\ fr.ownerHead = NoBlock => fr.ownerTail = NoBlock
  BY DEF WalkFacts
<1> QED BY <1>4, <1>5, <1>6, <1>7, <1>8 DEF WalkFacts

(* The documents that the walk has in hand *)
LEMMA OwnersBeside ==
  ASSUME Beside, ReadFacts, OwnersSound
  PROVE  OwnersSound'
<1>0. StoreInv /\ StoreInv' /\ [Next]_vars /\ StoreOK /\ Resting
  BY DEF Beside, StoreInv
<1>1. fr' = fr /\ own' = own /\ known' = known
  BY <1>0 DEF Resting
<1>2. ASSUME NEW o, Outside(o)
      PROVE  Outside(o)' /\ owner'[o].doc = owner[o].doc /\ owner'[o].page = owner[o].page
  BY <1>0, <1>1, <1>2, SlotGrowth DEF Outside
<1>3. ASSUME NEW o, Outside(o) PROVE Fits(o)' <=> Fits(o)
  BY <1>1, <1>2, <1>3 DEF Fits
<1>4. \A o \in own.out : Outside(o)' /\ Fits(o)'
  BY <1>2, <1>3 DEF OwnersSound
<1>5. ASSUME NEW s \in own.left
      PROVE  /\ Outside(s.owner)' /\ owner'[s.owner].pub = "Published"
             /\ owner'[s.owner].doc.frags > 0
             /\ Live(s.owner)' => s.head = owner'[s.owner].head
  <2>1. PICK o : o = s.owner
    OBVIOUS
  <2>2. Outside(o) /\ owner[o].pub = "Published" /\ owner[o].doc.frags > 0
        /\ (Live(o) => s.head = owner[o].head) /\ o \in Owner
    BY <1>5, <2>1 DEF OwnersSound, Outside
  <2>3. /\ owner'[o].pub = "Published" /\ owner'[o].doc = owner[o].doc
        /\ Live(o)' => Live(o) /\ owner'[o].head = owner[o].head
    BY <1>0, <2>2, KnownSlot
  <2>4. Outside(o)'
    BY <1>2, <2>2
  <2> QED BY <2>1, <2>2, <2>3, <2>4
<1>6. ASSUME own.owner # NoOwner
      PROVE  /\ Outside(own.owner)' /\ owner'[own.owner].pub = "Published"
             /\ PayloadAt(own.owner, own.index, own.frag)'
  <2>1. PICK o, i, f : o = own.owner /\ i = own.index /\ f = own.frag
    OBVIOUS
  <2>2. Outside(o) /\ owner[o].pub = "Published" /\ o \in Owner /\ PayloadAt(o, i, f)
    BY <1>6, <2>1 DEF OwnersSound, Outside
  <2>3. /\ owner'[o].pub = "Published" /\ owner'[o].doc = owner[o].doc
        /\ Live(o)' => Live(o)
    BY <1>0, <2>2, KnownSlot
  <2>4. Live(o) => FragsOf(o)
    BY <1>0, <2>2, LivePayloadKept DEF StoreInv
  <2>5. Live(o) /\ f \in Fragments(o) => f \in Fragments(o)' /\ page'[f].index = page[f].index
    BY <2>4 DEF FragsOf, Same, Turned
  <2>6. PayloadAt(o, i, f)'
    BY <2>2, <2>3, <2>5 DEF PayloadAt
  <2>7. Outside(o)'
    BY <1>2, <2>2
  <2>8. o = own'.owner /\ i = own'.index /\ f = own'.frag
    BY <1>1, <2>1
  <2> QED BY <2>1, <2>3, <2>6, <2>7, <2>8 DEF Outside, PayloadAt
<1>7. \A o \in Beyonds' : o \in Beyonds
  BY <1>1, KnownBeside DEF Beyonds
<1>8. ASSUME NEW o \in Beyonds
      PROVE  (Coming(o) => Coming(o)') /\ (~Fits(o) => ~Fits(o)')
  <2>1. o \in known /\ owner'[o].doc = owner[o].doc /\ owner'[o].page = owner[o].page
    BY <1>8, KnownBeside DEF Beyonds
  <2> QED BY <1>1, <2>1 DEF Coming, Fits
<1>9. ASSUME NEW o \in Beyonds'
      PROVE  \/ o \in own.out \/ o = own.owner \/ Coming(o)' \/ ~Fits(o)'
             \/ \E s \in own.left : o = s.owner
  BY <1>7, <1>8, <1>9 DEF OwnersSound
<1> QED BY <1>1, <1>4, <1>5, <1>6, <1>9 DEF OwnersSound

(* The walk of a universal query still has what it is to find. *)
LEMMA UniverseBeside ==
  ASSUME Beside, ReadFacts, UniverseSound
  PROVE  UniverseSound'
<1>0. StoreInv /\ StoreInv' /\ [Next]_vars /\ StoreOK /\ Resting
  BY DEF Beside, StoreInv
<1>1. fr' = fr /\ own' = own /\ known' = known
  BY <1>0 DEF Resting
<1>2. ASSUME NEW o \in own.left
      PROVE  /\ o \in Owner /\ owner'[o].pub # "None"
             /\ own.at # NoBlock => owner'[o].page < own.at
  <2>1. o \in Owner /\ owner[o].pub # "None" /\ (own.at # NoBlock => owner[o].page < own.at)
    BY <1>2 DEF UniverseSound
  <2> QED BY <1>0, <2>1, SlotGrowth
<1>3. \A o \in Beyonds' : o \in Beyonds
  BY <1>1, KnownBeside DEF Beyonds
<1>4. ASSUME NEW o \in Beyonds
      PROVE  (Coming(o) => Coming(o)') /\ (~Fits(o) => ~Fits(o)')
  <2>1. o \in known /\ owner'[o].doc = owner[o].doc /\ owner'[o].page = owner[o].page
    BY <1>4, KnownBeside DEF Beyonds
  <2> QED BY <1>1, <2>1 DEF Coming, Fits
<1>5. \A o \in Beyonds' : o >= fr.target /\ Fits(o)' => o \in own.left \/ Coming(o)'
  BY <1>3, <1>4 DEF UniverseSound
<1>6. own.owner = NoOwner
  BY DEF UniverseSound
<1> QED BY <1>1, <1>2, <1>5, <1>6 DEF UniverseSound

(* The writers beside an open reader *)
LEMMA ReaderBeside ==
  ASSUME Beside, gen \in GenRecord, ReaderSound
  PROVE  ReaderSound'
<1>0. StoreInv /\ StoreInv' /\ [Next]_vars /\ StoreOK /\ Resting
  BY DEF Beside, StoreInv
<1>1. fr' = fr /\ cur' = cur /\ own' = own /\ img' = img
      /\ sealed' = sealed /\ emitted' = emitted /\ known' = known
  BY <1>0 DEF Resting
<1>2. (cur \in [Term -> CursorRecord])' /\ OwnShape' /\ (~Open => Closed)'
  BY <1>1 DEF ReaderSound, OwnShape, Open, Closed
<1>3. ASSUME Open PROVE (ReadFacts /\ CursorsSound /\ WalkSound /\ CopySound /\ Answered)'
  <2>0. ReadFacts /\ CursorsSound /\ WalkSound /\ CopySound /\ Answered
    BY <1>3 DEF ReaderSound
  <2>1. ReadFacts' /\ CursorsSound'
    BY <2>0, KnownBeside, CursorsBeside
  <2>2. /\ \A o \in known : Live(o)' => Live(o)
        /\ \A o \in known : Used(o)' => Used(o)
        /\ \A o \in known : owner'[o].doc = owner[o].doc
    BY <2>0, KnownBeside
  <2>3. fr.stage = "error" =>
          own.owner \in Owner /\ owner'[own.owner].pub = "Published" /\ ~Live(own.owner)'
    <3>1. PICK o : o = own.owner
      OBVIOUS
    <3>2. o = own'.owner
      BY <1>1, <3>1
    <3>3. fr.stage = "error" => o \in Owner /\ owner[o].pub = "Published" /\ ~Live(o)
      BY <2>0, <3>1 DEF WalkSound
    <3>4. fr.stage = "error" => o \in Owner /\ owner'[o].pub = "Published" /\ ~Live(o)'
      BY <1>0, <3>3, KnownSlot
    <3> QED BY <3>1, <3>2, <3>4 DEF Live
  <2>4. WalkSound'
    <3>1. WalkFacts'
      BY <2>0, WalkFactsBeside DEF WalkSound
    <3>2. fr.stage = "owners" => OwnersSound'
      BY <2>0, OwnersBeside DEF WalkSound
    <3>3. fr.stage \in {"seek", "filter"} => UniverseSound'
      BY <2>0, UniverseBeside DEF WalkSound
    <3>4. fr.stage = "terms" => own = NoOwners
      BY <2>0 DEF WalkSound
    <3> QED BY <1>1, <2>3, <3>1, <3>2, <3>3, <3>4 DEF WalkSound
  <2>5. CopySound'
    BY <1>1, <2>0, <2>2 DEF CopySound
  <2>6. \A o \in known : Fits(o)' <=> Fits(o)
    BY <1>1, <2>2 DEF Fits
  <2>7. \A o : Pledged(o)' <=> Pledged(o)
    BY <1>1 DEF Pledged
  <2>8. Answered'
    BY <1>1, <2>0, <2>2, <2>6, <2>7 DEF Answered
  <2> QED BY <2>1, <2>4, <2>5, <2>8
<1>4. Open' <=> Open
  BY <1>1 DEF Open
<1> QED BY <1>2, <1>3, <1>4 DEF ReaderSound

(* The steps of the writers and of the generations *)
LEMMA OthersStep ==
  ASSUME FrontierInv, StoreInv', [FrontierNext]_allVars, ~(ReadStep /\ UNCHANGED <<vars, gen>>)
  PROVE  ReaderSound'
<1>0. /\ StoreInv /\ StoreOK /\ BarrierHeld /\ GenSound /\ gen \in GenRecord /\ ReaderSound
  BY DEF FrontierInv, GroundInv, StoreInv, GenSound
<1>1. \/ (WriterStep \/ UNCHANGED vars) /\ UNCHANGED <<gen, readVars>>
      \/ RebuildGeneration \/ SealGeneration
      \/ (RetireGeneration \/ InvalidateFrontier) /\ UNCHANGED <<vars, readVars>>
  BY FrontierSteps
<1>2. UNCHANGED readVars
  BY <1>1 DEF RebuildGeneration, SealGeneration, readVars
<1>3. CASE ~Open
  <2>1. Closed /\ Closed'
    BY <1>0, <1>2, <1>3 DEF ReaderSound, Closed, readVars
  <2>2. (cur \in [Term -> CursorRecord])' /\ OwnShape' /\ ~Open'
    BY <1>0, <1>2, <1>3 DEF ReaderSound, OwnShape, Open, readVars
  <2> QED BY <2>1, <2>2 DEF ReaderSound
<1>4. CASE Open
  <2>1. ~RebuildGeneration /\ ~SealGeneration
    BY <1>4 DEF RebuildGeneration, SealGeneration, Open
  <2>2. WriterStep \/ UNCHANGED vars
    BY <1>1, <2>1
  <2>3. NoRewrite
    BY <1>0, <1>4, <2>2, WriterBarrier
  <2>4. [Next]_vars
    BY <2>2, PageFileSteps
  <2>5. Resting
    <3>1. /\ gen'.id = gen.id /\ gen'.after = gen.after /\ gen'.delta = gen.delta
          /\ gen'.anchors = gen.anchors
      <4>1. CASE RetireGeneration \/ InvalidateFrontier
        BY <1>0, <4>1, GenRetired
      <4>2. CASE UNCHANGED gen
        BY <4>2
      <4> QED BY <1>1, <2>1, <4>1, <4>2
    <3> QED BY <1>2, <3>1 DEF Resting, readVars
  <2> QED BY <1>0, <2>3, <2>4, <2>5, ReaderBeside DEF Beside
<1> QED BY <1>3, <1>4

-----------------------------------------------------------------------------
(* The reader's own steps *)

(* The page file and the generations rest under an open reader. *)
Reading ==
  /\ FrontierInv /\ StoreInv' /\ NoRewrite /\ Open
  /\ UNCHANGED <<vars, gen>>

(* What that gives *)
LEMMA ReadingIs ==
  ASSUME Reading
  PROVE  /\ StoreInv /\ StoreInv' /\ GenSound /\ AnchorsSound /\ ReaderShape /\ Paged
         /\ cur \in [Term -> CursorRecord] /\ OwnShape
         /\ ReadFacts /\ CursorsSound /\ WalkSound /\ CopySound /\ Answered
         /\ page' = page /\ dict' = dict /\ owner' = owner /\ meta' = meta /\ heap' = heap
         /\ gen' = gen /\ Open /\ NoRewrite /\ [Next]_vars
BY DEF Reading, FrontierInv, GroundInv, ReaderSound, vars

(* A step that loads a page changes a cursor or the walk. *)
Loading ==
  fr' = fr /\ img' = img /\ sealed' = sealed /\ emitted' = emitted /\ known' = known

(* It leaves the rest of the invariant. *)
LEMMA LoadingKeeps ==
  ASSUME Reading, Loading
  PROVE  /\ Open' /\ ReadFacts' /\ CopySound' /\ Answered'
         /\ own' = own => WalkSound' /\ OwnShape'
         /\ cur' = cur => CursorsSound' /\ cur' \in [Term -> CursorRecord]
<1>0. /\ fr' = fr /\ img' = img /\ sealed' = sealed /\ emitted' = emitted /\ known' = known
      /\ page' = page /\ dict' = dict /\ owner' = owner /\ meta' = meta /\ heap' = heap /\ gen' = gen
  BY ReadingIs DEF Loading
<1>1. /\ Open /\ ReadFacts /\ CopySound /\ Answered /\ CursorsSound /\ WalkSound /\ OwnShape
      /\ cur \in [Term -> CursorRecord]
  BY ReadingIs
<1>2. Open' /\ ReadFacts'
  BY <1>0, <1>1 DEF ReadFacts, Open
<1>3. CopySound'
  BY <1>0, <1>1 DEF CopySound, Live
<1>4. Answered'
  <2>1. \A o : (Fits(o)' <=> Fits(o)) /\ (Pledged(o)' <=> Pledged(o)) /\ (Used(o)' <=> Used(o))
    BY <1>0 DEF Fits, Pledged, Used, Live
  <2> QED BY <1>0, <1>1, <2>1 DEF Answered
<1>5. ASSUME own' = own PROVE WalkSound' /\ OwnShape'
  <2>1. \A o : (Fits(o)' <=> Fits(o)) /\ (Coming(o)' <=> Coming(o)) /\ (Live(o)' <=> Live(o))
               /\ (Outside(o)' <=> Outside(o)) /\ (IsOwnerPage(o)' <=> IsOwnerPage(o))
    BY <1>0, <1>5 DEF Fits, Coming, Outside, Live, IsOwnerPage
  <2>2. Beyonds' = Beyonds
    BY <1>0, <2>1 DEF Beyonds
  <2>3. \A o, i, f : PayloadAt(o, i, f)' <=> PayloadAt(o, i, f)
    BY <1>0, <2>1 DEF PayloadAt, Fragments
  <2>4. WalkFacts'
    BY <1>0, <1>1, <1>5, <2>1 DEF WalkSound, WalkFacts
  <2>5. OwnersSound => OwnersSound'
    BY <1>0, <1>5, <2>1, <2>2, <2>3 DEF OwnersSound
  <2>6. UniverseSound => UniverseSound'
    BY <1>0, <1>5, <2>1, <2>2 DEF UniverseSound
  <2>7. WalkSound'
    BY <1>0, <1>1, <1>5, <2>1, <2>4, <2>5, <2>6 DEF WalkSound
  <2> QED BY <1>1, <1>5, <2>7 DEF OwnShape
<1>6. ASSUME cur' = cur PROVE CursorsSound' /\ cur' \in [Term -> CursorRecord]
  <2>1. ASSUME NEW t \in Names(fr.prog) PROVE CursorAt(t, cur[t], KnownOf(t))'
    <3>1. PICK c, K : c = cur[t] /\ K = KnownOf(t)
      OBVIOUS
    <3>2. c = cur'[t] /\ K = KnownOf(t)'
      BY <1>0, <1>6, <3>1 DEF KnownOf
    <3>3. t \in Term
      BY <1>1, <2>1, ProgramIs DEF ReadFacts
    <3>4. CursorAt(t, c, K)'
      BY <1>0, <1>1, <2>1, <3>1, <3>3, CursorKept, ReadingIs DEF CursorsSound
    <3> QED BY <3>2, <3>4
  <2> QED BY <1>0, <1>1, <1>6, <2>1 DEF CursorsSound
<1> QED BY <1>2, <1>3, <1>4, <1>5, <1>6

-----------------------------------------------------------------------------
(* The cursors *)

PageOf(t, b) == Entered(t, b) \/ b \in ScanPages(t)

(* What load_posting() finds on a page of the term *)
LEMMA PostingPage ==
  ASSUME StoreInv, Paged, NEW t \in Term, dict[t].page # NoBlock, NEW b, PageOf(t, b)
  PROVE  /\ b \in Block /\ b # NoBlock
         /\ PageRefs(t, b) # {} /\ PageRefs(t, b) \subseteq Owner
         /\ \A o \in PageRefs(t, b) : Refers(t, o) /\ dict[t].first < o
         /\ IF page[b].kind = "Dictionary"
            THEN dict[t].page = b /\ dict[t].inline # 0 /\ (dict[t].inline = 1 => dict[t].head = b)
            ELSE page[b].kind \in PostingKind /\ page[b].term = t
         /\ Entered(t, b) => PageRefs(t, b) = {dict[t].second}
         /\ b \in ScanPages(t) => PageRefs(t, b) = page[b].refs
<1>0. dict[t] \in TermRecord /\ EntryValid(dict[t]) /\ page[dict[t].page].kind = "Dictionary"
  BY TermEntry
<1>1. CASE Entered(t, b)
  <2>1. b = dict[t].page /\ dict[t].inline # 0 /\ b \in Block
    BY <1>0, <1>1 DEF Entered, TermRecord, BlockOrNone
  <2>2. PageRefs(t, b) = {dict[t].second}
    BY <1>0, <2>1 DEF PageRefs
  <2>3. Refers(t, dict[t].second) /\ dict[t].first < dict[t].second
    BY <2>1 DEF Paged, SecondAbove
  <2>4. dict[t].inline = 1 => dict[t].head = b
    BY <1>0, <2>1 DEF EntryValid
  <2>5. b \notin ScanPages(t)
    BY <1>0, <2>1, PlaceFacts DEF PostingKind
  <2> QED BY <1>0, <2>1, <2>2, <2>3, <2>4, <2>5 DEF Refers
<1>2. CASE b \in ScanPages(t)
  <2>1. /\ b \in Block /\ b # NoBlock /\ page[b].kind \in PostingKind /\ page[b].term = t
        /\ page[b].refs # {} /\ \A o \in page[b].refs : Refers(t, o) /\ dict[t].first < o
    BY <1>2, PlaceFacts
  <2>2. page[b].kind # "Dictionary"
    BY <2>1 DEF PostingKind
  <2>3. PageRefs(t, b) = page[b].refs
    BY <2>2 DEF PageRefs
  <2>4. ~Entered(t, b)
    BY <1>0, <2>2 DEF Entered
  <2> QED BY <1>2, <2>1, <2>2, <2>3, <2>4 DEF Refers
<1> QED BY <1>1, <1>2 DEF PageOf

(* What a cursor holds after a page *)
Held(c, n, refs, at) ==
  /\ n.first = c.first /\ n.head = c.head /\ n.tail = c.tail /\ n.shadow = c.shadow
  /\ n.opened = TRUE /\ n.refs = refs /\ n.at = at
  /\ n.last \in {c.last, c.first} \cup refs /\ c.last <= n.last /\ c.first <= n.last
  /\ \A o \in refs : o <= n.last

(* Holding() is such a cursor. *)
LEMMA HoldingIs ==
  ASSUME NEW t \in Term, cur \in [Term -> CursorRecord], NEW refs \in SUBSET OwnerOrNone,
         NEW at \in BlockOrNone
  PROVE  LET n == Holding(t, refs, at) IN
         n \in CursorRecord /\ Held(cur[t], n, refs, at) /\ n.anchored = FALSE
<1>1. PICK c : c = cur[t]
  OBVIOUS
<1>2. c \in CursorRecord
  BY <1>1
<1>3. PICK S : S = {c.last, c.first} \cup refs
  OBVIOUS
<1>4. S \in SUBSET OwnerOrNone /\ S # {}
  BY <1>2, <1>3 DEF CursorRecord
<1>5. PICK l : l = Max(S)
  OBVIOUS
<1>6. l \in S /\ (\A o \in S : o <= l) /\ l \in OwnerOrNone
  BY <1>4, <1>5, MaxIs
<1>7. PICK n : n = Holding(t, refs, at)
  OBVIOUS
<1>8. n = [c EXCEPT !.opened = TRUE, !.anchored = FALSE, !.refs = refs, !.at = at, !.last = l]
  BY <1>1, <1>3, <1>5, <1>7 DEF Holding
<1>9. /\ n.first = c.first /\ n.head = c.head /\ n.tail = c.tail /\ n.shadow = c.shadow
      /\ n.opened = TRUE /\ n.anchored = FALSE /\ n.refs = refs /\ n.at = at /\ n.last = l
  BY <1>2, <1>8 DEF CursorRecord
<1>10. n \in CursorRecord
  BY <1>2, <1>6, <1>8 DEF CursorRecord
<1>11. Held(c, n, refs, at)
  BY <1>3, <1>6, <1>9 DEF Held
<1> QED BY <1>1, <1>7, <1>9, <1>10, <1>11

(* The captured chain is that of the cursor, whatever it holds. *)
LEMMA HeldCaptured ==
  ASSUME NEW t, NEW c, NEW K, Captured(t, c, K), NEW n, NEW refs, NEW at, Held(c, n, refs, at)
  PROVE  Captured(t, n, K)
BY DEF Captured, CapturedRun, Held

(* A cursor that begins at the head of the chain, behind the first owner *)
LEMMA PlacedWhole ==
  ASSUME StoreInv, Paged, NEW t \in Term, NEW c, NEW K, Captured(t, c, K),
         c.first # NoOwner, c.head # NoBlock,
         NEW n, NEW refs, Held(c, n, refs, c.head), refs \subseteq {c.first}, c.last \in {NoOwner, c.first},
         NEW D, D \subseteq K \ {c.first}
  PROVE  Placed(t, n, D)
<1>1. dict[t].page # NoBlock /\ c.first = dict[t].first
  BY DEF Captured
<1>2. Refers(t, c.first) /\ c.first \in Nat
  BY <1>1, TermEntry, BoundAssumption DEF Refers, Owner
<1>3. n.last = c.first /\ n.refs = refs /\ n.at = c.head /\ n.tail = c.tail
  <2>1. PICK l, f, z : l = n.last /\ f = c.first /\ z = c.last
    OBVIOUS
  <2>2. l \in {z, f} \cup refs /\ f <= l /\ z \in {0, f} /\ refs \subseteq {f} /\ f \in Nat
    BY <1>2, <2>1 DEF Held, NoOwner
  <2>3. l = f
    BY <2>2
  <2> QED BY <2>1, <2>3 DEF Held
<1>4. \A o \in n.refs : Refers(t, o) /\ o <= n.last
  BY <1>2, <1>3
<1>5. Reached(t, n.last)
  BY <1>1, <1>3 DEF Reached
<1>6. CASE Entered(t, c.head) /\ c.tail = c.head /\ K \subseteq {c.first, dict[t].second}
  <2>1. n.last < dict[t].second
    BY <1>1, <1>3, <1>6 DEF Paged, SecondAbove, Entered
  <2>2. D \subseteq {dict[t].second}
    BY <1>6
  <2> QED BY <1>1, <1>3, <1>4, <1>5, <1>6, <2>1, <2>2 DEF Placed
<1>7. ASSUME NEW R \in SUBSET Block, CapturedRun(t, c, K, R) PROVE Placed(t, n, D)
  <2>1. Run(t, R, n.at, n.tail) /\ R \subseteq ScanPages(t)
    BY <1>3, <1>7 DEF CapturedRun, Run
  <2>2. \A b \in R : \A o \in page[b].refs : n.last < o
    BY <1>1, <1>3, <2>1, PlaceFacts
  <2>3. \A o \in D : Holds(R, o)
    BY <1>7 DEF CapturedRun
  <2> QED BY <1>1, <1>3, <1>4, <1>5, <2>1, <2>2, <2>3 DEF Placed
<1> QED BY <1>6, <1>7 DEF Captured

(* The last page of the captured chain: the other documents are before it. *)
LEMMA CapturedTail ==
  ASSUME StoreInv, Paged, NEW t \in Term, NEW c, NEW K, Captured(t, c, K),
         c.first # NoOwner, c.head # NoBlock
  PROVE  /\ dict[t].page # NoBlock /\ c.first = dict[t].first /\ PageOf(t, c.tail)
         /\ \A o \in K : \/ o = c.first \/ o \in PageRefs(t, c.tail)
                         \/ c.head # c.tail /\ \A p \in PageRefs(t, c.tail) : o < p
<1>1. dict[t].page # NoBlock /\ c.first = dict[t].first
  BY DEF Captured
<1>2. CASE Entered(t, c.head) /\ c.tail = c.head /\ K \subseteq {c.first, dict[t].second}
  <2>1. PageOf(t, c.tail) /\ PageRefs(t, c.tail) = {dict[t].second}
    BY <1>1, <1>2, PostingPage DEF PageOf
  <2> QED BY <1>1, <1>2, <2>1
<1>3. ASSUME NEW R \in SUBSET Block, CapturedRun(t, c, K, R)
      PROVE  /\ PageOf(t, c.tail)
             /\ \A o \in K : \/ o = c.first \/ o \in PageRefs(t, c.tail)
                             \/ c.head # c.tail /\ \A p \in PageRefs(t, c.tail) : o < p
  <2>1. PICK h, z : h = c.head /\ z = c.tail
    OBVIOUS
  <2>2. Run(t, R, h, z) /\ h # NoBlock
    BY <1>3, <2>1 DEF CapturedRun
  <2>3. h \in R /\ z \in R /\ R \subseteq ScanPages(t)
    BY <2>2, RunFacts
  <2>4. PageOf(t, z) /\ PageRefs(t, z) = page[z].refs
    BY <1>1, <2>3, PostingPage DEF PageOf
  <2>4a. PICK V \in SUBSET R : Splits(t, R, h, z, z, V)
    BY <2>2, <2>3, RunBehind
  <2>5. V = {} /\ (z = h => V = R \ {z}) /\ \A b \in R \ V : b = z \/ PageBelow(b, z)
    BY <2>4a DEF Splits
  <2>6. ASSUME NEW o \in K, o # c.first
        PROVE  o \in PageRefs(t, z) \/ (h # z /\ \A p \in PageRefs(t, z) : o < p)
    <3>1. PICK b \in R : o \in page[b].refs
      BY <1>3, <2>6 DEF CapturedRun, Holds
    <3>2. b = z \/ (PageBelow(b, z) /\ h # z)
      BY <2>5, <3>1
    <3> QED BY <2>4, <3>1, <3>2 DEF PageBelow
  <2> QED BY <2>1, <2>4, <2>6
<1> QED BY <1>1, <1>2, <1>3 DEF Captured

(* A cursor that has no page to come owes nothing. *)
LEMMA PlacedLast ==
  ASSUME NEW t \in Term, NEW c, NEW n, NEW refs, Held(c, n, refs, NoBlock),
         \A o \in refs : Refers(t, o), NEW D, D = {}
  PROVE  Placed(t, n, D)
BY DEF Placed, Held

(* A cursor is where it should be once what it owes has a place. *)
LEMMA HeldAt ==
  ASSUME fr.stage # "terms", NEW t \in Term, cur \in [Term -> CursorRecord],
         NEW K, Captured(t, cur[t], K),
         NEW refs \in SUBSET OwnerOrNone, NEW at \in BlockOrNone
  PROVE  LET n == Holding(t, refs, at) IN
         /\ n \in CursorRecord /\ Held(cur[t], n, refs, at)
         /\ (\A D : D = {o \in K : o >= fr.target /\ o \notin refs} => Placed(t, n, D)) =>
              CursorAt(t, n, K)
<1>0. PICK c : c = cur[t]
  OBVIOUS
<1>1. PICK n : n = Holding(t, refs, at)
  OBVIOUS
<1>2. n \in CursorRecord /\ Held(c, n, refs, at) /\ n.anchored = FALSE
  BY <1>0, <1>1, HoldingIs
<1>3. Captured(t, n, K)
  BY <1>0, <1>2, HeldCaptured
<1>4. Owing(n, K) = {o \in K : o >= fr.target /\ o \notin refs}
  BY <1>2 DEF Owing, Held
<1>5. n.opened = TRUE
  BY <1>2 DEF Held
<1>6. Placed(t, n, Owing(n, K)) => CursorAt(t, n, K)
  BY <1>2, <1>3, <1>5 DEF CursorAt
<1> QED BY <1>0, <1>1, <1>2, <1>4, <1>6

(* open() *)
LEMMA CursorOpens ==
  ASSUME FrontierInv, Open, fr.stage # "terms", NEW t \in Names(fr.prog), ~cur[t].opened
  PROVE  OpenFits(t) /\ Opened(t) \in CursorRecord /\ CursorAt(t, Opened(t), KnownOf(t))
<1>0. /\ StoreInv /\ Paged /\ ReadFacts /\ CursorsSound /\ cur \in [Term -> CursorRecord]
  BY DEF FrontierInv, GroundInv, ReaderSound
<1>1. t \in Term
  BY <1>0, ProgramIs DEF ReadFacts
<1>2. PICK c, K : c = cur[t] /\ K = KnownOf(t)
  OBVIOUS
<1>3. Captured(t, c, K) /\ Waiting(c) /\ c \in CursorRecord
  BY <1>0, <1>1, <1>2 DEF CursorsSound, CursorAt, Anchored, Waiting
<1>4. c.last = NoOwner /\ c.first \in OwnerOrNone /\ c.head \in BlockOrNone /\ NoBlock \in BlockOrNone
  BY <1>3 DEF Waiting, CursorRecord, BlockOrNone
<1>5. PICK target : target = fr.target
  OBVIOUS
<1>6. /\ target \in Nat /\ K \subseteq Owner /\ Owner \subseteq Nat /\ NoOwner = 0
      /\ OwnerOrNone \subseteq Nat /\ Owner \subseteq OwnerOrNone /\ NoOwner \notin Owner
  <2>1. target \in Nat /\ K \subseteq Owner
    BY <1>0, <1>2, <1>5 DEF ReadFacts, KnownOf
  <2> QED BY <2>1, BoundAssumption DEF Owner, OwnerOrNone, NoOwner
<1>7. ASSUME NEW refs \in SUBSET OwnerOrNone, NEW at \in BlockOrNone
      PROVE  LET n == Holding(t, refs, at) IN
             /\ n \in CursorRecord /\ Held(c, n, refs, at)
             /\ (\A D : D = {o \in K : o >= target /\ o \notin refs} => Placed(t, n, D)) =>
                  CursorAt(t, n, K)
  BY <1>0, <1>1, <1>2, <1>3, <1>5, HeldAt
<1>8. CASE c.first = NoOwner
  <2>1. OpenFits(t) /\ Opened(t) = Holding(t, {}, NoBlock)
    BY <1>2, <1>8 DEF OpenFits, Opened
  <2>2. PICK n : n = Holding(t, {}, NoBlock)
    OBVIOUS
  <2>3. K = {}
    BY <1>3, <1>8 DEF Captured
  <2>4. Held(c, n, {}, NoBlock) /\ n \in CursorRecord
    BY <1>4, <1>7, <2>2
  <2>5. ASSUME NEW D, D = {o \in K : o >= target /\ o \notin {}} PROVE Placed(t, n, D)
    BY <1>1, <2>3, <2>4, <2>5, PlacedLast
  <2> QED BY <1>2, <1>4, <1>7, <2>1, <2>2, <2>4, <2>5
<1>9. CASE c.first # NoOwner /\ c.first >= target
  <2>1. OpenFits(t) /\ Opened(t) = Holding(t, {c.first}, c.head)
    BY <1>2, <1>5, <1>9 DEF OpenFits, Opened
  <2>2. PICK n : n = Holding(t, {c.first}, c.head)
    OBVIOUS
  <2>3. Held(c, n, {c.first}, c.head) /\ n \in CursorRecord
    BY <1>4, <1>7, <2>2
  <2>4. Refers(t, c.first)
    BY <1>0, <1>1, <1>3, <1>9, TermEntry DEF Captured
  <2>5. ASSUME NEW D, D = {o \in K : o >= target /\ o \notin {c.first}} PROVE Placed(t, n, D)
    <3>1. CASE c.head = NoBlock
      <4>1. D = {}
        BY <1>3, <1>9, <2>5, <3>1 DEF Captured
      <4>2. Held(c, n, {c.first}, NoBlock)
        BY <2>3, <3>1
      <4> QED BY <1>1, <2>4, <4>1, <4>2, PlacedLast
    <3>2. CASE c.head # NoBlock
      <4>1. D \subseteq K \ {c.first}
        BY <2>5
      <4> QED BY <1>0, <1>1, <1>3, <1>4, <1>9, <2>3, <3>2, <4>1, PlacedWhole
    <3> QED BY <3>1, <3>2
  <2> QED BY <1>2, <1>4, <1>7, <2>1, <2>2, <2>3, <2>5
<1>10. CASE c.first # NoOwner /\ ~(c.first >= target) /\ c.head = NoBlock
  <2>1. OpenFits(t) /\ Opened(t) = Holding(t, {}, NoBlock)
    BY <1>2, <1>5, <1>10 DEF OpenFits, Opened
  <2>2. PICK n : n = Holding(t, {}, NoBlock)
    OBVIOUS
  <2>3. Held(c, n, {}, NoBlock) /\ n \in CursorRecord
    BY <1>4, <1>7, <2>2
  <2>4. K \subseteq {c.first}
    BY <1>3, <1>10 DEF Captured
  <2>5. ASSUME NEW D, D = {o \in K : o >= target /\ o \notin {}} PROVE Placed(t, n, D)
    BY <1>1, <1>10, <2>3, <2>4, <2>5, PlacedLast
  <2> QED BY <1>2, <1>4, <1>7, <2>1, <2>2, <2>3, <2>5
<1>11. CASE c.first # NoOwner /\ ~(c.first >= target) /\ c.head # NoBlock
  <2>1. PICK tail : tail = PageRefs(t, c.tail)
    OBVIOUS
  <2>2. /\ dict[t].page # NoBlock /\ PageOf(t, c.tail)
        /\ \A o \in K : \/ o = c.first \/ o \in tail
                        \/ c.head # c.tail /\ \A p \in tail : o < p
    BY <1>0, <1>1, <1>3, <1>11, <2>1, CapturedTail
  <2>3. /\ c.tail # NoBlock /\ tail # {} /\ tail \subseteq Owner
        /\ \A o \in tail : Refers(t, o)
        /\ IF page[c.tail].kind = "Dictionary"
           THEN dict[t].page = c.tail /\ dict[t].inline # 0
                /\ (dict[t].inline = 1 => dict[t].head = c.tail)
           ELSE page[c.tail].kind \in PostingKind /\ page[c.tail].term = t
    BY <1>0, <1>1, <2>1, <2>2, PostingPage
  <2>4. \A o \in tail : c.last < o
    BY <1>4, <1>6, <2>3 DEF Owner
  <2>5. OpenFits(t)
    BY <1>2, <2>1, <2>3, <2>4 DEF OpenFits, PostingFits
  <2>6. tail \in SUBSET OwnerOrNone /\ tail \in SUBSET Nat
    BY <1>6, <2>3
  <2>7. Max(tail) \in tail /\ \A o \in tail : o <= Max(tail)
    BY <2>3, <2>6, MaxIs
  <2>8. Min(tail) \in tail /\ \A o \in tail : Min(tail) <= o
    BY <2>3, <2>6, MinIs
  <2>9. CASE Max(tail) < target
    <3>1. Opened(t) = Holding(t, {}, NoBlock)
      BY <1>2, <1>5, <1>11, <2>1, <2>9 DEF Opened
    <3>2. PICK n : n = Holding(t, {}, NoBlock)
      OBVIOUS
    <3>3. Held(c, n, {}, NoBlock) /\ n \in CursorRecord
      BY <1>4, <1>7, <3>2
    <3>4. ASSUME NEW o \in K PROVE ~(o >= target)
      <4>1. PICK q : q = Max(tail)
        OBVIOUS
      <4>2. q \in tail /\ q < target /\ q \in Nat /\ o \in Nat /\ (o \in tail => o <= q)
        BY <1>6, <2>6, <2>7, <2>9, <4>1
      <4>3. o = c.first \/ o <= q
        BY <2>2, <4>2
      <4> QED BY <1>6, <1>11, <4>2, <4>3
    <3>5. ASSUME NEW D, D = {o \in K : o >= target /\ o \notin {}} PROVE Placed(t, n, D)
      <4>1. D = {}
        BY <3>4, <3>5
      <4> QED BY <1>1, <3>3, <4>1, PlacedLast
    <3> QED BY <1>2, <1>4, <1>7, <2>5, <3>1, <3>2, <3>3, <3>5
  <2>10. CASE ~(Max(tail) < target) /\ (Min(tail) <= target \/ c.head = c.tail)
    <3>1. Opened(t) = Holding(t, tail, NoBlock)
      BY <1>2, <1>5, <1>11, <2>1, <2>10 DEF Opened
    <3>2. PICK n : n = Holding(t, tail, NoBlock)
      OBVIOUS
    <3>3. Held(c, n, tail, NoBlock) /\ n \in CursorRecord
      BY <1>4, <1>7, <2>6, <3>2
    <3>4. ASSUME NEW o \in K, o \notin tail PROVE ~(o >= target)
      <4>1. CASE o = c.first
        BY <1>11, <4>1
      <4>2. CASE c.head # c.tail /\ \A p \in tail : o < p
        <5>1. PICK q : q = Min(tail)
          OBVIOUS
        <5>2. q <= target /\ o < q /\ q \in Nat /\ o \in Nat
          BY <1>6, <2>6, <2>8, <2>10, <4>2, <5>1
        <5> QED BY <1>6, <5>2
      <4> QED BY <2>2, <3>4, <4>1, <4>2
    <3>5. ASSUME NEW D, D = {o \in K : o >= target /\ o \notin tail} PROVE Placed(t, n, D)
      <4>1. D = {}
        BY <3>4, <3>5
      <4> QED BY <1>1, <2>3, <3>3, <4>1, PlacedLast
    <3> QED BY <1>2, <1>4, <1>7, <2>5, <2>6, <3>1, <3>2, <3>3, <3>5
  <2>11. CASE ~(Max(tail) < target) /\ ~(Min(tail) <= target \/ c.head = c.tail)
              /\ ~(fr.valid /\ c.first < fr.id)
    <3>1. Opened(t) = Holding(t, {}, c.head)
      BY <1>2, <1>5, <1>11, <2>1, <2>11 DEF Opened
    <3>2. PICK n : n = Holding(t, {}, c.head)
      OBVIOUS
    <3>3. Held(c, n, {}, c.head) /\ n \in CursorRecord
      BY <1>4, <1>7, <3>2
    <3>4. ASSUME NEW D, D = {o \in K : o >= target /\ o \notin {}} PROVE Placed(t, n, D)
      <4>1. PICK E : E = {}
        OBVIOUS
      <4>2. D \subseteq K \ {c.first} /\ E \subseteq {c.first} /\ Held(c, n, E, c.head)
        BY <1>11, <3>3, <3>4, <4>1
      <4> QED BY <1>0, <1>1, <1>3, <1>4, <1>11, <4>2, PlacedWhole
    <3> QED BY <1>2, <1>4, <1>7, <2>5, <3>1, <3>2, <3>3, <3>4
  <2>12. CASE ~(Max(tail) < target) /\ ~(Min(tail) <= target \/ c.head = c.tail)
              /\ fr.valid /\ c.first < fr.id
    <3>1. PICK h : h = Holding(t, {}, NoBlock)
      OBVIOUS
    <3>2. PICK n : n = [h EXCEPT !.anchored = TRUE]
      OBVIOUS
    <3>3. Opened(t) = n
      BY <1>2, <1>5, <1>11, <2>1, <2>12, <3>1, <3>2 DEF Opened
    <3>4. Held(c, h, {}, NoBlock) /\ h \in CursorRecord
      BY <1>4, <1>7, <3>1
    <3>5. n \in CursorRecord /\ Held(c, n, {}, NoBlock) /\ n.anchored = TRUE
      BY <3>2, <3>4 DEF CursorRecord, Held
    <3>6. n.last = n.first /\ n.refs = {} /\ n.at = NoBlock /\ n.first = c.first /\ n.head = c.head
          /\ n.opened = TRUE
      <4>1. PICK l, f : l = n.last /\ f = c.first
        OBVIOUS
      <4>2. l \in {0, f} /\ f <= l /\ f \in Nat
        BY <1>4, <1>6, <3>5, <4>1 DEF Held
      <4>3. l = f
        BY <4>2
      <4> QED BY <3>5, <4>1, <4>3 DEF Held
    <3>7. Anchored(n)
      BY <1>11, <2>12, <3>5, <3>6 DEF Anchored
    <3>8. Captured(t, n, K)
      BY <1>3, <3>5, HeldCaptured
    <3>9. CursorAt(t, n, K)
      BY <3>7, <3>8 DEF CursorAt
    <3> QED BY <1>2, <2>5, <3>3, <3>5, <3>9
  <2> QED BY <2>9, <2>10, <2>11, <2>12
<1> QED BY <1>8, <1>9, <1>10, <1>11

(* D is due on the pages R, behind page b. *)
Ahead(R, b, at, D) ==
  \A o \in D : /\ Holds(R, o) /\ o \notin page[b].refs
               /\ b = at \/ \E p \in page[b].refs : p < o

(* Page b of the run is the next of cursor c, which keeps refs of it. *)
Poised(t, R, at, tail, b, refs, c) ==
  /\ dict[t].page # NoBlock /\ Run(t, R, at, tail) /\ at # NoBlock /\ refs \subseteq page[b].refs
  /\ c.first \in {NoOwner, dict[t].first} /\ c.tail = tail /\ Reached(t, c.last)
  /\ \A o \in page[b].refs : c.last < o

(* A cursor behind page b of its chain, with owners of b in hand *)
LEMMA PlacedBehind ==
  ASSUME StoreInv, NEW t \in Term, NEW R \in SUBSET Block, NEW at, NEW tail, NEW b \in R,
         NEW refs, NEW c, Poised(t, R, at, tail, b, refs, c),
         NEW next, next = IF b = tail THEN NoBlock ELSE page[b].next,
         NEW n, Held(c, n, refs, next), NEW D, Ahead(R, b, at, D)
  PROVE  Placed(t, n, D)
<1>p. /\ dict[t].page # NoBlock /\ Run(t, R, at, tail) /\ at # NoBlock /\ refs \subseteq page[b].refs
      /\ c.first \in {NoOwner, dict[t].first} /\ c.tail = tail /\ Reached(t, c.last)
      /\ \A o \in page[b].refs : c.last < o
  BY DEF Poised
<1>0. \A o \in D : /\ Holds(R, o) /\ o \notin page[b].refs
                   /\ b = at \/ \E p \in page[b].refs : p < o
  BY DEF Ahead
<1>1. at \in R /\ tail \in R /\ R \subseteq ScanPages(t) /\ NoBlock = 0
      /\ \A d \in R : d # tail => page[d].next \in R /\ page[d].next # NoBlock
  BY ONLY <1>p, StoreInv, t \in Term, R \in SUBSET Block, RunFacts
<1>2. \A d \in R : /\ page[d].refs # {}
                   /\ \A o \in page[d].refs : Refers(t, o) /\ dict[t].first < o
  BY <1>1, PlaceFacts
<1>3. \A d \in R : \A o \in page[d].refs : o \in Nat
  BY <1>2, BoundAssumption DEF Refers, Owner
<1>4a. PICK V \in SUBSET R : Splits(t, R, at, tail, b, V)
  BY ONLY <1>p, StoreInv, t \in Term, R \in SUBSET Block, b \in R, RunBehind
<1>4. /\ IF b = tail THEN V = {} ELSE Run(t, V, page[b].next, tail)
      /\ b \notin V /\ (b = at => V = R \ {b})
      /\ \A d \in V : PageBelow(b, d)
      /\ \A d \in R \ V : d = b \/ PageBelow(d, b)
  BY <1>4a DEF Splits
<1>5. \A o \in D : Holds(V, o)
  <2>1. SUFFICES ASSUME NEW o \in D PROVE Holds(V, o)
    OBVIOUS
  <2>2. PICK d \in R : o \in page[d].refs
    BY <1>0 DEF Holds
  <2>3. d # b
    BY <1>0, <2>2
  <2>4. CASE d \in V
    BY <2>2, <2>4 DEF Holds
  <2>5. CASE d \notin V
    <3>1. PageBelow(d, b) /\ b # at
      BY <1>4, <2>3, <2>5
    <3>2. PICK p \in page[b].refs : p < o
      BY <1>0, <3>1
    <3>3. o < p
      BY <2>2, <3>1, <3>2 DEF PageBelow
    <3>4. o \in Nat /\ p \in Nat
      BY <1>3, <2>2, <3>2
    <3> QED BY <3>2, <3>3, <3>4
  <2> QED BY <2>4, <2>5
<1>6. \A o \in n.refs : Refers(t, o) /\ o <= n.last
  BY <1>2, <1>p DEF Held
<1>7. CASE b = tail
  <2>1. n.at = NoBlock /\ D = {}
    BY <1>4, <1>5, <1>7 DEF Held, Holds
  <2> QED BY <1>6, <2>1 DEF Placed
<1>8. CASE b # tail
  <2>1. n.at = page[b].next /\ n.at # NoBlock /\ n.tail = tail
    BY <1>1, <1>8, <1>p DEF Held
  <2>2. n.last \in {c.last, dict[t].first} \cup refs
    <3>1. n.last \in {c.last, c.first} \cup refs /\ c.last <= n.last
      BY DEF Held
    <3>2. c.last \in Nat /\ c.last > 0
      BY <1>p, ReachedRefers, BoundAssumption DEF Refers, Owner
    <3> QED BY <1>p, <3>1, <3>2 DEF NoOwner
  <2>3. Reached(t, n.last)
    <3>1. \A o \in refs : Holds(ScanPages(t), o)
      BY <1>1, <1>p DEF Holds
    <3> QED BY <1>p, <2>2, <3>1 DEF Reached
  <2>4. ASSUME NEW d \in V, NEW o \in page[d].refs PROVE n.last < o
    <3>1. PICK q \in page[b].refs : TRUE
      BY <1>2
    <3>2. q < o /\ \A p \in refs : p < o
      BY <1>4, <1>p, <2>4, <3>1 DEF PageBelow
    <3>3. dict[t].first < o
      BY <1>2, <2>4
    <3>4. c.last < q /\ c.last \in Nat /\ q \in Nat /\ o \in Nat
      <4>1. Refers(t, c.last)
        BY <1>p, ReachedRefers
      <4> QED BY <1>3, <1>p, <2>4, <3>1, <4>1, BoundAssumption DEF Refers, Owner
    <3>5. c.last < o
      BY <3>2, <3>4
    <3> QED BY <2>2, <3>2, <3>3, <3>5
  <2>5. Run(t, V, n.at, n.tail)
    BY <1>4, <1>8, <2>1
  <2> QED BY <1>5, <1>6, <1>p, <2>1, <2>3, <2>4, <2>5 DEF Placed
<1> QED BY <1>7, <1>8

(* open_anchor() *)
LEMMA CursorAnchors ==
  ASSUME FrontierInv, Open, fr.stage # "terms", NEW t \in Names(fr.prog), cur[t].anchored,
         NEW n, n = IF WalkInstead(t) THEN Holding(t, {}, cur[t].head)
                    ELSE Holding(t, {o \in PageRefs(t, gen.anchors[t].tail) : o > gen.anchors[t].last},
                                 After(t, gen.anchors[t].tail))
  PROVE  AnchorFits(t) /\ n \in CursorRecord /\ CursorAt(t, n, KnownOf(t))
<1>0. /\ StoreInv /\ Paged /\ ReadFacts /\ CursorsSound /\ cur \in [Term -> CursorRecord]
      /\ GenSound /\ AnchorsSound
  BY DEF FrontierInv, GroundInv, ReaderSound
<1>1. t \in Term
  BY <1>0, ProgramIs DEF ReadFacts
<1>2. PICK c, K, a : c = cur[t] /\ K = KnownOf(t) /\ a = gen.anchors[t]
  OBVIOUS
<1>3. Captured(t, c, K) /\ Anchored(c) /\ c \in CursorRecord
  BY <1>0, <1>1, <1>2 DEF CursorsSound, CursorAt, Waiting
<1>4. /\ c.last = c.first /\ c.first # NoOwner /\ c.first < fr.id /\ c.head # NoBlock /\ fr.valid
      /\ c.head \in BlockOrNone /\ NoBlock \in BlockOrNone /\ c.first \in OwnerOrNone
  BY <1>3 DEF Anchored, CursorRecord, BlockOrNone
<1>5. PICK target, id, after : target = fr.target /\ id = gen.id /\ after = gen.after
  OBVIOUS
<1>6. /\ K \subseteq Owner /\ Owner \subseteq Nat /\ NoOwner = 0
      /\ OwnerOrNone \subseteq Nat /\ Owner \subseteq OwnerOrNone /\ NoOwner \notin Owner
  <2>1. K \subseteq Owner
    BY <1>0, <1>2 DEF ReadFacts, KnownOf
  <2> QED BY <2>1, BoundAssumption DEF Owner, OwnerOrNone, NoOwner
<1>7. /\ target \in Nat /\ id \in Nat /\ after \in Nat /\ after < id /\ id < target /\ fr.id = id
      /\ a.last \in OwnerOrNone /\ a.last \in Nat
  BY <1>0, <1>1, <1>2, <1>5, <1>6 DEF ReadFacts, GenSound, GenRecord, GenFence
<1>a. PICK f : f = c.first
  OBVIOUS
<1>b. f \in Nat /\ f < id /\ f < target
  <2>1. f \in Nat /\ f < id
    BY <1>4, <1>6, <1>7, <1>a
  <2> QED BY <1>7, <2>1
<1>8. AnchorAt(t) /\ AnchorLast(t)
  BY <1>0, <1>1, <1>4 DEF AnchorsSound, ReadFacts
<1>9. /\ dict[t].page # NoBlock /\ c.first = dict[t].first /\ Refers(t, c.first)
      /\ a.head # NoBlock => a.head = c.head \/ c.shadow
  BY <1>0, <1>1, <1>2, <1>3, <1>4, TermEntry DEF Captured
<1>10. a.last # NoOwner /\ a.last < id /\ a.last < target
  <2>1. c.first <= after
    <3>1. c.first <= after \/ id < c.first
      BY <1>0, <1>5, <1>9 DEF GenSound, GenFence, Refers
    <3>2. f <= after
      BY <1>7, <1>a, <1>b, <3>1
    <3> QED BY <1>a, <3>2
  <2>2. a.last <= after /\ (a.last = NoOwner => after < c.first)
    BY <1>2, <1>5, <1>8, <1>9 DEF AnchorLast
  <2> QED BY <1>4, <1>6, <1>7, <2>1, <2>2
<1>11. ASSUME NEW refs \in SUBSET OwnerOrNone, NEW at \in BlockOrNone
      PROVE  LET h == Holding(t, refs, at) IN
             /\ h \in CursorRecord /\ Held(c, h, refs, at)
             /\ (\A D : D = {o \in K : o >= target /\ o \notin refs} => Placed(t, h, D)) =>
                  CursorAt(t, h, K)
  BY <1>0, <1>1, <1>2, <1>3, <1>5, HeldAt
<1>12. CASE WalkInstead(t)
  <2>1. n = Holding(t, {}, c.head)
    BY <1>2, <1>12
  <2>2. a.head = NoBlock => a.last = c.first
    BY <1>2, <1>8, <1>9, <1>10 DEF AnchorLast
  <2>3. AnchorFits(t)
    BY <1>2, <1>7, <1>10, <1>12, <2>2 DEF AnchorFits
  <2>4. PICK E : E = {}
    OBVIOUS
  <2>5. Held(c, n, E, c.head) /\ n \in CursorRecord
    BY <1>4, <1>11, <2>1, <2>4
  <2>6. ASSUME NEW D, D = {o \in K : o >= target /\ o \notin E} PROVE Placed(t, n, D)
    <3>1. D \subseteq K \ {c.first} /\ E \subseteq {c.first}
      BY <1>6, <1>7, <1>a, <1>b, <2>4, <2>6
    <3> QED BY <1>0, <1>1, <1>3, <1>4, <2>5, <3>1, PlacedWhole
  <2> QED BY <1>2, <1>4, <1>11, <2>1, <2>3, <2>4, <2>5, <2>6
<1>13. CASE ~WalkInstead(t)
  <2>1. a.head # NoBlock /\ a.head = c.head
    BY <1>2, <1>9, <1>13 DEF WalkInstead
  <2>2. PICK refs : refs = {o \in PageRefs(t, a.tail) : o > a.last}
    OBVIOUS
  <2>3. n = Holding(t, refs, IF a.tail = c.tail THEN NoBlock ELSE page[a.tail].next)
    BY <1>2, <1>13, <2>2 DEF After
  <2>4. PageOf(t, a.tail) /\ a.last \in PageRefs(t, a.tail)
    <3>1. CASE a.head = dict[t].page
      <4>1. a.tail = a.head /\ dict[t].inline # 0 /\ a.last = dict[t].second
        BY <1>2, <1>8, <2>1, <3>1 DEF AnchorAt
      <4>2. Entered(t, a.tail)
        BY <3>1, <4>1 DEF Entered
      <4> QED BY <1>0, <1>1, <1>9, <4>1, <4>2, PostingPage DEF PageOf
    <3>2. CASE a.head # dict[t].page
      <4>1. a.tail \in ScanPages(t) /\ a.last \in page[a.tail].refs
        BY <1>2, <1>8, <2>1, <3>2 DEF AnchorAt
      <4> QED BY <1>0, <1>1, <1>9, <4>1, PostingPage DEF PageOf
    <3> QED BY <3>1, <3>2
  <2>5. /\ a.tail # NoBlock /\ PageRefs(t, a.tail) \subseteq Owner
        /\ \A o \in PageRefs(t, a.tail) : Refers(t, o) /\ dict[t].first < o
        /\ IF page[a.tail].kind = "Dictionary"
           THEN dict[t].page = a.tail /\ dict[t].inline # 0
                /\ (dict[t].inline = 1 => dict[t].head = a.tail)
           ELSE page[a.tail].kind \in PostingKind /\ page[a.tail].term = t
        /\ Entered(t, a.tail) => PageRefs(t, a.tail) = {dict[t].second}
        /\ a.tail \in ScanPages(t) => PageRefs(t, a.tail) = page[a.tail].refs
    BY <1>0, <1>1, <1>9, <2>4, PostingPage
  <2>6. PostingFits(t, a.tail) /\ a.last > c.first
    <3>1. \A o \in PageRefs(t, a.tail) : c.last < o
      BY <1>4, <1>9, <2>5
    <3>2. c.first < a.last
      BY <1>9, <2>4, <2>5
    <3> QED BY <1>2, <1>4, <1>6, <1>7, <2>5, <3>1, <3>2 DEF PostingFits
  <2>7. refs \in SUBSET OwnerOrNone
    BY <1>6, <2>2, <2>5
  <2>8. CASE Entered(t, c.head) /\ c.tail = c.head /\ K \subseteq {c.first, dict[t].second}
    <3>1. a.tail = c.tail /\ a.last = dict[t].second
      <4>1. a.head = dict[t].page
        BY <2>1, <2>8 DEF Entered
      <4> QED BY <1>2, <1>8, <2>1, <2>8, <4>1 DEF AnchorAt
    <3>2. NextFits(t, a.tail)
      BY <1>2, <3>1 DEF NextFits
    <3>3. AnchorFits(t)
      BY <1>2, <1>7, <1>10, <1>13, <2>1, <2>4, <2>6, <3>2 DEF AnchorFits
    <3>4. n = Holding(t, refs, NoBlock)
      BY <2>3, <3>1
    <3>5. Held(c, n, refs, NoBlock) /\ n \in CursorRecord
      BY <1>4, <1>11, <2>7, <3>4
    <3>6. ASSUME NEW D, D = {o \in K : o >= target /\ o \notin refs} PROVE Placed(t, n, D)
      <4>1. \A o \in K : ~(o >= target)
        <5>1. ~(c.first >= target) /\ ~(a.last >= target)
          BY <1>7, <1>10, <1>a, <1>b
        <5> QED BY <2>8, <3>1, <5>1
      <4>2. D = {}
        BY <3>6, <4>1
      <4>3. \A o \in refs : Refers(t, o)
        BY <2>2, <2>5
      <4> QED BY <1>1, <3>5, <4>2, <4>3, PlacedLast
    <3> QED BY <1>2, <1>4, <1>11, <2>7, <3>3, <3>4, <3>5, <3>6
  <2>9. ASSUME NEW R \in SUBSET Block, CapturedRun(t, c, K, R)
        PROVE  AnchorFits(t) /\ n \in CursorRecord /\ CursorAt(t, n, K)
    <3>0. PICK b, tail, at : b = a.tail /\ tail = c.tail /\ at = IF b = tail THEN NoBlock ELSE page[b].next
      OBVIOUS
    <3>1. b \in R /\ Run(t, R, c.head, tail)
      BY <1>2, <1>4, <2>1, <2>9, <3>0 DEF CapturedRun
    <3>2. b \in ScanPages(t) /\ (b # tail => page[b].next \in R /\ page[b].next # NoBlock)
      BY <1>0, <1>1, <1>4, <3>1, RunFacts
    <3>3. NextFits(t, b)
      BY <1>2, <3>0, <3>2 DEF NextFits
    <3>4. AnchorFits(t)
      BY <1>2, <1>7, <1>10, <1>13, <2>1, <2>4, <2>6, <3>0, <3>3 DEF AnchorFits
    <3>5. at \in BlockOrNone
      BY <1>4, <2>9, <3>0, <3>2 DEF BlockOrNone
    <3>6. n = Holding(t, refs, at)
      BY <2>3, <3>0
    <3>7. Held(c, n, refs, at) /\ n \in CursorRecord
      BY <1>11, <2>7, <3>5, <3>6
    <3>8. PageRefs(t, b) = page[b].refs /\ refs \subseteq page[b].refs /\ a.last \in page[b].refs
      BY <2>2, <2>4, <2>5, <3>0, <3>2
    <3>9. ASSUME NEW D, D = {o \in K : o >= target /\ o \notin refs} PROVE Placed(t, n, D)
      <4>1. ASSUME NEW o \in D
            PROVE  Holds(R, o) /\ o \notin page[b].refs /\ \E p \in page[b].refs : p < o
        <5>1. o \in K /\ o >= target /\ o \notin refs /\ o \in Nat
          BY <1>6, <3>9, <4>1
        <5>2. o > a.last /\ a.last < o /\ o # c.first
          BY <1>4, <1>6, <1>7, <1>10, <5>1
        <5>3. Holds(R, o)
          BY <2>9, <5>1, <5>2 DEF CapturedRun
        <5>4. o \notin page[b].refs
          BY <2>2, <3>0, <3>8, <5>1, <5>2
        <5> QED BY <3>8, <5>2, <5>3, <5>4
      <4>2. Reached(t, c.last) /\ \A o \in page[b].refs : c.last < o
        BY <1>4, <1>9, <2>5, <3>0, <3>8 DEF Reached
      <4>3. PICK head : head = c.head
        OBVIOUS
      <4>4. Ahead(R, b, head, D)
        BY <4>1 DEF Ahead
      <4>5. Poised(t, R, head, tail, b, refs, c)
        BY <1>4, <1>9, <3>0, <3>1, <3>8, <4>2, <4>3 DEF Poised
      <4> QED BY <1>0, <1>1, <3>0, <3>1, <3>7, <4>4, <4>5, PlacedBehind
    <3> QED BY <1>11, <2>7, <3>4, <3>5, <3>6, <3>7, <3>9
  <2> QED BY <1>2, <1>3, <1>4, <2>8, <2>9 DEF Captured
<1> QED BY <1>12, <1>13

(* advance() *)
LEMMA CursorLoads ==
  ASSUME FrontierInv, Open, fr.stage # "terms", NEW t \in Names(fr.prog),
         cur[t].opened, ~cur[t].anchored, Pending(t) = {}, cur[t].at # NoBlock,
         NEW n, n = Holding(t, PageRefs(t, cur[t].at), After(t, cur[t].at))
  PROVE  /\ PostingFits(t, cur[t].at) /\ NextFits(t, cur[t].at)
         /\ n \in CursorRecord /\ CursorAt(t, n, KnownOf(t))
<1>0. /\ StoreInv /\ Paged /\ ReadFacts /\ CursorsSound /\ cur \in [Term -> CursorRecord]
  BY DEF FrontierInv, GroundInv, ReaderSound
<1>1. t \in Term
  BY <1>0, ProgramIs DEF ReadFacts
<1>2. PICK c, K, b : c = cur[t] /\ K = KnownOf(t) /\ b = cur[t].at
  OBVIOUS
<1>3. Captured(t, c, K) /\ Placed(t, c, Owing(c, K)) /\ c \in CursorRecord /\ c.at = b /\ b # NoBlock
  BY <1>0, <1>1, <1>2 DEF CursorsSound, CursorAt, Waiting, Anchored
<1>4. PICK D : D = Owing(c, K)
  OBVIOUS
<1>5. dict[t].page # NoBlock /\ Reached(t, c.last) /\ NoBlock \in BlockOrNone
  BY <1>3 DEF Placed, BlockOrNone
<1>6. c.first \in {NoOwner, dict[t].first}
  BY <1>3 DEF Captured
<1>7. K \subseteq Owner /\ Owner \subseteq OwnerOrNone
  BY <1>0, <1>2 DEF ReadFacts, KnownOf, OwnerOrNone
<1>8. ASSUME NEW o \in K, o >= fr.target PROVE o \in D
  <2>1. o \notin c.refs
    BY <1>2, <1>8 DEF Pending
  <2> QED BY <1>4, <1>8, <2>1 DEF Owing
<1>9. ASSUME NEW refs \in SUBSET OwnerOrNone, NEW at \in BlockOrNone
      PROVE  LET h == Holding(t, refs, at) IN
             /\ h \in CursorRecord /\ Held(c, h, refs, at)
             /\ (\A E : E = {o \in K : o >= fr.target /\ o \notin refs} => Placed(t, h, E)) =>
                  CursorAt(t, h, K)
  BY <1>0, <1>1, <1>2, <1>3, HeldAt
<1>10. PICK refs, at, tail : /\ refs = PageRefs(t, b) /\ tail = c.tail
                            /\ at = IF b = tail THEN NoBlock ELSE page[b].next
  OBVIOUS
<1>11. n = Holding(t, refs, at)
  BY <1>2, <1>10 DEF After
<1>12. ASSUME PageOf(t, b), \A o \in refs : c.last < o,
              b # tail => page[b].next \in Block /\ page[b].next # NoBlock,
              \A E : Held(c, n, refs, at) /\ E = {o \in K : o >= fr.target /\ o \notin refs} => Placed(t, n, E)
       PROVE  /\ PostingFits(t, b) /\ NextFits(t, b)
              /\ n \in CursorRecord /\ CursorAt(t, n, K)
  <2>1. /\ b # NoBlock /\ refs \subseteq Owner
        /\ IF page[b].kind = "Dictionary"
           THEN dict[t].page = b /\ dict[t].inline # 0 /\ (dict[t].inline = 1 => dict[t].head = b)
           ELSE page[b].kind \in PostingKind /\ page[b].term = t
    BY <1>0, <1>1, <1>5, <1>10, <1>12, PostingPage
  <2>2. PostingFits(t, b)
    BY <1>2, <1>10, <1>12, <2>1 DEF PostingFits
  <2>3. NextFits(t, b)
    BY <1>2, <1>10, <1>12 DEF NextFits
  <2>4. refs \in SUBSET OwnerOrNone /\ at \in BlockOrNone
    BY <1>7, <1>10, <1>12, <2>1 DEF BlockOrNone
  <2> QED BY <1>9, <1>11, <1>12, <2>2, <2>3, <2>4
<1>13. CASE Entered(t, b) /\ b = tail /\ c.last < dict[t].second /\ D \subseteq {dict[t].second}
  <2>1. PageOf(t, b)
    BY <1>13 DEF PageOf
  <2>2. refs = {dict[t].second} /\ \A o \in refs : Refers(t, o)
    BY <1>0, <1>1, <1>5, <1>10, <1>13, <2>1, PostingPage
  <2>3. ASSUME Held(c, n, refs, at), NEW E, E = {o \in K : o >= fr.target /\ o \notin refs}
        PROVE  Placed(t, n, E)
    <3>1. E = {}
      BY <1>8, <1>13, <2>2, <2>3
    <3>2. Held(c, n, refs, NoBlock)
      BY <1>10, <1>13, <2>3
    <3> QED BY <1>1, <2>2, <3>1, <3>2, PlacedLast
  <2>4. \A o \in refs : c.last < o
    BY <1>2, <1>13, <2>2
  <2> QED BY <1>2, <1>12, <1>13, <2>1, <2>3, <2>4
<1>14. ASSUME NEW R \in SUBSET Block, Run(t, R, b, tail),
              \A d \in R : \A o \in page[d].refs : c.last < o, \A o \in D : Holds(R, o)
       PROVE  /\ PostingFits(t, b) /\ NextFits(t, b)
              /\ n \in CursorRecord /\ CursorAt(t, n, K)
  <2>1. b \in R /\ b \in ScanPages(t) /\ (b # tail => page[b].next \in R /\ page[b].next # NoBlock)
    BY ONLY <1>0, <1>1, <1>3, <1>14, R \in SUBSET Block, RunFacts
  <2>2. PageOf(t, b)
    BY <2>1 DEF PageOf
  <2>3. refs = page[b].refs
    BY <1>0, <1>1, <1>5, <1>10, <2>1, <2>2, PostingPage
  <2>4. ASSUME Held(c, n, refs, at), NEW E, E = {o \in K : o >= fr.target /\ o \notin refs}
        PROVE  Placed(t, n, E)
    <3>1. Ahead(R, b, b, E)
      BY <1>8, <1>14, <2>3, <2>4 DEF Ahead
    <3>2. Poised(t, R, b, tail, b, refs, c)
      BY <1>3, <1>5, <1>6, <1>10, <1>14, <2>1, <2>3 DEF Poised
    <3> QED BY <1>0, <1>1, <1>10, <2>1, <2>4, <3>1, <3>2, PlacedBehind
  <2>5. \A o \in refs : c.last < o
    BY <1>14, <2>1, <2>3
  <2> QED BY <1>12, <1>14, <2>1, <2>2, <2>4, <2>5
<1>15. PostingFits(t, b) /\ NextFits(t, b) /\ n \in CursorRecord /\ CursorAt(t, n, K)
  <2>1. \/ Entered(t, b) /\ b = tail /\ c.last < dict[t].second /\ D \subseteq {dict[t].second}
        \/ \E R \in SUBSET Block :
             /\ Run(t, R, b, tail)
             /\ \A d \in R : \A o \in page[d].refs : c.last < o
             /\ \A o \in D : Holds(R, o)
    BY <1>3, <1>4, <1>10 DEF Placed
  <2>2. CASE Entered(t, b) /\ b = tail /\ c.last < dict[t].second /\ D \subseteq {dict[t].second}
    BY <1>2, <1>13, <2>2
  <2>3. ASSUME NEW R \in SUBSET Block, Run(t, R, b, tail),
               \A d \in R : \A o \in page[d].refs : c.last < o, \A o \in D : Holds(R, o)
        PROVE  PostingFits(t, b) /\ NextFits(t, b) /\ n \in CursorRecord /\ CursorAt(t, n, K)
    BY ONLY <1>14, <2>3
  <2> QED BY ONLY <2>1, <2>2, <2>3
<1> QED BY <1>2, <1>15

(* A cursor whose turn it is *)
LEMMA BehindIs ==
  ASSUME ReadFacts, NEW t, Behind(t)
  PROVE  t \in Names(fr.prog) /\ t \in Term /\ t \in BehindTerms /\ fr.stage \in {"seek", "filter"}
<1>1. BehindTerms # {} /\ t = FirstNamed(fr.prog, BehindTerms)
  BY DEF Behind
<1>2. fr.prog \in Program /\ Names(fr.prog) \subseteq Term /\ SeekTerms(fr.prog) \subseteq Names(fr.prog)
  BY ProgramIs, SeekTermsAre DEF ReadFacts
<1>3. Sought \subseteq Names(fr.prog) /\ (Sought # {} => fr.stage \in {"seek", "filter"})
  BY <1>2 DEF Sought
<1>4. BehindTerms \subseteq Sought
  BY DEF BehindTerms
<1>5. t \in BehindTerms
  BY <1>1, <1>2, <1>3, <1>4, FirstNamedIs
<1> QED BY <1>2, <1>3, <1>4, <1>5

(* One cursor takes its next place. *)
LEMMA CursorTurned ==
  ASSUME Reading, Loading, own' = own, NEW t \in Names(fr.prog), NEW n \in CursorRecord,
         cur' = [cur EXCEPT ![t] = n], CursorAt(t, n, KnownOf(t))
  PROVE  ReaderSound'
<1>1. /\ Open' /\ ReadFacts' /\ CopySound' /\ Answered' /\ WalkSound' /\ OwnShape'
  BY LoadingKeeps
<1>2. /\ fr' = fr /\ known' = known /\ owner' = owner /\ gen' = gen
      /\ cur \in [Term -> CursorRecord] /\ Names(fr.prog) \subseteq Term
  BY ReadingIs, ProgramIs DEF Loading, ReadFacts
<1>3. cur' \in [Term -> CursorRecord]
  BY <1>2
<1>4. ASSUME NEW x \in Names(fr.prog) PROVE CursorAt(x, cur[x], KnownOf(x))'
  <2>1. PICK c, K : c = cur'[x] /\ K = KnownOf(x)
    OBVIOUS
  <2>2. K = KnownOf(x)'
    BY <1>2, <2>1 DEF KnownOf
  <2>3. CursorAt(x, c, K)
    <3>1. CASE x = t
      BY <1>2, <2>1, <3>1
    <3>2. CASE x # t
      <4>1. c = cur[x]
        BY <1>2, <2>1, <3>2
      <4> QED BY <2>1, <4>1, ReadingIs DEF CursorsSound
    <3> QED BY <3>1, <3>2
  <2>4. CursorAt(x, c, K)'
    BY <1>2, <2>3, ReadingIs, CursorKept
  <2> QED BY <2>1, <2>2, <2>4
<1>5. CursorsSound'
  BY <1>2, <1>4 DEF CursorsSound
<1> QED BY <1>1, <1>3, <1>5 DEF ReaderSound

(* The steps of the cursors *)
LEMMA CursorsStep ==
  ASSUME Reading, NEW t, CursorOpen(t) \/ CursorAnchor(t) \/ CursorLoad(t)
  PROVE  ReaderSound'
<1>0. ReadFacts /\ FrontierInv /\ Open
  BY ReadingIs DEF Reading
<1>1. Behind(t) /\ Loading /\ own' = own
  BY DEF CursorOpen, CursorAnchor, CursorLoad, Loading
<1>2. t \in Names(fr.prog) /\ t \in BehindTerms /\ fr.stage \in {"seek", "filter"}
  BY <1>0, <1>1, BehindIs
<1>3. fr.stage # "terms"
  BY <1>2
<1>4. CASE CursorOpen(t)
  <2>1. PICK n : n = Opened(t)
    OBVIOUS
  <2>2. n \in CursorRecord /\ CursorAt(t, n, KnownOf(t))
    BY <1>0, <1>2, <1>3, <1>4, <2>1, CursorOpens DEF CursorOpen
  <2> QED BY <1>1, <1>2, <1>4, <2>1, <2>2, CursorTurned DEF CursorOpen
<1>5. CASE CursorAnchor(t)
  <2>1. PICK n : n = IF WalkInstead(t) THEN Holding(t, {}, cur[t].head)
                     ELSE Holding(t, {o \in PageRefs(t, gen.anchors[t].tail) : o > gen.anchors[t].last},
                                  After(t, gen.anchors[t].tail))
    OBVIOUS
  <2>2. n \in CursorRecord /\ CursorAt(t, n, KnownOf(t))
    BY <1>0, <1>2, <1>3, <1>5, <2>1, CursorAnchors DEF CursorAnchor
  <2> QED BY <1>1, <1>2, <1>5, <2>1, <2>2, CursorTurned DEF CursorAnchor
<1>6. CASE CursorLoad(t)
  <2>1. PICK n : n = Holding(t, PageRefs(t, cur[t].at), After(t, cur[t].at))
    OBVIOUS
  <2>2. cur[t].opened /\ ~cur[t].anchored /\ Pending(t) = {} /\ cur[t].at # NoBlock
    BY <1>2, <1>6 DEF CursorLoad, BehindTerms
  <2>3. n \in CursorRecord /\ CursorAt(t, n, KnownOf(t))
    BY <1>0, <1>2, <1>3, <2>1, <2>2, CursorLoads
  <2> QED BY <1>1, <1>2, <1>6, <2>1, <2>3, CursorTurned DEF CursorLoad
<1> QED BY <1>4, <1>5, <1>6

(* No check of a cursor fails. *)
LEMMA CursorsFit ==
  ASSUME FrontierInv, Open, NEW t
  PROVE  ~CursorFails(t)
<1> SUFFICES ASSUME CursorFails(t) PROVE FALSE
  OBVIOUS
<1>0. ReadFacts /\ Behind(t)
  BY DEF FrontierInv, ReaderSound, CursorFails
<1>1. t \in Names(fr.prog) /\ t \in BehindTerms /\ fr.stage # "terms"
  BY <1>0, BehindIs
<1>2. CASE ~cur[t].opened
  BY <1>1, <1>2, CursorOpens DEF CursorFails
<1>3. CASE cur[t].opened /\ cur[t].anchored
  <2>1. AnchorFits(t)
    BY <1>1, <1>3, CursorAnchors
  <2> QED BY <1>3, <2>1 DEF CursorFails
<1>4. CASE cur[t].opened /\ ~cur[t].anchored
  <2>1. Pending(t) = {} /\ cur[t].at # NoBlock
    BY <1>1, <1>4 DEF BehindTerms
  <2>2. PostingFits(t, cur[t].at) /\ NextFits(t, cur[t].at)
    BY <1>1, <1>4, <2>1, CursorLoads
  <2> QED BY <1>4, <2>2 DEF CursorFails
<1> QED BY <1>2, <1>3, <1>4

-----------------------------------------------------------------------------
(* The scan opens, and captures its terms *)

(* The owner pages, as a walk over them finds them *)
LEMMA OwnerPages ==
  ASSUME StoreInv
  PROVE  /\ \A o \in Owner : owner[o].pub # "None" =>
              /\ IsOwnerPage(owner[o].page) /\ owner[o].page <= meta.ownerTail
              /\ meta.ownerHead # NoBlock /\ meta.ownerHead <= owner[o].page
         /\ meta.ownerHead # NoBlock => IsOwnerPage(meta.ownerHead) /\ IsOwnerPage(meta.ownerTail)
         /\ meta.ownerHead = NoBlock => meta.ownerTail = NoBlock
<1>0. /\ StoreOK /\ TypeOK /\ OwnersChained /\ DictChained /\ OwnerPagesAscend /\ SlotsOnOwnerPages
      /\ Block \subseteq Nat /\ 0 \notin Block
  BY BoundAssumption DEF StoreInv, StoreOK, RootInv, Block
<1>1. /\ meta.ownerHead # NoBlock => meta.ownerTail \in Kind("Owners")
      /\ meta.ownerHead = NoBlock => meta.ownerTail = NoBlock
  BY <1>0, TailFacts
<1>2. ASSUME meta.ownerHead # NoBlock PROVE IsOwnerPage(meta.ownerHead) /\ IsOwnerPage(meta.ownerTail)
  <2>1. PICK S, head, tail, link : /\ S = Kind("Owners") /\ head = meta.ownerHead
                                   /\ tail = meta.ownerTail /\ link = Link
    OBVIOUS
  <2>2. S \subseteq Block /\ 0 \notin S /\ Chained(link, S, head, tail) /\ tail \in S
    BY <1>0, <1>1, <1>2, <2>1, LinkFacts2 DEF OwnersChained
  <2>3. head \in S
    BY <2>2, ChainedFacts
  <2> QED BY <2>1, <2>2, <2>3 DEF Kind, IsOwnerPage
<1>3. ASSUME NEW o \in Owner, owner[o].pub # "None"
      PROVE  /\ IsOwnerPage(owner[o].page) /\ owner[o].page <= meta.ownerTail
             /\ meta.ownerHead # NoBlock /\ meta.ownerHead <= owner[o].page
  BY <1>0, <1>3 DEF SlotsOnOwnerPages, OwnerPagesAscend, IsOwnerPage
<1> QED BY <1>1, <1>2, <1>3

(* The chains rest with the page file. *)
LEMMA PagesRest ==
  ASSUME StoreInv, StoreInv', page' = page, meta' = meta, NEW t \in Term
  PROVE  ScanPages(t)' = ScanPages(t)
<1>0. StoreOK /\ StoreOK' /\ PostingsSound
  BY DEF StoreInv
<1>1. PICK J \in SUBSET Block : JournalSound(J)
  BY <1>0 DEF PostingsSound, PostingsHold
<1>2. JournalSound(J)' /\ Postings(t)' = Postings(t)
  BY <1>1 DEF JournalSound, Link, Posts, Postings
<1>3. ScanPages(t) = Postings(t) \ J
  BY <1>0, <1>1, ScanPagesAre
<1>4. ScanPages(t)' = Postings(t)' \ J
  BY <1>0, <1>2, ScanPagesNext
<1> QED BY <1>2, <1>3, <1>4

(* scan_exact() captures the metapage. *)
LEMMA OpenStep ==
  ASSUME FrontierInv, StoreInv', UNCHANGED <<vars, gen>>, NEW p \in Program, FrontierOpen(p)
  PROVE  ReaderSound'
<1>0. /\ StoreInv /\ StoreOK /\ Paged /\ GenSound /\ ReaderSound /\ ~Open
      /\ page' = page /\ dict' = dict /\ owner' = owner /\ meta' = meta /\ heap' = heap /\ gen' = gen
      /\ [Next]_vars
  BY DEF FrontierInv, GroundInv, StoreInv, FrontierOpen, Open, vars
<1>1. Closed /\ cur \in [Term -> CursorRecord] /\ OwnShape
  BY <1>0 DEF ReaderSound
<1>2. /\ fr'.stage = "terms" /\ fr'.prog = p /\ fr'.todo = Names(p) /\ fr'.target = gen.id + 1
      /\ fr'.id = gen.id /\ fr'.after = gen.after /\ fr'.valid = (gen.valid /\ ~gen.delta)
      /\ fr'.next = meta.inc /\ fr'.ownerHead = meta.ownerHead /\ fr'.ownerTail = meta.ownerTail
      /\ fr'.dictTail = meta.dictTail
      /\ known' = {o \in Owner : Live(o)} /\ gen.id # NoOwner
      /\ cur' = cur /\ own' = own /\ img' = img /\ sealed' = sealed /\ emitted' = emitted
  BY DEF FrontierOpen
<1>3. /\ gen.id \in Nat /\ gen.after < gen.id /\ gen.id < meta.inc /\ meta.inc \in Nat
      /\ gen.after # NoOwner => gen.after \in Owner /\ owner[gen.after].pub # "None"
  <2>1. gen.id \in OwnerOrNone /\ gen.after \in OwnerOrNone /\ OwnerOrNone \subseteq Nat
    BY <1>0, BoundAssumption DEF GenSound, GenRecord, OwnerOrNone, Owner, NoOwner
  <2>2. meta.inc \in Nat
    BY <1>0, CounterGrows
  <2> QED BY <1>0, <1>2, <2>1, <2>2 DEF GenSound, GenFence, OwnerOrNone
<1>4. \A o \in known' : o \in Owner /\ owner[o].pub = "Published" /\ o < meta.inc /\ Live(o)
  <2>1. \A o \in Owner : owner[o].pub # "None" => o < meta.inc
    BY <1>0, SlotGrowth
  <2> QED BY <1>2, <2>1 DEF Live
<1>5. ReadFacts'
  <2>1. sealed' = {} /\ emitted' = {}
    BY <1>1, <1>2 DEF Closed
  <2>2. fr'.valid => ~gen'.delta
    BY <1>0, <1>2
  <2>3. fr'.target \in Nat /\ fr'.id < fr'.target
    BY <1>2, <1>3
  <2> QED BY <1>0, <1>2, <1>3, <1>4, <2>1, <2>2, <2>3 DEF ReadFacts, ReadStages
<1>6. CursorsSound'
  <2>1. ASSUME NEW t \in Names(p) PROVE CursorAt(t, cur[t], KnownOf(t))'
    <3>1. t \in Term
      BY ProgramIs
    <3>2. cur'[t] = NoCursor
      BY <1>1, <1>2, <3>1 DEF Closed
    <3>3. ASSUME NEW o \in KnownOf(t)' PROVE Listed(t, o)'
      <4>1. o \in Owner /\ Live(o) /\ t \in owner[o].doc.terms
        BY <1>0, <1>4, <3>3 DEF KnownOf
      <4>2. /\ dict[t].page # NoBlock
            /\ \/ o = dict[t].first
               \/ dict[t].inline = 1 /\ o = dict[t].second
               \/ Holds(ScanPages(t), o)
        BY <1>0, <3>1, <4>1, TermHas
      <4>3. dict[t].page <= meta.dictTail
        BY <1>0, <3>1 DEF Paged, DictBelow
      <4>4. Holds(ScanPages(t), o)' <=> Holds(ScanPages(t), o)
        BY <1>0, <3>1, PagesRest DEF Holds
      <4> QED BY <1>0, <1>2, <4>2, <4>3, <4>4 DEF Listed
    <3> QED BY <1>2, <3>2, <3>3 DEF CursorAt
  <2> QED BY <1>2, <2>1 DEF CursorsSound
<1>7. WalkFacts'
  <2>1. \A o \in Owner : owner[o].pub # "None" =>
              /\ IsOwnerPage(owner[o].page) /\ owner[o].page <= meta.ownerTail
              /\ meta.ownerHead # NoBlock /\ meta.ownerHead <= owner[o].page
    BY <1>0, OwnerPages
  <2>2. meta.ownerHead # NoBlock => IsOwnerPage(meta.ownerHead) /\ IsOwnerPage(meta.ownerTail)
    BY <1>0, OwnerPages
  <2>3. meta.ownerHead = NoBlock => meta.ownerTail = NoBlock
    BY <1>0, OwnerPages
  <2>4. \A o \in known' : owner'[o].page <= fr'.ownerTail /\ fr'.ownerHead # NoBlock
    BY <1>0, <1>2, <1>4, <2>1
  <2>5. fr'.after # NoOwner => owner'[fr'.after].pub # "None" /\ owner'[fr'.after].page <= fr'.ownerTail
    BY <1>0, <1>2, <1>3, <2>1
  <2>6. own'.at = NoBlock
    BY <1>1, <1>2 DEF Closed, NoOwners
  <2>7. fr'.ownerHead # NoBlock =>
          IsOwnerPage(fr.ownerHead)' /\ IsOwnerPage(fr.ownerTail)' /\ fr'.ownerHead = meta'.ownerHead
    BY <1>0, <1>2, <2>2 DEF IsOwnerPage
  <2> QED BY <1>2, <2>3, <2>4, <2>5, <2>6, <2>7 DEF WalkFacts
<1>8. WalkSound'
  BY <1>1, <1>2, <1>7 DEF WalkSound, Closed
<1>9. CopySound'
  BY <1>1, <1>2 DEF CopySound, Closed, NoCopy
<1>10. Answered'
  BY <1>1, <1>2 DEF Answered, Closed
<1>11. Open' /\ (cur \in [Term -> CursorRecord])' /\ OwnShape'
  BY <1>1, <1>2 DEF Open, OwnShape
<1> QED BY <1>5, <1>6, <1>8, <1>9, <1>10, <1>11 DEF ReaderSound

(* CapturedTerm::new(): the entry leads to what is known of the term. *)
LEMMA TermCaptured ==
  ASSUME StoreInv, Paged, NEW t \in Term, fr.valid => AnchorAt(t), NEW K, \A o \in K : Listed(t, o),
         dict[t].page # NoBlock,
         NEW s \in BOOLEAN, s = TRUE <=> dict[t].inline = 2,
         NEW c, c = [first |-> dict[t].first, head |-> dict[t].head, tail |-> dict[t].tail, shadow |-> s,
                     opened |-> FALSE, anchored |-> FALSE, refs |-> {}, last |-> NoOwner, at |-> NoBlock]
  PROVE  c \in CursorRecord /\ Captured(t, c, K) /\ Waiting(c)
<1>0. /\ dict[t] \in TermRecord /\ EntryValid(dict[t]) /\ Refers(t, dict[t].first)
      /\ dict[t].inline = 1 => ScanPages(t) = {}
      /\ dict[t].inline # 1 => Chained(Link, ScanPages(t), dict[t].head, dict[t].tail)
  BY TermEntry
<1>3. /\ c.first = dict[t].first /\ c.head = dict[t].head /\ c.tail = dict[t].tail /\ c.shadow = s
      /\ c.opened = FALSE /\ c.anchored = FALSE /\ Waiting(c)
  BY DEF Waiting
<1>4. c \in CursorRecord
  BY <1>0 DEF CursorRecord, TermRecord, BlockOrNone, OwnerOrNone
<1>5. c.first # NoOwner
  BY <1>0, <1>3, BoundAssumption DEF Refers, Owner, NoOwner
<1>6. dict[t].inline \in {0, 1, 2}
  BY <1>0 DEF TermRecord
<1>7. ASSUME fr.valid, gen.anchors[t].head # NoBlock PROVE gen.anchors[t].head = c.head \/ c.shadow
  <2>1. CASE gen.anchors[t].head = dict[t].page
    <3>1. dict[t].inline # 0
      BY <1>7, <2>1 DEF AnchorAt
    <3>2. CASE dict[t].inline = 1
      BY <1>0, <1>3, <2>1, <3>2 DEF EntryValid
    <3>3. CASE dict[t].inline = 2
      BY <1>3, <3>3
    <3> QED BY <1>6, <3>1, <3>2, <3>3
  <2>2. CASE gen.anchors[t].head # dict[t].page
    BY <1>3, <1>7, <2>2 DEF AnchorAt
  <2> QED BY <2>1, <2>2
<1>8. \A o \in K : \/ o = dict[t].first
                   \/ dict[t].inline = 1 /\ o = dict[t].second
                   \/ Holds(ScanPages(t), o)
  BY DEF Listed
<1>9. CASE dict[t].inline = 1
  <2>1. /\ Entered(t, c.head) /\ c.tail = c.head /\ c.head # NoBlock
        /\ K \subseteq {c.first, dict[t].second}
    BY <1>0, <1>3, <1>8, <1>9 DEF Entered, EntryValid, Holds
  <2> QED BY <1>3, <1>4, <1>5, <1>7, <2>1 DEF Captured
<1>10. CASE dict[t].inline # 1 /\ c.head = NoBlock
  <2>1. PICK S, link, head, tail : /\ S = ScanPages(t) /\ link = Link
                                   /\ head = dict[t].head /\ tail = dict[t].tail
    OBVIOUS
  <2>2. 0 \notin S /\ Chained(link, S, head, tail) /\ head = 0
    BY <1>0, <1>3, <1>10, <2>1, PlaceFacts
  <2>3. S = {}
    BY <2>2, ChainedFacts
  <2>4. K \subseteq {c.first}
    BY <1>3, <1>8, <1>10, <2>1, <2>3 DEF Holds
  <2> QED BY <1>3, <1>4, <1>5, <1>7, <1>10, <2>4 DEF Captured
<1>11. CASE dict[t].inline # 1 /\ c.head # NoBlock
  <2>1. PICK R, head, tail : R = ScanPages(t) /\ head = c.head /\ tail = c.tail
    OBVIOUS
  <2>2. R \in SUBSET Block /\ 0 \notin R /\ NoBlock = 0 /\ TypeOK
    BY <2>1, PlaceFacts DEF StoreInv, StoreOK
  <2>3. PICK link, cut : link = Link /\ cut = Cut(tail)
    OBVIOUS
  <2>4. Chained(link, R, head, tail)
    BY <1>0, <1>3, <1>11, <2>1, <2>3
  <2>5. tail \in R /\ link[tail] = 0
    BY <1>11, <2>1, <2>2, <2>4, ChainedFacts
  <2>6. \A b \in R : cut[b] = link[b]
    BY <2>2, <2>3, <2>5, LinkFacts2 DEF Cut
  <2>7. Chained(cut, R, head, tail)
    BY ONLY <2>4, <2>6, ChainedSame
  <2>8. Run(t, R, head, tail)
    BY <2>1, <2>3, <2>7 DEF Run
  <2>9. \A o \in K : o = c.first \/ Holds(R, o)
    BY <1>3, <1>8, <1>11, <2>1
  <2>10. ASSUME fr.valid, gen.anchors[t].head = c.head PROVE gen.anchors[t].tail \in R
    <3>1. c.head # dict[t].page
      BY <1>0, <1>3, <1>6, <1>11 DEF EntryValid
    <3> QED BY <1>11, <2>1, <2>10, <3>1 DEF AnchorAt
  <2>11. CapturedRun(t, c, K, R)
    BY <2>1, <2>8, <2>9, <2>10 DEF CapturedRun
  <2> QED BY <1>3, <1>4, <1>5, <1>7, <1>11, <2>2, <2>11 DEF Captured
<1> QED BY <1>9, <1>10, <1>11

(* find_term() *)
LEMMA CaptureStep ==
  ASSUME Reading, NEW t, CaptureTerm(t)
  PROVE  ReaderSound'
<1>0. /\ StoreInv /\ StoreInv' /\ ReadFacts /\ CursorsSound /\ WalkSound /\ CopySound /\ Answered /\ Paged
      /\ AnchorsSound /\ ReaderShape
      /\ page' = page /\ dict' = dict /\ owner' = owner /\ meta' = meta /\ heap' = heap /\ gen' = gen
      /\ cur \in [Term -> CursorRecord] /\ OwnShape /\ Open
  BY ReadingIs
<1>1. PICK s : s = fr.todo \ {t}
  OBVIOUS
<1>2. /\ fr' = [fr EXCEPT !.todo = s]
      /\ own' = own /\ img' = img /\ sealed' = sealed /\ emitted' = emitted /\ known' = known
      /\ fr.stage = "terms" /\ fr.todo # {} /\ t = FirstNamed(fr.prog, fr.todo)
  BY <1>1 DEF CaptureTerm
<1>3. /\ fr'.stage = "terms" /\ fr'.todo = s /\ fr'.prog = fr.prog /\ fr'.target = fr.target
      /\ fr'.id = fr.id /\ fr'.after = fr.after /\ fr'.valid = fr.valid /\ fr'.next = fr.next
      /\ fr'.ownerHead = fr.ownerHead /\ fr'.ownerTail = fr.ownerTail /\ fr'.dictTail = fr.dictTail
  BY <1>0, <1>2 DEF ReaderShape
<1>4. fr.todo \in SUBSET Names(fr.prog) /\ fr.prog \in Program
  BY <1>0 DEF ReadFacts
<1>5. t \in fr.todo /\ Names(fr.prog) \subseteq Term
  BY <1>2, <1>4, FirstNamedIs, ProgramIs
<1>6. ReadFacts'
  BY <1>0, <1>1, <1>2, <1>3 DEF ReadFacts
<1>7. PICK n : n = cur'[t]
  OBVIOUS
<1>8. PICK K : K = KnownOf(t)
  OBVIOUS
<1>9. cur[t] = NoCursor /\ \A o \in K : Listed(t, o)
  BY <1>0, <1>2, <1>4, <1>5, <1>8 DEF CursorsSound, CursorAt
<1>10. /\ cur' = [cur EXCEPT ![t] = n] /\ cur' \in [Term -> CursorRecord]
       /\ Captured(t, n, K) /\ Waiting(n)
  <2>1. CASE dict[t].page # NoBlock /\ fr.dictTail # NoBlock /\ dict[t].page <= fr.dictTail
    <3>1. PICK b : b = (dict[t].inline = 2)
      OBVIOUS
    <3>1a. PICK c : c = [NoCursor EXCEPT !.first = dict[t].first, !.head = dict[t].head,
                                        !.tail = dict[t].tail, !.shadow = b]
      OBVIOUS
    <3>1b. c = [first |-> dict[t].first, head |-> dict[t].head, tail |-> dict[t].tail, shadow |-> b,
               opened |-> FALSE, anchored |-> FALSE, refs |-> {}, last |-> NoOwner, at |-> NoBlock]
      BY <3>1a DEF NoCursor
    <3>2. cur' = [cur EXCEPT ![t] = c]
      BY <2>1, <3>1, <3>1a DEF CaptureTerm
    <3>3. n = c
      BY <1>0, <1>4, <1>5, <1>7, <3>2
    <3>4. fr.valid => AnchorAt(t)
      BY <1>0, <1>4, <1>5 DEF AnchorsSound
    <3>5. c \in CursorRecord /\ Captured(t, c, K) /\ Waiting(c)
      <4>1. b \in BOOLEAN /\ (b = TRUE <=> dict[t].inline = 2)
        BY <3>1
      <4> QED BY <1>0, <1>4, <1>5, <1>9, <2>1, <3>1b, <3>4, <4>1, TermCaptured
    <3> QED BY <1>0, <3>2, <3>3, <3>5
  <2>2. CASE ~(dict[t].page # NoBlock /\ fr.dictTail # NoBlock /\ dict[t].page <= fr.dictTail)
    <3>1. cur' = cur
      BY <2>2 DEF CaptureTerm
    <3>2. K = {}
      <4>1. SUFFICES ASSUME NEW o \in K PROVE FALSE
        OBVIOUS
      <4>2. dict[t].page # NoBlock /\ dict[t].page <= fr.dictTail
        BY <1>9, <4>1 DEF Listed
      <4>3. fr.dictTail = NoBlock
        BY <2>2, <4>2
      <4>4. dict[t].page \in Nat
        BY <1>0, <1>4, <1>5, TermEntry, BoundAssumption DEF TermRecord, BlockOrNone, Block, NoBlock
      <4> QED BY <4>2, <4>3, <4>4 DEF NoBlock
    <3>3. n = NoCursor
      BY <1>7, <1>9, <3>1
    <3>4. Captured(t, n, K) /\ Waiting(n)
      BY <3>2, <3>3 DEF Captured, Waiting, NoCursor
    <3> QED BY <1>0, <1>7, <3>1, <3>4
  <2> QED BY <2>1, <2>2
<1>11. ASSUME NEW x \in Names(fr.prog) PROVE CursorAt(x, cur[x], KnownOf(x))'
  <2>1. PICK c, L : c = cur'[x] /\ L = KnownOf(x)
    OBVIOUS
  <2>2. L = KnownOf(x)' /\ x \in Term
    BY <1>0, <1>2, <1>5, <2>1 DEF KnownOf
  <2>3. CASE x = t
    <3>1. Captured(x, c, L) /\ Waiting(c)
      BY <1>7, <1>8, <1>10, <2>1, <2>3
    <3>2. Captured(x, c, L)'
      BY <1>0, <1>3, <2>2, <3>1, CapturedKept, ReadingIs
    <3>3. x \notin fr'.todo
      BY <1>1, <1>3, <2>3
    <3>4. CursorAt(x, c, L)'
      BY <3>1, <3>2, <3>3 DEF CursorAt, Waiting
    <3> QED BY <2>1, <2>2, <3>4
  <2>4. CASE x # t
    <3>1. c = cur[x]
      BY <1>0, <1>5, <1>10, <2>1, <2>4
    <3>2. CursorAt(x, c, L)
      BY <1>0, <2>1, <3>1 DEF CursorsSound
    <3>3. x \in fr'.todo <=> x \in fr.todo
      BY <1>1, <1>3, <2>4
    <3>4. CASE x \in fr.todo
      <4>1. c = NoCursor /\ \A o \in L : Listed(x, o)
        BY <1>2, <3>2, <3>4 DEF CursorAt
      <4>2. \A o \in L : Listed(x, o)'
        BY <1>3, <2>2, <4>1, ListedKept, ReadingIs
      <4>3. CursorAt(x, c, L)'
        BY <1>3, <3>3, <3>4, <4>1, <4>2 DEF CursorAt
      <4> QED BY <2>1, <2>2, <4>3
    <3>5. CASE x \notin fr.todo
      <4>1. Captured(x, c, L) /\ Waiting(c)
        BY <1>2, <3>2, <3>5 DEF CursorAt
      <4>2. Captured(x, c, L)'
        BY <1>0, <1>3, <2>2, <4>1, CapturedKept, ReadingIs
      <4>3. CursorAt(x, c, L)'
        BY <3>3, <3>5, <4>1, <4>2 DEF CursorAt, Waiting
      <4> QED BY <2>1, <2>2, <4>3
    <3> QED BY <3>4, <3>5
  <2> QED BY <2>3, <2>4
<1>12. CursorsSound'
  BY <1>3, <1>11 DEF CursorsSound
<1>13. WalkSound'
  <2>1. WalkFacts'
    BY <1>0, <1>2, <1>3 DEF WalkSound, WalkFacts, IsOwnerPage
  <2>2. own' = NoOwners
    BY <1>0, <1>2 DEF WalkSound
  <2> QED BY <1>3, <2>1, <2>2 DEF WalkSound
<1>14. CopySound'
  BY <1>0, <1>2 DEF CopySound, Live
<1>15. Answered'
  <2>1. sealed' = {} /\ emitted' = {}
    BY <1>0, <1>2 DEF ReadFacts
  <2> QED BY <1>3, <2>1 DEF Answered
<1>16. Open' /\ OwnShape'
  BY <1>0, <1>2, <1>3 DEF Open, OwnShape
<1> QED BY <1>6, <1>10, <1>12, <1>13, <1>14, <1>15, <1>16 DEF ReaderSound

-----------------------------------------------------------------------------
(* The scan goes on *)

(* Less is due. *)
LEMMA PlacedLess ==
  ASSUME NEW t, NEW c, NEW D, Placed(t, c, D), NEW E, E \subseteq D
  PROVE  Placed(t, c, E)
<1>1. CASE c.at = NoBlock
  BY <1>1 DEF Placed
<1>2. CASE c.at # NoBlock
  <2>1. /\ \A o \in c.refs : Refers(t, o) /\ o <= c.last
        /\ dict[t].page # NoBlock /\ Reached(t, c.last)
    BY <1>2 DEF Placed
  <2>2. CASE Entered(t, c.at) /\ c.at = c.tail /\ c.last < dict[t].second /\ D \subseteq {dict[t].second}
    BY <1>2, <2>1, <2>2 DEF Placed
  <2>3. ASSUME NEW R \in SUBSET Block, Run(t, R, c.at, c.tail),
               \A b \in R : \A o \in page[b].refs : c.last < o, \A o \in D : Holds(R, o)
        PROVE  Placed(t, c, E)
    <3>1. \A o \in E : Holds(R, o)
      BY <2>3
    <3> QED BY <1>2, <2>1, <2>3, <3>1 DEF Placed
  <2> QED BY <1>2, <2>2, <2>3 DEF Placed
<1> QED BY <1>1, <1>2

(* A step to another stage or a later target *)
Advancing ==
  /\ Captures /\ cur' = cur /\ known' = known /\ fr.todo = {} /\ fr'.todo = {}
  /\ fr'.target \in Nat /\ fr.target <= fr'.target
  /\ fr'.stage \in {"seek", "filter", "owners", "done", "error"}
  /\ fr'.stage = "owners" => fr'.target = fr.id + 1 /\ emitted' = {}

(* The cursors owe no more than before. *)
LEMMA AdvancingKeeps ==
  ASSUME Reading, Advancing
  PROVE  Open' /\ ReadFacts' /\ CursorsSound' /\ cur' \in [Term -> CursorRecord]
<1>0. /\ StoreInv /\ StoreInv' /\ ReadFacts /\ CursorsSound
      /\ page' = page /\ dict' = dict /\ owner' = owner /\ meta' = meta /\ gen' = gen
      /\ cur \in [Term -> CursorRecord]
  BY ReadingIs
<1>1. /\ fr'.prog = fr.prog /\ fr'.id = fr.id /\ fr'.after = fr.after /\ fr'.valid = fr.valid
      /\ fr'.next = fr.next /\ cur' = cur /\ known' = known /\ fr.todo = {} /\ fr'.todo = {}
      /\ fr'.stage # "terms" /\ fr'.stage # "closed"
  BY DEF Advancing, Captures
<1>2. PICK a, b : a = fr.target /\ b = fr'.target
  OBVIOUS
<1>3. a \in Nat /\ b \in Nat /\ a <= b /\ fr.id < a
  BY <1>0, <1>2 DEF Advancing, ReadFacts
<1>4. ReadFacts'
  <2>1. fr.id \in Nat
    <3>1. fr.id \in OwnerOrNone
      BY <1>0, ReadingIs DEF ReadFacts, GenSound, GenRecord
    <3> QED BY <3>1, BoundAssumption DEF OwnerOrNone, Owner, NoOwner
  <2>2. fr.id < b
    BY <1>3, <2>1
  <2>3. fr'.stage \in ReadStages
    BY DEF Advancing, ReadStages
  <2>4. fr'.stage \in {"terms", "owners"} => fr'.target = fr'.id + 1 /\ emitted' = {}
    BY <1>1 DEF Advancing
  <2> QED BY <1>0, <1>1, <1>2, <1>3, <2>2, <2>3, <2>4 DEF ReadFacts
<1>5. ASSUME NEW t \in Names(fr.prog) PROVE CursorAt(t, cur[t], KnownOf(t))'
  <2>1. PICK c, K : c = cur[t] /\ K = KnownOf(t)
    OBVIOUS
  <2>2. c = cur'[t] /\ K = KnownOf(t)' /\ t \in Term
    BY <1>0, <1>1, <2>1, ProgramIs DEF KnownOf, ReadFacts
  <2>3. CursorAt(t, c, K)
    BY <1>0, <2>1 DEF CursorsSound
  <2>4. Captured(t, c, K)
    BY <1>1, <2>3 DEF CursorAt
  <2>5. Captured(t, c, K)'
    BY <1>0, <1>1, <2>2, <2>4, CapturedKept, ReadingIs
  <2>6. CASE Waiting(c) \/ Anchored(c)
    <3>1. CursorAt(t, c, K)'
      BY <1>1, <2>5, <2>6 DEF CursorAt, Waiting, Anchored
    <3> QED BY <2>2, <3>1
  <2>7. CASE c.opened /\ ~c.anchored /\ Placed(t, c, Owing(c, K))
    <3>1. PICK D, E : D = Owing(c, K) /\ E = Owing(c, K)'
      OBVIOUS
    <3>2. E \subseteq D
      <4>1. K \subseteq Nat
        <5>1. K \subseteq Owner
          BY <1>0, <2>1 DEF KnownOf, ReadFacts
        <5> QED BY <5>1, BoundAssumption DEF Owner
      <4>2. \A o \in K : o >= b => o >= a
        BY <1>3, <4>1
      <4>3. D = {o \in K : o >= a /\ o \notin c.refs} /\ E = {o \in K : o >= b /\ o \notin c.refs}
        BY <1>2, <3>1 DEF Owing
      <4> QED BY <4>2, <4>3
    <3>3. Placed(t, c, E)
      BY <2>7, <3>1, <3>2, PlacedLess
    <3>4. Placed(t, c, E)'
      BY <2>2, <3>3, PlacedKept, ReadingIs
    <3>5. Placed(t, c, Owing(c, K))'
      BY <3>1, <3>4 DEF Placed
    <3>6. CursorAt(t, c, K)'
      BY <1>1, <2>5, <2>7, <3>5 DEF CursorAt
    <3> QED BY <2>2, <3>6
  <2> QED BY <1>1, <2>3, <2>6, <2>7 DEF CursorAt
<1>6. CursorsSound'
  BY <1>1, <1>5 DEF CursorsSound
<1> QED BY <1>0, <1>1, <1>4, <1>6 DEF Open

(* The walk stays between the captured ends. *)
LEMMA WalkFactsKept ==
  ASSUME Reading, Captures, known' = known,
         own'.at # NoBlock => IsOwnerPage(own'.at) /\ own'.at <= fr.ownerTail
  PROVE  WalkFacts'
<1>0. WalkFacts /\ page' = page /\ owner' = owner /\ meta' = meta
  BY ReadingIs DEF WalkSound
<1>1. fr'.after = fr.after /\ fr'.ownerHead = fr.ownerHead /\ fr'.ownerTail = fr.ownerTail
  BY DEF Captures
<1>2. \A b : IsOwnerPage(b)' <=> IsOwnerPage(b)
  BY <1>0 DEF IsOwnerPage
<1> QED BY <1>0, <1>1, <1>2 DEF WalkFacts, IsOwnerPage

(* The first owner page to visit is not behind a document to be found. *)
LEMMA FirstPage ==
  ASSUME StoreInv, Paged, GenSound, ReadFacts, WalkFacts
  PROVE  /\ FirstOwnerPage # NoBlock => IsOwnerPage(FirstOwnerPage) /\ FirstOwnerPage <= fr.ownerTail
         /\ \A o \in known : fr.after < o => FirstOwnerPage # NoBlock /\ FirstOwnerPage <= owner[o].page
<1>1. \A o \in Owner : owner[o].pub # "None" =>
              /\ IsOwnerPage(owner[o].page) /\ owner[o].page <= meta.ownerTail
              /\ meta.ownerHead # NoBlock /\ meta.ownerHead <= owner[o].page
  BY OwnerPages
<1>2. \A o \in known : o \in Owner /\ owner[o].pub # "None"
  BY DEF ReadFacts
<1>3. \A b : IsOwnerPage(b) => b \in Block /\ b # NoBlock /\ meta.ownerHead <= b
  BY BoundAssumption DEF StoreInv, RootInv, OwnerPagesAscend, IsOwnerPage, Block, NoBlock
<1>4. CASE fr.after = NoOwner
  <2>1. FirstOwnerPage = fr.ownerHead
    BY <1>4 DEF FirstOwnerPage
  <2>2. fr.ownerHead # NoBlock =>
          IsOwnerPage(fr.ownerHead) /\ IsOwnerPage(fr.ownerTail) /\ fr.ownerHead = meta.ownerHead
    BY DEF WalkFacts
  <2>3. known # {} => fr.ownerHead # NoBlock
    BY <1>4 DEF WalkFacts
  <2> QED BY <1>1, <1>2, <1>3, <2>1, <2>2, <2>3
<1>5. CASE fr.after # NoOwner
  <2>1. PICK a : a = fr.after
    OBVIOUS
  <2>2. a \in Owner /\ owner[a].pub # "None" /\ owner[a].page <= fr.ownerTail
    BY <1>5, <2>1 DEF WalkFacts, ReadFacts, GenSound, GenRecord, OwnerOrNone
  <2>3. FirstOwnerPage = owner[a].page
    BY <1>5, <2>1 DEF FirstOwnerPage
  <2>4. ASSUME NEW o \in known, a < o PROVE owner[a].page <= owner[o].page
    BY <1>2, <2>2, <2>4 DEF Paged, SlotsAscend
  <2> QED BY <1>1, <1>3, <2>1, <2>2, <2>3, <2>4
<1> QED BY <1>4, <1>5

(* The generations answer for what is not beyond the fence. *)
LEMMA GenerationsAnswer ==
  ASSUME GenSound, ReadFacts, CursorsSound, fr.todo = {}, NEW o \in known \cap gen.members
  PROVE  Matches(fr.prog, {t \in Names(fr.prog) : cur[t].first # NoOwner /\ o \in gen.post[t]}) <=> Fits(o)
<1>1. PICK S, T : /\ S = {t \in Names(fr.prog) : cur[t].first # NoOwner /\ o \in gen.post[t]}
                  /\ T = owner[o].doc.terms
  OBVIOUS
<1>2. fr.prog \in Program /\ Names(fr.prog) \subseteq Term
  BY ProgramIs DEF ReadFacts
<1>3. ASSUME NEW t \in Names(fr.prog) PROVE t \in S <=> t \in T
  <2>1. o \in gen.post[t] <=> t \in T
    BY <1>1, <1>2 DEF GenSound, GenHolds
  <2>2. t \in T => cur[t].first # NoOwner
    <3>1. CursorAt(t, cur[t], KnownOf(t))
      BY DEF CursorsSound
    <3>2. Captured(t, cur[t], KnownOf(t))
      BY <3>1 DEF CursorAt
    <3>3. t \in T => o \in KnownOf(t)
      BY <1>1 DEF KnownOf
    <3> QED BY <3>2, <3>3 DEF Captured
  <2> QED BY <1>1, <2>1, <2>2
<1>4. Matches(fr.prog, S) <=> Matches(fr.prog, T)
  BY <1>2, <1>3, MatchesNamed
<1> QED BY <1>1, <1>4 DEF Fits

(* scan_snapshot() answers for the generations, and the frontier begins. *)
LEMMA GenerationsStep ==
  ASSUME Reading, NEW stage \in {"done", "owners", "seek"}, ScanGenerations(stage)
  PROVE  ReaderSound'
<1>0. /\ StoreInv /\ StoreInv' /\ ReadFacts /\ CursorsSound /\ WalkFacts /\ CopySound /\ Paged
      /\ GenSound /\ ReaderShape
      /\ page' = page /\ dict' = dict /\ owner' = owner /\ meta' = meta /\ heap' = heap /\ gen' = gen
  BY ReadingIs DEF WalkSound
<1>1. /\ fr.stage = "terms" /\ fr.todo = {}
      /\ fr' = [fr EXCEPT !.stage = stage, !.dictTail = NoBlock]
      /\ own' = [NoOwners EXCEPT !.at = FirstOwnerPage]
      /\ sealed' = {o \in gen.members :
           Matches(fr.prog, {t \in Names(fr.prog) : cur[t].first # NoOwner /\ o \in gen.post[t]})}
      /\ cur' = cur /\ img' = img /\ emitted' = emitted /\ known' = known
      /\ stage = "done" => Span = 0
  BY DEF ScanGenerations
<1>2. /\ fr'.stage = stage /\ fr'.todo = fr.todo /\ fr'.prog = fr.prog /\ fr'.target = fr.target
      /\ fr'.id = fr.id /\ fr'.after = fr.after /\ fr'.valid = fr.valid /\ fr'.next = fr.next
      /\ fr'.ownerHead = fr.ownerHead /\ fr'.ownerTail = fr.ownerTail
  BY <1>0, <1>1 DEF ReaderShape
<1>3. /\ fr.target \in Nat /\ fr.target = fr.id + 1 /\ emitted = {} /\ fr.next \in Nat
      /\ fr.id = gen.id /\ fr.after = gen.after /\ fr.id # NoOwner
  BY <1>0, <1>1 DEF ReadFacts
<1>4. Captures /\ Advancing
  BY <1>1, <1>2, <1>3 DEF Captures, Advancing
<1>5. Open' /\ ReadFacts' /\ CursorsSound' /\ cur' \in [Term -> CursorRecord]
  BY <1>4, AdvancingKeeps
<1>6. PICK b : b = FirstOwnerPage
  OBVIOUS
<1>7. own' = [at |-> b, left |-> {}, owner |-> NoOwner, frag |-> NoBlock, index |-> 0, out |-> {}]
  BY <1>1, <1>6 DEF NoOwners
<1>8. /\ b # NoBlock => IsOwnerPage(b) /\ b <= fr.ownerTail
      /\ \A o \in known : fr.after < o => b # NoBlock /\ b <= owner[o].page
  BY <1>0, <1>6, FirstPage
<1>9. /\ own'.at = b /\ own'.left = {} /\ own'.owner = NoOwner /\ own'.out = {} /\ OwnShape'
  BY <1>7 DEF OwnShape
<1>10. WalkFacts'
  BY <1>1, <1>4, <1>8, <1>9, WalkFactsKept
<1>11. \A o \in Beyonds' : Coming(o)'
  BY <1>0, <1>1, <1>2, <1>8, <1>9 DEF Beyonds, Coming
<1>12. OwnersSound' /\ UniverseSound'
  BY <1>9, <1>11 DEF OwnersSound, UniverseSound
<1>13. WalkSound'
  BY <1>2, <1>10, <1>12 DEF WalkSound
<1>14. CopySound'
  BY <1>0, <1>1 DEF CopySound, Live
<1>15. \A o : (Fits(o)' <=> Fits(o)) /\ (Used(o)' <=> Used(o))
  BY <1>0, <1>2 DEF Fits, Used, Live
<1>16. \A o \in known \cap gen.members : o \in sealed' <=> Fits(o)
  BY <1>0, <1>1, GenerationsAnswer
<1>17. \A o \in sealed' : o \in gen.members /\ o \in Owner /\ o <= fr.after
  BY <1>0, <1>1, <1>3 DEF GenSound, GenHolds, GenRecord
<1>18. ASSUME NEW o \in known, Used(o), Fits(o) PROVE o \in sealed' \/ Pledged(o)'
  <2>1. o \in Owner /\ owner[o].pub # "None" /\ o < fr.next
    BY <1>0 DEF ReadFacts
  <2>2. o <= fr.after \/ fr.id < o
    BY <1>0, <1>3, <2>1 DEF GenSound, GenFence
  <2>3. CASE o <= fr.after
    <3>1. o \in gen.members
      BY <1>0, <1>3, <1>18, <2>1, <2>3 DEF GenSound, GenHolds
    <3> QED BY <1>16, <1>18, <3>1
  <2>4. CASE fr.id < o
    <3>1. PICK id, next, after : id = fr.id /\ next = fr.next /\ after = fr.after
      OBVIOUS
    <3>2. /\ id \in Nat /\ after \in Nat /\ after < id /\ o \in Nat /\ id < o /\ o < next /\ next \in Nat
      <4>1. id \in OwnerOrNone /\ after \in OwnerOrNone /\ after < id
        BY <1>0, <1>3, <3>1 DEF GenSound, GenRecord, GenFence
      <4>2. OwnerOrNone \subseteq Nat /\ Owner \subseteq Nat
        BY BoundAssumption DEF OwnerOrNone, Owner, NoOwner
      <4> QED BY <1>3, <2>1, <2>4, <3>1, <4>1, <4>2
    <3>3. after < o /\ id + 1 <= o /\ next - id - 1 # 0
      BY <3>2
    <3>4. stage # "done"
      BY <1>1, <3>1, <3>3 DEF Span
    <3> QED BY <1>2, <1>3, <3>1, <3>3, <3>4 DEF Pledged
  <2> QED BY <2>2, <2>3, <2>4
<1>19. Answered'
  <2>1. \A o \in sealed' : o \in Owner /\ o <= fr'.after
    BY <1>2, <1>17
  <2>2. emitted' = {}
    BY <1>1, <1>3
  <2>3. \A o \in known' \cap sealed' : Fits(o)'
    BY <1>1, <1>15, <1>16, <1>17
  <2>4. \A o \in known' : Used(o)' /\ Fits(o)' => o \in sealed' \/ Pledged(o)'
    BY <1>1, <1>15, <1>18
  <2> QED BY <2>1, <2>2, <2>3, <2>4 DEF Answered
<1> QED BY <1>5, <1>9, <1>13, <1>14, <1>19 DEF ReaderSound

-----------------------------------------------------------------------------
(* The next owner that can match *)

(* The numbers of the reader *)
LEMMA ReadNumbers ==
  ASSUME ReadFacts, GenSound
  PROVE  /\ fr.target \in Nat /\ fr.target # 0 /\ fr.id \in Nat /\ fr.id < fr.target
         /\ fr.after \in OwnerOrNone /\ fr.after \in Nat /\ fr.after < fr.id
         /\ known \subseteq Owner /\ Owner \subseteq Nat /\ 0 \notin Owner /\ NoOwner = 0
<1>1. gen.id \in OwnerOrNone /\ gen.after \in OwnerOrNone
  BY DEF GenSound, GenRecord
<1>2. OwnerOrNone \subseteq Nat /\ Owner \subseteq Nat /\ 0 \notin Owner /\ NoOwner = 0
  BY BoundAssumption DEF OwnerOrNone, Owner, NoOwner
<1>3. fr.id = gen.id /\ fr.after = gen.after /\ fr.target \in Nat /\ fr.id < fr.target
      /\ known \subseteq Owner /\ fr.id # NoOwner
  BY DEF ReadFacts
<1>4. fr.after < fr.id
  BY <1>3 DEF GenSound, GenFence
<1>5. fr.id \in Nat /\ fr.after \in Nat
  BY <1>1, <1>2, <1>3
<1>6. fr.target # 0
  BY <1>3, <1>5
<1> QED BY <1>1, <1>2, <1>3, <1>4, <1>5, <1>6

(* Where a cursor is: at its first owner from the target on. *)
LEMMA CurrentFacts ==
  ASSUME ReadFacts, GenSound, cur \in [Term -> CursorRecord], NEW t \in Term
  PROVE  /\ Current[t] \in Nat /\ (Current[t] = 0 \/ fr.target <= Current[t])
         /\ Current[t] # 0 => Current[t] \in cur[t].refs
         /\ \A o \in cur[t].refs : o >= fr.target => Current[t] # 0 /\ Current[t] <= o
<1>1. PICK P : P = Pending(t)
  OBVIOUS
<1>2. PICK R : R = cur[t].refs
  OBVIOUS
<1>3. R \subseteq Nat
  <2>1. R \subseteq OwnerOrNone
    BY <1>2 DEF CursorRecord
  <2> QED BY <2>1, BoundAssumption DEF OwnerOrNone, Owner, NoOwner
<1>4. P = {o \in R : o >= fr.target} /\ P \in SUBSET Nat
  BY <1>1, <1>2, <1>3 DEF Pending
<1>5. Current[t] = IF P = {} THEN 0 ELSE Min(P)
  BY <1>1 DEF Current, NoOwner
<1>6. fr.target \in Nat /\ fr.target # 0
  BY ReadNumbers
<1>7. P # {} => Min(P) \in P /\ \A o \in P : Min(P) <= o
  BY <1>4, MinIs
<1> QED BY <1>2, <1>3, <1>4, <1>5, <1>6, <1>7

(* A cursor that is not behind is not beyond a document of its term. *)
LEMMA CurrentBelow ==
  ASSUME FrontierInv, Open, fr.stage \in {"seek", "filter"}, BehindTerms = {},
         NEW t \in Sought, t \in Names(fr.prog), NEW o \in KnownOf(t), o >= fr.target
  PROVE  Current[t] # 0 /\ Current[t] <= o
<1>0. /\ StoreInv /\ ReadFacts /\ GenSound /\ CursorsSound /\ cur \in [Term -> CursorRecord]
  BY DEF FrontierInv, GroundInv, ReaderSound
<1>1. t \in Term
  BY <1>0, ProgramIs DEF ReadFacts
<1>2. PICK c, K : c = cur[t] /\ K = KnownOf(t)
  OBVIOUS
<1>3. c.opened /\ ~c.anchored /\ (c.at # NoBlock => Pending(t) # {})
  BY <1>2 DEF BehindTerms
<1>4. Placed(t, c, Owing(c, K))
  BY <1>0, <1>2, <1>3 DEF CursorsSound, CursorAt, Waiting, Anchored
<1>5. /\ Current[t] \in Nat
      /\ \A p \in c.refs : p >= fr.target => Current[t] # 0 /\ Current[t] <= p
  BY <1>0, <1>1, <1>2, CurrentFacts
<1>6. CASE o \in c.refs
  BY <1>5, <1>6
<1>7. CASE o \notin c.refs
  <2>1. PICK D : D = Owing(c, K)
    OBVIOUS
  <2>2. o \in D
    BY <1>2, <1>7, <2>1 DEF Owing
  <2>3. c.at # NoBlock
    BY <1>4, <2>1, <2>2 DEF Placed
  <2>4. PICK p : p \in c.refs /\ p >= fr.target
    BY <1>2, <1>3, <2>3 DEF Pending
  <2>5. p <= c.last
    BY <1>4, <2>4 DEF Placed
  <2>6. c.last < o
    <3>1. CASE Entered(t, c.at) /\ c.last < dict[t].second /\ D \subseteq {dict[t].second}
      BY <2>2, <3>1
    <3>2. ASSUME NEW R \in SUBSET Block, \A b \in R : \A x \in page[b].refs : c.last < x,
                 \A x \in D : Holds(R, x)
          PROVE  c.last < o
      BY <2>2, <3>2 DEF Holds
    <3> QED BY <1>4, <2>1, <2>3, <3>1, <3>2 DEF Placed
  <2>7. PICK l, n : l = c.last /\ n = Current[t]
    OBVIOUS
  <2>8. l \in Nat /\ p \in Nat /\ o \in Nat /\ n \in Nat
    <3>1. l \in OwnerOrNone /\ p \in OwnerOrNone /\ o \in Owner
      BY <1>0, <1>1, <1>2, <2>4, <2>7 DEF CursorRecord, KnownOf, ReadFacts
    <3> QED BY <1>5, <2>7, <3>1, BoundAssumption DEF OwnerOrNone, Owner, NoOwner
  <2>9. n # 0 /\ n <= p /\ p <= l /\ l < o
    BY <1>5, <2>4, <2>5, <2>6, <2>7
  <2>10. n <= o
    BY <2>8, <2>9
  <2> QED BY <2>7, <2>9, <2>10
<1> QED BY <1>6, <1>7

(* lower_bound() passes no document that matches. *)
LEMMA BoundBelow ==
  ASSUME FrontierInv, Open, SeekReady, NEW o \in known, o >= fr.target, Fits(o)
  PROVE  Bound # 0 /\ Bound <= o
<1>0. /\ ReadFacts /\ GenSound /\ cur \in [Term -> CursorRecord]
  BY DEF FrontierInv, GroundInv, ReaderSound
<1>1. fr.stage = "seek" /\ BehindTerms = {} /\ Sought = SeekTerms(fr.prog)
  BY DEF SeekReady, Sought
<1>2. fr.prog \in Program /\ SeekTerms(fr.prog) \subseteq Names(fr.prog)
  BY <1>0, SeekTermsAre DEF ReadFacts
<1>3. PICK p, f, x, S : p = fr.prog /\ f = Current /\ x = fr.target /\ S = owner[o].doc.terms
  OBVIOUS
<1>4. x \in Nat /\ x # 0 /\ o \in Nat /\ x <= o
  BY <1>0, <1>3, ReadNumbers
<1>5. \A t \in Term : f[t] \in Nat
  BY <1>0, <1>3, CurrentFacts
<1>6. \A t \in SeekTerms(p) : t \in S => f[t] # 0 /\ f[t] <= o
  <2>1. SUFFICES ASSUME NEW t \in SeekTerms(p), t \in S PROVE f[t] # 0 /\ f[t] <= o
    OBVIOUS
  <2>2. o \in KnownOf(t)
    BY <1>3, <2>1 DEF KnownOf
  <2> QED BY <1>1, <1>2, <1>3, <2>1, <2>2, CurrentBelow
<1>7. Matches(p, S)
  BY <1>3 DEF Fits
<1>8. LowerBound(p, f, x) # 0 /\ LowerBound(p, f, x) <= o
  BY <1>2, <1>3, <1>4, <1>5, <1>6, <1>7, LowerBoundBelow
<1> QED BY <1>3, <1>8 DEF Bound

(* The bound is none, or not before the target. *)
LEMMA BoundIs ==
  ASSUME ReadFacts, GenSound, cur \in [Term -> CursorRecord]
  PROVE  Bound \in Nat /\ (Bound = 0 \/ fr.target <= Bound)
<1>1. PICK p, f, x : p = fr.prog /\ f = Current /\ x = fr.target
  OBVIOUS
<1>2. p \in Program /\ x \in Nat
  BY <1>1 DEF ReadFacts
<1>3. \A t \in Term : f[t] \in Nat /\ (f[t] = 0 \/ x <= f[t])
  BY <1>1, CurrentFacts
<1>4. LowerBound(p, f, x) \in Nat /\ (LowerBound(p, f, x) = 0 \/ x <= LowerBound(p, f, x))
  BY <1>2, <1>3, LowerBoundFacts
<1> QED BY <1>1, <1>4 DEF Bound

(* load() and following(): the walk over the owner pages passes none. *)
LEMMA WalkOn ==
  ASSUME StoreInv, Paged, GenSound, ReadFacts, WalkFacts, own.at # NoBlock
  PROVE  /\ OwnersFit(own.at)
         /\ AfterOwners(own.at) # NoBlock =>
              /\ IsOwnerPage(AfterOwners(own.at)) /\ AfterOwners(own.at) <= fr.ownerTail
              /\ own.at < AfterOwners(own.at)
         /\ \A o \in known : own.at < owner[o].page =>
              AfterOwners(own.at) # NoBlock /\ AfterOwners(own.at) <= owner[o].page
<1>1. PICK b, tail, n, last : /\ b = own.at /\ tail = fr.ownerTail /\ n = page[b].next
                              /\ last = meta.ownerTail
  OBVIOUS
<1>2. b \in Block /\ page[b].kind = "Owners" /\ b <= tail /\ b # NoBlock
  BY <1>1 DEF WalkFacts, IsOwnerPage
<1>3. Block \subseteq Nat /\ 0 \notin Block /\ NoBlock = 0
  BY BoundAssumption DEF Block, NoBlock
<1>4. tail \in Block /\ page[tail].kind = "Owners"
  <2>1. fr.ownerHead # NoBlock
    <3>1. SUFFICES ASSUME fr.ownerHead = NoBlock PROVE FALSE
      OBVIOUS
    <3>2. tail = 0
      BY <1>1, <1>3, <3>1 DEF WalkFacts
    <3> QED BY <1>2, <1>3, <3>2
  <2> QED BY <1>1, <2>1 DEF WalkFacts, IsOwnerPage
<1>5. tail <= last
  BY <1>1, <1>4 DEF StoreInv, RootInv, OwnerPagesAscend
<1>6. b # tail => b # last
  <2>1. last \in Nat
    <3>1. IsOwnerPage(last)
      BY <1>1, <1>2 DEF StoreInv, RootInv, OwnerPagesAscend
    <3> QED BY <1>3, <3>1 DEF IsOwnerPage
  <2> QED BY <1>2, <1>3, <1>4, <1>5, <2>1
<1>7. ASSUME b # tail
      PROVE  /\ n \in Block /\ page[n].kind = "Owners" /\ b < n
             /\ \A c \in Block : page[c].kind = "Owners" /\ b < c => n <= c
  BY <1>1, <1>2, <1>6, <1>7, OwnerNext
<1>8. b # tail => n <= tail /\ n \in (b + 1) .. tail
  <2>1. SUFFICES ASSUME b # tail PROVE n <= tail /\ n \in (b + 1) .. tail
    OBVIOUS
  <2>2. b < tail
    BY <1>2, <1>3, <1>4, <2>1
  <2>3. n <= tail /\ b < n /\ n \in Nat /\ b \in Nat /\ tail \in Nat
    BY <1>2, <1>3, <1>4, <1>7, <2>1, <2>2
  <2> QED BY <2>3
<1>9. ASSUME NEW o \in SlotsOf(b) PROVE o > fr.id
  <2>1. o \in Owner /\ owner[o].page # NoBlock /\ o > fr.after
    BY <1>2, <1>9 DEF SlotsOf
  <2>2. owner[o].pub # "None"
    BY <2>1 DEF Paged, SlotsUnused
  <2>3. o <= fr.after \/ fr.id < o
    BY <2>1, <2>2 DEF GenSound, GenFence, ReadFacts
  <2>4. PICK a, i : a = fr.after /\ i = fr.id
    OBVIOUS
  <2>5. a \in Nat /\ i \in Nat /\ o \in Nat
    BY <2>1, <2>4, ReadNumbers
  <2>6. o > i
    BY <2>1, <2>3, <2>4, <2>5
  <2> QED BY <2>4, <2>6
<1>10. OwnersFit(b)
  BY <1>1, <1>2, <1>8, <1>9 DEF OwnersFit
<1>11. AfterOwners(b) = IF b = tail THEN 0 ELSE n
  BY <1>1, <1>3 DEF AfterOwners
<1>12. AfterOwners(b) # NoBlock => IsOwnerPage(AfterOwners(b)) /\ AfterOwners(b) <= tail /\ b < AfterOwners(b)
  BY <1>3, <1>7, <1>8, <1>11 DEF IsOwnerPage
<1>13. ASSUME NEW o \in known, b < owner[o].page
       PROVE  AfterOwners(b) # NoBlock /\ AfterOwners(b) <= owner[o].page
  <2>1. PICK c : c = owner[o].page
    OBVIOUS
  <2>2. IsOwnerPage(c) /\ c <= tail
    <3>1. o \in Owner /\ owner[o].pub # "None"
      BY <1>13 DEF ReadFacts
    <3> QED BY <1>1, <1>13, <2>1, <3>1, OwnerPages DEF WalkFacts
  <2>3. b # tail
    BY <1>2, <1>3, <1>4, <1>13, <2>1, <2>2 DEF IsOwnerPage
  <2> QED BY <1>3, <1>7, <1>11, <1>13, <2>1, <2>2, <2>3 DEF IsOwnerPage
<1> QED BY <1>1, <1>10, <1>12, <1>13

(* The walk loads a page, or follows the payload of an owner. *)
LEMMA WalkTurned ==
  ASSUME Reading, Loading, cur' = cur, OwnShape', fr.stage \in {"seek", "filter", "owners"},
         own'.at # NoBlock => IsOwnerPage(own'.at) /\ own'.at <= fr.ownerTail,
         fr.stage = "owners" => OwnersSound',
         fr.stage \in {"seek", "filter"} => UniverseSound'
  PROVE  ReaderSound'
<1>1. /\ Open' /\ ReadFacts' /\ CopySound' /\ Answered'
      /\ CursorsSound' /\ cur' \in [Term -> CursorRecord]
  BY LoadingKeeps
<1>2. fr' = fr /\ known' = known
  BY DEF Loading
<1>3. Captures
  BY <1>2 DEF Captures
<1>4. WalkFacts'
  BY <1>2, <1>3, WalkFactsKept
<1>5. WalkSound'
  BY <1>2, <1>4 DEF WalkSound
<1> QED BY <1>1, <1>5 DEF ReaderSound

(* What a step of the reader leaves of a slot *)
LEMMA SlotsRest ==
  ASSUME Reading, Captures, known' = known
  PROVE  /\ \A o : (Live(o)' <=> Live(o)) /\ (Used(o)' <=> Used(o)) /\ (Fits(o)' <=> Fits(o))
         /\ \A o : Outside(o)' <=> Outside(o)
         /\ Beyonds' = Beyonds
         /\ \A o, i, f : PayloadAt(o, i, f)' <=> PayloadAt(o, i, f)
<1>1. page' = page /\ owner' = owner /\ heap' = heap
  BY ReadingIs
<1>2. fr'.prog = fr.prog /\ fr'.after = fr.after
  BY DEF Captures
<1>3. \A o : Live(o)' <=> Live(o)
  BY <1>1 DEF Live
<1>4. \A o : (Used(o)' <=> Used(o)) /\ (Fits(o)' <=> Fits(o)) /\ (Outside(o)' <=> Outside(o))
  BY <1>1, <1>2, <1>3 DEF Used, Fits, Outside
<1>5. Beyonds' = Beyonds
  BY <1>2, <1>3 DEF Beyonds
<1>6. \A o, i, f : PayloadAt(o, i, f)' <=> PayloadAt(o, i, f)
  BY <1>1, <1>3 DEF PayloadAt, Fragments
<1> QED BY <1>3, <1>4, <1>5, <1>6

(* Owners::seek() loads the next owner page. *)
LEMMA UniverseLoadStep ==
  ASSUME Reading, UniverseLoad
  PROVE  ReaderSound'
<1>0. /\ StoreInv /\ Paged /\ GenSound /\ ReadFacts /\ WalkFacts /\ WalkSound /\ OwnShape
      /\ owner' = owner /\ FrontierInv /\ Open
  BY ReadingIs DEF WalkSound, Reading
<1>1. PICK L, n, b : L = {o \in SlotsOf(own.at) : Live(o)} /\ n = AfterOwners(own.at) /\ b = own.at
  OBVIOUS
<1>2. /\ own' = [own EXCEPT !.left = L, !.at = n] /\ Loading /\ cur' = cur
      /\ SeekReady /\ Universe(fr.prog) /\ Beyond = {} /\ b # NoBlock /\ fr.stage = "seek"
  BY <1>1 DEF UniverseLoad, Loading, UniverseBehind, SeekReady
<1>3. own'.at = n /\ own'.left = L /\ own'.owner = own.owner /\ OwnShape'
  BY <1>0, <1>2 DEF OwnShape
<1>4. UniverseSound
  BY <1>0, <1>2 DEF WalkSound
<1>5. /\ n # NoBlock => IsOwnerPage(n) /\ n <= fr.ownerTail /\ b < n
      /\ \A o \in known : b < owner[o].page => n # NoBlock /\ n <= owner[o].page
  BY <1>0, <1>1, <1>2, WalkOn
<1>6. Captures /\ fr' = fr /\ known' = known
  BY <1>2 DEF Loading, Captures
<1>7. Beyonds' = Beyonds /\ \A o : Fits(o)' <=> Fits(o)
  BY <1>6, SlotsRest
<1>8. \A o \in L : o \in Owner /\ owner[o].pub # "None" /\ owner[o].page = b
  BY <1>1 DEF SlotsOf, Live
<1>9. ASSUME NEW o \in Beyonds, o >= fr.target, Fits(o)
      PROVE  o \in L \/ (n # NoBlock /\ n <= owner[o].page)
  <2>1. o \in known /\ fr.after < o /\ Live(o) /\ o \in Owner
    BY <1>0, <1>9 DEF Beyonds, ReadFacts
  <2>2. Bound <= o
    BY <1>0, <1>2, <1>9, <2>1, BoundBelow
  <2>3. Bound \in Nat /\ o \in Nat /\ fr.after \in Nat
    BY <1>0, <2>1, BoundIs, ReadNumbers, ReadingIs
  <2>4. o \notin own.left
    BY <1>2, <2>2, <2>3 DEF Beyond
  <2>5. b <= owner[o].page
    BY <1>1, <1>4, <1>9, <2>4 DEF UniverseSound, Coming
  <2>6. CASE owner[o].page = b
    <3>1. o > fr.after
      BY <2>1, <2>3
    <3> QED BY <1>1, <2>1, <2>6, <3>1 DEF SlotsOf
  <2>7. CASE owner[o].page # b
    <3>1. PICK p : p = owner[o].page
      OBVIOUS
    <3>2. p \in Nat /\ b \in Nat
      <4>1. IsOwnerPage(p) /\ IsOwnerPage(b)
        BY <1>0, <1>1, <1>2, <2>1, <3>1, OwnerPages DEF WalkFacts, Live
      <4> QED BY <4>1, BoundAssumption DEF IsOwnerPage, Block
    <3>3. b < p
      BY <2>5, <2>7, <3>1, <3>2
    <3> QED BY <1>5, <2>1, <3>1, <3>3
  <2> QED BY <2>6, <2>7
<1>10. UniverseSound'
  <2>1. own'.owner = NoOwner
    BY <1>3, <1>4 DEF UniverseSound
  <2>2. \A o \in own'.left : /\ o \in Owner /\ owner'[o].pub # "None"
                             /\ own'.at # NoBlock => owner'[o].page < own'.at
    BY <1>0, <1>3, <1>5, <1>8
  <2>3. \A o \in Beyonds' : o >= fr'.target /\ Fits(o)' => o \in own'.left \/ Coming(o)'
    BY <1>0, <1>3, <1>6, <1>7, <1>9 DEF Coming
  <2> QED BY <2>1, <2>2, <2>3 DEF UniverseSound
<1>11. own'.at # NoBlock => IsOwnerPage(own'.at) /\ own'.at <= fr.ownerTail
  BY <1>3, <1>5
<1> QED BY <1>2, <1>3, <1>10, <1>11, WalkTurned

(* The scan goes on over the cursors; the walk stays where it is. *)
LEMMA ScanAdvances ==
  ASSUME Reading, Advancing, own' = own, sealed' = sealed, CopySound',
         fr.stage \in {"seek", "filter"}, fr'.stage \in {"seek", "filter", "done"},
         emitted' \in {emitted, emitted \cup {fr.target}},
         fr.target \in emitted' /\ fr.target \in known => Fits(fr.target),
         \A o \in known : Used(o) /\ Fits(o) /\ Pledged(o) => o \in emitted' \/ Pledged(o)'
  PROVE  ReaderSound'
<1>0. /\ ReadFacts /\ GenSound /\ WalkFacts /\ UniverseSound /\ OwnShape /\ Answered
      /\ owner' = owner
  BY ReadingIs DEF WalkSound
<1>1. Open' /\ ReadFacts' /\ CursorsSound' /\ cur' \in [Term -> CursorRecord]
  BY AdvancingKeeps
<1>2. /\ Captures /\ known' = known /\ fr.target <= fr'.target /\ fr'.target \in Nat
      /\ fr'.after = fr.after
  BY DEF Advancing, Captures
<1>3. /\ \A o : (Live(o)' <=> Live(o)) /\ (Used(o)' <=> Used(o)) /\ (Fits(o)' <=> Fits(o))
      /\ Beyonds' = Beyonds
  BY <1>2, SlotsRest
<1>4. /\ fr.target \in Nat /\ fr.id \in Nat /\ fr.after \in Nat /\ fr.id < fr.target
      /\ fr.after < fr.id /\ known \subseteq Nat
  BY <1>0, ReadNumbers
<1>5. WalkFacts'
  BY <1>0, <1>2, WalkFactsKept DEF WalkFacts
<1>6. UniverseSound'
  <2>1. ASSUME NEW o \in Beyonds, o >= fr'.target, Fits(o) PROVE o \in own.left \/ Coming(o)
    <3>1. o \in Nat
      BY <1>4 DEF Beyonds
    <3>2. PICK x, y : x = fr.target /\ y = fr'.target
      OBVIOUS
    <3>3. o >= x
      BY <1>2, <1>4, <2>1, <3>1, <3>2
    <3> QED BY <1>0, <2>1, <3>2, <3>3 DEF UniverseSound
  <2>2. \A o : Coming(o)' <=> Coming(o)
    BY <1>0 DEF Coming
  <2> QED BY <1>0, <1>3, <2>1, <2>2 DEF UniverseSound
<1>7. WalkSound'
  BY <1>5, <1>6 DEF WalkSound
<1>8. Answered'
  <2>1. \A o \in sealed' : o \in Owner /\ o <= fr'.after
    BY <1>0, <1>2 DEF Answered
  <2>2. \A o \in emitted' : fr'.after < o
    <3>1. fr.after < fr.target
      BY <1>4
    <3> QED BY <1>0, <1>2, <3>1 DEF Answered
  <2>3. \A o \in known' \cap (sealed' \cup emitted') : Fits(o)'
    BY <1>0, <1>2, <1>3 DEF Answered
  <2>4. \A o \in known' : Used(o)' /\ Fits(o)' => o \in sealed' \cup emitted' \/ Pledged(o)'
    BY <1>0, <1>2, <1>3 DEF Answered
  <2> QED BY <2>1, <2>2, <2>3, <2>4 DEF Answered
<1>9. OwnShape'
  BY <1>0 DEF OwnShape
<1> QED BY <1>1, <1>7, <1>8, <1>9 DEF ReaderSound

(* seek(): no document that matches is passed. *)
LEMMA NextOwnerBelow ==
  ASSUME FrontierInv, Open, SeekReady, Bound = 0 \/ ~UniverseBehind
  PROVE  /\ NextOwner \in Nat /\ (NextOwner = NoOwner \/ fr.target <= NextOwner)
         /\ \A o \in known : Used(o) /\ Fits(o) /\ Pledged(o) => NextOwner # NoOwner /\ NextOwner <= o
<1>0. /\ StoreInv /\ Paged /\ ReadFacts /\ GenSound /\ WalkFacts /\ UniverseSound
      /\ cur \in [Term -> CursorRecord] /\ fr.stage = "seek"
  BY DEF FrontierInv, GroundInv, ReaderSound, SeekReady, WalkSound
<1>1. PICK n, B, x : n = Bound /\ B = Beyond /\ x = fr.target
  OBVIOUS
<1>2. n \in Nat /\ (n = 0 \/ x <= n) /\ x \in Nat
  BY <1>0, <1>1, BoundIs, ReadNumbers
<1>3. /\ known \subseteq Owner /\ Owner \subseteq Nat /\ 0 \notin Owner /\ NoOwner = 0
  BY <1>0, ReadNumbers
<1>4. own.left \subseteq Owner
  BY <1>0 DEF UniverseSound
<1>5. B = {o \in own.left : o >= n} /\ B \in SUBSET Nat /\ B \subseteq Owner
  BY <1>1, <1>3, <1>4 DEF Beyond
<1>6. B # {} => Min(B) \in B /\ \A o \in B : Min(B) <= o
  BY <1>5, MinIs
<1>7. NextOwner = IF n = 0 THEN 0
                  ELSE IF Universe(fr.prog) THEN IF B = {} THEN 0 ELSE Min(B)
                  ELSE n
  BY <1>1, <1>3 DEF NextOwner
<1>8. NextOwner \in Nat /\ (NextOwner = 0 \/ x <= NextOwner)
  <2>1. CASE n # 0 /\ Universe(fr.prog) /\ B # {}
    <3>1. PICK k : k = Min(B)
      OBVIOUS
    <3>2. k \in Nat /\ n <= k
      BY <1>2, <1>5, <1>6, <2>1, <3>1
    <3>3. x <= k
      BY <1>2, <2>1, <3>2
    <3> QED BY <1>7, <2>1, <3>1, <3>2, <3>3
  <2>2. CASE ~(n # 0 /\ Universe(fr.prog) /\ B # {})
    BY <1>2, <1>7, <2>2
  <2> QED BY <2>1, <2>2
<1>9. ASSUME NEW o \in known, Used(o), Fits(o), Pledged(o)
      PROVE  NextOwner # 0 /\ NextOwner <= o
  <2>1. fr.after < o /\ fr.target <= o /\ o \in Nat /\ o \in Owner /\ Live(o)
    BY <1>0, <1>3, <1>9 DEF Pledged, Used
  <2>2. n # 0 /\ n <= o
    BY <1>0, <1>1, <1>2, <1>9, <2>1, BoundBelow
  <2>3. CASE ~Universe(fr.prog)
    BY <1>7, <2>2, <2>3
  <2>4. CASE Universe(fr.prog)
    <3>1. o \in Beyonds /\ o >= fr.target
      BY <1>1, <1>2, <2>1 DEF Beyonds
    <3>2. CASE o \in own.left
      <4>1. o \in B
        BY <1>2, <1>5, <2>1, <2>2, <3>2
      <4> QED BY <1>3, <1>5, <1>6, <1>7, <2>2, <2>4, <4>1
    <3>3. CASE Coming(o)
      <4>1. B # {}
        BY <1>1, <2>2, <2>4, <3>3 DEF Coming, UniverseBehind
      <4>2. PICK k, p, q, b : k = Min(B) /\ p = owner[k].page /\ q = owner[o].page /\ b = own.at
        OBVIOUS
      <4>3. k \in Owner /\ k \in own.left /\ k \in Nat /\ k # 0
        BY <1>3, <1>5, <1>6, <4>1, <4>2
      <4>4. owner[k].pub # "None" /\ p < b /\ b <= q
        BY <1>0, <3>3, <4>2, <4>3 DEF UniverseSound, Coming
      <4>5. p \in Nat /\ q \in Nat /\ b \in Nat
        <5>1. owner[o].pub # "None"
          BY <2>1 DEF Live
        <5>2. IsOwnerPage(p) /\ IsOwnerPage(q) /\ IsOwnerPage(b)
          BY <1>0, <2>1, <3>3, <4>2, <4>3, <4>4, <5>1, OwnerPages DEF WalkFacts, Coming
        <5> QED BY <5>2, BoundAssumption DEF IsOwnerPage, Block
      <4>6. ~(o < k)
        <5>1. SUFFICES ASSUME o < k PROVE FALSE
          OBVIOUS
        <5>2. q <= p
          BY <1>0, <2>1, <4>2, <4>3, <4>4, <5>1 DEF Paged, SlotsAscend, Live
        <5> QED BY <4>4, <4>5, <5>2
      <4>7. k <= o
        BY <2>1, <4>3, <4>6
      <4> QED BY <1>7, <2>2, <2>4, <4>1, <4>2, <4>3, <4>7
    <3> QED BY <1>0, <1>9, <3>1, <3>2, <3>3 DEF UniverseSound
  <2> QED BY <2>3, <2>4
<1> QED BY <1>1, <1>3, <1>8, <1>9

(* seek() comes to the next owner, or to the end. *)
LEMMA SeekDoneStep ==
  ASSUME Reading, SeekDone
  PROVE  ReaderSound'
<1>0. /\ ReadFacts /\ GenSound /\ CopySound /\ Answered /\ ReaderShape /\ FrontierInv /\ Open /\ owner' = owner
  BY ReadingIs DEF Reading
<1>1. PICK n, x : n = NextOwner /\ x = fr.target
  OBVIOUS
<1>2. /\ SeekReady /\ (Bound = 0 \/ ~UniverseBehind) /\ fr.stage = "seek"
      /\ own' = own /\ cur' = cur /\ img' = img /\ sealed' = sealed /\ emitted' = emitted /\ known' = known
      /\ fr' = IF n = NoOwner THEN [fr EXCEPT !.stage = "done"]
               ELSE IF n = x THEN [fr EXCEPT !.stage = "filter"]
               ELSE [fr EXCEPT !.target = n]
  BY <1>1 DEF SeekDone, SeekReady
<1>3. /\ n \in Nat /\ (n = NoOwner \/ x <= n)
      /\ \A o \in known : Used(o) /\ Fits(o) /\ Pledged(o) => n # NoOwner /\ n <= o
  BY <1>0, <1>1, <1>2, NextOwnerBelow
<1>4. x \in Nat /\ fr.todo = {}
  BY <1>0, <1>1, <1>2 DEF ReadFacts
<1>5. /\ Captures /\ fr'.todo = fr.todo /\ fr'.target \in Nat /\ x <= fr'.target
      /\ fr'.stage \in {"seek", "filter", "done"}
      /\ fr'.stage = "done" => n = NoOwner
      /\ n # NoOwner => fr'.target = n
  <2>1. CASE n = NoOwner
    <3>1. fr' = [fr EXCEPT !.stage = "done"]
      BY <1>2, <2>1
    <3>2. Captures /\ fr'.todo = fr.todo /\ fr'.target = x /\ fr'.stage = "done"
      BY <1>0, <1>1, <3>1 DEF Captures, ReaderShape
    <3> QED BY <1>4, <2>1, <3>2
  <2>2. CASE n # NoOwner /\ n = x
    <3>1. fr' = [fr EXCEPT !.stage = "filter"]
      BY <1>2, <2>2
    <3>2. Captures /\ fr'.todo = fr.todo /\ fr'.target = x /\ fr'.stage = "filter"
      BY <1>0, <1>1, <3>1 DEF Captures, ReaderShape
    <3> QED BY <1>4, <2>2, <3>2
  <2>3. CASE n # NoOwner /\ n # x
    <3>1. fr' = [fr EXCEPT !.target = n]
      BY <1>2, <2>3
    <3>2. Captures /\ fr'.todo = fr.todo /\ fr'.target = n /\ fr'.stage = "seek"
      BY <1>0, <1>2, <3>1 DEF Captures, ReaderShape
    <3> QED BY <1>3, <2>3, <3>2
  <2> QED BY <2>1, <2>2, <2>3
<1>6. Advancing
  BY <1>1, <1>2, <1>4, <1>5 DEF Advancing
<1>7. CopySound'
  BY <1>0, <1>2 DEF CopySound, Live
<1>8. ASSUME NEW o \in known, Used(o), Fits(o), Pledged(o) PROVE Pledged(o)'
  <2>1. n # NoOwner /\ n <= o /\ fr.after < o
    BY <1>3, <1>8 DEF Pledged
  <2> QED BY <1>5, <2>1 DEF Pledged, Captures
<1>9. x \in emitted' /\ x \in known => Fits(x)
  BY <1>0, <1>2 DEF Answered
<1> QED BY <1>1, <1>2, <1>5, <1>6, <1>7, <1>8, <1>9, ScanAdvances

-----------------------------------------------------------------------------
(* Membership of the target, and resolve() *)

(* The cursors know what the target has of the program's terms. *)
LEMMA HitIs ==
  ASSUME FrontierInv, Open, FilterReady, fr.target \in known
  PROVE  Hit <=> Fits(fr.target)
<1>0. /\ ReadFacts /\ GenSound /\ CursorsSound /\ cur \in [Term -> CursorRecord]
  BY DEF FrontierInv, GroundInv, ReaderSound
<1>1. fr.stage = "filter" /\ BehindTerms = {} /\ Sought = Names(fr.prog)
  BY DEF FilterReady, Sought
<1>2. fr.prog \in Program /\ Names(fr.prog) \subseteq Term
  BY <1>0, ProgramIs DEF ReadFacts
<1>3. PICK o, S, T : o = fr.target /\ S = Member /\ T = owner[o].doc.terms
  OBVIOUS
<1>4. o \in Nat /\ o # 0
  BY <1>0, <1>3, ReadNumbers
<1>5. ASSUME NEW t \in Names(fr.prog) PROVE t \in S <=> t \in T
  <2>1. PICK c, n, K : c = cur[t] /\ n = Current[t] /\ K = KnownOf(t)
    OBVIOUS
  <2>2. n \in Nat /\ (n = 0 \/ o <= n) /\ (n # 0 => n \in c.refs)
    BY <1>0, <1>2, <1>3, <2>1, CurrentFacts
  <2>3. ASSUME t \in T PROVE n = o
    <3>1. o \in K /\ o >= o
      BY <1>3, <1>4, <2>1, <2>3 DEF KnownOf
    <3>2. n # 0 /\ n <= o
      BY <1>1, <1>3, <2>1, <3>1, CurrentBelow
    <3> QED BY <1>4, <2>2, <3>2
  <2>4. ASSUME n = o PROVE t \in T
    <3>1. o \in c.refs
      BY <1>4, <2>2, <2>4
    <3>2. CursorAt(t, c, K)
      BY <1>0, <2>1 DEF CursorsSound
    <3>3. c.opened /\ ~c.anchored
      BY <1>1, <2>1 DEF BehindTerms
    <3>4. Placed(t, c, Owing(c, K))
      BY <1>1, <3>2, <3>3 DEF CursorAt, Waiting, Anchored
    <3>5. Refers(t, o)
      BY <3>1, <3>4 DEF Placed
    <3> QED BY <1>3, <3>5 DEF Refers
  <2> QED BY <1>3, <2>1, <2>3, <2>4 DEF Member
<1>6. Matches(fr.prog, S) <=> Matches(fr.prog, T)
  BY <1>2, <1>5, MatchesNamed
<1> QED BY <1>3, <1>6 DEF Hit, Fits

(* The target has been decided. *)
LEMMA TargetDecided ==
  ASSUME Reading, FilterReady, fr' = Advanced, own' = own, cur' = cur, known' = known,
         sealed' = sealed, CopySound',
         emitted' \in {emitted, emitted \cup {fr.target}},
         emitted' # emitted => Hit,
         fr.target \in known /\ Used(fr.target) /\ Hit => fr.target \in emitted'
  PROVE  ReaderSound'
<1>0. /\ ReadFacts /\ GenSound /\ Answered /\ ReaderShape /\ FrontierInv /\ Open
  BY ReadingIs DEF Reading
<1>1. PICK x : x = fr.target
  OBVIOUS
<1>2. fr.stage = "filter" /\ fr.todo = {} /\ x \in Nat
  BY <1>0, <1>1 DEF FilterReady, ReadFacts
<1>3. fr' = [fr EXCEPT !.target = x + 1, !.stage = "seek"]
  BY <1>1 DEF Advanced
<1>4. Captures /\ fr'.todo = {} /\ fr'.target = x + 1 /\ fr'.stage = "seek" /\ fr'.after = fr.after
  BY <1>0, <1>2, <1>3 DEF Captures, ReaderShape
<1>5. x + 1 \in Nat /\ x <= x + 1
  BY <1>2
<1>6. Advancing
  BY <1>1, <1>2, <1>4, <1>5 DEF Advancing
<1>7. x \in known => (Hit <=> Fits(x))
  BY <1>0, <1>1, HitIs
<1>8. x \in emitted' /\ x \in known => Fits(x)
  <2>1. x \in emitted /\ x \in known => Fits(x)
    BY <1>0 DEF Answered
  <2> QED BY <1>1, <1>7, <2>1
<1>9. ASSUME NEW o \in known, Used(o), Fits(o), Pledged(o) PROVE o \in emitted' \/ Pledged(o)'
  <2>1. fr.after < o /\ x <= o /\ o \in Nat
    <3>1. known \subseteq Nat
      BY <1>0, ReadNumbers
    <3> QED BY <1>1, <1>2, <1>9, <3>1 DEF Pledged
  <2>2. CASE o = x
    BY <1>1, <1>7, <1>9, <2>2
  <2>3. CASE o # x
    <3>1. x + 1 <= o
      BY <1>2, <2>1, <2>3
    <3> QED BY <1>4, <2>1, <3>1 DEF Pledged
  <2> QED BY <2>2, <2>3
<1> QED BY <1>1, <1>2, <1>4, <1>6, <1>8, <1>9, ScanAdvances

(* The steps that decide it *)
LEMMA FilterStep ==
  ASSUME Reading, FilterMiss \/ FilterUniverse \/ FilterResolve
  PROVE  ReaderSound'
<1>0. CopySound /\ ReadFacts /\ owner' = owner
  BY ReadingIs
<1>1. img' = img /\ known' = known => CopySound'
  BY <1>0 DEF CopySound, Live
<1>2. CASE FilterMiss
  BY <1>1, <1>2, TargetDecided DEF FilterMiss
<1>3. CASE FilterUniverse
  BY <1>1, <1>3, TargetDecided DEF FilterUniverse
<1>4. CASE FilterResolve
  <2>1. PICK x, copy : x = fr.target /\ copy = IF Cached(x) THEN img ELSE OwnerPage(x)
    OBVIOUS
  <2>2. /\ FilterReady /\ Hit /\ img' = copy /\ fr' = Advanced
        /\ emitted' = IF x \in copy.live THEN emitted \cup {x} ELSE emitted
        /\ cur' = cur /\ own' = own /\ sealed' = sealed /\ known' = known
    BY <1>4, <2>1 DEF FilterResolve
  <2>3. \A o \in known : Live(o) /\ o \in copy.slots => o \in copy.live
    <3>1. CASE Cached(x)
      BY <1>0, <2>1, <3>1 DEF CopySound
    <3>2. CASE ~Cached(x)
      <4>1. copy = OwnerPage(x)
        BY <2>1, <3>2
      <4> QED BY <4>1 DEF OwnerPage
    <3> QED BY <3>1, <3>2
  <2>4. x \in known => x \in copy.slots
    <3>1. x \in known => x \in Owner
      BY <1>0 DEF ReadFacts
    <3>2. CASE Cached(x)
      BY <2>1, <3>2 DEF Cached
    <3>3. CASE ~Cached(x)
      <4>1. copy = OwnerPage(x)
        BY <2>1, <3>3
      <4> QED BY <3>1, <4>1 DEF OwnerPage
    <3> QED BY <3>2, <3>3
  <2>5. CopySound'
    BY <1>0, <2>2, <2>3 DEF CopySound, Live
  <2>6. x \in known /\ Used(x) => x \in emitted'
    BY <2>2, <2>3, <2>4 DEF Used
  <2>7. emitted' \in {emitted, emitted \cup {x}}
    BY <2>2
  <2> QED BY <2>1, <2>2, <2>5, <2>6, <2>7, TargetDecided
<1> QED BY <1>2, <1>3, <1>4

-----------------------------------------------------------------------------
(* The owner frontier *)

(* A slot has a fragment count. *)
LEMMA FragmentCount ==
  ASSUME StoreInv, NEW o \in Owner
  PROVE  owner[o].doc.frags \in Nat
<1>1. owner[o] \in OwnerRecord
  BY DEF StoreInv, StoreOK, TypeOK
<1> QED BY <1>1, DocumentFacts DEF OwnerRecord

(* A copy of an owner page decides its documents, or queues them. *)
LEMMA OwnersLoadStep ==
  ASSUME Reading, OwnersLoad
  PROVE  ReaderSound'
<1>0. /\ StoreInv /\ Paged /\ GenSound /\ ReadFacts /\ WalkFacts /\ WalkSound /\ OwnShape
      /\ owner' = owner
  BY ReadingIs DEF WalkSound
<1>1. PICK S, b : S = {o \in SlotsOf(own.at) : o < fr.next /\ Live(o)} /\ b = own.at
  OBVIOUS
<1>2. PICK L, M, n :
        /\ L = {[owner |-> o, head |-> owner[o].head] : o \in {q \in S : owner[q].doc.frags > 0}}
        /\ M = own.out \cup {o \in S : owner[o].doc.frags = 0 /\ Matches(fr.prog, owner[o].doc.terms)}
        /\ n = IF \E o \in SlotsOf(b) : o >= fr.next THEN NoBlock ELSE AfterOwners(b)
  OBVIOUS
<1>3. /\ own' = [own EXCEPT !.left = L, !.out = M, !.at = n] /\ Loading /\ cur' = cur
      /\ OwnersReady /\ b # NoBlock /\ fr.stage = "owners"
      /\ own.owner = NoOwner /\ own.left = {}
  BY <1>1, <1>2 DEF OwnersLoad, Loading, OwnersReady
<1>4. own'.at = n /\ own'.left = L /\ own'.out = M /\ own'.owner = NoOwner /\ OwnShape'
  BY <1>0, <1>3 DEF OwnShape
<1>5. OwnersSound
  BY <1>0, <1>3 DEF WalkSound
<1>6. /\ AfterOwners(b) # NoBlock => IsOwnerPage(AfterOwners(b)) /\ AfterOwners(b) <= fr.ownerTail
      /\ \A o \in known : b < owner[o].page => AfterOwners(b) # NoBlock /\ AfterOwners(b) <= owner[o].page
  BY <1>0, <1>1, <1>3, WalkOn
<1>7. fr' = fr /\ known' = known /\ Captures
  BY <1>3 DEF Loading, Captures
<1>8. /\ \A o : (Live(o)' <=> Live(o)) /\ (Fits(o)' <=> Fits(o)) /\ (Outside(o)' <=> Outside(o))
      /\ Beyonds' = Beyonds
  BY <1>7, SlotsRest
<1>9. known \subseteq Owner /\ Owner \subseteq Nat /\ 0 \notin Owner /\ NoOwner = 0 /\ fr.after \in Nat
      /\ fr.next \in Nat
  BY <1>0, ReadNumbers DEF ReadFacts
<1>10. \A o \in S : Outside(o) /\ Live(o) /\ owner[o].pub = "Published" /\ o \in Owner
  BY <1>1, <1>9 DEF SlotsOf, Outside, Live
<1>11. \A o \in M : Outside(o) /\ Fits(o)
  BY <1>2, <1>5, <1>10 DEF OwnersSound, Fits
<1>12. \A s \in L : /\ Outside(s.owner) /\ owner[s.owner].pub = "Published"
                    /\ owner[s.owner].doc.frags > 0 /\ s.head = owner[s.owner].head
  BY <1>2, <1>10
<1>13. ASSUME NEW o \in Beyonds
       PROVE  \/ o \in M \/ (n # NoBlock /\ n <= owner[o].page) \/ ~Fits(o)
              \/ \E s \in L : o = s.owner
  <2>1. o \in known /\ fr.after < o /\ Live(o) /\ o \in Owner /\ o < fr.next
    BY <1>0, <1>13 DEF Beyonds, ReadFacts
  <2>2. o # own.owner /\ ~\E s \in own.left : o = s.owner
    BY <1>3, <1>9, <2>1
  <2>3. CASE Coming(o)
    <3>1. PICK p : p = owner[o].page
      OBVIOUS
    <3>2. b <= p
      BY <1>1, <2>3, <3>1 DEF Coming
    <3>3. CASE p = b
      <4>1. o > fr.after
        BY <1>9, <2>1
      <4>2. o \in S
        BY <1>1, <2>1, <3>1, <3>3, <4>1 DEF SlotsOf
      <4>3. owner[o].doc.frags \in Nat
        BY <1>0, <2>1, FragmentCount
      <4>4. CASE owner[o].doc.frags = 0
        BY <1>2, <4>2, <4>4 DEF Fits
      <4>5. CASE owner[o].doc.frags > 0
        <5>1. [owner |-> o, head |-> owner[o].head] \in L
          BY <1>2, <4>2, <4>5
        <5> QED BY <5>1
      <4> QED BY <4>3, <4>4, <4>5
    <3>4. CASE p # b
      <4>1. p \in Nat /\ b \in Nat
        <5>1. IsOwnerPage(p) /\ IsOwnerPage(b)
          BY <1>0, <1>1, <1>3, <2>1, <3>1, OwnerPages DEF WalkFacts, Live
        <5> QED BY <5>1, BoundAssumption DEF IsOwnerPage, Block
      <4>2. b < p
        BY <3>2, <3>4, <4>1
      <4>3. ASSUME NEW q \in SlotsOf(b), q >= fr.next PROVE FALSE
        <5>1. q \in Owner /\ owner[q].page = b
          BY DEF SlotsOf
        <5>2. owner[q].pub # "None"
          BY <1>0, <1>3, <5>1 DEF Paged, SlotsUnused
        <5>3. o < q
          BY <1>9, <2>1, <4>3, <5>1
        <5>4. p <= b
          BY <1>0, <2>1, <3>1, <5>1, <5>2, <5>3 DEF Paged, SlotsAscend, Live
        <5> QED BY <4>1, <4>2, <5>4
      <4>4. n = AfterOwners(b)
        BY <1>2, <4>3
      <4> QED BY <1>6, <2>1, <3>1, <4>2, <4>4
    <3> QED BY <3>3, <3>4
  <2> QED BY <1>2, <1>5, <2>2, <2>3 DEF OwnersSound
<1>14. OwnersSound'
  <2>1. \A o \in own'.out : Outside(o)' /\ Fits(o)'
    BY <1>4, <1>8, <1>11
  <2>2. \A s \in own'.left : /\ Outside(s.owner)' /\ owner'[s.owner].pub = "Published"
                             /\ owner'[s.owner].doc.frags > 0
                             /\ Live(s.owner)' => s.head = owner'[s.owner].head
    BY <1>0, <1>4, <1>8, <1>12
  <2>3. \A o \in Beyonds' : \/ o \in own'.out \/ o = own'.owner \/ Coming(o)' \/ ~Fits(o)'
                            \/ \E s \in own'.left : o = s.owner
    BY <1>0, <1>4, <1>8, <1>13 DEF Coming
  <2> QED BY <1>4, <2>1, <2>2, <2>3 DEF OwnersSound
<1>15. own'.at # NoBlock => IsOwnerPage(own'.at) /\ own'.at <= fr.ownerTail
  BY <1>2, <1>4, <1>6
<1> QED BY <1>3, <1>4, <1>14, <1>15, WalkTurned

(* The document has matched, or its payload is being read or queued. *)
Pursued(o) == o \in own.out \/ o = own.owner \/ \E s \in own.left : o = s.owner

(* A step of fragment_membership() leaves the walk where it is. *)
LEMMA PayloadTurned ==
  ASSUME Reading, Loading, cur' = cur, OwnShape', fr.stage = "owners", own'.at = own.at,
         own'.left \subseteq own.left,
         \A o \in own'.out : Outside(o) /\ Fits(o),
         own'.owner # NoOwner => /\ Outside(own'.owner) /\ owner[own'.owner].pub = "Published"
                                 /\ PayloadAt(own'.owner, own'.index, own'.frag),
         \A o \in Owner : Fits(o) /\ Pursued(o) => Pursued(o)'
  PROVE  ReaderSound'
<1>0. ReadFacts /\ WalkSound /\ OwnersSound /\ owner' = owner
  BY ReadingIs DEF WalkSound
<1>1. fr' = fr /\ known' = known /\ Captures
  BY DEF Loading, Captures
<1>2. /\ \A o : (Live(o)' <=> Live(o)) /\ (Fits(o)' <=> Fits(o)) /\ (Outside(o)' <=> Outside(o))
      /\ Beyonds' = Beyonds
      /\ \A o, i, f : PayloadAt(o, i, f)' <=> PayloadAt(o, i, f)
  BY <1>1, SlotsRest
<1>3. ASSUME own'.owner # NoOwner
      PROVE  /\ Outside(own.owner)' /\ owner'[own'.owner].pub = "Published"
             /\ PayloadAt(own.owner, own.index, own.frag)'
  <2>1. PICK o, i, f : o = own'.owner /\ i = own'.index /\ f = own'.frag
    OBVIOUS
  <2>2. Outside(o) /\ owner[o].pub = "Published" /\ PayloadAt(o, i, f)
    BY <1>3, <2>1
  <2>3. Outside(o)' /\ PayloadAt(o, i, f)'
    BY <1>2, <2>2
  <2> QED BY <1>0, <2>1, <2>2, <2>3 DEF Outside, PayloadAt
<1>4. ASSUME NEW o \in Beyonds
      PROVE  \/ o \in own'.out \/ o = own'.owner \/ Coming(o) \/ ~Fits(o)
             \/ \E s \in own'.left : o = s.owner
  <2>1. o \in Owner
    BY <1>0, <1>4 DEF Beyonds, ReadFacts
  <2>2. \/ o \in own.out \/ o = own.owner \/ Coming(o) \/ ~Fits(o)
        \/ \E s \in own.left : o = s.owner
    BY <1>0, <1>4 DEF OwnersSound
  <2> QED BY <2>1, <2>2 DEF Pursued
<1>5. OwnersSound'
  <2>1. \A o \in own'.out : Outside(o)' /\ Fits(o)'
    BY <1>2
  <2>2. \A s \in own'.left : /\ Outside(s.owner)' /\ owner'[s.owner].pub = "Published"
                             /\ owner'[s.owner].doc.frags > 0
                             /\ Live(s.owner)' => s.head = owner'[s.owner].head
    BY <1>0, <1>2 DEF OwnersSound
  <2>3. \A o \in Beyonds' : \/ o \in own'.out \/ o = own'.owner \/ Coming(o)' \/ ~Fits(o)'
                            \/ \E s \in own'.left : o = s.owner
    BY <1>0, <1>2, <1>4 DEF Coming
  <2> QED BY <1>3, <2>1, <2>2, <2>3 DEF OwnersSound
<1>6. own'.at # NoBlock => IsOwnerPage(own'.at) /\ own'.at <= fr.ownerTail
  BY <1>0 DEF WalkSound, WalkFacts
<1> QED BY <1>5, <1>6, WalkTurned

(* The payload of the next owner of the copy *)
LEMMA FragmentsBeginStep ==
  ASSUME Reading, FragmentsBegin
  PROVE  ReaderSound'
<1>0. StoreInv /\ WalkSound /\ OwnShape
  BY ReadingIs
<1>1. PICK s \in own.left :
        own' = [own EXCEPT !.left = @ \ {s}, !.owner = s.owner, !.frag = s.head, !.index = 0]
  BY DEF FragmentsBegin
<1>2. Loading /\ cur' = cur /\ fr.stage = "owners" /\ own.owner = NoOwner
  BY DEF FragmentsBegin, Loading
<1>3. /\ own'.left = own.left \ {s} /\ own'.owner = s.owner /\ own'.frag = s.head /\ own'.index = 0
      /\ own'.at = own.at /\ own'.out = own.out /\ OwnShape'
  BY <1>0, <1>1 DEF OwnShape
<1>4. OwnersSound
  BY <1>0, <1>2 DEF WalkSound
<1>5. PICK o, h : o = s.owner /\ h = s.head
  OBVIOUS
<1>6. /\ Outside(o) /\ owner[o].pub = "Published" /\ owner[o].doc.frags > 0 /\ o \in Owner
      /\ Live(o) => h = owner[o].head
  BY <1>4, <1>5 DEF OwnersSound, Outside
<1>7. owner[o].doc.frags \in Nat
  BY <1>0, <1>6, FragmentCount
<1>8. Live(o) => h \in Fragments(o) /\ page[h].index = 0
  BY <1>0, <1>6, LivePayloadFacts
<1>9. PayloadAt(o, 0, h)
  BY <1>6, <1>7, <1>8 DEF PayloadAt
<1>10. \A q \in own'.out : Outside(q) /\ Fits(q)
  BY <1>3, <1>4 DEF OwnersSound
<1>11. NoOwner \notin Owner
  BY BoundAssumption DEF Owner, NoOwner
<1>12. \A q \in Owner : Pursued(q) => Pursued(q)'
  BY <1>2, <1>3, <1>11 DEF Pursued
<1> QED BY <1>2, <1>3, <1>5, <1>6, <1>9, <1>10, <1>12, PayloadTurned

(* The next fragment of the payload *)
LEMMA FragmentReadStep ==
  ASSUME Reading, FragmentRead
  PROVE  ReaderSound'
<1>0. StoreInv /\ WalkSound /\ OwnShape
  BY ReadingIs
<1>1. PICK o, i, f, n, k : /\ o = own.owner /\ i = own.index /\ f = own.frag /\ n = page[f].next
                           /\ k = owner[o].doc.frags
  OBVIOUS
<1>2. /\ own' = [own EXCEPT !.index = i + 1, !.frag = n]
      /\ Loading /\ cur' = cur /\ fr.stage = "owners" /\ o # NoOwner /\ f # NoBlock /\ i < k
  BY <1>1 DEF FragmentRead, Loading, FragmentFits
<1>3. /\ own'.left = own.left /\ own'.owner = o /\ own'.frag = n /\ own'.index = i + 1
      /\ own'.at = own.at /\ own'.out = own.out /\ OwnShape'
  BY <1>0, <1>1, <1>2 DEF OwnShape
<1>4. OwnersSound
  BY <1>0, <1>2 DEF WalkSound
<1>5. Outside(o) /\ owner[o].pub = "Published" /\ PayloadAt(o, i, f) /\ o \in Owner
  BY <1>1, <1>2, <1>4 DEF OwnersSound, Outside
<1>6. k \in Nat
  BY <1>0, <1>1, <1>5, FragmentCount
<1>7. i \in Nat /\ i + 1 \in 0 .. k /\ i # k
  BY <1>1, <1>2, <1>5, <1>6 DEF PayloadAt
<1>8. ASSUME Live(o)
      PROVE  IF i + 1 = k THEN n = NoBlock ELSE n \in Fragments(o) /\ page[n].index = i + 1
  <2>1. f \in Fragments(o) /\ page[f].index = i
    BY <1>1, <1>5, <1>7, <1>8 DEF PayloadAt
  <2>2. IF n = NoBlock THEN i + 1 = k
        ELSE n \in Fragments(o) /\ page[n].index = i + 1
    BY <1>0, <1>1, <1>5, <1>8, <2>1, LivePayloadFacts
  <2>3. n \in Fragments(o) => page[n].index \in 0 .. (k - 1)
    BY <1>0, <1>1, <1>5, <1>8, LivePayloadFacts
  <2> QED BY <1>6, <1>7, <2>2, <2>3
<1>9. PayloadAt(o, i + 1, n)
  BY <1>1, <1>7, <1>8 DEF PayloadAt
<1>10. \A q \in own'.out : Outside(q) /\ Fits(q)
  BY <1>3, <1>4 DEF OwnersSound
<1>11. \A q : Pursued(q) => Pursued(q)'
  BY <1>1, <1>3 DEF Pursued
<1> QED BY <1>1, <1>2, <1>3, <1>5, <1>9, <1>10, <1>11, PayloadTurned

(* The payload is complete. *)
LEMMA FragmentsDoneStep ==
  ASSUME Reading, FragmentsDone
  PROVE  ReaderSound'
<1>0. StoreInv /\ WalkSound /\ OwnShape
  BY ReadingIs
<1>1. PICK o, M : o = own.owner /\ M = IF Fits(o) THEN own.out \cup {o} ELSE own.out
  OBVIOUS
<1>2. /\ own' = [own EXCEPT !.owner = NoOwner, !.index = 0, !.out = M]
      /\ Loading /\ cur' = cur /\ fr.stage = "owners" /\ o # NoOwner
  BY <1>1 DEF FragmentsDone, Loading, Fits
<1>3. /\ own'.left = own.left /\ own'.owner = NoOwner /\ own'.at = own.at /\ own'.out = M /\ OwnShape'
  BY <1>0, <1>2 DEF OwnShape
<1>4. OwnersSound
  BY <1>0, <1>2 DEF WalkSound
<1>5. Outside(o)
  BY <1>1, <1>2, <1>4 DEF OwnersSound
<1>6. \A q \in M : Outside(q) /\ Fits(q)
  BY <1>1, <1>4, <1>5 DEF OwnersSound
<1>7. own.out \subseteq M /\ (o \in M \/ ~Fits(o))
  BY <1>1
<1>8. \A q : Fits(q) /\ Pursued(q) => Pursued(q)'
  BY <1>1, <1>3, <1>7 DEF Pursued
<1> QED BY <1>1, <1>2, <1>3, <1>6, <1>8, PayloadTurned

(* A payload beyond the scratch memory: the cursors start over. *)
LEMMA OwnersFallBackStep ==
  ASSUME Reading, OwnersFallBack
  PROVE  ReaderSound'
<1>0. /\ StoreInv /\ Paged /\ GenSound /\ ReadFacts /\ WalkFacts /\ CopySound /\ Answered /\ ReaderShape
      /\ owner' = owner
  BY ReadingIs DEF WalkSound
<1>1. PICK b, x : b = FirstOwnerPage /\ x = fr.target
  OBVIOUS
<1>2. /\ fr.stage = "owners" /\ fr' = [fr EXCEPT !.stage = "seek"]
      /\ own' = [at |-> b, left |-> {}, owner |-> NoOwner, frag |-> NoBlock, index |-> 0, out |-> {}]
      /\ cur' = cur /\ img' = img /\ sealed' = sealed /\ emitted' = emitted /\ known' = known
  BY <1>1 DEF OwnersFallBack, NoOwners
<1>3. /\ Captures /\ fr'.stage = "seek" /\ fr'.todo = fr.todo /\ fr'.target = x /\ fr'.after = fr.after
  BY <1>0, <1>1, <1>2 DEF ReaderShape, Captures
<1>4. x \in Nat /\ x = fr.id + 1 /\ emitted = {} /\ fr.todo = {} /\ fr.id = gen.id /\ fr.after = gen.after
  BY <1>0, <1>1, <1>2 DEF ReadFacts
<1>5. Advancing
  BY <1>1, <1>2, <1>3, <1>4 DEF Advancing
<1>6. Open' /\ ReadFacts' /\ CursorsSound' /\ cur' \in [Term -> CursorRecord]
  BY <1>5, AdvancingKeeps
<1>7. own'.at = b /\ own'.left = {} /\ own'.owner = NoOwner /\ own'.out = {} /\ OwnShape'
  BY <1>2 DEF OwnShape
<1>8. /\ b # NoBlock => IsOwnerPage(b) /\ b <= fr.ownerTail
      /\ \A o \in known : fr.after < o => b # NoBlock /\ b <= owner[o].page
  BY <1>0, <1>1, FirstPage
<1>9. WalkFacts'
  BY <1>2, <1>3, <1>7, <1>8, WalkFactsKept
<1>10. \A o \in Beyonds' : Coming(o)'
  BY <1>0, <1>2, <1>3, <1>7, <1>8 DEF Beyonds, Coming
<1>11. UniverseSound'
  BY <1>7, <1>10 DEF UniverseSound
<1>12. WalkSound'
  BY <1>3, <1>9, <1>11 DEF WalkSound
<1>13. CopySound'
  BY <1>0, <1>2 DEF CopySound, Live
<1>14. \A o : (Fits(o)' <=> Fits(o)) /\ (Used(o)' <=> Used(o))
  BY <1>2, <1>3, SlotsRest
<1>15. ASSUME NEW o \in known, Pledged(o) PROVE Pledged(o)'
  <2>1. fr.after < o /\ o \in Owner /\ owner[o].pub # "None" /\ o \in Nat /\ fr.after \in Nat /\ fr.id \in Nat
    BY <1>0, <1>15, ReadNumbers DEF Pledged, ReadFacts
  <2>2. o <= fr.after \/ fr.id < o
    BY <1>0, <1>4, <2>1 DEF GenSound, GenFence
  <2>3. x <= o
    BY <1>4, <2>1, <2>2
  <2> QED BY <1>3, <2>1, <2>3 DEF Pledged
<1>16. Answered'
  <2>1. \A o \in sealed' : o \in Owner /\ o <= fr'.after
    BY <1>0, <1>2, <1>3 DEF Answered
  <2>2. emitted' = {}
    BY <1>2, <1>4
  <2>3. \A o \in known' \cap sealed' : Fits(o)'
    BY <1>0, <1>2, <1>14 DEF Answered
  <2>4. \A o \in known' : Used(o)' /\ Fits(o)' => o \in sealed' \cup emitted' \/ Pledged(o)'
    BY <1>0, <1>2, <1>14, <1>15 DEF Answered
  <2> QED BY <2>1, <2>2, <2>3, <2>4 DEF Answered
<1> QED BY <1>6, <1>7, <1>12, <1>13, <1>16 DEF ReaderSound

(* Every page has been visited: the matches are the answer. *)
LEMMA OwnersEmitStep ==
  ASSUME Reading, OwnersEmit
  PROVE  ReaderSound'
<1>0. /\ ReadFacts /\ GenSound /\ WalkFacts /\ WalkSound /\ CopySound /\ Answered /\ ReaderShape /\ OwnShape
      /\ owner' = owner
  BY ReadingIs DEF WalkSound
<1>1. /\ fr.stage = "owners" /\ own.owner = NoOwner /\ own.left = {} /\ own.at = NoBlock
      /\ fr' = [fr EXCEPT !.stage = "done"] /\ emitted' = own.out
      /\ cur' = cur /\ own' = own /\ img' = img /\ sealed' = sealed /\ known' = known
  BY DEF OwnersEmit, OwnersReady
<1>2. /\ Captures /\ fr'.stage = "done" /\ fr'.todo = fr.todo /\ fr'.target = fr.target /\ fr'.after = fr.after
  BY <1>0, <1>1 DEF ReaderShape, Captures
<1>3. fr.target \in Nat /\ fr.todo = {} /\ emitted = {}
  BY <1>0, <1>1 DEF ReadFacts
<1>4. Advancing
  BY <1>1, <1>2, <1>3 DEF Advancing
<1>5. Open' /\ ReadFacts' /\ CursorsSound' /\ cur' \in [Term -> CursorRecord]
  BY <1>4, AdvancingKeeps
<1>6. WalkSound'
  <2>1. WalkFacts'
    BY <1>1, <1>2, WalkFactsKept
  <2> QED BY <1>2, <2>1 DEF WalkSound
<1>7. CopySound'
  BY <1>0, <1>1 DEF CopySound, Live
<1>8. \A o : (Fits(o)' <=> Fits(o)) /\ (Used(o)' <=> Used(o))
  BY <1>1, <1>2, SlotsRest
<1>9. OwnersSound
  BY <1>0, <1>1 DEF WalkSound
<1>10. \A o \in own.out : fr.after < o /\ Fits(o)
  BY <1>9 DEF OwnersSound, Outside
<1>11. ASSUME NEW o \in known, Used(o), Fits(o), Pledged(o) PROVE o \in own.out
  <2>1. o \in Beyonds
    BY <1>11 DEF Pledged, Used, Beyonds
  <2>2. o # NoOwner
    BY <1>0, ReadNumbers
  <2> QED BY <1>1, <1>9, <1>11, <2>1, <2>2 DEF OwnersSound, Coming
<1>12. Answered'
  <2>1. \A o \in sealed' : o \in Owner /\ o <= fr'.after
    BY <1>0, <1>1, <1>2 DEF Answered
  <2>2. \A o \in emitted' : fr'.after < o
    BY <1>1, <1>2, <1>10
  <2>3. \A o \in known' \cap (sealed' \cup emitted') : Fits(o)'
    BY <1>0, <1>1, <1>8, <1>10 DEF Answered
  <2>4. \A o \in known' : Used(o)' /\ Fits(o)' => o \in sealed' \cup emitted'
    BY <1>0, <1>1, <1>3, <1>8, <1>11 DEF Answered
  <2> QED BY <2>1, <2>2, <2>3, <2>4 DEF Answered
<1>13. OwnShape'
  BY <1>0, <1>1 DEF OwnShape
<1> QED BY <1>5, <1>6, <1>7, <1>12, <1>13 DEF ReaderSound

(* The one check that can fail: the payload of a document that a vacuum    *)
(* pass has removed since its owner page was copied.                       *)
LEMMA OneFailure ==
  ASSUME FrontierInv, Open, OwnersFail
  PROVE  own.owner \in Owner /\ owner[own.owner].pub = "Published" /\ ~Live(own.owner)
<1>0. StoreInv /\ Paged /\ GenSound /\ ReadFacts /\ WalkSound /\ WalkFacts
  BY DEF FrontierInv, GroundInv, ReaderSound, WalkSound
<1>1. own.at # NoBlock => OwnersFit(own.at)
  BY <1>0, WalkOn
<1>2. /\ fr.stage = "owners" /\ own.owner # NoOwner
      /\ IF own.frag = NoBlock THEN own.index # owner[own.owner].doc.frags ELSE ~FragmentFits
  BY <1>1 DEF OwnersFail, UniverseBehind
<1>3. PICK o, i, f : o = own.owner /\ i = own.index /\ f = own.frag
  OBVIOUS
<1>4. Outside(o) /\ owner[o].pub = "Published" /\ PayloadAt(o, i, f) /\ o \in Owner
  BY <1>0, <1>2, <1>3 DEF WalkSound, OwnersSound, Outside
<1>5. ASSUME Live(o) PROVE FALSE
  <2>1. PICK k : k = owner[o].doc.frags
    OBVIOUS
  <2>2. k \in Nat
    BY <1>0, <1>4, <2>1, FragmentCount
  <2>3. i \in 0 .. k /\ IF i = k THEN f = NoBlock ELSE f \in Fragments(o) /\ page[f].index = i
    BY <1>4, <1>5, <2>1 DEF PayloadAt
  <2>4. f \in Fragments(o) => f # NoBlock
    BY <1>0, <1>4, <1>5, LivePayloadFacts
  <2>5. f # NoBlock => /\ f \in Fragments(o) /\ page[f].index = i /\ i < k
    BY <2>2, <2>3
  <2>6. f \in Fragments(o) => page[f].kind = "Fragment" /\ page[f].owner = o
    BY DEF Fragments
  <2> QED BY <1>2, <1>3, <2>1, <2>3, <2>4, <2>5, <2>6 DEF FragmentFits
<1> QED BY <1>3, <1>4, <1>5

(* The scan fails. *)
LEMMA FailsStep ==
  ASSUME Reading, FrontierFails
  PROVE  ReaderSound'
<1>0. /\ ReadFacts /\ WalkSound /\ CopySound /\ Answered /\ ReaderShape /\ OwnShape
      /\ FrontierInv /\ Open /\ owner' = owner
  BY ReadingIs DEF Reading
<1>1. /\ fr' = [fr EXCEPT !.stage = "error"] /\ OwnersFail
      /\ cur' = cur /\ own' = own /\ img' = img /\ sealed' = sealed /\ emitted' = emitted /\ known' = known
  BY <1>0, CursorsFit DEF FrontierFails
<1>2. /\ Captures /\ fr'.stage = "error" /\ fr'.todo = fr.todo /\ fr'.target = fr.target /\ fr'.after = fr.after
  BY <1>0, <1>1 DEF ReaderShape, Captures
<1>3. own.owner \in Owner /\ owner[own.owner].pub = "Published" /\ ~Live(own.owner)
  BY <1>0, <1>1, OneFailure
<1>4. fr.stage # "terms"
  BY <1>1 DEF OwnersFail, OwnersReady, SeekReady
<1>5. Advancing
  BY <1>0, <1>1, <1>2, <1>4 DEF Advancing, ReadFacts
<1>6. Open' /\ ReadFacts' /\ CursorsSound' /\ cur' \in [Term -> CursorRecord]
  BY <1>5, AdvancingKeeps
<1>7. WalkFacts'
  BY <1>0, <1>1, <1>2, WalkFactsKept DEF WalkSound, WalkFacts
<1>8. WalkSound'
  BY <1>0, <1>1, <1>2, <1>3, <1>7 DEF WalkSound, Live
<1>9. CopySound'
  BY <1>0, <1>1 DEF CopySound, Live
<1>10. \A o : Fits(o)' <=> Fits(o)
  BY <1>1, <1>2, SlotsRest
<1>11. Answered'
  BY <1>0, <1>1, <1>2, <1>10 DEF Answered
<1>12. OwnShape'
  BY <1>0, <1>1 DEF OwnShape
<1> QED BY <1>6, <1>8, <1>9, <1>11, <1>12 DEF ReaderSound

(* A reader that is not open *)
LEMMA ClosedSound == Closed => ReaderSound
<1>1. NoCursor \in CursorRecord
  BY DEF NoCursor, CursorRecord, NoOwner, NoBlock, OwnerOrNone, BlockOrNone
<1> QED BY <1>1 DEF Closed, ReaderSound, Open, NoReader, OwnShape, NoOwners

-----------------------------------------------------------------------------
(* The scan is exact *)

(* Every step of the reader *)
LEMMA ReadSteps ==
  ASSUME FrontierInv, StoreInv', ReadStep, UNCHANGED <<vars, gen>>
  PROVE  ReaderSound'
<1>1. CASE \E p \in Program : FrontierOpen(p)
  BY <1>1, OpenStep
<1>2. CASE Open
  <2>1. StoreOK /\ BarrierHeld
    BY DEF FrontierInv, GroundInv, StoreInv
  <2>2. NoRewrite
    BY <1>2, <2>1, WriterBarrier
  <2>3. Reading
    BY <1>2, <2>2 DEF Reading
  <2>4. CASE \E t \in Term : CaptureTerm(t) \/ CursorOpen(t) \/ CursorAnchor(t) \/ CursorLoad(t)
    BY <2>3, <2>4, CaptureStep, CursorsStep
  <2>5. CASE \E stage \in {"done", "owners", "seek"} : ScanGenerations(stage)
    BY <2>3, <2>5, GenerationsStep
  <2>6. CASE UniverseLoad \/ SeekDone \/ FilterMiss \/ FilterUniverse \/ FilterResolve
    BY <2>3, <2>6, UniverseLoadStep, SeekDoneStep, FilterStep
  <2>7. CASE OwnersLoad \/ FragmentsBegin \/ FragmentRead \/ FragmentsDone \/ OwnersFallBack
             \/ OwnersEmit \/ FrontierFails
    BY <2>3, <2>7, OwnersLoadStep, FragmentsBeginStep, FragmentReadStep, FragmentsDoneStep,
       OwnersFallBackStep, OwnersEmitStep, FailsStep
  <2>8. CASE FrontierClose
    <3>1. Closed'
      BY <2>8 DEF FrontierClose, Closed
    <3>2. Closed' => ReaderSound'
      BY ClosedSound, PTL
    <3> QED BY <3>1, <3>2
  <2> QED BY <1>1, <2>4, <2>5, <2>6, <2>7, <2>8 DEF ReadStep
<1> QED BY <1>1, <1>2, ReadOpens

(* The invariant holds at first *)
LEMMA FrontierInvInit == FrontierInit => FrontierInv
<1> SUFFICES ASSUME FrontierInit PROVE FrontierInv
  OBVIOUS
<1>1. GroundInv /\ Paged
  BY GroundInit, PagedInit DEF FrontierInit
<1>2. Closed
  BY DEF FrontierInit, ReadInit, Closed
<1> QED BY <1>1, <1>2, ClosedSound DEF FrontierInv

(* and is kept. *)
LEMMA FrontierInvStep ==
  ASSUME FrontierInv, [FrontierNext]_allVars
  PROVE  FrontierInv'
<1>0. GroundInv /\ Paged /\ StoreInv
  BY DEF FrontierInv, GroundInv
<1>1. GroundInv' /\ StoreInv'
  BY <1>0, GroundStep DEF GroundInv
<1>2. Paged'
  BY <1>0, <1>1, PagedStep
<1>3. CASE ReadStep /\ UNCHANGED <<vars, gen>>
  BY <1>1, <1>3, ReadSteps, <1>2 DEF FrontierInv
<1>4. CASE ~(ReadStep /\ UNCHANGED <<vars, gen>>)
  BY <1>1, <1>2, <1>4, OthersStep DEF FrontierInv
<1> QED BY <1>3, <1>4

(* What the invariant says of a scan that has ended *)
LEMMA FrontierAnswers == FrontierInv => FrontierExact /\ FrontierReadable
<1> SUFFICES ASSUME FrontierInv PROVE FrontierExact /\ FrontierReadable
  OBVIOUS
<1>0. ReaderSound /\ GenSound
  BY DEF FrontierInv, GroundInv
<1>1. CASE ~Open
  <2>1. fr.stage = "closed" /\ sealed = {} /\ emitted = {} /\ known = {}
    BY <1>0, <1>1 DEF ReaderSound, Closed, Open
  <2> QED BY <2>1 DEF FrontierExact, FrontierReadable
<1>2. CASE Open
  <2>0. ReadFacts /\ WalkSound /\ Answered
    BY <1>0, <1>2 DEF ReaderSound
  <2>1. ASSUME fr.stage = "done", NEW o \in known, Live(o), heap[owner[o].root] = "used",
               Matches(fr.prog, owner[o].doc.terms)
        PROVE  o \in sealed \cup emitted
    <3>1. Used(o) /\ Fits(o) /\ ~Pledged(o)
      BY <2>1 DEF Used, Fits, Pledged
    <3> QED BY <2>0, <2>1, <3>1 DEF Answered
  <2>2. \A o \in known \cap (sealed \cup emitted) : Matches(fr.prog, owner[o].doc.terms)
    BY <2>0 DEF Answered, Fits
  <2>3. sealed \cap emitted = {}
    <3>1. SUFFICES ASSUME NEW o \in sealed, o \in emitted PROVE FALSE
      OBVIOUS
    <3>2. PICK a : a = fr.after
      OBVIOUS
    <3>3. o \in Owner /\ o <= a /\ a < o
      BY <2>0, <3>1, <3>2 DEF Answered
    <3>4. a \in Nat /\ Owner \subseteq Nat
      BY <1>0, <2>0, <3>2, ReadNumbers
    <3> QED BY <3>3, <3>4
  <2>4. fr.stage = "error" => own.owner # NoOwner /\ ~Live(own.owner)
    BY <2>0, BoundAssumption DEF WalkSound, Owner, NoOwner
  <2> QED BY <2>1, <2>2, <2>3, <2>4 DEF FrontierExact, FrontierReadable
<1> QED BY <1>1, <1>2

(* An exact scan beside the writers: when it ends, every matching document *)
(* that was live when it began and is still in use has been emitted, what  *)
(* it emitted of those documents matches, and no document is counted both  *)
(* in a generation and beyond the fence.                                   *)
THEOREM FrontierAlwaysExact == FrontierSpec => []FrontierExact
<1>1. FrontierInv /\ [FrontierNext]_allVars => FrontierInv'
  BY FrontierInvStep
<1> QED BY <1>1, FrontierInvInit, FrontierAnswers, PTL DEF FrontierSpec

(* No check of a scan fails on a sound index, but for the payload of a     *)
(* document that a vacuum pass removed since its owner page was copied.    *)
THEOREM FrontierAlwaysReadable == FrontierSpec => []FrontierReadable
<1>1. FrontierInv /\ [FrontierNext]_allVars => FrontierInv'
  BY FrontierInvStep
<1> QED BY <1>1, FrontierInvInit, FrontierAnswers, PTL DEF FrontierSpec
=============================================================================
