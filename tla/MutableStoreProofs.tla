------------------------- MODULE MutableStoreProofs -------------------------
(***************************************************************************)
(* Proofs about MutableStore for every relation size, document set, page   *)
(* capacity and number of crashes.                                         *)
(***************************************************************************)
EXTENDS MutableStore, TLAPS

(* A prepared document has a fragment count and terms of the dictionary. *)
LEMMA DocumentFacts ==
  ASSUME NEW d \in Document \cup {NoDocument}
  PROVE  d.frags \in Nat /\ d.terms \subseteq Term
BY DocumentAssumption DEF NoDocument

(* The initial and empty records have their types. *)
LEMMA RecordFacts ==
  /\ NoBlock \in BlockOrNone /\ NoOwner \in OwnerOrNone
  /\ EmptyMeta \in MetaRecord /\ NoJournal \in Journal
  /\ NoEntry \in TermRecord
  /\ UnusedSlot \in OwnerRecord
  /\ NoPage \in PageRecord /\ ZeroPage \in PageRecord
  /\ OwnersPage \in PageRecord /\ DictionaryPage \in PageRecord
  /\ NoInsert \in InsertRecord /\ NoVacuum \in VacuumRecord /\ NoCompact \in CompactRecord
BY BoundAssumption
DEF NoBlock, NoOwner, BlockOrNone, OwnerOrNone, EmptyMeta, MetaRecord, NoJournal,
    Journal, NoEntry, TermRecord, UnusedSlot, OwnerRecord, Publication, NoPage,
    ZeroPage, OwnersPage, DictionaryPage, NewPage, PageRecord, PageKind, NoInsert,
    InsertRecord, NoVacuum, VacuumRecord, NoCompact, CompactRecord, Mode

(* An empty index is well typed and no operation holds an image. *)
LEMMA InitCorrect == Init => TypeOK /\ MetapageCurrent
BY RecordFacts, BoundAssumption
DEF Init, TypeOK, MetapageCurrent, NoBlock, EmptyMeta, UnusedSlot, NoEntry

(* insert() starts on the metapage it has just loaded. *)
LEMMA InsertBeginCorrect ==
  ASSUME TypeOK, MetapageCurrent, NEW r \in Root, NEW d \in Document, InsertBegin(r, d)
  PROVE  TypeOK' /\ MetapageCurrent'
<1>1. ins' \in InsertRecord
  BY RecordFacts DEF InsertBegin, NoInsert, InsertRecord, OwnerOrNone, BlockOrNone
<1>2. TypeOK'
  BY <1>1 DEF TypeOK, InsertBegin
<1>3. MetapageCurrent'
  BY DEF TypeOK, MetapageCurrent, InsertBegin
<1> QED BY <1>2, <1>3

(* A reserved slot is counted by the metapage of the same batch. *)
LEMMA AppendOwnerCorrect ==
  ASSUME TypeOK, MetapageCurrent, pc = "reserve",
         NEW b \in BlockOrNone, NEW h \in BlockOrNone, AppendOwner(b, h),
         page' \in [Block -> PageRecord]
  PROVE  TypeOK' /\ MetapageCurrent'
<1> USE DEF TypeOK
<1>1. m.inc \in Owner /\ m.inc + 1 \in 1 .. (MaxOwners + 1)
  BY BoundAssumption DEF MetapageCurrent, MetaRecord, Owner
<1>2. m' \in MetaRecord /\ meta' \in MetaRecord
  BY <1>1 DEF AppendOwner, MetaRecord
<1>3. owner' \in [Owner -> OwnerRecord]
  BY <1>1, RecordFacts DEF AppendOwner, OwnerRecord, Publication, InsertRecord
<1>4. ins' \in InsertRecord
  BY <1>1, DocumentFacts DEF AppendOwner, InsertRecord, OwnerOrNone
<1>5. TypeOK'
  BY <1>2, <1>3, <1>4, RecordFacts DEF AppendOwner
<1>6. MetapageCurrent'
  BY <1>1, BoundAssumption DEF AppendOwner, MetapageCurrent, MetaRecord, Owner
<1> QED BY <1>5, <1>6

(* The three forms of reserve_owner(). *)
LEMMA ReserveCorrect ==
  ASSUME TypeOK, MetapageCurrent, ReserveFirst \/ ReserveAppend \/ ReserveNext
  PROVE  TypeOK' /\ MetapageCurrent'
<1>1. CASE ReserveFirst
  <2>1. page' \in [Block -> PageRecord]
    BY <1>1, RecordFacts DEF ReserveFirst, TypeOK
  <2>2. QED BY <1>1, <2>1, AppendOwnerCorrect DEF ReserveFirst, TypeOK
<1>2. CASE ReserveAppend
  BY <1>2, AppendOwnerCorrect DEF ReserveAppend, TypeOK, MetaRecord
<1>3. CASE ReserveNext
  <2>1. page' \in [Block -> PageRecord]
    BY ZenonT(40), <1>3, RecordFacts DEF ReserveNext, TypeOK, PageRecord
  <2>2. QED BY <1>3, <2>1, AppendOwnerCorrect DEF ReserveNext, TypeOK, MetaRecord
<1> QED BY <1>1, <1>2, <1>3

(* A fragment goes to a block of the free list or to an allocated one. *)
LEMMA FragmentCorrect ==
  ASSUME TypeOK, MetapageCurrent, StoreFragmentReused \/ StoreFragmentAllocated
  PROVE  TypeOK' /\ MetapageCurrent'
<1> USE DEF TypeOK
<1>0. ASSUME NEW o \in OwnerOrNone, NEW i \in Nat, NEW n \in BlockOrNone
      PROVE  FragmentPage(o, i, n) \in PageRecord
  BY DEF FragmentPage, PageRecord, PageKind
<1>1. CASE StoreFragmentReused
  <2>1. m.free \in Block
    BY <1>1 DEF StoreFragmentReused, MetaRecord, BlockOrNone
  <2>2. m' \in MetaRecord /\ meta' \in MetaRecord
    BY <1>1, <2>1 DEF StoreFragmentReused, MetaRecord, PageRecord
  <2>3. ins.left - 1 \in Nat /\ ins' \in InsertRecord
    <3>1. ins.left \in Nat /\ ins.left > 0
      BY <1>1 DEF StoreFragmentReused, InsertRecord
    <3>2. ins.left - 1 \in Nat
      BY <3>1
    <3> QED BY <1>1, <2>1, <3>2 DEF StoreFragmentReused, StoredFragment, InsertRecord, BlockOrNone
  <2>4. page' \in [Block -> PageRecord]
    BY <1>1, <1>0, <2>1, <2>3 DEF StoreFragmentReused, InsertRecord
  <2>5. TypeOK'
    BY <1>1, <2>2, <2>3, <2>4 DEF StoreFragmentReused
  <2>6. MetapageCurrent'
    BY <1>1, <2>1 DEF StoreFragmentReused, StoredFragment, MetapageCurrent, MetaRecord,
                      InsertRecord, FragmentPage
  <2> QED BY <2>5, <2>6
<1>2. CASE StoreFragmentAllocated
  <2>1. ins.left - 1 \in Nat /\ ins' \in InsertRecord
    <3>1. ins.left \in Nat /\ ins.left > 0
      BY <1>2 DEF StoreFragmentAllocated, FragmentNeedsBlock, InsertRecord
    <3>2. ins.left - 1 \in Nat
      BY <3>1
    <3> QED BY <1>2, <3>2 DEF StoreFragmentAllocated, StoredFragment, InsertRecord
  <2>2. page' \in [Block -> PageRecord]
    BY <1>2, <1>0, <2>1 DEF StoreFragmentAllocated, InsertRecord
  <2>3. TypeOK'
    BY <1>2, <2>1, <2>2, RecordFacts DEF StoreFragmentAllocated
  <2>4. MetapageCurrent'
    BY <1>2 DEF StoreFragmentAllocated, StoredFragment, InsertRecord, MetapageCurrent
  <2> QED BY <2>3, <2>4
<1> QED BY <1>1, <1>2

(* change_owner() keeps a slot a slot and never empties or fills one. *)
LEMMA ChangedFacts ==
  ASSUME TypeOK, NEW o \in Owner, NEW h \in BlockOrNone,
         NEW c \in {"PayloadReady", "Publish", "Remove", "Abandon"}, CanChange(o, c)
  PROVE  /\ Changed(o, c, h) \in OwnerRecord
         /\ owner[o].pub # "None"
         /\ Changed(o, c, h).root = owner[o].root /\ Changed(o, c, h).doc = owner[o].doc
         /\ owner[o].pub # "Abandoned"
         /\ owner[o].pub = "Published" => c = "Remove" /\ owner[o].live
<1>1. owner[o] \in OwnerRecord /\ NoBlock \in BlockOrNone
  BY RecordFacts DEF TypeOK
<1>2. CASE c = "PayloadReady"
  BY <1>1, <1>2 DEF CanChange, Changed, OwnerRecord, Publication
<1>3. CASE c = "Publish"
  BY <1>1, <1>3 DEF CanChange, Changed, OwnerRecord, Publication
<1>4. CASE c = "Remove"
  BY <1>1, <1>4 DEF CanChange, Changed, OwnerRecord, Publication
<1>5. CASE c = "Abandon"
  BY <1>1, <1>5 DEF CanChange, Changed, OwnerRecord, Publication
<1> QED BY <1>2, <1>3, <1>4, <1>5

(* PayloadReady and Publish change the slot of the insertion only. *)
LEMMA PublicationCorrect ==
  ASSUME TypeOK, MetapageCurrent, PayloadReady \/ Publish
  PROVE  TypeOK' /\ MetapageCurrent'
<1> USE DEF TypeOK
<1>1. CASE PayloadReady
  <2>1. ins' \in InsertRecord
    BY <1>1, DocumentFacts DEF PayloadReady, InsertRecord
  <2>2. owner' \in [Owner -> OwnerRecord] /\ \A o \in Owner : owner'[o].pub # "None" => owner[o].pub # "None"
    BY <1>1, ChangedFacts DEF PayloadReady, InsertRecord
  <2>3. TypeOK'
    BY <1>1, <2>1, <2>2 DEF PayloadReady
  <2>4. MetapageCurrent'
    BY <1>1, <2>2 DEF PayloadReady, MetapageCurrent
  <2> QED BY <2>3, <2>4
<1>2. CASE Publish
  <2>1. owner' \in [Owner -> OwnerRecord] /\ \A o \in Owner : owner'[o].pub # "None" => owner[o].pub # "None"
    BY <1>2, ChangedFacts, RecordFacts DEF Publish, InsertRecord
  <2>2. TypeOK'
    BY <1>2, <2>1, RecordFacts DEF Publish
  <2>3. MetapageCurrent'
    BY <1>2, <2>1 DEF Publish, MetapageCurrent
  <2> QED BY <2>2, <2>3
<1> QED BY <1>1, <1>2

(* The link of a term writes a posting or dictionary page, the old tail    *)
(* and the entry.                                                          *)
LEMMA LinkFacts ==
  ASSUME TypeOK, MetapageCurrent, NEW t \in Term, LinkReady(t)
  PROVE  /\ pc = "link" /\ m = meta /\ ins.owner \in Owner
         /\ dict[t] \in TermRecord /\ dict[t].head \in BlockOrNone
         /\ m \in MetaRecord
         /\ \A b \in BlockOrNone : /\ NewEntry(b, ins.owner) \in TermRecord
                                   /\ NewEntry(b, ins.owner).inline = 0
         /\ \A R \in SUBSET Owner : PostingsPage(t, R) \in PageRecord
BY RecordFacts DEF TypeOK, MetapageCurrent, LinkReady, InsertRecord, NewEntry, NoEntry,
                   TermRecord, OwnerOrNone, PostingsPage, PageRecord, PageKind

(* The forms an entry takes. *)
LEMMA ChainFacts ==
  ASSUME NEW e \in TermRecord, NEW b \in BlockOrNone, NEW c \in BlockOrNone
  PROVE  /\ WithChain(e, b, c) \in TermRecord
         /\ WithChain(e, b, c).inline = e.inline /\ WithChain(e, b, c).second = e.second
BY DEF WithChain, TermRecord

(* set_inline_second() and promote_inline_second() give valid entries. *)
LEMMA EntryFacts ==
  ASSUME NEW e \in TermRecord, NEW b \in BlockOrNone, NEW o \in Owner
  PROVE  /\ WithSecond(e, o) \in TermRecord /\ WithSecond(e, o).second = o
         /\ WithoutSecond(e) \in TermRecord /\ WithoutSecond(e).inline = 0
         /\ Promoted(e, b) \in TermRecord /\ Promoted(e, b).inline = 2
<1> USE RecordFacts DEF TermRecord
<1>3. WithSecond(e, o) \in TermRecord /\ WithSecond(e, o).second = o
  BY DEF WithSecond, OwnerOrNone
<1>4. WithoutSecond(e) \in TermRecord /\ WithoutSecond(e).inline = 0
  BY DEF WithoutSecond, NewEntry
<1>5. Promoted(e, b) \in TermRecord /\ Promoted(e, b).inline = 2
  BY DEF Promoted
<1> QED BY <1>3, <1>4, <1>5

(* The eight forms of link_term(). *)
LEMMA LinkCorrect ==
  ASSUME TypeOK, MetapageCurrent, NEW t \in Term, LinkTerm(t)
  PROVE  TypeOK' /\ MetapageCurrent'
<1> USE DEF TypeOK
<1>1. LinkReady(t) /\ Linked(t) /\ pc = "link"
  BY DEF LinkTerm, LinkFirstTerm, LinkNewTerm, LinkNewTermNextPage, LinkPromote, LinkInline,
         LinkFirstPosting, LinkAppend, LinkNextPage, LinkReady
<1>2. ins' \in InsertRecord /\ blk' \in BlockOrNone
  BY <1>1, RecordFacts DEF Linked, InsertRecord
<1>3. SUFFICES /\ page' \in [Block -> PageRecord]
               /\ dict' \in [Term -> TermRecord]
               /\ \A u \in Term : dict'[u].inline = 1 => dict'[u].second \in Owner
               /\ m' \in MetaRecord /\ meta' \in MetaRecord
               /\ m' = meta' /\ meta'.inc = meta.inc
  BY <1>1, <1>2 DEF Linked, MetapageCurrent
<1> USE <1>1, LinkFacts, RecordFacts
<1>6. CASE LinkFirstTerm(t)
  <2>1. page' \in [Block -> PageRecord]
    BY <1>6 DEF LinkFirstTerm
  <2>2. /\ dict' \in [Term -> TermRecord]
        /\ \A u \in Term : dict'[u].inline = 1 => dict'[u].second \in Owner
    BY <1>6 DEF LinkFirstTerm
  <2>3. /\ m' \in MetaRecord /\ meta' \in MetaRecord
        /\ m' = meta' /\ meta'.inc = meta.inc
    BY <1>6 DEF LinkFirstTerm, MetaRecord
  <2> QED BY <2>1, <2>2, <2>3
<1>7. CASE LinkNewTerm(t)
  <2>1. page' \in [Block -> PageRecord]
    BY <1>7 DEF LinkNewTerm
  <2>2. /\ dict' \in [Term -> TermRecord]
        /\ \A u \in Term : dict'[u].inline = 1 => dict'[u].second \in Owner
    BY <1>7 DEF LinkNewTerm, MetaRecord
  <2>3. /\ m' \in MetaRecord /\ meta' \in MetaRecord
        /\ m' = meta' /\ meta'.inc = meta.inc
    BY <1>7 DEF LinkNewTerm, MetaRecord
  <2> QED BY <2>1, <2>2, <2>3
<1>8. CASE LinkNewTermNextPage(t)
  <2>1. page' \in [Block -> PageRecord]
    BY ZenonT(40), <1>8 DEF LinkNewTermNextPage, PageRecord
  <2>2. /\ dict' \in [Term -> TermRecord]
        /\ \A u \in Term : dict'[u].inline = 1 => dict'[u].second \in Owner
    BY <1>8 DEF LinkNewTermNextPage
  <2>3. /\ m' \in MetaRecord /\ meta' \in MetaRecord
        /\ m' = meta' /\ meta'.inc = meta.inc
    BY <1>8 DEF LinkNewTermNextPage, MetaRecord
  <2> QED BY <2>1, <2>2, <2>3
<1>9. CASE LinkPromote(t)
  <2>1. page' \in [Block -> PageRecord]
    BY <1>9 DEF LinkPromote
  <2>2. /\ dict' \in [Term -> TermRecord]
        /\ \A u \in Term : dict'[u].inline = 1 => dict'[u].second \in Owner
    <3>1. Promoted(dict[t], blk) \in TermRecord /\ Promoted(dict[t], blk).inline = 2
      BY EntryFacts
    <3> QED BY <1>9, <3>1 DEF LinkPromote
  <2>3. /\ m' \in MetaRecord /\ meta' \in MetaRecord
        /\ m' = meta' /\ meta'.inc = meta.inc
    BY <1>9 DEF LinkPromote
  <2> QED BY <2>1, <2>2, <2>3
<1>10. CASE LinkInline(t)
  <2>1. page' \in [Block -> PageRecord]
    BY <1>10 DEF LinkInline
  <2>2. /\ dict' \in [Term -> TermRecord]
        /\ \A u \in Term : dict'[u].inline = 1 => dict'[u].second \in Owner
    BY ZenonT(40), <1>10, EntryFacts DEF LinkInline
  <2>3. /\ m' \in MetaRecord /\ meta' \in MetaRecord
        /\ m' = meta' /\ meta'.inc = meta.inc
    BY <1>10 DEF LinkInline
  <2> QED BY <2>1, <2>2, <2>3
<1>11. CASE LinkFirstPosting(t)
  <2>1. page' \in [Block -> PageRecord]
    BY <1>11 DEF LinkFirstPosting
  <2>2. /\ dict' \in [Term -> TermRecord]
        /\ \A u \in Term : dict'[u].inline = 1 => dict'[u].second \in Owner
    BY <1>11, ChainFacts DEF LinkFirstPosting
  <2>3. /\ m' \in MetaRecord /\ meta' \in MetaRecord
        /\ m' = meta' /\ meta'.inc = meta.inc
    BY <1>11 DEF LinkFirstPosting
  <2> QED BY <2>1, <2>2, <2>3
<1>12. CASE LinkAppend(t)
  <2>1. page' \in [Block -> PageRecord]
    BY ZenonT(40), <1>12 DEF LinkAppend, PageRecord
  <2>2. /\ dict' \in [Term -> TermRecord]
        /\ \A u \in Term : dict'[u].inline = 1 => dict'[u].second \in Owner
    BY <1>12 DEF LinkAppend
  <2>3. /\ m' \in MetaRecord /\ meta' \in MetaRecord
        /\ m' = meta' /\ meta'.inc = meta.inc
    BY <1>12 DEF LinkAppend
  <2> QED BY <2>1, <2>2, <2>3
<1>13. CASE LinkNextPage(t)
  <2>1. page' \in [Block -> PageRecord]
    <3>1. PostingsPage(t, {ins.owner}) \in PageRecord
      OBVIOUS
    <3>2. [page EXCEPT ![blk] = PostingsPage(t, {ins.owner})] \in [Block -> PageRecord]
      BY <3>1
    <3> QED BY ZenonT(40), <1>13, <3>2 DEF LinkNextPage, PageRecord
  <2>2. /\ dict' \in [Term -> TermRecord]
        /\ \A u \in Term : dict'[u].inline = 1 => dict'[u].second \in Owner
    BY ZenonT(40), <1>13, ChainFacts, dict[t].head \in BlockOrNone DEF LinkNextPage
  <2>3. /\ m' \in MetaRecord /\ meta' \in MetaRecord
        /\ m' = meta' /\ meta'.inc = meta.inc
    BY <1>13 DEF LinkNextPage
  <2> QED BY <2>1, <2>2, <2>3
<1> QED BY <1>6, <1>7, <1>8, <1>9, <1>10, <1>11, <1>12, <1>13 DEF LinkTerm

-----------------------------------------------------------------------------
(* The host *)

(* Allocation, deletion and interruption. *)
LEMMA HostCorrect ==
  ASSUME TypeOK, MetapageCurrent,
         Allocate \/ ExtendFails \/ FailedCleanup \/ Interrupt \/ \E r \in Root : HeapDelete(r)
  PROVE  TypeOK' /\ MetapageCurrent'
<1> USE RecordFacts, BoundAssumption DEF TypeOK
<1>1. CASE Allocate
  <2>1. size + 1 \in Block /\ size' \in 0 .. MaxBlocks
    BY <1>1 DEF Allocate, Extend, Block
  <2>2. page' \in [Block -> PageRecord] /\ page'[blk'].kind = "Zero" /\ blk' \in BlockOrNone
    BY <1>1, <2>1 DEF Allocate, Extend, ZeroPage, NewPage, BlockOrNone
  <2>3. TypeOK'
    BY <1>1, <2>1, <2>2 DEF Allocate, Extend
  <2>4. MetapageCurrent'
    BY <1>1, <2>2 DEF Allocate, Extend, MetapageCurrent
  <2> QED BY <2>3, <2>4
<1>2. CASE Interrupt
  BY <1>2 DEF Interrupt, Abandoned, MetapageCurrent
<1>3. CASE ExtendFails
  BY <1>3 DEF ExtendFails, Abandoned, MetapageCurrent
<1>4. CASE FailedCleanup
  BY <1>4 DEF FailedCleanup, Abandoned, MetapageCurrent
<1>5. CASE \E r \in Root : HeapDelete(r)
  BY <1>5 DEF HeapDelete, MetapageCurrent
<1> QED BY <1>1, <1>2, <1>3, <1>4, <1>5

-----------------------------------------------------------------------------
(* Compaction and recovery *)

(* The references of a chain are owners. *)
LEMMA ChainRefsType ==
  ASSUME TypeOK, NEW h, NEW t
  PROVE  ChainRefs(h, t) \subseteq Owner
<1>1. Chain(h, t) \subseteq Block
  BY DEF Chain
<1>2. \A b \in Block : page[b].refs \subseteq Owner
  BY DEF TypeOK, PageRecord
<1> QED BY <1>1, <1>2 DEF ChainRefs

(* A visit of compact() skips, clears or starts to rewrite a term. *)
LEMMA CompactVisitCorrect ==
  ASSUME TypeOK, MetapageCurrent, NEW t \in Term,
         CompactSkip(t) \/ CompactInline(t) \/ RewriteBegin(t)
  PROVE  TypeOK' /\ MetapageCurrent'
<1> USE DEF TypeOK
<1>1. CASE CompactSkip(t)
  <2>1. cpt' \in CompactRecord
    BY <1>1 DEF CompactSkip, CompactRecord
  <2> QED BY <1>1, <2>1 DEF CompactSkip, MetapageCurrent
<1>2. CASE CompactInline(t)
  <2>1. cpt' \in CompactRecord
    BY <1>2 DEF CompactInline, CompactRecord
  <2>2. /\ dict' \in [Term -> TermRecord]
        /\ \A u \in Term : dict'[u].inline = 1 => dict'[u].second \in Owner
    BY <1>2, EntryFacts DEF CompactInline
  <2> QED BY <1>2, <2>1, <2>2 DEF CompactInline, MetapageCurrent
<1>3. CASE RewriteBegin(t)
  <2> DEFINE e == dict[t]
  <2>1. PICK source \in Block, boundary \in BlockOrNone :
          cpt' = [cpt EXCEPT !.todo = cpt.todo \ {t}, !.term = t,
                    !.source = source, !.boundary = boundary,
                    !.pending = {o \in ChainRefs(source, e.tail) : Live(o)}]
    BY <1>3 DEF RewriteBegin
  <2>2. {o \in ChainRefs(source, e.tail) : Live(o)} \subseteq Owner
    BY ChainRefsType
  <2>3. cpt' \in CompactRecord /\ cpt'.term = t
    BY <2>1, <2>2 DEF CompactRecord, BlockOrNone
  <2>4. pc = "compact" /\ pc' = "rewrite"
        /\ UNCHANGED <<page, size, meta, dict, owner, heap, crashes, m, blk, ins, vac>>
    BY <1>3 DEF RewriteBegin, Visit
  <2> QED BY <2>3, <2>4 DEF MetapageCurrent
<1> QED BY <1>1, <1>2, <1>3

(* persist_output() writes one page, its predecessor and the journal. *)
LEMMA PersistOutputCorrect ==
  ASSUME TypeOK, MetapageCurrent, NEW b \in Block, NEW free \in BlockOrNone,
         PersistOutput(b, free)
  PROVE  TypeOK' /\ MetapageCurrent'
<1> USE DEF TypeOK
<1> DEFINE chunk == FirstRefs(cpt.pending, SealedPerPage)
           output == SealedPage(cpt.term, chunk, cpt.mode = "DirectTid")
           first == m.journal.phase = "None"
           journal == [phase |-> "Building", tail |-> b,
                       head |-> IF first THEN b ELSE m.journal.head]
<1>1. chunk \subseteq Owner
  BY DEF FirstRefs, CompactRecord
<1>2. output \in PageRecord
  BY <1>1, RecordFacts DEF SealedPage, PageRecord, PageKind, CompactRecord
<1>3. journal \in Journal
  BY DEF Journal, MetaRecord, BlockOrNone
<1>4. m' = [m EXCEPT !.free = free, !.journal = journal]
  BY DEF PersistOutput
<1>5. m' \in MetaRecord /\ meta' = m' /\ m'.inc = m.inc
  BY <1>3, <1>4 DEF PersistOutput, MetaRecord
<1>6. page' \in [Block -> PageRecord]
  <2>1. page' = IF first THEN [page EXCEPT ![b] = output]
                ELSE [page EXCEPT ![b] = output, ![m.journal.tail].next = b]
    BY DEF PersistOutput
  <2>2. [page EXCEPT ![b] = output] \in [Block -> PageRecord]
    BY <1>2
  <2>3. b \in BlockOrNone
    BY DEF BlockOrNone
  <2> DEFINE linked == [page EXCEPT ![b] = output]
  <2> HIDE DEF output, first
  <2>4. linked \in [Block -> PageRecord]
    BY <2>2
  <2>5. page' = IF first THEN linked ELSE [linked EXCEPT ![m.journal.tail].next = b]
    BY <2>1
  <2> HIDE DEF linked
  <2>6. [linked EXCEPT ![m.journal.tail].next = b] \in [Block -> PageRecord]
    BY ZenonT(40), <2>3, <2>4 DEF PageRecord
  <2> QED BY <2>4, <2>5, <2>6
<1>7. cpt' \in CompactRecord
  BY DEF PersistOutput, CompactRecord
<1>8. TypeOK'
  BY <1>5, <1>6, <1>7, RecordFacts DEF PersistOutput
<1>9. pc = "rewrite" /\ m = meta
  BY DEF PersistOutput, MetapageCurrent
<1>10. MetapageCurrent'
  BY <1>5, <1>9 DEF PersistOutput, MetapageCurrent
<1> QED BY <1>8, <1>10

(* output_block() takes the free list before it extends the relation. *)
LEMMA PersistCorrect ==
  ASSUME TypeOK, MetapageCurrent, PersistReused \/ PersistAllocated
  PROVE  TypeOK' /\ MetapageCurrent'
<1>1. CASE PersistReused
  <2>1. m.free \in Block /\ page[m.free].next \in BlockOrNone
    BY <1>1 DEF PersistReused, TypeOK, MetaRecord, PageRecord, BlockOrNone
  <2> QED BY <1>1, <2>1, PersistOutputCorrect DEF PersistReused
<1>2. CASE PersistAllocated
  <2>1. blk \in Block /\ NoBlock \in BlockOrNone
    BY <1>2 DEF PersistAllocated, TypeOK, BlockOrNone
  <2> QED BY <1>2, <2>1, PersistOutputCorrect DEF PersistAllocated
<1> QED BY <1>1, <1>2

(* The replacement turns the journal from the output to the source. *)
LEMMA PublishReplacementCorrect ==
  ASSUME TypeOK, MetapageCurrent, PublishReplacement
  PROVE  TypeOK' /\ MetapageCurrent'
<1> USE DEF TypeOK
<1>1. m = meta /\ cpt.term \in Term
  BY DEF PublishReplacement, MetapageCurrent
<1>2. NewHead \in BlockOrNone /\ NewTail \in BlockOrNone
  BY RecordFacts DEF NewHead, NewTail, MetaRecord, Journal
<1>3. /\ dict[cpt.term] \in TermRecord
      /\ dict[cpt.term].head \in BlockOrNone /\ dict[cpt.term].tail \in BlockOrNone
      /\ cpt.boundary \in BlockOrNone /\ cpt.source \in BlockOrNone
  BY <1>1 DEF TermRecord, CompactRecord
<1>4. /\ dict' \in [Term -> TermRecord]
      /\ \A u \in Term : dict'[u].inline = 1 => dict'[u].second \in Owner
  <2>1. PICK b \in BlockOrNone, c \in BlockOrNone :
          Replacement = WithChain(dict[cpt.term], b, c)
    BY <1>2, <1>3 DEF Replacement
  <2>2. /\ Replacement \in TermRecord
        /\ Replacement.inline = dict[cpt.term].inline
        /\ Replacement.second = dict[cpt.term].second
    BY ZenonT(40), <1>3, <2>1, ChainFacts
  <2> QED BY <1>1, <2>2 DEF PublishReplacement
<1>5. m' \in MetaRecord /\ meta' = m' /\ m'.inc = m.inc
  <2> DEFINE j == [phase |-> "Retiring", head |-> cpt.source, tail |-> dict[cpt.term].tail]
  <2>1. j \in Journal
    BY <1>3 DEF Journal
  <2>2. m' = [m EXCEPT !.journal = j] /\ meta' = m'
    BY DEF PublishReplacement
  <2> HIDE DEF j
  <2> QED BY <2>1, <2>2 DEF MetaRecord
<1>6. page' \in [Block -> PageRecord] /\ \A b \in Block : page'[b].kind = page[b].kind
  BY ZenonT(40), <1>2 DEF PublishReplacement, PageRecord
<1>7. cpt' \in CompactRecord
  BY RecordFacts DEF PublishReplacement, CompactRecord
<1>8. TypeOK'
  BY <1>4, <1>5, <1>6, <1>7 DEF PublishReplacement
<1>9. MetapageCurrent'
  BY <1>1, <1>5, <1>6 DEF PublishReplacement, MetapageCurrent, BlockOrNone
<1> QED BY <1>8, <1>9

(* The steps of compact() that write no page. *)
LEMMA CompactControlCorrect ==
  ASSUME TypeOK, MetapageCurrent,
         \/ PublishRejected \/ RecoverEndCompact \/ CompactEnd
         \/ \E mode \in CompactMode : CompactBegin(mode)
  PROVE  TypeOK' /\ MetapageCurrent'
<1> USE RecordFacts DEF TypeOK
<1>1. CASE PublishRejected
  BY <1>1 DEF PublishRejected, MetapageCurrent
<1>2. CASE RecoverEndCompact
  BY <1>2 DEF RecoverEndCompact, MetapageCurrent
<1>3. CASE CompactEnd
  BY <1>3 DEF CompactEnd, MetapageCurrent
<1>4. ASSUME NEW mode \in CompactMode, CompactBegin(mode)
      PROVE  TypeOK' /\ MetapageCurrent'
  <2>1. cpt' \in CompactRecord
    BY <1>4, ModeAssumption DEF CompactBegin, NoCompact, CompactRecord, Mode
  <2> QED BY <1>4, <2>1 DEF CompactBegin, MetapageCurrent
<1> QED BY <1>1, <1>2, <1>3, <1>4

(* A free page has a kind and a link only. *)
LEMMA FreePageType ==
  ASSUME NEW n \in BlockOrNone
  PROVE  FreePage(n) \in PageRecord /\ FreePage(n).kind = "Free" /\ FreePage(n).next = n
BY RecordFacts DEF FreePage, NewPage, PageRecord, PageKind

(* recover() frees one or two pages of the journal a batch. *)
LEMMA RecoverCorrect ==
  ASSUME TypeOK, MetapageCurrent, RecoverOne \/ RecoverTwo
  PROVE  TypeOK' /\ MetapageCurrent'
<1> USE RecordFacts, FreePageType DEF TypeOK
<1>0. meta.journal \in Journal /\ meta.free \in BlockOrNone
      /\ meta.journal.head \in BlockOrNone /\ meta.journal.tail \in BlockOrNone
  BY DEF MetaRecord, Journal
<1>1. CASE RecoverOne
  <2>1. meta' \in MetaRecord /\ meta'.inc = meta.inc
    BY <1>0, <1>1 DEF RecoverOne, MetaRecord
  <2>2. page' \in [Block -> PageRecord]
    BY <1>0, <1>1 DEF RecoverOne
  <2>3. blk # NoBlock => page'[blk].kind = "Zero"
    BY <1>0, <1>1 DEF RecoverOne, RecoverAccepts, MetapageCurrent, PostingKind, BlockOrNone
  <2> QED BY <1>1, <2>1, <2>2, <2>3 DEF RecoverOne, MetapageCurrent
<1>2. CASE RecoverTwo
  <2> DEFINE b == meta.journal.head
             c == page[b].next
             j == IF c = meta.journal.tail THEN NoJournal
                  ELSE [meta.journal EXCEPT !.head = page[c].next]
  <2>0. /\ b # NoBlock /\ c \notin {NoBlock, b}
        /\ page[c].kind \in PostingKind /\ page[b].kind \in PostingKind
        /\ page' = [page EXCEPT ![b] = FreePage(meta.free), ![c] = FreePage(b)]
        /\ meta' = [meta EXCEPT !.free = c, !.journal = j]
    BY <1>2 DEF RecoverTwo, RecoverAccepts
  <2>1. b \in Block /\ b \in BlockOrNone
    BY <1>0, <2>0 DEF BlockOrNone
  <2>2. c \in Block /\ c \in BlockOrNone
    BY <2>0, <2>1 DEF BlockOrNone, PageRecord
  <2>3. page[c].next \in BlockOrNone
    BY <2>2 DEF PageRecord
  <2>4. j \in Journal
    <3> HIDE DEF c
    <3> QED BY <1>0, <2>3 DEF Journal
  <2> HIDE DEF b, c, j
  <2>5. meta' \in MetaRecord /\ meta'.inc = meta.inc
    BY <2>0, <2>2, <2>4 DEF MetaRecord
  <2>6. page' \in [Block -> PageRecord]
    BY <1>0, <2>0, <2>1
  <2>7. blk # NoBlock => page'[blk].kind = "Zero"
    BY <2>0, <2>1, <2>2 DEF MetapageCurrent, PostingKind, BlockOrNone
  <2> QED BY <1>2, <2>5, <2>6, <2>7 DEF RecoverTwo, MetapageCurrent
<1> QED BY <1>1, <1>2

-----------------------------------------------------------------------------
(* Vacuum *)

(* reclaim() pushes a block that no one has allocated. *)
LEMMA ReclaimCorrect ==
  ASSUME TypeOK, MetapageCurrent, NEW b \in Block, Reclaim(b),
         pc \in {"sweep", "zeros"}, b # blk
  PROVE  TypeOK' /\ MetapageCurrent'
<1> USE DEF TypeOK
<1>1. m = meta /\ b \in BlockOrNone /\ m.free \in BlockOrNone
  BY DEF MetapageCurrent, BlockOrNone, MetaRecord
<1>2. m' \in MetaRecord /\ meta' = m' /\ m'.inc = m.inc
  BY <1>1 DEF Reclaim, MetaRecord
<1>3. page' \in [Block -> PageRecord]
  BY <1>1, FreePageType DEF Reclaim
<1>4. blk # NoBlock => page'[blk].kind = "Zero"
  BY DEF Reclaim, MetapageCurrent, BlockOrNone
<1> QED BY <1>1, <1>2, <1>3, <1>4 DEF Reclaim, MetapageCurrent

(* The changes of the sweep and of the zero-block pass. *)
LEMMA SweepCorrect ==
  ASSUME TypeOK, MetapageCurrent, BlockAwaited, NEW b \in Block,
         SweepDirect(b) \/ SweepFragment(b) \/ ReclaimZero(b)
  PROVE  TypeOK' /\ MetapageCurrent'
<1>1. CASE SweepDirect(b)
  <2>1. page' \in [Block -> PageRecord] /\ \A c \in Block : page'[c].kind = page[c].kind
    BY <1>1 DEF SweepDirect, TypeOK, PageRecord
  <2>2. blk # NoBlock => blk \in Block
    BY DEF TypeOK, BlockOrNone
  <2> QED BY <1>1, <2>1, <2>2 DEF SweepDirect, TypeOK, MetapageCurrent
<1>2. CASE SweepFragment(b)
  <2>1. b # blk
    BY <1>2 DEF SweepFragment, DeadFragment, MetapageCurrent, Block, NoBlock
  <2> QED BY <1>2, <2>1, ReclaimCorrect DEF SweepFragment, SweepNext
<1>3. CASE ReclaimZero(b)
  <2>1. b # blk
    BY <1>3 DEF ReclaimZero, BlockAwaited, FragmentNeedsBlock, OutputNeedsBlock, Block, NoBlock
  <2> QED BY <1>3, <2>1, ReclaimCorrect DEF ReclaimZero
<1> QED BY <1>1, <1>2, <1>3

(* The owner pass leaves slots, and fills none. *)
LEMMA RetiredFacts ==
  ASSUME TypeOK, NEW o \in Owner
  PROVE  /\ Retired(o) \in OwnerRecord
         /\ Retired(o).pub # "None" => owner[o].pub # "None"
BY ChangedFacts, RecordFacts DEF Retired, TypeOK

(* The owner pass and the stages of a vacuum pass. *)
LEMMA VacuumControlCorrect ==
  ASSUME TypeOK, MetapageCurrent,
         VacuumBegin \/ RecoverEndVacuum \/ RemoveOwners \/ SweepEnd \/ VacuumEnd
  PROVE  TypeOK' /\ MetapageCurrent'
<1> USE RecordFacts DEF TypeOK
<1>1. CASE VacuumBegin
  <2>1. vac' \in VacuumRecord /\ cpt' \in CompactRecord
    BY <1>1 DEF VacuumBegin, NoVacuum, VacuumRecord, CompactRecord
  <2> QED BY <1>1, <2>1 DEF VacuumBegin, MetapageCurrent
<1>2. CASE RecoverEndVacuum
  <2>1. vac' \in VacuumRecord /\ cpt' \in CompactRecord
    BY <1>2 DEF RecoverEndVacuum, VacuumRecord, CompactRecord, MetaRecord
  <2> QED BY <1>2, <2>1 DEF RecoverEndVacuum, MetapageCurrent
<1>3. CASE RemoveOwners
  <2>1. vac.at \in Block
    BY <1>3 DEF RemoveOwners, VacuumRecord, BlockOrNone
  <2>2. vac' \in VacuumRecord
    BY <1>3, <2>1 DEF RemoveOwners, VacuumRecord, PageRecord
  <2>3. owner' \in [Owner -> OwnerRecord]
        /\ \A o \in Owner : owner'[o].pub # "None" => owner[o].pub # "None"
    BY <1>3, RetiredFacts DEF RemoveOwners
  <2> QED BY <1>3, <2>2, <2>3 DEF RemoveOwners, MetapageCurrent
<1>4. CASE SweepEnd
  BY <1>4 DEF SweepEnd, MetapageCurrent
<1>5. CASE VacuumEnd
  BY <1>5 DEF VacuumEnd, MetapageCurrent
<1> QED BY <1>1, <1>2, <1>3, <1>4, <1>5

-----------------------------------------------------------------------------
(* A block is allocated by the stage that writes it, and that write is the *)
(* only way on.                                                            *)
LEMMA BlockAwaitedCorrect ==
  ASSUME TypeOK, MetapageCurrent, BlockAwaited, Next
  PROVE  BlockAwaited'
<1> USE DEF BlockAwaited, FragmentNeedsBlock, OutputNeedsBlock
<1>1. CASE Allocate
  BY <1>1 DEF Allocate, Extend, NeedsBlock, InsertNeedsBlock, ReserveNeedsBlock
<1>2. CASE ExtendFails \/ FailedCleanup \/ Interrupt
  BY <1>2 DEF ExtendFails, FailedCleanup, Interrupt, Abandoned
<1>3. CASE Insert
  <2>1. CASE ReserveFirst \/ ReserveAppend \/ ReserveNext
    BY <2>1 DEF ReserveFirst, ReserveAppend, ReserveNext, AppendOwner
  <2>2. CASE StoreFragmentReused \/ StoreFragmentAllocated \/ PayloadReady
    BY <2>2 DEF StoreFragmentReused, StoreFragmentAllocated, PayloadReady
  <2>3. CASE \E t \in Term : LinkTerm(t)
    BY <2>3 DEF LinkTerm, LinkFirstTerm, LinkNewTerm, LinkNewTermNextPage, LinkPromote,
                LinkInline, LinkFirstPosting, LinkAppend, LinkNextPage, Linked
  <2>4. CASE Publish
    BY <2>4 DEF Publish
  <2> QED BY <1>3, <2>1, <2>2, <2>3, <2>4 DEF Insert
<1>4. CASE Recover
  BY <1>4 DEF Recover, RecoverOne, RecoverTwo
<1>5. CASE Compaction
  <2>1. CASE \E t \in Term : CompactSkip(t) \/ CompactInline(t) \/ RewriteBegin(t)
    BY <2>1 DEF CompactSkip, CompactInline, RewriteBegin, Visit
  <2>2. CASE PersistReused \/ PersistAllocated
    BY <2>2 DEF PersistReused, PersistAllocated, PersistOutput
  <2>3. CASE PublishReplacement \/ PublishRejected \/ RecoverEndCompact \/ CompactEnd
    BY <2>3 DEF PublishReplacement, PublishRejected, RecoverEndCompact, CompactEnd
  <2> QED BY <1>5, <2>1, <2>2, <2>3 DEF Compaction
<1>6. CASE VacuumPass
  BY <1>6 DEF VacuumPass, RecoverEndVacuum, RemoveOwners, SweepDirect, SweepFragment,
              ReclaimZero, SweepNext, Reclaim, SweepEnd, VacuumEnd
<1>7. CASE VacuumBegin
  BY <1>7 DEF VacuumBegin
<1>8. CASE \E r \in Root, d \in Document : InsertBegin(r, d)
  BY <1>8 DEF InsertBegin
<1>9. CASE \E mode \in CompactMode : CompactBegin(mode)
  BY <1>9 DEF CompactBegin
<1>10. CASE \E r \in Root : HeapDelete(r)
  BY <1>10 DEF HeapDelete
<1> QED BY <1>1, <1>2, <1>3, <1>4, <1>5, <1>6, <1>7, <1>8, <1>9, <1>10 DEF Next, Step

(* Every step keeps the types and the metapage image. *)
LEMMA NextCorrect ==
  ASSUME TypeOK, ImageCurrent, [Next]_vars
  PROVE  TypeOK' /\ ImageCurrent'
<1> USE DEF ImageCurrent
<1>1. CASE Next
  <2>1. BlockAwaited'
    BY <1>1, BlockAwaitedCorrect
  <2>2. CASE Allocate \/ ExtendFails \/ FailedCleanup \/ Interrupt \/ \E r \in Root : HeapDelete(r)
    BY <2>1, <2>2, HostCorrect
  <2>3. CASE Insert
    BY <2>1, <2>3, ReserveCorrect, FragmentCorrect, PublicationCorrect, LinkCorrect DEF Insert
  <2>4. CASE Recover
    BY <2>1, <2>4, RecoverCorrect DEF Recover
  <2>5. CASE Compaction
    BY <2>1, <2>5, CompactVisitCorrect, PersistCorrect, PublishReplacementCorrect,
       CompactControlCorrect DEF Compaction
  <2>6. CASE VacuumPass
    BY <2>1, <2>6, SweepCorrect, VacuumControlCorrect DEF VacuumPass
  <2>7. CASE VacuumBegin
    BY <2>1, <2>7, VacuumControlCorrect
  <2>8. CASE \E r \in Root, d \in Document : InsertBegin(r, d)
    BY <2>1, <2>8, InsertBeginCorrect
  <2>9. CASE \E mode \in CompactMode : CompactBegin(mode)
    BY <2>1, <2>9, CompactControlCorrect
  <2> QED BY <1>1, <2>2, <2>3, <2>4, <2>5, <2>6, <2>7, <2>8, <2>9 DEF Next, Step
<1>2. CASE UNCHANGED vars
  BY <1>2 DEF vars, TypeOK, MetapageCurrent, BlockAwaited, FragmentNeedsBlock, OutputNeedsBlock
<1> QED BY <1>1, <1>2

(* Every page, entry, slot and local stays inside the records of the page  *)
(* format, in every behaviour of the writers, whatever is interrupted.     *)
THEOREM TypeCorrect == Spec => []TypeOK
<1>1. Init => TypeOK /\ ImageCurrent
  BY InitCorrect DEF ImageCurrent, BlockAwaited, Init
<1>2. TypeOK /\ ImageCurrent /\ [Next]_vars => (TypeOK /\ ImageCurrent)'
  BY NextCorrect
<1> QED BY <1>1, <1>2, PTL DEF Spec

(* An operation works on the current metapage and on a block of its own:   *)
(* compact() and vacuum() reload the image after every recover().          *)
THEOREM ImageAlwaysCurrent == Spec => []ImageCurrent
<1>1. Init => TypeOK /\ ImageCurrent
  BY InitCorrect DEF ImageCurrent, BlockAwaited, Init
<1>2. TypeOK /\ ImageCurrent /\ [Next]_vars => (TypeOK /\ ImageCurrent)'
  BY NextCorrect
<1> QED BY <1>1, <1>2, PTL DEF Spec

-----------------------------------------------------------------------------
(* The free list.  Its soundness as a predicate of the pages p and the     *)
(* head f, so that one batch can be taken apart into pushes and pops.      *)
ListSound(p, f) ==
  /\ f # NoBlock => p[f].kind = "Free"
  /\ \A b \in Block : p[b].kind = "Free" =>
       /\ p[b].next # f \/ f = NoBlock
       /\ p[b].next # NoBlock => p[p[b].next].kind = "Free"
  /\ \A b, c \in Block :
       p[b].kind = "Free" /\ p[c].kind = "Free" /\ p[b].next = p[c].next
         => b = c \/ p[b].next = NoBlock

(* FreeListSound is ListSound of the durable state. *)
LEMMA FreeListIsListSound == FreeListSound <=> ListSound(page, meta.free)
BY DEF FreeListSound, ListSound

(* Pages that are free neither before nor after leave the list alone. *)
LEMMA ListKept ==
  ASSUME NEW p \in [Block -> PageRecord], NEW q \in [Block -> PageRecord],
         NEW f \in BlockOrNone, ListSound(p, f),
         \A b \in Block : \/ q[b].kind = p[b].kind /\ q[b].next = p[b].next
                          \/ p[b].kind # "Free" /\ q[b].kind # "Free"
  PROVE  ListSound(q, f)
<1>1. \A b \in Block : p[b].kind = "Free" <=> q[b].kind = "Free"
  OBVIOUS
<1>2. \A b \in Block : p[b].kind = "Free" => q[b].next = p[b].next
  OBVIOUS
<1>3. \A b \in Block : p[b].next \in BlockOrNone
  BY DEF PageRecord
<1> QED BY <1>1, <1>2, <1>3 DEF ListSound, BlockOrNone

(* A block that is not free can be pushed. *)
LEMMA ListPushed ==
  ASSUME NEW p \in [Block -> PageRecord], NEW f \in BlockOrNone, ListSound(p, f),
         NEW b \in Block, p[b].kind # "Free"
  PROVE  ListSound([p EXCEPT ![b] = FreePage(f)], b)
<1> DEFINE q == [p EXCEPT ![b] = FreePage(f)]
<1>1. q[b].kind = "Free" /\ q[b].next = f
  BY FreePageType
<1>2. \A c \in Block : c # b => q[c] = p[c]
  OBVIOUS
<1>3. \A c \in Block : p[c].next \in BlockOrNone
  BY DEF PageRecord
<1>4. b # NoBlock
  BY DEF Block, NoBlock
<1> HIDE DEF q
<1>5. ListSound(q, b)
  <2>1. \A c \in Block : c # b /\ q[c].kind = "Free" =>
          /\ q[c].next # b /\ (q[c].next # f \/ f = NoBlock)
          /\ q[c].next # NoBlock => q[q[c].next].kind = "Free"
    BY <1>2, <1>3, <1>4 DEF ListSound, BlockOrNone
  <2>2. f # b /\ (f # NoBlock => q[f].kind = "Free")
    BY <1>2, <1>4 DEF ListSound, BlockOrNone
  <2>3. ASSUME NEW c \in Block, NEW d \in Block,
               q[c].kind = "Free", q[d].kind = "Free", q[c].next = q[d].next
        PROVE  c = d \/ q[c].next = NoBlock
    <3>1. CASE c # b /\ d # b
      BY <1>2, <2>3, <3>1 DEF ListSound
    <3>2. CASE c = b \/ d = b
      BY <1>1, <2>1, <2>3, <3>2
    <3> QED BY <3>1, <3>2
  <2>4. \A c \in Block : q[c].kind = "Free" =>
          /\ q[c].next # b \/ b = NoBlock
          /\ q[c].next # NoBlock => q[q[c].next].kind = "Free"
    BY <1>1, <2>1, <2>2
  <2> QED BY <1>1, <2>3, <2>4 DEF ListSound
<1> QED BY <1>5 DEF q

(* The head can be taken off and written with anything but a free page. *)
LEMMA ListPopped ==
  ASSUME NEW p \in [Block -> PageRecord], NEW f \in Block, ListSound(p, f),
         NEW new \in PageRecord, new.kind # "Free"
  PROVE  ListSound([p EXCEPT ![f] = new], p[f].next)
<1> DEFINE q == [p EXCEPT ![f] = new]
<1>1. q[f].kind # "Free"
  OBVIOUS
<1>2. \A c \in Block : c # f => q[c] = p[c]
  OBVIOUS
<1>3. \A c \in Block : p[c].next \in BlockOrNone
  BY DEF PageRecord
<1>4. f # NoBlock
  BY DEF Block, NoBlock
<1> HIDE DEF q
<1>5. ListSound(q, p[f].next)
  BY <1>1, <1>2, <1>3, <1>4 DEF ListSound, BlockOrNone
<1> QED BY <1>5 DEF q

(* A batch that neither takes a page off the list nor frees one. *)
ListUntouched ==
  /\ meta'.free = meta.free
  /\ \A b \in Block : \/ page'[b].kind = page[b].kind /\ page'[b].next = page[b].next
                      \/ page[b].kind # "Free" /\ page'[b].kind # "Free"

(* What the free-list lemmas need of a state. *)
LEMMA FreeFacts ==
  ASSUME TypeOK, ImageCurrent, FreeListSound
  PROVE  /\ ListSound(page, meta.free)
         /\ page \in [Block -> PageRecord] /\ meta.free \in BlockOrNone
         /\ blk # NoBlock => blk \in Block /\ page[blk].kind = "Zero"
BY FreeListIsListSound DEF TypeOK, MetaRecord, ImageCurrent, MetapageCurrent, BlockOrNone

(* Such a batch keeps the list sound. *)
LEMMA FreeListUntouched ==
  ASSUME TypeOK, TypeOK', ImageCurrent, FreeListSound, ListUntouched
  PROVE  FreeListSound'
<1>1. page' \in [Block -> PageRecord]
  BY DEF TypeOK
<1>2. ListSound(page', meta.free)
  BY <1>1, FreeFacts, ListKept DEF ListUntouched
<1> QED BY <1>2 DEF ListUntouched, ListSound, FreeListSound

(* A step that writes neither pages nor metapage is such a batch. *)
LEMMA UnchangedUntouched ==
  ASSUME UNCHANGED <<page, meta>>
  PROVE  ListUntouched
BY DEF ListUntouched

(* insert() pops the list or leaves it alone. *)
LEMMA InsertFreeList ==
  ASSUME TypeOK, TypeOK', ImageCurrent, FreeListSound, Insert
  PROVE  FreeListSound'
<1> USE FreeFacts
<1>1. m = meta
  BY DEF Insert, ReserveFirst, ReserveAppend, ReserveNext, StoreFragmentReused,
         StoreFragmentAllocated, FragmentNeedsBlock, PayloadReady, LinkTerm, LinkFirstTerm,
         LinkNewTerm, LinkNewTermNextPage, LinkPromote, LinkInline, LinkFirstPosting,
         LinkAppend, LinkNextPage, LinkReady, Publish, ImageCurrent, MetapageCurrent
<1>2. CASE ReserveFirst \/ ReserveAppend \/ ReserveNext
  <2>1. meta'.free = meta.free
    <3>1. ASSUME NEW b, NEW h, AppendOwner(b, h) PROVE meta'.free = meta.free
      BY <1>1, <3>1 DEF AppendOwner, TypeOK, MetaRecord
    <3> QED BY <1>2, <3>1 DEF ReserveFirst, ReserveAppend, ReserveNext
  <2>2. CASE ReserveFirst
    <3>1. \A b \in Block : b # blk => page'[b] = page[b]
      BY <2>2 DEF ReserveFirst
    <3>2. blk \in Block /\ page'[blk].kind = "Owners" /\ page[blk].kind = "Zero"
      BY <2>2 DEF ReserveFirst, OwnersPage, NewPage
    <3> QED BY <2>1, <3>1, <3>2, FreeListUntouched DEF ListUntouched
  <2>3. CASE ReserveAppend
    BY <2>1, <2>3, FreeListUntouched DEF ListUntouched, ReserveAppend
  <2>4. CASE ReserveNext
    BY <2>1, <2>4, FreeListUntouched DEF ListUntouched, ReserveNext, OwnersPage, NewPage, PageRecord
  <2> QED BY <1>2, <2>2, <2>3, <2>4
<1>3. CASE StoreFragmentReused
  <2>1. meta.free \in Block /\ meta'.free = page[meta.free].next
    BY <1>1, <1>3 DEF StoreFragmentReused, TypeOK, MetaRecord, BlockOrNone
  <2>2. PICK new : new.kind = "Fragment" /\ page' = [page EXCEPT ![meta.free] = new]
    BY <1>1, <1>3 DEF StoreFragmentReused, FragmentPage
  <2>3. page'[meta.free] = new /\ new \in PageRecord
    BY <2>1, <2>2 DEF TypeOK
  <2>4. ListSound(page', meta'.free)
    BY <2>1, <2>2, <2>3, ListPopped
  <2> QED BY <2>4 DEF ListSound, FreeListSound
<1>4. CASE StoreFragmentAllocated
  BY <1>4, FreeListUntouched DEF ListUntouched, StoreFragmentAllocated, FragmentPage
<1>5. CASE PayloadReady \/ Publish
  BY <1>5, UnchangedUntouched, FreeListUntouched DEF PayloadReady, Publish
<1>6. ASSUME NEW t \in Term, LinkTerm(t) PROVE FreeListSound'
  <2>1. meta'.free = meta.free
    BY ZenonT(40), <1>1, <1>6 DEF LinkTerm, LinkFirstTerm, LinkNewTerm, LinkNewTermNextPage, LinkPromote,
         LinkInline, LinkFirstPosting, LinkAppend, LinkNextPage, TypeOK, MetaRecord
  <2> USE <2>1 DEF ListUntouched, LinkReady, PostingTail, PostingKind
  <2>2. CASE LinkFirstTerm(t)
    <3>1. \A b \in Block : b # blk => page'[b] = page[b]
      BY <2>2 DEF LinkFirstTerm
    <3>2. blk \in Block /\ page'[blk].kind = "Dictionary" /\ page[blk].kind = "Zero"
      BY <2>2 DEF LinkFirstTerm, LinkNeedsBlock, DictionaryPage, NewPage
    <3> QED BY <3>1, <3>2, FreeListUntouched
  <2>9. CASE LinkNewTerm(t)
    BY <2>9, FreeListUntouched DEF LinkNewTerm
  <2>3. CASE LinkNewTermNextPage(t)
    BY <2>3, FreeListUntouched DEF LinkNewTermNextPage, LinkNeedsBlock, DictionaryPage, NewPage, PageRecord
  <2>4. CASE LinkPromote(t)
    BY <2>4, FreeListUntouched DEF LinkPromote, LinkNeedsBlock, PostingsPage
  <2>5. CASE LinkInline(t)
    BY <2>5, FreeListUntouched DEF LinkInline
  <2>6. CASE LinkFirstPosting(t)
    BY <2>6, FreeListUntouched DEF LinkFirstPosting, LinkNeedsBlock, PostingsPage
  <2>7. CASE LinkAppend(t)
    BY <2>7, FreeListUntouched DEF LinkAppend, PageRecord
  <2>8. CASE LinkNextPage(t)
    BY <2>8, FreeListUntouched DEF LinkNextPage, LinkNeedsBlock, PostingsPage, PageRecord
  <2> QED BY <1>6, <2>2, <2>3, <2>4, <2>5, <2>6, <2>7, <2>8, <2>9 DEF LinkTerm
<1> QED BY <1>2, <1>3, <1>4, <1>5, <1>6 DEF Insert

(* recover() pushes one page, or two in order. *)
LEMMA RecoverFreeList ==
  ASSUME TypeOK, TypeOK', ImageCurrent, FreeListSound, Recover
  PROVE  FreeListSound'
<1> USE FreeFacts
<1> DEFINE b == meta.journal.head
<1>0. b \in Block /\ page[b].kind # "Free"
  <2>1. b \in BlockOrNone
    BY DEF TypeOK, MetaRecord, Journal
  <2>2. RecoverAccepts
    BY DEF Recover, RecoverOne, RecoverTwo
  <2> QED BY <2>1, <2>2 DEF RecoverAccepts, PostingKind, BlockOrNone
<1> DEFINE freed == [page EXCEPT ![b] = FreePage(meta.free)]
<1>1. ListSound(freed, b)
  BY <1>0, ListPushed
<1>2. CASE RecoverOne
  <2>1. page' = freed /\ meta'.free = b
    BY <1>2 DEF RecoverOne, TypeOK, MetaRecord
  <2> QED BY <1>1, <2>1 DEF ListSound, FreeListSound
<1>3. CASE RecoverTwo
  <2> DEFINE c == page[b].next
  <2>1. c \in Block /\ c # b /\ page[c].kind # "Free"
    <3>1. c \in BlockOrNone
      BY <1>0 DEF PageRecord
    <3> QED BY <1>3, <3>1 DEF RecoverTwo, PostingKind, BlockOrNone
  <2>2. freed \in [Block -> PageRecord]
    BY FreePageType
  <2>3. freed[c].kind # "Free"
    BY <1>0, <2>1
  <2>4. page' = [freed EXCEPT ![c] = FreePage(b)] /\ meta'.free = c
    BY <1>3 DEF RecoverTwo, TypeOK, MetaRecord
  <2> HIDE DEF freed, c
  <2>5. b \in BlockOrNone
    BY <1>0 DEF BlockOrNone
  <2> HIDE DEF b
  <2>6. ListSound(page', meta'.free)
    BY <1>0, <1>1, <2>1, <2>2, <2>3, <2>4, <2>5, ListPushed
  <2> QED BY <2>6 DEF ListSound, FreeListSound
<1> QED BY <1>2, <1>3 DEF Recover

(* rewrite() pops the list for its output or leaves it alone. *)
LEMMA CompactionFreeList ==
  ASSUME TypeOK, TypeOK', ImageCurrent, FreeListSound, Compaction
  PROVE  FreeListSound'
<1> USE FreeFacts
<1>1. CASE PersistReused
  <2>1. m = meta /\ meta.free \in Block /\ PersistOutput(meta.free, page[meta.free].next)
    BY <1>1 DEF PersistReused, PersistOutput, ImageCurrent, MetapageCurrent, BlockOrNone
  <2>2. meta'.free = page[meta.free].next
    BY <2>1 DEF PersistOutput, TypeOK, MetaRecord
  <2> DEFINE new == SealedPage(cpt.term, FirstRefs(cpt.pending, SealedPerPage),
                               cpt.mode = "DirectTid")
             taken == [page EXCEPT ![meta.free] = new]
  <2>3. new.kind \in {"Sealed", "Direct"} /\ new.kind # "Free"
    BY DEF SealedPage
  <2>4. \/ page' = taken
        \/ /\ page' = [taken EXCEPT ![meta.journal.tail].next = meta.free]
           /\ page[meta.journal.tail].kind \in {"Sealed", "Direct"}
    BY <2>1 DEF PersistOutput
  <2>5. new \in PageRecord
    <3>1. FirstRefs(cpt.pending, SealedPerPage) \subseteq Owner
      BY DEF FirstRefs, TypeOK, CompactRecord
    <3> QED BY <3>1, RecordFacts DEF SealedPage, PageRecord, PageKind, TypeOK, CompactRecord
  <2> HIDE DEF new
  <2>6. ListSound(taken, page[meta.free].next) /\ taken \in [Block -> PageRecord]
    BY <2>1, <2>3, <2>5, ListPopped
  <2>7. \A b \in Block : \/ page'[b].kind = taken[b].kind /\ page'[b].next = taken[b].next
                         \/ taken[b].kind # "Free" /\ page'[b].kind # "Free"
    <3>1. CASE page' = taken
      BY <3>1
    <3>2. CASE /\ page' = [taken EXCEPT ![meta.journal.tail].next = meta.free]
               /\ page[meta.journal.tail].kind \in {"Sealed", "Direct"}
      <4>1. taken[meta.journal.tail].kind # "Free" \/ meta.journal.tail \notin Block
        BY <2>1, <2>3, <3>2
      <4> HIDE DEF taken
      <4> QED BY <2>6, <3>2, <4>1 DEF PageRecord
    <3> QED BY <2>4, <3>1, <3>2
  <2>8. page[meta.free].next \in BlockOrNone /\ page' \in [Block -> PageRecord]
    BY <2>1 DEF PageRecord, TypeOK
  <2> HIDE DEF taken
  <2>9. ListSound(page', meta'.free)
    BY <2>2, <2>6, <2>7, <2>8, ListKept
  <2> QED BY <2>9 DEF ListSound, FreeListSound
<1>2. CASE PersistAllocated
  <2>1. m = meta /\ blk \in Block /\ page[blk].kind = "Zero" /\ meta.free = NoBlock
        /\ PersistOutput(blk, NoBlock)
    BY <1>2 DEF PersistAllocated, PersistOutput, ImageCurrent, MetapageCurrent, BlockOrNone
  <2>2. meta'.free = meta.free
    BY <2>1 DEF PersistOutput, TypeOK, MetaRecord
  <2> DEFINE new == SealedPage(cpt.term, FirstRefs(cpt.pending, SealedPerPage),
                               cpt.mode = "DirectTid")
  <2>3. new.kind # "Free"
    BY DEF SealedPage
  <2>4. \/ page' = [page EXCEPT ![blk] = new]
        \/ /\ page' = [page EXCEPT ![blk] = new, ![meta.journal.tail].next = blk]
           /\ page[meta.journal.tail].kind \in {"Sealed", "Direct"}
    BY <2>1 DEF PersistOutput
  <2> HIDE DEF new
  <2>5. ListUntouched
    BY <2>1, <2>2, <2>3, <2>4 DEF ListUntouched, PageRecord
  <2> QED BY <2>5, FreeListUntouched
<1>3. CASE PublishReplacement
  <2>1. m = meta
    BY <1>3 DEF PublishReplacement, ImageCurrent, MetapageCurrent
  <2>2. meta'.free = meta.free
    BY <1>3, <2>1 DEF PublishReplacement, TypeOK, MetaRecord
  <2>3. \/ page' = page
        \/ /\ page' = [page EXCEPT ![cpt.boundary].next = NewHead]
           /\ page[cpt.boundary].kind = "Sealed"
    BY <1>3 DEF PublishReplacement
  <2>4. ListUntouched
    BY <2>2, <2>3 DEF ListUntouched, PageRecord
  <2> QED BY <2>4, FreeListUntouched
<1>4. CASE \/ \E t \in Term : CompactSkip(t) \/ CompactInline(t) \/ RewriteBegin(t)
           \/ PublishRejected \/ RecoverEndCompact \/ CompactEnd
  <2>1. UNCHANGED <<page, meta>>
    BY <1>4 DEF CompactSkip, CompactInline, RewriteBegin, PublishRejected, RecoverEndCompact,
                CompactEnd
  <2> QED BY <2>1, UnchangedUntouched, FreeListUntouched
<1> QED BY <1>1, <1>2, <1>3, <1>4 DEF Compaction

(* The sweep pushes fragments and orphans. *)
LEMMA VacuumFreeList ==
  ASSUME TypeOK, TypeOK', ImageCurrent, FreeListSound, VacuumPass
  PROVE  FreeListSound'
<1> USE FreeFacts
<1>1. ASSUME NEW b \in Block, SweepFragment(b) \/ ReclaimZero(b)
      PROVE  FreeListSound'
  <2>1. m = meta /\ page[b].kind # "Free" /\ Reclaim(b)
    BY <1>1 DEF SweepFragment, SweepNext, ReclaimZero, DeadFragment, ZeroBlocks,
                ImageCurrent, MetapageCurrent
  <2>2. page' = [page EXCEPT ![b] = FreePage(meta.free)] /\ meta'.free = b
    BY <2>1 DEF Reclaim, TypeOK, MetaRecord
  <2>3. ListSound(page', meta'.free)
    BY <2>1, <2>2, ListPushed
  <2> QED BY <2>3 DEF ListSound, FreeListSound
<1>2. ASSUME NEW b \in Block, SweepDirect(b)
      PROVE  FreeListSound'
  <2>1. ListUntouched
    BY <1>2 DEF SweepDirect, ListUntouched, PageRecord
  <2> QED BY <2>1, FreeListUntouched
<1>3. CASE RecoverEndVacuum \/ RemoveOwners \/ SweepEnd \/ VacuumEnd
  <2>1. UNCHANGED <<page, meta>>
    BY <1>3 DEF RecoverEndVacuum, RemoveOwners, SweepEnd, VacuumEnd
  <2> QED BY <2>1, UnchangedUntouched, FreeListUntouched
<1> QED BY <1>1, <1>2, <1>3 DEF VacuumPass

-----------------------------------------------------------------------------
(* A batch writes pages of the relation only: each page it changes was     *)
(* read under a kind of its own or allocated before.                       *)
WritesInside ==
  /\ size' = size
  /\ \A b \in Block : page[b].kind = "None" <=> page'[b].kind = "None"

(* An allocated block is a zero page of the relation. *)
LEMMA BlockFacts ==
  ASSUME TypeOK, ImageCurrent
  PROVE  /\ page \in [Block -> PageRecord]
         /\ blk # NoBlock => blk \in Block /\ page[blk].kind = "Zero"
BY DEF TypeOK, ImageCurrent, MetapageCurrent, BlockOrNone

(* insert() writes pages of the relation only. *)
LEMMA InsertInside ==
  ASSUME TypeOK, ImageCurrent, Insert
  PROVE  WritesInside
<1> USE BlockFacts DEF WritesInside
<1>1. CASE ReserveFirst
  BY <1>1 DEF ReserveFirst, AppendOwner, OwnersPage, NewPage
<1>2. CASE ReserveAppend
  BY <1>2 DEF ReserveAppend, AppendOwner
<1>3. CASE ReserveNext
  BY <1>3 DEF ReserveNext, AppendOwner, OwnersPage, NewPage, PageRecord
<1>4. CASE StoreFragmentReused
  BY <1>4 DEF StoreFragmentReused, FragmentPage
<1>5. CASE StoreFragmentAllocated
  BY <1>5 DEF StoreFragmentAllocated, FragmentPage
<1>6. CASE PayloadReady \/ Publish
  BY <1>6 DEF PayloadReady, Publish
<1>7. ASSUME NEW t \in Term, LinkTerm(t) PROVE WritesInside
  <2> USE DEF LinkReady, Linked, LinkNeedsBlock
  <2>1. CASE LinkFirstTerm(t)
    BY <2>1 DEF LinkFirstTerm, DictionaryPage, NewPage
  <2>2. CASE LinkNewTerm(t) \/ LinkInline(t)
    BY <2>2 DEF LinkNewTerm, LinkInline
  <2>3. CASE LinkNewTermNextPage(t)
    BY <2>3 DEF LinkNewTermNextPage, DictionaryPage, NewPage, PageRecord
  <2>4. CASE LinkPromote(t)
    BY <2>4 DEF LinkPromote, PostingsPage
  <2>5. CASE LinkFirstPosting(t)
    BY <2>5 DEF LinkFirstPosting, PostingsPage
  <2>6. CASE LinkAppend(t)
    BY <2>6 DEF LinkAppend, PageRecord
  <2>7. CASE LinkNextPage(t)
    BY <2>7 DEF LinkNextPage, PostingTail, PostingKind, PostingsPage, PageRecord
  <2> QED BY <1>7, <2>1, <2>2, <2>3, <2>4, <2>5, <2>6, <2>7 DEF LinkTerm
<1> QED BY <1>1, <1>2, <1>3, <1>4, <1>5, <1>6, <1>7 DEF Insert

(* So do recovery, compaction and vacuum. *)
LEMMA MaintenanceInside ==
  ASSUME TypeOK, ImageCurrent, Recover \/ Compaction \/ VacuumPass
  PROVE  WritesInside
<1> USE BlockFacts DEF WritesInside
<1>1. CASE RecoverOne
  BY <1>1 DEF RecoverOne, RecoverAccepts, PostingKind, FreePage, NewPage
<1>2. CASE RecoverTwo
  BY <1>2 DEF RecoverTwo, RecoverAccepts, PostingKind, FreePage, NewPage
<1>3. ASSUME NEW b \in Block, NEW f, PersistOutput(b, f), page[b].kind # "None"
      PROVE  WritesInside
  <2> DEFINE new == SealedPage(cpt.term, FirstRefs(cpt.pending, SealedPerPage),
                               cpt.mode = "DirectTid")
  <2>1. new.kind # "None"
    BY DEF SealedPage
  <2>2. /\ size' = size
        /\ \/ page' = [page EXCEPT ![b] = new]
           \/ page' = [page EXCEPT ![b] = new, ![m.journal.tail].next = b]
    BY <1>3 DEF PersistOutput
  <2> HIDE DEF new
  <2> QED BY <1>3, <2>1, <2>2 DEF PageRecord
<1>4. CASE PersistReused
  <2>1. m.free \in Block
    BY <1>4 DEF PersistReused, TypeOK, MetaRecord, BlockOrNone
  <2> QED BY <1>3, <1>4, <2>1 DEF PersistReused
<1>5. CASE PersistAllocated
  BY <1>3, <1>5 DEF PersistAllocated
<1>6. CASE PublishReplacement
  BY <1>6 DEF PublishReplacement, PageRecord
<1>7. CASE \/ \E t \in Term : CompactSkip(t) \/ CompactInline(t) \/ RewriteBegin(t)
           \/ PublishRejected \/ RecoverEndCompact \/ CompactEnd
  BY <1>7 DEF CompactSkip, CompactInline, RewriteBegin, PublishRejected, RecoverEndCompact,
              CompactEnd
<1>8. ASSUME NEW b \in Block, SweepDirect(b) PROVE WritesInside
  BY <1>8 DEF SweepDirect, PageRecord
<1>9. ASSUME NEW b \in Block, SweepFragment(b) \/ ReclaimZero(b) PROVE WritesInside
  BY <1>9 DEF SweepFragment, DeadFragment, ReclaimZero, ZeroBlocks, Reclaim, FreePage, NewPage
<1>10. CASE RecoverEndVacuum \/ RemoveOwners \/ SweepEnd \/ VacuumEnd
  BY <1>10 DEF RecoverEndVacuum, RemoveOwners, SweepEnd, VacuumEnd
<1> QED BY <1>1, <1>2, <1>4, <1>5, <1>6, <1>7, <1>8, <1>9, <1>10
        DEF Recover, Compaction, VacuumPass

(* Only an extension moves the end, by the page it adds. *)
LEMMA PastEndStep ==
  ASSUME TypeOK, ImageCurrent, PastEnd, [Next]_vars
  PROVE  PastEnd'
<1>1. CASE Insert \/ Recover \/ Compaction \/ VacuumPass
  BY <1>1, InsertInside, MaintenanceInside DEF WritesInside, PastEnd
<1>2. CASE Allocate
  <2>1. /\ size' = size + 1 /\ size + 1 \in Block /\ size \in Nat
        /\ page' = [page EXCEPT ![size + 1] = ZeroPage]
    BY <1>2, BoundAssumption DEF Allocate, Extend, TypeOK, Block
  <2>2. ZeroPage.kind = "Zero"
    BY DEF ZeroPage, NewPage
  <2>3. \A b \in Block : b # size + 1 => page'[b] = page[b]
    BY <2>1 DEF TypeOK
  <2>4. page'[size + 1].kind = "Zero"
    BY <2>1, <2>2 DEF TypeOK
  <2>5. ASSUME NEW b \in Block PROVE page'[b].kind = "None" <=> b > size'
    <3>1. CASE b = size + 1
      BY <2>1, <2>4, <3>1
    <3>2. CASE b # size + 1
      <4>1. b > size <=> b > size'
        BY <2>1, <3>2 DEF Block
      <4> QED BY <2>3, <3>2, <4>1 DEF PastEnd
    <3> QED BY <3>1, <3>2
  <2> QED BY <2>5 DEF PastEnd
<1>3. CASE \/ UNCHANGED vars \/ ExtendFails \/ FailedCleanup \/ Interrupt \/ VacuumBegin
           \/ \E r \in Root : HeapDelete(r)
           \/ \E r \in Root, d \in Document : InsertBegin(r, d)
           \/ \E mode \in CompactMode : CompactBegin(mode)
  BY <1>3 DEF vars, ExtendFails, FailedCleanup, Interrupt, Abandoned, VacuumBegin, HeapDelete,
              InsertBegin, CompactBegin, PastEnd
<1> QED BY <1>1, <1>2, <1>3 DEF Next, Step

(* Every step keeps the free list sound. *)
LEMMA FreeListStep ==
  ASSUME TypeOK, TypeOK', ImageCurrent, PastEnd, FreeListSound, [Next]_vars
  PROVE  FreeListSound'
<1>1. CASE Insert \/ Recover \/ Compaction \/ VacuumPass
  BY <1>1, InsertFreeList, RecoverFreeList, CompactionFreeList, VacuumFreeList
<1>2. CASE Allocate
  <2>1. /\ size + 1 \in Block /\ size + 1 > size /\ meta' = meta
        /\ page' = [page EXCEPT ![size + 1] = ZeroPage]
    BY <1>2, BoundAssumption DEF Allocate, Extend, TypeOK, Block
  <2>2. page[size + 1].kind = "None"
    BY <2>1 DEF PastEnd
  <2>3. page'[size + 1].kind = "Zero"
    BY <2>1 DEF ZeroPage, NewPage, TypeOK
  <2>4. ListUntouched
    BY <2>1, <2>2, <2>3 DEF ListUntouched, TypeOK
  <2> QED BY <2>4, FreeListUntouched
<1>3. CASE \/ UNCHANGED vars \/ ExtendFails \/ FailedCleanup \/ Interrupt \/ VacuumBegin
           \/ \E r \in Root : HeapDelete(r)
           \/ \E r \in Root, d \in Document : InsertBegin(r, d)
           \/ \E mode \in CompactMode : CompactBegin(mode)
  <2>1. UNCHANGED <<page, meta>>
    BY <1>3 DEF vars, ExtendFails, FailedCleanup, Interrupt, Abandoned, VacuumBegin, HeapDelete,
                InsertBegin, CompactBegin
  <2> QED BY <2>1, UnchangedUntouched, FreeListUntouched
<1> QED BY <1>1, <1>2, <1>3 DEF Next, Step

(* The free list runs through free pages only and no page is on it twice,  *)
(* so the block an insertion or a rewrite pops belongs to nobody, whatever *)
(* the order of reclamations, recoveries, reuses and crashes.              *)
THEOREM FreeListAlwaysSound == Spec => []FreeListSound
<1> DEFINE Inv == TypeOK /\ ImageCurrent /\ PastEnd /\ FreeListSound
<1>1. Init => Inv
  <2> SUFFICES ASSUME Init PROVE Inv
    OBVIOUS
  <2>1. TypeOK /\ ImageCurrent
    BY InitCorrect DEF ImageCurrent, BlockAwaited, Init
  <2>2. \A b \in Block : page[b].kind = "None" /\ b > size
    BY DEF Init, NoPage, NewPage, Block
  <2>3. meta.free = NoBlock
    BY DEF Init, EmptyMeta
  <2> QED BY <2>1, <2>2, <2>3 DEF PastEnd, FreeListSound
<1>2. Inv /\ [Next]_vars => Inv'
  BY NextCorrect, PastEndStep, FreeListStep
<1>3. Inv => FreeListSound
  OBVIOUS
<1> QED BY <1>1, <1>2, <1>3, PTL DEF Spec

-----------------------------------------------------------------------------
(* Owner slots *)

(* What the step of OwnerNeverRevived says of one slot. *)
SlotKept(o, new) ==
  /\ new.root = owner[o].root /\ new.doc = owner[o].doc
  /\ owner[o].pub = "Abandoned" => new.pub = "Abandoned"
  /\ owner[o].pub = "Published" /\ ~owner[o].live => new.pub = "Published" /\ ~new.live

(* change_owner() keeps root, document and finality. *)
LEMMA ChangedKeepsSlot ==
  ASSUME TypeOK, NEW o \in Owner, NEW h \in BlockOrNone,
         NEW c \in {"PayloadReady", "Publish", "Remove", "Abandon"}, CanChange(o, c)
  PROVE  SlotKept(o, Changed(o, c, h))
BY ChangedFacts DEF SlotKept

(* So does no change. *)
LEMMA UnchangedKeepsSlot ==
  ASSUME NEW o \in Owner
  PROVE  SlotKept(o, owner[o])
BY DEF SlotKept

(* Every step keeps every written slot. *)
LEMMA SlotStep ==
  ASSUME TypeOK, ImageCurrent, [Next]_vars, NEW o \in Owner, owner[o].pub # "None"
  PROVE  SlotKept(o, owner'[o])
<1> USE UnchangedKeepsSlot
<1>1. CASE UNCHANGED owner
  BY <1>1
<1>2. ASSUME NEW b, NEW h, AppendOwner(b, h), pc = "reserve"
      PROVE  SlotKept(o, owner'[o])
  <2>1. m = meta /\ o < meta.inc /\ meta.inc \in Int
    BY <1>2 DEF ImageCurrent, MetapageCurrent, TypeOK, MetaRecord
  <2>2. owner'[o] = owner[o]
    BY <1>2, <2>1 DEF AppendOwner, TypeOK, Owner
  <2> QED BY <2>2
<1>3. CASE PayloadReady \/ Publish
  <2>1. ins.owner \in Owner /\ ins.head \in BlockOrNone /\ NoBlock \in BlockOrNone
    BY <1>3, RecordFacts DEF PayloadReady, Publish, ImageCurrent, MetapageCurrent, TypeOK,
                             InsertRecord
  <2>2. CASE o # ins.owner
    BY <1>3, <2>2 DEF PayloadReady, Publish, TypeOK
  <2>3. CASE o = ins.owner /\ PayloadReady
    <3>1. owner'[o] = Changed(o, "PayloadReady", ins.head) /\ CanChange(o, "PayloadReady")
      BY <2>3 DEF PayloadReady, TypeOK
    <3> QED BY <2>1, <3>1, ChangedKeepsSlot
  <2>4. CASE o = ins.owner /\ Publish
    <3>1. owner'[o] = Changed(o, "Publish", NoBlock) /\ CanChange(o, "Publish")
      BY <2>4 DEF Publish, TypeOK
    <3> QED BY <2>1, <3>1, ChangedKeepsSlot
  <2> QED BY <1>3, <2>2, <2>3, <2>4
<1>4. CASE RemoveOwners
  <2>1. owner'[o] = Retired(o)
    BY <1>4 DEF RemoveOwners
  <2> QED BY <2>1, ChangedKeepsSlot, RecordFacts DEF Retired
<1>5. CASE Insert
  <2>1. ASSUME NEW t \in Term, LinkTerm(t) PROVE UNCHANGED owner
    BY <2>1 DEF LinkTerm, LinkFirstTerm, LinkNewTerm, LinkNewTermNextPage, LinkPromote,
                LinkInline, LinkFirstPosting, LinkAppend, LinkNextPage, Linked
  <2> QED BY <1>1, <1>2, <1>3, <1>5, <2>1
          DEF Insert, ReserveFirst, ReserveAppend, ReserveNext, StoreFragmentReused,
              StoreFragmentAllocated
<1>6. CASE Recover \/ Compaction
  BY <1>1, <1>6 DEF Recover, RecoverOne, RecoverTwo, Compaction, CompactSkip, CompactInline,
                    RewriteBegin, PersistReused, PersistAllocated, PersistOutput,
                    PublishReplacement, PublishRejected, RecoverEndCompact, CompactEnd
<1>7. CASE VacuumPass
  BY <1>1, <1>4, <1>7 DEF VacuumPass, RecoverEndVacuum, SweepDirect, SweepFragment,
                          ReclaimZero, Reclaim, SweepEnd, VacuumEnd
<1>8. CASE \/ UNCHANGED vars \/ Allocate \/ ExtendFails \/ FailedCleanup \/ Interrupt
           \/ VacuumBegin \/ \E r \in Root : HeapDelete(r)
           \/ \E r \in Root, d \in Document : InsertBegin(r, d)
           \/ \E mode \in CompactMode : CompactBegin(mode)
  BY <1>1, <1>8 DEF vars, Allocate, Extend, ExtendFails, FailedCleanup, Interrupt, Abandoned,
                    VacuumBegin, HeapDelete, InsertBegin, CompactBegin
<1> QED BY <1>5, <1>6, <1>7, <1>8 DEF Next, Step

(* A slot is never given to another document, and a removed or abandoned   *)
(* one never comes back: append_owner() writes under a fresh incarnation,  *)
(* and change_owner() accepts no change of either.                         *)
THEOREM SlotsNeverRevived == Spec => OwnerNeverRevived
<1> DEFINE Kept == \A o \in Owner : owner[o].pub # "None" =>
       /\ owner'[o].root = owner[o].root /\ owner'[o].doc = owner[o].doc
       /\ owner[o].pub = "Abandoned" => owner'[o].pub = "Abandoned"
       /\ owner[o].pub = "Published" /\ ~owner[o].live =>
            owner'[o].pub = "Published" /\ ~owner'[o].live
<1>1. Init => TypeOK /\ ImageCurrent
  BY InitCorrect DEF ImageCurrent, BlockAwaited, Init
<1>2. TypeOK /\ ImageCurrent /\ [Next]_vars => (TypeOK /\ ImageCurrent)'
  BY NextCorrect
<1>3. TypeOK /\ ImageCurrent /\ [Next]_vars => [Kept]_vars
  BY SlotStep DEF SlotKept
<1> QED BY <1>1, <1>2, <1>3, PTL DEF Spec, OwnerNeverRevived

-----------------------------------------------------------------------------
(* Heap identifiers: a root is recycled only when no live owner and no     *)
(* copied coordinate names it.  The argument is the order of a pass: its   *)
(* owner pass visits every owner page because owner pages ascend through   *)
(* the relation, its sweep then finds every reference to what the owner    *)
(* pass removed, and only its return frees the roots.                      *)

(* An allocated block is the last one of the relation. *)
BlockAtEnd == blk # NoBlock => blk = size

IsOwnerPage(b) == b \in Block /\ page[b].kind = "Owners"

(* Every owner page lies between the head and the tail of the chain, and   *)
(* none lies between an owner page and the page it links to.               *)
OwnerPagesAscend ==
  /\ meta.ownerHead # NoBlock => IsOwnerPage(meta.ownerTail)
  /\ \A b \in Block : page[b].kind = "Owners" =>
       /\ meta.ownerHead # NoBlock
       /\ meta.ownerHead <= b /\ b <= meta.ownerTail
       /\ b # meta.ownerTail =>
            \A c \in Block : page[c].kind = "Owners" /\ b < c => page[b].next <= c

SlotsOnOwnerPages ==
  \A o \in Owner : owner[o].pub # "None" => IsOwnerPage(owner[o].page)

SlotsHaveRoots == \A o \in Owner : owner[o].pub # "None" => owner[o].root \in Root

(* The roots of a pass stay dead until it returns. *)
DeadCollected == \A r \in vac.dead : heap[r] = "dead"

(* A slot that the owner pass has to change: a live owner of a collected   *)
(* root, or what an unfinished insertion left.                             *)
Unfinished(o) == owner[o].pub \in {"Allocated", "FragmentsWritten"}
Retirable(o) == (Live(o) /\ owner[o].root \in vac.dead) \/ Unfinished(o)

(* Such a slot is on a page the owner pass has still to visit, and there   *)
(* is none behind the owner pass.                                          *)
OwnersRetired ==
  \A o \in Owner : Retirable(o) =>
    /\ pc = "owners" => vac.at <= owner[o].page
    /\ pc \notin {"sweep", "zeros"}

CoordinatesOwned ==
  \A b \in Block : \A o \in page[b].roots :
    page[b].kind = "Direct" /\ owner[o].pub # "None"

SweptClean == pc = "zeros" => \A b \in Block : ~StaleDirect(b) /\ ~DeadFragment(b)

(* The root of an insertion is in use, by no live owner yet. *)
InsertOwnsRoot ==
  /\ pc \in {"reserve", "fragment", "link"} =>
       /\ ins.root \in Root /\ heap[ins.root] = "used"
       /\ \A o \in Owner : Live(o) => owner[o].root # ins.root
  /\ pc \in {"fragment", "link"} =>
       owner[ins.owner].root = ins.root /\ owner[ins.owner].pub # "None"

PendingLive == pc = "rewrite" => \A o \in cpt.pending : Live(o)

-----------------------------------------------------------------------------
(* What a batch does to owner pages and to copied coordinates *)

(* A page that is not an owner page and gains no coordinate but those of   *)
(* the references a rewrite has collected.                                 *)
PlainPage(b) ==
  /\ page[b].kind # "Owners" /\ page'[b].kind # "Owners"
  /\ \/ page'[b].roots = {}
     \/ page'[b].kind = page[b].kind /\ page'[b].roots \subseteq page[b].roots
     \/ page'[b].kind = "Direct" /\ pc = "rewrite" /\ page'[b].roots \subseteq cpt.pending

PlainBatch ==
  /\ meta'.ownerHead = meta.ownerHead /\ meta'.ownerTail = meta.ownerTail
  /\ \A b \in Block : page'[b] = page[b] \/ PlainPage(b)

(* A new page has no coordinates. *)
LEMMA NewPageFacts ==
  /\ \A k, n : NewPage(k, n).kind = k /\ NewPage(k, n).roots = {}
  /\ \A o, i, n : FragmentPage(o, i, n).kind = "Fragment" /\ FragmentPage(o, i, n).roots = {}
  /\ \A t, R : PostingsPage(t, R).kind = "Postings" /\ PostingsPage(t, R).roots = {}
BY DEF NewPage, FragmentPage, PostingsPage

(* A batch with a new page and the old tail that links to it changes       *)
(* nothing but the link of the tail.                                       *)
LEMMA LinkedFacts ==
  ASSUME NEW p \in [Block -> PageRecord], NEW q \in [Block -> PageRecord],
         NEW b \in Block, NEW new, NEW c, NEW n,
         q = [p EXCEPT ![b] = new, ![c].next = n]
  PROVE  /\ \A d \in Block : d # b /\ d # c => q[d] = p[d]
         /\ c \in Block /\ c # b =>
              q[c].kind = p[c].kind /\ q[c].roots = p[c].roots /\ q[c].next = n
         /\ b # c => q[b] = new
<1> DEFINE base == [p EXCEPT ![b] = new]
<1>1. q = [base EXCEPT ![c].next = n]
  OBVIOUS
<1>2. \A d \in Block : d # b => base[d] = p[d]
  OBVIOUS
<1>3. base[b] = new
  OBVIOUS
<1> HIDE DEF base
<1>4. \A d \in Block : d # c => q[d] = base[d]
  BY <1>1
<1>5. c \in Block => q[c] = [base[c] EXCEPT !.next = n]
  BY <1>1 DEF base
<1>6. c \in Block /\ c # b => p[c] \in PageRecord
  OBVIOUS
<1> QED BY <1>2, <1>3, <1>4, <1>5, <1>6 DEF PageRecord

(* insert() behind the reservation writes no owner page. *)
LEMMA InsertPlain ==
  ASSUME TypeOK, ImageCurrent, Insert, pc # "reserve"
  PROVE  PlainBatch
<1> USE BlockFacts, NewPageFacts DEF PlainBatch, PlainPage
<1>0. m = meta /\ meta \in MetaRecord
  BY DEF Insert, ReserveFirst, ReserveAppend, ReserveNext, StoreFragmentReused,
         StoreFragmentAllocated, FragmentNeedsBlock, PayloadReady, LinkTerm, LinkFirstTerm,
         LinkNewTerm, LinkNewTermNextPage, LinkPromote, LinkInline, LinkFirstPosting,
         LinkAppend, LinkNextPage, LinkReady, Publish, ImageCurrent, MetapageCurrent, TypeOK
<1>1. CASE StoreFragmentReused
  BY <1>0, <1>1 DEF StoreFragmentReused, MetaRecord
<1>2. CASE StoreFragmentAllocated
  BY <1>0, <1>2 DEF StoreFragmentAllocated
<1>3. CASE PayloadReady \/ Publish
  BY <1>3 DEF PayloadReady, Publish
<1>4. ASSUME NEW t \in Term, LinkTerm(t) PROVE PlainBatch
  <2> USE <1>0 DEF LinkReady, LinkNeedsBlock
  <2>1. CASE LinkFirstTerm(t)
    BY <2>1 DEF LinkFirstTerm, DictionaryPage, MetaRecord
  <2>2. CASE LinkNewTerm(t) \/ LinkInline(t)
    BY <2>2 DEF LinkNewTerm, LinkInline
  <2>3. CASE LinkNewTermNextPage(t)
    BY <2>3 DEF LinkNewTermNextPage, DictionaryPage, PageRecord, MetaRecord
  <2>4. CASE LinkPromote(t)
    BY <2>4 DEF LinkPromote
  <2>5. CASE LinkFirstPosting(t)
    BY <2>5 DEF LinkFirstPosting
  <2>6. CASE LinkAppend(t)
    BY <2>6 DEF LinkAppend, PostingTail, PostingKind, PageRecord
  <2>7. CASE LinkNextPage(t)
    <3>1. blk \in Block /\ page[blk].kind = "Zero"
      BY <2>7 DEF LinkNextPage, PostingTail, PostingKind, Known
    <3>2. /\ page' = [page EXCEPT ![blk] = PostingsPage(t, {ins.owner}), ![dict[t].tail].next = blk]
          /\ page[dict[t].tail].kind \in PostingKind /\ meta' = meta
      BY <2>7 DEF LinkNextPage, PostingTail
    <3>3. page' \in [Block -> PageRecord]
      BY <1>4, LinkCorrect DEF ImageCurrent, TypeOK
    <3>4. blk # dict[t].tail
      BY <3>1, <3>2 DEF PostingKind
    <3> QED BY <3>1, <3>2, <3>3, <3>4, LinkedFacts DEF PostingKind
  <2> QED BY <1>4, <2>1, <2>2, <2>3, <2>4, <2>5, <2>6, <2>7 DEF LinkTerm
<1> QED BY <1>1, <1>2, <1>3, <1>4 DEF Insert, ReserveFirst, ReserveAppend, ReserveNext

(* Nor do recovery, compaction and vacuum, and only a rewrite copies       *)
(* coordinates, those of the references it has collected.                  *)
LEMMA MaintenancePlain ==
  ASSUME TypeOK, ImageCurrent, Recover \/ Compaction \/ VacuumPass
  PROVE  PlainBatch
<1> USE BlockFacts, NewPageFacts DEF PlainBatch, PlainPage
<1>0. meta \in MetaRecord /\ m \in MetaRecord
  BY DEF TypeOK
<1>1. CASE RecoverOne
  BY <1>0, <1>1 DEF RecoverOne, RecoverAccepts, PostingKind, FreePage, MetaRecord
<1>2. CASE RecoverTwo
  <2>1. /\ page' = [page EXCEPT ![meta.journal.head] = FreePage(meta.free),
                               ![page[meta.journal.head].next] = FreePage(meta.journal.head)]
        /\ page[meta.journal.head].kind \in PostingKind
        /\ page[page[meta.journal.head].next].kind \in PostingKind
    BY <1>2 DEF RecoverTwo, RecoverAccepts
  <2>2. meta'.ownerHead = meta.ownerHead /\ meta'.ownerTail = meta.ownerTail
    BY <1>0, <1>2 DEF RecoverTwo, MetaRecord
  <2>3. page \in [Block -> PageRecord]
    BY DEF TypeOK
  <2> QED BY <2>1, <2>2, <2>3 DEF PostingKind, FreePage
<1>3. ASSUME NEW b \in Block, NEW f \in BlockOrNone, PersistOutput(b, f),
             page[b].kind # "Owners"
      PROVE  PlainBatch
  <2> DEFINE new == SealedPage(cpt.term, FirstRefs(cpt.pending, SealedPerPage),
                               cpt.mode = "DirectTid")
  <2>1. /\ new.kind \in {"Sealed", "Direct"}
        /\ new.roots = {} \/ (new.kind = "Direct" /\ new.roots \subseteq cpt.pending)
    BY DEF SealedPage, FirstRefs
  <2>2. m = meta /\ pc = "rewrite"
    BY <1>3 DEF PersistOutput, ImageCurrent, MetapageCurrent
  <2>3. meta'.ownerHead = meta.ownerHead /\ meta'.ownerTail = meta.ownerTail
    BY <1>0, <1>3, <2>2 DEF PersistOutput, MetaRecord
  <2>4. \/ page' = [page EXCEPT ![b] = new]
        \/ /\ page' = [page EXCEPT ![b] = new, ![m.journal.tail].next = b]
           /\ page[m.journal.tail].kind \in {"Sealed", "Direct"}
    BY <1>3 DEF PersistOutput
  <2> HIDE DEF new
  <2>5. CASE page' = [page EXCEPT ![b] = new]
    BY <1>3, <2>1, <2>2, <2>3, <2>5
  <2>6. CASE /\ page' = [page EXCEPT ![b] = new, ![m.journal.tail].next = b]
             /\ page[m.journal.tail].kind \in {"Sealed", "Direct"}
             /\ b # m.journal.tail
    <3>1. page' \in [Block -> PageRecord]
      BY <1>3, PersistOutputCorrect DEF ImageCurrent, TypeOK
    <3> QED BY <1>3, <2>1, <2>2, <2>3, <2>6, <3>1, LinkedFacts
  <2> QED BY <1>3, <2>4, <2>5, <2>6
<1>4. CASE PersistReused
  <2>1. m.free \in Block
    BY <1>0, <1>4 DEF PersistReused, MetaRecord, BlockOrNone
  <2>2. page[m.free].next \in BlockOrNone
    BY <2>1 DEF PageRecord
  <2> QED BY <1>3, <1>4, <2>1, <2>2 DEF PersistReused
<1>5. CASE PersistAllocated
  BY <1>3, <1>5, RecordFacts DEF PersistAllocated
<1>6. CASE PublishReplacement
  <2>1. m = meta
    BY <1>6 DEF PublishReplacement, ImageCurrent, MetapageCurrent
  <2>2. meta'.ownerHead = meta.ownerHead /\ meta'.ownerTail = meta.ownerTail
    BY <1>0, <1>6, <2>1 DEF PublishReplacement, MetaRecord
  <2> QED BY <1>6, <2>2 DEF PublishReplacement, PageRecord
<1>7. CASE \/ \E t \in Term : CompactSkip(t) \/ CompactInline(t) \/ RewriteBegin(t)
           \/ PublishRejected \/ RecoverEndCompact \/ CompactEnd
  BY <1>7 DEF CompactSkip, CompactInline, RewriteBegin, PublishRejected, RecoverEndCompact,
              CompactEnd
<1>8. ASSUME NEW b \in Block, SweepDirect(b) PROVE PlainBatch
  BY <1>8 DEF SweepDirect, StaleDirect, PageRecord
<1>9. ASSUME NEW b \in Block, SweepFragment(b) \/ ReclaimZero(b) PROVE PlainBatch
  <2>1. m = meta
    BY <1>9 DEF SweepFragment, SweepNext, ReclaimZero, ImageCurrent, MetapageCurrent
  <2> QED BY <1>0, <1>9, <2>1 DEF SweepFragment, DeadFragment, ReclaimZero, ZeroBlocks, Reclaim,
                                  FreePage, MetaRecord
<1>10. CASE RecoverEndVacuum \/ RemoveOwners \/ SweepEnd \/ VacuumEnd
  BY <1>10 DEF RecoverEndVacuum, RemoveOwners, SweepEnd, VacuumEnd
<1> QED BY <1>1, <1>2, <1>4, <1>5, <1>6, <1>7, <1>8, <1>9, <1>10
        DEF Recover, Compaction, VacuumPass

(* The steps of the host leave pages alone, or add a zero page behind the  *)
(* last one.                                                               *)
LEMMA HostPlain ==
  ASSUME TypeOK, ImageCurrent, PastEnd,
         \/ Allocate \/ ExtendFails \/ FailedCleanup \/ Interrupt \/ VacuumBegin
         \/ \E r \in Root : HeapDelete(r)
         \/ \E r \in Root, d \in Document : InsertBegin(r, d)
         \/ \E mode \in CompactMode : CompactBegin(mode)
  PROVE  PlainBatch
<1> USE NewPageFacts DEF PlainBatch, PlainPage
<1>1. CASE Allocate
  <2>1. size + 1 \in Block /\ size + 1 > size
    BY <1>1, BoundAssumption DEF Allocate, Extend, TypeOK, Block
  <2>2. page[size + 1].kind = "None"
    BY <2>1 DEF PastEnd
  <2> QED BY <1>1, <2>1, <2>2 DEF Allocate, Extend, ZeroPage, TypeOK
<1>2. CASE \/ ExtendFails \/ FailedCleanup \/ Interrupt \/ VacuumBegin
           \/ \E r \in Root : HeapDelete(r)
           \/ \E r \in Root, d \in Document : InsertBegin(r, d)
           \/ \E mode \in CompactMode : CompactBegin(mode)
  BY <1>2 DEF ExtendFails, FailedCleanup, Interrupt, Abandoned, VacuumBegin, HeapDelete,
              InsertBegin, CompactBegin
<1> QED BY <1>1, <1>2

-----------------------------------------------------------------------------
(* The steps of the model by what they do to slots, roots and stages *)

Reserve == ReserveFirst \/ ReserveAppend \/ ReserveNext

Starts ==
  \/ VacuumBegin
  \/ \E r \in Root, d \in Document : InsertBegin(r, d)
  \/ \E mode \in CompactMode : CompactBegin(mode)

(* A step that leaves slots, heap and pass alone and enters no stage that  *)
(* relies on them.                                                         *)
QuietStep ==
  /\ UNCHANGED <<owner, heap, vac>>
  /\ ins'.root = ins.root /\ ins'.owner = ins.owner
  /\ pc' = pc \/ pc' \in {"recover", "compact", "idle", "failed"}
  /\ pc' = "rewrite" => cpt'.pending \subseteq cpt.pending

(* The steps that are not quiet. *)
LEMMA StepKinds ==
  ASSUME TypeOK, [Next]_vars
  PROVE  \/ Reserve \/ PayloadReady \/ Publish
         \/ RecoverEndVacuum \/ RemoveOwners \/ SweepEnd \/ VacuumEnd
         \/ Starts \/ Abandoned
         \/ \E r \in Root : HeapDelete(r)
         \/ \E t \in Term : RewriteBegin(t)
         \/ QuietStep
<1> USE DEF QuietStep
<1>0. ins \in InsertRecord /\ cpt \in CompactRecord
  BY DEF TypeOK
<1>1. CASE UNCHANGED vars
  BY <1>1 DEF vars
<1>2. CASE Allocate
  BY <1>2 DEF Allocate, Extend
<1>3. CASE ExtendFails \/ FailedCleanup \/ Interrupt
  BY <1>3 DEF ExtendFails, FailedCleanup, Interrupt
<1>4. CASE StoreFragmentReused \/ StoreFragmentAllocated
  BY <1>0, <1>4 DEF StoreFragmentReused, StoreFragmentAllocated, FragmentNeedsBlock,
                    StoredFragment, InsertRecord
<1>5. ASSUME NEW t \in Term, LinkTerm(t) PROVE QuietStep
  <2>1. Linked(t) /\ pc = "link"
    BY <1>5 DEF LinkTerm, LinkFirstTerm, LinkNewTerm, LinkNewTermNextPage, LinkPromote,
                LinkInline, LinkFirstPosting, LinkAppend, LinkNextPage, LinkReady
  <2> QED BY <1>0, <2>1 DEF Linked, InsertRecord
<1>6. CASE Recover
  BY <1>6 DEF Recover, RecoverOne, RecoverTwo
<1>7. CASE PersistReused \/ PersistAllocated
  <2>1. PICK b, f : PersistOutput(b, f)
    BY <1>7 DEF PersistReused, PersistAllocated
  <2>2. cpt'.pending \subseteq cpt.pending
    BY <1>0, <2>1 DEF PersistOutput, CompactRecord
  <2> QED BY <2>1, <2>2 DEF PersistOutput
<1>8. ASSUME NEW t \in Term, CompactSkip(t) \/ CompactInline(t) PROVE QuietStep
  BY <1>8 DEF CompactSkip, CompactInline, Visit
<1>9. CASE PublishReplacement \/ PublishRejected \/ RecoverEndCompact \/ CompactEnd
  BY <1>9 DEF PublishReplacement, PublishRejected, RecoverEndCompact, CompactEnd
<1>10. ASSUME NEW b \in Block, SweepDirect(b) \/ SweepFragment(b) \/ ReclaimZero(b)
       PROVE  QuietStep
  BY <1>10 DEF SweepDirect, SweepFragment, ReclaimZero, SweepNext, Reclaim
<1> QED BY <1>1, <1>2, <1>3, <1>4, <1>5, <1>6, <1>7, <1>8, <1>9, <1>10
        DEF Next, Step, Insert, Compaction, VacuumPass, Reserve, Starts

(* What any step may do to one slot: only a reservation fills it, it keeps *)
(* its page and its root, only Publish makes it live and only the owner    *)
(* pass ends that.                                                         *)
LEMMA SlotFacts ==
  ASSUME TypeOK, ImageCurrent, [Next]_vars, NEW o \in Owner
  PROVE  /\ owner[o].pub # "None" =>
              /\ owner'[o].pub # "None"
              /\ owner'[o].page = owner[o].page /\ owner'[o].root = owner[o].root
         /\ owner[o].pub = "None" /\ owner'[o].pub # "None" => Reserve /\ o = m.inc
         /\ Live(o)' => Live(o) \/ (Publish /\ o = ins.owner)
         /\ Live(o) => Live(o)' \/ RemoveOwners
<1> USE DEF Live
<1>0. owner \in [Owner -> OwnerRecord]
  BY DEF TypeOK
<1>1. CASE UNCHANGED owner
  BY <1>1
<1>2. CASE Reserve
  <2>1. PICK b, h : AppendOwner(b, h) /\ pc = "reserve"
    BY <1>2 DEF Reserve, ReserveFirst, ReserveAppend, ReserveNext
  <2>2. m = meta /\ meta.inc \in Int
    BY <2>1 DEF ImageCurrent, MetapageCurrent, TypeOK, MetaRecord
  <2>3. owner[o].pub # "None" => o # m.inc
    BY <2>2 DEF ImageCurrent, MetapageCurrent, Owner
  <2> QED BY <1>0, <1>2, <2>1, <2>3 DEF AppendOwner
<1>3. CASE PayloadReady
  <2>1. o # ins.owner => owner'[o] = owner[o]
    BY <1>0, <1>3 DEF PayloadReady
  <2>2. o = ins.owner => owner'[o] = [owner[o] EXCEPT !.pub = "FragmentsWritten", !.head = ins.head]
                         /\ owner[o].pub = "Allocated"
    BY <1>0, <1>3 DEF PayloadReady, CanChange, Changed
  <2> QED BY <1>0, <2>1, <2>2 DEF OwnerRecord
<1>4. CASE Publish
  <2>1. o # ins.owner => owner'[o] = owner[o]
    BY <1>0, <1>4 DEF Publish
  <2>2. o = ins.owner => owner'[o] = [owner[o] EXCEPT !.pub = "Published", !.live = TRUE]
                         /\ owner[o].pub = "FragmentsWritten"
    BY <1>0, <1>4 DEF Publish, CanChange, Changed
  <2> QED BY <1>0, <1>4, <2>1, <2>2 DEF OwnerRecord
<1>5. CASE RemoveOwners
  <2>1. owner'[o] = Retired(o)
    BY <1>5 DEF RemoveOwners
  <2>2. \/ owner'[o] = owner[o]
        \/ owner'[o] = [owner[o] EXCEPT !.live = FALSE, !.head = NoBlock] /\ owner[o].pub = "Published"
        \/ owner'[o] = [owner[o] EXCEPT !.pub = "Abandoned", !.head = NoBlock]
           /\ owner[o].pub # "None"
    BY <2>1 DEF Retired, CanChange, Changed
  <2>3. CASE owner'[o] = owner[o]
    BY <2>3
  <2>4. CASE /\ owner'[o] = [owner[o] EXCEPT !.live = FALSE, !.head = NoBlock]
             /\ owner[o].pub = "Published"
    BY <1>0, <1>5, <2>4 DEF OwnerRecord
  <2>5. CASE /\ owner'[o] = [owner[o] EXCEPT !.pub = "Abandoned", !.head = NoBlock]
             /\ owner[o].pub # "None"
    BY <1>0, <1>5, <2>5 DEF OwnerRecord
  <2> QED BY <2>2, <2>3, <2>4, <2>5
<1> QED BY <1>1, <1>2, <1>3, <1>4, <1>5, StepKinds
        DEF RecoverEndVacuum, SweepEnd, VacuumEnd, Starts, VacuumBegin, InsertBegin,
            CompactBegin, Abandoned, HeapDelete, RewriteBegin, QuietStep

(* Pages but for those of a reservation. *)
LEMMA StepPlain ==
  ASSUME TypeOK, ImageCurrent, PastEnd, [Next]_vars, ~Reserve
  PROVE  PlainBatch
<1>1. CASE Insert
  <2>1. pc # "reserve"
    BY <1>1 DEF Insert, Reserve, StoreFragmentReused, StoreFragmentAllocated,
         FragmentNeedsBlock, PayloadReady, LinkTerm, LinkFirstTerm, LinkNewTerm,
         LinkNewTermNextPage, LinkPromote, LinkInline, LinkFirstPosting, LinkAppend,
         LinkNextPage, LinkReady, Publish
  <2> QED BY <1>1, <2>1, InsertPlain
<1>2. CASE UNCHANGED vars
  BY <1>2 DEF vars, PlainBatch
<1> QED BY <1>1, <1>2, MaintenancePlain, HostPlain DEF Next, Step

-----------------------------------------------------------------------------
(* The inductive invariant, conjunct by conjunct *)

StoreOK == TypeOK /\ ImageCurrent /\ PastEnd

(* allocate() returns the block it has added. *)
LEMMA BlockAtEndStep ==
  ASSUME StoreOK, BlockAtEnd, [Next]_vars
  PROVE  BlockAtEnd'
<1> USE DEF BlockAtEnd
<1>1. CASE Allocate
  BY <1>1 DEF Allocate, Extend
<1>2. CASE Insert
  <2>1. ASSUME NEW b, NEW h, AppendOwner(b, h) PROVE BlockAtEnd'
    BY <2>1 DEF AppendOwner
  <2>2. ASSUME NEW t, Linked(t) PROVE BlockAtEnd'
    BY <2>2 DEF Linked
  <2>3. ASSUME NEW t, LinkTerm(t) PROVE Linked(t)
    BY <2>3 DEF LinkTerm, LinkFirstTerm, LinkNewTerm, LinkNewTermNextPage, LinkPromote,
                LinkInline, LinkFirstPosting, LinkAppend, LinkNextPage
  <2> QED BY <1>2, <2>1, <2>2, <2>3 DEF Insert, ReserveFirst, ReserveAppend, ReserveNext,
        StoreFragmentReused, StoreFragmentAllocated, PayloadReady, Publish
<1>3. CASE Recover \/ Compaction \/ VacuumPass
  BY <1>3 DEF Recover, RecoverOne, RecoverTwo, Compaction, CompactSkip, CompactInline,
       RewriteBegin, PersistReused, PersistAllocated, PersistOutput, PublishReplacement,
       PublishRejected, RecoverEndCompact, CompactEnd, VacuumPass, RecoverEndVacuum,
       RemoveOwners, SweepDirect, SweepFragment, ReclaimZero, Reclaim, SweepEnd, VacuumEnd
<1>4. CASE \/ UNCHANGED vars \/ ExtendFails \/ FailedCleanup \/ Interrupt \/ VacuumBegin
           \/ \E r \in Root : HeapDelete(r)
           \/ \E r \in Root, d \in Document : InsertBegin(r, d)
           \/ \E mode \in CompactMode : CompactBegin(mode)
  BY <1>4 DEF vars, ExtendFails, FailedCleanup, Interrupt, Abandoned, VacuumBegin, HeapDelete,
              InsertBegin, CompactBegin
<1> QED BY <1>1, <1>2, <1>3, <1>4 DEF Next, Step

(* Owner pages outside a reservation. *)
LEMMA PlainOwnerPages ==
  ASSUME PlainBatch
  PROVE  \A b \in Block : /\ page'[b].kind = "Owners" <=> page[b].kind = "Owners"
                          /\ page[b].kind = "Owners" => page'[b] = page[b]
BY DEF PlainBatch, PlainPage

(* A reservation appends to the last owner page or behind it. *)
LEMMA ReservePages ==
  ASSUME StoreOK, TypeOK', BlockAtEnd, OwnerPagesAscend, Reserve
  PROVE  /\ OwnerPagesAscend'
         /\ IsOwnerPage(meta.ownerTail)'
         /\ \A b \in Block : page[b].kind = "Owners" => page'[b].kind = "Owners"
         /\ \A b \in Block : page'[b].roots \subseteq page[b].roots
                             /\ (page'[b].roots # {} => page'[b].kind = page[b].kind)
<1> USE BlockFacts, NewPageFacts DEF StoreOK, IsOwnerPage
<1>0. m = meta /\ meta \in MetaRecord /\ page' \in [Block -> PageRecord]
  BY DEF Reserve, ReserveFirst, ReserveAppend, ReserveNext, ImageCurrent, MetapageCurrent, TypeOK
<1>1. CASE ReserveFirst
  <2>1. blk \in Block /\ \A b \in Block : page[b].kind # "Owners"
    BY <1>0, <1>1 DEF ReserveFirst, OwnerPagesAscend
  <2>2. meta'.ownerHead = blk /\ meta'.ownerTail = blk
    BY <1>0, <1>1 DEF ReserveFirst, AppendOwner, MetaRecord
  <2>3. page'[blk].kind = "Owners" /\ page'[blk].roots = {}
    BY <1>1, <2>1 DEF ReserveFirst, OwnersPage
  <2>4. \A b \in Block : b # blk => page'[b] = page[b]
    BY <1>1 DEF ReserveFirst
  <2>5. blk # NoBlock /\ blk <= blk
    BY <2>1 DEF Block, NoBlock
  <2> QED BY <2>1, <2>2, <2>3, <2>4, <2>5 DEF OwnerPagesAscend
<1>2. CASE ReserveAppend
  <2>1. /\ page' = page
        /\ meta'.ownerHead = meta.ownerHead /\ meta'.ownerTail = meta.ownerTail
    BY <1>0, <1>2 DEF ReserveAppend, AppendOwner, MetaRecord
  <2>2. meta.ownerHead # NoBlock
    BY <1>0, <1>2 DEF ReserveAppend
  <2> QED BY <2>1, <2>2 DEF OwnerPagesAscend
<1>3. CASE ReserveNext
  <2> DEFINE tail == meta.ownerTail
  <2>1. /\ blk \in Block /\ page[blk].kind = "Zero" /\ blk = size
        /\ tail \in Block /\ page[tail].kind = "Owners" /\ tail # blk
        /\ meta.ownerHead # NoBlock
    BY <1>0, <1>3 DEF ReserveNext, BlockAtEnd, OwnerPagesAscend
  <2>2. meta'.ownerHead = meta.ownerHead /\ meta'.ownerTail = blk
    BY <1>0, <1>3 DEF ReserveNext, AppendOwner, MetaRecord
  <2>3. /\ page' = [page EXCEPT ![blk] = OwnersPage, ![tail].next = blk]
    BY <1>0, <1>3 DEF ReserveNext
  <2>4. /\ \A b \in Block : b # blk /\ b # tail => page'[b] = page[b]
        /\ page'[tail].kind = "Owners" /\ page'[tail].roots = page[tail].roots
        /\ page'[tail].next = blk
        /\ page'[blk].kind = "Owners" /\ page'[blk].roots = {}
    BY <1>0, <2>1, <2>3, LinkedFacts DEF OwnersPage
  <2>5. \A b \in Block : page[b].kind = "Owners" => b < blk
    BY <2>1 DEF PastEnd, Block
  <2>6. \A b \in Block : page[b].kind = "Owners" => meta.ownerHead <= b /\ b <= tail
    BY DEF OwnerPagesAscend
  <2>7. meta.ownerHead \in Int /\ tail \in Int /\ blk \in Int /\ Block \subseteq Int
    BY <1>0, <2>1, BoundAssumption DEF MetaRecord, BlockOrNone, Block, NoBlock
  <2>8. \A b \in Block : page'[b].kind = "Owners" <=> (page[b].kind = "Owners" \/ b = blk)
    BY <2>1, <2>4
  <2>9. ASSUME NEW b \in Block, page'[b].kind = "Owners"
        PROVE  /\ meta'.ownerHead # NoBlock
               /\ meta'.ownerHead <= b /\ b <= meta'.ownerTail
               /\ b # meta'.ownerTail =>
                    \A c \in Block : page'[c].kind = "Owners" /\ b < c => page'[b].next <= c
    <3>1. meta.ownerHead <= blk /\ meta.ownerHead <= tail /\ tail < blk
      BY <2>1, <2>5, <2>6, <2>7
    <3>2. meta.ownerHead <= b /\ b <= blk
      BY <2>5, <2>6, <2>7, <2>8, <2>9, <3>1
    <3>3. ASSUME b # blk, NEW c \in Block, page'[c].kind = "Owners", b < c
          PROVE  page'[b].next <= c
      <4>1. CASE b = tail
        <5>1. c = blk
          BY <2>6, <2>7, <2>8, <3>3, <4>1
        <5> QED BY <2>4, <2>7, <4>1, <5>1
      <4>2. CASE b # tail /\ c = blk
        <5>1. page'[b] = page[b] /\ page[b].kind = "Owners" /\ b <= tail
          BY <2>4, <2>6, <2>8, <2>9, <3>3, <4>2
        <5>2. page[b].next <= tail
          BY <2>1, <2>7, <4>2, <5>1 DEF OwnerPagesAscend
        <5>3. page[b].next \in Int
          BY BoundAssumption DEF PageRecord, BlockOrNone, Block, NoBlock
        <5> QED BY <2>7, <3>1, <4>2, <5>1, <5>2, <5>3
      <4>3. CASE b # tail /\ c # blk
        BY <2>4, <2>8, <2>9, <3>3, <4>3 DEF OwnerPagesAscend
      <4> QED BY <4>1, <4>2, <4>3
    <3> QED BY <2>1, <2>2, <3>2, <3>3
  <2>10. OwnerPagesAscend'
    BY <2>1, <2>2, <2>4, <2>9 DEF OwnerPagesAscend
  <2>11. \A b \in Block : page'[b].roots \subseteq page[b].roots
                          /\ (page'[b].roots # {} => page'[b].kind = page[b].kind)
    BY <2>1, <2>4
  <2> QED BY <2>1, <2>2, <2>4, <2>8, <2>10, <2>11
<1> QED BY <1>1, <1>2, <1>3 DEF Reserve

(* Owner pages ascend through the relation, whatever interrupts. *)
LEMMA OwnerPagesStep ==
  ASSUME StoreOK, TypeOK', BlockAtEnd, OwnerPagesAscend, [Next]_vars
  PROVE  OwnerPagesAscend'
<1>1. CASE Reserve
  BY <1>1, ReservePages
<1>2. CASE ~Reserve
  <2>1. PlainBatch
    BY <1>2, StepPlain DEF StoreOK
  <2> QED BY <2>1, PlainOwnerPages DEF OwnerPagesAscend, IsOwnerPage, PlainBatch
<1> QED BY <1>1, <1>2

(* Every written slot is on an owner page. *)
LEMMA SlotsOnPagesStep ==
  ASSUME StoreOK, TypeOK', BlockAtEnd, OwnerPagesAscend, SlotsOnOwnerPages, [Next]_vars
  PROVE  SlotsOnOwnerPages'
<1> SUFFICES ASSUME NEW o \in Owner, owner'[o].pub # "None"
             PROVE  IsOwnerPage(owner[o].page)'
  BY DEF SlotsOnOwnerPages
<1>1. CASE owner[o].pub # "None"
  <2>1. owner'[o].page = owner[o].page /\ IsOwnerPage(owner[o].page)
    BY <1>1, SlotFacts DEF StoreOK, SlotsOnOwnerPages
  <2>2. CASE Reserve
    BY <2>1, <2>2, ReservePages DEF IsOwnerPage
  <2>3. CASE ~Reserve
    BY <2>1, <2>3, StepPlain, PlainOwnerPages DEF StoreOK, IsOwnerPage
  <2> QED BY <2>2, <2>3
<1>2. CASE owner[o].pub = "None"
  <2>1. Reserve /\ o = m.inc
    BY <1>2, SlotFacts DEF StoreOK
  <2>2. m = meta /\ meta \in MetaRecord
    BY <2>1 DEF StoreOK, Reserve, ReserveFirst, ReserveAppend, ReserveNext, ImageCurrent,
                MetapageCurrent, TypeOK
  <2>3. PICK b, h : AppendOwner(b, h)
    BY <2>1 DEF Reserve, ReserveFirst, ReserveAppend, ReserveNext
  <2>4. owner'[o].page = meta'.ownerTail
    BY <2>1, <2>2, <2>3 DEF AppendOwner, MetaRecord, StoreOK, TypeOK
  <2> QED BY <2>1, <2>4, ReservePages DEF IsOwnerPage
<1> QED BY <1>1, <1>2

-----------------------------------------------------------------------------
(* Roots *)

(* A root is freed by the return of a pass that collected it, and by       *)
(* nothing else; a collected root stays dead; the root of an insertion     *)
(* stays in use as long as the insertion runs.                             *)
LEMMA HeapFacts ==
  ASSUME TypeOK, [Next]_vars, NEW r \in Root
  PROVE  /\ heap'[r] = "free" => heap[r] = "free" \/ (VacuumEnd /\ r \in vac.dead)
         /\ heap[r] = "dead" => heap'[r] = "dead" \/ VacuumEnd
         /\ heap[r] = "used" /\ r = ins.root => heap'[r] = "used" \/ Abandoned \/ VacuumEnd
<1>0. heap \in [Root -> {"free", "used", "dead"}]
  BY DEF TypeOK
<1>1. CASE UNCHANGED heap
  BY <1>1
<1>2. ASSUME NEW q \in Root, NEW d \in Document, InsertBegin(q, d)
      PROVE  /\ heap'[r] = "free" => heap[r] = "free"
             /\ heap[r] = "dead" => heap'[r] = "dead"
             /\ heap[r] = "used" => heap'[r] = "used"
  BY <1>0, <1>2 DEF InsertBegin
<1>3. ASSUME NEW q \in Root, HeapDelete(q)
      PROVE  /\ heap'[r] = "free" => heap[r] = "free"
             /\ heap[r] = "dead" => heap'[r] = "dead"
             /\ heap[r] = "used" /\ r = ins.root => heap'[r] = "used"
  BY <1>0, <1>3 DEF HeapDelete
<1>4. CASE Abandoned
  BY <1>0, <1>4 DEF Abandoned
<1>5. CASE VacuumEnd
  BY <1>0, <1>5 DEF VacuumEnd
<1> QED BY <1>1, <1>2, <1>3, <1>4, <1>5, StepKinds
        DEF Reserve, ReserveFirst, ReserveAppend, ReserveNext, AppendOwner, PayloadReady,
            Publish, RecoverEndVacuum, RemoveOwners, SweepEnd, Starts, VacuumBegin,
            CompactBegin, RewriteBegin, QuietStep

(* The collection of a pass changes when one begins or ends only. *)
LEMMA CollectionFacts ==
  ASSUME TypeOK, [Next]_vars
  PROVE  \/ vac'.dead = vac.dead /\ ~VacuumEnd
         \/ vac'.dead = {r \in Root : heap[r] = "dead"} /\ VacuumBegin
         \/ vac'.dead = {}
<1>1. CASE UNCHANGED vac
  BY <1>1 DEF VacuumEnd, NoVacuum
<1>2. CASE VacuumBegin
  BY <1>2 DEF VacuumBegin, NoVacuum
<1>3. CASE RecoverEndVacuum \/ RemoveOwners
  BY <1>3 DEF RecoverEndVacuum, RemoveOwners, VacuumEnd, TypeOK, VacuumRecord
<1>4. CASE Abandoned \/ VacuumEnd
  BY <1>4 DEF Abandoned, VacuumEnd, NoVacuum
<1> QED BY <1>1, <1>2, <1>3, <1>4, StepKinds
        DEF Reserve, ReserveFirst, ReserveAppend, ReserveNext, AppendOwner, PayloadReady,
            Publish, SweepEnd, Starts, InsertBegin, CompactBegin, HeapDelete, RewriteBegin,
            QuietStep

(* A collected root stays dead. *)
LEMMA DeadCollectedStep ==
  ASSUME StoreOK, DeadCollected, [Next]_vars
  PROVE  DeadCollected'
<1>1. vac.dead \subseteq Root
  BY DEF StoreOK, TypeOK, VacuumRecord
<1>2. CASE vac'.dead = vac.dead /\ ~VacuumEnd
  BY <1>1, <1>2, HeapFacts DEF DeadCollected, StoreOK
<1>3. CASE vac'.dead = {r \in Root : heap[r] = "dead"} /\ VacuumBegin
  BY <1>3 DEF DeadCollected, VacuumBegin
<1>4. CASE vac'.dead = {}
  BY <1>4 DEF DeadCollected
<1> QED BY <1>2, <1>3, <1>4, CollectionFacts DEF StoreOK

(* A stage of a pass is entered from the one before it. *)
LEMMA PassStages ==
  ASSUME TypeOK, [Next]_vars
  PROVE  /\ pc' = "owners" => \/ pc = "owners" /\ UNCHANGED <<owner, vac>>
                              \/ RecoverEndVacuum \/ RemoveOwners
         /\ pc' = "sweep"  => \/ pc = "sweep" /\ UNCHANGED <<owner, vac>>
                              \/ RecoverEndVacuum \/ RemoveOwners
         /\ pc' = "zeros"  => \/ pc = "zeros" /\ UNCHANGED <<owner, vac>>
                              \/ SweepEnd
BY StepKinds
DEF Reserve, ReserveFirst, ReserveAppend, ReserveNext, AppendOwner, PayloadReady,
    Publish, RecoverEndVacuum, RemoveOwners, SweepEnd, VacuumEnd, Starts, VacuumBegin,
    InsertBegin, CompactBegin, Abandoned, HeapDelete, RewriteBegin, QuietStep

(* The owner pass makes no slot one that it has to change, and changes     *)
(* those of the page it is at.                                             *)
LEMMA RetiredSlots ==
  ASSUME TypeOK, RemoveOwners, NEW o \in Owner, Retirable(o)'
  PROVE  /\ Retirable(o) /\ owner[o].pub # "None" /\ owner[o].page # vac.at
         /\ owner'[o].page = owner[o].page
<1> USE DEF Retirable, Unfinished, Live
<1>0. owner[o] \in OwnerRecord
  BY DEF TypeOK
<1>1. owner'[o] = Retired(o) /\ vac'.dead = vac.dead
  BY DEF RemoveOwners, TypeOK, VacuumRecord
<1>2. CASE owner[o].page # vac.at
  BY <1>1, <1>2 DEF Retired
<1>3. CASE /\ owner[o].page = vac.at
           /\ CanChange(o, "Remove") /\ owner[o].root \in vac.dead
  <2>1. owner'[o] = [owner[o] EXCEPT !.live = FALSE, !.head = NoBlock] /\ owner[o].pub = "Published"
    BY <1>1, <1>3 DEF Retired, CanChange, Changed
  <2>2. ~owner'[o].live /\ owner'[o].pub = "Published"
    BY <1>0, <2>1 DEF OwnerRecord
  <2> QED BY <2>2
<1>4. CASE /\ owner[o].page = vac.at
           /\ ~(CanChange(o, "Remove") /\ owner[o].root \in vac.dead)
  <2>1. CASE Unfinished(o)
    <3>1. owner'[o] = [owner[o] EXCEPT !.pub = "Abandoned", !.head = NoBlock]
      BY <1>1, <1>4, <2>1 DEF Retired, CanChange, Changed
    <3>2. owner'[o].pub = "Abandoned"
      BY <1>0, <3>1 DEF OwnerRecord
    <3> QED BY <3>2
  <2>2. CASE ~Unfinished(o)
    <3>1. owner'[o] = owner[o]
      BY <1>1, <1>4, <2>2 DEF Retired, CanChange
    <3> QED BY <1>1, <1>4, <2>2, <3>1 DEF CanChange
  <2> QED BY <2>1, <2>2
<1> QED BY <1>2, <1>3, <1>4

(* The owner pass leaves no slot behind that it has to change.             *)
LEMMA OwnersRetiredStep ==
  ASSUME StoreOK, OwnerPagesAscend, SlotsOnOwnerPages, OwnersRetired, [Next]_vars
  PROVE  OwnersRetired'
<1> USE DEF StoreOK
<1> SUFFICES ASSUME NEW o \in Owner, Retirable(o)',
                    pc' \in {"owners", "sweep", "zeros"}
             PROVE  /\ pc' = "owners" => vac'.at <= owner'[o].page
                    /\ pc' \notin {"sweep", "zeros"}
  BY DEF OwnersRetired
<1>0. Retirable(o) => owner[o].pub # "None" /\ IsOwnerPage(owner[o].page)
  BY DEF Retirable, Unfinished, Live, SlotsOnOwnerPages
<1>1. CASE pc' = pc /\ UNCHANGED <<owner, vac>>
  BY <1>1 DEF OwnersRetired, Retirable, Unfinished, Live
<1>2. CASE RecoverEndVacuum
  <2>1. UNCHANGED owner /\ vac'.dead = vac.dead
    BY <1>2 DEF RecoverEndVacuum, TypeOK, VacuumRecord
  <2>2. Retirable(o)
    BY <2>1 DEF Retirable, Unfinished, Live
  <2>3. meta.ownerHead # NoBlock /\ meta.ownerHead <= owner[o].page
    BY <1>0, <2>2 DEF OwnerPagesAscend, IsOwnerPage
  <2>4. pc' = "owners" /\ vac'.at = meta.ownerHead
    BY <1>2, <2>3 DEF RecoverEndVacuum, TypeOK, VacuumRecord
  <2> QED BY <2>1, <2>3, <2>4
<1>3. CASE RemoveOwners
  <2>1. pc = "owners" /\ vac.at \in Block /\ page[vac.at].kind = "Owners" /\ m = meta
    BY <1>3 DEF RemoveOwners, TypeOK, VacuumRecord, BlockOrNone, ImageCurrent, MetapageCurrent
  <2>2. /\ Retirable(o) /\ owner[o].page # vac.at /\ owner'[o].page = owner[o].page
    BY <1>3, RetiredSlots
  <2>3. vac.at <= owner[o].page
    BY <2>1, <2>2 DEF OwnersRetired
  <2>4. owner[o].page \in Block /\ page[owner[o].page].kind = "Owners"
    BY <1>0, <2>2 DEF IsOwnerPage
  <2>5. vac.at < owner[o].page
    BY <2>1, <2>2, <2>3, <2>4 DEF Block
  <2>6. vac.at # meta.ownerTail
    <3>1. meta.ownerTail \in Int
      BY <2>4, BoundAssumption DEF OwnerPagesAscend, IsOwnerPage, Block
    <3>2. owner[o].page <= meta.ownerTail
      BY <2>4 DEF OwnerPagesAscend
    <3> QED BY <2>1, <2>4, <2>5, <3>1, <3>2 DEF Block
  <2>7. page[vac.at].next <= owner[o].page
    BY <2>1, <2>4, <2>5, <2>6 DEF OwnerPagesAscend
  <2>8. pc' = "owners" /\ vac'.at = page[vac.at].next
    BY <1>3, <2>1, <2>6 DEF RemoveOwners, TypeOK, VacuumRecord
  <2> QED BY <2>2, <2>7, <2>8
<1>4. CASE SweepEnd
  BY <1>4 DEF SweepEnd, OwnersRetired, Retirable, Unfinished, Live
<1> QED BY <1>1, <1>2, <1>3, <1>4, PassStages

(* Coordinates are copied from written slots, onto direct pages only. *)
LEMMA CoordinatesStep ==
  ASSUME StoreOK, TypeOK', BlockAtEnd, OwnerPagesAscend, CoordinatesOwned, PendingLive,
         [Next]_vars
  PROVE  CoordinatesOwned'
<1> USE DEF StoreOK
<1> SUFFICES ASSUME NEW b \in Block, NEW o \in page'[b].roots
             PROVE  page'[b].kind = "Direct" /\ owner'[o].pub # "None"
  BY DEF CoordinatesOwned
<1>1. o \in Owner
  BY DEF TypeOK, PageRecord
<1>2. CASE o \in page[b].roots /\ page'[b].kind = page[b].kind
  BY <1>1, <1>2, SlotFacts DEF CoordinatesOwned
<1>3. CASE page'[b].kind = "Direct" /\ pc = "rewrite" /\ o \in cpt.pending
  BY <1>1, <1>3, SlotFacts DEF PendingLive, Live
<1>4. CASE Reserve
  BY <1>2, <1>4, ReservePages
<1>5. CASE ~Reserve
  BY <1>2, <1>3, <1>5, StepPlain DEF PlainBatch, PlainPage
<1> QED BY <1>4, <1>5

(* The zero-block pass brings back nothing the sweep has removed. *)
LEMMA SweptStep ==
  ASSUME StoreOK, SweptClean, [Next]_vars
  PROVE  SweptClean'
<1> USE DEF StoreOK
<1> SUFFICES ASSUME pc' = "zeros", NEW b \in Block
             PROVE  ~StaleDirect(b)' /\ ~DeadFragment(b)'
  BY DEF SweptClean
<1>1. CASE SweepEnd
  BY <1>1 DEF SweepEnd, StaleDirect, DeadFragment, Live
<1>2. CASE pc = "zeros" /\ UNCHANGED owner
  <2>1. CASE page'[b] = page[b]
    BY <1>2, <2>1 DEF SweptClean, StaleDirect, DeadFragment, Live
  <2>2. CASE page'[b].kind \in {"Free", "Zero"}
    BY <2>2 DEF StaleDirect, DeadFragment
  <2>3. CASE UNCHANGED page
    BY <2>1, <2>3
  <2>4. CASE Allocate
    BY <2>1, <2>2, <2>4, NewPageFacts DEF Allocate, Extend, ZeroPage, TypeOK
  <2>5. ASSUME NEW c \in Block, ReclaimZero(c) PROVE page'[b] = page[b] \/ page'[b].kind = "Free"
    BY <2>5, NewPageFacts DEF ReclaimZero, Reclaim, FreePage, TypeOK
  <2>6. CASE Insert
    BY <1>2, <2>6 DEF Insert, ReserveFirst, ReserveAppend, ReserveNext, StoreFragmentReused,
         StoreFragmentAllocated, FragmentNeedsBlock, PayloadReady, LinkTerm, LinkFirstTerm,
         LinkNewTerm, LinkNewTermNextPage, LinkPromote, LinkInline, LinkFirstPosting,
         LinkAppend, LinkNextPage, LinkReady, Publish
  <2>7. CASE Recover \/ Compaction
    BY <1>2, <2>3, <2>7 DEF Recover, RecoverOne, RecoverTwo, Compaction, CompactSkip, CompactInline,
         RewriteBegin, Visit, PersistReused, PersistAllocated, PersistOutput,
         PublishReplacement, PublishRejected, RecoverEndCompact, CompactEnd
  <2>8. CASE VacuumPass
    BY <1>2, <2>1, <2>2, <2>3, <2>5, <2>8 DEF VacuumPass, RecoverEndVacuum, RemoveOwners,
         SweepDirect, SweepFragment, SweepNext, SweepEnd, VacuumEnd
  <2> QED BY <2>3, <2>4, <2>6, <2>7, <2>8 DEF Next, Step, vars, ExtendFails, FailedCleanup,
        Interrupt, Abandoned, VacuumBegin, HeapDelete, InsertBegin, CompactBegin
<1> QED BY <1>1, <1>2, PassStages

(* An insertion is at its stages with the root and the slot it has. *)
LEMMA InsertStages ==
  ASSUME TypeOK, ImageCurrent, [Next]_vars
  PROVE  /\ pc' = "reserve" =>
              \/ pc = "reserve" /\ ins'.root = ins.root
              \/ \E r \in Root, d \in Document : InsertBegin(r, d)
         /\ pc' \in {"fragment", "link"} =>
              \/ pc \in {"fragment", "link"} /\ ins'.root = ins.root /\ ins'.owner = ins.owner
              \/ Reserve
         /\ pc' = "rewrite" =>
              \/ pc = "rewrite" /\ cpt'.pending \subseteq cpt.pending /\ UNCHANGED owner
              \/ \E t \in Term : RewriteBegin(t)
<1>0. ins \in InsertRecord
  BY DEF TypeOK
<1>1. CASE PayloadReady
  BY <1>0, <1>1 DEF PayloadReady, InsertRecord
<1>2. CASE Starts
  BY <1>2 DEF Starts, VacuumBegin, InsertBegin, CompactBegin
<1>3. CASE Reserve
  BY <1>3 DEF Reserve, ReserveFirst, ReserveAppend, ReserveNext, AppendOwner
<1> QED BY <1>1, <1>2, <1>3, StepKinds
        DEF Publish, RecoverEndVacuum, RemoveOwners, SweepEnd, VacuumEnd,
            Abandoned, HeapDelete, RewriteBegin, QuietStep

(* No stage of an insertion is one that ends a pass or is abandoned. *)
LEMMA InsertKeepsRoot ==
  ASSUME TypeOK, [Next]_vars, pc' \in {"reserve", "fragment", "link"}
  PROVE  ~Abandoned /\ ~VacuumEnd /\ ~Publish
BY DEF Abandoned, VacuumEnd, Publish

(* The root of an insertion is in use, by no live owner yet. *)
LEMMA InsertOwnsRootStep ==
  ASSUME StoreOK, TypeOK', InsertOwnsRoot, NoStaleRoot, [Next]_vars
  PROVE  InsertOwnsRoot'
<1> USE DEF StoreOK
<1>1. ASSUME pc' \in {"reserve", "fragment", "link"}, pc \in {"reserve", "fragment", "link"},
             ins'.root = ins.root
      PROVE  /\ ins'.root \in Root /\ heap'[ins'.root] = "used"
             /\ \A o \in Owner : Live(o)' => owner'[o].root # ins'.root
  <2>1. ins.root \in Root /\ heap[ins.root] = "used"
    BY <1>1 DEF InsertOwnsRoot
  <2>2. heap'[ins.root] = "used"
    BY <1>1, <2>1, HeapFacts, InsertKeepsRoot
  <2>3. ASSUME NEW o \in Owner, Live(o)' PROVE owner'[o].root # ins.root
    <3>1. Live(o)
      BY <1>1, <2>3, SlotFacts, InsertKeepsRoot
    <3>2. owner[o].pub # "None"
      BY <3>1 DEF Live
    <3>3. owner'[o].root = owner[o].root
      BY <3>2, SlotFacts
    <3> QED BY <1>1, <3>1, <3>3 DEF InsertOwnsRoot
  <2> QED BY <1>1, <2>1, <2>2, <2>3
<1>2. ASSUME NEW r \in Root, NEW d \in Document, InsertBegin(r, d)
      PROVE  InsertOwnsRoot'
  <2>1. ins'.root = r /\ heap'[r] = "used" /\ heap[r] = "free" /\ UNCHANGED owner /\ pc' = "reserve"
    BY <1>2 DEF InsertBegin, NoInsert, TypeOK
  <2>2. \A o \in Owner : Live(o) => owner[o].root # r
    BY <2>1 DEF NoStaleRoot
  <2> QED BY <2>1, <2>2 DEF InsertOwnsRoot, Live
<1>3. CASE Reserve
  <2>1. PICK b, h : AppendOwner(b, h) /\ pc = "reserve"
    BY <1>3 DEF Reserve, ReserveFirst, ReserveAppend, ReserveNext
  <2>2. ins'.root = ins.root /\ ins'.owner = m.inc /\ pc' = "fragment"
    BY <2>1 DEF AppendOwner, TypeOK, InsertRecord
  <2>3. m.inc \in Owner
    BY <2>1, BoundAssumption DEF ImageCurrent, MetapageCurrent, TypeOK, MetaRecord, Owner
  <2>4. owner'[m.inc].root = ins.root /\ owner'[m.inc].pub = "Allocated"
    BY <2>1, <2>3 DEF AppendOwner, TypeOK
  <2> QED BY <1>1, <2>1, <2>2, <2>4 DEF InsertOwnsRoot
<1>4. CASE pc' = "reserve" /\ pc = "reserve" /\ ins'.root = ins.root
  BY <1>1, <1>4 DEF InsertOwnsRoot
<1>5. CASE /\ pc' \in {"fragment", "link"} /\ pc \in {"fragment", "link"}
           /\ ins'.root = ins.root /\ ins'.owner = ins.owner
  <2>1. ins.owner \in Owner /\ owner[ins.owner].root = ins.root /\ owner[ins.owner].pub # "None"
    BY <1>5 DEF ImageCurrent, MetapageCurrent, InsertOwnsRoot
  <2> QED BY <1>1, <1>5, <2>1, SlotFacts DEF InsertOwnsRoot
<1>6. CASE pc' \notin {"reserve", "fragment", "link"}
  BY <1>6 DEF InsertOwnsRoot
<1> QED BY <1>2, <1>3, <1>4, <1>5, <1>6, InsertStages

(* A rewrite holds references to live owners only: the barriers keep the   *)
(* owner pass away from it.                                                *)
LEMMA PendingLiveStep ==
  ASSUME StoreOK, PendingLive, [Next]_vars
  PROVE  PendingLive'
<1> USE DEF StoreOK
<1>1. CASE pc = "rewrite" /\ cpt'.pending \subseteq cpt.pending /\ UNCHANGED owner
  BY <1>1 DEF PendingLive, Live
<1>2. ASSUME NEW t \in Term, RewriteBegin(t) PROVE PendingLive'
  <2>1. PICK source \in Block, boundary \in BlockOrNone :
          cpt' = [cpt EXCEPT !.todo = cpt.todo \ {t}, !.term = t,
                    !.source = source, !.boundary = boundary,
                    !.pending = {o \in ChainRefs(source, dict[t].tail) : Live(o)}]
    BY <1>2 DEF RewriteBegin
  <2>2. cpt'.pending = {o \in ChainRefs(source, dict[t].tail) : Live(o)} /\ UNCHANGED owner
    BY <1>2, <2>1 DEF RewriteBegin, TypeOK, CompactRecord
  <2> QED BY <2>2 DEF PendingLive, Live
<1>3. CASE pc' # "rewrite"
  BY <1>3 DEF PendingLive
<1> QED BY <1>1, <1>2, <1>3, InsertStages

(* A written slot has the root of its insertion. *)
LEMMA SlotsHaveRootsStep ==
  ASSUME StoreOK, SlotsHaveRoots, InsertOwnsRoot, [Next]_vars
  PROVE  SlotsHaveRoots'
<1> USE DEF StoreOK
<1> SUFFICES ASSUME NEW o \in Owner, owner'[o].pub # "None"
             PROVE  owner'[o].root \in Root
  BY DEF SlotsHaveRoots
<1>1. CASE owner[o].pub # "None"
  BY <1>1, SlotFacts DEF SlotsHaveRoots
<1>2. CASE owner[o].pub = "None"
  <2>1. Reserve /\ o = m.inc
    BY <1>2, SlotFacts
  <2>2. PICK b, h : AppendOwner(b, h) /\ pc = "reserve"
    BY <2>1 DEF Reserve, ReserveFirst, ReserveAppend, ReserveNext
  <2>3. owner'[o].root = ins.root
    BY <2>1, <2>2 DEF AppendOwner, TypeOK
  <2> QED BY <2>2, <2>3 DEF InsertOwnsRoot
<1> QED BY <1>1, <1>2

(* The invariant that carries NoStaleRoot. *)
RootInv ==
  /\ BlockAtEnd /\ OwnerPagesAscend /\ SlotsOnOwnerPages /\ SlotsHaveRoots
  /\ DeadCollected /\ OwnersRetired /\ CoordinatesOwned /\ SweptClean
  /\ InsertOwnsRoot /\ PendingLive /\ NoStaleRoot

(* A root that a written slot has is not free afterwards, unless a pass    *)
(* returns that collected it.                                              *)
LEMMA RootKept ==
  ASSUME StoreOK, RootInv, [Next]_vars, NEW o \in Owner,
         owner[o].pub # "None", heap[owner[o].root] # "free",
         VacuumEnd => owner[o].root \notin vac.dead
  PROVE  heap'[owner'[o].root] # "free"
<1>1. owner[o].root \in Root /\ owner'[o].root = owner[o].root
  BY SlotFacts DEF StoreOK, RootInv, SlotsHaveRoots
<1> QED BY <1>1, HeapFacts DEF StoreOK

(* A root becomes free when a pass returns: by then no live owner and no   *)
(* coordinate names it.  An owner becomes live by Publish: its root is in  *)
(* use and its own.                                                        *)
LEMMA NoStaleRootStep ==
  ASSUME StoreOK, TypeOK', RootInv, [Next]_vars
  PROVE  NoStaleRoot'
<1> USE DEF StoreOK
<1>0. RootInv => /\ NoStaleRoot /\ OwnersRetired /\ SweptClean /\ CoordinatesOwned
                 /\ InsertOwnsRoot /\ PendingLive
  BY DEF RootInv
<1>1. ASSUME NEW o \in Owner, Live(o), VacuumEnd PROVE owner[o].root \notin vac.dead
  BY <1>0, <1>1 DEF OwnersRetired, Retirable, VacuumEnd
<1>2. ASSUME NEW o \in Owner, Live(o) PROVE heap'[owner'[o].root] # "free"
  BY <1>0, <1>1, <1>2, RootKept DEF NoStaleRoot, Live
<1>3. ASSUME Publish
      PROVE  /\ ins.owner \in Owner /\ owner'[ins.owner].root = ins.root
             /\ heap'[ins.root] = "used"
             /\ \A o \in Owner : Live(o) => owner'[o].root # ins.root
  <2>1. pc = "link" /\ UNCHANGED heap
    BY <1>3 DEF Publish
  <2>2. ins.owner \in Owner /\ owner[ins.owner].pub # "None" /\ owner[ins.owner].root = ins.root
    BY <1>0, <2>1 DEF ImageCurrent, MetapageCurrent, InsertOwnsRoot
  <2>3. ASSUME NEW o \in Owner, Live(o) PROVE owner'[o].root # ins.root
    BY <1>0, <2>1, <2>3, SlotFacts DEF InsertOwnsRoot, Live
  <2> QED BY <1>0, <2>1, <2>2, <2>3, SlotFacts DEF InsertOwnsRoot
<1>4. ASSUME NEW o \in Owner, Live(o)' PROVE heap'[owner'[o].root] # "free"
  BY <1>2, <1>3, <1>4, SlotFacts
<1>5. ASSUME NEW b \in Block, NEW o \in page'[b].roots
      PROVE  heap'[owner'[o].root] # "free"
  <2>0. o \in Owner
    BY DEF TypeOK, PageRecord
  <2>1. CASE o \in page[b].roots
    <3>1. page[b].kind = "Direct" /\ owner[o].pub # "None" /\ heap[owner[o].root] # "free"
      BY <1>0, <2>1 DEF CoordinatesOwned, NoStaleRoot
    <3>2. VacuumEnd => Live(o)
      BY <1>0, <2>1, <3>1 DEF VacuumEnd, SweptClean, StaleDirect
    <3> QED BY <1>1, <2>0, <3>1, <3>2, RootKept
  <2>2. CASE pc = "rewrite" /\ o \in cpt.pending
    BY <1>0, <1>2, <2>0, <2>2 DEF PendingLive
  <2>3. CASE Reserve
    BY <2>1, <2>3, ReservePages DEF RootInv
  <2>4. CASE ~Reserve
    BY <2>1, <2>2, <2>4, StepPlain DEF PlainBatch, PlainPage
  <2> QED BY <2>3, <2>4
<1>6. ASSUME NEW o \in Owner, NEW p \in Owner, Live(o)', Live(p)', owner'[o].root = owner'[p].root
      PROVE  o = p
  <2>1. CASE Live(o) /\ Live(p)
    <3>1. owner'[o].root = owner[o].root /\ owner'[p].root = owner[p].root
      BY <2>1, SlotFacts DEF Live
    <3> QED BY <1>0, <1>6, <2>1, <3>1 DEF NoStaleRoot
  <2>2. CASE ~Live(o) \/ ~Live(p)
    BY <1>3, <1>6, <2>2, SlotFacts
  <2> QED BY <2>1, <2>2
<1> QED BY <1>4, <1>5, <1>6 DEF NoStaleRoot

(* Every step keeps the invariant. *)
LEMMA RootInvStep ==
  ASSUME StoreOK, RootInv, [Next]_vars
  PROVE  StoreOK' /\ RootInv'
<1>1. StoreOK'
  BY NextCorrect, PastEndStep DEF StoreOK
<1>2. TypeOK'
  BY <1>1 DEF StoreOK
<1>3. BlockAtEnd' /\ OwnerPagesAscend' /\ SlotsOnOwnerPages'
  BY <1>2, BlockAtEndStep, OwnerPagesStep, SlotsOnPagesStep DEF RootInv
<1>4. SlotsHaveRoots' /\ DeadCollected' /\ OwnersRetired' /\ PendingLive'
  BY SlotsHaveRootsStep, DeadCollectedStep, OwnersRetiredStep, PendingLiveStep DEF RootInv
<1>5. CoordinatesOwned' /\ SweptClean' /\ InsertOwnsRoot'
  BY <1>2, CoordinatesStep, SweptStep, InsertOwnsRootStep DEF RootInv
<1>6. NoStaleRoot'
  BY <1>2, NoStaleRootStep
<1> QED BY <1>1, <1>3, <1>4, <1>5, <1>6 DEF RootInv

(* An empty index has no owners, no coordinates and no pass. *)
LEMMA RootInvInit == Init => StoreOK /\ RootInv
<1> SUFFICES ASSUME Init PROVE StoreOK /\ RootInv
  OBVIOUS
<1>1. TypeOK /\ ImageCurrent
  BY InitCorrect DEF ImageCurrent, BlockAwaited, Init
<1>2. \A b \in Block : page[b].kind = "None" /\ page[b].roots = {} /\ b > size
  BY NewPageFacts DEF Init, NoPage, Block
<1>3. \A o \in Owner : owner[o].pub = "None"
  BY DEF Init, UnusedSlot
<1>4. /\ meta.ownerHead = NoBlock /\ blk = NoBlock /\ vac.dead = {} /\ pc = "idle"
  BY DEF Init, EmptyMeta, NoVacuum
<1>5. StoreOK
  BY <1>1, <1>2 DEF StoreOK, PastEnd
<1> QED BY <1>2, <1>3, <1>4, <1>5
        DEF RootInv, BlockAtEnd, OwnerPagesAscend, SlotsOnOwnerPages, SlotsHaveRoots,
            DeadCollected, OwnersRetired, Retirable, Unfinished, CoordinatesOwned, SweptClean,
            InsertOwnsRoot, PendingLive, NoStaleRoot, Live

(* The host may recycle a root as soon as the pass that collected it has   *)
(* returned: no live owner and no coordinate copied onto a direct page     *)
(* names it then, wherever insertions, rewrites, earlier passes and        *)
(* crashes have left them; and no root has two live owners.                *)
THEOREM RootsNeverStale == Spec => []NoStaleRoot
<1>1. StoreOK /\ RootInv /\ [Next]_vars => (StoreOK /\ RootInv)'
  BY RootInvStep
<1>2. RootInv => NoStaleRoot
  BY DEF RootInv
<1> QED BY <1>1, <1>2, RootInvInit, PTL DEF Spec

=============================================================================
