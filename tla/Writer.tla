------------------------------- MODULE Writer -------------------------------
(***************************************************************************)
(* insert() of crates/pin-core/src/mutable/writer.rs.  Every action is one *)
(* atomic WAL batch (store.commit) with the reads that precede it; between *)
(* two of them the operation can be interrupted.  Extend, in PageFile, is  *)
(* the allocation that precedes a batch with a new page.                   *)
(***************************************************************************)
EXTENDS PageFile

NoInsert == [root |-> NoRoot, doc |-> NoDocument, owner |-> NoOwner,
             left |-> 0, head |-> NoBlock, todo |-> {}]

InsertRecord == [root : Root \cup {NoRoot}, doc : Document \cup {NoDocument},
                 owner : OwnerOrNone, left : Nat, head : BlockOrNone,
                 todo : SUBSET Term]

(* Fault: the incarnation space has no limit. *)
FaultInsertBegin(r, d) ==
  /\ pc = "idle"
  /\ heap[r] = "free"
  /\ heap' = [heap EXCEPT ![r] = "used"]
  /\ pc' = "reserve"
  /\ m' = meta
  /\ ins' = [NoInsert EXCEPT !.root = r, !.doc = d]
  /\ UNCHANGED <<page, size, meta, dict, owner, crashes, blk, vac, cpt>>

(* The host stores a tuple in the heap and calls insert() with its root;   *)
(* load() of the metapage.                                                 *)
InsertBegin(r, d) ==
  /\ pc = "idle"
  /\ heap[r] = "free"
  /\ meta.inc <= MaxOwners
  /\ heap' = [heap EXCEPT ![r] = "used"]
  /\ pc' = "reserve"
  /\ m' = meta
  /\ ins' = [NoInsert EXCEPT !.root = r, !.doc = d]
  /\ UNCHANGED <<page, size, meta, dict, owner, crashes, blk, vac, cpt>>

-----------------------------------------------------------------------------
(* reserve_owner() *)

OwnerTailFull ==
  Cardinality({o \in Owner : owner[o].page = m.ownerTail}) >= OwnersPerPage

ReserveNeedsBlock ==
  pc = "reserve" /\ (m.ownerHead = NoBlock \/ OwnerTailFull)

(* Fault: the metapage of the batch does not count the incarnation. *)
FaultAppendOwner(b, head) ==
  /\ m' = [m EXCEPT !.ownerHead = head, !.ownerTail = b]
  /\ meta' = m'
  /\ owner' = [owner EXCEPT ![m.inc] =
       [pub |-> "Allocated", live |-> FALSE, root |-> ins.root,
        head |-> NoBlock, page |-> b, doc |-> ins.doc]]
  /\ ins' = [ins EXCEPT !.owner = m.inc, !.left = ins.doc.frags]
  /\ pc' = "fragment"
  /\ blk' = NoBlock
  /\ UNCHANGED <<size, dict, heap, crashes, vac, cpt>>

(* The slot of a new incarnation on owner page b, with the metapage that   *)
(* counts the incarnation.                                                 *)
AppendOwner(b, head) ==
  /\ m' = [m EXCEPT !.inc = m.inc + 1, !.ownerHead = head, !.ownerTail = b]
  /\ meta' = m'
  /\ owner' = [owner EXCEPT ![m.inc] =
       [pub |-> "Allocated", live |-> FALSE, root |-> ins.root,
        head |-> NoBlock, page |-> b, doc |-> ins.doc]]
  /\ ins' = [ins EXCEPT !.owner = m.inc, !.left = ins.doc.frags]
  /\ pc' = "fragment"
  /\ blk' = NoBlock
  /\ UNCHANGED <<size, dict, heap, crashes, vac, cpt>>

ReserveFirst ==
  /\ pc = "reserve" /\ m.ownerHead = NoBlock
  /\ blk # NoBlock
  /\ page' = [page EXCEPT ![blk] = OwnersPage]
  /\ AppendOwner(blk, blk)

ReserveAppend ==
  /\ pc = "reserve" /\ m.ownerHead # NoBlock
  /\ ~OwnerTailFull
  /\ UNCHANGED page
  /\ AppendOwner(m.ownerTail, m.ownerHead)

ReserveNext ==
  /\ pc = "reserve" /\ m.ownerHead # NoBlock
  /\ OwnerTailFull
  /\ page[m.ownerTail].kind = "Owners"
  /\ blk # NoBlock
  /\ page' = [page EXCEPT ![blk] = OwnersPage, ![m.ownerTail].next = blk]
  /\ AppendOwner(blk, m.ownerHead)

-----------------------------------------------------------------------------
(* The payload: fragments back to front, then the owner's PayloadReady. *)

FragmentNeedsBlock == pc = "fragment" /\ ins.left > 0 /\ m.free = NoBlock

StoredFragment(b) ==
  ins' = [ins EXCEPT !.left = ins.left - 1, !.head = b]

(* Fault: the metapage is not part of the batch. *)
FaultStoreFragmentReused ==
  /\ pc = "fragment" /\ ins.left > 0
  /\ m.free # NoBlock /\ page[m.free].kind = "Free"
  /\ m' = [m EXCEPT !.free = page[m.free].next]
  /\ page' = [page EXCEPT ![m.free] = FragmentPage(ins.owner, ins.left - 1, ins.head)]
  /\ StoredFragment(m.free)
  /\ UNCHANGED <<size, meta, dict, owner, heap, crashes, pc, blk, vac, cpt>>

(* A block of the free list: its removal and its new owner are one batch. *)
StoreFragmentReused ==
  /\ pc = "fragment" /\ ins.left > 0
  /\ m.free # NoBlock /\ page[m.free].kind = "Free"
  /\ m' = [m EXCEPT !.free = page[m.free].next]
  /\ meta' = m'
  /\ page' = [page EXCEPT ![m.free] = FragmentPage(ins.owner, ins.left - 1, ins.head)]
  /\ StoredFragment(m.free)
  /\ UNCHANGED <<size, dict, owner, heap, crashes, pc, blk, vac, cpt>>

StoreFragmentAllocated ==
  /\ FragmentNeedsBlock
  /\ blk # NoBlock
  /\ page' = [page EXCEPT ![blk] = FragmentPage(ins.owner, ins.left - 1, ins.head)]
  /\ StoredFragment(blk)
  /\ blk' = NoBlock
  /\ UNCHANGED <<size, meta, dict, owner, heap, crashes, pc, m, vac, cpt>>

PayloadReady ==
  /\ pc = "fragment" /\ ins.left = 0
  /\ CanChange(ins.owner, "PayloadReady")
  /\ owner' = [owner EXCEPT ![ins.owner] = Changed(ins.owner, "PayloadReady", ins.head)]
  /\ pc' = "link"
  /\ ins' = [ins EXCEPT !.todo = ins.doc.terms]
  /\ UNCHANGED <<page, size, meta, dict, heap, crashes, m, blk, vac, cpt>>

-----------------------------------------------------------------------------
(* link_term(): one commit per term.  The dictionary entry decides which   *)
(* of the forms below applies; the ones with a new page need an allocated  *)
(* block.                                                                  *)

Known(t) == dict[t].page # NoBlock

DictionaryTailFull ==
  Cardinality({t \in Term : dict[t].page = m.dictTail}) >= TermsPerPage

PostingTailFull(t) ==
  \/ page[dict[t].tail].kind # "Postings"
  \/ Cardinality(page[dict[t].tail].refs) >= PostingsPerPage

LinkNeedsBlock(t) ==
  IF ~Known(t) THEN m.dictHead = NoBlock \/ DictionaryTailFull
  ELSE IF dict[t].inline = 1 THEN TRUE
  ELSE IF dict[t].head = NoBlock THEN ~Packed
  ELSE PostingTailFull(t)

LinkReady(t) ==
  /\ pc = "link" /\ t \in ins.todo
  /\ (blk # NoBlock) = LinkNeedsBlock(t)

Linked(t) ==
  /\ ins' = [ins EXCEPT !.todo = ins.todo \ {t}]
  /\ blk' = NoBlock
  /\ UNCHANGED <<size, owner, heap, crashes, pc, vac, cpt>>

(* The first dictionary page of the bucket. *)
LinkFirstTerm(t) ==
  /\ LinkReady(t) /\ ~Known(t) /\ m.dictHead = NoBlock
  /\ page' = [page EXCEPT ![blk] = DictionaryPage]
  /\ dict' = [dict EXCEPT ![t] = NewEntry(blk, ins.owner)]
  /\ m' = [m EXCEPT !.dictHead = blk, !.dictTail = blk]
  /\ meta' = m'
  /\ Linked(t)

LinkNewTerm(t) ==
  /\ LinkReady(t) /\ ~Known(t) /\ m.dictHead # NoBlock /\ ~DictionaryTailFull
  /\ dict' = [dict EXCEPT ![t] = NewEntry(m.dictTail, ins.owner)]
  /\ Linked(t)
  /\ UNCHANGED <<page, meta, m>>

(* Fault: the old dictionary tail is not linked to the new page. *)
FaultLinkNewTermNextPage(t) ==
  /\ LinkReady(t) /\ ~Known(t) /\ m.dictHead # NoBlock /\ DictionaryTailFull
  /\ page' = [page EXCEPT ![blk] = DictionaryPage]
  /\ dict' = [dict EXCEPT ![t] = NewEntry(blk, ins.owner)]
  /\ m' = [m EXCEPT !.dictTail = blk]
  /\ meta' = m'
  /\ Linked(t)

LinkNewTermNextPage(t) ==
  /\ LinkReady(t) /\ ~Known(t) /\ m.dictHead # NoBlock /\ DictionaryTailFull
  /\ page[m.dictTail].kind = "Dictionary"
  /\ page' = [page EXCEPT ![blk] = DictionaryPage, ![m.dictTail].next = blk]
  /\ dict' = [dict EXCEPT ![t] = NewEntry(blk, ins.owner)]
  /\ m' = [m EXCEPT !.dictTail = blk]
  /\ meta' = m'
  /\ Linked(t)

(* Fault: the inline second owner is overwritten, not moved. *)
FaultLinkPromote(t) ==
  /\ LinkReady(t) /\ Known(t) /\ dict[t].inline = 1
  /\ page' = [page EXCEPT ![blk] = PostingsPage(t, {ins.owner})]
  /\ dict' = [dict EXCEPT ![t] = Promoted(dict[t], blk)]
  /\ Linked(t)
  /\ UNCHANGED <<meta, m>>

(* Fault: the entry is rewritten in place and loses its witness. *)
FaultLinkPromoteState(t) ==
  /\ LinkReady(t) /\ Known(t) /\ dict[t].inline = 1
  /\ page' = [page EXCEPT ![blk] = PostingsPage(t, {dict[t].second, ins.owner})]
  /\ dict' = [dict EXCEPT ![t] = WithChain(WithoutSecond(dict[t]), blk, blk)]
  /\ Linked(t)
  /\ UNCHANGED <<meta, m>>

(* promote_inline_second(): the inline second owner moves to a first page. *)
LinkPromote(t) ==
  /\ LinkReady(t) /\ Known(t) /\ dict[t].inline = 1
  /\ page' = [page EXCEPT ![blk] = PostingsPage(t, {dict[t].second, ins.owner})]
  /\ dict' = [dict EXCEPT ![t] = Promoted(dict[t], blk)]
  /\ Linked(t)
  /\ UNCHANGED <<meta, m>>

(* set_inline_second() on a packed dictionary page. *)
LinkInline(t) ==
  /\ LinkReady(t) /\ Known(t) /\ dict[t].inline # 1 /\ dict[t].head = NoBlock /\ Packed
  /\ dict' = [dict EXCEPT ![t] = WithSecond(dict[t], ins.owner)]
  /\ Linked(t)
  /\ UNCHANGED <<page, meta, m>>

LinkFirstPosting(t) ==
  /\ LinkReady(t) /\ Known(t) /\ dict[t].inline # 1 /\ dict[t].head = NoBlock /\ ~Packed
  /\ page' = [page EXCEPT ![blk] = PostingsPage(t, {ins.owner})]
  /\ dict' = [dict EXCEPT ![t] = WithChain(dict[t], blk, blk)]
  /\ Linked(t)
  /\ UNCHANGED <<meta, m>>

PostingTail(t) ==
  /\ page[dict[t].tail].kind \in PostingKind
  /\ page[dict[t].tail].term = t
  /\ page[dict[t].tail].next = NoBlock

LinkAppend(t) ==
  /\ LinkReady(t) /\ Known(t) /\ dict[t].inline # 1 /\ dict[t].head # NoBlock
  /\ PostingTail(t)
  /\ ~PostingTailFull(t)
  /\ page' = [page EXCEPT ![dict[t].tail].refs = @ \cup {ins.owner}]
  /\ Linked(t)
  /\ UNCHANGED <<meta, m, dict>>

LinkNextPage(t) ==
  /\ LinkReady(t) /\ Known(t) /\ dict[t].inline # 1 /\ dict[t].head # NoBlock
  /\ PostingTail(t)
  /\ PostingTailFull(t)
  /\ page' = [page EXCEPT ![blk] = PostingsPage(t, {ins.owner}), ![dict[t].tail].next = blk]
  /\ dict' = [dict EXCEPT ![t] = WithChain(dict[t], dict[t].head, blk)]
  /\ Linked(t)
  /\ UNCHANGED <<meta, m>>

LinkTerm(t) ==
  \/ LinkFirstTerm(t)    \/ LinkNewTerm(t) \/ LinkNewTermNextPage(t)
  \/ LinkPromote(t)      \/ LinkInline(t)
  \/ LinkFirstPosting(t) \/ LinkAppend(t)  \/ LinkNextPage(t)

-----------------------------------------------------------------------------
(* Fault: the publication record precedes the last dictionary link. *)
FaultPublish ==
  /\ pc = "link"
  /\ CanChange(ins.owner, "Publish")
  /\ owner' = [owner EXCEPT ![ins.owner] = Changed(ins.owner, "Publish", NoBlock)]
  /\ pc' = "idle"
  /\ ins' = NoInsert
  /\ UNCHANGED <<page, size, meta, dict, heap, crashes, m, blk, vac, cpt>>

(* The publication record, the last commit of insert(). *)
Publish ==
  /\ pc = "link" /\ ins.todo = {}
  /\ CanChange(ins.owner, "Publish")
  /\ owner' = [owner EXCEPT ![ins.owner] = Changed(ins.owner, "Publish", NoBlock)]
  /\ pc' = "idle"
  /\ ins' = NoInsert
  /\ UNCHANGED <<page, size, meta, dict, heap, crashes, m, blk, vac, cpt>>

InsertNeedsBlock ==
  \/ ReserveNeedsBlock
  \/ FragmentNeedsBlock
  \/ pc = "link" /\ \E t \in ins.todo : LinkNeedsBlock(t)

=============================================================================
