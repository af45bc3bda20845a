---------------------------- MODULE MutableStore ----------------------------
(***************************************************************************)
(* The mutable index as its writers see it: insertions, vacuum passes and  *)
(* compactions, one at a time under the writer interlock, over one page    *)
(* file, with a crash or an error possible before every WAL batch.         *)
(***************************************************************************)
EXTENDS Writer, Compact, Vacuum

Init ==
  /\ page = [b \in Block |-> NoPage]
  /\ size = 0
  /\ meta = EmptyMeta
  /\ dict = [t \in Term |-> NoEntry]
  /\ owner = [o \in Owner |-> UnusedSlot]
  /\ heap = [r \in Root |-> "free"]
  /\ crashes = 0
  /\ pc = "idle"
  /\ m = EmptyMeta
  /\ blk = NoBlock
  /\ ins = NoInsert
  /\ vac = NoVacuum
  /\ cpt = NoCompact

-----------------------------------------------------------------------------
(* The host *)

NeedsBlock == InsertNeedsBlock \/ OutputNeedsBlock

Allocate == NeedsBlock /\ Extend

(* A deletion that becomes dead to every snapshot. *)
HeapDelete(r) ==
  /\ heap[r] = "used"
  /\ ins.root # r
  /\ Cardinality({q \in Root : heap[q] = "dead"}) < MaxDead
  /\ heap' = [heap EXCEPT ![r] = "dead"]
  /\ UNCHANGED <<page, size, meta, dict, owner, crashes, pc, m, blk, ins, vac, cpt>>

(* The operation ends here: its private state is gone, the interlock is    *)
(* released and the tuple of an unfinished insertion is dead.              *)
Abandoned ==
  /\ pc' = "idle"
  /\ m' = meta
  /\ blk' = NoBlock
  /\ ins' = NoInsert
  /\ vac' = NoVacuum
  /\ cpt' = NoCompact
  /\ heap' = [r \in Root |-> IF r = ins.root THEN "dead" ELSE heap[r]]
  /\ UNCHANGED <<page, size, meta, dict, owner>>

(* A crash, a cancellation or an error of the host at any point. *)
Interrupt ==
  /\ pc \notin {"idle", "failed"}
  /\ crashes < MaxCrashes
  /\ crashes' = crashes + 1
  /\ Abandoned

(* The relation cannot grow. *)
ExtendFails ==
  /\ NeedsBlock /\ blk = NoBlock /\ size = MaxBlocks
  /\ Abandoned
  /\ UNCHANGED crashes

(* The error of PublishRejected leaves the maintenance call. *)
FailedCleanup ==
  /\ pc = "failed"
  /\ Abandoned
  /\ UNCHANGED crashes

-----------------------------------------------------------------------------
Insert ==
  \/ ReserveFirst \/ ReserveAppend \/ ReserveNext
  \/ StoreFragmentReused \/ StoreFragmentAllocated \/ PayloadReady
  \/ \E t \in Term : LinkTerm(t)
  \/ Publish

Recover == RecoverOne \/ RecoverTwo

Compaction ==
  \/ \E t \in Term : CompactSkip(t) \/ CompactInline(t) \/ RewriteBegin(t)
  \/ PersistReused \/ PersistAllocated
  \/ PublishReplacement \/ PublishRejected
  \/ RecoverEndCompact \/ CompactEnd

VacuumPass ==
  \/ RecoverEndVacuum \/ RemoveOwners
  \/ \E b \in Block : SweepDirect(b) \/ SweepFragment(b) \/ ReclaimZero(b)
  \/ SweepEnd \/ VacuumEnd

(* One step of the operation that is under way. *)
Step == Allocate \/ ExtendFails \/ Insert \/ Recover \/ Compaction \/ VacuumPass \/ FailedCleanup

Next ==
  \/ \E r \in Root, d \in Document : InsertBegin(r, d)
  \/ VacuumBegin
  \/ \E mode \in CompactMode : CompactBegin(mode)
  \/ Step
  \/ Interrupt
  \/ \E r \in Root : HeapDelete(r)

Spec == Init /\ [][Next]_vars

(* An operation that holds the interlock runs on, and the host starts      *)
(* vacuum passes again and again: autovacuum keeps coming back while there *)
(* are dead tuples, and the queue of the page lock serves it in turn.      *)
FairSpec == Spec /\ WF_vars(Step) /\ SF_vars(VacuumBegin)

-----------------------------------------------------------------------------
(* Type correctness: every page, entry, slot and local of the index stays  *)
(* inside the records the format defines, and an entry in state 1 has its  *)
(* second owner.                                                           *)
TypeOK ==
  /\ page \in [Block -> PageRecord]
  /\ size \in 0 .. MaxBlocks
  /\ meta \in MetaRecord
  /\ dict \in [Term -> TermRecord]
  /\ \A t \in Term : dict[t].inline = 1 => dict[t].second \in Owner
  /\ owner \in [Owner -> OwnerRecord]
  /\ heap \in [Root -> {"free", "used", "dead"}]
  /\ crashes \in 0 .. MaxCrashes
  /\ pc \in {"idle", "reserve", "fragment", "link", "recover", "owners", "sweep",
             "zeros", "compact", "rewrite", "failed"}
  /\ m \in MetaRecord
  /\ blk \in BlockOrNone
  /\ ins \in InsertRecord
  /\ vac \in VacuumRecord
  /\ cpt \in CompactRecord

-----------------------------------------------------------------------------
(* What a reader can reach *)

(* The references of a term: the first owner, the inline second owner or   *)
(* the posting chain.                                                      *)
TermRefs(t) ==
  LET e == dict[t] IN
  IF e.page = NoBlock THEN {}
  ELSE {e.first} \cup (IF e.inline = 1 THEN {e.second} ELSE ChainRefs(e.head, e.tail))

(* The live postings, the contents of the index. *)
LivePostings == UNION {{t} \X {o \in TermRefs(t) : Live(o)} : t \in Term}

(* The blocks the payload of o runs through. *)
FragmentsOf(o) == Chain(owner[o].head, NoBlock)

-----------------------------------------------------------------------------
(* Success of insert() "means all dictionary references and exact payload  *)
(* bytes precede the publication record": a live owner's terms all lead to *)
(* it and its fragments are all there, in order, whatever was interrupted, *)
(* reclaimed or rewritten since.                                           *)
PublishedComplete ==
  LET refs == [t \in Term |-> TermRefs(t)] IN
  \A o \in Owner : Live(o) =>
    LET payload == FragmentsOf(o) IN
    /\ \A t \in owner[o].doc.terms : o \in refs[t]
    /\ Cardinality(payload) = owner[o].doc.frags
    /\ \A b \in payload : page[b].kind = "Fragment" /\ page[b].owner = o
    /\ \A b \in payload : page[b].next # NoBlock =>
         page[page[b].next].index = page[b].index + 1

(* The free list of the metapage runs through free pages only, none twice, *)
(* so a block popped from it is nobody else's (set_free_head() in insert,  *)
(* compaction, recovery and vacuum).                                       *)
FreeListSound ==
  /\ meta.free # NoBlock => page[meta.free].kind = "Free"
  /\ \A b \in Block : page[b].kind = "Free" =>
       /\ page[b].next # meta.free \/ meta.free = NoBlock
       /\ page[b].next # NoBlock => page[page[b].next].kind = "Free"
  /\ \A b, c \in Block :
       page[b].kind = "Free" /\ page[c].kind = "Free" /\ page[b].next = page[c].next
         => b = c \/ page[b].next = NoBlock

(* Outside recovery the private metapage is the durable one, the block an  *)
(* operation has allocated is still unwritten, every incarnation in use    *)
(* has been counted and the one it writes under is reserved.               *)
MetapageCurrent ==
  /\ pc \notin {"idle", "recover", "failed"} => m = meta
  /\ blk # NoBlock => page[blk].kind = "Zero"
  /\ \A o \in Owner : owner[o].pub # "None" => o < meta.inc
  /\ pc = "reserve" => m.inc <= MaxOwners
  /\ pc \in {"fragment", "link"} => ins.owner \in Owner
  /\ pc = "rewrite" => cpt.term \in Term

(* An allocated block is held only by a stage that is about to write it. *)
BlockAwaited ==
  blk # NoBlock => \/ pc = "reserve" \/ FragmentNeedsBlock \/ OutputNeedsBlock
                   \/ pc = "link" /\ ins.todo # {}

(* "recovery advances the free list; never reuse a stale metapage image":  *)
(* what an operation takes from its private metapage and the block it has  *)
(* allocated are its own, and it ends with no block left over.             *)
ImageCurrent == MetapageCurrent /\ BlockAwaited

(* The roles a block can have *)
OwnerChain == Chain(meta.ownerHead, meta.ownerTail)
DictChain == Chain(meta.dictHead, meta.dictTail)
PostingChain(t) ==
  IF dict[t].inline = 1 THEN {} ELSE Chain(dict[t].head, dict[t].tail)
JournalChain == Chain(meta.journal.head, meta.journal.tail)
FreeList == Chain(meta.free, NoBlock)

(* The relation has a page up to its size and none past it. *)
PastEnd == \A b \in Block : page[b].kind = "None" <=> b > size

(* Every page is accounted for: it belongs to exactly the chain its kind   *)
(* says, the posting chains of two terms and the journal never share a     *)
(* page, and no page of a kind is outside its chain, so nothing leaks that *)
(* recovery would not find.                                                *)
PagesAccounted ==
  LET owners == OwnerChain
      terms == DictChain
      free == FreeList
      retired == JournalChain
      postings == [t \in Term |-> PostingChain(t)]
  IN
  /\ PastEnd
  /\ \A b \in Block :
       /\ (page[b].kind = "Owners") = (b \in owners)
       /\ (page[b].kind = "Dictionary") = (b \in terms)
       /\ (page[b].kind = "Free") = (b \in free)
       /\ (page[b].kind \in PostingKind) =
            (b \in retired \/ \E t \in Term : b \in postings[t])
  /\ \A t \in Term : postings[t] \cap retired = {}
  /\ \A t, u \in Term : t # u => postings[t] \cap postings[u] = {}

(* Every posting chain a reader, an append or a compaction follows is      *)
(* intact, every entry passes validate() and every reference leads to a    *)
(* written owner slot, of whatever insertion, finished or not: none of     *)
(* them meets the corruption errors of inspect(), posting_next(),          *)
(* load_posting() and resolve().                                           *)
ChainsIntact ==
  \A t \in Term :
    /\ EntryValid(dict[t])
    /\ \A o \in TermRefs(t) : owner[o].pub # "None" /\ t \in owner[o].doc.terms
    /\ dict[t].inline # 1 => ChainIntact(t, dict[t].head, dict[t].tail, dict[t].first)

(* recover() never refuses the journal that an interrupted compaction left *)
(* (it would make every later vacuum and compaction fail), and a vacuum    *)
(* never meets a referenced zero block.                                    *)
RecoveryAccepts ==
  /\ meta.journal.phase # "None" => RecoverAccepts
  /\ \A b \in ZeroBlocks : Unreferenced(b)

(* "bulk deletion must retire every copied coordinate before heap reuse":  *)
(* a root the host may recycle has no live owner and no live copied        *)
(* coordinate, and no root has two live owners.                            *)
NoStaleRoot ==
  /\ \A o \in Owner : Live(o) => heap[owner[o].root] # "free"
  /\ \A b \in Block : \A o \in page[b].roots : heap[owner[o].root] # "free"
  /\ \A o, p \in Owner : Live(o) /\ Live(p) /\ owner[o].root = owner[p].root => o = p

(* "removal cannot republish an owner" and "owner slots ... are never      *)
(* reused": a slot keeps its root and its document, and once removed or    *)
(* abandoned stays so.                                                     *)
OwnerNeverRevived ==
  [][\A o \in Owner : owner[o].pub # "None" =>
       /\ owner'[o].root = owner[o].root /\ owner'[o].doc = owner[o].doc
       /\ owner[o].pub = "Abandoned" => owner'[o].pub = "Abandoned"
       /\ owner[o].pub = "Published" /\ ~owner[o].live =>
            owner'[o].pub = "Published" /\ ~owner'[o].live]_vars

(* The pages that the metapage, an entry or a live document leads to. *)
InUse ==
  OwnerChain \cup DictChain \cup FreeList
    \cup (UNION {PostingChain(t) : t \in Term})
    \cup (UNION {FragmentsOf(o) : o \in {p \in Owner : Live(p)}})

(* A vacuum pass that returns leaves nothing of what crashes, cancelled    *)
(* insertions, interrupted rewrites and deletions had left, and leaks      *)
(* nothing itself: every block of the relation is a page that somebody can *)
(* reach, no journal keeps pages of its own, a live document has no pages  *)
(* but its payload, and no slot is still of an unfinished insertion.       *)
VacuumLeavesNoDebris ==
  [][VacuumEnd =>
       /\ 1 .. size \subseteq InUse
       /\ \A o \in Owner : owner[o].pub \notin {"Allocated", "FragmentsWritten"}]_vars

(* Every operation comes to an end: no loop of recover(), of the sweep or  *)
(* of a rewrite is caught, and none waits for what never comes.            *)
OperationsEnd == pc # "idle" ~> pc = "idle"

(* What a crash leaves behind is repaired: the journal of an interrupted   *)
(* compaction is cleared and a block that was allocated and never written  *)
(* is put to use, by a later pass if not by this one.                      *)
DebrisCleared ==
  /\ meta.journal.phase # "None" ~> meta.journal.phase = "None"
  /\ \A b \in Block : page[b].kind = "Zero" ~> page[b].kind # "Zero"

(* A root that is dead to every snapshot is given back to the heap. *)
RootsRecycled == \A r \in Root : heap[r] = "dead" ~> heap[r] = "free"

(* The page file implements the abstract index: an insertion becomes       *)
(* visible in one step with all its terms, a removal takes all postings of *)
(* documents the host has declared dead, and no allocation, compaction,    *)
(* recovery, reclamation or crash changes what a reader can reach.         *)
Index == INSTANCE DocumentIndex
           WITH postings <- LivePostings,
                published <- {<<o, owner[o].doc.terms>> :
                                o \in {p \in Owner : owner[p].pub = "Published"}},
                removable <- {o \in Owner : /\ owner[o].pub = "Published"
                                            /\ heap[owner[o].root] = "dead"}

ImplementsIndex == Index!Spec

(* "Rejects corrupt chains, unordered owners and any host failure" is the  *)
(* whole error contract of compact(): a compaction of the index its own    *)
(* writers built does not fail by itself.                                  *)
CompactionSucceeds == pc # "failed"

=============================================================================
