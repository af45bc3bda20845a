------------------------------ MODULE PageFile ------------------------------
(***************************************************************************)
(* The page file under the mutable index: the pages of the relation, the   *)
(* metapage, the dictionary entries and the owner slots, as one committed  *)
(* WAL batch leaves them, and the private metapage image one operation     *)
(* works on (crates/pin-core/src/mutable/mod.rs and page.rs).              *)
(*                                                                         *)
(* A page is a record.  Block 0 is the metapage and is kept apart as meta, *)
(* so 0 can stand for NO_BLOCK.  A posting page keeps its owner references *)
(* as a set: inspect() and validate() accept only strictly increasing      *)
(* references, so the set determines the stream.                           *)
(***************************************************************************)
EXTENDS Integers, FiniteSets

CONSTANTS
  Term,             \* the terms of the dictionary
  NoTerm,           \* the term field of a page that is no posting page
  Root,             \* the root tuple identifiers of the heap
  NoRoot,           \* the root of an owner slot not yet written
  Document,         \* the prepared documents: [frags: Nat, terms: SUBSET Term]
  MaxBlocks,        \* bound: blocks of the relation besides the metapage
  MaxOwners,        \* bound: incarnations handed out
  MaxCrashes,       \* bound: crashes and errors that interrupt an operation
  MaxDead,          \* bound: deleted roots that await a vacuum pass
  OwnersPerPage,    \* owner slots of an owner page
  TermsPerPage,     \* entries of a dictionary page
  PostingsPerPage,  \* references of a mutable posting page
  SealedPerPage,    \* references of a sealed or a direct posting page
  Packed            \* the packed_postings format bit of the metapage

ASSUME NullAssumption == NoTerm \notin Term /\ NoRoot \notin Root
ASSUME DocumentAssumption ==
  \A d \in Document : d.frags \in Nat /\ d.terms \subseteq Term
ASSUME BoundAssumption == /\ MaxBlocks \in Nat /\ MaxOwners \in Nat
                          /\ MaxCrashes \in Nat /\ MaxDead \in Nat
ASSUME CapacityAssumption ==
  /\ OwnersPerPage \in Nat \ {0} /\ TermsPerPage \in Nat \ {0}
  /\ PostingsPerPage \in Nat \ {0, 1} /\ SealedPerPage \in Nat \ {0}
ASSUME PackedAssumption == Packed \in BOOLEAN

NoBlock == 0
NoOwner == 0
Block == 1 .. MaxBlocks
Owner == 1 .. MaxOwners
BlockOrNone == Block \cup {NoBlock}
OwnerOrNone == Owner \cup {NoOwner}

VARIABLES
  page,     \* the durable pages of the relation
  size,     \* the relation's last block
  meta,     \* the durable metapage
  dict,     \* the durable dictionary entries, one per term
  owner,    \* the durable owner slots, one per incarnation
  heap,     \* the host's heap: what each root identifier holds
  crashes,  \* crashes so far
  pc,       \* the stage of the operation that holds the writer interlock
  m,        \* that operation's private metapage image
  blk,      \* the block it has allocated and not yet committed
  ins,      \* its insert() locals
  vac,      \* its vacuum() locals
  cpt       \* its compact() and recover() locals

durable  == <<page, size, meta, dict, owner>>
vars     == <<page, size, meta, dict, owner, heap, crashes, pc, m, blk, ins, vac, cpt>>

-----------------------------------------------------------------------------
(* Pages *)

PageKind == {"None", "Zero", "Owners", "Dictionary", "Postings", "Sealed",
             "Direct", "Fragment", "Free"}
PostingKind == {"Postings", "Sealed", "Direct"}

PageRecord == [kind : PageKind, next : BlockOrNone, owner : OwnerOrNone,
               index : Nat, term : Term \cup {NoTerm},
               refs : SUBSET Owner, roots : SUBSET Owner]

NewPage(kind, next) ==
  [kind |-> kind, next |-> next, owner |-> NoOwner, index |-> 0,
   term |-> NoTerm, refs |-> {}, roots |-> {}]

NoPage         == NewPage("None", NoBlock)   \* past the end of the relation
ZeroPage       == NewPage("Zero", NoBlock)
OwnersPage     == NewPage("Owners", NoBlock)
DictionaryPage == NewPage("Dictionary", NoBlock)
FreePage(next) == NewPage("Free", next)

(* index counts the fragments that precede this one in the payload *)
FragmentPage(o, index, next) ==
  [kind |-> "Fragment", next |-> next, owner |-> o, index |-> index,
   term |-> NoTerm, refs |-> {}, roots |-> {}]

PostingsPage(t, refs) ==
  [kind |-> "Postings", next |-> NoBlock, owner |-> NoOwner, index |-> 0,
   term |-> t, refs |-> refs, roots |-> {}]

(* roots holds the references whose copied heap coordinate is still live;  *)
(* only a direct page carries coordinates.                                 *)
SealedPage(t, refs, direct) ==
  [kind |-> IF direct THEN "Direct" ELSE "Sealed", next |-> NoBlock,
   owner |-> NoOwner, index |-> 0, term |-> t, refs |-> refs,
   roots |-> IF direct THEN refs ELSE {}]

(* The references with the n smallest incarnations: what one page takes of *)
(* an ordered stream.                                                      *)
FirstRefs(refs, n) ==
  {o \in refs : Cardinality({p \in refs : p <= o}) <= n}

(* The blocks a traversal from head to tail visits; bounded, as            *)
(* posting_next() is, by the number of blocks.                             *)
Walk(head, tail) ==
  LET from[n \in 0 .. MaxBlocks] ==
        [b \in BlockOrNone |->
           IF n = 0 \/ b = NoBlock THEN {}
           ELSE {b} \cup (IF b = tail THEN {} ELSE from[n - 1][page[b].next])]
  IN  from[MaxBlocks][head]

Chain(head, tail) == Block \cap Walk(head, tail)

-----------------------------------------------------------------------------
(* The metapage, the dictionary and the owner slots *)

NoJournal == [phase |-> "None", head |-> NoBlock, tail |-> NoBlock]

Journal == [phase : {"None", "Building", "Retiring"},
            head : BlockOrNone, tail : BlockOrNone]

MetaRecord == [inc : 1 .. (MaxOwners + 1),
               ownerHead : BlockOrNone, ownerTail : BlockOrNone,
               dictHead : BlockOrNone, dictTail : BlockOrNone,
               free : BlockOrNone, journal : Journal]

EmptyMeta == [inc |-> 1, ownerHead |-> NoBlock, ownerTail |-> NoBlock,
              dictHead |-> NoBlock, dictTail |-> NoBlock,
              free |-> NoBlock, journal |-> NoJournal]

(* inline is the entry's state word: 0 no second owner, 1 the second owner *)
(* is stored inline and head and tail name the dictionary page itself, 2   *)
(* it moved to a posting page and stays as a witness for older readers.    *)
TermRecord == [page : BlockOrNone, first : OwnerOrNone, inline : 0 .. 2,
               second : OwnerOrNone, head : BlockOrNone, tail : BlockOrNone]

NoEntry == [page |-> NoBlock, first |-> NoOwner, inline |-> 0,
            second |-> NoOwner, head |-> NoBlock, tail |-> NoBlock]

NewEntry(block, o) == [page |-> block, first |-> o, inline |-> 0,
                       second |-> NoOwner, head |-> NoBlock, tail |-> NoBlock]

(* set_posting_chain(), set_inline_second() with and without an owner, and *)
(* promote_inline_second(), which keeps the second owner.                  *)
WithChain(e, head, tail) == [e EXCEPT !.head = head, !.tail = tail]
WithSecond(e, o) ==
  [page |-> e.page, first |-> e.first, inline |-> 1, second |-> o,
   head |-> e.page, tail |-> e.page]
WithoutSecond(e) == NewEntry(e.page, e.first)
Promoted(e, block) ==
  [page |-> e.page, first |-> e.first, inline |-> 2, second |-> e.second,
   head |-> block, tail |-> block]

(* What validate() demands of an entry before it is written. *)
EntryValid(e) ==
  /\ (e.head = NoBlock) = (e.tail = NoBlock)
  /\ e.inline = 1 => e.head = e.page /\ e.tail = e.page
  /\ e.inline = 2 => e.head \notin {NoBlock, e.page} /\ e.tail \notin {NoBlock, e.page}
  /\ e.inline = 0 => e.head = NoBlock \/ (e.head # e.page /\ e.tail # e.page)

Publication == {"None", "Allocated", "FragmentsWritten", "Published", "Abandoned"}

NoDocument == [frags |-> 0, terms |-> {}]

OwnerRecord == [pub : Publication, live : BOOLEAN, root : Root \cup {NoRoot},
                head : BlockOrNone, page : BlockOrNone,
                doc : Document \cup {NoDocument}]

UnusedSlot == [pub |-> "None", live |-> FALSE, root |-> NoRoot,
               head |-> NoBlock, page |-> NoBlock, doc |-> NoDocument]

(* change_owner(): each change is accepted in one publication state only. *)
CanChange(o, change) ==
  CASE change = "PayloadReady" -> owner[o].pub = "Allocated"
    [] change = "Publish"      -> owner[o].pub = "FragmentsWritten"
    [] change = "Remove"       -> owner[o].pub = "Published" /\ owner[o].live
    [] change = "Abandon"      -> owner[o].pub \in {"Allocated", "FragmentsWritten"}

Changed(o, change, head) ==
  CASE change = "PayloadReady" -> [owner[o] EXCEPT !.pub = "FragmentsWritten", !.head = head]
    [] change = "Publish"      -> [owner[o] EXCEPT !.pub = "Published", !.live = TRUE]
    [] change = "Remove"       -> [owner[o] EXCEPT !.live = FALSE, !.head = NoBlock]
    [] change = "Abandon"      -> [owner[o] EXCEPT !.pub = "Abandoned", !.head = NoBlock]

(* resolve(): the reference stands for a published, live document. *)
Live(o) == owner[o].pub = "Published" /\ owner[o].live

-----------------------------------------------------------------------------
(* Allocation *)

(* allocate(): the relation grows by a block that a crash leaves all zero. *)
Extend ==
  /\ blk = NoBlock
  /\ size < MaxBlocks
  /\ size' = size + 1
  /\ page' = [page EXCEPT ![size + 1] = ZeroPage]
  /\ blk' = size + 1
  /\ UNCHANGED <<meta, dict, owner, heap, crashes, pc, m, ins, vac, cpt>>

=============================================================================
