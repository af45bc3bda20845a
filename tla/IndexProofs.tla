---------------------------- MODULE IndexProofs -----------------------------
(***************************************************************************)
(* Proofs about the contents of MutableStore: which pages belong to which  *)
(* chain, what the chains hold, and that the page file implements the      *)
(* abstract index.  The inductive invariant says of every page kind which  *)
(* chain its pages form; for posting pages that is the chain of a          *)
(* dictionary entry or the journal, and during a rewrite the part of the   *)
(* chain that the journal is to replace.                                   *)
(***************************************************************************)
EXTENDS MutableStoreProofs, Chains

Link == [b \in Block |-> page[b].next]
Kind(k) == {b \in Block : page[b].kind = k}
Posts == {b \in Block : page[b].kind \in PostingKind}
Postings(t) == {b \in Posts : page[b].term = t}
Fragments(o) == {b \in Block : page[b].kind = "Fragment" /\ page[b].owner = o}

Written(b) == b # NoBlock => page[b].kind \notin {"None", "Zero"}

(* Every block that a page, the metapage, a slot or an entry names has     *)
(* been written.                                                           *)
NamesWritten ==
  /\ \A b \in Block : Written(page[b].next)
  /\ Written(meta.ownerHead) /\ Written(meta.ownerTail)
  /\ Written(meta.dictHead) /\ Written(meta.dictTail)
  /\ Written(meta.free) /\ Written(meta.journal.head) /\ Written(meta.journal.tail)
  /\ \A o \in Owner : Written(owner[o].head) /\ Written(owner[o].page)
  /\ \A t \in Term : Written(dict[t].head) /\ Written(dict[t].tail) /\ Written(dict[t].page)
  /\ pc = "fragment" => Written(ins.head)

(* The owner pages, the dictionary pages and the free pages are one chain  *)
(* each.                                                                   *)
OwnersChained == Chained(Link, Kind("Owners"), meta.ownerHead, meta.ownerTail)
DictChained   == Chained(Link, Kind("Dictionary"), meta.dictHead, meta.dictTail)
FreeChained   == \E t \in BlockOrNone : Chained(Link, Kind("Free"), meta.free, t)

(* What the insertion under way has still to link does not refer to it. *)
Unlinked(t) ==
  dict[t].first # ins.owner /\ \A b \in Postings(t) : ins.owner \notin page[b].refs

(* The insertion under way holds the newest incarnation. *)
InsertSound ==
  /\ pc = "reserve" => ins.head = NoBlock
  /\ pc \in {"fragment", "link"} =>
       ins.owner = meta.inc - 1 /\ owner[ins.owner].doc = ins.doc
  /\ pc = "fragment" => owner[ins.owner].pub = "Allocated"
  /\ pc = "link" => owner[ins.owner].pub = "FragmentsWritten" /\ ins.todo \subseteq ins.doc.terms
  /\ \A t \in Term : pc = "fragment" \/ (pc = "link" /\ t \in ins.todo) => Unlinked(t)

(* Payloads.  The fragments of o, the owner of d, from index i on, start   *)
(* at head.                                                                *)
PayloadFrom(o, d, i, head) ==
  /\ \E t \in BlockOrNone : Chained(Link, Fragments(o), head, t)
  /\ i \in 0 .. d.frags /\ Cardinality(Fragments(o)) = d.frags - i
  /\ head # NoBlock => page[head].index = i
  /\ \A b \in Fragments(o) : page[b].index \in i .. (d.frags - 1)
  /\ \A b \in Fragments(o) :
       IF page[b].next = NoBlock THEN page[b].index + 1 = d.frags
       ELSE page[page[b].next].index = page[b].index + 1

PayloadsSound ==
  /\ \A b \in Block : page[b].kind = "Fragment" =>
       page[b].owner \in Owner /\ owner[page[b].owner].pub # "None"
  /\ \A o \in Owner : Live(o) \/ (pc = "link" /\ o = ins.owner) =>
       PayloadFrom(o, owner[o].doc, 0, owner[o].head)
  /\ pc = "fragment" => PayloadFrom(ins.owner, ins.doc, ins.left, ins.head)

(* The pages of the journal, J *)
JournalSound(J) ==
  /\ J \subseteq Posts
  /\ Chained(Link, J, meta.journal.head, meta.journal.tail)
  /\ meta.journal.phase = "None" <=> J = {}
  /\ \A b, c \in J : page[b].term = page[c].term

(* The posting pages of a term outside the journal are the chain of its    *)
(* dictionary entry.                                                       *)
EntriesSound(J) ==
  \A t \in Term :
    /\ dict[t].page = NoBlock => dict[t] = NoEntry
    /\ dict[t].page # NoBlock => page[dict[t].page].kind = "Dictionary"
    /\ EntryValid(dict[t])
    /\ IF dict[t].inline = 1 THEN Postings(t) \subseteq J
       ELSE Chained(Link, Postings(t) \ J, dict[t].head, dict[t].tail)

Refers(t, o) == o \in Owner /\ owner[o].pub # "None" /\ t \in owner[o].doc.terms

(* References are to owners of the term and ascend: from the first owner   *)
(* to the chain and along it.                                              *)
RefsSound(J) ==
  /\ \A b \in Posts : page[b].term \in Term /\ page[b].refs # {}
  /\ \A b \in Posts : \A o \in page[b].refs : Refers(page[b].term, o)
  /\ \A b \in Posts \ J : \A o \in page[b].refs : dict[page[b].term].first < o
  /\ \A b \in Posts : page[b].next # NoBlock =>
       \A o \in page[b].refs, p \in page[page[b].next].refs : o < p
  /\ \A t \in Term : dict[t].page # NoBlock => Refers(t, dict[t].first)
  /\ \A t \in Term : dict[t].inline = 1 =>
       Refers(t, dict[t].second) /\ dict[t].first < dict[t].second

(* o is on a page of S. *)
Holds(S, o) == \E b \in S : o \in page[b].refs

(* The pages that a rewrite replaces, S, are the end of the chain behind   *)
(* the boundary.  What is live on them is pending or on a page of the      *)
(* journal.                                                                *)
RewriteSound(J, S) ==
  pc = "rewrite" =>
    /\ meta.journal.phase # "Retiring"
    /\ dict[cpt.term].inline # 1 /\ dict[cpt.term].page # NoBlock
    /\ S \subseteq Postings(cpt.term) \ J /\ cpt.source \in S
    /\ Chained(Link, S, cpt.source, dict[cpt.term].tail)
    /\ IF cpt.boundary = NoBlock THEN cpt.source = dict[cpt.term].head
       ELSE cpt.boundary \in Postings(cpt.term) \ J /\ page[cpt.boundary].next = cpt.source
    /\ \A b \in J : page[b].term = cpt.term
    /\ \A o \in cpt.pending : Holds(S, o)
    /\ \A o \in Owner : Holds(J, o) => Holds(S, o)
    /\ \A o \in Owner : Holds(S, o) /\ Live(o) => o \in cpt.pending \/ Holds(J, o)
    /\ \A o \in Owner, p \in cpt.pending : Holds(J, o) => o < p

(* o is among the references of t. *)
Has(J, t, o) ==
  /\ dict[t].page # NoBlock
  /\ \/ o = dict[t].first
     \/ dict[t].inline = 1 /\ o = dict[t].second
     \/ Holds(Postings(t) \ J, o)

(* A document that is live, or up to t linked by the insertion under way. *)
Due(o, t) == Live(o) \/ (pc = "link" /\ o = ins.owner /\ t \notin ins.todo)

LinksComplete(J) == \A o \in Owner : \A t \in owner[o].doc.terms : Due(o, t) => Has(J, t, o)

PostingsHold(J, S) ==
  /\ JournalSound(J) /\ EntriesSound(J) /\ RefsSound(J)
  /\ RewriteSound(J, S) /\ LinksComplete(J)

PostingsSound == \E J, S \in SUBSET Block : PostingsHold(J, S)

(* The inductive invariant *)
StoreInv ==
  /\ StoreOK /\ RootInv
  /\ NamesWritten /\ OwnersChained /\ DictChained /\ FreeChained
  /\ InsertSound /\ PayloadsSound /\ PostingsSound

-----------------------------------------------------------------------------
(* What a batch does to the pages *)

(* Page b is written anew and no other page changes. *)
Puts(b, new) ==
  b \in Block /\ page'[b] = new /\ \A d \in Block : d # b => page'[d] = page[d]

(* The link of page c is turned to n. *)
Turned(c, n) ==
  /\ page'[c].next = n
  /\ page'[c].kind = page[c].kind /\ page'[c].owner = page[c].owner
  /\ page'[c].index = page[c].index /\ page'[c].term = page[c].term
  /\ page'[c].refs = page[c].refs

(* Page b is written anew and linked behind page c. *)
PutsBehind(b, new, c) ==
  /\ b \in Block /\ c \in Block /\ b # c /\ page'[b] = new /\ Turned(c, b)
  /\ \A d \in Block : d # b /\ d # c => page'[d] = page[d]

(* Nothing but coordinates changes on page b. *)
Same(b) == Turned(b, page[b].next)

(* Pages change only from kinds of K to kinds of K. *)
Touches(K) == \A b \in Block : Same(b) \/ (page[b].kind \in K /\ page'[b].kind \in K)

(* The fields of a page that an operation writes. *)
LEMMA PageFields ==
  /\ OwnersPage.kind = "Owners" /\ OwnersPage.next = NoBlock
  /\ DictionaryPage.kind = "Dictionary" /\ DictionaryPage.next = NoBlock
  /\ ZeroPage.kind = "Zero" /\ ZeroPage.next = NoBlock
  /\ NoPage.kind = "None" /\ NoPage.next = NoBlock
  /\ \A n : FreePage(n).kind = "Free" /\ FreePage(n).next = n
  /\ \A o, i, n : /\ FragmentPage(o, i, n).kind = "Fragment" /\ FragmentPage(o, i, n).next = n
                  /\ FragmentPage(o, i, n).owner = o /\ FragmentPage(o, i, n).index = i
  /\ \A t, R : /\ PostingsPage(t, R).kind = "Postings" /\ PostingsPage(t, R).next = NoBlock
               /\ PostingsPage(t, R).term = t /\ PostingsPage(t, R).refs = R
  /\ \A t, R, d : /\ SealedPage(t, R, d).kind \in {"Sealed", "Direct"}
                  /\ SealedPage(t, R, d).next = NoBlock
                  /\ SealedPage(t, R, d).term = t /\ SealedPage(t, R, d).refs = R
BY DEF OwnersPage, DictionaryPage, ZeroPage, NoPage, FreePage, NewPage, FragmentPage,
       PostingsPage, SealedPage

(* One page is written. *)
LEMMA PutOne ==
  ASSUME TypeOK, NEW b \in Block, NEW new, page' = [page EXCEPT ![b] = new]
  PROVE  Puts(b, new)
BY DEF Puts, TypeOK

(* The link of one page is turned. *)
LEMMA TurnOne ==
  ASSUME TypeOK, NEW c \in Block, NEW n, page' = [page EXCEPT ![c].next = n]
  PROVE  Turned(c, n) /\ \A d \in Block : d # c => page'[d] = page[d]
BY DEF Turned, TypeOK, PageRecord

(* One page is written and linked behind another. *)
LEMMA PutLinked ==
  ASSUME TypeOK, NEW b \in Block, NEW new, NEW c \in Block, b # c,
         page' = [page EXCEPT ![b] = new, ![c].next = b]
  PROVE  PutsBehind(b, new, c)
<1> DEFINE base == [page EXCEPT ![b] = new]
<1>1. page \in [Block -> PageRecord]
  BY DEF TypeOK
<1>2. page' = [base EXCEPT ![c].next = b]
  OBVIOUS
<1>3. base[b] = new /\ \A d \in Block : d # b => base[d] = page[d]
  BY <1>1
<1>4. DOMAIN base = Block
  BY <1>1
<1> HIDE DEF base
<1>5. \A d \in Block : d # c => page'[d] = base[d]
  BY <1>2, <1>4
<1>6. page'[c] = [page[c] EXCEPT !.next = b]
  BY <1>2, <1>3, <1>4
<1>7. page[c] \in PageRecord
  BY <1>1
<1>8. Turned(c, b)
  BY <1>6, <1>7 DEF Turned, PageRecord
<1> QED BY <1>3, <1>5, <1>8 DEF PutsBehind

(* What a written page touches. *)
LEMMA PutTouches ==
  ASSUME NEW b, NEW new, NEW K, page[b].kind \in K, new.kind \in K, Puts(b, new)
  PROVE  Touches(K)
BY DEF Puts, Touches, Same, Turned

(* And one that is linked behind another. *)
LEMMA BehindTouches ==
  ASSUME NEW b, NEW new, NEW c, NEW K, page[b].kind \in K, new.kind \in K, page[c].kind \in K,
         PutsBehind(b, new, c)
  PROVE  Touches(K)
BY DEF PutsBehind, Touches, Same, Turned

(* What is not touched is the same. *)
LEMMA Untouched ==
  ASSUME NEW K, Touches(K), NEW k, k \notin K
  PROVE  /\ Kind(k)' = Kind(k)
         /\ \A b \in Kind(k) : Same(b)
BY DEF Touches, Kind, Same, Turned

-----------------------------------------------------------------------------
(* The batches, one by one *)

(* An allocated block is a zero page that nothing names. *)
LEMMA Allocated ==
  ASSUME StoreOK, NamesWritten, blk # NoBlock
  PROVE  /\ blk \in Block /\ page[blk].kind = "Zero"
         /\ \A b \in Block : page[b].next # blk
         /\ \A t \in Term : dict[t].page # blk
BY BlockFacts DEF StoreOK, NamesWritten, Written, NoBlock

(* allocate() *)
LEMMA AllocateBatch ==
  ASSUME StoreOK, Allocate
  PROVE  /\ Puts(size + 1, ZeroPage) /\ page[size + 1].kind = "None"
         /\ Touches({"None", "Zero"})
         /\ UNCHANGED <<meta, dict, owner, pc, ins, cpt>>
<1>1. size + 1 \in Block /\ size + 1 > size
  BY BoundAssumption DEF Allocate, Extend, StoreOK, TypeOK, Block
<1>2. page[size + 1].kind = "None"
  BY <1>1 DEF StoreOK, PastEnd
<1>3. Puts(size + 1, ZeroPage)
  BY <1>1, PutOne DEF Allocate, Extend, StoreOK
<1>4. Touches({"None", "Zero"})
  BY <1>2, <1>3, PutTouches, PageFields
<1> QED BY <1>2, <1>3, <1>4 DEF Allocate, Extend

(* reserve_owner() *)
LEMMA ReserveBatch ==
  ASSUME StoreOK, Reserve
  PROVE  /\ \/ /\ blk # NoBlock /\ meta.ownerHead = NoBlock /\ Puts(blk, OwnersPage)
               /\ meta'.ownerHead = blk /\ meta'.ownerTail = blk
            \/ /\ meta.ownerHead # NoBlock /\ UNCHANGED page
               /\ meta'.ownerHead = meta.ownerHead /\ meta'.ownerTail = meta.ownerTail
            \/ /\ blk # NoBlock /\ meta.ownerHead # NoBlock
               /\ page[meta.ownerTail].kind = "Owners"
               /\ meta.ownerTail \in Block => PutsBehind(blk, OwnersPage, meta.ownerTail)
               /\ meta'.ownerHead = meta.ownerHead /\ meta'.ownerTail = blk
         /\ m = meta /\ meta'.inc = meta.inc + 1 /\ meta.inc \in Owner
         /\ meta'.dictHead = meta.dictHead /\ meta'.dictTail = meta.dictTail
         /\ meta'.free = meta.free /\ meta'.journal = meta.journal
         /\ owner'[meta.inc] = [pub |-> "Allocated", live |-> FALSE, root |-> ins.root,
                                head |-> NoBlock, page |-> meta'.ownerTail, doc |-> ins.doc]
         /\ \A o \in Owner : o # meta.inc => owner'[o] = owner[o]
         /\ ins'.owner = meta.inc /\ ins'.left = ins.doc.frags /\ ins'.head = ins.head
         /\ ins'.doc = ins.doc
         /\ pc = "reserve" /\ pc' = "fragment" /\ UNCHANGED <<dict, cpt>>
<1>0. TypeOK /\ ImageCurrent
  BY DEF StoreOK
<1>1. pc = "reserve"
  BY DEF Reserve, ReserveFirst, ReserveAppend, ReserveNext
<1>2. m = meta /\ m.inc <= MaxOwners /\ meta \in MetaRecord /\ ins \in InsertRecord
      /\ owner \in [Owner -> OwnerRecord]
  BY <1>0, <1>1 DEF ImageCurrent, MetapageCurrent, TypeOK
<1>3. meta.inc \in Owner
  BY <1>2, BoundAssumption DEF MetaRecord, Owner
<1>4. ASSUME NEW b, NEW h, AppendOwner(b, h)
      PROVE  /\ meta'.inc = meta.inc + 1 /\ meta'.ownerHead = h /\ meta'.ownerTail = b
             /\ meta'.dictHead = meta.dictHead /\ meta'.dictTail = meta.dictTail
             /\ meta'.free = meta.free /\ meta'.journal = meta.journal
             /\ owner'[meta.inc] = [pub |-> "Allocated", live |-> FALSE, root |-> ins.root,
                                    head |-> NoBlock, page |-> b, doc |-> ins.doc]
             /\ \A o \in Owner : o # meta.inc => owner'[o] = owner[o]
             /\ ins'.owner = meta.inc /\ ins'.left = ins.doc.frags /\ ins'.head = ins.head
             /\ ins'.doc = ins.doc
             /\ pc' = "fragment" /\ UNCHANGED <<dict, cpt>>
  <2>1. meta' = [meta EXCEPT !.inc = meta.inc + 1, !.ownerHead = h, !.ownerTail = b]
    BY <1>2, <1>4 DEF AppendOwner
  <2>2. ins' = [ins EXCEPT !.owner = meta.inc, !.left = ins.doc.frags]
    BY <1>2, <1>4 DEF AppendOwner
  <2>3. owner' = [owner EXCEPT ![meta.inc] =
           [pub |-> "Allocated", live |-> FALSE, root |-> ins.root,
            head |-> NoBlock, page |-> b, doc |-> ins.doc]]
    BY <1>2, <1>4 DEF AppendOwner
  <2>4. /\ meta'.inc = meta.inc + 1 /\ meta'.ownerHead = h /\ meta'.ownerTail = b
        /\ meta'.dictHead = meta.dictHead /\ meta'.dictTail = meta.dictTail
        /\ meta'.free = meta.free /\ meta'.journal = meta.journal
    BY <1>2, <2>1 DEF MetaRecord
  <2>5. /\ ins'.owner = meta.inc /\ ins'.left = ins.doc.frags /\ ins'.head = ins.head
        /\ ins'.doc = ins.doc
    BY <1>2, <2>2 DEF InsertRecord
  <2>6. /\ owner'[meta.inc] = [pub |-> "Allocated", live |-> FALSE, root |-> ins.root,
                                    head |-> NoBlock, page |-> b, doc |-> ins.doc]
        /\ \A o \in Owner : o # meta.inc => owner'[o] = owner[o]
    BY <1>2, <1>3, <2>3
  <2> QED BY <1>4, <2>4, <2>5, <2>6 DEF AppendOwner
<1>5. CASE ReserveFirst
  <2>1. AppendOwner(blk, blk) /\ page' = [page EXCEPT ![blk] = OwnersPage] /\ blk # NoBlock
        /\ meta.ownerHead = NoBlock
    BY <1>2, <1>5 DEF ReserveFirst
  <2>2. Puts(blk, OwnersPage)
    BY <1>0, <2>1, PutOne, BlockFacts
  <2> QED BY <1>1, <1>2, <1>3, <1>4, <2>1, <2>2
<1>6. CASE ReserveAppend
  <2>1. AppendOwner(meta.ownerTail, meta.ownerHead) /\ UNCHANGED page /\ meta.ownerHead # NoBlock
    BY <1>2, <1>6 DEF ReserveAppend
  <2> QED BY <1>1, <1>2, <1>3, <1>4, <2>1
<1>7. CASE ReserveNext
  <2>1. AppendOwner(blk, meta.ownerHead) /\ blk # NoBlock /\ meta.ownerHead # NoBlock
        /\ page' = [page EXCEPT ![blk] = OwnersPage, ![meta.ownerTail].next = blk]
        /\ page[meta.ownerTail].kind = "Owners"
    BY <1>2, <1>7 DEF ReserveNext
  <2>2. meta.ownerTail \in Block => PutsBehind(blk, OwnersPage, meta.ownerTail)
    BY <1>0, <2>1, PutLinked, BlockFacts
  <2> QED BY <1>1, <1>2, <1>3, <1>4, <2>1, <2>2
<1> QED BY <1>5, <1>6, <1>7 DEF Reserve

(* A fragment of the insertion is stored in b. *)
FragmentStored(b) ==
  /\ pc = "fragment" /\ ins.left > 0 /\ m = meta
  /\ Puts(b, FragmentPage(ins.owner, ins.left - 1, ins.head))
  /\ ins'.left = ins.left - 1 /\ ins'.head = b
  /\ ins'.owner = ins.owner /\ ins'.doc = ins.doc /\ ins'.todo = ins.todo
  /\ UNCHANGED <<dict, owner, pc, cpt>>

(* The two ways to a block for a fragment *)
LEMMA FragmentBatch ==
  ASSUME StoreOK
  PROVE  /\ StoreFragmentReused =>
              /\ meta.free # NoBlock /\ meta.free \in Block /\ page[meta.free].kind = "Free"
              /\ FragmentStored(meta.free)
              /\ meta' = [meta EXCEPT !.free = page[meta.free].next]
         /\ StoreFragmentAllocated =>
              /\ blk # NoBlock /\ FragmentStored(blk) /\ meta' = meta
<1>0. TypeOK /\ ImageCurrent /\ meta \in MetaRecord /\ ins \in InsertRecord
  BY DEF StoreOK, TypeOK
<1>1. ASSUME StoreFragmentReused
      PROVE  /\ meta.free # NoBlock /\ meta.free \in Block /\ page[meta.free].kind = "Free"
             /\ FragmentStored(meta.free)
             /\ meta' = [meta EXCEPT !.free = page[meta.free].next]
  <2>1. m = meta
    BY <1>0, <1>1 DEF StoreFragmentReused, ImageCurrent, MetapageCurrent
  <2>2. meta.free # NoBlock /\ meta.free \in Block /\ page[meta.free].kind = "Free"
    BY <1>0, <1>1, <2>1 DEF StoreFragmentReused, MetaRecord, BlockOrNone
  <2>3. /\ page' = [page EXCEPT ![meta.free] = FragmentPage(ins.owner, ins.left - 1, ins.head)]
        /\ ins' = [ins EXCEPT !.left = ins.left - 1, !.head = meta.free]
        /\ meta' = [meta EXCEPT !.free = page[meta.free].next]
        /\ pc = "fragment" /\ ins.left > 0 /\ UNCHANGED <<dict, owner, pc, cpt>>
    BY <1>1, <2>1 DEF StoreFragmentReused, StoredFragment
  <2>4. /\ ins'.left = ins.left - 1 /\ ins'.head = meta.free
        /\ ins'.owner = ins.owner /\ ins'.doc = ins.doc /\ ins'.todo = ins.todo
    BY <1>0, <2>3 DEF InsertRecord
  <2>5. Puts(meta.free, FragmentPage(ins.owner, ins.left - 1, ins.head))
    BY <1>0, <2>2, <2>3, PutOne
  <2> QED BY <2>1, <2>2, <2>3, <2>4, <2>5 DEF FragmentStored
<1>2. ASSUME StoreFragmentAllocated
      PROVE  blk # NoBlock /\ FragmentStored(blk) /\ meta' = meta
  <2>1. m = meta
    BY <1>0, <1>2 DEF StoreFragmentAllocated, FragmentNeedsBlock, ImageCurrent, MetapageCurrent
  <2>2. blk # NoBlock /\ blk \in Block
    BY <1>0, <1>2, BlockFacts DEF StoreFragmentAllocated
  <2>3. /\ page' = [page EXCEPT ![blk] = FragmentPage(ins.owner, ins.left - 1, ins.head)]
        /\ ins' = [ins EXCEPT !.left = ins.left - 1, !.head = blk]
        /\ pc = "fragment" /\ ins.left > 0 /\ UNCHANGED <<meta, dict, owner, pc, cpt>>
    BY <1>2 DEF StoreFragmentAllocated, FragmentNeedsBlock, StoredFragment
  <2>4. /\ ins'.left = ins.left - 1 /\ ins'.head = blk
        /\ ins'.owner = ins.owner /\ ins'.doc = ins.doc /\ ins'.todo = ins.todo
    BY <1>0, <2>3 DEF InsertRecord
  <2>5. Puts(blk, FragmentPage(ins.owner, ins.left - 1, ins.head))
    BY <1>0, <2>2, <2>3, PutOne
  <2> QED BY <2>1, <2>2, <2>3, <2>4, <2>5 DEF FragmentStored
<1> QED BY <1>1, <1>2

(* The entry of t becomes e and that of no other term changes. *)
EntryPut(t, e) == dict'[t] = e /\ \A u \in Term : u # t => dict'[u] = dict[u]

(* What every form of link_term() has in common. *)
TermLinked(t) ==
  /\ pc = "link" /\ t \in ins.todo /\ m = meta
  /\ ins'.todo = ins.todo \ {t} /\ ins'.owner = ins.owner /\ ins'.doc = ins.doc
  /\ UNCHANGED <<owner, pc, cpt>>
  /\ meta'.inc = meta.inc /\ meta'.ownerHead = meta.ownerHead /\ meta'.ownerTail = meta.ownerTail
  /\ meta'.free = meta.free /\ meta'.journal = meta.journal

(* The forms of link_term() by what they write: a new dictionary page, an  *)
(* entry, a new posting page, or a reference on the last posting page.     *)
LEMMA LinkBatch ==
  ASSUME StoreOK, NEW t \in Term
  PROVE  /\ LinkFirstTerm(t) =>
              /\ dict[t].page = NoBlock /\ meta.dictHead = NoBlock /\ blk # NoBlock
              /\ Puts(blk, DictionaryPage) /\ EntryPut(t, NewEntry(blk, ins.owner))
              /\ meta'.dictHead = blk /\ meta'.dictTail = blk
              /\ TermLinked(t)
         /\ LinkNewTerm(t) =>
              /\ dict[t].page = NoBlock /\ meta.dictHead # NoBlock
              /\ UNCHANGED <<page, meta>> /\ EntryPut(t, NewEntry(meta.dictTail, ins.owner))
              /\ TermLinked(t)
         /\ LinkNewTermNextPage(t) =>
              /\ dict[t].page = NoBlock /\ meta.dictHead # NoBlock /\ blk # NoBlock
              /\ page[meta.dictTail].kind = "Dictionary"
              /\ meta.dictTail \in Block => PutsBehind(blk, DictionaryPage, meta.dictTail)
              /\ EntryPut(t, NewEntry(blk, ins.owner))
              /\ meta'.dictHead = meta.dictHead /\ meta'.dictTail = blk
              /\ TermLinked(t)
         /\ LinkPromote(t) =>
              /\ dict[t].page # NoBlock /\ dict[t].inline = 1 /\ blk # NoBlock
              /\ Puts(blk, PostingsPage(t, {dict[t].second, ins.owner}))
              /\ EntryPut(t, Promoted(dict[t], blk)) /\ meta' = meta
              /\ TermLinked(t)
         /\ LinkInline(t) =>
              /\ dict[t].page # NoBlock /\ dict[t].inline # 1 /\ dict[t].head = NoBlock
              /\ UNCHANGED <<page, meta>> /\ EntryPut(t, WithSecond(dict[t], ins.owner))
              /\ TermLinked(t)
         /\ LinkFirstPosting(t) =>
              /\ dict[t].page # NoBlock /\ dict[t].inline # 1 /\ dict[t].head = NoBlock
              /\ blk # NoBlock /\ Puts(blk, PostingsPage(t, {ins.owner}))
              /\ EntryPut(t, WithChain(dict[t], blk, blk)) /\ meta' = meta
              /\ TermLinked(t)
         /\ LinkAppend(t) =>
              /\ dict[t].page # NoBlock /\ dict[t].inline # 1 /\ dict[t].head # NoBlock
              /\ PostingTail(t)
              /\ page' = [page EXCEPT ![dict[t].tail].refs = @ \cup {ins.owner}]
              /\ UNCHANGED <<meta, dict>>
              /\ TermLinked(t)
         /\ LinkNextPage(t) =>
              /\ dict[t].page # NoBlock /\ dict[t].inline # 1 /\ dict[t].head # NoBlock
              /\ PostingTail(t) /\ blk # NoBlock
              /\ dict[t].tail \in Block =>
                   PutsBehind(blk, PostingsPage(t, {ins.owner}), dict[t].tail)
              /\ EntryPut(t, WithChain(dict[t], dict[t].head, blk)) /\ meta' = meta
              /\ TermLinked(t)
<1>0. TypeOK /\ ImageCurrent /\ meta \in MetaRecord /\ ins \in InsertRecord
      /\ dict \in [Term -> TermRecord]
  BY DEF StoreOK, TypeOK
<1>1. ASSUME LinkReady(t)
      PROVE  /\ pc = "link" /\ t \in ins.todo /\ m = meta
             /\ LinkNeedsBlock(t) => blk # NoBlock /\ blk \in Block
  BY <1>0, <1>1, BlockFacts DEF LinkReady, ImageCurrent, MetapageCurrent
<1>2. ASSUME Linked(t), LinkReady(t),
             \/ meta' = meta
             \/ \E h, l : meta' = [meta EXCEPT !.dictHead = h, !.dictTail = l]
             \/ \E l : meta' = [meta EXCEPT !.dictTail = l]
      PROVE  TermLinked(t)
  <2>1. ins'.todo = ins.todo \ {t} /\ ins'.owner = ins.owner /\ ins'.doc = ins.doc
    BY <1>0, <1>2 DEF Linked, InsertRecord
  <2>2. /\ meta'.inc = meta.inc /\ meta'.ownerHead = meta.ownerHead
        /\ meta'.ownerTail = meta.ownerTail
        /\ meta'.free = meta.free /\ meta'.journal = meta.journal
    BY <1>0, <1>2 DEF MetaRecord
  <2> QED BY <1>1, <1>2, <2>1, <2>2 DEF TermLinked, Linked
<1>3. ASSUME NEW e, dict' = [dict EXCEPT ![t] = e] PROVE EntryPut(t, e)
  BY <1>0, <1>3 DEF EntryPut
<1>4. ASSUME LinkFirstTerm(t)
      PROVE  /\ dict[t].page = NoBlock /\ meta.dictHead = NoBlock /\ blk # NoBlock
             /\ Puts(blk, DictionaryPage) /\ EntryPut(t, NewEntry(blk, ins.owner))
             /\ meta'.dictHead = blk /\ meta'.dictTail = blk
             /\ TermLinked(t)
  <2>1. LinkReady(t) /\ Linked(t) /\ ~Known(t) /\ m.dictHead = NoBlock /\ m = meta
    BY <1>1, <1>4 DEF LinkFirstTerm
  <2>2. blk # NoBlock /\ blk \in Block
    BY <1>1, <2>1 DEF LinkNeedsBlock
  <2>3. /\ page' = [page EXCEPT ![blk] = DictionaryPage]
        /\ dict' = [dict EXCEPT ![t] = NewEntry(blk, ins.owner)]
        /\ meta' = [meta EXCEPT !.dictHead = blk, !.dictTail = blk]
    BY <1>4, <2>1 DEF LinkFirstTerm
  <2>4. meta'.dictHead = blk /\ meta'.dictTail = blk
    BY <1>0, <2>3 DEF MetaRecord
  <2>5. Puts(blk, DictionaryPage)
    BY <1>0, <2>2, <2>3, PutOne
  <2> QED BY <1>2, <1>3, <2>1, <2>2, <2>3, <2>4, <2>5 DEF Known
<1>5. ASSUME LinkNewTerm(t)
      PROVE  /\ dict[t].page = NoBlock /\ meta.dictHead # NoBlock
             /\ UNCHANGED <<page, meta>> /\ EntryPut(t, NewEntry(meta.dictTail, ins.owner))
             /\ TermLinked(t)
  <2>1. LinkReady(t) /\ Linked(t) /\ ~Known(t) /\ m.dictHead # NoBlock /\ m = meta
    BY <1>1, <1>5 DEF LinkNewTerm
  <2>2. UNCHANGED <<page, meta>> /\ dict' = [dict EXCEPT ![t] = NewEntry(meta.dictTail, ins.owner)]
    BY <1>5, <2>1 DEF LinkNewTerm
  <2> QED BY <1>2, <1>3, <2>1, <2>2 DEF Known
<1>6. ASSUME LinkNewTermNextPage(t)
      PROVE  /\ dict[t].page = NoBlock /\ meta.dictHead # NoBlock /\ blk # NoBlock
             /\ page[meta.dictTail].kind = "Dictionary"
             /\ meta.dictTail \in Block => PutsBehind(blk, DictionaryPage, meta.dictTail)
             /\ EntryPut(t, NewEntry(blk, ins.owner))
             /\ meta'.dictHead = meta.dictHead /\ meta'.dictTail = blk
             /\ TermLinked(t)
  <2>1. LinkReady(t) /\ Linked(t) /\ ~Known(t) /\ m.dictHead # NoBlock /\ m = meta
        /\ DictionaryTailFull
    BY <1>1, <1>6 DEF LinkNewTermNextPage
  <2>2. blk # NoBlock /\ blk \in Block /\ page[blk].kind = "Zero"
    BY <1>0, <1>1, <2>1, BlockFacts DEF LinkNeedsBlock
  <2>3. /\ page[meta.dictTail].kind = "Dictionary"
        /\ page' = [page EXCEPT ![blk] = DictionaryPage, ![meta.dictTail].next = blk]
        /\ dict' = [dict EXCEPT ![t] = NewEntry(blk, ins.owner)]
        /\ meta' = [meta EXCEPT !.dictTail = blk]
    BY <1>6, <2>1 DEF LinkNewTermNextPage
  <2>4. meta'.dictHead = meta.dictHead /\ meta'.dictTail = blk
    BY <1>0, <2>3 DEF MetaRecord
  <2>5. meta.dictTail \in Block => PutsBehind(blk, DictionaryPage, meta.dictTail)
    BY <1>0, <2>2, <2>3, PutLinked
  <2> QED BY <1>2, <1>3, <2>1, <2>2, <2>3, <2>4, <2>5 DEF Known
<1>7. ASSUME LinkPromote(t)
      PROVE  /\ dict[t].page # NoBlock /\ dict[t].inline = 1 /\ blk # NoBlock
             /\ Puts(blk, PostingsPage(t, {dict[t].second, ins.owner}))
             /\ EntryPut(t, Promoted(dict[t], blk)) /\ meta' = meta
             /\ TermLinked(t)
  <2>1. LinkReady(t) /\ Linked(t) /\ Known(t) /\ dict[t].inline = 1
    BY <1>7 DEF LinkPromote
  <2>2. blk # NoBlock /\ blk \in Block
    BY <1>1, <2>1 DEF LinkNeedsBlock
  <2>3. /\ page' = [page EXCEPT ![blk] = PostingsPage(t, {dict[t].second, ins.owner})]
        /\ dict' = [dict EXCEPT ![t] = Promoted(dict[t], blk)] /\ meta' = meta
    BY <1>7 DEF LinkPromote
  <2>4. Puts(blk, PostingsPage(t, {dict[t].second, ins.owner}))
    BY <1>0, <2>2, <2>3, PutOne
  <2> QED BY <1>2, <1>3, <2>1, <2>2, <2>3, <2>4 DEF Known
<1>8. ASSUME LinkInline(t)
      PROVE  /\ dict[t].page # NoBlock /\ dict[t].inline # 1 /\ dict[t].head = NoBlock
             /\ UNCHANGED <<page, meta>> /\ EntryPut(t, WithSecond(dict[t], ins.owner))
             /\ TermLinked(t)
  <2>1. LinkReady(t) /\ Linked(t) /\ Known(t) /\ dict[t].inline # 1 /\ dict[t].head = NoBlock
        /\ UNCHANGED <<page, meta>> /\ dict' = [dict EXCEPT ![t] = WithSecond(dict[t], ins.owner)]
    BY <1>8 DEF LinkInline
  <2> QED BY <1>2, <1>3, <2>1 DEF Known
<1>9. ASSUME LinkFirstPosting(t)
      PROVE  /\ dict[t].page # NoBlock /\ dict[t].inline # 1 /\ dict[t].head = NoBlock
             /\ blk # NoBlock /\ Puts(blk, PostingsPage(t, {ins.owner}))
             /\ EntryPut(t, WithChain(dict[t], blk, blk)) /\ meta' = meta
             /\ TermLinked(t)
  <2>1. LinkReady(t) /\ Linked(t) /\ Known(t) /\ dict[t].inline # 1 /\ dict[t].head = NoBlock
        /\ ~Packed
    BY <1>9 DEF LinkFirstPosting
  <2>2. blk # NoBlock /\ blk \in Block
    BY <1>1, <2>1 DEF LinkNeedsBlock
  <2>3. /\ page' = [page EXCEPT ![blk] = PostingsPage(t, {ins.owner})]
        /\ dict' = [dict EXCEPT ![t] = WithChain(dict[t], blk, blk)] /\ meta' = meta
    BY <1>9 DEF LinkFirstPosting
  <2>4. Puts(blk, PostingsPage(t, {ins.owner}))
    BY <1>0, <2>2, <2>3, PutOne
  <2> QED BY <1>2, <1>3, <2>1, <2>2, <2>3, <2>4 DEF Known
<1>10. ASSUME LinkAppend(t)
       PROVE  /\ dict[t].page # NoBlock /\ dict[t].inline # 1 /\ dict[t].head # NoBlock
              /\ PostingTail(t)
              /\ page' = [page EXCEPT ![dict[t].tail].refs = @ \cup {ins.owner}]
              /\ UNCHANGED <<meta, dict>>
              /\ TermLinked(t)
  BY <1>2, <1>10 DEF LinkAppend, Known
<1>11. ASSUME LinkNextPage(t)
       PROVE  /\ dict[t].page # NoBlock /\ dict[t].inline # 1 /\ dict[t].head # NoBlock
              /\ PostingTail(t) /\ blk # NoBlock
              /\ dict[t].tail \in Block =>
                   PutsBehind(blk, PostingsPage(t, {ins.owner}), dict[t].tail)
              /\ EntryPut(t, WithChain(dict[t], dict[t].head, blk)) /\ meta' = meta
              /\ TermLinked(t)
  <2>1. LinkReady(t) /\ Linked(t) /\ Known(t) /\ dict[t].inline # 1 /\ dict[t].head # NoBlock
        /\ PostingTailFull(t) /\ PostingTail(t)
    BY <1>11 DEF LinkNextPage
  <2>2. blk # NoBlock /\ blk \in Block /\ page[blk].kind = "Zero"
    BY <1>0, <1>1, <2>1, BlockFacts DEF LinkNeedsBlock
  <2>3. /\ page' = [page EXCEPT ![blk] = PostingsPage(t, {ins.owner}), ![dict[t].tail].next = blk]
        /\ dict' = [dict EXCEPT ![t] = WithChain(dict[t], dict[t].head, blk)] /\ meta' = meta
    BY <1>11 DEF LinkNextPage
  <2>4. dict[t].tail \in Block => PutsBehind(blk, PostingsPage(t, {ins.owner}), dict[t].tail)
    BY <1>0, <2>1, <2>2, <2>3, PutLinked DEF PostingTail, PostingKind
  <2> QED BY <1>2, <1>3, <2>1, <2>2, <2>3, <2>4 DEF Known
<1> QED BY <1>4, <1>5, <1>6, <1>7, <1>8, <1>9, <1>10, <1>11

MetaKept ==
  /\ meta'.inc = meta.inc
  /\ meta'.ownerHead = meta.ownerHead /\ meta'.ownerTail = meta.ownerTail
  /\ meta'.dictHead = meta.dictHead /\ meta'.dictTail = meta.dictTail

(* persist_output() writes the references of chunk to page b and hands the *)
(* page to the journal.                                                    *)
Persisted(b, chunk) ==
  /\ pc = "rewrite" /\ cpt.pending # {} /\ m = meta /\ MetaKept
  /\ meta.journal.phase # "Retiring"
  /\ LET out == SealedPage(cpt.term, chunk, cpt.mode = "DirectTid")
     IN IF meta.journal.phase = "None"
        THEN Puts(b, out) /\ meta'.journal.head = b
        ELSE /\ page[meta.journal.tail].kind \in {"Sealed", "Direct"}
             /\ meta.journal.tail \in Block => PutsBehind(b, out, meta.journal.tail)
             /\ meta'.journal.head = meta.journal.head
  /\ meta'.journal.phase = "Building" /\ meta'.journal.tail = b
  /\ cpt'.pending = cpt.pending \ chunk /\ cpt'.term = cpt.term
  /\ cpt'.source = cpt.source /\ cpt'.boundary = cpt.boundary
  /\ UNCHANGED <<dict, owner, ins, pc>>

Chunk == FirstRefs(cpt.pending, SealedPerPage)

(* What any of the two ways to an output page does *)
LEMMA PersistOne ==
  ASSUME StoreOK, NEW b \in Block, NEW free \in BlockOrNone, PersistOutput(b, free),
         page[b].kind \in {"Zero", "Free"}
  PROVE  Persisted(b, Chunk) /\ meta'.free = free
<1>0. TypeOK /\ ImageCurrent /\ meta \in MetaRecord /\ cpt \in CompactRecord
  BY DEF StoreOK, TypeOK
<1> DEFINE out == SealedPage(cpt.term, Chunk, cpt.mode = "DirectTid")
<1>1. m = meta /\ pc = "rewrite" /\ cpt.pending # {} /\ meta.journal.phase # "Retiring"
  BY <1>0 DEF PersistOutput, ImageCurrent, MetapageCurrent
<1>2. /\ meta' = [meta EXCEPT !.free = free,
             !.journal = [phase |-> "Building", tail |-> b,
                          head |-> IF meta.journal.phase = "None" THEN b ELSE meta.journal.head]]
      /\ page' = IF meta.journal.phase = "None" THEN [page EXCEPT ![b] = out]
                 ELSE [page EXCEPT ![b] = out, ![meta.journal.tail].next = b]
      /\ cpt' = [cpt EXCEPT !.pending = cpt.pending \ Chunk]
      /\ UNCHANGED <<dict, owner, ins, pc>>
      /\ meta.journal.phase # "None" => page[meta.journal.tail].kind \in {"Sealed", "Direct"}
  BY <1>1 DEF PersistOutput, Chunk
<1>3. /\ MetaKept /\ meta'.free = free
      /\ meta'.journal.phase = "Building" /\ meta'.journal.tail = b
      /\ meta'.journal.head = IF meta.journal.phase = "None" THEN b ELSE meta.journal.head
  BY <1>0, <1>2 DEF MetaKept, MetaRecord
<1>4. /\ cpt'.pending = cpt.pending \ Chunk /\ cpt'.term = cpt.term
      /\ cpt'.source = cpt.source /\ cpt'.boundary = cpt.boundary
  BY <1>0, <1>2 DEF CompactRecord
<1>5. meta.journal.phase = "None" => Puts(b, out)
  BY <1>0, <1>2, PutOne
<1>6. meta.journal.phase # "None" /\ meta.journal.tail \in Block =>
        PutsBehind(b, out, meta.journal.tail)
  <2>1. meta.journal.phase # "None" => b # meta.journal.tail
    BY <1>2
  <2> QED BY <1>0, <1>2, <2>1, PutLinked
<1> QED BY <1>1, <1>2, <1>3, <1>4, <1>5, <1>6 DEF Persisted

(* An output page comes from the free list or from the end of the relation. *)
LEMMA PersistBatch ==
  ASSUME StoreOK
  PROVE  /\ PersistReused =>
              /\ meta.free \in Block /\ page[meta.free].kind = "Free"
              /\ Persisted(meta.free, Chunk) /\ meta'.free = page[meta.free].next
         /\ PersistAllocated =>
              /\ blk # NoBlock /\ blk \in Block /\ page[blk].kind = "Zero"
              /\ meta.free = NoBlock /\ Persisted(blk, Chunk) /\ meta'.free = meta.free
<1>0. /\ TypeOK /\ ImageCurrent /\ meta \in MetaRecord
      /\ page \in [Block -> PageRecord] /\ NoBlock \in BlockOrNone
  BY DEF StoreOK, TypeOK, BlockOrNone
<1>1. ASSUME PersistReused
      PROVE  /\ meta.free \in Block /\ page[meta.free].kind = "Free"
             /\ Persisted(meta.free, Chunk) /\ meta'.free = page[meta.free].next
  <2>1. m = meta
    BY <1>0, <1>1 DEF PersistReused, PersistOutput, ImageCurrent, MetapageCurrent
  <2>2. meta.free \in Block /\ page[meta.free].kind = "Free"
    BY <1>0, <1>1, <2>1 DEF PersistReused, MetaRecord, BlockOrNone
  <2>3. page[meta.free].next \in BlockOrNone
    BY <1>0, <2>2 DEF PageRecord
  <2>4. PersistOutput(meta.free, page[meta.free].next)
    BY <1>1, <2>1 DEF PersistReused
  <2> QED BY <2>2, <2>3, <2>4, PersistOne
<1>2. ASSUME PersistAllocated
      PROVE  /\ blk # NoBlock /\ blk \in Block /\ page[blk].kind = "Zero"
             /\ meta.free = NoBlock /\ Persisted(blk, Chunk) /\ meta'.free = meta.free
  <2>1. m = meta
    BY <1>0, <1>2 DEF PersistAllocated, PersistOutput, ImageCurrent, MetapageCurrent
  <2>2. blk # NoBlock /\ blk \in Block /\ page[blk].kind = "Zero" /\ meta.free = NoBlock
        /\ PersistOutput(blk, NoBlock)
    BY <1>0, <1>2, <2>1, BlockFacts DEF PersistAllocated
  <2> QED BY <1>0, <2>2, PersistOne
<1> QED BY <1>1, <1>2

(* The replacement *)
Replaced ==
  /\ pc = "rewrite" /\ pc' = "recover" /\ cpt.pending = {} /\ m = meta /\ cpt.term \in Term
  /\ MetaKept /\ meta'.free = meta.free
  /\ meta'.journal = [phase |-> "Retiring", head |-> cpt.source, tail |-> dict[cpt.term].tail]
  /\ EntryValid(Replacement) /\ EntryPut(cpt.term, Replacement)
  /\ IF cpt.boundary = NoBlock THEN UNCHANGED page
     ELSE /\ page[cpt.boundary].kind = "Sealed" /\ page[cpt.boundary].next = cpt.source
          /\ Turned(cpt.boundary, NewHead)
          /\ cpt.boundary \in Block /\ \A d \in Block : d # cpt.boundary => page'[d] = page[d]
  /\ UNCHANGED <<owner, ins>>

(* publish_replacement() puts the rewritten pages in the place of the source. *)
LEMMA ReplaceBatch ==
  ASSUME StoreOK, PublishReplacement
  PROVE  Replaced
<1>0. TypeOK /\ ImageCurrent /\ meta \in MetaRecord /\ cpt \in CompactRecord
      /\ dict \in [Term -> TermRecord]
  BY DEF StoreOK, TypeOK
<1>1. pc = "rewrite" /\ m = meta /\ cpt.term \in Term
  BY <1>0 DEF PublishReplacement, ImageCurrent, MetapageCurrent
<1>2. /\ meta' = [meta EXCEPT !.journal = [phase |-> "Retiring", head |-> cpt.source,
                                           tail |-> dict[cpt.term].tail]]
      /\ dict' = [dict EXCEPT ![cpt.term] = Replacement]
      /\ page' = IF cpt.boundary # NoBlock
                 THEN [page EXCEPT ![cpt.boundary].next = NewHead] ELSE page
      /\ cpt.pending = {} /\ pc' = "recover" /\ UNCHANGED <<owner, ins>>
      /\ EntryValid(Replacement)
      /\ cpt.boundary # NoBlock =>
           page[cpt.boundary].kind = "Sealed" /\ page[cpt.boundary].next = cpt.source
  BY <1>1 DEF PublishReplacement
<1>3. /\ MetaKept /\ meta'.free = meta.free
      /\ meta'.journal = [phase |-> "Retiring", head |-> cpt.source, tail |-> dict[cpt.term].tail]
  BY <1>0, <1>2 DEF MetaKept, MetaRecord
<1>4. EntryPut(cpt.term, Replacement)
  BY <1>0, <1>1, <1>2 DEF EntryPut
<1>5. CASE cpt.boundary = NoBlock
  BY <1>1, <1>2, <1>3, <1>4, <1>5 DEF Replaced
<1>6. CASE cpt.boundary # NoBlock
  <2>1. cpt.boundary \in Block
    BY <1>0, <1>6 DEF CompactRecord, BlockOrNone
  <2>2. Turned(cpt.boundary, NewHead) /\ \A d \in Block : d # cpt.boundary => page'[d] = page[d]
    BY <1>0, <1>2, <1>6, <2>1, TurnOne
  <2> QED BY <1>1, <1>2, <1>3, <1>4, <1>6, <2>1, <2>2 DEF Replaced
<1> QED BY <1>5, <1>6

(* recover(): the head of the journal, or the first two pages of it, go to *)
(* the free list.                                                          *)
FreedOne(b) ==
  /\ b = meta.journal.head /\ b = meta.journal.tail
  /\ page[b].kind \in PostingKind /\ Puts(b, FreePage(meta.free))
  /\ meta'.journal = NoJournal /\ meta'.free = b

FreedTwo(b, c) ==
  /\ b = meta.journal.head /\ b # meta.journal.tail /\ c = page[b].next
  /\ b \in Block /\ c \in Block /\ b # c
  /\ page[b].kind \in PostingKind /\ page[c].kind \in PostingKind
  /\ page'[b] = FreePage(meta.free) /\ page'[c] = FreePage(b)
  /\ \A d \in Block : d # b /\ d # c => page'[d] = page[d]
  /\ IF c = meta.journal.tail THEN meta'.journal = NoJournal
     ELSE /\ meta'.journal.phase = meta.journal.phase
          /\ meta'.journal.head = page[c].next /\ meta'.journal.tail = meta.journal.tail
  /\ meta'.free = c

(* A batch of recover() frees one or two pages of the journal. *)
LEMMA RecoverBatch ==
  ASSUME StoreOK, Recover
  PROVE  /\ \E b \in Block : FreedOne(b) \/ \E c \in Block : FreedTwo(b, c)
         /\ meta.journal.phase # "None" /\ MetaKept
         /\ pc = "recover" /\ UNCHANGED <<dict, owner, pc, ins, cpt>>
<1>0. TypeOK /\ meta \in MetaRecord /\ page \in [Block -> PageRecord]
  BY DEF StoreOK, TypeOK
<1>1. /\ meta.journal.phase # "None" /\ pc = "recover" /\ UNCHANGED <<dict, owner, pc, ins, cpt>>
      /\ meta.journal.head # NoBlock /\ page[meta.journal.head].kind \in PostingKind
  BY DEF Recover, RecoverOne, RecoverTwo, RecoverAccepts
<1>2. meta.journal.head \in Block /\ meta.journal \in Journal
  BY <1>0, <1>1 DEF MetaRecord, Journal, BlockOrNone
<1>3. CASE RecoverOne
  <2>1. /\ meta.journal.head = meta.journal.tail
        /\ meta' = [meta EXCEPT !.journal = NoJournal, !.free = meta.journal.head]
        /\ page' = [page EXCEPT ![meta.journal.head] = FreePage(meta.free)]
    BY <1>3 DEF RecoverOne
  <2>2. MetaKept /\ meta'.journal = NoJournal /\ meta'.free = meta.journal.head
    BY <1>0, <2>1 DEF MetaKept, MetaRecord
  <2>3. Puts(meta.journal.head, FreePage(meta.free))
    BY <1>0, <1>2, <2>1, PutOne
  <2> QED BY <1>1, <1>2, <2>1, <2>2, <2>3 DEF FreedOne
<1>4. CASE RecoverTwo
  <2> DEFINE b == meta.journal.head
             c == page[b].next
  <2>1. /\ b # meta.journal.tail /\ c # NoBlock /\ c # b /\ page[c].kind \in PostingKind
        /\ meta' = [meta EXCEPT !.free = c,
                      !.journal = IF c = meta.journal.tail THEN NoJournal
                                  ELSE [meta.journal EXCEPT !.head = page[c].next]]
        /\ page' = [page EXCEPT ![b] = FreePage(meta.free), ![c] = FreePage(b)]
    BY <1>4 DEF RecoverTwo
  <2>2. c \in Block
    BY <1>0, <1>2, <2>1 DEF PageRecord, BlockOrNone
  <2> HIDE DEF c
  <2>3. /\ page'[b] = FreePage(meta.free) /\ page'[c] = FreePage(b)
        /\ \A d \in Block : d # b /\ d # c => page'[d] = page[d]
    BY <1>0, <1>2, <2>1, <2>2
  <2>4. /\ MetaKept /\ meta'.free = c
        /\ meta'.journal = IF c = meta.journal.tail THEN NoJournal
                           ELSE [meta.journal EXCEPT !.head = page[c].next]
    BY <1>0, <2>1 DEF MetaKept, MetaRecord
  <2>5. c # meta.journal.tail =>
          /\ meta'.journal.phase = meta.journal.phase
          /\ meta'.journal.head = page[c].next /\ meta'.journal.tail = meta.journal.tail
    BY <1>2, <2>4 DEF Journal
  <2>6. FreedTwo(b, c)
    BY <1>1, <1>2, <2>1, <2>2, <2>3, <2>4, <2>5 DEF FreedTwo, c
  <2> QED BY <1>1, <1>2, <2>2, <2>4, <2>6
<1> QED BY <1>3, <1>4 DEF Recover

(* reclaim() of a fragment without a live owner or of an orphan *)
Reclaimed(b) ==
  /\ Puts(b, FreePage(meta.free)) /\ MetaKept /\ meta'.free = b /\ meta'.journal = meta.journal
  /\ pc \in {"sweep", "zeros"} /\ UNCHANGED <<dict, owner, pc, ins, cpt>>

(* The batches of reclaim() in the sweep and in the pass over zero pages. *)
LEMMA ReclaimBatch ==
  ASSUME StoreOK, NEW b \in Block
  PROVE  /\ SweepFragment(b) => Reclaimed(b) /\ DeadFragment(b)
         /\ ReclaimZero(b) => Reclaimed(b) /\ page[b].kind = "Zero"
<1>0. TypeOK /\ ImageCurrent /\ meta \in MetaRecord
  BY DEF StoreOK, TypeOK
<1>1. ASSUME Reclaim(b), pc \in {"sweep", "zeros"} PROVE Reclaimed(b)
  <2>1. m = meta
    BY <1>0, <1>1 DEF ImageCurrent, MetapageCurrent
  <2>2. /\ meta' = [meta EXCEPT !.free = b] /\ page' = [page EXCEPT ![b] = FreePage(meta.free)]
        /\ UNCHANGED <<dict, owner, pc, ins, cpt>>
    BY <1>1, <2>1 DEF Reclaim
  <2>3. MetaKept /\ meta'.free = b /\ meta'.journal = meta.journal
    BY <1>0, <2>2 DEF MetaKept, MetaRecord
  <2>4. Puts(b, FreePage(meta.free))
    BY <1>0, <2>2, PutOne
  <2> QED BY <1>1, <2>2, <2>3, <2>4 DEF Reclaimed
<1> QED BY <1>1 DEF SweepFragment, SweepNext, ReclaimZero, ZeroBlocks

(* A step that writes neither pages, but for coordinates, nor the metapage *)
(* nor an entry.                                                           *)
PlainStep == (\A b \in Block : Same(b)) /\ UNCHANGED <<meta, dict>>

(* Unchanged pages are the same. *)
LEMMA UnchangedSame ==
  ASSUME UNCHANGED page
  PROVE  \A b \in Block : Same(b)
BY DEF Same, Turned

(* The steps of the model by what they write *)
LEMMA StepClasses ==
  ASSUME StoreOK, [Next]_vars
  PROVE  \/ PlainStep \/ Allocate \/ Reserve
         \/ StoreFragmentReused \/ StoreFragmentAllocated
         \/ \E t \in Term : LinkTerm(t) \/ CompactInline(t)
         \/ PersistReused \/ PersistAllocated \/ PublishReplacement \/ Recover
         \/ \E b \in Block : SweepFragment(b) \/ ReclaimZero(b)
<1>1. CASE UNCHANGED vars
  BY <1>1, UnchangedSame DEF vars, PlainStep
<1>2. ASSUME UNCHANGED <<page, meta, dict>> PROVE PlainStep
  BY <1>2, UnchangedSame DEF PlainStep
<1>3. CASE ExtendFails \/ FailedCleanup \/ Interrupt \/ \E r \in Root : HeapDelete(r)
  BY <1>2, <1>3 DEF ExtendFails, FailedCleanup, Interrupt, Abandoned, HeapDelete
<1>4. CASE Starts
  BY <1>2, <1>4 DEF Starts, VacuumBegin, InsertBegin, CompactBegin
<1>5. CASE PayloadReady \/ Publish
  BY <1>2, <1>5 DEF PayloadReady, Publish
<1>6. CASE \/ \E t \in Term : CompactSkip(t) \/ RewriteBegin(t)
           \/ PublishRejected \/ RecoverEndCompact \/ CompactEnd
  BY <1>2, <1>6 DEF CompactSkip, RewriteBegin, PublishRejected, RecoverEndCompact, CompactEnd
<1>7. CASE RecoverEndVacuum \/ RemoveOwners \/ SweepEnd \/ VacuumEnd
  BY <1>2, <1>7 DEF RecoverEndVacuum, RemoveOwners, SweepEnd, VacuumEnd
<1>8. ASSUME NEW b \in Block, SweepDirect(b) PROVE PlainStep
  <2>1. page \in [Block -> PageRecord]
    BY DEF StoreOK, TypeOK
  <2>2. /\ page' = [page EXCEPT ![b].roots = {o \in page[b].roots : Live(o)}]
        /\ UNCHANGED <<meta, dict>>
    BY <1>8 DEF SweepDirect
  <2>3. \A c \in Block : Same(c)
    BY <2>1, <2>2 DEF Same, Turned, PageRecord
  <2> QED BY <2>2, <2>3 DEF PlainStep
<1> QED BY <1>1, <1>3, <1>4, <1>5, <1>6, <1>7, <1>8
        DEF Next, Step, Insert, Compaction, VacuumPass, Reserve, Starts

-----------------------------------------------------------------------------
(* Links and chains *)

(* Blocks are not NoBlock, links are those of the pages. *)
LEMMA LinkFacts2 ==
  ASSUME TypeOK
  PROVE  /\ 0 \notin Block /\ NoBlock = 0 /\ NoBlock \notin Block
         /\ Link \in [Block -> BlockOrNone]
         /\ \A b \in Block : Link[b] = page[b].next
         /\ \A k : Kind(k) \subseteq Block /\ 0 \notin Kind(k)
         /\ Posts \subseteq Block /\ 0 \notin Posts
         /\ \A t : Postings(t) \subseteq Posts
         /\ \A o : Fragments(o) \subseteq Block /\ 0 \notin Fragments(o)
BY BoundAssumption DEF TypeOK, PageRecord, Block, NoBlock, Link, Kind, Posts, Postings, Fragments

(* The links of the next state *)
LEMMA NextLinks == \A b \in Block : Link'[b] = page'[b].next
BY DEF Link

(* A chain of pages whose links a step keeps *)
LEMMA ChainKept ==
  ASSUME NEW S \in SUBSET Block, NEW h, NEW t, Chained(Link, S, h, t),
         \A b \in S : page'[b].next = page[b].next
  PROVE  Chained(Link', S, h, t)
<1>1. \A b \in S : Link'[b] = Link[b]
  BY DEF Link
<1> HIDE DEF Link
<1>2. ASSUME NEW new, \A b \in S : new[b] = Link[b] PROVE Chained(new, S, h, t)
  BY <1>2, ChainedSame
<1> QED BY <1>1, <1>2

(* A chain of a kind that a step does not touch *)
LEMMA KindKept ==
  ASSUME NEW K, Touches(K), NEW k, k \notin K, NEW h, NEW t, Chained(Link, Kind(k), h, t)
  PROVE  Chained(Link', Kind(k)', h, t)
<1>1. Kind(k)' = Kind(k) /\ \A b \in Kind(k) : page'[b].next = page[b].next
  BY Untouched DEF Same, Turned
<1>2. Kind(k) \in SUBSET Block
  BY DEF Kind
<1> DEFINE S == Kind(k)
<1> HIDE DEF S
<1>3. PICK T : T = Kind(k)
  OBVIOUS
<1>4. Chained(Link', T, h, t)
  BY <1>1, <1>2, <1>3, ChainKept
<1>5. Kind(k)' = T
  BY <1>1, <1>3
<1> QED BY <1>4, <1>5

(* Some page list ends where the metapage says. *)
LEMMA TailFacts ==
  ASSUME StoreOK, OwnersChained, DictChained
  PROVE  /\ meta.ownerHead # NoBlock => meta.ownerTail \in Kind("Owners")
         /\ meta.ownerHead = NoBlock => Kind("Owners") = {} /\ meta.ownerTail = NoBlock
         /\ meta.dictHead # NoBlock => meta.dictTail \in Kind("Dictionary")
         /\ meta.dictHead = NoBlock => Kind("Dictionary") = {} /\ meta.dictTail = NoBlock
<1>1. TypeOK
  BY DEF StoreOK
<1>2. /\ 0 \notin Kind("Owners") /\ 0 \notin Kind("Dictionary") /\ NoBlock = 0
  BY <1>1, LinkFacts2
<1>3. /\ meta.ownerHead # 0 => meta.ownerTail \in Kind("Owners")
      /\ meta.ownerHead = 0 => Kind("Owners") = {} /\ meta.ownerTail = 0
  BY <1>2, ChainedFacts DEF OwnersChained
<1>4. /\ meta.dictHead # 0 => meta.dictTail \in Kind("Dictionary")
      /\ meta.dictHead = 0 => Kind("Dictionary") = {} /\ meta.dictTail = 0
  BY <1>2, ChainedFacts DEF DictChained
<1> QED BY <1>2, <1>3, <1>4

(* So do the chains of the entries and the journal. *)
LEMMA PostingTails ==
  ASSUME StoreOK, NEW J, JournalSound(J), EntriesSound(J)
  PROVE  /\ \A t \in Term : dict[t].inline # 1 /\ dict[t].head # NoBlock =>
              /\ dict[t].head \in Postings(t) \ J /\ dict[t].tail \in Postings(t) \ J
              /\ page[dict[t].tail].next = NoBlock
         /\ \A t \in Term : dict[t].inline # 1 =>
              /\ (dict[t].head = NoBlock) = (Postings(t) \ J = {})
              /\ (dict[t].head = NoBlock) = (dict[t].tail = NoBlock)
              /\ \A b \in Postings(t) \ J : b # dict[t].tail => page[b].next \in Postings(t) \ J
         /\ meta.journal.phase # "None" =>
              /\ meta.journal.head \in J /\ meta.journal.tail \in J
              /\ page[meta.journal.tail].next = NoBlock
         /\ meta.journal.phase = "None" => meta.journal.head = NoBlock /\ meta.journal.tail = NoBlock
         /\ \A b \in J : b # meta.journal.tail => page[b].next \in J
<1>1. TypeOK
  BY DEF StoreOK
<1>2. /\ NoBlock = 0 /\ Posts \subseteq Block /\ 0 \notin Posts /\ (\A t : Postings(t) \subseteq Posts)
      /\ \A b \in Block : Link[b] = page[b].next
  BY <1>1, LinkFacts2
<1>3. J \subseteq Posts /\ 0 \notin J
  BY <1>2 DEF JournalSound
<1>4. /\ (meta.journal.head = 0) = (J = {})
      /\ (meta.journal.head = 0) = (meta.journal.tail = 0)
      /\ meta.journal.head # 0 => /\ meta.journal.head \in J /\ meta.journal.tail \in J
                                  /\ Link[meta.journal.tail] = 0
      /\ \A b \in J : b # meta.journal.tail => Link[b] \in J
  BY <1>3, ChainedFacts DEF JournalSound
<1>5. meta.journal.phase = "None" <=> J = {}
  BY DEF JournalSound
<1>6. ASSUME NEW t \in Term, dict[t].inline # 1
      PROVE  /\ dict[t].head # 0 =>
                 /\ dict[t].head \in Postings(t) \ J /\ dict[t].tail \in Postings(t) \ J
                 /\ Link[dict[t].tail] = 0
             /\ (dict[t].head = 0) = (Postings(t) \ J = {})
             /\ (dict[t].head = 0) = (dict[t].tail = 0)
             /\ \A b \in Postings(t) \ J : b # dict[t].tail => Link[b] \in Postings(t) \ J
  <2>1. Chained(Link, Postings(t) \ J, dict[t].head, dict[t].tail)
    BY <1>6 DEF EntriesSound
  <2>2. 0 \notin Postings(t) \ J
    BY <1>2
  <2> QED BY <2>1, <2>2, ChainedFacts
<1>7. \A b \in Posts : Link[b] = page[b].next
  BY <1>2
<1>8. ASSUME NEW t \in Term, dict[t].inline # 1
      PROVE  /\ dict[t].head # NoBlock =>
                 /\ dict[t].head \in Postings(t) \ J /\ dict[t].tail \in Postings(t) \ J
                 /\ page[dict[t].tail].next = NoBlock
             /\ (dict[t].head = NoBlock) = (Postings(t) \ J = {})
             /\ (dict[t].head = NoBlock) = (dict[t].tail = NoBlock)
             /\ \A b \in Postings(t) \ J : b # dict[t].tail => page[b].next \in Postings(t) \ J
  <2>1. Postings(t) \ J \subseteq Posts
    BY <1>2
  <2> QED BY <1>2, <1>6, <1>7, <1>8, <2>1
<1>9. /\ meta.journal.phase # "None" =>
              /\ meta.journal.head \in J /\ meta.journal.tail \in J
              /\ page[meta.journal.tail].next = NoBlock
      /\ meta.journal.phase = "None" => meta.journal.head = NoBlock /\ meta.journal.tail = NoBlock
      /\ \A b \in J : b # meta.journal.tail => page[b].next \in J
  BY <1>2, <1>3, <1>4, <1>5, <1>7
<1> QED BY <1>8, <1>9

(* What the steps of each class touch *)
LEMMA StepTouches ==
  ASSUME StoreOK, OwnersChained, DictChained, PostingsSound
  PROVE  /\ PlainStep => Touches({})
         /\ Reserve => Touches({"Zero", "Owners"})
         /\ StoreFragmentReused \/ StoreFragmentAllocated => Touches({"Zero", "Free", "Fragment"})
         /\ \A t \in Term :
              /\ LinkFirstTerm(t) \/ LinkNewTermNextPage(t) => Touches({"Zero", "Dictionary"})
              /\ LinkNewTerm(t) \/ LinkInline(t) \/ CompactInline(t) => Touches({})
              /\ LinkPromote(t) \/ LinkFirstPosting(t) \/ LinkAppend(t) \/ LinkNextPage(t) =>
                   Touches({"Zero"} \cup PostingKind)
         /\ PersistReused \/ PersistAllocated => Touches({"Zero", "Free"} \cup PostingKind)
         /\ PublishReplacement => Touches(PostingKind)
         /\ Recover => Touches({"Free"} \cup PostingKind)
         /\ \A b \in Block : /\ SweepFragment(b) => Touches({"Fragment", "Free"})
                             /\ ReclaimZero(b) => Touches({"Zero", "Free"})
<1>0. /\ TypeOK /\ page \in [Block -> PageRecord]
      /\ blk # NoBlock => blk \in Block /\ page[blk].kind = "Zero"
  BY BlockFacts DEF StoreOK, TypeOK
<1>1. PICK J, S \in SUBSET Block : PostingsHold(J, S)
  BY DEF PostingsSound
<1>2. JournalSound(J) /\ EntriesSound(J)
  BY <1>1 DEF PostingsHold
<1>3. PlainStep => Touches({})
  BY DEF PlainStep, Touches
<1>4. Reserve => Touches({"Zero", "Owners"})
  <2> SUFFICES ASSUME Reserve PROVE Touches({"Zero", "Owners"})
    OBVIOUS
  <2>1. /\ \/ blk # NoBlock /\ Puts(blk, OwnersPage)
           \/ UNCHANGED page
           \/ /\ blk # NoBlock /\ page[meta.ownerTail].kind = "Owners"
              /\ PutsBehind(blk, OwnersPage, meta.ownerTail)
    BY ReserveBatch, TailFacts DEF Kind
  <2>2. CASE UNCHANGED page
    BY <2>2, UnchangedSame DEF Touches
  <2>3. blk # NoBlock => OwnersPage.kind \in {"Zero", "Owners"} /\ page[blk].kind \in {"Zero", "Owners"}
    BY <1>0, PageFields
  <2>4. CASE blk # NoBlock /\ Puts(blk, OwnersPage)
    BY <2>3, <2>4, PutTouches
  <2>5. CASE /\ blk # NoBlock /\ page[meta.ownerTail].kind = "Owners"
             /\ PutsBehind(blk, OwnersPage, meta.ownerTail)
    <3>1. page[meta.ownerTail].kind \in {"Zero", "Owners"}
      BY <2>5
    <3> QED BY <2>3, <2>5, <3>1, BehindTouches
  <2> QED BY <2>1, <2>2, <2>4, <2>5
<1>5. StoreFragmentReused \/ StoreFragmentAllocated => Touches({"Zero", "Free", "Fragment"})
  <2>1. StoreFragmentReused \/ StoreFragmentAllocated =>
          \E b : /\ Puts(b, FragmentPage(ins.owner, ins.left - 1, ins.head))
                 /\ page[b].kind \in {"Zero", "Free", "Fragment"}
    BY <1>0, FragmentBatch DEF FragmentStored
  <2>2. FragmentPage(ins.owner, ins.left - 1, ins.head).kind \in {"Zero", "Free", "Fragment"}
    BY PageFields
  <2> QED BY <2>1, <2>2, PutTouches
<1>6. ASSUME NEW t \in Term, LinkFirstTerm(t) \/ LinkNewTermNextPage(t)
      PROVE  Touches({"Zero", "Dictionary"})
  <2>1. /\ blk # NoBlock
        /\ \/ Puts(blk, DictionaryPage)
           \/ /\ page[meta.dictTail].kind = "Dictionary"
              /\ PutsBehind(blk, DictionaryPage, meta.dictTail)
    BY <1>6, LinkBatch, TailFacts DEF Kind
  <2>2. page[blk].kind \in {"Zero", "Dictionary"} /\ DictionaryPage.kind \in {"Zero", "Dictionary"}
    BY <1>0, <2>1, PageFields
  <2>3. CASE Puts(blk, DictionaryPage)
    BY <2>2, <2>3, PutTouches
  <2>4. CASE page[meta.dictTail].kind = "Dictionary" /\ PutsBehind(blk, DictionaryPage, meta.dictTail)
    <3>1. page[meta.dictTail].kind \in {"Zero", "Dictionary"}
      BY <2>4
    <3> QED BY <2>2, <2>4, <3>1, BehindTouches
  <2> QED BY <2>1, <2>3, <2>4
<1>7. ASSUME NEW t \in Term, LinkNewTerm(t) \/ LinkInline(t) \/ CompactInline(t)
      PROVE  Touches({})
  <2>1. UNCHANGED page
    BY <1>7, LinkBatch DEF CompactInline
  <2> QED BY <2>1, UnchangedSame DEF Touches
<1>8. ASSUME NEW t \in Term, LinkPromote(t) \/ LinkFirstPosting(t) \/ LinkNextPage(t)
      PROVE  Touches({"Zero"} \cup PostingKind)
  <2> DEFINE K == {"Zero"} \cup PostingKind
  <2>1. /\ blk # NoBlock
        /\ \E R : \/ Puts(blk, PostingsPage(t, R))
                  \/ /\ PostingTail(t) /\ dict[t].tail \in Block
                     /\ PutsBehind(blk, PostingsPage(t, R), dict[t].tail)
    <3>1. CASE LinkNextPage(t)
      <4>1. dict[t].tail \in Posts
        BY <1>2, <3>1, PostingTails, LinkBatch DEF Postings
      <4> QED BY <3>1, <4>1, LinkBatch DEF Posts
    <3> QED BY <1>8, <3>1, LinkBatch
  <2>2. PICK R : \/ Puts(blk, PostingsPage(t, R))
                 \/ /\ PostingTail(t) /\ dict[t].tail \in Block
                    /\ PutsBehind(blk, PostingsPage(t, R), dict[t].tail)
    BY <2>1
  <2>3. page[blk].kind \in K /\ PostingsPage(t, R).kind \in K
    BY <1>0, <2>1, PageFields DEF PostingKind
  <2>4. PostingTail(t) => page[dict[t].tail].kind \in K
    BY DEF PostingTail
  <2> HIDE DEF K
  <2>5. Touches(K)
    BY <2>2, <2>3, <2>4, PutTouches, BehindTouches
  <2> QED BY <2>5 DEF K
<1>9. ASSUME NEW t \in Term, LinkAppend(t) PROVE Touches({"Zero"} \cup PostingKind)
  <2>1. /\ page' = [page EXCEPT ![dict[t].tail].refs = @ \cup {ins.owner}]
        /\ page[dict[t].tail].kind \in PostingKind
    BY <1>9, LinkBatch DEF PostingTail
  <2> QED BY <1>0, <2>1 DEF Touches, Same, Turned, PageRecord
<1>10. ASSUME PersistReused \/ PersistAllocated
       PROVE  Touches({"Zero", "Free"} \cup PostingKind)
  <2>1. PICK b \in Block : Persisted(b, Chunk) /\ page[b].kind \in {"Zero", "Free"}
    BY <1>10, PersistBatch
  <2>2. meta.journal.phase # "None" => meta.journal.tail \in Block
    BY <1>0, <1>2, PostingTails, LinkFacts2 DEF JournalSound
  <2>3. \E out : /\ out.kind \in PostingKind
                 /\ \/ Puts(b, out)
                    \/ PutsBehind(b, out, meta.journal.tail) /\ page[meta.journal.tail].kind \in PostingKind
    BY <2>1, <2>2, PageFields DEF Persisted, PostingKind
  <2> DEFINE K == {"Zero", "Free"} \cup PostingKind
  <2>4. PICK out : /\ out.kind \in PostingKind
                   /\ \/ Puts(b, out)
                      \/ PutsBehind(b, out, meta.journal.tail) /\ page[meta.journal.tail].kind \in PostingKind
    BY <2>3
  <2>5. page[b].kind \in K /\ PostingKind \subseteq K
    BY <2>1
  <2> HIDE DEF K
  <2>6. Touches(K)
    BY <2>4, <2>5, PutTouches, BehindTouches
  <2> QED BY <2>6 DEF K
<1>11. PublishReplacement => Touches(PostingKind)
  <2>1. PublishReplacement => Replaced
    BY ReplaceBatch
  <2>2. Replaced => Touches(PostingKind)
    <3>1. CASE UNCHANGED page
      BY <3>1, UnchangedSame DEF Touches
    <3>2. ASSUME Replaced, cpt.boundary # NoBlock PROVE Touches(PostingKind)
      BY <3>2 DEF Replaced, Touches, Same, Turned, PostingKind
    <3> QED BY <3>1, <3>2 DEF Replaced
  <2> QED BY <2>1, <2>2
<1>12. Recover => Touches({"Free"} \cup PostingKind)
  <2>1. ASSUME NEW b \in Block, FreedOne(b) PROVE Touches({"Free"} \cup PostingKind)
    BY <2>1, PageFields DEF FreedOne, Puts, Touches, Same, Turned
  <2>2. ASSUME NEW b \in Block, NEW c \in Block, FreedTwo(b, c)
        PROVE  Touches({"Free"} \cup PostingKind)
    BY <2>2, PageFields DEF FreedTwo, Touches, Same, Turned
  <2> QED BY <2>1, <2>2, RecoverBatch
<1>13. ASSUME NEW b \in Block
       PROVE  /\ SweepFragment(b) => Touches({"Fragment", "Free"})
              /\ ReclaimZero(b) => Touches({"Zero", "Free"})
  BY <1>13, ReclaimBatch, PageFields DEF Reclaimed, DeadFragment, Puts, Touches, Same, Turned
<1> QED BY <1>3, <1>4, <1>5, <1>6, <1>7, <1>8, <1>9, <1>10, <1>11, <1>12, <1>13

-----------------------------------------------------------------------------
(* What a batch does to a chain *)

(* A page is linked behind the tail. *)
LEMMA ChainAppended ==
  ASSUME NEW S \in SUBSET Block, NEW h, NEW t, Chained(Link, S, h, t), NEW b \in Block, b \notin S,
         page'[b].next = NoBlock, t # NoBlock => page'[t].next = b,
         \A c \in S : c # t => page'[c].next = page[c].next
  PROVE  Chained(Link', S \cup {b}, IF h = NoBlock THEN b ELSE h, b)
<1>1. 0 \notin Block /\ NoBlock = 0
  BY BoundAssumption DEF Block, NoBlock
<1>2. 0 \notin S /\ b # 0
  BY <1>1
<1>3. t # 0 => t \in S
  BY <1>2, ChainedFacts
<1>4. Link'[b] = 0 /\ (t # 0 => Link'[t] = b)
  BY <1>1, <1>3 DEF Link
<1>5. \A c \in S : c # t => Link'[c] = Link[c]
  BY DEF Link
<1> HIDE DEF Link
<1>6. Chained(Link', S \cup {b}, IF h = 0 THEN b ELSE h, b)
  BY <1>2, <1>4, <1>5, ChainedAppend
<1> QED BY <1>1, <1>6

(* A page is put before the head. *)
LEMMA ChainPushed ==
  ASSUME NEW S \in SUBSET Block, NEW h, NEW t, Chained(Link, S, h, t), NEW b \in Block, b \notin S,
         page'[b].next = h, \A c \in S : page'[c].next = page[c].next
  PROVE  Chained(Link', S \cup {b}, b, IF t = NoBlock THEN b ELSE t)
<1>1. 0 \notin Block /\ NoBlock = 0
  BY BoundAssumption DEF Block, NoBlock
<1>2. 0 \notin S /\ b # 0
  BY <1>1
<1>4. Link'[b] = h
  BY DEF Link
<1>5. \A c \in S : Link'[c] = Link[c]
  BY DEF Link
<1>6. ASSUME NEW new, new[b] = h, \A c \in S : new[c] = Link[c]
      PROVE  Chained(new, S \cup {b}, b, IF t = 0 THEN b ELSE t)
  BY <1>2, <1>6, ChainedPush
<1> HIDE DEF Link
<1> QED BY <1>1, <1>4, <1>5, <1>6

(* The head leaves the chain. *)
LEMMA ChainPopped ==
  ASSUME NEW S \in SUBSET Block, NEW h, NEW t, Chained(Link, S, h, t), h # NoBlock,
         \A c \in S : c # h => page'[c].next = page[c].next
  PROVE  /\ h \in S /\ (h = t => S \ {h} = {})
         /\ Chained(Link', S \ {h}, page[h].next, IF h = t THEN NoBlock ELSE t)
<1>1. 0 \notin Block /\ NoBlock = 0
  BY BoundAssumption DEF Block, NoBlock
<1>2. 0 \notin S /\ h # 0
  BY <1>1
<1>3. h \in S
  BY <1>2, ChainedFacts
<1>4. Link[h] = page[h].next
  BY <1>3 DEF Link
<1>5. \A c \in S : c # h => Link'[c] = Link[c]
  BY DEF Link
<1> HIDE DEF Link
<1>6. \A link, new : Chained(link, S, h, t) /\ (\A c \in S : c # h => new[c] = link[c]) =>
        /\ h = t => S \ {h} = {} /\ link[h] = 0
        /\ Chained(new, S \ {h}, link[h], IF h = t THEN 0 ELSE t)
  <2>1. h # 0 /\ 0 \notin S
    BY <1>2
  <2> QED BY ONLY <2>1, ChainedPop
<1>7. \A c \in S : c # h => Link'[c] = Link[c]
  BY <1>5
<1>8. /\ h = t => S \ {h} = {} /\ Link[h] = 0
      /\ Chained(Link', S \ {h}, Link[h], IF h = t THEN 0 ELSE t)
  BY <1>6, <1>7
<1> QED BY <1>1, <1>3, <1>4, <1>8

(* Owner pages stay one chain: a reservation appends to it, no other step  *)
(* touches it.                                                             *)
LEMMA OwnersChainedStep ==
  ASSUME StoreOK, NamesWritten, OwnersChained, DictChained, [Next]_vars
  PROVE  OwnersChained'
<1>0. TypeOK /\ ImageCurrent /\ PastEnd
  BY DEF StoreOK
<1>1. CASE ~Reserve
  <2>1. PlainBatch
    BY <1>0, <1>1, StepPlain
  <2>2. /\ Kind("Owners")' = Kind("Owners")
        /\ \A b \in Kind("Owners") : page'[b].next = page[b].next
    BY <2>1, PlainOwnerPages DEF Kind
  <2>3. Kind("Owners") \in SUBSET Block
    BY DEF Kind
  <2>4. ASSUME NEW S, S = Kind("Owners") PROVE Chained(Link', S, meta.ownerHead, meta.ownerTail)
    BY <2>2, <2>3, <2>4, ChainKept DEF OwnersChained
  <2>5. Chained(Link', Kind("Owners"), meta.ownerHead, meta.ownerTail)
    BY <2>4
  <2> QED BY <2>1, <2>2, <2>5 DEF OwnersChained, PlainBatch
<1>2. CASE Reserve
  <2>1. PICK S : S = Kind("Owners")
    OBVIOUS
  <2>2. S \in SUBSET Block /\ Chained(Link, S, meta.ownerHead, meta.ownerTail)
    BY <2>1 DEF Kind, OwnersChained
  <2>3. CASE UNCHANGED page /\ meta'.ownerHead = meta.ownerHead /\ meta'.ownerTail = meta.ownerTail
    <3>1. Kind("Owners")' = S
      BY <2>1, <2>3 DEF Kind
    <3>2. Chained(Link', S, meta.ownerHead, meta.ownerTail)
      BY <2>2, <2>3, ChainKept
    <3> QED BY <2>3, <3>1, <3>2 DEF OwnersChained
  <2>4. ASSUME blk # NoBlock, meta'.ownerTail = blk,
               meta'.ownerHead = IF meta.ownerHead = NoBlock THEN blk ELSE meta.ownerHead,
               \/ meta.ownerHead = NoBlock /\ Puts(blk, OwnersPage)
               \/ meta.ownerHead # NoBlock /\ PutsBehind(blk, OwnersPage, meta.ownerTail)
        PROVE  OwnersChained'
    <3>1. blk \in Block /\ blk \notin S /\ page[blk].kind = "Zero"
      BY <2>1, <2>4, Allocated DEF Kind
    <3>2. Kind("Owners")' = S \cup {blk}
      BY <2>1, <2>4, <3>1, PageFields DEF Kind, Puts, PutsBehind, Turned
    <3>3. /\ page'[blk].next = NoBlock
          /\ meta.ownerTail # NoBlock => page'[meta.ownerTail].next = blk
          /\ \A c \in S : c # meta.ownerTail => page'[c].next = page[c].next
      BY <2>2, <2>4, <3>1, PageFields, TailFacts DEF Puts, PutsBehind, Turned
    <3>4. Chained(Link', S \cup {blk}, IF meta.ownerHead = NoBlock THEN blk ELSE meta.ownerHead, blk)
      BY <2>2, <3>1, <3>3, ChainAppended
    <3> QED BY <2>4, <3>2, <3>4 DEF OwnersChained
  <2>5. meta.ownerHead # NoBlock => meta.ownerTail \in Block
    BY TailFacts DEF Kind
  <2> QED BY <1>2, <2>3, <2>4, <2>5, ReserveBatch
<1> QED BY <1>1, <1>2

(* Only the two forms of link_term() with a new dictionary page change the *)
(* ends of the dictionary.                                                 *)
LEMMA DictEnds ==
  ASSUME StoreOK, OwnersChained, DictChained, PostingsSound, [Next]_vars,
         ~\E t \in Term : LinkFirstTerm(t) \/ LinkNewTermNextPage(t)
  PROVE  /\ meta'.dictHead = meta.dictHead /\ meta'.dictTail = meta.dictTail
         /\ \E K : Touches(K) /\ "Dictionary" \notin K
<1> USE StepTouches DEF PostingKind
<1>1. CASE PlainStep
  <2>1. Touches({}) /\ "Dictionary" \notin {}
    BY <1>1
  <2> QED BY <1>1, <2>1 DEF PlainStep
<1>2. CASE Allocate
  <2>1. Touches({"None", "Zero"}) /\ "Dictionary" \notin {"None", "Zero"}
    BY <1>2, AllocateBatch
  <2> QED BY <1>2, <2>1, AllocateBatch
<1>3. CASE Reserve
  <2>1. Touches({"Zero", "Owners"}) /\ "Dictionary" \notin {"Zero", "Owners"}
    BY <1>3
  <2> QED BY <1>3, <2>1, ReserveBatch
<1>4. CASE StoreFragmentReused \/ StoreFragmentAllocated
  <2>1. Touches({"Zero", "Free", "Fragment"}) /\ "Dictionary" \notin {"Zero", "Free", "Fragment"}
    BY <1>4
  <2>2. meta' = meta \/ meta' = [meta EXCEPT !.free = page[meta.free].next]
    BY <1>4, FragmentBatch
  <2>3. meta \in MetaRecord
    BY DEF StoreOK, TypeOK
  <2> QED BY <2>1, <2>2, <2>3 DEF MetaRecord
<1>5. ASSUME NEW t \in Term, LinkNewTerm(t) \/ LinkInline(t) \/ CompactInline(t)
      PROVE  /\ meta'.dictHead = meta.dictHead /\ meta'.dictTail = meta.dictTail
             /\ \E K : Touches(K) /\ "Dictionary" \notin K
  <2>1. Touches({}) /\ "Dictionary" \notin {}
    BY <1>5
  <2>2. meta' = meta
    BY <1>5, LinkBatch DEF CompactInline
  <2> QED BY <2>1, <2>2
<1>6. ASSUME NEW t \in Term,
             LinkPromote(t) \/ LinkFirstPosting(t) \/ LinkAppend(t) \/ LinkNextPage(t)
      PROVE  /\ meta'.dictHead = meta.dictHead /\ meta'.dictTail = meta.dictTail
             /\ \E K : Touches(K) /\ "Dictionary" \notin K
  <2>1. Touches({"Zero"} \cup PostingKind) /\ "Dictionary" \notin {"Zero"} \cup PostingKind
    BY <1>6
  <2>2. meta' = meta
    BY <1>6, LinkBatch
  <2> QED BY <2>1, <2>2
<1>7. CASE PersistReused \/ PersistAllocated
  <2>1. Touches({"Zero", "Free"} \cup PostingKind) /\ "Dictionary" \notin {"Zero", "Free"} \cup PostingKind
    BY <1>7
  <2>2. MetaKept
    BY <1>7, PersistBatch DEF Persisted
  <2> QED BY <2>1, <2>2 DEF MetaKept
<1>8. CASE PublishReplacement
  <2>1. Touches(PostingKind) /\ "Dictionary" \notin PostingKind
    BY <1>8
  <2> QED BY <1>8, <2>1, ReplaceBatch DEF MetaKept, Replaced
<1>9. CASE Recover
  <2>1. Touches({"Free"} \cup PostingKind) /\ "Dictionary" \notin {"Free"} \cup PostingKind
    BY <1>9
  <2> QED BY <1>9, <2>1, RecoverBatch DEF MetaKept
<1>10. ASSUME NEW b \in Block, SweepFragment(b) \/ ReclaimZero(b)
       PROVE  /\ meta'.dictHead = meta.dictHead /\ meta'.dictTail = meta.dictTail
              /\ \E K : Touches(K) /\ "Dictionary" \notin K
  <2>1. Touches({"Fragment", "Free"}) \/ Touches({"Zero", "Free"})
    BY <1>10
  <2>2. "Dictionary" \notin {"Fragment", "Free"} /\ "Dictionary" \notin {"Zero", "Free"}
    OBVIOUS
  <2> QED BY <1>10, <2>1, <2>2, ReclaimBatch DEF MetaKept, Reclaimed
<1> QED BY <1>1, <1>2, <1>3, <1>4, <1>5, <1>6, <1>7, <1>8, <1>9, <1>10, StepClasses DEF LinkTerm

(* Dictionary pages stay one chain. *)
LEMMA DictChainedStep ==
  ASSUME StoreOK, NamesWritten, OwnersChained, DictChained, PostingsSound, [Next]_vars
  PROVE  DictChained'
<1>1. CASE ~\E t \in Term : LinkFirstTerm(t) \/ LinkNewTermNextPage(t)
  <2>1. PICK K : Touches(K) /\ "Dictionary" \notin K
    BY <1>1, DictEnds
  <2>2. Chained(Link', Kind("Dictionary")', meta.dictHead, meta.dictTail)
    BY <2>1, KindKept DEF DictChained
  <2> QED BY <1>1, <2>2, DictEnds DEF DictChained
<1>2. ASSUME NEW t \in Term, LinkFirstTerm(t) \/ LinkNewTermNextPage(t) PROVE DictChained'
  <2>1. PICK S : S = Kind("Dictionary")
    OBVIOUS
  <2>2. S \in SUBSET Block /\ Chained(Link, S, meta.dictHead, meta.dictTail)
    BY <2>1 DEF Kind, DictChained
  <2>3. meta.dictHead # NoBlock => meta.dictTail \in Block
    BY TailFacts DEF Kind
  <2>4. /\ blk # NoBlock /\ meta'.dictTail = blk
        /\ meta'.dictHead = IF meta.dictHead = NoBlock THEN blk ELSE meta.dictHead
        /\ \/ meta.dictHead = NoBlock /\ Puts(blk, DictionaryPage)
           \/ meta.dictHead # NoBlock /\ PutsBehind(blk, DictionaryPage, meta.dictTail)
    BY <1>2, <2>3, LinkBatch
  <2>5. blk \in Block /\ blk \notin S /\ page[blk].kind = "Zero"
    BY <2>1, <2>4, Allocated DEF Kind
  <2>6. Kind("Dictionary")' = S \cup {blk}
    BY <2>1, <2>4, <2>5, PageFields DEF Kind, Puts, PutsBehind, Turned
  <2>7. /\ page'[blk].next = NoBlock
        /\ meta.dictTail # NoBlock => page'[meta.dictTail].next = blk
        /\ \A c \in S : c # meta.dictTail => page'[c].next = page[c].next
    BY <2>2, <2>4, <2>5, PageFields, TailFacts DEF Puts, PutsBehind, Turned
  <2>8. Chained(Link', S \cup {blk}, IF meta.dictHead = NoBlock THEN blk ELSE meta.dictHead, blk)
    BY <2>2, <2>5, <2>7, ChainAppended
  <2> QED BY <2>4, <2>6, <2>8 DEF DictChained
<1> QED BY <1>1, <1>2

(* A page that was not free is pushed. *)
LEMMA FreePushed ==
  ASSUME TypeOK, FreeChained, NEW b \in Block, Puts(b, FreePage(meta.free)), page[b].kind # "Free",
         meta'.free = b
  PROVE  FreeChained'
<1>1. PICK t \in BlockOrNone : Chained(Link, Kind("Free"), meta.free, t)
  BY DEF FreeChained
<1>2. PICK S : S = Kind("Free")
  OBVIOUS
<1>3. S \in SUBSET Block /\ b \notin S /\ Kind("Free")' = S \cup {b}
  BY <1>2, PageFields DEF Kind, Puts
<1>4. page'[b].next = meta.free /\ \A c \in S : page'[c].next = page[c].next
  BY <1>3, PageFields DEF Puts
<1>5. Chained(Link', S \cup {b}, b, IF t = NoBlock THEN b ELSE t)
  BY <1>1, <1>2, <1>3, <1>4, ChainPushed
<1>6. (IF t = NoBlock THEN b ELSE t) \in BlockOrNone
  BY DEF BlockOrNone
<1> QED BY <1>3, <1>5, <1>6 DEF FreeChained

(* The head of the free list is taken for something else. *)
LEMMA FreePopped ==
  ASSUME TypeOK, FreeChained, meta.free # NoBlock, Kind("Free")' = Kind("Free") \ {meta.free},
         \A c \in Kind("Free") : c # meta.free => page'[c].next = page[c].next,
         meta'.free = page[meta.free].next
  PROVE  FreeChained'
<1>1. PICK t \in BlockOrNone : Chained(Link, Kind("Free"), meta.free, t)
  BY DEF FreeChained
<1>2. PICK S : S = Kind("Free")
  OBVIOUS
<1>3. S \in SUBSET Block
  BY <1>2 DEF Kind
<1>4. PICK h : h = meta.free
  OBVIOUS
<1>5. Chained(Link, S, h, t) /\ h # NoBlock /\ \A c \in S : c # h => page'[c].next = page[c].next
  BY <1>1, <1>2, <1>4
<1>6. Chained(Link', S \ {h}, page[h].next, IF h = t THEN NoBlock ELSE t)
  BY <1>3, <1>5, ChainPopped
<1>7. (IF h = t THEN NoBlock ELSE t) \in BlockOrNone
  BY DEF BlockOrNone
<1>8. Kind("Free")' = S \ {h} /\ meta'.free = page[h].next
  BY <1>2, <1>4
<1> QED BY <1>6, <1>7, <1>8 DEF FreeChained

(* The free list is left alone. *)
LEMMA FreeKept ==
  ASSUME FreeChained, Kind("Free")' = Kind("Free"),
         \A c \in Kind("Free") : page'[c].next = page[c].next, meta'.free = meta.free
  PROVE  FreeChained'
<1>1. PICK t \in BlockOrNone : Chained(Link, Kind("Free"), meta.free, t)
  BY DEF FreeChained
<1>2. PICK S : S = Kind("Free")
  OBVIOUS
<1>3. S \in SUBSET Block
  BY <1>2 DEF Kind
<1>4. Chained(Link', S, meta.free, t)
  BY <1>1, <1>2, <1>3, ChainKept
<1>5. Kind("Free")' = S
  BY <1>2
<1> QED BY <1>4, <1>5 DEF FreeChained

(* Two pages of the journal are pushed in one batch. *)
LEMMA FreePushedTwo ==
  ASSUME TypeOK, FreeChained, NEW b \in Block, NEW c \in Block, FreedTwo(b, c)
  PROVE  FreeChained'
<1>1. PICK t \in BlockOrNone : Chained(Link, Kind("Free"), meta.free, t)
  BY DEF FreeChained
<1>2. PICK S : S = Kind("Free")
  OBVIOUS
<1>3. S \in SUBSET Block /\ b \notin S /\ c \notin S /\ b # c /\ Kind("Free")' = (S \cup {b}) \cup {c}
  BY <1>2, PageFields DEF Kind, FreedTwo, PostingKind
<1>4. /\ page'[b].next = meta.free /\ page'[c].next = b
      /\ \A d \in S : page'[d].next = page[d].next
  BY <1>3, PageFields DEF FreedTwo
<1>5. Chained(Link', S \cup {b}, b, IF t = NoBlock THEN b ELSE t)
  BY <1>1, <1>2, <1>3, <1>4, ChainPushed
<1> DEFINE u == IF t = NoBlock THEN b ELSE t
<1>6. u \in BlockOrNone
  BY DEF BlockOrNone
<1>7. b # 0 /\ c # 0 /\ 0 \notin S /\ 0 \notin S \cup {b} /\ c \notin S \cup {b}
  BY <1>3, LinkFacts2
<1>8. Link'[c] = b
  BY <1>4, NextLinks
<1> HIDE DEF u, Link
<1>9. \A link : Chained(link, S \cup {b}, b, u) /\ link[c] = b =>
        Chained(link, (S \cup {b}) \cup {c}, c, IF u = 0 THEN c ELSE u)
  BY ONLY <1>7, ChainedPush
<1>10. Chained(Link', (S \cup {b}) \cup {c}, c, IF u = 0 THEN c ELSE u)
  BY <1>5, <1>8, <1>9 DEF u
<1>11. (IF u = 0 THEN c ELSE u) \in BlockOrNone
  BY <1>6 DEF BlockOrNone
<1>12. meta'.free = c
  BY DEF FreedTwo
<1> QED BY <1>3, <1>10, <1>11, <1>12 DEF FreeChained

(* Free pages stay one chain: pops, pushes and nothing else. *)
LEMMA FreeChainedStep ==
  ASSUME StoreOK, OwnersChained, DictChained, FreeChained, PostingsSound, [Next]_vars
  PROVE  FreeChained'
<1>0. TypeOK /\ meta \in MetaRecord
      /\ (blk # NoBlock => blk \in Block /\ page[blk].kind = "Zero")
  BY BlockFacts DEF StoreOK, TypeOK
<1>1. ASSUME NEW K, Touches(K), "Free" \notin K, meta'.free = meta.free PROVE FreeChained'
  BY <1>1, Untouched, FreeKept DEF Same, Turned
<1>2. CASE PlainStep
  <2>1. Touches({}) /\ "Free" \notin {}
    BY <1>2, StepTouches
  <2> QED BY <1>1, <1>2, <2>1 DEF PlainStep
<1>3. CASE Allocate
  <2>1. Touches({"None", "Zero"}) /\ "Free" \notin {"None", "Zero"} /\ meta' = meta
    BY <1>3, AllocateBatch
  <2> QED BY <1>1, <2>1
<1>4. CASE Reserve
  <2>1. Touches({"Zero", "Owners"}) /\ "Free" \notin {"Zero", "Owners"} /\ meta'.free = meta.free
    BY <1>4, StepTouches, ReserveBatch
  <2> QED BY <1>1, <2>1
<1>5. CASE StoreFragmentReused
  <2>1. /\ meta.free # NoBlock /\ meta.free \in Block /\ page[meta.free].kind = "Free"
        /\ Puts(meta.free, FragmentPage(ins.owner, ins.left - 1, ins.head))
        /\ meta' = [meta EXCEPT !.free = page[meta.free].next]
    BY <1>5, FragmentBatch DEF FragmentStored
  <2>2. meta'.free = page[meta.free].next
    BY <1>0, <2>1 DEF MetaRecord
  <2>3. /\ Kind("Free")' = Kind("Free") \ {meta.free}
        /\ \A c \in Kind("Free") : c # meta.free => page'[c].next = page[c].next
    BY <2>1, PageFields DEF Kind, Puts
  <2> QED BY <1>0, <2>1, <2>2, <2>3, FreePopped
<1>6. CASE StoreFragmentAllocated
  <2>1. blk # NoBlock /\ Puts(blk, FragmentPage(ins.owner, ins.left - 1, ins.head)) /\ meta' = meta
    BY <1>6, FragmentBatch DEF FragmentStored
  <2>2. Kind("Free")' = Kind("Free") /\ \A c \in Kind("Free") : page'[c].next = page[c].next
    BY <1>0, <2>1, PageFields DEF Kind, Puts
  <2> QED BY <2>1, <2>2, FreeKept
<1>7. ASSUME NEW t \in Term, LinkTerm(t) \/ CompactInline(t) PROVE FreeChained'
  <2>1. meta'.free = meta.free
    BY <1>7, LinkBatch DEF TermLinked, CompactInline, LinkTerm
  <2>2. \E K : Touches(K) /\ "Free" \notin K
    <3>1. Touches({"Zero", "Dictionary"}) \/ Touches({}) \/ Touches({"Zero"} \cup PostingKind)
      BY <1>7, StepTouches DEF LinkTerm
    <3>2. "Free" \notin {"Zero", "Dictionary"} /\ "Free" \notin {} /\ "Free" \notin {"Zero"} \cup PostingKind
      BY DEF PostingKind
    <3> QED BY <3>1, <3>2
  <2> QED BY <1>1, <2>1, <2>2
<1>8. CASE PersistReused
  <2>1. /\ meta.free \in Block /\ page[meta.free].kind = "Free" /\ Persisted(meta.free, Chunk)
        /\ meta'.free = page[meta.free].next
    BY <1>8, PersistBatch
  <2>2. meta.journal.phase # "None" => meta.journal.tail \in Block
    <3>1. PICK J, S \in SUBSET Block : PostingsHold(J, S)
      BY DEF PostingsSound
    <3> QED BY <1>0, <3>1, PostingTails, LinkFacts2 DEF JournalSound, PostingsHold
  <2>3. PICK out : /\ out.kind \in {"Sealed", "Direct"}
                   /\ \/ Puts(meta.free, out)
                      \/ /\ PutsBehind(meta.free, out, meta.journal.tail)
                         /\ page[meta.journal.tail].kind \in {"Sealed", "Direct"}
    BY <2>1, <2>2, PageFields DEF Persisted
  <2>4. /\ Kind("Free")' = Kind("Free") \ {meta.free}
        /\ \A c \in Kind("Free") : c # meta.free => page'[c].next = page[c].next
    BY <2>1, <2>3 DEF Kind, Puts, PutsBehind, Turned
  <2>5. meta.free # NoBlock
    BY <1>0, <2>1, LinkFacts2
  <2> QED BY <1>0, <2>1, <2>4, <2>5, FreePopped
<1>9. CASE PersistAllocated
  <2>1. /\ blk \in Block /\ page[blk].kind = "Zero" /\ Persisted(blk, Chunk)
        /\ meta'.free = meta.free
    BY <1>9, PersistBatch
  <2>2. meta.journal.phase # "None" => meta.journal.tail \in Block
    <3>1. PICK J, S \in SUBSET Block : PostingsHold(J, S)
      BY DEF PostingsSound
    <3> QED BY <1>0, <3>1, PostingTails, LinkFacts2 DEF JournalSound, PostingsHold
  <2>3. PICK out : /\ out.kind \in {"Sealed", "Direct"}
                   /\ \/ Puts(blk, out)
                      \/ /\ PutsBehind(blk, out, meta.journal.tail)
                         /\ page[meta.journal.tail].kind \in {"Sealed", "Direct"}
    BY <2>1, <2>2, PageFields DEF Persisted
  <2>4. /\ Kind("Free")' = Kind("Free")
        /\ \A c \in Kind("Free") : page'[c].next = page[c].next
    BY <2>1, <2>3 DEF Kind, Puts, PutsBehind, Turned
  <2> QED BY <2>1, <2>4, FreeKept
<1>10. CASE PublishReplacement
  <2>1. Touches(PostingKind) /\ "Free" \notin PostingKind /\ meta'.free = meta.free
    BY <1>10, StepTouches, ReplaceBatch DEF PostingKind, Replaced
  <2> QED BY <1>1, <2>1
<1>11. CASE Recover
  <2>1. ASSUME NEW b \in Block, FreedOne(b) PROVE FreeChained'
    BY <1>0, <2>1, FreePushed DEF FreedOne, PostingKind
  <2>2. ASSUME NEW b \in Block, NEW c \in Block, FreedTwo(b, c) PROVE FreeChained'
    BY <1>0, <2>2, FreePushedTwo
  <2> QED BY <1>11, <2>1, <2>2, RecoverBatch
<1>12. ASSUME NEW b \in Block, SweepFragment(b) \/ ReclaimZero(b) PROVE FreeChained'
  <2>1. Reclaimed(b) /\ page[b].kind # "Free"
    BY <1>12, ReclaimBatch DEF DeadFragment
  <2> QED BY <1>0, <2>1, FreePushed DEF Reclaimed
<1> QED BY <1>2, <1>3, <1>4, <1>5, <1>6, <1>7, <1>8, <1>9, <1>10, <1>11, <1>12, StepClasses

-----------------------------------------------------------------------------
(* Names *)

(* Where a journal's tail is known to be a page, so is its last output. *)
LEMMA PersistedOutput ==
  ASSUME StoreOK, PostingsSound, PersistReused \/ PersistAllocated
  PROVE  \E b \in Block :
           /\ Persisted(b, Chunk) /\ page[b].kind \in {"Zero", "Free"}
           /\ (b = meta.free /\ meta'.free = page[b].next) \/ meta'.free = meta.free
           /\ \E out : /\ out = SealedPage(cpt.term, Chunk, cpt.mode = "DirectTid")
                       /\ IF meta.journal.phase = "None" THEN Puts(b, out)
                          ELSE PutsBehind(b, out, meta.journal.tail)
<1>0. TypeOK
  BY DEF StoreOK
<1>1. PICK b \in Block : /\ Persisted(b, Chunk) /\ page[b].kind \in {"Zero", "Free"}
                         /\ (b = meta.free /\ meta'.free = page[b].next) \/ meta'.free = meta.free
  BY PersistBatch
<1>2. meta.journal.phase # "None" => meta.journal.tail \in Block
  <2>1. PICK J, S \in SUBSET Block : PostingsHold(J, S)
    BY DEF PostingsSound
  <2> QED BY <1>0, <2>1, PostingTails, LinkFacts2 DEF JournalSound, PostingsHold
<1> QED BY <1>1, <1>2 DEF Persisted

(* The page that a form of link_term() with a new posting page writes. *)
LEMMA LinkedOutput ==
  ASSUME StoreOK, PostingsSound, NEW t \in Term,
         LinkPromote(t) \/ LinkFirstPosting(t) \/ LinkNextPage(t)
  PROVE  /\ blk # NoBlock
         /\ \E R : \/ Puts(blk, PostingsPage(t, R)) /\ ~LinkNextPage(t)
                   \/ PutsBehind(blk, PostingsPage(t, R), dict[t].tail) /\ LinkNextPage(t)
<1>0. TypeOK
  BY DEF StoreOK
<1>1. CASE LinkNextPage(t)
  <2>1. PICK J, S \in SUBSET Block : PostingsHold(J, S)
    BY DEF PostingsSound
  <2>2. dict[t].tail \in Posts
    BY <1>1, <2>1, PostingTails, LinkBatch DEF Postings, PostingsHold
  <2> QED BY <1>1, <2>2, LinkBatch DEF Posts
<1>2. CASE ~LinkNextPage(t)
  BY <1>2, LinkBatch
<1> QED BY <1>1, <1>2

(* A written page stays written. *)
LEMMA WrittenKept ==
  ASSUME StoreOK, OwnersChained, DictChained, PostingsSound, [Next]_vars, NEW b \in Block,
         page[b].kind \notin {"None", "Zero"}
  PROVE  page'[b].kind \notin {"None", "Zero"}
<1> USE PageFields DEF Puts, PutsBehind, Turned
<1>0. /\ meta.ownerHead # NoBlock => meta.ownerTail \in Block
      /\ meta.dictHead # NoBlock => meta.dictTail \in Block
  BY TailFacts DEF Kind
<1>1. CASE PlainStep
  BY <1>1 DEF PlainStep, Same
<1>2. CASE Allocate
  BY <1>2, AllocateBatch
<1>3. CASE Reserve
  BY <1>0, <1>3, ReserveBatch
<1>4. CASE StoreFragmentReused \/ StoreFragmentAllocated
  BY <1>4, FragmentBatch DEF FragmentStored
<1>5. ASSUME NEW t \in Term, LinkTerm(t) \/ CompactInline(t)
      PROVE  page'[b].kind \notin {"None", "Zero"}
  <2>1. CASE LinkFirstTerm(t) \/ LinkNewTerm(t) \/ LinkNewTermNextPage(t) \/ LinkInline(t)
    BY <1>0, <2>1, LinkBatch
  <2>2. CASE LinkPromote(t) \/ LinkFirstPosting(t) \/ LinkNextPage(t)
    BY <2>2, LinkedOutput
  <2>3. CASE LinkAppend(t)
    <3>1. page' = [page EXCEPT ![dict[t].tail].refs = @ \cup {ins.owner}]
      BY <2>3, LinkBatch
    <3> QED BY <3>1 DEF StoreOK, TypeOK, PageRecord
  <2>4. CASE CompactInline(t)
    BY <2>4 DEF CompactInline
  <2> QED BY <1>5, <2>1, <2>2, <2>3, <2>4 DEF LinkTerm
<1>6. CASE PersistReused \/ PersistAllocated
  BY <1>6, PersistedOutput
<1>7. CASE PublishReplacement
  BY <1>7, ReplaceBatch DEF Replaced
<1>8. CASE Recover
  BY <1>8, RecoverBatch DEF FreedOne, FreedTwo
<1>9. ASSUME NEW c \in Block, SweepFragment(c) \/ ReclaimZero(c)
      PROVE  page'[b].kind \notin {"None", "Zero"}
  BY <1>9, ReclaimBatch DEF Reclaimed
<1> QED BY <1>1, <1>2, <1>3, <1>4, <1>5, <1>6, <1>7, <1>8, <1>9, StepClasses

(* Written in the next state *)
Kept(b) == b # NoBlock => page'[b].kind \notin {"None", "Zero"}

(* A slot outside a reservation keeps its page; its payload is dropped or  *)
(* becomes that of the insertion.                                          *)
LEMMA SlotNames ==
  ASSUME StoreOK, [Next]_vars, ~Reserve, NEW o \in Owner
  PROVE  /\ owner'[o].page = owner[o].page
         /\ \/ owner'[o].head = owner[o].head \/ owner'[o].head = NoBlock
            \/ pc = "fragment" /\ owner'[o].head = ins.head
<1>0. TypeOK /\ owner \in [Owner -> OwnerRecord] /\ owner[o] \in OwnerRecord
  BY DEF StoreOK, TypeOK
<1>1. CASE UNCHANGED owner
  BY <1>1
<1>2. CASE PayloadReady
  <2>1. /\ pc = "fragment"
        /\ owner' = [owner EXCEPT ![ins.owner] =
             [owner[ins.owner] EXCEPT !.pub = "FragmentsWritten", !.head = ins.head]]
    BY <1>2 DEF PayloadReady, Changed
  <2> QED BY <1>0, <2>1 DEF OwnerRecord
<1>3. CASE Publish
  <2>1. owner' = [owner EXCEPT ![ins.owner] =
             [owner[ins.owner] EXCEPT !.pub = "Published", !.live = TRUE]]
    BY <1>3 DEF Publish, Changed
  <2> QED BY <1>0, <2>1 DEF OwnerRecord
<1>4. CASE RemoveOwners
  <2>1. owner'[o] = Retired(o)
    BY <1>4 DEF RemoveOwners
  <2>2. Retired(o) = owner[o] \/ Retired(o) = [owner[o] EXCEPT !.live = FALSE, !.head = NoBlock]
        \/ Retired(o) = [owner[o] EXCEPT !.pub = "Abandoned", !.head = NoBlock]
    BY DEF Retired, Changed
  <2> QED BY <1>0, <2>1, <2>2 DEF OwnerRecord
<1>5. \/ PayloadReady \/ Publish \/ RemoveOwners \/ UNCHANGED owner
  <2>1. RecoverEndVacuum \/ SweepEnd \/ VacuumEnd => UNCHANGED owner
    BY DEF RecoverEndVacuum, SweepEnd, VacuumEnd
  <2>2. Starts \/ Abandoned \/ (\E r \in Root : HeapDelete(r)) => UNCHANGED owner
    BY DEF Starts, VacuumBegin, InsertBegin, CompactBegin, Abandoned, HeapDelete
  <2>3. (\E t \in Term : RewriteBegin(t)) \/ QuietStep => UNCHANGED owner
    BY DEF RewriteBegin, QuietStep
  <2> QED BY <1>0, <2>1, <2>2, <2>3, StepKinds
<1> QED BY <1>1, <1>2, <1>3, <1>4, <1>5

(* The payload of an insertion starts empty and grows by what is stored. *)
LEMMA InsertNames ==
  ASSUME StoreOK, [Next]_vars, pc' = "fragment"
  PROVE  \/ Reserve
         \/ StoreFragmentReused \/ StoreFragmentAllocated
         \/ pc = "fragment" /\ ins'.head = ins.head
<1>0. TypeOK
  BY DEF StoreOK
<1>1. CASE Starts \/ Abandoned \/ \E r \in Root : HeapDelete(r)
  BY <1>1 DEF Starts, VacuumBegin, InsertBegin, CompactBegin, Abandoned, HeapDelete
<1>2. CASE PayloadReady \/ Publish \/ RecoverEndVacuum \/ RemoveOwners \/ SweepEnd \/ VacuumEnd
  BY <1>2 DEF PayloadReady, Publish, RecoverEndVacuum, RemoveOwners, SweepEnd, VacuumEnd
<1>3. CASE \E t \in Term : RewriteBegin(t)
  BY <1>3 DEF RewriteBegin
<1>4. CASE QuietStep /\ ~StoreFragmentReused /\ ~StoreFragmentAllocated
  <2>1. pc = "fragment"
    BY <1>4 DEF QuietStep
  <2>2. CASE UNCHANGED vars
    BY <2>1, <2>2 DEF vars
  <2>3. ASSUME Next PROVE ins'.head = ins.head \/ Reserve \/ Abandoned
    <3>1. CASE ExtendFails \/ FailedCleanup \/ Interrupt
      BY <3>1 DEF ExtendFails, FailedCleanup, Interrupt
    <3>2. CASE Allocate \/ Starts \/ \E r \in Root : HeapDelete(r)
      BY <2>1, <3>2 DEF Allocate, Extend, Starts, VacuumBegin, InsertBegin, CompactBegin, HeapDelete
    <3>3. CASE Insert
      BY <1>4, <2>1, <3>3 DEF Insert, Reserve, PayloadReady, Publish, LinkTerm, LinkFirstTerm,
         LinkNewTerm, LinkNewTermNextPage, LinkPromote, LinkInline, LinkFirstPosting, LinkAppend,
         LinkNextPage, LinkReady
    <3>4. CASE Recover
      BY <2>1, <3>4 DEF Recover, RecoverOne, RecoverTwo
    <3>5. CASE Compaction
      BY <2>1, <3>5 DEF Compaction, CompactSkip, CompactInline, RewriteBegin, Visit, PersistReused,
         PersistAllocated, PersistOutput, PublishReplacement, PublishRejected, RecoverEndCompact,
         CompactEnd
    <3>6. CASE VacuumPass
      BY <2>1, <3>6 DEF VacuumPass, RecoverEndVacuum, RemoveOwners, SweepDirect, SweepFragment,
         ReclaimZero, SweepNext, SweepEnd, VacuumEnd
    <3> QED BY <2>3, <3>1, <3>2, <3>3, <3>4, <3>5, <3>6 DEF Next, Step, Starts
  <2> QED BY <1>1, <2>1, <2>2, <2>3
<1> QED BY <1>0, <1>1, <1>2, <1>3, <1>4, StepKinds

(* Nothing names a block that has not been written. *)
LEMMA NamesWrittenStep ==
  ASSUME StoreOK, StoreOK', NamesWritten, OwnersChained, DictChained, InsertSound, PostingsSound,
         [Next]_vars
  PROVE  NamesWritten'
<1>0. /\ TypeOK /\ meta \in MetaRecord /\ page \in [Block -> PageRecord]
      /\ dict \in [Term -> TermRecord]
      /\ owner \in [Owner -> OwnerRecord] /\ ins \in InsertRecord /\ cpt \in CompactRecord
  BY DEF StoreOK, TypeOK
<1>1. /\ meta.ownerHead # NoBlock => meta.ownerTail \in Block
      /\ meta.dictHead # NoBlock => meta.dictTail \in Block
      /\ blk # NoBlock => blk \in Block /\ page[blk].kind = "Zero"
      /\ NoBlock \notin Block
  BY <1>0, TailFacts, BlockFacts, LinkFacts2 DEF Kind, StoreOK
<1>2. \A b \in BlockOrNone : Written(b) => Kept(b)
  BY WrittenKept DEF Written, Kept, BlockOrNone
<1>3. /\ \A b \in Block : Kept(page[b].next)
      /\ Kept(meta.ownerHead) /\ Kept(meta.ownerTail) /\ Kept(meta.dictHead) /\ Kept(meta.dictTail)
      /\ Kept(meta.free) /\ Kept(meta.journal.head) /\ Kept(meta.journal.tail)
  BY <1>0, <1>2 DEF NamesWritten, PageRecord, MetaRecord, Journal
<1>4. /\ \A o \in Owner : Kept(owner[o].head) /\ Kept(owner[o].page)
      /\ \A t \in Term : Kept(dict[t].head) /\ Kept(dict[t].tail) /\ Kept(dict[t].page)
      /\ pc = "fragment" => Kept(ins.head)
      /\ Kept(NoBlock)
  BY <1>0, <1>2 DEF NamesWritten, OwnerRecord, TermRecord, InsertRecord, Kept
<1>5. /\ (\A b \in Block : Kept(page'[b].next))
      /\ Kept(meta'.ownerHead) /\ Kept(meta'.ownerTail)
      /\ Kept(meta'.dictHead) /\ Kept(meta'.dictTail)
      /\ Kept(meta'.free) /\ Kept(meta'.journal.head) /\ Kept(meta'.journal.tail)
      /\ (\A t \in Term : Kept(dict'[t].head) /\ Kept(dict'[t].tail) /\ Kept(dict'[t].page))
  <2> DEFINE Goal == /\ (\A b \in Block : Kept(page'[b].next))
                     /\ Kept(meta'.ownerHead) /\ Kept(meta'.ownerTail)
                     /\ Kept(meta'.dictHead) /\ Kept(meta'.dictTail)
                     /\ Kept(meta'.free) /\ Kept(meta'.journal.head) /\ Kept(meta'.journal.tail)
                     /\ (\A t \in Term : /\ Kept(dict'[t].head) /\ Kept(dict'[t].tail)
                                         /\ Kept(dict'[t].page))
  <2> USE <1>3, <1>4, PageFields
  <2>0. ASSUME NEW b \in Block, page'[b].kind \notin {"None", "Zero"} PROVE Kept(b)
    BY <2>0 DEF Kept
  <2>1. CASE PlainStep
    BY <2>1 DEF PlainStep, Same, Turned
  <2>2. CASE Allocate
    BY <2>2, AllocateBatch DEF Puts
  <2>3. CASE Reserve
    BY <1>1, <2>0, <2>3, ReserveBatch DEF Puts, PutsBehind, Turned
  <2>4. CASE StoreFragmentReused \/ StoreFragmentAllocated
    <3>1. PICK b \in Block : FragmentStored(b)
      BY <1>1, <2>4, FragmentBatch
    <3>2. meta' = meta \/ (meta' = [meta EXCEPT !.free = page[meta.free].next] /\ meta.free \in Block)
      BY <2>4, FragmentBatch
    <3>3. /\ meta'.ownerHead = meta.ownerHead /\ meta'.ownerTail = meta.ownerTail
          /\ meta'.dictHead = meta.dictHead /\ meta'.dictTail = meta.dictTail
          /\ meta'.free = meta.free \/ (meta'.free = page[meta.free].next /\ meta.free \in Block)
          /\ meta'.journal = meta.journal
      BY <1>0, <3>2 DEF MetaRecord
    <3> QED BY <3>1, <3>3 DEF FragmentStored, Puts
  <2>5. ASSUME NEW t \in Term, LinkTerm(t) PROVE Goal
    <3>0. ASSUME NEW e, EntryPut(t, e), Kept(e.head), Kept(e.tail), Kept(e.page)
          PROVE  \A u \in Term : Kept(dict'[u].head) /\ Kept(dict'[u].tail) /\ Kept(dict'[u].page)
      BY <3>0 DEF EntryPut
    <3>00. \A b, o : NewEntry(b, o).head = NoBlock /\ NewEntry(b, o).tail = NoBlock
                     /\ NewEntry(b, o).page = b
      BY DEF NewEntry
    <3>1. CASE LinkFirstTerm(t)
      <4>1. /\ blk # NoBlock /\ Puts(blk, DictionaryPage) /\ EntryPut(t, NewEntry(blk, ins.owner))
            /\ meta'.dictHead = blk /\ meta'.dictTail = blk /\ TermLinked(t)
        BY <3>1, LinkBatch
      <4>2. Kept(blk) /\ \A b \in Block : Kept(page'[b].next)
        BY <1>1, <2>0, <4>1 DEF Puts
      <4>3. \A u \in Term : Kept(dict'[u].head) /\ Kept(dict'[u].tail) /\ Kept(dict'[u].page)
        BY <3>0, <3>00, <4>1, <4>2
      <4> QED BY <4>1, <4>2, <4>3 DEF TermLinked
    <3>2. CASE LinkNewTerm(t)
      <4>1. EntryPut(t, NewEntry(meta.dictTail, ins.owner)) /\ UNCHANGED <<page, meta>>
        BY <3>2, LinkBatch
      <4>2. \A u \in Term : Kept(dict'[u].head) /\ Kept(dict'[u].tail) /\ Kept(dict'[u].page)
        BY <3>0, <3>00, <4>1
      <4> QED BY <4>1, <4>2
    <3>3. CASE LinkNewTermNextPage(t)
      <4>1. /\ blk # NoBlock /\ PutsBehind(blk, DictionaryPage, meta.dictTail)
            /\ EntryPut(t, NewEntry(blk, ins.owner))
            /\ meta'.dictHead = meta.dictHead /\ meta'.dictTail = blk /\ TermLinked(t)
        BY <1>1, <3>3, LinkBatch
      <4>2. Kept(blk) /\ \A b \in Block : Kept(page'[b].next)
        BY <1>1, <2>0, <4>1 DEF PutsBehind, Turned
      <4>3. \A u \in Term : Kept(dict'[u].head) /\ Kept(dict'[u].tail) /\ Kept(dict'[u].page)
        BY <3>0, <3>00, <4>1, <4>2
      <4> QED BY <4>1, <4>2, <4>3 DEF TermLinked
    <3>4. ASSUME LinkPromote(t) \/ LinkFirstPosting(t) \/ LinkNextPage(t)
          PROVE  /\ Kept(blk) /\ \A b \in Block : Kept(page'[b].next)
      BY <1>1, <2>0, <3>4, LinkedOutput DEF Puts, PutsBehind, Turned
    <3>5. CASE LinkPromote(t)
      <4>1. EntryPut(t, Promoted(dict[t], blk)) /\ meta' = meta
        BY <3>5, LinkBatch
      <4>2. Promoted(dict[t], blk).head = blk /\ Promoted(dict[t], blk).tail = blk
            /\ Promoted(dict[t], blk).page = dict[t].page
        BY DEF Promoted
      <4>3. \A u \in Term : Kept(dict'[u].head) /\ Kept(dict'[u].tail) /\ Kept(dict'[u].page)
        BY <3>0, <3>4, <3>5, <4>1, <4>2
      <4> QED BY <3>4, <3>5, <4>1, <4>3
    <3>6. dict[t] \in TermRecord
      BY <1>0
    <3>7. CASE LinkFirstPosting(t) \/ LinkNextPage(t)
      <4>1. \A h, l : /\ WithChain(dict[t], h, l).head = h /\ WithChain(dict[t], h, l).tail = l
                      /\ WithChain(dict[t], h, l).page = dict[t].page
        BY <3>6 DEF WithChain, TermRecord
      <4>2. /\ meta' = meta
            /\ \/ EntryPut(t, WithChain(dict[t], blk, blk))
               \/ EntryPut(t, WithChain(dict[t], dict[t].head, blk))
        BY <3>7, LinkBatch
      <4>3. \A u \in Term : Kept(dict'[u].head) /\ Kept(dict'[u].tail) /\ Kept(dict'[u].page)
        BY <3>0, <3>4, <3>7, <4>1, <4>2
      <4> QED BY <3>4, <3>7, <4>2, <4>3
    <3>8. CASE LinkInline(t)
      <4>1. EntryPut(t, WithSecond(dict[t], ins.owner)) /\ UNCHANGED <<page, meta>>
        BY <3>8, LinkBatch
      <4>2. /\ WithSecond(dict[t], ins.owner).head = dict[t].page
            /\ WithSecond(dict[t], ins.owner).tail = dict[t].page
            /\ WithSecond(dict[t], ins.owner).page = dict[t].page
        BY DEF WithSecond
      <4>3. \A u \in Term : Kept(dict'[u].head) /\ Kept(dict'[u].tail) /\ Kept(dict'[u].page)
        BY <3>0, <4>1, <4>2
      <4> QED BY <4>1, <4>3
    <3>9. CASE LinkAppend(t)
      <4>1. page' = [page EXCEPT ![dict[t].tail].refs = @ \cup {ins.owner}] /\ UNCHANGED <<meta, dict>>
        BY <3>9, LinkBatch
      <4>2. \A b \in Block : page'[b].next = page[b].next
        BY <1>0, <4>1 DEF PageRecord
      <4> QED BY <4>1, <4>2
    <3> QED BY <2>5, <3>1, <3>2, <3>3, <3>5, <3>7, <3>8, <3>9 DEF LinkTerm
  <2>6. ASSUME NEW t \in Term, CompactInline(t) PROVE Goal
    <3>1. UNCHANGED <<page, meta>> /\ dict' = [dict EXCEPT ![t] = NewEntry(dict[t].page, dict[t].first)]
      BY <2>6 DEF CompactInline, WithoutSecond
    <3>2. EntryPut(t, NewEntry(dict[t].page, dict[t].first))
      BY <1>0, <3>1 DEF EntryPut
    <3> QED BY <3>1, <3>2 DEF EntryPut, NewEntry
  <2>7. CASE PersistReused \/ PersistAllocated
    <3>1. PICK b \in Block :
           /\ Persisted(b, Chunk) /\ page[b].kind \in {"Zero", "Free"}
           /\ (b = meta.free /\ meta'.free = page[b].next) \/ meta'.free = meta.free
           /\ \E out : /\ out = SealedPage(cpt.term, Chunk, cpt.mode = "DirectTid")
                       /\ IF meta.journal.phase = "None" THEN Puts(b, out)
                          ELSE PutsBehind(b, out, meta.journal.tail)
      BY <2>7, PersistedOutput
    <3>2. Kept(b) /\ \A c \in Block : Kept(page'[c].next)
      BY <2>0, <3>1 DEF Puts, PutsBehind, Turned
    <3> QED BY <3>1, <3>2 DEF Persisted, MetaKept
  <2>8. CASE PublishReplacement
    <3>1. Replaced
      BY <2>8, ReplaceBatch
    <3>2. Kept(NewHead) /\ Kept(NewTail)
      BY <3>1 DEF NewHead, NewTail, Replaced
    <3>3. dict[cpt.term] \in TermRecord /\ Kept(cpt.boundary)
      BY <1>0, <1>1, <2>0, <3>1, WrittenKept DEF Replaced, Kept
    <3>4. Kept(Replacement.head) /\ Kept(Replacement.tail) /\ Kept(Replacement.page)
      BY <3>1, <3>2, <3>3 DEF Replacement, WithChain, TermRecord, Replaced
    <3>5. Kept(cpt.source)
      <4>1. CASE cpt.boundary # NoBlock
        BY <3>1, <4>1 DEF Replaced
      <4>2. CASE cpt.boundary = NoBlock
        <5>1. PICK J, S \in SUBSET Block : PostingsHold(J, S)
          BY DEF PostingsSound
        <5>2. cpt.source = dict[cpt.term].head
          BY <3>1, <4>2, <5>1 DEF PostingsHold, RewriteSound, Replaced
        <5> QED BY <3>1, <5>2 DEF Replaced
      <4> QED BY <4>1, <4>2
    <3>6. \A b \in Block : Kept(page'[b].next)
      BY <3>1, <3>2 DEF Replaced, Turned
    <3> QED BY <3>1, <3>4, <3>5, <3>6 DEF Replaced, MetaKept, EntryPut
  <2>9. CASE Recover
    BY <2>0, <2>9, RecoverBatch DEF MetaKept, FreedOne, FreedTwo, Puts, NoJournal
  <2>10. ASSUME NEW b \in Block, SweepFragment(b) \/ ReclaimZero(b) PROVE Goal
    BY <2>0, <2>10, ReclaimBatch DEF Reclaimed, MetaKept, Puts
  <2> QED BY <2>1, <2>2, <2>3, <2>4, <2>5, <2>6, <2>7, <2>8, <2>9, <2>10, StepClasses
<1>6. \A o \in Owner : Kept(owner'[o].head) /\ Kept(owner'[o].page)
  <2>1. CASE Reserve
    BY <1>4, <1>5, <2>1, ReserveBatch
  <2>2. CASE ~Reserve
    BY <1>4, <2>2, SlotNames
  <2> QED BY <2>1, <2>2
<1>7. pc' = "fragment" => Kept(ins'.head)
  <2>1. CASE Reserve
    BY <1>4, <2>1, ReserveBatch DEF InsertSound
  <2>2. CASE StoreFragmentReused \/ StoreFragmentAllocated
    BY <1>1, <2>2, FragmentBatch, PageFields DEF FragmentStored, Puts, Kept
  <2> QED BY <1>4, <2>1, <2>2, InsertNames
<1> QED BY <1>5, <1>6, <1>7 DEF NamesWritten, Written, Kept

-----------------------------------------------------------------------------
(* The insertion under way *)

(* A step that leaves the insertion and what it reads alone *)
Aside == UNCHANGED <<meta, dict, owner, pc, ins>> /\ (PlainStep \/ Allocate)

(* The steps from which an insertion is at one of its stages *)
LEMMA InsertSteps ==
  ASSUME StoreOK, [Next]_vars
  PROVE  /\ pc' = "reserve" => \/ pc = "reserve" /\ Aside
                               \/ \E r \in Root, d \in Document : InsertBegin(r, d)
         /\ pc' = "fragment" => \/ pc = "fragment" /\ Aside
                                \/ Reserve \/ StoreFragmentReused \/ StoreFragmentAllocated
         /\ pc' = "link" => \/ pc = "link" /\ Aside
                            \/ PayloadReady \/ \E t \in Term : LinkTerm(t)
<1>1. CASE UNCHANGED vars
  BY <1>1, UnchangedSame DEF vars, Aside, PlainStep
<1>2. CASE ExtendFails \/ FailedCleanup \/ Interrupt
  BY <1>2 DEF ExtendFails, FailedCleanup, Interrupt, Abandoned
<1>3. CASE Allocate
  BY <1>3 DEF Allocate, Extend, Aside
<1>4. CASE \E r \in Root : HeapDelete(r)
  BY <1>4, UnchangedSame DEF HeapDelete, Aside, PlainStep
<1>5. CASE Starts
  BY <1>5 DEF Starts, VacuumBegin, InsertBegin, CompactBegin
<1>6. CASE Insert
  <2>1. CASE Reserve
    BY <2>1, ReserveBatch
  <2>2. CASE StoreFragmentReused \/ StoreFragmentAllocated
    BY <2>2 DEF StoreFragmentReused, StoreFragmentAllocated, FragmentNeedsBlock
  <2>3. CASE PayloadReady
    BY <2>3 DEF PayloadReady
  <2>4. ASSUME NEW t \in Term, LinkTerm(t) PROVE pc' = "link"
    BY <2>4 DEF LinkTerm, LinkFirstTerm, LinkNewTerm, LinkNewTermNextPage, LinkPromote,
         LinkInline, LinkFirstPosting, LinkAppend, LinkNextPage, LinkReady, Linked
  <2>5. CASE Publish
    BY <2>5 DEF Publish
  <2> QED BY <1>6, <2>1, <2>2, <2>3, <2>4, <2>5 DEF Insert, Reserve
<1>7. CASE Recover
  BY <1>7, RecoverBatch
<1>8. CASE Compaction
  <2>1. pc' \notin {"reserve", "fragment", "link"}
    BY <1>8 DEF Compaction, CompactSkip, CompactInline, RewriteBegin, Visit, PersistReused,
         PersistAllocated, PersistOutput, PublishReplacement, PublishRejected, RecoverEndCompact,
         CompactEnd
  <2> QED BY <2>1
<1>9. CASE VacuumPass
  <2>1. pc' \notin {"reserve", "fragment", "link"}
    BY <1>9 DEF VacuumPass, RecoverEndVacuum, RemoveOwners, SweepDirect, SweepFragment,
         ReclaimZero, SweepNext, SweepEnd, VacuumEnd, Reclaim
  <2> QED BY <2>1
<1> QED BY <1>1, <1>2, <1>3, <1>4, <1>5, <1>6, <1>7, <1>8, <1>9 DEF Next, Step, Starts

(* The posting pages of a term are the same pages with the same contents. *)
PostsOf(t) == Postings(t)' = Postings(t) /\ \A b \in Postings(t) : Same(b)

(* A step that touches no posting page *)
LEMMA PostsKept ==
  ASSUME NEW K, Touches(K), K \cap PostingKind = {}
  PROVE  /\ Posts' = Posts /\ \A b \in Posts : Same(b)
         /\ \A t : PostsOf(t)
<1>1. Posts' = Posts /\ \A b \in Posts : Same(b)
  BY DEF Touches, Posts, Same, Turned
<1>2. ASSUME NEW t PROVE PostsOf(t)
  BY <1>1 DEF PostsOf, Postings, Same, Turned
<1> QED BY <1>1, <1>2

(* Where a step is aside or writes fragments, owners or dictionary pages,  *)
(* no posting page changes.                                                *)
LEMMA QuietPosts ==
  ASSUME StoreOK, OwnersChained, DictChained, PostingsSound,
         \/ PlainStep \/ Allocate \/ Reserve \/ StoreFragmentReused \/ StoreFragmentAllocated
         \/ \E t \in Term : \/ LinkFirstTerm(t) \/ LinkNewTerm(t) \/ LinkNewTermNextPage(t)
                            \/ LinkInline(t) \/ CompactInline(t)
         \/ \E b \in Block : SweepFragment(b) \/ ReclaimZero(b)
  PROVE  Posts' = Posts /\ (\A b \in Posts : Same(b)) /\ \A t : PostsOf(t)
<1>1. \E K : Touches(K) /\ K \cap PostingKind = {}
  <2>1. \/ Touches({}) \/ Touches({"None", "Zero"}) \/ Touches({"Zero", "Owners"})
        \/ Touches({"Zero", "Free", "Fragment"}) \/ Touches({"Zero", "Dictionary"})
        \/ Touches({"Fragment", "Free"}) \/ Touches({"Zero", "Free"})
    BY StepTouches, AllocateBatch
  <2>2. /\ {} \cap PostingKind = {} /\ {"None", "Zero"} \cap PostingKind = {}
        /\ {"Zero", "Owners"} \cap PostingKind = {}
        /\ {"Zero", "Free", "Fragment"} \cap PostingKind = {}
        /\ {"Zero", "Dictionary"} \cap PostingKind = {}
        /\ {"Fragment", "Free"} \cap PostingKind = {} /\ {"Zero", "Free"} \cap PostingKind = {}
    BY DEF PostingKind
  <2> QED BY <2>1, <2>2
<1> QED BY <1>1, PostsKept

(* A written page of t leaves the pages of the other terms alone. *)
LEMMA OtherPosts ==
  ASSUME NEW t, NEW u, u # t, NEW b \in Block, NEW new, NEW c, page[b].kind \notin PostingKind,
         new.term = t,
         Puts(b, new) \/ (PutsBehind(b, new, c) /\ page[c].kind \in PostingKind /\ page[c].term = t)
  PROVE  PostsOf(u)
BY DEF PostsOf, Postings, Posts, Puts, PutsBehind, Same, Turned

(* link_term() leaves the postings of other terms alone. *)
LEMMA LinkOther ==
  ASSUME StoreOK, NamesWritten, OwnersChained, DictChained, PostingsSound,
         NEW t \in Term, LinkTerm(t), NEW u \in Term, u # t
  PROVE  PostsOf(u) /\ dict'[u] = dict[u]
<1>1. dict'[u] = dict[u]
  BY LinkBatch DEF LinkTerm, EntryPut
<1>2. CASE LinkFirstTerm(t) \/ LinkNewTerm(t) \/ LinkNewTermNextPage(t) \/ LinkInline(t)
  BY <1>1, <1>2, QuietPosts
<1>3. CASE LinkPromote(t) \/ LinkFirstPosting(t) \/ LinkNextPage(t)
  <2>1. blk # NoBlock
    BY <1>3, LinkedOutput
  <2>2. blk \in Block /\ page[blk].kind \notin PostingKind
    BY <2>1, Allocated DEF PostingKind
  <2>3. LinkNextPage(t) => page[dict[t].tail].kind \in PostingKind /\ page[dict[t].tail].term = t
    BY LinkBatch DEF PostingTail
  <2>4. \A R : PostingsPage(t, R).term = t
    BY PageFields
  <2> QED BY <1>1, <1>3, <2>2, <2>3, <2>4, LinkedOutput, OtherPosts
<1>4. CASE LinkAppend(t)
  <2>1. /\ page' = [page EXCEPT ![dict[t].tail].refs = @ \cup {ins.owner}]
        /\ page[dict[t].tail].kind \in PostingKind /\ page[dict[t].tail].term = t
    BY <1>4, LinkBatch DEF PostingTail
  <2>2. page \in [Block -> PageRecord]
    BY DEF StoreOK, TypeOK
  <2> DEFINE c == dict[t].tail
  <2>3. \A b \in Block : b # c => page'[b] = page[b]
    BY <2>1, <2>2
  <2>4. c \in Block => page'[c].kind = page[c].kind /\ page'[c].term = page[c].term
    BY <2>1, <2>2 DEF PageRecord
  <2> HIDE DEF c
  <2>5. page[c].term = t
    BY <2>1 DEF c
  <2>6. PostsOf(u)
    BY <2>3, <2>4, <2>5 DEF PostsOf, Postings, Posts, Same, Turned
  <2> QED BY <1>1, <2>6
<1> QED BY <1>2, <1>3, <1>4 DEF LinkTerm

(* A reference is to an incarnation in use. *)
LEMMA RefersFacts ==
  ASSUME StoreOK, NEW t, NEW o, Refers(t, o)
  PROVE  o \in Owner /\ o \in Nat /\ o < meta.inc /\ meta.inc \in Nat
BY BoundAssumption DEF Refers, StoreOK, ImageCurrent, MetapageCurrent, TypeOK, MetaRecord, Owner

(* What has not been linked before stays unlinked. *)
LEMMA UnlinkedKept ==
  ASSUME NEW t \in Term, Unlinked(t), PostsOf(t), dict'[t] = dict[t], ins'.owner = ins.owner
  PROVE  Unlinked(t)'
BY DEF Unlinked, PostsOf, Same, Turned

(* The insertion under way keeps the newest incarnation and its own slot,  *)
(* and links a term once.                                                  *)
LEMMA InsertSoundStep ==
  ASSUME StoreOK, NamesWritten, OwnersChained, DictChained, InsertSound, PostingsSound,
         [Next]_vars
  PROVE  InsertSound'
<1>0. /\ TypeOK /\ owner \in [Owner -> OwnerRecord] /\ ins \in InsertRecord
      /\ pc \in {"fragment", "link"} => ins.owner \in Owner
  BY DEF StoreOK, TypeOK, ImageCurrent, MetapageCurrent
<1>1. CASE Aside /\ pc \in {"reserve", "fragment", "link"}
  <2>1. \A t : PostsOf(t)
    BY <1>1, QuietPosts DEF Aside
  <2>2. UNCHANGED <<meta, dict, owner, pc, ins>>
    BY <1>1 DEF Aside
  <2>3. \A t \in Term : Unlinked(t) => Unlinked(t)'
    BY <2>1, <2>2, UnlinkedKept
  <2> QED BY <2>2, <2>3 DEF InsertSound
<1>2. ASSUME NEW r \in Root, NEW d \in Document, InsertBegin(r, d) PROVE InsertSound'
  BY <1>2 DEF InsertBegin, NoInsert, InsertSound, NoBlock
<1>3. CASE Reserve
  <2>1. PICK J, S \in SUBSET Block : PostingsHold(J, S)
    BY DEF PostingsSound
  <2>2. /\ meta'.inc = meta.inc + 1 /\ meta.inc \in Owner /\ ins'.owner = meta.inc
        /\ ins'.doc = ins.doc /\ pc' = "fragment" /\ dict' = dict
        /\ owner'[meta.inc].doc = ins.doc /\ owner'[meta.inc].pub = "Allocated"
    BY <1>3, ReserveBatch
  <2>3. \A t : PostsOf(t)
    BY <1>3, QuietPosts
  <2>4. ASSUME NEW t \in Term PROVE Unlinked(t)'
    <3>1. dict[t].first # meta.inc
      <4>1. CASE dict[t].page = NoBlock
        <5>1. dict[t] = NoEntry
          BY <2>1, <4>1 DEF PostingsHold, EntriesSound
        <5> QED BY <2>2, <5>1 DEF NoEntry, NoOwner, Owner
      <4>2. CASE dict[t].page # NoBlock
        <5>1. Refers(t, dict[t].first)
          BY <2>1, <4>2 DEF PostingsHold, RefsSound
        <5> QED BY <5>1, RefersFacts
      <4> QED BY <4>1, <4>2
    <3>2. \A b \in Postings(t) : meta.inc \notin page[b].refs
      <4>1. \A b \in Postings(t) : \A o \in page[b].refs : Refers(t, o)
        BY <2>1 DEF PostingsHold, RefsSound, Postings
      <4> QED BY <4>1, RefersFacts
    <3> QED BY <2>2, <2>3, <3>1, <3>2 DEF Unlinked, PostsOf, Same, Turned
  <2>5. meta'.inc - 1 = meta.inc
    BY <2>2 DEF Owner
  <2> QED BY <2>2, <2>4, <2>5 DEF InsertSound
<1>4. CASE StoreFragmentReused \/ StoreFragmentAllocated
  <2>1. /\ pc = "fragment" /\ ins'.owner = ins.owner /\ ins'.doc = ins.doc
        /\ UNCHANGED <<dict, owner, pc>>
    BY <1>4, FragmentBatch DEF FragmentStored
  <2>2. meta'.inc = meta.inc
    <3>1. meta' = meta \/ meta' = [meta EXCEPT !.free = page[meta.free].next]
      BY <1>4, FragmentBatch
    <3> QED BY <3>1 DEF StoreOK, TypeOK, MetaRecord
  <2>3. \A t : PostsOf(t)
    BY <1>4, QuietPosts
  <2>4. \A t \in Term : Unlinked(t) => Unlinked(t)'
    BY <2>1, <2>3, UnlinkedKept
  <2> QED BY <2>1, <2>2, <2>4 DEF InsertSound
<1>5. CASE PayloadReady
  <2>1. /\ pc = "fragment" /\ pc' = "link" /\ UNCHANGED <<page, meta, dict>>
        /\ ins' = [ins EXCEPT !.todo = ins.doc.terms]
        /\ owner' = [owner EXCEPT ![ins.owner] =
             [owner[ins.owner] EXCEPT !.pub = "FragmentsWritten", !.head = ins.head]]
    BY <1>5 DEF PayloadReady, Changed
  <2>2. ins'.todo = ins.doc.terms /\ ins'.owner = ins.owner /\ ins'.doc = ins.doc
    BY <1>0, <2>1 DEF InsertRecord
  <2>3. owner'[ins.owner].pub = "FragmentsWritten" /\ owner'[ins.owner].doc = owner[ins.owner].doc
    BY <1>0, <2>1 DEF OwnerRecord
  <2>4. \A t : PostsOf(t)
    BY <2>1 DEF PostsOf, Postings, Posts, Same, Turned
  <2>5. \A t \in Term : Unlinked(t) => Unlinked(t)'
    BY <2>1, <2>2, <2>4, UnlinkedKept
  <2> QED BY <2>1, <2>2, <2>3, <2>5 DEF InsertSound
<1>6. ASSUME NEW t \in Term, LinkTerm(t) PROVE InsertSound'
  <2>1. TermLinked(t)
    BY <1>6, LinkBatch DEF LinkTerm
  <2>2. /\ pc = "link" /\ ins'.todo = ins.todo \ {t} /\ ins'.owner = ins.owner /\ ins'.doc = ins.doc
        /\ UNCHANGED <<owner, pc>> /\ meta'.inc = meta.inc
    BY <2>1 DEF TermLinked
  <2>3. ASSUME NEW u \in Term, u # t, Unlinked(u) PROVE Unlinked(u)'
    BY <1>6, <2>2, <2>3, LinkOther, UnlinkedKept
  <2> QED BY <2>2, <2>3 DEF InsertSound
<1>7. CASE pc' \notin {"reserve", "fragment", "link"}
  BY <1>7 DEF InsertSound
<1> QED BY <1>1, <1>2, <1>3, <1>4, <1>5, <1>6, <1>7, InsertSteps


-----------------------------------------------------------------------------
(* Payloads *)

(* The fragments of o are the same pages with the same contents. *)
FragsOf(o) == Fragments(o)' = Fragments(o) /\ \A b \in Fragments(o) : Same(b)

(* A payload none of whose fragments change is the same payload. *)
LEMMA PayloadKept ==
  ASSUME TypeOK, NEW o, NEW d, NEW i, NEW h, PayloadFrom(o, d, i, h), FragsOf(o)
  PROVE  PayloadFrom(o, d, i, h)'
<1>1. PICK F : F = Fragments(o)
  OBVIOUS
<1>2. /\ F \in SUBSET Block /\ NoBlock = 0 /\ 0 \notin F
      /\ \A b \in F : Link[b] = page[b].next
  BY <1>1, LinkFacts2 DEF Fragments
<1>3. /\ Fragments(o)' = F
      /\ \A b \in F : page'[b].next = page[b].next /\ page'[b].index = page[b].index
  BY <1>1 DEF FragsOf, Same, Turned
<1>4. PICK t \in BlockOrNone : Chained(Link, F, h, t)
  BY <1>1 DEF PayloadFrom
<1>5. Chained(Link', F, h, t)
  BY <1>2, <1>3, <1>4, ChainKept
<1>6. /\ h # NoBlock => h \in F
      /\ \A b \in F : page[b].next = NoBlock \/ page[b].next \in F
  <2>1. /\ h # 0 => h \in F /\ t \in F /\ Link[t] = 0
        /\ \A b \in F : b # t => Link[b] \in F
    BY <1>2, <1>4, ChainedFacts
  <2>2. (h = 0) = (F = {})
    BY <1>2, <1>4, ChainedFacts
  <2> QED BY <1>2, <2>1, <2>2
<1>7. /\ i \in 0 .. d.frags /\ Cardinality(F) = d.frags - i
      /\ h # NoBlock => page[h].index = i
      /\ \A b \in F :
           IF page[b].next = NoBlock THEN page[b].index + 1 = d.frags
           ELSE page[page[b].next].index = page[b].index + 1
  BY <1>1 DEF PayloadFrom
<1>8. \A b \in F :
        IF page'[b].next = NoBlock THEN page'[b].index + 1 = d.frags
        ELSE page'[page'[b].next].index = page'[b].index + 1
  BY <1>3, <1>6, <1>7
<1>9. h # NoBlock => page'[h].index = i
  BY <1>3, <1>6, <1>7
<1>10. \A b \in F : page'[b].index \in i .. (d.frags - 1)
  BY <1>1, <1>3 DEF PayloadFrom
<1> QED BY <1>3, <1>5, <1>7, <1>8, <1>9, <1>10 DEF PayloadFrom

(* A step that does not touch fragments keeps those of every owner. *)
LEMMA FragsKept ==
  ASSUME NEW K, Touches(K), "Fragment" \notin K
  PROVE  /\ \A o : FragsOf(o)
         /\ \A b \in Block : page'[b].kind = "Fragment" =>
              page[b].kind = "Fragment" /\ page'[b].owner = page[b].owner
BY DEF Touches, FragsOf, Fragments, Same, Turned

(* The steps that touch fragments *)
FragmentStep ==
  \/ StoreFragmentReused \/ StoreFragmentAllocated \/ \E b \in Block : SweepFragment(b)

(* All others keep them. *)
LEMMA OtherSteps ==
  ASSUME StoreOK, OwnersChained, DictChained, PostingsSound, [Next]_vars, ~FragmentStep
  PROVE  /\ \A o : FragsOf(o)
         /\ \A b \in Block : page'[b].kind = "Fragment" =>
              page[b].kind = "Fragment" /\ page'[b].owner = page[b].owner
<1>1. \/ Touches({}) \/ Touches({"None", "Zero"}) \/ Touches({"Zero", "Owners"})
      \/ Touches({"Zero", "Dictionary"}) \/ Touches({"Zero"} \cup PostingKind)
      \/ Touches({"Zero", "Free"} \cup PostingKind) \/ Touches(PostingKind)
      \/ Touches({"Free"} \cup PostingKind) \/ Touches({"Zero", "Free"})
  <2>1. CASE PlainStep \/ Allocate \/ Reserve
    BY <2>1, StepTouches, AllocateBatch
  <2>2. ASSUME NEW t \in Term, LinkTerm(t) \/ CompactInline(t)
        PROVE  Touches({}) \/ Touches({"Zero", "Dictionary"}) \/ Touches({"Zero"} \cup PostingKind)
    BY <2>2, StepTouches DEF LinkTerm
  <2>3. CASE PersistReused \/ PersistAllocated \/ PublishReplacement \/ Recover
    BY <2>3, StepTouches
  <2>4. ASSUME NEW b \in Block, ReclaimZero(b) PROVE Touches({"Zero", "Free"})
    BY <2>4, StepTouches
  <2> QED BY <2>1, <2>2, <2>3, <2>4, StepClasses DEF FragmentStep
<1>2. /\ "Fragment" \notin {} /\ "Fragment" \notin {"None", "Zero"}
      /\ "Fragment" \notin {"Zero", "Owners"} /\ "Fragment" \notin {"Zero", "Dictionary"}
      /\ "Fragment" \notin {"Zero"} \cup PostingKind
      /\ "Fragment" \notin {"Zero", "Free"} \cup PostingKind /\ "Fragment" \notin PostingKind
      /\ "Fragment" \notin {"Free"} \cup PostingKind /\ "Fragment" \notin {"Zero", "Free"}
  BY DEF PostingKind
<1>3. \E K : Touches(K) /\ "Fragment" \notin K
  BY <1>1, <1>2
<1> QED BY <1>3, FragsKept

(* A fragment that is stored or reclaimed belongs to one owner. *)
LEMMA FragmentsElsewhere ==
  ASSUME StoreOK, NEW b \in Block, NEW o,
         \/ FragmentStored(b) /\ page[b].kind # "Fragment" /\ o # ins.owner
         \/ Reclaimed(b) /\ page[b].owner # o
  PROVE  FragsOf(o)
<1>1. CASE FragmentStored(b) /\ page[b].kind # "Fragment" /\ o # ins.owner
  <2>1. Puts(b, FragmentPage(ins.owner, ins.left - 1, ins.head))
    BY <1>1 DEF FragmentStored
  <2>2. page'[b].kind = "Fragment" /\ page'[b].owner = ins.owner
    BY <2>1, PageFields DEF Puts
  <2> QED BY <1>1, <2>1, <2>2 DEF Puts, FragsOf, Fragments, Same, Turned
<1>2. CASE Reclaimed(b) /\ page[b].owner # o
  <2>1. Puts(b, FreePage(meta.free))
    BY <1>2 DEF Reclaimed
  <2>2. page'[b].kind = "Free"
    BY <2>1, PageFields DEF Puts
  <2> QED BY <1>2, <2>1, <2>2 DEF Puts, FragsOf, Fragments, Same, Turned
<1> QED BY <1>1, <1>2

(* A live owner that stays live keeps its document and its payload. *)
LEMMA LiveSlot ==
  ASSUME StoreOK, [Next]_vars, NEW o \in Owner, Live(o), Live(o)'
  PROVE  owner'[o].doc = owner[o].doc /\ owner'[o].head = owner[o].head
<1>0. TypeOK /\ owner \in [Owner -> OwnerRecord] /\ owner[o] \in OwnerRecord
  BY DEF StoreOK, TypeOK
<1>1. CASE UNCHANGED owner
  BY <1>1
<1>2. CASE PayloadReady \/ Publish
  <2>1. /\ owner[ins.owner].pub # "Published"
        /\ \E e : owner' = [owner EXCEPT ![ins.owner] = e]
    BY <1>2 DEF PayloadReady, Publish, CanChange
  <2> QED BY <1>0, <2>1 DEF Live
<1>3. CASE RemoveOwners
  <2>1. owner'[o] = Retired(o)
    BY <1>3 DEF RemoveOwners
  <2>2. \/ Retired(o) = owner[o] \/ Retired(o) = [owner[o] EXCEPT !.live = FALSE, !.head = NoBlock]
        \/ Retired(o) = [owner[o] EXCEPT !.pub = "Abandoned", !.head = NoBlock]
    BY DEF Retired, Changed
  <2>3. CASE Retired(o) = [owner[o] EXCEPT !.live = FALSE, !.head = NoBlock]
    <3>1. ~owner'[o].live
      BY <1>0, <2>1, <2>3 DEF OwnerRecord
    <3> QED BY <3>1 DEF Live
  <2>4. CASE Retired(o) = [owner[o] EXCEPT !.pub = "Abandoned", !.head = NoBlock]
    <3>1. owner'[o].pub = "Abandoned"
      BY <1>0, <2>1, <2>4 DEF OwnerRecord
    <3> QED BY <3>1 DEF Live
  <2> QED BY <2>1, <2>2, <2>3, <2>4
<1>4. CASE Reserve
  <2>1. o # meta.inc
    BY DEF StoreOK, ImageCurrent, MetapageCurrent, TypeOK, MetaRecord, Live, Owner
  <2> QED BY <1>4, <2>1, ReserveBatch
<1>5. \/ PayloadReady \/ Publish \/ RemoveOwners \/ Reserve \/ UNCHANGED owner
  <2>1. RecoverEndVacuum \/ SweepEnd \/ VacuumEnd => UNCHANGED owner
    BY DEF RecoverEndVacuum, SweepEnd, VacuumEnd
  <2>2. Starts \/ Abandoned \/ (\E r \in Root : HeapDelete(r)) => UNCHANGED owner
    BY DEF Starts, VacuumBegin, InsertBegin, CompactBegin, Abandoned, HeapDelete
  <2>3. (\E t \in Term : RewriteBegin(t)) \/ QuietStep => UNCHANGED owner
    BY DEF RewriteBegin, QuietStep
  <2> QED BY <1>0, <2>1, <2>2, <2>3, StepKinds
<1> QED BY <1>1, <1>2, <1>3, <1>4, <1>5

(* A fragment in front of a payload *)
LEMMA PayloadGrows ==
  ASSUME TypeOK, NEW b \in Block, page[b].kind # "Fragment",
         NEW o, NEW d, d.frags \in Nat, NEW i \in Nat, i > 0, NEW h,
         PayloadFrom(o, d, i, h), Puts(b, FragmentPage(o, i - 1, h))
  PROVE  PayloadFrom(o, d, i - 1, b)'
<1>1. PICK F : F = Fragments(o)
  OBVIOUS
<1>2. /\ F \in SUBSET Block /\ NoBlock = 0 /\ 0 \notin F /\ b \notin F
      /\ \A c \in F : Link[c] = page[c].next
  BY <1>1, LinkFacts2 DEF Fragments
<1>3. /\ page'[b].kind = "Fragment" /\ page'[b].owner = o /\ page'[b].index = i - 1
      /\ page'[b].next = h
      /\ \A c \in Block : c # b => page'[c] = page[c]
  BY PageFields DEF Puts
<1>4. Fragments(o)' = F \cup {b}
  BY <1>1, <1>3 DEF Fragments
<1>5. PICK t \in BlockOrNone : Chained(Link, F, h, t)
  BY <1>1 DEF PayloadFrom
<1>6. Chained(Link', F \cup {b}, b, IF t = NoBlock THEN b ELSE t)
  <2>1. \A c \in F : page'[c].next = page[c].next
    BY <1>2, <1>3
  <2> QED BY <1>2, <1>3, <1>5, <2>1, ChainPushed
<1>7. (IF t = NoBlock THEN b ELSE t) \in BlockOrNone
  BY DEF BlockOrNone
<1>8. /\ h # NoBlock => h \in F
      /\ h = NoBlock => F = {}
      /\ \A c \in F : page[c].next = NoBlock \/ page[c].next \in F
  <2>1. /\ h # 0 => h \in F /\ t \in F /\ Link[t] = 0
        /\ \A c \in F : c # t => Link[c] \in F
    BY <1>2, <1>5, ChainedFacts
  <2>2. (h = 0) = (F = {})
    BY <1>2, <1>5, ChainedFacts
  <2> QED BY <1>2, <2>1, <2>2
<1>9. /\ i \in 0 .. d.frags /\ Cardinality(F) = d.frags - i
      /\ h # NoBlock => page[h].index = i
      /\ \A c \in F :
           IF page[c].next = NoBlock THEN page[c].index + 1 = d.frags
           ELSE page[page[c].next].index = page[c].index + 1
  BY <1>1 DEF PayloadFrom
<1>10. Cardinality(F \cup {b}) = d.frags - (i - 1)
  <2>1. IsFiniteSet(Block)
    BY BoundAssumption, FS_Interval DEF Block
  <2>2. IsFiniteSet(F)
    BY <1>2, <2>1, FS_Subset
  <2>3. Cardinality(F \cup {b}) = Cardinality(F) + 1
    BY <1>2, <2>2, FS_AddElement
  <2> QED BY <1>9, <2>3
<1>11. i - 1 \in 0 .. d.frags
  BY <1>9
<1>12. ASSUME NEW c \in F
       PROVE  IF page'[c].next = NoBlock THEN page'[c].index + 1 = d.frags
              ELSE page'[page'[c].next].index = page'[c].index + 1
  <2>1. page'[c] = page[c] /\ (page[c].next # NoBlock => page'[page[c].next] = page[page[c].next])
    BY <1>2, <1>3, <1>8
  <2> QED BY <1>9, <2>1
<1>13. IF page'[b].next = NoBlock THEN page'[b].index + 1 = d.frags
       ELSE page'[page'[b].next].index = page'[b].index + 1
  <2>1. CASE h = NoBlock
    <3>1. Cardinality(F) = 0
      BY <1>8, <2>1, FS_EmptySet
    <3> QED BY <1>3, <1>9, <2>1, <3>1
  <2>2. CASE h # NoBlock
    <3>1. page'[h] = page[h]
      BY <1>2, <1>3, <1>8, <2>2
    <3> QED BY <1>3, <1>9, <2>2, <3>1
  <2> QED BY <2>1, <2>2
<1>14. ASSUME NEW c \in F \cup {b} PROVE page'[c].index \in (i - 1) .. (d.frags - 1)
  <2>1. CASE c = b
    BY <1>3, <1>9, <2>1
  <2>2. CASE c # b
    <3>1. c \in F /\ page'[c] = page[c]
      BY <1>2, <1>3, <1>14, <2>2
    <3>2. page[c].index \in i .. (d.frags - 1)
      BY <1>1, <3>1 DEF PayloadFrom
    <3> QED BY <3>1, <3>2
  <2> QED BY <2>1, <2>2
<1> QED BY <1>3, <1>4, <1>6, <1>7, <1>10, <1>11, <1>12, <1>13, <1>14 DEF PayloadFrom

(* No step writes, moves or reclaims a fragment of a live owner. *)
LEMMA LivePayloadKept ==
  ASSUME StoreOK, OwnersChained, DictChained, InsertSound, PostingsSound, [Next]_vars,
         NEW o \in Owner, Live(o)
  PROVE  FragsOf(o)
<1>1. ASSUME StoreFragmentReused \/ StoreFragmentAllocated
      PROVE  \E b \in Block : FragmentStored(b) /\ page[b].kind \in {"Zero", "Free"}
  BY <1>1, FragmentBatch, BlockFacts DEF StoreOK
<1>2. CASE ~FragmentStep
  BY <1>2, OtherSteps
<1>3. CASE StoreFragmentReused \/ StoreFragmentAllocated
  <2>1. PICK b \in Block : FragmentStored(b) /\ page[b].kind \in {"Zero", "Free"}
    BY <1>1, <1>3
  <2>2. o # ins.owner
    BY <2>1 DEF FragmentStored, InsertSound, Live
  <2> QED BY <2>1, <2>2, FragmentsElsewhere
<1>4. ASSUME NEW b \in Block, SweepFragment(b) PROVE FragsOf(o)
  <2>1. Reclaimed(b) /\ ~Live(page[b].owner)
    BY <1>4, ReclaimBatch DEF DeadFragment
  <2>2. page[b].owner # o
    BY <2>1
  <2> QED BY <2>1, <2>2, FragmentsElsewhere
<1> QED BY <1>2, <1>3, <1>4 DEF FragmentStep

(* Payloads stay what the slots and the insertion under way say. *)
LEMMA PayloadsSoundStep ==
  ASSUME StoreOK, OwnersChained, DictChained, InsertSound, PayloadsSound, PostingsSound,
         [Next]_vars
  PROVE  PayloadsSound'
<1>0. /\ TypeOK /\ ImageCurrent /\ ins \in InsertRecord /\ owner \in [Owner -> OwnerRecord]
      /\ pc \in {"fragment", "link"} => ins.owner \in Owner
  BY DEF StoreOK, TypeOK, ImageCurrent, MetapageCurrent
<1>1. ASSUME StoreFragmentReused \/ StoreFragmentAllocated
      PROVE  \E b \in Block : FragmentStored(b) /\ page[b].kind \in {"Zero", "Free"}
  BY <1>0, <1>1, FragmentBatch, BlockFacts
<1>2. ASSUME NEW b \in Block, page'[b].kind = "Fragment"
      PROVE  page'[b].owner \in Owner /\ owner'[page'[b].owner].pub # "None"
  <2>1. CASE page[b].kind = "Fragment" /\ page'[b].owner = page[b].owner
    <3>1. page[b].owner \in Owner /\ owner[page[b].owner].pub # "None"
      BY <2>1 DEF PayloadsSound
    <3> QED BY <1>0, <2>1, <3>1, SlotFacts
  <2>2. CASE ~FragmentStep
    BY <1>2, <2>1, <2>2, OtherSteps
  <2>3. CASE StoreFragmentReused \/ StoreFragmentAllocated
    <3>1. PICK c \in Block : FragmentStored(c)
      BY <1>1, <2>3
    <3>2. /\ pc = "fragment" /\ owner' = owner
          /\ Puts(c, FragmentPage(ins.owner, ins.left - 1, ins.head))
      BY <3>1 DEF FragmentStored
    <3>3. page'[c].owner = ins.owner /\ \A e \in Block : e # c => page'[e] = page[e]
      BY <3>2, PageFields DEF Puts
    <3>4. owner[ins.owner].pub = "Allocated"
      BY <3>2 DEF InsertSound
    <3> QED BY <1>0, <1>2, <2>1, <3>2, <3>3, <3>4
  <2>4. ASSUME NEW c \in Block, SweepFragment(c)
        PROVE  page[b].kind = "Fragment" /\ page'[b].owner = page[b].owner
    <3>1. Puts(c, FreePage(meta.free))
      BY <2>4, ReclaimBatch DEF Reclaimed
    <3> QED BY <1>2, <3>1, PageFields DEF Puts
  <2> QED BY <2>1, <2>2, <2>3, <2>4 DEF FragmentStep
<1>3. \A o \in Owner : Live(o) => FragsOf(o)
  BY LivePayloadKept
<1>4. ASSUME NEW o \in Owner, Live(o)' PROVE PayloadFrom(o, owner[o].doc, 0, owner[o].head)'
  <2>1. ASSUME NEW d, NEW h, PayloadFrom(o, d, 0, h), FragsOf(o), owner'[o].doc = d, owner'[o].head = h
        PROVE  PayloadFrom(o, owner[o].doc, 0, owner[o].head)'
    <3>1. PayloadFrom(o, d, 0, h)'
      BY <1>0, <2>1, PayloadKept
    <3> QED BY <2>1, <3>1
  <2>2. CASE Live(o)
    <3>1. PayloadFrom(o, owner[o].doc, 0, owner[o].head)
      BY <2>2 DEF PayloadsSound
    <3> QED BY <1>3, <1>4, <2>1, <2>2, <3>1, LiveSlot
  <2>3. CASE Publish /\ o = ins.owner
    <3>1. /\ pc = "link" /\ UNCHANGED page
          /\ owner' = [owner EXCEPT ![ins.owner] =
               [owner[ins.owner] EXCEPT !.pub = "Published", !.live = TRUE]]
      BY <2>3 DEF Publish, Changed
    <3>2. owner'[o].doc = owner[o].doc /\ owner'[o].head = owner[o].head
      BY <1>0, <2>3, <3>1 DEF OwnerRecord
    <3>3. FragsOf(o)
      BY <3>1 DEF FragsOf, Fragments, Same, Turned
    <3>4. PayloadFrom(o, owner[o].doc, 0, owner[o].head)
      BY <2>3, <3>1 DEF PayloadsSound
    <3> QED BY <2>1, <3>2, <3>3, <3>4
  <2> QED BY <1>0, <1>4, <2>2, <2>3, SlotFacts
<1>5. ASSUME pc' = "link" PROVE PayloadFrom(ins.owner, owner[ins.owner].doc, 0, owner[ins.owner].head)'
  <2>0. ASSUME NEW o, NEW d, NEW h, PayloadFrom(o, d, 0, h), FragsOf(o),
               ins'.owner = o, owner'[o].doc = d, owner'[o].head = h
        PROVE  PayloadFrom(ins.owner, owner[ins.owner].doc, 0, owner[ins.owner].head)'
    <3>1. PayloadFrom(o, d, 0, h)'
      BY <1>0, <2>0, PayloadKept
    <3> QED BY <2>0, <3>1
  <2>1. CASE pc = "link" /\ (Aside \/ \E t \in Term : LinkTerm(t))
    <3>1. ins'.owner = ins.owner /\ owner' = owner
      BY <2>1, LinkBatch DEF LinkTerm, TermLinked, Aside
    <3>2. PayloadFrom(ins.owner, owner[ins.owner].doc, 0, owner[ins.owner].head)
      BY <1>0, <2>1 DEF PayloadsSound
    <3>3. ~FragmentStep
      BY <2>1 DEF FragmentStep, StoreFragmentReused, StoreFragmentAllocated, FragmentNeedsBlock,
                  SweepFragment, SweepNext
    <3> QED BY <2>0, <3>1, <3>2, <3>3, OtherSteps
  <2>2. CASE PayloadReady
    <3>1. /\ pc = "fragment" /\ ins.left = 0 /\ UNCHANGED page
          /\ ins' = [ins EXCEPT !.todo = ins.doc.terms]
          /\ owner' = [owner EXCEPT ![ins.owner] =
               [owner[ins.owner] EXCEPT !.pub = "FragmentsWritten", !.head = ins.head]]
      BY <2>2 DEF PayloadReady, Changed
    <3>2. ins'.owner = ins.owner
      BY <1>0, <3>1 DEF InsertRecord
    <3>3. owner'[ins.owner].doc = owner[ins.owner].doc /\ owner'[ins.owner].head = ins.head
      BY <1>0, <3>1 DEF OwnerRecord
    <3>4. owner[ins.owner].doc = ins.doc
      BY <3>1 DEF InsertSound
    <3>5. PayloadFrom(ins.owner, ins.doc, 0, ins.head)
      BY <3>1 DEF PayloadsSound
    <3>6. \A o : FragsOf(o)
      BY <3>1 DEF FragsOf, Fragments, Same, Turned
    <3> QED BY <2>0, <3>2, <3>3, <3>4, <3>5, <3>6
  <2>3. ASSUME NEW t \in Term, LinkTerm(t) PROVE pc = "link"
    BY <2>3, LinkBatch DEF LinkTerm, TermLinked
  <2> QED BY <1>5, <2>1, <2>2, <2>3, InsertSteps
<1>6. ASSUME pc' = "fragment" PROVE PayloadFrom(ins.owner, ins.doc, ins.left, ins.head)'
  <2>0. ASSUME NEW o, NEW d, NEW i, NEW h, PayloadFrom(o, d, i, h)', ins'.owner = o, ins'.doc = d,
               ins'.left = i, ins'.head = h
        PROVE  PayloadFrom(ins.owner, ins.doc, ins.left, ins.head)'
    BY <2>0
  <2>d. ins.doc.frags \in Nat /\ ins.left \in Nat
    BY <1>0, DocumentFacts DEF InsertRecord
  <2>1. CASE pc = "fragment" /\ Aside
    <3>1. PayloadFrom(ins.owner, ins.doc, ins.left, ins.head) /\ ins' = ins
      BY <2>1 DEF PayloadsSound, Aside
    <3>2. \A o : FragsOf(o)
      <4>1. Touches({}) \/ Touches({"None", "Zero"})
        BY <2>1, StepTouches, AllocateBatch DEF Aside
      <4>2. "Fragment" \notin {} /\ "Fragment" \notin {"None", "Zero"}
        OBVIOUS
      <4> QED BY <4>1, <4>2, FragsKept
    <3>3. ASSUME NEW o, NEW d, NEW i, NEW h, PayloadFrom(o, d, i, h), FragsOf(o)
          PROVE  PayloadFrom(o, d, i, h)'
      BY <1>0, <3>3, PayloadKept
    <3> QED BY <2>0, <3>1, <3>2, <3>3
  <2>2. CASE Reserve
    <3>1. /\ ins'.owner = meta.inc /\ ins'.left = ins.doc.frags /\ ins'.head = ins.head
          /\ ins'.doc = ins.doc /\ pc = "reserve"
      BY <2>2, ReserveBatch
    <3>2. ins.head = NoBlock
      BY <3>1 DEF InsertSound
    <3>3. Fragments(meta.inc) = {}
      <4>1. ASSUME NEW b \in Block, page[b].kind = "Fragment", page[b].owner = meta.inc PROVE FALSE
        <5>1. meta.inc \in Owner /\ owner[meta.inc].pub # "None"
          BY <4>1 DEF PayloadsSound
        <5>2. meta.inc < meta.inc
          BY <1>0, <5>1 DEF ImageCurrent, MetapageCurrent
        <5> QED BY <5>1, <5>2 DEF Owner
      <4> QED BY <4>1 DEF Fragments
    <3>4. \A o : FragsOf(o)
      <4>1. Touches({"Zero", "Owners"}) /\ "Fragment" \notin {"Zero", "Owners"}
        BY <2>2, StepTouches
      <4> QED BY <4>1, FragsKept
    <3>5. PICK o, d : o = meta.inc /\ d = ins.doc
      OBVIOUS
    <3>6. Fragments(o)' = {}
      BY <3>3, <3>4, <3>5 DEF FragsOf
    <3>7. PayloadFrom(o, d, d.frags, NoBlock)'
      <4>1. d.frags \in Nat
        BY <2>d, <3>5
      <4>2. Chained(Link', {}, NoBlock, NoBlock)
        BY ChainedEmpty DEF NoBlock
      <4>3. Cardinality({}) = 0 /\ NoBlock \in BlockOrNone
        BY FS_EmptySet DEF BlockOrNone
      <4> QED BY <3>6, <4>1, <4>2, <4>3 DEF PayloadFrom
    <3> QED BY <2>0, <3>1, <3>2, <3>5, <3>7
  <2>3. CASE StoreFragmentReused \/ StoreFragmentAllocated
    <3>1. PICK b \in Block : FragmentStored(b) /\ page[b].kind \in {"Zero", "Free"}
      BY <1>1, <2>3
    <3>2. PayloadFrom(ins.owner, ins.doc, ins.left, ins.head)
      BY <3>1 DEF FragmentStored, PayloadsSound
    <3>3. /\ Puts(b, FragmentPage(ins.owner, ins.left - 1, ins.head)) /\ ins.left > 0
          /\ ins'.left = ins.left - 1 /\ ins'.head = b /\ ins'.owner = ins.owner
          /\ ins'.doc = ins.doc
      BY <3>1 DEF FragmentStored
    <3>4. PICK o, d, i, h : o = ins.owner /\ d = ins.doc /\ i = ins.left /\ h = ins.head
      OBVIOUS
    <3>5. page[b].kind # "Fragment"
      BY <3>1
    <3>6. PayloadFrom(o, d, i - 1, b)'
      BY <1>0, <2>d, <3>2, <3>3, <3>4, <3>5, PayloadGrows
    <3> QED BY <2>0, <3>3, <3>4, <3>6
  <2> QED BY <1>6, <2>1, <2>2, <2>3, InsertSteps
<1>7. ASSUME NEW o \in Owner, Live(o)' \/ (pc' = "link" /\ o = ins'.owner)
      PROVE  PayloadFrom(o, owner[o].doc, 0, owner[o].head)'
  BY <1>4, <1>5, <1>7
<1> QED BY <1>2, <1>6, <1>7 DEF PayloadsSound

-----------------------------------------------------------------------------
(* Postings, term by term *)

(* The entry of t *)
EntrySound(J, t) ==
  /\ dict[t].page = NoBlock => dict[t] = NoEntry
  /\ dict[t].page # NoBlock => page[dict[t].page].kind = "Dictionary"
  /\ EntryValid(dict[t])
  /\ IF dict[t].inline = 1 THEN Postings(t) \subseteq J
     ELSE Chained(Link, Postings(t) \ J, dict[t].head, dict[t].tail)

(* The references of t *)
PageRefsSound(J, t) ==
  /\ \A b \in Postings(t) : page[b].refs # {} /\ \A o \in page[b].refs : Refers(t, o)
  /\ \A b \in Postings(t) \ J : \A o \in page[b].refs : dict[t].first < o
  /\ \A b \in Postings(t) : page[b].next # NoBlock =>
       \A o \in page[b].refs, p \in page[page[b].next].refs : o < p

EntryRefsSound(t) ==
  /\ dict[t].page # NoBlock => Refers(t, dict[t].first)
  /\ dict[t].inline = 1 => Refers(t, dict[t].second) /\ dict[t].first < dict[t].second

(* The documents that t leads to *)
TermComplete(J, t) == \A o \in Owner : t \in owner[o].doc.terms /\ Due(o, t) => Has(J, t, o)

TermSound(J, t) ==
  EntrySound(J, t) /\ PageRefsSound(J, t) /\ EntryRefsSound(t) /\ TermComplete(J, t)

(* What holds of all postings holds of those of a term. *)
LEMMA TermsSplit ==
  ASSUME NEW J, EntriesSound(J), RefsSound(J), LinksComplete(J), NEW t \in Term
  PROVE  TermSound(J, t)
<1>1. EntrySound(J, t)
  BY DEF EntriesSound, EntrySound
<1>2. PageRefsSound(J, t) /\ EntryRefsSound(t)
  BY DEF RefsSound, PageRefsSound, EntryRefsSound, Postings
<1>3. TermComplete(J, t)
  BY DEF LinksComplete, TermComplete
<1> QED BY <1>1, <1>2, <1>3 DEF TermSound

(* And what holds of those of every term holds of all. *)
LEMMA TermsJoin ==
  ASSUME TypeOK', NEW J, \A b \in Posts' : page'[b].term \in Term,
         \A t \in Term : TermSound(J, t)'
  PROVE  EntriesSound(J)' /\ RefsSound(J)' /\ LinksComplete(J)'
<1>1. EntriesSound(J)'
  BY DEF EntriesSound, TermSound, EntrySound
<1>3. ASSUME NEW b \in Posts', NEW t \in Term, t = page'[b].term
      PROVE  /\ page'[b].refs # {} /\ \A o \in page'[b].refs : Refers(t, o)'
             /\ b \notin J => \A o \in page'[b].refs : dict'[t].first < o
             /\ page'[b].next # NoBlock =>
                  \A o \in page'[b].refs, p \in page'[page'[b].next].refs : o < p
  BY <1>3 DEF TermSound, PageRefsSound, Postings
<1>4. RefsSound(J)'
  BY <1>3 DEF RefsSound, TermSound, EntryRefsSound, Refers
<1>5. LinksComplete(J)'
  <2>1. owner' \in [Owner -> OwnerRecord]
    BY DEF TypeOK
  <2>2. \A o \in Owner : owner'[o].doc.terms \subseteq Term
    BY <2>1, DocumentFacts DEF OwnerRecord
  <2> QED BY <2>2 DEF LinksComplete, TermSound, TermComplete
<1> QED BY <1>1, <1>4, <1>5

(* Posting pages link to posting pages of the term, those of the journal   *)
(* to those of the journal and the others to the others.                   *)
LEMMA PostLinks ==
  ASSUME StoreOK, NEW J, JournalSound(J), EntriesSound(J), NEW t \in Term, NEW b \in Postings(t),
         page[b].next # NoBlock
  PROVE  page[b].next \in Postings(t) /\ (page[b].next \in J <=> b \in J)
<1>1. CASE b \in J
  <2>1. page[b].next \in J
    BY <1>1, PostingTails DEF JournalSound
  <2>2. page[page[b].next].term = t /\ page[b].next \in Posts
    BY <1>1, <2>1 DEF JournalSound, Postings
  <2> QED BY <1>1, <2>1, <2>2 DEF Postings
<1>2. CASE b \notin J
  <2>1. dict[t].inline # 1
    BY <1>2 DEF EntriesSound
  <2>2. page[b].next \in Postings(t) \ J
    BY <1>2, <2>1, PostingTails
  <2> QED BY <1>2, <2>2
<1> QED BY <1>1, <1>2

(* Written slots stay written and keep their documents. *)
SlotsStay ==
  \A o \in Owner : owner[o].pub # "None" =>
    owner'[o].pub # "None" /\ owner'[o].doc = owner[o].doc

(* No step changes the document of a written slot. *)
LEMMA SlotsStayStep ==
  ASSUME StoreOK, [Next]_vars
  PROVE  SlotsStay
<1>1. TypeOK /\ ImageCurrent
  BY DEF StoreOK
<1> QED BY <1>1, SlotFacts, SlotStep DEF SlotsStay, SlotKept

(* A reference stays one. *)
LEMMA RefersKept ==
  ASSUME SlotsStay, NEW t, NEW o, Refers(t, o)
  PROVE  Refers(t, o)'
BY DEF SlotsStay, Refers

(* Dictionary pages stay. *)
DictStays == \A b \in Block : page[b].kind = "Dictionary" => page'[b].kind = "Dictionary"

(* No step gives a dictionary page another kind. *)
LEMMA DictStaysStep ==
  ASSUME StoreOK, OwnersChained, DictChained, PostingsSound, [Next]_vars
  PROVE  DictStays
<1>1. CASE ~\E t \in Term : LinkFirstTerm(t) \/ LinkNewTermNextPage(t)
  <2>1. PICK K : Touches(K) /\ "Dictionary" \notin K
    BY <1>1, DictEnds
  <2> QED BY <2>1 DEF Touches, DictStays, Same, Turned
<1>2. ASSUME NEW t \in Term, LinkFirstTerm(t) \/ LinkNewTermNextPage(t) PROVE DictStays
  <2>1. meta.dictHead # NoBlock => meta.dictTail \in Block
    BY TailFacts DEF Kind
  <2>2. Puts(blk, DictionaryPage) \/ PutsBehind(blk, DictionaryPage, meta.dictTail)
    BY <1>2, <2>1, LinkBatch
  <2> QED BY <2>2, PageFields DEF DictStays, Puts, PutsBehind, Turned
<1> QED BY <1>1, <1>2

(* What t has to lead to after a step it had to lead to before, but for    *)
(* the insertion that the step links to t.                                 *)
LEMMA DueStep ==
  ASSUME StoreOK, InsertSound, [Next]_vars, NEW o \in Owner, NEW t \in Term,
         t \in owner'[o].doc.terms, Due(o, t)'
  PROVE  \/ t \in owner[o].doc.terms /\ Due(o, t)
         \/ LinkTerm(t) /\ o = ins.owner
<1>0. TypeOK /\ ImageCurrent /\ owner \in [Owner -> OwnerRecord] /\ ins \in InsertRecord
  BY DEF StoreOK, TypeOK
<1>1. CASE Live(o)'
  <2>1. CASE Live(o)
    <3>1. owner'[o].doc = owner[o].doc
      BY <1>1, <2>1, LiveSlot
    <3> QED BY <2>1, <3>1 DEF Due
  <2>2. CASE Publish /\ o = ins.owner
    <3>1. pc = "link" /\ ins.todo = {} /\ owner[o].pub = "FragmentsWritten"
      BY <2>2 DEF Publish, CanChange
    <3>2. owner'[o].doc = owner[o].doc
      BY <1>0, <3>1, SlotsStayStep DEF SlotsStay
    <3> QED BY <2>2, <3>1, <3>2 DEF Due
  <2> QED BY <1>0, <1>1, <2>1, <2>2, SlotFacts
<1>2. CASE pc' = "link" /\ o = ins'.owner /\ t \notin ins'.todo
  <2>1. CASE pc = "link" /\ Aside
    <3>1. UNCHANGED <<owner, pc, ins>>
      BY <2>1 DEF Aside
    <3> QED BY <1>2, <2>1, <3>1 DEF Due
  <2>2. CASE PayloadReady
    <3>1. /\ ins' = [ins EXCEPT !.todo = ins.doc.terms] /\ pc = "fragment"
          /\ owner[ins.owner].pub = "Allocated"
      BY <2>2 DEF PayloadReady, CanChange
    <3>2. ins'.todo = ins.doc.terms /\ ins'.owner = ins.owner
      BY <1>0, <3>1 DEF InsertRecord
    <3>3. owner[o].doc = ins.doc /\ owner'[o].doc = owner[o].doc
      BY <1>2, <3>1, <3>2, SlotsStayStep DEF InsertSound, SlotsStay
    <3> QED BY <1>2, <3>2, <3>3
  <2>3. ASSUME NEW u \in Term, LinkTerm(u)
        PROVE  \/ t \in owner[o].doc.terms /\ Due(o, t)
               \/ LinkTerm(t) /\ o = ins.owner
    <3>1. TermLinked(u)
      BY <2>3, LinkBatch DEF LinkTerm
    <3> QED BY <1>2, <2>3, <3>1 DEF TermLinked, Due
  <2> QED BY <1>2, <2>1, <2>2, <2>3, InsertSteps
<1> QED BY <1>1, <1>2 DEF Due

(* A term whose pages and entry a step leaves alone stays sound; J2 is the *)
(* journal afterwards.                                                     *)
LEMMA TermKept ==
  ASSUME StoreOK, InsertSound, [Next]_vars, SlotsStay, DictStays,
         NEW J, NEW J2, NEW t \in Term, JournalSound(J), EntriesSound(J), TermSound(J, t),
         ~LinkTerm(t), PostsOf(t), dict'[t] = dict[t], Postings(t) \ J2 = Postings(t) \ J
  PROVE  TermSound(J2, t)'
<1>0. TypeOK /\ dict[t] \in TermRecord
  BY DEF StoreOK, TypeOK
<1>1. PICK P : P = Postings(t)
  OBVIOUS
<1>2. /\ P \in SUBSET Block /\ Postings(t)' = P /\ P \ J2 = P \ J
      /\ \A b \in P : page'[b].next = page[b].next /\ page'[b].refs = page[b].refs
  BY <1>0, <1>1, LinkFacts2 DEF PostsOf, Same, Turned
<1>3. EntrySound(J2, t)'
  <2>1. dict[t].page # NoBlock => page'[dict[t].page].kind = "Dictionary"
    BY <1>0 DEF TermSound, EntrySound, DictStays, TermRecord, BlockOrNone
  <2>2. dict[t].inline = 1 => P \subseteq J2
    BY <1>1, <1>2 DEF TermSound, EntrySound
  <2>3. dict[t].inline # 1 => Chained(Link', P \ J2, dict[t].head, dict[t].tail)
    <3>1. ASSUME dict[t].inline # 1 PROVE Chained(Link, P \ J, dict[t].head, dict[t].tail)
      BY <1>1, <3>1 DEF TermSound, EntrySound
    <3>2. PICK Q : Q = P \ J
      OBVIOUS
    <3>3. Q \in SUBSET Block /\ \A b \in Q : page'[b].next = page[b].next
      BY <1>2, <3>2
    <3> QED BY <1>2, <3>1, <3>2, <3>3, ChainKept
  <2>4. EntryValid(dict[t]) /\ (dict[t].page = NoBlock => dict[t] = NoEntry)
    BY DEF TermSound, EntrySound
  <2> QED BY <1>2, <2>1, <2>2, <2>3, <2>4 DEF EntrySound
<1>4. \A b \in P : page[b].next # NoBlock => page[b].next \in P
  BY <1>1, PostLinks
<1>5. PageRefsSound(J2, t)'
  <2>1. /\ \A b \in P : page[b].refs # {} /\ \A o \in page[b].refs : Refers(t, o)'
        /\ \A b \in P \ J : \A o \in page[b].refs : dict[t].first < o
        /\ \A b \in P : page[b].next # NoBlock =>
             \A o \in page[b].refs, p \in page[page[b].next].refs : o < p
    BY <1>1, RefersKept DEF TermSound, PageRefsSound
  <2> QED BY <1>2, <1>4, <2>1 DEF PageRefsSound
<1>6. EntryRefsSound(t)'
  BY RefersKept DEF TermSound, EntryRefsSound, Refers
<1>7. TermComplete(J2, t)'
  <2> SUFFICES ASSUME NEW o \in Owner, t \in owner'[o].doc.terms, Due(o, t)'
               PROVE  Has(J2, t, o)'
    BY DEF TermComplete
  <2>1. Has(J, t, o)
    BY DueStep DEF TermSound, TermComplete
  <2>2. Holds(P \ J, o) => \E b \in P \ J2 : o \in page'[b].refs
    BY <1>2 DEF Holds
  <2> QED BY <1>1, <1>2, <2>1, <2>2 DEF Has, Holds
<1> QED BY <1>3, <1>5, <1>6, <1>7 DEF TermSound

(* A journal that a step leaves alone stays sound. *)
LEMMA JournalKept ==
  ASSUME NEW J \in SUBSET Block, JournalSound(J), meta'.journal = meta.journal, \A b \in J : Same(b)
  PROVE  JournalSound(J)'
<1>1. Chained(Link', J, meta.journal.head, meta.journal.tail)
  BY ChainKept DEF JournalSound, Same, Turned
<1>2. J \subseteq Posts'
  BY DEF JournalSound, Same, Turned, Posts
<1> QED BY <1>1, <1>2 DEF JournalSound, Same, Turned

(* The steps of a rewrite *)
LEMMA RewriteSteps ==
  ASSUME StoreOK, [Next]_vars, pc' = "rewrite"
  PROVE  \/ pc = "rewrite" /\ Aside /\ cpt' = cpt
         \/ \E t \in Term : RewriteBegin(t)
         \/ PersistReused \/ PersistAllocated
<1>1. CASE UNCHANGED vars
  BY <1>1, UnchangedSame DEF vars, Aside, PlainStep
<1>2. CASE ExtendFails \/ FailedCleanup \/ Interrupt
  BY <1>2 DEF ExtendFails, FailedCleanup, Interrupt, Abandoned
<1>3. CASE Allocate
  BY <1>3 DEF Allocate, Extend, Aside
<1>4. CASE \E r \in Root : HeapDelete(r)
  BY <1>4, UnchangedSame DEF HeapDelete, Aside, PlainStep
<1>5. CASE Starts
  BY <1>5 DEF Starts, VacuumBegin, InsertBegin, CompactBegin
<1>6. CASE Insert
  <2>1. CASE Reserve
    BY <2>1, ReserveBatch
  <2>2. CASE StoreFragmentReused \/ StoreFragmentAllocated
    BY <2>2 DEF StoreFragmentReused, StoreFragmentAllocated, FragmentNeedsBlock
  <2>3. CASE PayloadReady \/ Publish
    BY <2>3 DEF PayloadReady, Publish
  <2>4. ASSUME NEW t \in Term, LinkTerm(t) PROVE pc' = "link"
    BY <2>4 DEF LinkTerm, LinkFirstTerm, LinkNewTerm, LinkNewTermNextPage, LinkPromote,
         LinkInline, LinkFirstPosting, LinkAppend, LinkNextPage, LinkReady, Linked
  <2> QED BY <1>6, <2>1, <2>2, <2>3, <2>4 DEF Insert, Reserve
<1>7. CASE Recover
  BY <1>7, RecoverBatch
<1>8. CASE Compaction
  BY <1>8 DEF Compaction, CompactSkip, CompactInline, Visit, PublishReplacement, PublishRejected,
       RecoverEndCompact, CompactEnd
<1>9. CASE VacuumPass
  <2>1. pc' # "rewrite"
    BY <1>9 DEF VacuumPass, RecoverEndVacuum, RemoveOwners, SweepDirect, SweepFragment,
         ReclaimZero, SweepNext, SweepEnd, VacuumEnd, Reclaim
  <2> QED BY <2>1
<1> QED BY <1>1, <1>2, <1>3, <1>4, <1>5, <1>6, <1>7, <1>8, <1>9 DEF Next, Step, Starts

(* Where neither pages, entries nor the journal change, postings stay      *)
(* sound, but for what a rewrite that starts says of its source.           *)
LEMMA PostingsKept ==
  ASSUME StoreOK, TypeOK', InsertSound, [Next]_vars, SlotsStay, DictStays,
         NEW J \in SUBSET Block, NEW S, PostingsHold(J, S),
         Posts' = Posts, \A b \in Posts : Same(b), \A t : PostsOf(t),
         dict' = dict, meta'.journal = meta.journal, ~\E t \in Term : LinkTerm(t)
  PROVE  JournalSound(J)' /\ EntriesSound(J)' /\ RefsSound(J)' /\ LinksComplete(J)'
<1>1. JournalSound(J) /\ EntriesSound(J) /\ RefsSound(J) /\ LinksComplete(J)
  BY DEF PostingsHold
<1>2. \A t \in Term : TermSound(J, t)'
  BY <1>1, TermsSplit, TermKept
<1>3. \A b \in Posts' : page'[b].term \in Term
  BY <1>1 DEF RefsSound, Same, Turned
<1>4. JournalSound(J)'
  BY <1>1, JournalKept DEF JournalSound
<1> QED BY <1>2, <1>3, <1>4, TermsJoin

(* A rewrite that a step leaves alone *)
LEMMA RewriteKept ==
  ASSUME StoreOK, NEW J \in SUBSET Block, NEW S \in SUBSET Block, PostingsHold(J, S),
         pc = "rewrite", Aside, cpt' = cpt, \A b \in Posts : Same(b), \A t : PostsOf(t)
  PROVE  RewriteSound(J, S)'
<1>1. RewriteSound(J, S) /\ J \subseteq Posts
  BY DEF PostingsHold, JournalSound
<1>2. UNCHANGED <<meta, dict, owner, pc, ins>>
  BY DEF Aside
<1>3. PICK t : t = cpt.term
  OBVIOUS
<1>4. PICK P : P = Postings(t)
  OBVIOUS
<1>5. Postings(t)' = P
  BY <1>4 DEF PostsOf
<1>6. S \subseteq Posts /\ P \subseteq Posts
  BY <1>1, <1>3, <1>4 DEF RewriteSound, Postings
<1>7. \A b \in Posts : page'[b].next = page[b].next /\ page'[b].refs = page[b].refs
                       /\ page'[b].term = page[b].term
  BY DEF Same, Turned
<1>8. Chained(Link', S, cpt.source, dict[t].tail)
  BY <1>1, <1>3, <1>6, <1>7, ChainKept DEF RewriteSound
<1>9. /\ \A o : Holds(S, o)' <=> Holds(S, o)
      /\ \A o : Holds(J, o)' <=> Holds(J, o)
      /\ \A o : Live(o)' <=> Live(o)
  BY <1>1, <1>2, <1>6, <1>7 DEF Holds, Live
<1>10. /\ meta.journal.phase # "Retiring"
       /\ dict[t].inline # 1 /\ dict[t].page # NoBlock
       /\ S \subseteq P \ J /\ cpt.source \in S
       /\ IF cpt.boundary = NoBlock THEN cpt.source = dict[t].head
          ELSE cpt.boundary \in P \ J /\ page[cpt.boundary].next = cpt.source
       /\ \A b \in J : page[b].term = t
       /\ \A o \in cpt.pending : Holds(S, o)
       /\ \A o \in Owner : Holds(J, o) => Holds(S, o)
       /\ \A o \in Owner : Holds(S, o) /\ Live(o) => o \in cpt.pending \/ Holds(J, o)
       /\ \A o \in Owner, p \in cpt.pending : Holds(J, o) => o < p
  BY <1>1, <1>3, <1>4 DEF RewriteSound
<1>11. \A b \in J : page'[b].term = t
  BY <1>1, <1>7, <1>10
<1>12. cpt.boundary # NoBlock => page'[cpt.boundary].next = cpt.source
  BY <1>6, <1>7, <1>10
<1> HIDE DEF Holds
<1>13. /\ \A o \in cpt.pending : Holds(S, o)'
       /\ \A o \in Owner : Holds(J, o)' => Holds(S, o)'
       /\ \A o \in Owner : Holds(S, o)' /\ Live(o)' => o \in cpt.pending \/ Holds(J, o)'
       /\ \A o \in Owner, p \in cpt.pending : Holds(J, o)' => o < p
  BY <1>9, <1>10
<1> QED BY <1>2, <1>3, <1>5, <1>8, <1>10, <1>11, <1>12, <1>13 DEF RewriteSound

-----------------------------------------------------------------------------
(* link_term() *)

(* What is left to show of a link of t: the pages and the entry of t       *)
(* afterwards, and that t still leads to what it led to.                   *)
LEMMA LinkJoin ==
  ASSUME StoreOK, StoreOK', InsertSound, [Next]_vars, SlotsStay, DictStays,
         NEW J \in SUBSET Block, NEW S, PostingsHold(J, S), NEW t \in Term, LinkTerm(t),
         \A u \in Term : u # t => PostsOf(u) /\ dict'[u] = dict[u],
         \A b \in J : Same(b),
         EntrySound(J, t)', PageRefsSound(J, t)', EntryRefsSound(t)',
         \A o \in Owner : Has(J, t, o) => Has(J, t, o)', NEW w, w = ins.owner, Has(J, t, w)',
         \A b \in Posts' : page'[b].term \in Term
  PROVE  PostingsHold(J, S)'
<1>1. JournalSound(J) /\ EntriesSound(J) /\ RefsSound(J) /\ LinksComplete(J)
  BY DEF PostingsHold
<1>2. TermLinked(t)
  BY LinkBatch DEF LinkTerm
<1>3. pc' = "link" /\ meta'.journal = meta.journal /\ ins'.owner = ins.owner
  BY <1>2 DEF TermLinked
<1>4. ASSUME NEW u \in Term, u # t PROVE TermSound(J, u)'
  <2>1. ~LinkTerm(u)
    <3> SUFFICES ASSUME LinkTerm(u) PROVE FALSE
      OBVIOUS
    <3>1. TermLinked(u)
      BY LinkBatch DEF LinkTerm
    <3> QED BY <1>2, <1>4, <3>1 DEF TermLinked
  <2>2. TermSound(J, u)
    BY <1>1, TermsSplit
  <2> QED BY <1>1, <1>4, <2>1, <2>2, TermKept
<1>5. TermComplete(J, t)'
  <2> SUFFICES ASSUME NEW o \in Owner, t \in owner'[o].doc.terms, Due(o, t)'
               PROVE  Has(J, t, o)'
    BY DEF TermComplete
  <2>1. CASE t \in owner[o].doc.terms /\ Due(o, t)
    BY <1>1, <2>1 DEF LinksComplete
  <2>2. CASE o = ins.owner
    BY <2>2
  <2> QED BY <2>1, <2>2, DueStep
<1>6. TermSound(J, t)'
  BY <1>5 DEF TermSound
<1>7. TypeOK'
  BY DEF StoreOK
<1>8. EntriesSound(J)' /\ RefsSound(J)' /\ LinksComplete(J)'
  BY <1>4, <1>6, <1>7, TermsJoin
<1>9. JournalSound(J)'
  BY <1>1, <1>3, JournalKept
<1>10. RewriteSound(J, S)'
  BY <1>3 DEF RewriteSound
<1> QED BY <1>8, <1>9, <1>10 DEF PostingsHold

(* The owner that is linked to t is above all that t refers to. *)
LEMMA LinkTarget ==
  ASSUME StoreOK, InsertSound, NEW J, NEW S, PostingsHold(J, S), NEW t \in Term,
         pc = "link", t \in ins.todo
  PROVE  /\ ins.owner \in Owner /\ Refers(t, ins.owner)
         /\ \A b \in Postings(t) : \A o \in page[b].refs : o < ins.owner
         /\ dict[t].page # NoBlock => Refers(t, dict[t].first) /\ dict[t].first < ins.owner
         /\ dict[t].page = NoBlock => dict[t] = NoEntry
         /\ dict[t].inline # 1 /\ dict[t].head = NoBlock => Postings(t) \ J = {}
         /\ dict[t].inline = 1 => /\ Postings(t) \ J = {} /\ Refers(t, dict[t].second)
                                 /\ dict[t].first < dict[t].second
<1>1. JournalSound(J) /\ EntriesSound(J) /\ RefsSound(J)
  BY DEF PostingsHold
<1>2. ins.owner \in Owner /\ ins.owner = meta.inc - 1 /\ Refers(t, ins.owner) /\ Unlinked(t)
  BY DEF InsertSound, StoreOK, ImageCurrent, MetapageCurrent, Refers
<1>3. ASSUME NEW o, Refers(t, o), o # ins.owner PROVE o < ins.owner
  BY <1>2, <1>3, RefersFacts
<1>4. \A b \in Postings(t) : \A o \in page[b].refs : Refers(t, o)
  BY <1>1 DEF RefsSound, Postings
<1>5. \A b \in Postings(t) : \A o \in page[b].refs : o < ins.owner
  BY <1>2, <1>3, <1>4 DEF Unlinked
<1>6. dict[t].page # NoBlock => Refers(t, dict[t].first) /\ dict[t].first < ins.owner
  BY <1>1, <1>2, <1>3 DEF RefsSound, Unlinked
<1>7. dict[t].page = NoBlock => dict[t] = NoEntry
  BY <1>1 DEF EntriesSound
<1>8. dict[t].inline # 1 /\ dict[t].head = NoBlock => Postings(t) \ J = {}
  BY <1>1, PostingTails
<1>9. dict[t].inline = 1 => /\ Postings(t) \ J = {} /\ Refers(t, dict[t].second)
                           /\ dict[t].first < dict[t].second
  BY <1>1 DEF EntriesSound, RefsSound
<1> QED BY <1>2, <1>5, <1>6, <1>7, <1>8, <1>9

(* A form of link_term() that writes the entry only: t had no page outside *)
(* the journal.                                                            *)
LEMMA LinkEntry ==
  ASSUME StoreOK, StoreOK', NamesWritten, OwnersChained, DictChained, PostingsSound, InsertSound,
         [Next]_vars, SlotsStay, DictStays,
         NEW J \in SUBSET Block, NEW S, PostingsHold(J, S), NEW t \in Term,
         LinkFirstTerm(t) \/ LinkNewTerm(t) \/ LinkNewTermNextPage(t) \/ LinkInline(t)
  PROVE  PostingsHold(J, S)'
<1>0. TypeOK /\ dict[t] \in TermRecord
  BY DEF StoreOK, TypeOK
<1>1. LinkTerm(t)
  BY DEF LinkTerm
<1>2. TermLinked(t)
  BY <1>1, LinkBatch DEF LinkTerm
<1>3. pc = "link" /\ t \in ins.todo /\ ins'.owner = ins.owner
  BY <1>2 DEF TermLinked
<1>4. JournalSound(J) /\ EntriesSound(J) /\ RefsSound(J)
  BY DEF PostingsHold
<1>5. Posts' = Posts /\ (\A b \in Posts : Same(b)) /\ \A u : PostsOf(u)
  BY QuietPosts
<1>6. PICK P, w : P = Postings(t) /\ w = ins.owner
  OBVIOUS
<1>7. /\ P \in SUBSET Block /\ Postings(t)' = P
      /\ \A b \in P : page'[b].next = page[b].next /\ page'[b].refs = page[b].refs
  BY <1>0, <1>5, <1>6, LinkFacts2 DEF PostsOf, Same, Turned
<1>8. P \ J = {}
  <2>1. CASE LinkInline(t)
    BY <1>3, <1>6, <2>1, LinkTarget, LinkBatch
  <2>2. CASE ~LinkInline(t)
    <3>1. dict[t].page = NoBlock
      BY <2>2, LinkBatch
    <3>2. dict[t] = NoEntry
      BY <1>3, <3>1, LinkTarget
    <3>3. dict[t].inline # 1 /\ dict[t].head = NoBlock
      BY <3>2 DEF NoEntry
    <3> QED BY <1>3, <1>6, <3>3, LinkTarget
  <2> QED BY <2>1, <2>2
<1>9. ASSUME NEW u \in Term, u # t PROVE PostsOf(u) /\ dict'[u] = dict[u]
  BY <1>1, <1>9, LinkOther
<1>10. PageRefsSound(J, t)'
  <2>1. \A b \in P : page[b].next # NoBlock => page[b].next \in P
    BY <1>4, <1>6, PostLinks
  <2>2. /\ \A b \in P : page[b].refs # {} /\ \A o \in page[b].refs : Refers(t, o)'
        /\ \A b \in P : page[b].next # NoBlock =>
             \A o \in page[b].refs, p \in page[page[b].next].refs : o < p
    BY <1>4, <1>6, RefersKept DEF RefsSound, Postings
  <2> QED BY <1>7, <1>8, <2>1, <2>2 DEF PageRefsSound
<1>11. Refers(t, w)'
  BY <1>3, <1>6, LinkTarget, RefersKept
<1>12. Chained(Link', P \ J, NoBlock, NoBlock)
  BY <1>8, ChainedEmpty DEF NoBlock
<1>13. \A b \in Posts' : page'[b].term \in Term
  BY <1>4, <1>5 DEF RefsSound, Same, Turned
<1>14. \A b \in J : Same(b)
  BY <1>4, <1>5 DEF JournalSound
<1>15. CASE ~LinkInline(t)
  <2>1. dict[t].page = NoBlock
    BY <1>15, LinkBatch
  <2>2. PICK b \in Block : dict'[t] = NewEntry(b, w) /\ page'[b].kind = "Dictionary"
    <3>1. meta.dictHead # NoBlock => meta.dictTail \in Block /\ page[meta.dictTail].kind = "Dictionary"
      BY TailFacts DEF Kind
    <3>2. CASE LinkFirstTerm(t)
      BY <1>6, <3>2, LinkBatch, PageFields DEF Puts, EntryPut
    <3>3. CASE LinkNewTerm(t)
      BY <1>6, <3>1, <3>3, LinkBatch DEF EntryPut
    <3>4. CASE LinkNewTermNextPage(t)
      BY <1>6, <3>1, <3>4, LinkBatch, PageFields DEF PutsBehind, EntryPut
    <3> QED BY <1>15, <3>2, <3>3, <3>4
  <2>3. /\ dict'[t].page = b /\ dict'[t].first = w /\ dict'[t].inline = 0
        /\ dict'[t].head = NoBlock /\ dict'[t].tail = NoBlock /\ b # NoBlock
    BY <1>0, <2>2, LinkFacts2 DEF NewEntry
  <2>4. EntrySound(J, t)'
    BY <1>7, <1>12, <2>2, <2>3 DEF EntrySound, EntryValid
  <2>5. EntryRefsSound(t)'
    BY <1>11, <2>3 DEF EntryRefsSound
  <2>6. Has(J, t, w)' /\ \A o \in Owner : Has(J, t, o) => Has(J, t, o)'
    BY <2>1, <2>3 DEF Has
  <2> QED BY <1>1, <1>6, <1>9, <1>10, <1>13, <1>14, <2>4, <2>5, <2>6, LinkJoin
<1>16. CASE LinkInline(t)
  <2>1. dict[t].page # NoBlock /\ dict[t].inline # 1 /\ dict'[t] = WithSecond(dict[t], w)
    BY <1>6, <1>16, LinkBatch DEF EntryPut
  <2>2. /\ dict'[t].page = dict[t].page /\ dict'[t].first = dict[t].first /\ dict'[t].inline = 1
        /\ dict'[t].second = w /\ dict'[t].head = dict[t].page /\ dict'[t].tail = dict[t].page
    BY <2>1 DEF WithSecond
  <2>3. page'[dict[t].page].kind = "Dictionary"
    BY <1>0, <1>4, <2>1 DEF EntriesSound, DictStays, TermRecord, BlockOrNone
  <2>4. EntrySound(J, t)'
    BY <1>7, <1>8, <2>1, <2>2, <2>3 DEF EntrySound, EntryValid
  <2>5. EntryRefsSound(t)'
    <3>1. Refers(t, dict[t].first) /\ dict[t].first < w
      BY <1>3, <1>6, <2>1, LinkTarget
    <3>2. \A o : o = dict[t].first => Refers(t, o)'
      BY <3>1, RefersKept
    <3>3. PICK o : o = dict[t].first
      OBVIOUS
    <3> QED BY <1>11, <2>2, <3>1, <3>2, <3>3 DEF EntryRefsSound
  <2>6. Has(J, t, w)' /\ \A o \in Owner : Has(J, t, o) => Has(J, t, o)'
    <3>1. \A o : ~Holds(P \ J, o)
      BY <1>8 DEF Holds
    <3> QED BY <1>6, <2>1, <2>2, <3>1 DEF Has
  <2> QED BY <1>1, <1>6, <1>9, <1>10, <1>13, <1>14, <2>4, <2>5, <2>6, LinkJoin
<1> QED BY <1>15, <1>16

(* Page b with the references R becomes the tail of the chain Q of t, from *)
(* h to l.                                                                 *)
TailPut(t, Q, h, l, b, R) ==
  /\ b \in Block /\ page[b].kind = "Zero" /\ Chained(Link, Q, h, l)
  /\ \/ l = NoBlock /\ Puts(b, PostingsPage(t, R))
     \/ l \in Q /\ PutsBehind(b, PostingsPage(t, R), l)

(* The pages of t afterwards; P are those before. *)
TailGrown(J, t, P, h, l, b, R) ==
  /\ b \notin P /\ b \notin J /\ Postings(t)' = P \cup {b}
  /\ Chained(Link', (P \ J) \cup {b}, IF h = NoBlock THEN b ELSE h, b)
  /\ \A c \in P : page'[c].refs = page[c].refs /\ (c # l => page'[c].next = page[c].next)
  /\ page'[b].next = NoBlock /\ page'[b].refs = R
  /\ l # NoBlock => page'[l].next = b
  /\ \A c \in J : Same(c)
  /\ \A c \in Posts' : page'[c].term \in Term

(* A new posting page behind the chain of t *)
LEMMA PageLinked ==
  ASSUME StoreOK, NEW J \in SUBSET Block, JournalSound(J), RefsSound(J), NEW t \in Term,
         NEW P, P = Postings(t), NEW h, NEW l, NEW b, NEW R, TailPut(t, P \ J, h, l, b, R)
  PROVE  TailGrown(J, t, P, h, l, b, R)
<1> USE DEF TailPut
<1>0. TypeOK /\ P \in SUBSET Block /\ P \subseteq Posts /\ NoBlock \notin Block
  BY LinkFacts2 DEF StoreOK
<1>1. /\ page'[b].kind = "Postings" /\ page'[b].next = NoBlock /\ page'[b].term = t
      /\ page'[b].refs = R
  BY PageFields DEF Puts, PutsBehind
<1>2. \A c \in Block : c # b =>
        /\ page'[c].kind = page[c].kind /\ page'[c].term = page[c].term
        /\ page'[c].refs = page[c].refs
        /\ c # l => page'[c].next = page[c].next
  BY DEF Puts, PutsBehind, Turned
<1>3. \A c \in Block : c # b /\ c # l => Same(c)
  BY DEF Puts, PutsBehind, Same, Turned
<1>4. b \notin Posts
  BY DEF Posts, PostingKind
<1>5. b \notin P /\ b \notin J
  BY <1>0, <1>4 DEF JournalSound
<1>6. l # NoBlock => page'[l].next = b
  BY <1>0 DEF PutsBehind, Turned
<1>7. \A c : c \in Postings(t)' <=> c \in P \cup {b}
  BY <1>0, <1>1, <1>2 DEF Postings, Posts, PostingKind
<1>8. Postings(t)' = P \cup {b}
  BY <1>7
<1>9. Chained(Link', (P \ J) \cup {b}, IF h = NoBlock THEN b ELSE h, b)
  <2>1. PICK Q : Q = P \ J
    OBVIOUS
  <2>2. Q \in SUBSET Block /\ b \notin Q /\ Chained(Link, Q, h, l)
        /\ \A c \in Q : c # l => page'[c].next = page[c].next
    BY <1>0, <1>2, <1>5, <2>1
  <2>3. Chained(Link', Q \cup {b}, IF h = NoBlock THEN b ELSE h, b)
    BY <1>1, <1>6, <2>2, ChainAppended
  <2> QED BY <2>1, <2>3
<1>10. \A c \in P : page'[c].refs = page[c].refs /\ (c # l => page'[c].next = page[c].next)
  BY <1>0, <1>2, <1>5
<1>11. \A c \in J : Same(c)
  <2>1. l \notin J
    BY <1>0
  <2> QED BY <1>3, <1>5, <2>1
<1>12. \A c \in Posts' : page'[c].term \in Term
  BY <1>1, <1>2 DEF RefsSound, Posts
<1> QED BY <1>1, <1>5, <1>6, <1>8, <1>9, <1>10, <1>11, <1>12 DEF TailGrown

(* A form of link_term() that writes a posting page *)
LEMMA LinkPage ==
  ASSUME StoreOK, StoreOK', NamesWritten, OwnersChained, DictChained, PostingsSound, InsertSound,
         [Next]_vars, SlotsStay, DictStays,
         NEW J \in SUBSET Block, NEW S, PostingsHold(J, S), NEW t \in Term,
         LinkPromote(t) \/ LinkFirstPosting(t) \/ LinkNextPage(t)
  PROVE  PostingsHold(J, S)'
<1>0. TypeOK /\ dict[t] \in TermRecord /\ NoBlock \notin Block /\ Postings(t) \subseteq Block
  BY LinkFacts2 DEF StoreOK, TypeOK
<1>1. LinkTerm(t)
  BY DEF LinkTerm
<1>2. TermLinked(t)
  BY <1>1, LinkBatch DEF LinkTerm
<1>3. pc = "link" /\ t \in ins.todo /\ ins'.owner = ins.owner
  BY <1>2 DEF TermLinked
<1>4. JournalSound(J) /\ EntriesSound(J) /\ RefsSound(J)
  BY DEF PostingsHold
<1>5. PICK P, w, b, e, h, l : /\ P = Postings(t) /\ w = ins.owner /\ b = blk /\ e = dict[t]
                              /\ h = (IF dict[t].inline = 1 THEN NoBlock ELSE dict[t].head)
                              /\ l = (IF dict[t].inline = 1 THEN NoBlock ELSE dict[t].tail)
  OBVIOUS
<1>6. /\ b \in Block /\ page[b].kind = "Zero" /\ e.page # b /\ e.page # NoBlock
      /\ b # NoBlock
  BY <1>0, <1>5, Allocated, LinkBatch
<1>7. /\ w \in Owner /\ Refers(t, w) /\ Refers(t, e.first) /\ e.first < w
      /\ \A c \in P : \A o \in page[c].refs : o < w
      /\ e.inline # 1 /\ e.head = NoBlock => P \ J = {}
      /\ e.inline = 1 => P \ J = {} /\ Refers(t, e.second) /\ e.first < e.second
  BY <1>3, <1>5, <1>6, LinkTarget
<1>8. Chained(Link, P \ J, h, l)
  <2>1. CASE e.inline = 1
    BY <1>5, <1>7, <2>1, ChainedEmpty DEF NoBlock
  <2>2. CASE e.inline # 1
    BY <1>4, <1>5, <2>2 DEF EntriesSound
  <2> QED BY <2>1, <2>2
<1>9. PICK R : R = IF e.inline = 1 THEN {e.second, w} ELSE {w}
  OBVIOUS
<1>10. /\ \/ l = NoBlock /\ Puts(b, PostingsPage(t, R))
          \/ l \in P \ J /\ PutsBehind(b, PostingsPage(t, R), l)
       /\ dict'[t].head = (IF h = NoBlock THEN b ELSE h) /\ dict'[t].tail = b
       /\ dict'[t].page = e.page /\ dict'[t].first = e.first /\ dict'[t].second = e.second
       /\ dict'[t].inline = (IF e.inline = 1 THEN 2 ELSE e.inline)
  <2>1. CASE LinkPromote(t)
    <3>1. e.inline = 1 /\ Puts(b, PostingsPage(t, {e.second, w})) /\ dict'[t] = Promoted(e, b)
      BY <1>5, <2>1, LinkBatch DEF EntryPut
    <3>2. h = NoBlock /\ l = NoBlock /\ R = {e.second, w}
      BY <1>5, <1>9, <3>1
    <3> QED BY <3>1, <3>2 DEF Promoted
  <2>2. CASE LinkFirstPosting(t)
    <3>1. /\ e.inline # 1 /\ e.head = NoBlock /\ Puts(b, PostingsPage(t, {w}))
          /\ dict'[t] = WithChain(e, b, b)
      BY <1>5, <2>2, LinkBatch DEF EntryPut
    <3>2. h = NoBlock /\ l = NoBlock /\ R = {w}
      BY <1>4, <1>5, <1>9, <3>1, PostingTails
    <3>3. e \in TermRecord
      BY <1>0, <1>5
    <3> QED BY <3>1, <3>2, <3>3 DEF WithChain, TermRecord
  <2>3. CASE LinkNextPage(t)
    <3>1. e.inline # 1 /\ e.head # NoBlock
      BY <1>5, <2>3, LinkBatch
    <3>2. dict[t].tail \in P \ J /\ dict[t].tail \in Block
      BY <1>0, <1>4, <1>5, <3>1, PostingTails
    <3>3. /\ PutsBehind(b, PostingsPage(t, {w}), dict[t].tail)
          /\ dict'[t] = WithChain(e, e.head, b)
      BY <1>5, <2>3, <3>2, LinkBatch DEF EntryPut
    <3>4. h = e.head /\ l = dict[t].tail /\ R = {w}
      BY <1>5, <1>9, <3>1
    <3>5. e \in TermRecord
      BY <1>0, <1>5
    <3> QED BY <3>1, <3>2, <3>3, <3>4, <3>5 DEF WithChain, TermRecord
  <2> QED BY <2>1, <2>2, <2>3
<1>11. /\ b \notin P /\ b \notin J /\ Postings(t)' = P \cup {b}
       /\ Chained(Link', (P \ J) \cup {b}, IF h = NoBlock THEN b ELSE h, b)
       /\ \A c \in P : page'[c].refs = page[c].refs /\ (c # l => page'[c].next = page[c].next)
       /\ page'[b].next = NoBlock /\ page'[b].refs = R
       /\ l # NoBlock => page'[l].next = b
       /\ \A c \in J : Same(c)
       /\ \A c \in Posts' : page'[c].term \in Term
  <2>1. TailPut(t, P \ J, h, l, b, R)
    BY <1>6, <1>8, <1>10 DEF TailPut
  <2>2. P = Postings(t) /\ JournalSound(J) /\ RefsSound(J)
    BY <1>4, <1>5
  <2>3. TailGrown(J, t, P, h, l, b, R)
    BY ONLY StoreOK, J \in SUBSET Block, t \in Term, <2>1, <2>2, PageLinked
  <2> QED BY <2>3 DEF TailGrown
<1>12. EntrySound(J, t)'
  <2>1. page'[e.page].kind = "Dictionary"
    BY <1>0, <1>4, <1>5, <1>6 DEF EntriesSound, DictStays, TermRecord, BlockOrNone
  <2>2. (P \cup {b}) \ J = (P \ J) \cup {b}
    BY <1>11
  <2>3. EntryValid(e)
    BY <1>4, <1>5 DEF EntriesSound
  <2>4. EntryValid(dict[t])'
    <3>1. e.inline \in 0 .. 2
      BY <1>0, <1>5 DEF TermRecord
    <3> QED BY <1>5, <1>6, <1>10, <2>3, <3>1 DEF EntryValid
  <2>5. dict'[t].inline # 1
    BY <1>10
  <2> QED BY <1>6, <1>10, <1>11, <2>1, <2>2, <2>4, <2>5 DEF EntrySound
<1>13. PageRefsSound(J, t)'
  <2>1. /\ \A c \in P : page[c].refs # {} /\ \A o \in page[c].refs : Refers(t, o)'
        /\ \A c \in P \ J : \A o \in page[c].refs : e.first < o
        /\ \A c \in P : page[c].next # NoBlock =>
             \A o \in page[c].refs, p \in page[page[c].next].refs : o < p
    BY <1>4, <1>5, RefersKept DEF RefsSound, Postings
  <2>2. \A c \in P : page[c].next # NoBlock => page[c].next \in P
    BY <1>4, <1>5, PostLinks
  <2>3. w \in R /\ \A o \in R : Refers(t, o)' /\ e.first < o
    BY <1>7, <1>9, RefersKept
  <2>4. l # NoBlock => R = {w}
    BY <1>5, <1>9
  <2>5. ASSUME NEW c \in P \cup {b}
        PROVE  /\ page'[c].refs # {} /\ \A o \in page'[c].refs : Refers(t, o)'
               /\ c \notin J => \A o \in page'[c].refs : dict'[t].first < o
               /\ page'[c].next # NoBlock =>
                    \A o \in page'[c].refs, p \in page'[page'[c].next].refs : o < p
    <3>1. CASE c = b
      BY <1>10, <1>11, <2>3, <3>1
    <3>2. CASE c \in P /\ c # l
      BY <1>10, <1>11, <2>1, <2>2, <3>2
    <3>3. CASE c \in P /\ c = l
      <4>1. c # NoBlock
        BY <1>0, <1>5, <3>3
      <4> QED BY <1>7, <1>10, <1>11, <2>1, <2>4, <3>3, <4>1
    <3> QED BY <3>1, <3>2, <3>3
  <2> QED BY <1>11, <2>5 DEF PageRefsSound
<1>14. EntryRefsSound(t)'
  <2>1. \A o : Refers(t, o) => Refers(t, o)'
    BY RefersKept
  <2> QED BY <1>7, <1>10, <2>1 DEF EntryRefsSound
<1>15. Has(J, t, w)' /\ \A o \in Owner : Has(J, t, o) => Has(J, t, o)'
  <2>1. \A o \in R : Has(J, t, o)'
    BY <1>6, <1>10, <1>11 DEF Has, Holds
  <2>3. \A o \in Owner : Has(J, t, o) => o = e.first \/ o \in R \/ Holds(P \ J, o)
    BY <1>5, <1>9 DEF Has
  <2>4. \A o \in Owner : o = e.first \/ Holds(P \ J, o) => Has(J, t, o)'
    BY <1>6, <1>10, <1>11 DEF Has, Holds
  <2>5. w \in R
    BY <1>9
  <2> QED BY <1>7, <2>1, <2>3, <2>4, <2>5
<1>16. \A u \in Term : u # t => PostsOf(u) /\ dict'[u] = dict[u]
  BY <1>1, LinkOther
<1> QED BY <1>1, <1>5, <1>11, <1>12, <1>13, <1>14, <1>15, <1>16, LinkJoin

(* The form of link_term() that adds a reference to the last posting page *)
LEMMA LinkReference ==
  ASSUME StoreOK, StoreOK', NamesWritten, OwnersChained, DictChained, PostingsSound, InsertSound,
         [Next]_vars, SlotsStay, DictStays,
         NEW J \in SUBSET Block, NEW S, PostingsHold(J, S), NEW t \in Term, LinkAppend(t)
  PROVE  PostingsHold(J, S)'
<1>0. TypeOK /\ dict[t] \in TermRecord /\ NoBlock \notin Block /\ Postings(t) \subseteq Block
      /\ page \in [Block -> PageRecord]
  BY LinkFacts2 DEF StoreOK, TypeOK
<1>1. LinkTerm(t)
  BY DEF LinkTerm
<1>2. TermLinked(t) /\ dict' = dict
  BY LinkBatch
<1>3. pc = "link" /\ t \in ins.todo /\ ins'.owner = ins.owner
  BY <1>2 DEF TermLinked
<1>4. JournalSound(J) /\ EntriesSound(J) /\ RefsSound(J)
  BY DEF PostingsHold
<1>5. PICK P, w, l : P = Postings(t) /\ w = ins.owner /\ l = dict[t].tail
  OBVIOUS
<1>6. dict[t].page # NoBlock /\ dict[t].inline # 1 /\ dict[t].head # NoBlock
      /\ page' = [page EXCEPT ![l].refs = @ \cup {w}]
  BY <1>5, LinkBatch
<1>7. l \in P \ J /\ l \in Block /\ page[l].next = NoBlock
  BY <1>0, <1>4, <1>5, <1>6, PostingTails
<1>8. /\ \A c \in Block : c # l => page'[c] = page[c]
      /\ page'[l].refs = page[l].refs \cup {w}
      /\ \A c \in Block : /\ page'[c].kind = page[c].kind /\ page'[c].term = page[c].term
                          /\ page'[c].next = page[c].next
  BY <1>0, <1>6, <1>7 DEF PageRecord
<1>9. Postings(t)' = P /\ P \in SUBSET Block
  BY <1>0, <1>5, <1>8 DEF Postings, Posts
<1>10. /\ w \in Owner /\ Refers(t, w) /\ dict[t].first < w
       /\ \A c \in P : \A o \in page[c].refs : o < w
  BY <1>3, <1>5, <1>6, LinkTarget
<1>11. EntrySound(J, t)'
  <2>1. page'[dict[t].page].kind = "Dictionary"
    BY <1>0, <1>4, <1>6 DEF EntriesSound, DictStays, TermRecord, BlockOrNone
  <2>2. PICK Q : Q = P \ J
    OBVIOUS
  <2>3. Q \in SUBSET Block /\ Chained(Link, Q, dict[t].head, dict[t].tail)
    BY <1>4, <1>5, <1>6, <1>9, <2>2 DEF EntriesSound
  <2>4. Chained(Link', Q, dict[t].head, dict[t].tail)
    BY <1>8, <2>3, ChainKept
  <2>5. EntryValid(dict[t])
    BY <1>4 DEF EntriesSound
  <2> QED BY <1>2, <1>6, <1>9, <2>1, <2>2, <2>4, <2>5 DEF EntrySound
<1>12. PageRefsSound(J, t)'
  <2>1. /\ \A c \in P : page[c].refs # {} /\ \A o \in page[c].refs : Refers(t, o)'
        /\ \A c \in P \ J : \A o \in page[c].refs : dict[t].first < o
        /\ \A c \in P : page[c].next # NoBlock =>
             \A o \in page[c].refs, p \in page[page[c].next].refs : o < p
    BY <1>4, <1>5, RefersKept DEF RefsSound, Postings
  <2>2. \A c \in P : page[c].next # NoBlock => page[c].next \in P
    BY <1>4, <1>5, PostLinks
  <2>3. Refers(t, w)'
    BY <1>10, RefersKept
  <2>4. ASSUME NEW c \in P
        PROVE  /\ page'[c].refs # {} /\ \A o \in page'[c].refs : Refers(t, o)'
               /\ c \notin J => \A o \in page'[c].refs : dict[t].first < o
               /\ page'[c].next # NoBlock =>
                    \A o \in page'[c].refs, p \in page'[page'[c].next].refs : o < p
    <3>1. CASE c = l
      BY <1>7, <1>8, <1>10, <2>1, <2>3, <3>1
    <3>2. CASE c # l /\ page[c].next # l
      BY <1>8, <1>9, <2>1, <2>2, <3>2
    <3>3. CASE c # l /\ page[c].next = l
      <4>1. l # NoBlock
        BY <1>0, <1>7
      <4>2. page'[c].refs = page[c].refs /\ page'[c].next = l
        BY <1>8, <1>9, <3>3
      <4> QED BY <1>8, <1>10, <2>1, <3>3, <4>1, <4>2
    <3> QED BY <3>1, <3>2, <3>3
  <2> QED BY <1>2, <1>9, <2>4 DEF PageRefsSound
<1>13. EntryRefsSound(t)'
  <2>1. \A o : Refers(t, o) => Refers(t, o)'
    BY RefersKept
  <2>2. Refers(t, dict[t].first)
    BY <1>4, <1>6 DEF RefsSound
  <2> QED BY <1>2, <1>6, <2>1, <2>2 DEF EntryRefsSound
<1>14. Has(J, t, w)' /\ \A o \in Owner : Has(J, t, o) => Has(J, t, o)'
  <2>1. \A o : Holds(P \ J, o) => \E c \in P \ J : o \in page'[c].refs
    BY <1>7, <1>8, <1>9 DEF Holds
  <2>2. w \in page'[l].refs
    BY <1>8
  <2> QED BY <1>2, <1>5, <1>6, <1>7, <1>9, <2>1, <2>2 DEF Has, Holds
<1>15. \A c \in J : Same(c)
  BY <1>7, <1>8 DEF Same, Turned
<1>16. \A c \in Posts' : page'[c].term \in Term
  BY <1>4, <1>8 DEF RefsSound, Posts
<1>17. \A u \in Term : u # t => PostsOf(u) /\ dict'[u] = dict[u]
  BY <1>1, LinkOther
<1> QED BY <1>1, <1>5, <1>11, <1>12, <1>13, <1>14, <1>15, <1>16, <1>17, LinkJoin

-----------------------------------------------------------------------------
(* Compaction *)

(* A traversal from one end of a chain visits the whole chain. *)
LEMMA ChainIsSet ==
  ASSUME TypeOK, NEW S \in SUBSET Block, NEW head, NEW tail, NEW stop,
         Chained(Link, S, head, tail), stop = tail \/ stop = NoBlock
  PROVE  Chain(head, stop) = S
<1> DEFINE c == CHOOSE f : f = [n \in 0 .. MaxBlocks |-> [b \in BlockOrNone |->
                  IF n = 0 \/ b = NoBlock THEN {}
                  ELSE {b} \cup (IF b = stop THEN {} ELSE f[n - 1][page[b].next])]]
<1>1. Walk(head, stop) = c[MaxBlocks][head]
  BY DEF Walk
<1>2. MaxBlocks \in Nat
  BY BoundAssumption
<1>3. Link \in [1 .. MaxBlocks -> 0 .. MaxBlocks] /\ BlockOrNone = 0 .. MaxBlocks
  BY <1>2, LinkFacts2 DEF Block, BlockOrNone, NoBlock
<1>4. \A f : (f = [n \in 0 .. MaxBlocks |-> [b \in BlockOrNone |->
                     IF n = 0 \/ b = NoBlock THEN {}
                     ELSE {b} \cup (IF b = stop THEN {} ELSE f[n - 1][page[b].next])]])
             = IsWalk(f, MaxBlocks, Link, stop)
  <2>1. \A f, n : \A b \in BlockOrNone :
          (IF n = 0 \/ b = NoBlock THEN {}
           ELSE {b} \cup (IF b = stop THEN {} ELSE f[n - 1][page[b].next]))
          = (IF n = 0 \/ b = 0 THEN {}
             ELSE {b} \cup (IF b = stop THEN {} ELSE f[n - 1][Link[b]]))
    <3>1. \A b \in BlockOrNone : b = 0 \/ (b # 0 /\ Link[b] = page[b].next)
      BY DEF Link, Block, BlockOrNone, NoBlock
    <3> HIDE DEF Link
    <3> USE DEF NoBlock
    <3> SUFFICES ASSUME NEW f, NEW n, NEW b \in BlockOrNone
                 PROVE  (IF n = 0 \/ b = 0 THEN {}
                         ELSE {b} \cup (IF b = stop THEN {} ELSE f[n - 1][page[b].next]))
                        = (IF n = 0 \/ b = 0 THEN {}
                           ELSE {b} \cup (IF b = stop THEN {} ELSE f[n - 1][Link[b]]))
      OBVIOUS
    <3>2. CASE b = 0
      BY <3>2
    <3>3. CASE b # 0 /\ Link[b] = page[b].next
      BY <3>3
    <3> QED BY <3>1, <3>2, <3>3
  <2> QED
    <3> HIDE DEF Link
    <3> TAKE f
    <3>1. [n \in 0 .. MaxBlocks |-> [b \in BlockOrNone |->
             IF n = 0 \/ b = NoBlock THEN {}
             ELSE {b} \cup (IF b = stop THEN {} ELSE f[n - 1][page[b].next])]]
          = [n \in 0 .. MaxBlocks |-> [b \in BlockOrNone |->
               IF n = 0 \/ b = 0 THEN {}
               ELSE {b} \cup (IF b = stop THEN {} ELSE f[n - 1][Link[b]])]]
      BY <2>1, Zenon
    <3>2. [n \in 0 .. MaxBlocks |-> [b \in BlockOrNone |->
             IF n = 0 \/ b = 0 THEN {}
             ELSE {b} \cup (IF b = stop THEN {} ELSE f[n - 1][Link[b]])]]
          = [n \in 0 .. MaxBlocks |-> [b \in 0 .. MaxBlocks |->
               IF n = 0 \/ b = 0 THEN {}
               ELSE {b} \cup (IF b = stop THEN {} ELSE f[n - 1][Link[b]])]]
      BY <1>3, Zenon
    <3> QED BY <3>1, <3>2, Zenon DEF IsWalk
<1>5. IsWalk(c, MaxBlocks, Link, stop)
  <2>1. \E f : IsWalk(f, MaxBlocks, Link, stop)
    <3> HIDE DEF Link
    <3> QED BY <1>2, <1>3, WalkExists
  <2>2. \E f : f = [n \in 0 .. MaxBlocks |-> [b \in BlockOrNone |->
                  IF n = 0 \/ b = NoBlock THEN {}
                  ELSE {b} \cup (IF b = stop THEN {} ELSE f[n - 1][page[b].next])]]
    BY <1>4, <2>1, Zenon
  <2>3. c = [n \in 0 .. MaxBlocks |-> [b \in BlockOrNone |->
                  IF n = 0 \/ b = NoBlock THEN {}
                  ELSE {b} \cup (IF b = stop THEN {} ELSE c[n - 1][page[b].next])]]
    BY <2>2, Zenon
  <2> HIDE DEF c
  <2> QED BY <1>4, <2>3, Zenon
<1> HIDE DEF c
<1>6. c[MaxBlocks][head] = S
  <2>1. S \in SUBSET (1 .. MaxBlocks) /\ (stop = tail \/ stop = 0)
    BY DEF Block, NoBlock
  <2> HIDE DEF Link
  <2> QED BY <1>2, <1>5, <2>1, WalkChain
<1> QED BY <1>1, <1>6 DEF Chain

(* No operation but an insertion links. *)
LEMMA NoLink ==
  ASSUME StoreOK, pc # "link"
  PROVE  \A u \in Term : ~LinkTerm(u)
BY LinkBatch DEF LinkTerm, TermLinked

(* set_inline_second(None) *)
LEMMA InlineDropped ==
  ASSUME StoreOK, StoreOK', OwnersChained, DictChained, PostingsSound, InsertSound,
         [Next]_vars, SlotsStay, DictStays,
         NEW J \in SUBSET Block, NEW S, PostingsHold(J, S), NEW t \in Term, CompactInline(t)
  PROVE  PostingsHold(J, S)'
<1>0. TypeOK /\ dict[t] \in TermRecord /\ dict \in [Term -> TermRecord]
  BY DEF StoreOK, TypeOK
<1>1. JournalSound(J) /\ EntriesSound(J) /\ RefsSound(J) /\ LinksComplete(J)
  BY DEF PostingsHold
<1>2. Posts' = Posts /\ (\A b \in Posts : Same(b)) /\ \A u : PostsOf(u)
  BY QuietPosts
<1>3. /\ pc = "compact" /\ pc' = "compact" /\ UNCHANGED <<meta, owner>>
      /\ dict[t].inline = 1 /\ ~Live(dict[t].second)
      /\ dict' = [dict EXCEPT ![t] = WithoutSecond(dict[t])]
  BY DEF CompactInline, Visit
<1>4. /\ dict'[t].page = dict[t].page /\ dict'[t].first = dict[t].first /\ dict'[t].inline = 0
      /\ dict'[t].head = NoBlock /\ dict'[t].tail = NoBlock
      /\ \A u \in Term : u # t => dict'[u] = dict[u]
  BY <1>0, <1>3 DEF WithoutSecond, NewEntry
<1>5. \A u \in Term : ~LinkTerm(u)
  BY <1>3, NoLink
<1>6. PICK P : P = Postings(t)
  OBVIOUS
<1>7. /\ P \in SUBSET Block /\ Postings(t)' = P /\ P \ J = {}
      /\ \A b \in P : page'[b].next = page[b].next /\ page'[b].refs = page[b].refs
  BY <1>0, <1>1, <1>2, <1>3, <1>6, LinkFacts2 DEF PostsOf, Same, Turned, EntriesSound
<1>8. dict[t].page # NoBlock
  <2>1. dict[t].page = NoBlock => dict[t] = NoEntry
    BY <1>1 DEF EntriesSound
  <2>2. NoEntry.inline = 0
    BY DEF NoEntry
  <2> QED BY <1>3, <2>1, <2>2
<1>9. EntrySound(J, t)'
  <2>1. page'[dict[t].page].kind = "Dictionary"
    BY <1>0, <1>1, <1>8 DEF EntriesSound, DictStays, TermRecord, BlockOrNone
  <2>2. Chained(Link', P \ J, NoBlock, NoBlock)
    BY <1>7, ChainedEmpty DEF NoBlock
  <2> QED BY <1>4, <1>7, <1>8, <2>1, <2>2 DEF EntrySound, EntryValid
<1>10. PageRefsSound(J, t)'
  <2>1. \A b \in P : page[b].next # NoBlock => page[b].next \in P
    BY <1>1, <1>6, PostLinks
  <2>2. /\ \A b \in P : page[b].refs # {} /\ \A o \in page[b].refs : Refers(t, o)'
        /\ \A b \in P : page[b].next # NoBlock =>
             \A o \in page[b].refs, p \in page[page[b].next].refs : o < p
    BY <1>1, <1>6, RefersKept DEF RefsSound, Postings
  <2> QED BY <1>7, <2>1, <2>2 DEF PageRefsSound
<1>11. EntryRefsSound(t)'
  <2>1. \A o : Refers(t, o) => Refers(t, o)'
    BY RefersKept
  <2>2. Refers(t, dict[t].first)
    BY <1>1, <1>8 DEF RefsSound
  <2> QED BY <1>4, <2>1, <2>2 DEF EntryRefsSound
<1>12. TermComplete(J, t)'
  <2> SUFFICES ASSUME NEW o \in Owner, t \in owner'[o].doc.terms, Due(o, t)'
               PROVE  Has(J, t, o)'
    BY DEF TermComplete
  <2>1. Has(J, t, o) /\ Due(o, t)
    BY <1>1, <1>5, DueStep DEF LinksComplete
  <2>2. o # dict[t].second
    BY <1>3, <2>1 DEF Due
  <2>3. ~Holds(P \ J, o)
    BY <1>7 DEF Holds
  <2> QED BY <1>4, <1>6, <2>1, <2>2, <2>3 DEF Has
<1>13. \A u \in Term : TermSound(J, u)'
  <2>1. ASSUME NEW u \in Term, u # t PROVE TermSound(J, u)'
    <3>1. TermSound(J, u)
      BY <1>1, TermsSplit
    <3> QED BY <1>1, <1>2, <1>4, <1>5, <2>1, <3>1, TermKept
  <2> QED BY <1>9, <1>10, <1>11, <1>12, <2>1 DEF TermSound
<1>14. EntriesSound(J)' /\ RefsSound(J)' /\ LinksComplete(J)'
  <2>1. \A b \in Posts' : page'[b].term \in Term
    BY <1>1, <1>2 DEF RefsSound, Same, Turned
  <2>2. TypeOK'
    BY DEF StoreOK
  <2> QED BY <1>13, <2>1, <2>2, TermsJoin
<1>15. JournalSound(J)'
  BY <1>1, <1>2, <1>3, JournalKept DEF JournalSound
<1>16. RewriteSound(J, S)'
  BY <1>3 DEF RewriteSound
<1> QED BY <1>14, <1>15, <1>16 DEF PostingsHold

(* A rewrite starts: what it replaces is the chain, or what is behind the  *)
(* boundary.                                                               *)
LEMMA RewriteStarts ==
  ASSUME StoreOK, NEW J \in SUBSET Block, NEW S, PostingsHold(J, S), NEW t \in Term, RewriteBegin(t)
  PROVE  \E S2 \in SUBSET Block : RewriteSound(J, S2)'
<1>0. TypeOK /\ cpt \in CompactRecord /\ m = meta /\ NoBlock \notin Block /\ NoBlock = 0
      /\ pc = "compact" /\ UNCHANGED <<page, meta, dict, owner>> /\ pc' = "rewrite"
      /\ \A b \in Block : Link[b] = page[b].next
  BY LinkFacts2 DEF StoreOK, TypeOK, ImageCurrent, MetapageCurrent, RewriteBegin, Visit
<1>1. JournalSound(J) /\ EntriesSound(J) /\ RefsSound(J)
  BY DEF PostingsHold
<1>2. J = {} /\ meta.journal.phase = "None"
  BY <1>0, <1>1 DEF JournalSound, RewriteBegin
<1>3. PICK P : P = Postings(t)
  OBVIOUS
<1>4. PICK e : e = dict[t]
  OBVIOUS
<1>5. /\ P \in SUBSET Block /\ P \ J = P /\ e.inline # 1 /\ e.head # NoBlock
      /\ Chained(Link, P, e.head, e.tail) /\ Postings(t)' = P
  <2>1. P \in SUBSET Block /\ P \ J = P
    BY <1>0, <1>2, <1>3, LinkFacts2
  <2>2. e.inline # 1 /\ e.head # NoBlock
    BY <1>4 DEF RewriteBegin
  <2>3. Chained(Link, P \ J, e.head, e.tail)
    BY <1>1, <1>3, <1>4, <2>2 DEF EntriesSound
  <2>4. Postings(t)' = P
    BY <1>0, <1>3 DEF Postings, Posts
  <2> QED BY <2>1, <2>2, <2>3, <2>4
<1>6. e.page # NoBlock
  <2>1. e.page = NoBlock => e = NoEntry
    BY <1>1, <1>4 DEF EntriesSound
  <2>2. NoEntry.head = NoBlock
    BY DEF NoEntry
  <2> QED BY <1>5, <2>1, <2>2
<1>7. Chain(e.head, e.tail) = P
  BY <1>0, <1>5, ChainIsSet
<1>8. PICK source \in Block, boundary \in BlockOrNone :
        /\ \/ source = e.head /\ boundary = NoBlock
           \/ RetainedPrefix(LivePrefix(e.head, e.tail), boundary, source)
        /\ cpt' = [cpt EXCEPT !.todo = cpt.todo \ {t}, !.term = t,
                     !.source = source, !.boundary = boundary,
                     !.pending = {o \in ChainRefs(source, e.tail) : Live(o)}]
  BY <1>4 DEF RewriteBegin
<1>9. /\ cpt'.term = t /\ cpt'.source = source /\ cpt'.boundary = boundary
      /\ cpt'.pending = {o \in ChainRefs(source, e.tail) : Live(o)}
  BY <1>0, <1>8 DEF CompactRecord
<1>10. ASSUME NEW V \in SUBSET P, source \in V, Chained(Link, V, source, e.tail),
              IF boundary = NoBlock THEN source = e.head
              ELSE boundary \in P /\ page[boundary].next = source
       PROVE  RewriteSound(J, V)'
  <2>1. Chain(source, e.tail) = V
    BY <1>0, <1>5, <1>10, ChainIsSet
  <2>2. \A o : o \in cpt'.pending <=> Holds(V, o) /\ Live(o)
    BY <1>9, <2>1 DEF ChainRefs, Holds
  <2>3. Chained(Link', V, source, e.tail)
    BY <1>0, <1>5, <1>10, ChainKept
  <2>4. /\ \A o : Holds(V, o)' <=> Holds(V, o)
        /\ \A o : ~Holds(J, o)'
        /\ \A o : Live(o)' <=> Live(o)
    BY <1>0, <1>2 DEF Holds, Live
  <2>5. /\ meta'.journal.phase # "Retiring" /\ dict'[t] = e
        /\ \A b \in J : page'[b].term = t
        /\ IF boundary = NoBlock THEN source = e.head
           ELSE boundary \in P /\ page'[boundary].next = source
    BY <1>0, <1>2, <1>4, <1>10
  <2> HIDE DEF Holds, Live
  <2>6. /\ \A o \in cpt'.pending : Holds(V, o)'
        /\ \A o \in Owner : Holds(J, o)' => Holds(V, o)'
        /\ \A o \in Owner : Holds(V, o)' /\ Live(o)' => o \in cpt'.pending \/ Holds(J, o)'
        /\ \A o \in Owner, p \in cpt'.pending : Holds(J, o)' => o < p
    BY <2>2, <2>4
  <2> QED BY <1>5, <1>6, <1>9, <1>10, <2>3, <2>5, <2>6 DEF RewriteSound
<1>11. CASE source = e.head /\ boundary = NoBlock
  <2>1. source \in P
    BY <1>1, <1>3, <1>4, <1>5, <1>11, PostingTails
  <2> QED BY <1>5, <1>10, <1>11, <2>1
<1>12. CASE RetainedPrefix(LivePrefix(e.head, e.tail), boundary, source)
  <2>1. boundary \in P /\ boundary # NoBlock /\ page[boundary].next = source /\ boundary \in Block
    BY <1>0, <1>5, <1>7, <1>12 DEF RetainedPrefix, LivePrefix
  <2>2. Link[boundary] = source /\ source # 0 /\ 0 \notin P
    BY <1>0, <1>5, <2>1
  <2>3. PICK U \in SUBSET P, V \in SUBSET P : Split(Link, P, e.head, e.tail, boundary, U, V)
    <3> HIDE DEF Link
    <3> QED BY <1>5, <2>1, <2>2, ChainedSplit
  <2>4. source \in V /\ Chained(Link, V, source, e.tail)
    BY <2>2, <2>3 DEF Split
  <2> QED BY <1>5, <1>10, <2>1, <2>4
<1> QED BY <1>8, <1>11, <1>12

(* The first references of a stream are below the rest of it. *)
LEMMA FirstRefsFacts ==
  ASSUME NEW refs \in SUBSET Owner, refs # {}, NEW n \in Nat \ {0}
  PROVE  /\ FirstRefs(refs, n) \subseteq refs /\ FirstRefs(refs, n) # {}
         /\ \A o \in FirstRefs(refs, n), p \in refs \ FirstRefs(refs, n) : o < p
<1>1. MaxOwners \in Nat /\ refs \subseteq Nat
  BY BoundAssumption DEF Owner
<1>2. IsFiniteSet(refs)
  <2>1. IsFiniteSet(1 .. MaxOwners)
    BY <1>1, FS_Interval
  <2> QED BY <2>1, FS_Subset DEF Owner
<1>3. \A p : /\ IsFiniteSet({q \in refs : q <= p}) /\ Cardinality({q \in refs : q <= p}) \in Nat
  BY <1>2, FS_Subset, FS_CardinalityType
<1>4. FirstRefs(refs, n) # {}
  <2>1. PICK x \in refs : \A y \in refs : x <= y
    BY <1>1, LeastElement
  <2>2. {q \in refs : q <= x} = {x}
    <3>1. \A q \in refs : q \in Nat /\ x \in Nat
      BY <1>1, <2>1
    <3>2. \A q \in refs : q <= x => q = x
      BY <2>1, <3>1
    <3>3. x <= x
      BY <2>1, <3>1
    <3> QED BY <2>1, <3>2, <3>3
  <2>3. Cardinality({x}) = 1
    BY FS_Singleton
  <2> QED BY <2>1, <2>2, <2>3 DEF FirstRefs
<1>5. ASSUME NEW o \in FirstRefs(refs, n), NEW p \in refs \ FirstRefs(refs, n) PROVE o < p
  <2> SUFFICES ASSUME p <= o PROVE FALSE
    BY <1>1 DEF FirstRefs
  <2>1. o \in refs /\ Cardinality({q \in refs : q <= o}) <= n
    BY DEF FirstRefs
  <2>2. {q \in refs : q <= p} \subseteq {q \in refs : q <= o}
    <3>1. o \in Nat /\ p \in Nat /\ \A q \in refs : q \in Nat
      BY <1>1, <2>1
    <3>2. \A q \in refs : q <= p => q <= o
      BY <3>1
    <3> QED BY <3>2
  <2>3. Cardinality({q \in refs : q <= p}) <= Cardinality({q \in refs : q <= o})
    BY <1>3, <2>2, FS_Subset
  <2>4. Cardinality({q \in refs : q <= p}) <= n
    BY <1>3, <2>1, <2>3
  <2> QED BY <2>4 DEF FirstRefs
<1> QED BY <1>4, <1>5 DEF FirstRefs

(* A term whose entry, and whose pages outside the journal, a step leaves  *)
(* alone; J2 is the journal and P2 are the pages of t afterwards.          *)
LEMMA OutsideKept ==
  ASSUME StoreOK, InsertSound, [Next]_vars, SlotsStay, DictStays,
         NEW J, NEW J2, NEW t \in Term, TermSound(J, t), ~LinkTerm(t), dict'[t] = dict[t],
         NEW P, P = Postings(t), NEW P2, P2 = Postings(t)', P2 \ J2 = P \ J,
         \A b \in P \ J : page'[b].next = page[b].next /\ page'[b].refs = page[b].refs
  PROVE  /\ EntrySound(J2, t)' /\ EntryRefsSound(t)' /\ TermComplete(J2, t)'
         /\ \A b \in P2 \ J2 : \A o \in page'[b].refs : dict'[t].first < o
<1>0. TypeOK /\ dict[t] \in TermRecord
  BY DEF StoreOK, TypeOK
<1>1. PICK Q : Q = P \ J
  OBVIOUS
<1>2. /\ Q \in SUBSET Block /\ Q = P2 \ J2
      /\ \A b \in Q : page'[b].next = page[b].next /\ page'[b].refs = page[b].refs
  BY <1>0, <1>1, LinkFacts2
<1>3. EntrySound(J2, t)'
  <2>1. dict[t].page # NoBlock => page'[dict[t].page].kind = "Dictionary"
    BY <1>0 DEF TermSound, EntrySound, DictStays, TermRecord, BlockOrNone
  <2>2. dict[t].inline = 1 => P2 \subseteq J2
    BY <1>1, <1>2 DEF TermSound, EntrySound
  <2>3. dict[t].inline # 1 => Chained(Link', Q, dict[t].head, dict[t].tail)
    <3>1. ASSUME dict[t].inline # 1 PROVE Chained(Link, Q, dict[t].head, dict[t].tail)
      BY <1>1, <3>1 DEF TermSound, EntrySound
    <3> QED BY <1>2, <3>1, ChainKept
  <2>4. EntryValid(dict[t]) /\ (dict[t].page = NoBlock => dict[t] = NoEntry)
    BY DEF TermSound, EntrySound
  <2> QED BY <1>2, <2>1, <2>2, <2>3, <2>4 DEF EntrySound
<1>4. EntryRefsSound(t)'
  <2>1. \A o : Refers(t, o) => Refers(t, o)'
    BY RefersKept
  <2> QED BY <2>1 DEF TermSound, EntryRefsSound
<1>5. TermComplete(J2, t)'
  <2> SUFFICES ASSUME NEW o \in Owner, t \in owner'[o].doc.terms, Due(o, t)'
               PROVE  Has(J2, t, o)'
    BY DEF TermComplete
  <2>1. Has(J, t, o)
    BY DueStep DEF TermSound, TermComplete
  <2>2. Holds(Q, o) => \E b \in Q : o \in page'[b].refs
    BY <1>2 DEF Holds
  <2> QED BY <1>1, <1>2, <2>1, <2>2 DEF Has, Holds
<1>6. \A b \in P2 \ J2 : \A o \in page'[b].refs : dict'[t].first < o
  BY <1>1, <1>2 DEF TermSound, PageRefsSound
<1> QED BY <1>3, <1>4, <1>5, <1>6

(* persist_output(): the page joins the journal. *)
LEMMA OutputJoins ==
  ASSUME StoreOK, StoreOK', InsertSound, [Next]_vars, SlotsStay, DictStays,
         NEW J \in SUBSET Block, NEW S \in SUBSET Block, PostingsHold(J, S),
         NEW b \in Block, page[b].kind \in {"Zero", "Free"}, Persisted(b, Chunk)
  PROVE  PostingsHold(J \cup {b}, S)'
<1>0. TypeOK /\ NoBlock \notin Block /\ NoBlock = 0 /\ cpt \in CompactRecord
  BY LinkFacts2 DEF StoreOK, TypeOK
<1>1. JournalSound(J) /\ EntriesSound(J) /\ RefsSound(J) /\ LinksComplete(J) /\ RewriteSound(J, S)
  BY DEF PostingsHold
<1>2. PICK t, chunk, P, l, J2 : /\ t = cpt.term /\ chunk = Chunk /\ P = Postings(t)
                                /\ l = meta.journal.tail /\ J2 = J \cup {b}
  OBVIOUS
<1>3. /\ pc = "rewrite" /\ pc' = "rewrite" /\ cpt.pending # {} /\ meta.journal.phase # "Retiring"
      /\ meta'.journal.phase = "Building" /\ meta'.journal.tail = b
      /\ cpt'.pending = cpt.pending \ chunk /\ cpt'.term = t
      /\ cpt'.source = cpt.source /\ cpt'.boundary = cpt.boundary
      /\ UNCHANGED <<dict, owner, ins>> /\ t \in Term
  BY <1>2 DEF Persisted, StoreOK, ImageCurrent, MetapageCurrent
<1>4. /\ chunk \subseteq cpt.pending /\ chunk # {}
      /\ \A o \in chunk, p \in cpt.pending \ chunk : o < p
  <2>1. cpt.pending \in SUBSET Owner
    BY <1>0 DEF CompactRecord
  <2>2. SealedPerPage \in Nat \ {0}
    BY CapacityAssumption
  <2> QED BY <1>2, <1>3, <2>1, <2>2, FirstRefsFacts DEF Chunk
<1>5. b \notin Posts /\ b \notin J /\ b \notin P /\ P \subseteq Posts /\ P \subseteq Block
      /\ J \subseteq Posts /\ J \subseteq P
  <2>1. b \notin Posts
    BY DEF Posts, PostingKind
  <2>2. P \subseteq Posts /\ P \subseteq Block /\ J \subseteq Posts
    BY <1>0, <1>1, <1>2, LinkFacts2 DEF JournalSound
  <2>3. J \subseteq P
    BY <1>1, <1>2, <1>3, <2>2 DEF RewriteSound, Postings
  <2> QED BY <2>1, <2>2, <2>3
<1>6. l # NoBlock => l \in J /\ page[l].next = NoBlock /\ meta.journal.phase # "None"
  BY <1>1, <1>2, PostingTails
<1>7. /\ page'[b].kind \in PostingKind /\ page'[b].next = NoBlock /\ page'[b].term = t
      /\ page'[b].refs = chunk
      /\ \A c \in Block : c # b =>
           /\ page'[c].kind = page[c].kind /\ page'[c].term = page[c].term
           /\ page'[c].refs = page[c].refs
           /\ c # l => Same(c)
           /\ c = l => page'[c].next = b
      /\ meta'.journal.head = IF meta.journal.head = NoBlock THEN b ELSE meta.journal.head
  <2> DEFINE out == SealedPage(t, chunk, cpt.mode = "DirectTid")
  <2>1. out.kind \in PostingKind /\ out.next = NoBlock /\ out.term = t /\ out.refs = chunk
    BY PageFields DEF PostingKind
  <2>2. IF meta.journal.phase = "None"
        THEN Puts(b, out) /\ meta'.journal.head = b
        ELSE /\ page[l].kind \in {"Sealed", "Direct"}
             /\ l \in Block => PutsBehind(b, out, l)
             /\ meta'.journal.head = meta.journal.head
    BY <1>2 DEF Persisted
  <2> HIDE DEF out
  <2>3. CASE meta.journal.phase = "None"
    <3>1. meta.journal.head = NoBlock /\ l = NoBlock
      BY <1>1, <1>2, <2>3, PostingTails
    <3> QED BY <1>0, <2>1, <2>2, <2>3, <3>1 DEF Puts, Same, Turned
  <2>4. CASE meta.journal.phase # "None"
    <3>1. meta.journal.head \in Block /\ l \in Block
      BY <1>1, <1>2, <2>4, PostingTails
    <3> QED BY <1>0, <2>1, <2>2, <2>4, <3>1 DEF PutsBehind, Same, Turned
  <2> QED BY <2>3, <2>4
<1>8. /\ Postings(t)' = P \cup {b} /\ \A c \in Posts' : page'[c].term \in Term
      /\ Posts \subseteq Posts' /\ b \in Posts'
  <2>1. \A c : c \in Postings(t)' <=> c \in P \cup {b}
    BY <1>2, <1>5, <1>7 DEF Postings, Posts
  <2> QED BY <1>1, <1>3, <1>5, <1>7, <2>1 DEF Posts, RefsSound
<1>9. JournalSound(J2)'
  <2>1. Chained(Link', J2, meta'.journal.head, meta'.journal.tail)
    <3>1. Chained(Link, J, meta.journal.head, l)
      BY <1>1, <1>2 DEF JournalSound
    <3>2. l # NoBlock => page'[l].next = b
      BY <1>5, <1>6, <1>7
    <3>3. \A c \in J : c # l => page'[c].next = page[c].next
      BY <1>5, <1>7 DEF Same, Turned
    <3>4. PICK h : h = meta.journal.head
      OBVIOUS
    <3>5. Chained(Link, J, h, l) /\ b \notin J /\ page'[b].next = NoBlock
      BY <1>5, <1>7, <3>1, <3>4
    <3>6. Chained(Link', J \cup {b}, IF h = NoBlock THEN b ELSE h, b)
      BY ONLY J \in SUBSET Block, b \in Block, <3>2, <3>3, <3>5, ChainAppended
    <3> QED BY <1>2, <1>3, <1>7, <3>4, <3>6
  <2>2. J2 \subseteq Posts'
    BY <1>2, <1>5, <1>8
  <2>3. \A c \in J2 : page'[c].term = t
    BY <1>1, <1>2, <1>3, <1>5, <1>7 DEF RewriteSound
  <2> QED BY <1>2, <1>3, <2>1, <2>2, <2>3 DEF JournalSound
<1>10. \A u \in Term : ~LinkTerm(u)
  BY <1>3, NoLink
<1>11. ASSUME NEW u \in Term, u # t PROVE TermSound(J2, u)'
  <2>1. PostsOf(u)
    <3>1. \A c \in Postings(u) : c \in Block /\ c # b /\ c # l
      BY <1>0, <1>2, <1>5, <1>6, <1>11 DEF Postings, Posts
    <3>2. \A c : c \in Postings(u)' <=> c \in Postings(u)
      BY <1>5, <1>7, <1>11 DEF Postings, Posts
    <3> QED BY <1>7, <3>1, <3>2 DEF PostsOf
  <2>2. Postings(u) \ J2 = Postings(u) \ J
    BY <1>2, <1>5 DEF Postings
  <2>3. TermSound(J, u)
    BY <1>1, TermsSplit
  <2> QED BY <1>1, <1>3, <1>10, <2>1, <2>2, <2>3, TermKept
<1>12. TermSound(J, t)
  BY <1>1, <1>3, TermsSplit
<1>13. /\ EntrySound(J2, t)' /\ EntryRefsSound(t)' /\ TermComplete(J2, t)'
       /\ \A c \in (P \cup {b}) \ J2 : \A o \in page'[c].refs : dict'[t].first < o
  <2>1. (P \cup {b}) \ J2 = P \ J
    BY <1>2, <1>5
  <2>2. \A c \in P \ J : page'[c].next = page[c].next /\ page'[c].refs = page[c].refs
    BY <1>0, <1>5, <1>6, <1>7 DEF Same, Turned
  <2>3. PICK P2 : P2 = P \cup {b}
    OBVIOUS
  <2>4. /\ P = Postings(t) /\ P2 = Postings(t)' /\ P2 \ J2 = P \ J
        /\ dict'[t] = dict[t] /\ ~LinkTerm(t) /\ t \in Term
    BY <1>2, <1>3, <1>8, <1>10, <2>1, <2>3
  <2>5. /\ EntrySound(J2, t)' /\ EntryRefsSound(t)' /\ TermComplete(J2, t)'
        /\ \A c \in P2 \ J2 : \A o \in page'[c].refs : dict'[t].first < o
    BY ONLY StoreOK, InsertSound, [Next]_vars, SlotsStay, DictStays, <1>12, <2>2, <2>4, OutsideKept,
            SMTT(30)
  <2> QED BY <2>3, <2>5
<1>14. PageRefsSound(J2, t)'
  <2>1. /\ \A c \in P : page[c].refs # {} /\ \A o \in page[c].refs : Refers(t, o)
        /\ \A c \in P : page[c].next # NoBlock =>
             /\ page[c].next \in P
             /\ \A o \in page[c].refs, p \in page[page[c].next].refs : o < p
    BY <1>1, <1>2, <1>3, <1>12, PostLinks DEF TermSound, PageRefsSound
  <2>2. \A o \in chunk : Refers(t, o)
    <3>1. \A o \in chunk : Holds(S, o)
      BY <1>1, <1>3, <1>4 DEF RewriteSound
    <3>2. S \subseteq P
      BY <1>1, <1>2, <1>3 DEF RewriteSound
    <3> QED BY <2>1, <3>1, <3>2 DEF Holds
  <2>3. l # NoBlock => \A o \in page[l].refs, p \in chunk : o < p
    <3>1. l # NoBlock => \A o \in page[l].refs : o \in Owner /\ Holds(J, o)
      BY <1>5, <1>6, <2>1 DEF Holds, Refers
    <3> QED BY <1>1, <1>3, <1>4, <3>1 DEF RewriteSound
  <2>4. \A o : Refers(t, o) => Refers(t, o)'
    BY RefersKept
  <2>5. ASSUME NEW c \in P \cup {b}
        PROVE  /\ page'[c].refs # {} /\ \A o \in page'[c].refs : Refers(t, o)'
               /\ page'[c].next # NoBlock =>
                    \A o \in page'[c].refs, p \in page'[page'[c].next].refs : o < p
    <3>1. CASE c = b
      BY <1>4, <1>7, <2>2, <2>4, <3>1
    <3>2. CASE c \in P /\ c # l
      <4>1. page'[c].refs = page[c].refs /\ page'[c].next = page[c].next
        BY <1>5, <1>7, <3>2 DEF Same, Turned
      <4>2. page[c].next # NoBlock => page'[page[c].next].refs = page[page[c].next].refs
        BY <1>5, <1>7, <2>1, <3>2
      <4> QED BY <2>1, <2>4, <3>2, <4>1, <4>2
    <3>3. CASE c \in P /\ c = l
      <4>1. page'[c].refs = page[c].refs /\ page'[c].next = b /\ l # NoBlock
        BY <1>0, <1>5, <1>7, <3>3
      <4> QED BY <1>7, <2>1, <2>3, <2>4, <3>3, <4>1
    <3> QED BY <3>1, <3>2, <3>3
  <2> QED BY <1>8, <1>13, <2>5 DEF PageRefsSound
<1>15. EntriesSound(J2)' /\ RefsSound(J2)' /\ LinksComplete(J2)'
  <2>1. \A u \in Term : TermSound(J2, u)'
    BY <1>11, <1>13, <1>14 DEF TermSound
  <2>2. TypeOK'
    BY DEF StoreOK
  <2> QED BY <1>8, <2>1, <2>2, TermsJoin
<1>16. RewriteSound(J2, S)'
  <2>1. /\ dict[t].inline # 1 /\ dict[t].page # NoBlock
        /\ S \subseteq P \ J /\ cpt.source \in S
        /\ Chained(Link, S, cpt.source, dict[t].tail)
        /\ IF cpt.boundary = NoBlock THEN cpt.source = dict[t].head
           ELSE cpt.boundary \in P \ J /\ page[cpt.boundary].next = cpt.source
        /\ \A c \in J : page[c].term = t
        /\ \A o \in cpt.pending : Holds(S, o)
        /\ \A o \in Owner : Holds(J, o) => Holds(S, o)
        /\ \A o \in Owner : Holds(S, o) /\ Live(o) => o \in cpt.pending \/ Holds(J, o)
        /\ \A o \in Owner, p \in cpt.pending : Holds(J, o) => o < p
    BY <1>1, <1>2, <1>3 DEF RewriteSound
  <2>2. \A c \in P \ J : page'[c].next = page[c].next /\ page'[c].refs = page[c].refs
    BY <1>0, <1>5, <1>6, <1>7 DEF Same, Turned
  <2>3. Chained(Link', S, cpt.source, dict[t].tail)
    BY <2>1, <2>2, ChainKept
  <2>4. /\ \A o : Holds(S, o)' <=> Holds(S, o)
        /\ \A o : Holds(J2, o)' <=> Holds(J, o) \/ o \in chunk
        /\ \A o : Live(o)' <=> Live(o)
    BY <1>2, <1>3, <1>5, <1>7, <2>1, <2>2 DEF Holds, Live
  <2>5. S \subseteq (P \cup {b}) \ J2 /\ \A c \in J2 : page'[c].term = t
    BY <1>2, <1>5, <1>7, <2>1
  <2>6. cpt.boundary # NoBlock => /\ cpt.boundary \in (P \cup {b}) \ J2
                                  /\ page'[cpt.boundary].next = cpt.source
    BY <1>2, <1>5, <2>1, <2>2
  <2> HIDE DEF Holds, Live
  <2>7. /\ \A o \in cpt'.pending : Holds(S, o)'
        /\ \A o \in Owner : Holds(J2, o)' => Holds(S, o)'
        /\ \A o \in Owner : Holds(S, o)' /\ Live(o)' => o \in cpt'.pending \/ Holds(J2, o)'
        /\ \A o \in Owner, p \in cpt'.pending : Holds(J2, o)' => o < p
    BY <1>3, <1>4, <2>1, <2>4
  <2> QED BY <1>3, <1>8, <2>1, <2>3, <2>5, <2>6, <2>7 DEF RewriteSound
<1>17. PostingsHold(J2, S)'
  BY <1>9, <1>15, <1>16 DEF PostingsHold
<1> QED BY <1>2, <1>17

(* What the rewrite replaces, S, and the journal, J, change places: the    *)
(* chain of t is then what is before the boundary and the journal.         *)
LEMMA ChainsSwapped ==
  ASSUME StoreOK, NEW J \in SUBSET Block, NEW S \in SUBSET Block, PostingsHold(J, S), Replaced,
         NEW t \in Term, t = cpt.term, NEW P, P = Postings(t)
  PROVE  /\ Chained(Link', P \ S, dict'[t].head, dict'[t].tail)
         /\ Chained(Link', S, cpt.source, dict[t].tail)
         /\ cpt.boundary # NoBlock =>
              /\ cpt.boundary \in P \ S /\ page'[cpt.boundary].next = meta.journal.head
              /\ \A c \in J : \A o \in page[cpt.boundary].refs, p \in page[c].refs : o < p
<1>0. TypeOK /\ NoBlock \notin Block /\ NoBlock = 0 /\ dict[t] \in TermRecord
      /\ Link \in [Block -> BlockOrNone] /\ (\A c \in Block : Link[c] = page[c].next)
      /\ page \in [Block -> PageRecord]
  BY LinkFacts2 DEF StoreOK, TypeOK
<1>1. JournalSound(J) /\ EntriesSound(J) /\ RefsSound(J) /\ RewriteSound(J, S)
  BY DEF PostingsHold
<1>2. PICK bd, src, e, jh, jl : /\ bd = cpt.boundary /\ src = cpt.source /\ e = dict[t]
                                /\ jh = meta.journal.head /\ jl = meta.journal.tail
  OBVIOUS
<1>3. /\ pc = "rewrite" /\ m = meta /\ dict'[t] = Replacement
      /\ IF bd = NoBlock THEN UNCHANGED page
         ELSE /\ bd \in Block /\ page'[bd].next = NewHead
              /\ \A c \in Block : c # bd => page'[c] = page[c]
  BY <1>2 DEF Replaced, EntryPut, Turned
<1>4. /\ e.inline # 1 /\ e.page # NoBlock /\ meta.journal.phase # "Retiring"
      /\ S \subseteq P \ J /\ src \in S /\ Chained(Link, S, src, e.tail)
      /\ IF bd = NoBlock THEN src = e.head ELSE bd \in P \ J /\ page[bd].next = src
      /\ \A c \in J : page[c].term = t
      /\ \A o \in Owner : Holds(J, o) => Holds(S, o)
  BY <1>1, <1>2, <1>3 DEF RewriteSound
<1>5. P \subseteq Block /\ J \subseteq P
  BY <1>0, <1>1, <1>4, LinkFacts2 DEF JournalSound, Postings
<1>6. NewHead = jh /\ NewTail = jl /\ (Building <=> jh # NoBlock) /\ Chained(Link, J, jh, jl)
  <2>1. meta.journal.phase \in {"None", "Building", "Retiring"}
    BY <1>0 DEF TypeOK, MetaRecord, Journal
  <2>2. meta.journal.phase = "None" => jh = NoBlock /\ jl = NoBlock
    BY <1>1, <1>2, PostingTails
  <2>3. meta.journal.phase # "None" => jh \in J
    BY <1>1, <1>2, PostingTails
  <2>4. Chained(Link, J, jh, jl)
    BY <1>1, <1>2 DEF JournalSound
  <2> QED BY <1>0, <1>2, <1>3, <1>4, <1>5, <2>1, <2>2, <2>3, <2>4 DEF NewHead, NewTail, Building
<1>7. PICK Q : Q = P \ J
  OBVIOUS
<1>8. Q \in SUBSET Block /\ Chained(Link, Q, e.head, e.tail) /\ 0 \notin Q
  BY <1>0, <1>1, <1>2, <1>4, <1>5, <1>7 DEF EntriesSound
<1>9. CASE bd = NoBlock
  <2>1. S = Q
    <3>1. /\ MaxBlocks \in Nat /\ Link \in [1 .. MaxBlocks -> 0 .. MaxBlocks]
          /\ S \in SUBSET (1 .. MaxBlocks) /\ Q \in SUBSET (1 .. MaxBlocks)
      BY <1>0, <1>8, BoundAssumption DEF Block, BlockOrNone
    <3>2. Chained(Link, S, e.head, e.tail)
      BY <1>4, <1>9
    <3> HIDE DEF Link
    <3> QED BY <1>8, <3>1, <3>2, ChainedUnique
  <2>2. P \ S = J
    BY <1>5, <1>7, <2>1
  <2>3. dict'[t].head = jh /\ dict'[t].tail = jl
    <3>1. Replacement = WithChain(e, jh, jl)
      BY <1>2, <1>6, <1>9 DEF Replacement
    <3> QED BY <1>0, <1>2, <1>3, <3>1 DEF WithChain, TermRecord
  <2>4. Chained(Link', J, jh, jl) /\ Chained(Link', S, src, e.tail)
    BY <1>3, <1>4, <1>6, <1>9, ChainKept
  <2> QED BY <1>2, <1>9, <2>2, <2>3, <2>4
<1>10. CASE bd # NoBlock
  <2>1. bd \in Q /\ Link[bd] = src /\ src # 0 /\ page'[bd].next = jh
    BY <1>0, <1>3, <1>4, <1>5, <1>6, <1>7, <1>8, <1>10
  <2>2. PICK U \in SUBSET Q, V \in SUBSET Q : Split(Link, Q, e.head, e.tail, bd, U, V)
    <3> HIDE DEF Link
    <3> QED BY <1>8, <2>1, ChainedSplit
  <2>3. V = S
    <3>1. /\ MaxBlocks \in Nat /\ Link \in [1 .. MaxBlocks -> 0 .. MaxBlocks]
          /\ S \in SUBSET (1 .. MaxBlocks) /\ V \in SUBSET (1 .. MaxBlocks)
      BY <1>0, <1>8, BoundAssumption DEF Block, BlockOrNone
    <3>2. Chained(Link, V, src, e.tail)
      BY <2>1, <2>2 DEF Split
    <3> HIDE DEF Link
    <3> QED BY <1>4, <3>1, <3>2, ChainedUnique
  <2>4. /\ U \cup S = Q /\ U \cap S = {} /\ bd \in U
        /\ \A cut : cut[bd] = 0 /\ (\A c \in U : c # bd => cut[c] = Link[c])
             => Chained(cut, U, e.head, bd)
        /\ \A R : Ascends(Link, Q, R) => \A c \in U, d \in S : Below(R, c, d)
    <3> HIDE DEF Link
    <3> QED BY <2>2, <2>3 DEF Split
  <2>5. \A c \in Block : c # bd => page'[c].next = page[c].next
    BY <1>3, <1>10
  <2>6. Chained(Link', S, src, e.tail) /\ Chained(Link', J, jh, jl)
    <3>1. bd \notin S /\ bd \notin J
      BY <1>7, <2>1, <2>4
    <3> QED BY <1>4, <1>6, <2>5, <3>1, ChainKept
  <2>7. PICK cut : cut = [c \in Block |-> IF c = bd THEN 0 ELSE Link[c]]
    OBVIOUS
  <2>8. Chained(cut, U, e.head, bd)
    <3>1. cut[bd] = 0 /\ \A c \in U : c # bd => cut[c] = Link[c]
      BY <1>8, <2>1, <2>7
    <3> QED BY <2>4, <3>1
  <2>9. Chained(Link', U \cup J, e.head, IF jh = 0 THEN bd ELSE jl)
    <3>1. /\ 0 \notin U /\ 0 \notin J /\ U \cap J = {} /\ bd # 0
      BY <1>0, <1>7, <1>8, <1>10, <2>4
    <3>2. Link'[bd] = jh
      BY <1>8, <2>1, NextLinks
    <3>3. \A c \in U : c # bd => Link'[c] = cut[c]
      BY <1>0, <1>8, <2>5, <2>7, NextLinks
    <3>4. PICK new : new = Link'
      OBVIOUS
    <3>5. Chained(new, J, jh, jl) /\ new[bd] = jh /\ \A c \in U : c # bd => new[c] = cut[c]
      BY <2>6, <3>2, <3>3, <3>4
    <3>6. Chained(new, U \cup J, e.head, IF jh = 0 THEN bd ELSE jl)
      <4>1. Joins(cut, new, U, J, e.head, bd, jh, jl)
        BY <2>8, <3>1, <3>5 DEF Joins
      <4> QED BY ONLY <4>1, ChainedJoin
    <3> QED BY <3>4, <3>6
  <2>10. P \ S = U \cup J
    BY <1>4, <1>5, <1>7, <2>4
  <2>11. dict'[t].head = e.head /\ dict'[t].tail = IF jh = 0 THEN bd ELSE jl
    <3>1. Replacement = WithChain(e, e.head, IF jh = 0 THEN bd ELSE jl)
      BY <1>0, <1>2, <1>6, <1>10 DEF Replacement
    <3> QED BY <1>0, <1>2, <1>3, <3>1 DEF WithChain, TermRecord
  <2>12. ASSUME NEW c \in J, NEW o \in page[bd].refs, NEW p \in page[c].refs PROVE o < p
    <3>1. PICK R : R = [d \in Block |-> page[d].refs]
      OBVIOUS
    <3>2. Ascends(Link, Q, R)
      <4>1. ASSUME NEW d \in Q
            PROVE  /\ R[d] \subseteq Nat /\ R[d] # {}
                   /\ Link[d] # 0 => \A q \in R[d], r \in R[Link[d]] : q < r
        <5>1. d \in Posts /\ R[d] = page[d].refs /\ Link[d] = page[d].next /\ d \in Block
          BY <1>0, <1>7, <1>8, <3>1, <4>1 DEF Postings
        <5>2. page[d].refs \subseteq Nat /\ page[d].refs # {}
          BY <1>1, <5>1, RefersFacts DEF RefsSound
        <5>3. page[d].next # 0 => page[d].next \in Block
          BY <1>0, <5>1 DEF PageRecord, BlockOrNone
        <5> QED BY <1>0, <1>1, <3>1, <5>1, <5>2, <5>3 DEF RefsSound
      <4> HIDE DEF Link
      <4> QED BY <4>1 DEF Ascends
    <3>3. \A d \in S : Below(R, bd, d)
      BY <2>4, <3>2
    <3>4. p \in Owner /\ Holds(J, p)
      <4>1. c \in Posts
        BY <1>1 DEF JournalSound
      <4> QED BY <1>1, <4>1 DEF RefsSound, Refers, Holds
    <3>5. PICK d \in S : p \in page[d].refs
      BY <1>4, <3>4 DEF Holds
    <3> QED BY <1>8, <2>1, <3>1, <3>3, <3>5 DEF Below
  <2> QED BY <1>2, <1>10, <2>1, <2>4, <2>6, <2>9, <2>10, <2>11, <2>12
<1> QED BY <1>9, <1>10

(* The replacement: what the rewrite replaces becomes the journal. *)
LEMMA ReplacementJoins ==
  ASSUME StoreOK, StoreOK', InsertSound, [Next]_vars, SlotsStay, DictStays,
         NEW J \in SUBSET Block, NEW S \in SUBSET Block, PostingsHold(J, S), Replaced
  PROVE  PostingsHold(S, S)'
<1>0. TypeOK /\ NoBlock \notin Block /\ NoBlock = 0 /\ dict \in [Term -> TermRecord]
  BY LinkFacts2 DEF StoreOK, TypeOK
<1>1. JournalSound(J) /\ EntriesSound(J) /\ RefsSound(J) /\ LinksComplete(J) /\ RewriteSound(J, S)
  BY DEF PostingsHold
<1>2. PICK t, P, bd, jh : /\ t = cpt.term /\ P = Postings(t)
                          /\ bd = cpt.boundary /\ jh = meta.journal.head
  OBVIOUS
<1>3. /\ pc = "rewrite" /\ pc' = "recover" /\ cpt.pending = {} /\ t \in Term
      /\ meta'.journal = [phase |-> "Retiring", head |-> cpt.source, tail |-> dict[t].tail]
      /\ EntryValid(Replacement) /\ EntryPut(t, Replacement) /\ UNCHANGED <<owner, ins>>
  BY <1>2 DEF Replaced
<1>4. /\ dict[t].inline # 1 /\ dict[t].page # NoBlock
      /\ S \subseteq P \ J /\ cpt.source \in S
      /\ \A c \in J : page[c].term = t
      /\ \A o \in Owner : Holds(J, o) => Holds(S, o)
      /\ \A o \in Owner : Holds(S, o) /\ Live(o) => Holds(J, o)
  BY <1>1, <1>2, <1>3 DEF RewriteSound
<1>5. P \subseteq Block /\ J \subseteq P /\ P \subseteq Posts /\ J \subseteq P \ S
  BY <1>0, <1>1, <1>2, <1>4, LinkFacts2 DEF JournalSound, Postings
<1>6. /\ Chained(Link', P \ S, dict'[t].head, dict'[t].tail)
      /\ Chained(Link', S, cpt.source, dict[t].tail)
      /\ bd # NoBlock =>
           /\ bd \in P \ S /\ page'[bd].next = jh
           /\ \A c \in J : \A o \in page[bd].refs, p \in page[c].refs : o < p
  BY <1>2, <1>3, ChainsSwapped
<1>7. \A c \in Block : /\ page'[c].kind = page[c].kind /\ page'[c].term = page[c].term
                       /\ page'[c].refs = page[c].refs /\ (c # bd => Same(c))
  BY <1>2 DEF Replaced, Same, Turned
<1>8. /\ dict'[t].page = dict[t].page /\ dict'[t].first = dict[t].first
      /\ dict'[t].inline = dict[t].inline /\ EntryValid(dict'[t])
      /\ \A u \in Term : u # t => dict'[u] = dict[u]
  <2>1. dict'[t] = Replacement /\ \A u \in Term : u # t => dict'[u] = dict[u]
    BY <1>3 DEF EntryPut
  <2>2. \E h, l : Replacement = WithChain(dict[t], h, l)
    BY <1>2 DEF Replacement
  <2>3. dict[t] \in TermRecord
    BY <1>0, <1>3
  <2>4. \A h, l : /\ WithChain(dict[t], h, l).page = dict[t].page
                  /\ WithChain(dict[t], h, l).first = dict[t].first
                  /\ WithChain(dict[t], h, l).inline = dict[t].inline
    BY <2>3 DEF WithChain, TermRecord
  <2> QED BY <1>3, <2>1, <2>2, <2>4
<1>9. Posts' = Posts /\ Postings(t)' = P
  BY <1>2, <1>7 DEF Posts, Postings
<1>10. \A u \in Term : ~LinkTerm(u)
  BY <1>3, NoLink
<1>11. JournalSound(S)'
  <2>1. S \subseteq Posts' /\ S # {} /\ \A c \in S : page'[c].term = t
    BY <1>2, <1>4, <1>5, <1>7, <1>9 DEF Postings
  <2> QED BY <1>3, <1>6, <2>1 DEF JournalSound
<1>12. ASSUME NEW u \in Term, u # t PROVE TermSound(S, u)'
  <2>1. PostsOf(u)
    <3>1. \A c \in Postings(u) : c \in Block /\ c # bd
      BY <1>0, <1>2, <1>5, <1>6, <1>12 DEF Postings, Posts
    <3>2. \A c : c \in Postings(u)' <=> c \in Postings(u)
      BY <1>7 DEF Postings, Posts
    <3> QED BY <1>7, <3>1, <3>2 DEF PostsOf
  <2>2. Postings(u) \ S = Postings(u) \ J
    BY <1>2, <1>4, <1>5, <1>12 DEF Postings
  <2>3. TermSound(J, u)
    BY <1>1, TermsSplit
  <2> QED BY <1>1, <1>8, <1>10, <1>12, <2>1, <2>2, <2>3, TermKept
<1>13. EntrySound(S, t)'
  <2>1. page'[dict[t].page].kind = "Dictionary"
    BY <1>0, <1>1, <1>3, <1>4 DEF EntriesSound, DictStays, TermRecord, BlockOrNone
  <2> QED BY <1>4, <1>6, <1>8, <1>9, <2>1 DEF EntrySound
<1>14. EntryRefsSound(t)'
  <2>1. \A o : Refers(t, o) => Refers(t, o)'
    BY RefersKept
  <2>2. Refers(t, dict[t].first)
    BY <1>1, <1>3, <1>4 DEF RefsSound
  <2> QED BY <1>4, <1>8, <2>1, <2>2 DEF EntryRefsSound
<1>15. PageRefsSound(S, t)'
  <2>1. /\ \A c \in P : page[c].refs # {} /\ \A o \in page[c].refs : Refers(t, o)
        /\ \A c \in P \ J : \A o \in page[c].refs : dict[t].first < o
        /\ \A c \in P : page[c].next # NoBlock =>
             /\ page[c].next \in P
             /\ \A o \in page[c].refs, p \in page[page[c].next].refs : o < p
    BY <1>1, <1>2, <1>3, PostLinks, TermsSplit DEF TermSound, PageRefsSound
  <2>2. \A o : Refers(t, o) => Refers(t, o)'
    BY RefersKept
  <2>3. \A c \in J : \A o \in page[c].refs : dict[t].first < o
    <3> SUFFICES ASSUME NEW c \in J, NEW o \in page[c].refs PROVE dict[t].first < o
      OBVIOUS
    <3>1. o \in Owner /\ Holds(J, o)
      BY <1>5, <2>1 DEF Holds, Refers
    <3>2. PICK d \in S : o \in page[d].refs
      BY <1>4, <3>1 DEF Holds
    <3> QED BY <1>4, <2>1, <3>2
  <2>4. jh # NoBlock => jh \in J
    BY <1>1, <1>2, PostingTails
  <2>5. ASSUME NEW c \in P
        PROVE  /\ page'[c].refs # {} /\ \A o \in page'[c].refs : Refers(t, o)'
               /\ c \notin S => \A o \in page'[c].refs : dict'[t].first < o
               /\ page'[c].next # NoBlock =>
                    \A o \in page'[c].refs, p \in page'[page'[c].next].refs : o < p
    <3>1. page'[c].refs = page[c].refs /\ c \in Block
      BY <1>5, <1>7
    <3>2. page[c].refs # {} /\ \A o \in page[c].refs : Refers(t, o)'
      BY <2>1, <2>2
    <3>3. \A o \in page[c].refs : dict[t].first < o
      BY <2>1, <2>3
    <3>4. CASE c # bd
      <4>1. page'[c].next = page[c].next
        BY <1>7, <3>1, <3>4 DEF Same, Turned
      <4>2. page[c].next # NoBlock => page'[page[c].next].refs = page[page[c].next].refs
        BY <1>5, <1>7, <2>1
      <4> QED BY <1>8, <2>1, <3>1, <3>2, <3>3, <4>1, <4>2
    <3>5. CASE c = bd
      <4>1. bd # NoBlock /\ page'[c].next = jh
        BY <1>0, <1>6, <3>1, <3>5
      <4>2. jh # NoBlock => page'[jh].refs = page[jh].refs
        BY <1>5, <1>7, <2>4
      <4> QED BY <1>6, <1>8, <2>4, <3>1, <3>2, <3>3, <3>5, <4>1, <4>2
    <3> QED BY <3>4, <3>5
  <2> QED BY <1>9, <2>5 DEF PageRefsSound
<1>16. TermComplete(S, t)'
  <2> SUFFICES ASSUME NEW o \in Owner, t \in owner'[o].doc.terms, Due(o, t)'
               PROVE  Has(S, t, o)'
    BY DEF TermComplete
  <2>1. Has(J, t, o) /\ Live(o)
    BY <1>1, <1>3, <1>10, DueStep DEF LinksComplete, Due
  <2>2. Holds(P \ J, o) => \E c \in P \ S : o \in page'[c].refs
    <3> SUFFICES ASSUME NEW c \in P \ J, o \in page[c].refs
                 PROVE  \E d \in P \ S : o \in page[d].refs
      BY <1>5, <1>7 DEF Holds
    <3>1. CASE c \notin S
      BY <3>1
    <3>2. CASE c \in S
      BY <1>4, <1>5, <2>1, <3>2 DEF Holds
    <3> QED BY <3>1, <3>2
  <2> QED BY <1>2, <1>4, <1>8, <1>9, <2>1, <2>2 DEF Has, Holds
<1>17. EntriesSound(S)' /\ RefsSound(S)' /\ LinksComplete(S)'
  <2>1. \A u \in Term : TermSound(S, u)'
    BY <1>12, <1>13, <1>14, <1>15, <1>16 DEF TermSound
  <2>2. TypeOK' /\ \A c \in Posts' : page'[c].term \in Term
    BY <1>1, <1>7, <1>9 DEF StoreOK, RefsSound, Posts
  <2> QED BY <2>1, <2>2, TermsJoin
<1>18. RewriteSound(S, S)'
  BY <1>3 DEF RewriteSound
<1> QED BY <1>11, <1>17, <1>18 DEF PostingsHold

(* recover(): pages leave the journal; J2 are those that stay. *)
LEMMA JournalShrinks ==
  ASSUME StoreOK, StoreOK', InsertSound, [Next]_vars, SlotsStay, DictStays,
         NEW J \in SUBSET Block, NEW S, PostingsHold(J, S), NEW J2 \in SUBSET J,
         pc = "recover", pc' = "recover", UNCHANGED <<dict, owner, ins>>,
         \A c \in J \ J2 : page'[c].kind \notin PostingKind,
         \A c \in Block : c \notin J \ J2 => page'[c] = page[c],
         Chained(Link', J2, meta'.journal.head, meta'.journal.tail),
         meta'.journal.phase = "None" <=> J2 = {}
  PROVE  PostingsHold(J2, S)'
<1>0. TypeOK /\ NoBlock \notin Block /\ NoBlock = 0
  BY LinkFacts2 DEF StoreOK
<1>1. JournalSound(J) /\ EntriesSound(J) /\ RefsSound(J) /\ LinksComplete(J) /\ J \subseteq Posts
  BY DEF PostingsHold, JournalSound
<1>2. \A u \in Term : ~LinkTerm(u)
  BY NoLink
<1>3. Posts' = Posts \ (J \ J2)
  <2>1. \A c : c \in Posts' <=> c \in Posts /\ c \notin J \ J2
    BY DEF Posts
  <2> QED BY <2>1
<1>4. JournalSound(J2)'
  <2>1. \A c \in J2 : page'[c] = page[c]
    BY <1>1
  <2>2. J2 \subseteq Posts' /\ \A b, c \in J2 : page'[b].term = page'[c].term
    BY <1>1, <1>3, <2>1 DEF JournalSound
  <2> QED BY <2>2 DEF JournalSound
<1>5. ASSUME NEW c \in J2, page'[c].next # NoBlock PROVE page'[c].next \in J2
  <2>1. PICK new, h, l : new = Link' /\ h = meta'.journal.head /\ l = meta'.journal.tail
    OBVIOUS
  <2>2. Chained(new, J2, h, l) /\ 0 \notin J2
    BY <1>0, <2>1
  <2>3. /\ (h = 0) = (J2 = {}) /\ (h # 0 => new[l] = 0)
        /\ \A b \in J2 : b # l => new[b] \in J2
    BY ONLY <2>2, ChainedFacts
  <2>4. new[c] = page'[c].next
    BY <2>1, NextLinks
  <2> QED BY <1>0, <1>5, <2>3, <2>4
<1>6. ASSUME NEW u \in Term PROVE TermSound(J2, u)'
  <2>1. PICK P, P2 : P = Postings(u) /\ P2 = P \ (J \ J2)
    OBVIOUS
  <2>2. P \subseteq Posts /\ P \subseteq Block /\ P2 = Postings(u)' /\ P2 \ J2 = P \ J
    <3>1. \A c : c \in Postings(u)' <=> c \in P /\ c \notin J \ J2
      BY <1>3, <2>1 DEF Postings, Posts
    <3> QED BY <1>0, <2>1, <3>1, LinkFacts2
  <2>3. \A c \in P2 : page'[c] = page[c]
    BY <2>1, <2>2
  <2>4. TermSound(J, u)
    BY <1>1, TermsSplit
  <2>5. /\ EntrySound(J2, u)' /\ EntryRefsSound(u)' /\ TermComplete(J2, u)'
        /\ \A b \in P2 \ J2 : \A o \in page'[b].refs : dict'[u].first < o
    <3>1. \A c \in P \ J : page'[c].next = page[c].next /\ page'[c].refs = page[c].refs
      BY <2>2, <2>3
    <3>2. ~LinkTerm(u) /\ dict'[u] = dict[u] /\ P = Postings(u) /\ u \in Term
      BY <1>2, <2>1
    <3> QED BY ONLY StoreOK, InsertSound, [Next]_vars, SlotsStay, DictStays, <2>2, <2>4, <3>1, <3>2,
               OutsideKept
  <2>6. PageRefsSound(J2, u)'
    <3>1. /\ \A c \in P : page[c].refs # {} /\ \A o \in page[c].refs : Refers(u, o)
          /\ \A c \in P : page[c].next # NoBlock =>
               \A o \in page[c].refs, p \in page[page[c].next].refs : o < p
      BY <2>1, <2>4 DEF TermSound, PageRefsSound
    <3>2. \A o : Refers(u, o) => Refers(u, o)'
      BY RefersKept
    <3>3. \A c \in P2 : page[c].next # NoBlock =>
            page[c].next \in P2 \/ (page[c].next \in J2 /\ page'[page[c].next] = page[page[c].next])
      <4>1. ASSUME NEW c \in P2, page[c].next # NoBlock, c \in J2 PROVE page[c].next \in J2
        BY <1>5, <2>3, <4>1
      <4>2. ASSUME NEW c \in P2, page[c].next # NoBlock, c \notin J2 PROVE page[c].next \in P2
        BY <1>1, <2>1, <4>2, PostLinks
      <4>3. \A c \in J2 : page'[c] = page[c]
        OBVIOUS
      <4> QED BY <4>1, <4>2, <4>3
    <3>4. ASSUME NEW c \in P2
          PROVE  /\ page'[c].refs # {} /\ \A o \in page'[c].refs : Refers(u, o)'
                 /\ page'[c].next # NoBlock =>
                      \A o \in page'[c].refs, p \in page'[page'[c].next].refs : o < p
      BY <2>1, <2>3, <3>1, <3>2, <3>3
    <3> QED BY <2>2, <2>5, <3>4 DEF PageRefsSound
  <2> QED BY <2>5, <2>6 DEF TermSound
<1>7. EntriesSound(J2)' /\ RefsSound(J2)' /\ LinksComplete(J2)'
  <2>1. TypeOK' /\ \A c \in Posts' : page'[c].term \in Term
    BY <1>1, <1>3 DEF StoreOK, RefsSound, Posts
  <2> QED BY <1>6, <2>1, TermsJoin
<1>8. RewriteSound(J2, S)'
  BY DEF RewriteSound
<1> QED BY <1>4, <1>7, <1>8 DEF PostingsHold

(* The pages of J outside J2 are freed and J2 is the journal. *)
JournalCut(J, J2) ==
  /\ \A c \in J \ J2 : page'[c].kind \notin PostingKind
  /\ \A c \in Block : c \notin J \ J2 => page'[c] = page[c]
  /\ Chained(Link', J2, meta'.journal.head, meta'.journal.tail)
  /\ meta'.journal.phase = "None" <=> J2 = {}

(* recover() frees the head of the journal, or its first two pages. *)
LEMMA JournalFreed ==
  ASSUME StoreOK, NEW J \in SUBSET Block, NEW S, PostingsHold(J, S), Recover
  PROVE  \E J2 \in SUBSET J : JournalCut(J, J2)
<1>0. TypeOK /\ NoBlock \notin Block /\ NoBlock = 0
  BY LinkFacts2 DEF StoreOK
<1>1. JournalSound(J) /\ EntriesSound(J)
  BY DEF PostingsHold
<1>2. /\ \E b \in Block : FreedOne(b) \/ \E c \in Block : FreedTwo(b, c)
      /\ meta.journal.phase # "None"
      /\ pc = "recover" /\ pc' = "recover" /\ UNCHANGED <<dict, owner, ins>>
  BY RecoverBatch
<1>3. PICK h, l : h = meta.journal.head /\ l = meta.journal.tail
  OBVIOUS
<1>4. Chained(Link, J, h, l) /\ h \in J /\ l \in J /\ h # NoBlock
  BY <1>0, <1>1, <1>2, <1>3, PostingTails DEF JournalSound
<1>5. NoJournal.phase = "None" /\ NoJournal.head = NoBlock /\ NoJournal.tail = NoBlock
  BY DEF NoJournal
<1>6. \A n : FreePage(n).kind \notin PostingKind
  BY PageFields DEF PostingKind
<1>7. ASSUME NEW b \in Block, FreedOne(b)
      PROVE  \E J2 \in SUBSET J : JournalCut(J, J2)
  <2>1. b = h /\ b = l /\ Puts(b, FreePage(meta.free)) /\ meta'.journal = NoJournal
    BY <1>3, <1>7 DEF FreedOne
  <2>2. (\A c \in Block : c # b => page'[c] = page[c]) /\ page'[b] = FreePage(meta.free)
    BY <2>1 DEF Puts
  <2>3. J \ {b} = {}
    <3>1. \A c \in J : c # h => page'[c].next = page[c].next
      BY <2>1, <2>2
    <3>2. /\ h \in J /\ (h = l => J \ {h} = {})
          /\ Chained(Link', J \ {h}, page[h].next, IF h = l THEN NoBlock ELSE l)
      BY ONLY J \in SUBSET Block, <1>4, <3>1, ChainPopped
    <3> QED BY <2>1, <3>2
  <2>4. J \ {} = {b}
    BY <1>4, <2>1, <2>3
  <2>5. Chained(Link', {}, meta'.journal.head, meta'.journal.tail)
    BY <1>0, <1>5, <2>1, ChainedEmpty
  <2>6. {} \in SUBSET J /\ meta'.journal.phase = "None"
    BY <1>5, <2>1
  <2>7. JournalCut(J, {})
    BY <1>6, <2>2, <2>4, <2>5, <2>6 DEF JournalCut
  <2> QED BY <2>6, <2>7
<1>8. ASSUME NEW b \in Block, NEW c \in Block, FreedTwo(b, c)
      PROVE  \E J2 \in SUBSET J : JournalCut(J, J2)
  <2>1. /\ b = h /\ b # l /\ c = page[b].next /\ b # c
        /\ page'[b] = FreePage(meta.free) /\ page'[c] = FreePage(b)
        /\ \A d \in Block : d # b /\ d # c => page'[d] = page[d]
        /\ IF c = l THEN meta'.journal = NoJournal
           ELSE /\ meta'.journal.phase = meta.journal.phase
                /\ meta'.journal.head = page[c].next /\ meta'.journal.tail = l
    BY <1>3, <1>8 DEF FreedTwo
  <2>2. PICK K, J2 : K = J \ {b} /\ J2 = K \ {c}
    OBVIOUS
  <2>3. K \in SUBSET Block /\ Chained(Link, K, c, l) /\ l \in K
    <3>1. Link[h] = c /\ 0 \notin J
      BY <1>0, <2>1, LinkFacts2
    <3>2. Chained(Link, J \ {h}, Link[h], IF h = l THEN 0 ELSE l)
      <4>1. h # 0 /\ \A d \in J : d # h => Link[d] = Link[d]
        BY <1>0, <1>4
      <4> HIDE DEF Link
      <4> QED BY ONLY <1>4, <3>1, <4>1, ChainedPop
    <3> HIDE DEF Link
    <3> QED BY <1>4, <2>1, <2>2, <3>1, <3>2
  <2>4. /\ c \in K /\ (c = l => J2 = {})
        /\ Chained(Link', J2, page[c].next, IF c = l THEN NoBlock ELSE l)
    <3>1. c # NoBlock /\ \A d \in K : d # c => page'[d].next = page[d].next
      BY <1>0, <2>1, <2>2, <2>3
    <3>2. /\ c \in K /\ (c = l => K \ {c} = {})
          /\ Chained(Link', K \ {c}, page[c].next, IF c = l THEN NoBlock ELSE l)
      BY ONLY <2>3, <3>1, ChainPopped
    <3> QED BY <2>2, <3>2
  <2>5. c = l => page[c].next = NoBlock
    BY <1>1, <1>2, <1>3, PostingTails
  <2>6. /\ Chained(Link', J2, meta'.journal.head, meta'.journal.tail)
        /\ meta'.journal.phase = "None" <=> J2 = {}
    <3>1. CASE c = l
      BY <1>5, <2>1, <2>4, <2>5, <3>1
    <3>2. CASE c # l
      <4>1. l \in J2
        BY <2>2, <2>3, <3>2
      <4> QED BY <1>2, <2>1, <2>4, <3>2, <4>1
    <3> QED BY <3>1, <3>2
  <2>7. J \ J2 = {b, c} /\ J2 \in SUBSET J /\ J2 \in SUBSET Block
    BY <1>4, <2>1, <2>2, <2>4
  <2>8. /\ \A d \in J \ J2 : page'[d].kind \notin PostingKind
        /\ \A d \in Block : d \notin J \ J2 => page'[d] = page[d]
    BY <1>6, <2>1, <2>7
  <2> QED BY <2>6, <2>7, <2>8 DEF JournalCut
<1> QED BY <1>2, <1>7, <1>8

(* Postings stay sound when pages of the journal are freed. *)
LEMMA RecoverJoins ==
  ASSUME StoreOK, StoreOK', InsertSound, [Next]_vars, SlotsStay, DictStays,
         NEW J \in SUBSET Block, NEW S, PostingsHold(J, S), Recover
  PROVE  \E J2 \in SUBSET Block : PostingsHold(J2, S)'
<1>1. PICK J2 \in SUBSET J : JournalCut(J, J2)
  BY JournalFreed
<1>2. pc = "recover" /\ pc' = "recover" /\ UNCHANGED <<dict, owner, ins>> /\ J2 \in SUBSET Block
  BY RecoverBatch
<1>3. PostingsHold(J2, S)'
  BY <1>1, <1>2, JournalShrinks DEF JournalCut
<1> QED BY <1>2, <1>3

(* Such a step leaves the entries and the journal alone. *)
LEMMA QuietEntries ==
  ASSUME StoreOK,
         \/ PlainStep \/ Allocate \/ Reserve \/ StoreFragmentReused \/ StoreFragmentAllocated
         \/ \E b \in Block : SweepFragment(b) \/ ReclaimZero(b)
  PROVE  dict' = dict /\ meta'.journal = meta.journal
<1>1. CASE PlainStep
  BY <1>1 DEF PlainStep
<1>2. CASE Allocate
  BY <1>2, AllocateBatch
<1>3. CASE Reserve
  BY <1>3, ReserveBatch
<1>4. CASE StoreFragmentReused \/ StoreFragmentAllocated
  <2>1. dict' = dict /\ (meta' = meta \/ meta' = [meta EXCEPT !.free = page[meta.free].next])
    BY <1>4, FragmentBatch DEF FragmentStored
  <2>2. meta \in MetaRecord
    BY DEF StoreOK, TypeOK
  <2> QED BY <2>1, <2>2 DEF MetaRecord
<1>5. ASSUME NEW b \in Block, SweepFragment(b) \/ ReclaimZero(b)
      PROVE  dict' = dict /\ meta'.journal = meta.journal
  BY <1>5, ReclaimBatch DEF Reclaimed
<1> QED BY <1>1, <1>2, <1>3, <1>4, <1>5

(* No step but of a rewrite opens a journal. *)
LEMMA JournalStays ==
  ASSUME StoreOK, [Next]_vars, pc # "rewrite", meta.journal.phase = "None"
  PROVE  meta'.journal.phase = "None"
<1>1. CASE \/ PlainStep \/ Allocate \/ Reserve \/ StoreFragmentReused \/ StoreFragmentAllocated
           \/ \E b \in Block : SweepFragment(b) \/ ReclaimZero(b)
  BY <1>1, QuietEntries
<1>2. ASSUME NEW t \in Term, LinkTerm(t) \/ CompactInline(t) PROVE meta'.journal = meta.journal
  BY <1>2, LinkBatch DEF TermLinked, CompactInline, LinkTerm
<1>3. CASE PersistReused \/ PersistAllocated
  BY <1>3, PersistBatch DEF Persisted
<1>4. CASE PublishReplacement
  BY <1>4, ReplaceBatch DEF Replaced
<1>5. CASE Recover
  BY <1>5, RecoverBatch
<1> QED BY <1>1, <1>2, <1>3, <1>4, <1>5, StepClasses

(* Postings stay sound. *)
LEMMA PostingsSoundStep ==
  ASSUME StoreOK, StoreOK', NamesWritten, OwnersChained, DictChained, PostingsSound, InsertSound,
         [Next]_vars
  PROVE  PostingsSound'
<1>0. SlotsStay /\ DictStays
  BY SlotsStayStep, DictStaysStep
<1>1. PICK J \in SUBSET Block, S \in SUBSET Block : PostingsHold(J, S)
  BY DEF PostingsSound
<1>2. ASSUME NEW J2 \in SUBSET Block, NEW S2 \in SUBSET Block, PostingsHold(J2, S2)'
      PROVE  PostingsSound'
  BY <1>2 DEF PostingsSound
<1>3. ASSUME NEW t \in Term, LinkTerm(t) PROVE PostingsSound'
  <2>1. CASE \/ LinkFirstTerm(t) \/ LinkNewTerm(t) \/ LinkNewTermNextPage(t) \/ LinkInline(t)
    BY <1>0, <1>1, <1>2, <2>1, LinkEntry
  <2>2. CASE LinkPromote(t) \/ LinkFirstPosting(t) \/ LinkNextPage(t)
    BY <1>0, <1>1, <1>2, <2>2, LinkPage
  <2>3. CASE LinkAppend(t)
    BY <1>0, <1>1, <1>2, <2>3, LinkReference
  <2> QED BY <1>3, <2>1, <2>2, <2>3 DEF LinkTerm
<1>4. ASSUME NEW t \in Term, CompactInline(t) PROVE PostingsSound'
  BY <1>0, <1>1, <1>2, <1>4, InlineDropped
<1>5. CASE PersistReused \/ PersistAllocated
  <2>1. PICK b \in Block : page[b].kind \in {"Zero", "Free"} /\ Persisted(b, Chunk)
    BY <1>5, PersistBatch
  <2>2. PostingsHold(J \cup {b}, S)'
    BY <1>0, <1>1, <2>1, OutputJoins
  <2> QED BY <1>1, <1>2, <2>2
<1>6. CASE \/ PlainStep \/ Allocate \/ Reserve
           \/ StoreFragmentReused \/ StoreFragmentAllocated
           \/ \E b \in Block : SweepFragment(b) \/ ReclaimZero(b)
  <2>1. Posts' = Posts /\ (\A b \in Posts : Same(b)) /\ \A t : PostsOf(t)
    BY <1>6, QuietPosts
  <2>2. dict' = dict /\ meta'.journal = meta.journal
    BY <1>6, QuietEntries
  <2>3. CASE \E t \in Term : LinkTerm(t)
    BY <1>3, <2>3
  <2>4. CASE ~\E t \in Term : LinkTerm(t)
    <3>1. TypeOK'
      BY DEF StoreOK
    <3>2. JournalSound(J)' /\ EntriesSound(J)' /\ RefsSound(J)' /\ LinksComplete(J)'
      BY <1>0, <1>1, <2>1, <2>2, <2>4, <3>1, PostingsKept
    <3>3. ASSUME NEW S2 \in SUBSET Block, RewriteSound(J, S2)' PROVE PostingsSound'
      BY <1>1, <1>2, <3>2, <3>3 DEF PostingsHold
    <3>4. CASE pc' # "rewrite"
      BY <3>3, <3>4 DEF RewriteSound
    <3>5. CASE pc = "rewrite" /\ Aside /\ cpt' = cpt
      BY <1>1, <2>1, <3>3, <3>5, RewriteKept
    <3>6. CASE \E t \in Term : RewriteBegin(t)
      BY <1>1, <3>3, <3>6, RewriteStarts
    <3>7. CASE PersistReused \/ PersistAllocated
      BY <1>5, <3>7
    <3> QED BY <3>4, <3>5, <3>6, <3>7, RewriteSteps
  <2> QED BY <2>3, <2>4
<1>7. CASE PublishReplacement
  BY <1>0, <1>1, <1>2, <1>7, ReplaceBatch, ReplacementJoins
<1>8. CASE Recover
  BY <1>0, <1>1, <1>2, <1>8, RecoverJoins
<1> QED BY <1>3, <1>4, <1>5, <1>6, <1>7, <1>8, StepClasses

-----------------------------------------------------------------------------
(* The inductive invariant *)

(* An empty file *)
LEMMA StoreInvInit == Init => StoreInv
<1> SUFFICES ASSUME Init PROVE StoreInv
  OBVIOUS
<1>0. StoreOK /\ RootInv /\ TypeOK
  BY RootInvInit DEF StoreOK
<1>1. /\ \A b \in Block : page[b].kind = "None" /\ page[b].next = NoBlock
      /\ pc = "idle" /\ meta = EmptyMeta
      /\ \A t \in Term : dict[t] = NoEntry
      /\ \A o \in Owner : owner[o] = UnusedSlot
  BY PageFields DEF Init
<1>2. /\ EmptyMeta.ownerHead = NoBlock /\ EmptyMeta.ownerTail = NoBlock
      /\ EmptyMeta.dictHead = NoBlock /\ EmptyMeta.dictTail = NoBlock
      /\ EmptyMeta.free = NoBlock /\ EmptyMeta.journal = NoJournal
      /\ NoJournal.phase = "None" /\ NoJournal.head = NoBlock /\ NoJournal.tail = NoBlock
  BY DEF EmptyMeta, NoJournal
<1>3. /\ UnusedSlot.pub = "None" /\ UnusedSlot.head = NoBlock /\ UnusedSlot.page = NoBlock
      /\ NoEntry.page = NoBlock /\ NoEntry.head = NoBlock /\ NoEntry.tail = NoBlock
      /\ NoEntry.inline = 0
  BY DEF UnusedSlot, NoEntry
<1>4. \A k : k # "None" => Kind(k) = {}
  BY <1>1 DEF Kind
<1>5. Posts = {} /\ \A t : Postings(t) = {}
  BY <1>1 DEF Posts, Postings, PostingKind
<1>6. Chained(Link, {}, NoBlock, NoBlock)
  BY ChainedEmpty DEF NoBlock
<1>7. NamesWritten
  BY <1>1, <1>2, <1>3 DEF NamesWritten, Written
<1>8. OwnersChained /\ DictChained /\ FreeChained
  <2>1. Kind("Owners") = {} /\ Kind("Dictionary") = {} /\ Kind("Free") = {}
    BY <1>4
  <2> QED BY <1>1, <1>2, <1>6, <2>1 DEF OwnersChained, DictChained, FreeChained, BlockOrNone
<1>9. InsertSound
  BY <1>1 DEF InsertSound
<1>10. PayloadsSound
  BY <1>1, <1>3 DEF PayloadsSound, Live
<1>11. PostingsHold({}, {})
  <2>1. JournalSound({})
    BY <1>1, <1>2, <1>6 DEF JournalSound
  <2>2. EntriesSound({})
    <3>1. EntryValid(NoEntry)
      BY <1>3 DEF EntryValid
    <3> QED BY <1>1, <1>3, <1>5, <1>6, <3>1 DEF EntriesSound
  <2>3. RefsSound({})
    BY <1>1, <1>3, <1>5 DEF RefsSound
  <2>4. RewriteSound({}, {})
    BY <1>1 DEF RewriteSound
  <2>5. LinksComplete({})
    BY <1>1, <1>3 DEF LinksComplete, Due, Live
  <2> QED BY <2>1, <2>2, <2>3, <2>4, <2>5 DEF PostingsHold
<1>12. PostingsSound
  BY <1>11 DEF PostingsSound
<1> QED BY <1>0, <1>7, <1>8, <1>9, <1>10, <1>12 DEF StoreInv

(* Every step preserves it. *)
LEMMA StoreInvStep ==
  ASSUME StoreInv, [Next]_vars
  PROVE  StoreInv'
<1>1. /\ StoreOK /\ RootInv
      /\ NamesWritten /\ OwnersChained /\ DictChained /\ FreeChained
      /\ InsertSound /\ PayloadsSound /\ PostingsSound
  BY DEF StoreInv
<1>2. StoreOK' /\ RootInv'
  BY <1>1, RootInvStep
<1>3. OwnersChained' /\ DictChained' /\ FreeChained'
  BY <1>1, OwnersChainedStep, DictChainedStep, FreeChainedStep
<1>4. NamesWritten' /\ InsertSound' /\ PayloadsSound'
  BY <1>1, <1>2, NamesWrittenStep, InsertSoundStep, PayloadsSoundStep
<1>5. PostingsSound'
  BY <1>1, <1>2, PostingsSoundStep
<1> QED BY <1>2, <1>3, <1>4, <1>5 DEF StoreInv

(* The pages, the entries and the slots of the index are always as         *)
(* StoreInv says.                                                          *)
THEOREM StoreInvAlways == Spec => []StoreInv
<1>1. StoreInv /\ [Next]_vars => StoreInv'
  BY StoreInvStep
<1> QED BY <1>1, StoreInvInit, PTL DEF Spec

-----------------------------------------------------------------------------
(* What readers, recovery and vacuum rely on *)

(* The posting chain of an entry is the set of pages of its term outside   *)
(* the journal.                                                            *)
LEMMA PostingChainIs ==
  ASSUME StoreOK, NEW J \in SUBSET Block, NEW S, PostingsHold(J, S)
  PROVE  /\ JournalChain = J
         /\ \A t \in Term : dict[t].inline # 1 =>
              Chain(dict[t].head, dict[t].tail) = Postings(t) \ J
<1>0. TypeOK
  BY DEF StoreOK
<1>1. JournalChain = J
  BY <1>0, ChainIsSet DEF JournalChain, PostingsHold, JournalSound
<1>2. ASSUME NEW t \in Term, dict[t].inline # 1
      PROVE  Chain(dict[t].head, dict[t].tail) = Postings(t) \ J
  <2>1. PICK Q : Q = Postings(t) \ J
    OBVIOUS
  <2>2. Q \in SUBSET Block /\ Chained(Link, Q, dict[t].head, dict[t].tail)
    BY <1>0, <1>2, <2>1, LinkFacts2 DEF PostingsHold, EntriesSound
  <2> QED BY <1>0, <2>1, <2>2, ChainIsSet
<1> QED BY <1>1, <1>2

(* What a reader meets is what the entry and its chain hold. *)
LEMMA TermRefsAre ==
  ASSUME StoreOK, NEW J \in SUBSET Block, NEW S, PostingsHold(J, S), NEW t \in Term
  PROVE  \A o : o \in TermRefs(t) <=> Has(J, t, o)
<1>1. CASE dict[t].page = NoBlock
  BY <1>1 DEF TermRefs, Has
<1>2. CASE dict[t].page # NoBlock /\ dict[t].inline = 1
  <2>1. Postings(t) \ J = {}
    BY <1>2 DEF PostingsHold, EntriesSound
  <2>2. \A o : ~Holds(Postings(t) \ J, o)
    BY <2>1 DEF Holds
  <2> QED BY <1>2, <2>2 DEF TermRefs, Has
<1>3. CASE dict[t].page # NoBlock /\ dict[t].inline # 1
  <2>1. ChainRefs(dict[t].head, dict[t].tail) = UNION {page[b].refs : b \in Postings(t) \ J}
    BY <1>3, PostingChainIs DEF ChainRefs
  <2>2. \A o : o \in ChainRefs(dict[t].head, dict[t].tail) <=> Holds(Postings(t) \ J, o)
    BY <2>1 DEF Holds
  <2> QED BY <1>3, <2>2 DEF TermRefs, Has
<1> QED BY <1>1, <1>2, <1>3

(* And it refers to documents of the term. *)
LEMMA TermRefsRefer ==
  ASSUME StoreOK, NEW J \in SUBSET Block, NEW S, PostingsHold(J, S), NEW t \in Term,
         NEW o \in TermRefs(t)
  PROVE  Refers(t, o)
<1>1. Has(J, t, o) /\ RefsSound(J)
  BY TermRefsAre DEF PostingsHold
<1> QED BY <1>1 DEF Has, Holds, RefsSound, Postings

(* A traversal of a posting chain passes the checks of inspect(). *)
LEMMA EntryIntact ==
  ASSUME StoreOK, NEW J \in SUBSET Block, NEW S, PostingsHold(J, S), NEW t \in Term,
         dict[t].inline # 1
  PROVE  ChainIntact(t, dict[t].head, dict[t].tail, dict[t].first)
<1>1. JournalSound(J) /\ EntriesSound(J) /\ RefsSound(J)
  BY DEF PostingsHold
<1>2. PICK Q : Q = Chain(dict[t].head, dict[t].tail)
  OBVIOUS
<1>3. Q = Postings(t) \ J
  BY <1>2, PostingChainIs
<1>4. /\ (dict[t].head = NoBlock) = (dict[t].tail = NoBlock)
      /\ dict[t].head # NoBlock => dict[t].tail \in Q /\ page[dict[t].tail].next = NoBlock
  BY <1>1, <1>3, PostingTails
<1>5. \A b \in Q : /\ page[b].kind \in PostingKind /\ page[b].term = t
                   /\ \A o \in page[b].refs : dict[t].first < o
  BY <1>1, <1>3 DEF RefsSound, Postings, Posts
<1>6. ASSUME NEW b \in Q, page[b].next \in Q
      PROVE  \A o \in page[b].refs, p \in page[page[b].next].refs : o < p
  <2>1. page[b].next # NoBlock
    BY <1>3, <1>6, LinkFacts2 DEF Postings, StoreOK
  <2> QED BY <1>1, <1>3, <2>1 DEF RefsSound, Postings
<1> QED BY <1>2, <1>4, <1>5, <1>6 DEF ChainIntact

(* "The dictionary references and exact payload bytes precede the          *)
(* publication record": what is live is complete.                          *)
LEMMA StoreInvComplete == StoreInv => PublishedComplete
<1> SUFFICES ASSUME StoreInv PROVE PublishedComplete
  OBVIOUS
<1>0. StoreOK /\ TypeOK /\ PayloadsSound /\ PostingsSound
  BY DEF StoreInv, StoreOK
<1>1. PICK J \in SUBSET Block, S \in SUBSET Block : PostingsHold(J, S)
  BY <1>0 DEF PostingsSound
<1>2. ASSUME NEW o \in Owner, Live(o), NEW t \in owner[o].doc.terms
      PROVE  t \in Term /\ o \in TermRefs(t)
  <2>1. owner[o] \in OwnerRecord
    BY <1>0 DEF TypeOK
  <2>2. t \in Term
    BY <2>1, DocumentFacts DEF OwnerRecord
  <2>3. Has(J, t, o)
    BY <1>1, <1>2 DEF PostingsHold, LinksComplete, Due
  <2> QED BY <1>0, <1>1, <2>2, <2>3, TermRefsAre
<1>3. ASSUME NEW o \in Owner, Live(o)
      PROVE  /\ Cardinality(FragmentsOf(o)) = owner[o].doc.frags
             /\ \A b \in FragmentsOf(o) : page[b].kind = "Fragment" /\ page[b].owner = o
             /\ \A b \in FragmentsOf(o) : page[b].next # NoBlock =>
                  page[page[b].next].index = page[b].index + 1
  <2>1. PayloadFrom(o, owner[o].doc, 0, owner[o].head)
    BY <1>0, <1>3 DEF PayloadsSound
  <2>2. PICK l \in BlockOrNone : Chained(Link, Fragments(o), owner[o].head, l)
    BY <2>1 DEF PayloadFrom
  <2>3. Fragments(o) \in SUBSET Block
    BY <1>0, LinkFacts2
  <2>4. FragmentsOf(o) = Fragments(o)
    BY <1>0, <2>2, <2>3, ChainIsSet DEF FragmentsOf
  <2>5. owner[o].doc.frags \in Nat
    <3>1. owner[o] \in OwnerRecord
      BY <1>0 DEF TypeOK
    <3> QED BY <3>1, DocumentFacts DEF OwnerRecord
  <2>6. Cardinality(Fragments(o)) = owner[o].doc.frags
    BY <2>1, <2>5 DEF PayloadFrom
  <2> QED BY <2>1, <2>4, <2>6 DEF PayloadFrom, Fragments
<1> QED BY <1>2, <1>3 DEF PublishedComplete

(* Every page belongs to the chain its kind says. *)
LEMMA StoreInvAccounted == StoreInv => PagesAccounted
<1> SUFFICES ASSUME StoreInv PROVE PagesAccounted
  OBVIOUS
<1>0. StoreOK /\ TypeOK /\ PastEnd /\ OwnersChained /\ DictChained /\ FreeChained /\ PostingsSound
  BY DEF StoreInv, StoreOK
<1>1. PICK J \in SUBSET Block, S \in SUBSET Block : PostingsHold(J, S)
  BY <1>0 DEF PostingsSound
<1>2. \A k : Kind(k) \in SUBSET Block
  BY DEF Kind
<1>3. OwnerChain = Kind("Owners") /\ DictChain = Kind("Dictionary")
  BY <1>0, <1>2, ChainIsSet DEF OwnerChain, DictChain, OwnersChained, DictChained
<1>4. FreeList = Kind("Free")
  BY <1>0, <1>2, ChainIsSet DEF FreeList, FreeChained
<1>5. JournalChain = J /\ J \subseteq Posts
  BY <1>0, <1>1, PostingChainIs DEF PostingsHold, JournalSound
<1>6. ASSUME NEW t \in Term PROVE PostingChain(t) = Postings(t) \ J
  <2>1. dict[t].inline = 1 => Postings(t) \ J = {}
    BY <1>1 DEF PostingsHold, EntriesSound
  <2> QED BY <1>0, <1>1, <2>1, PostingChainIs DEF PostingChain
<1>7. \A b \in Posts : page[b].term \in Term
  BY <1>1 DEF PostingsHold, RefsSound
<1>8. \A b \in Block : (page[b].kind \in PostingKind) =
                         (b \in JournalChain \/ \E t \in Term : b \in PostingChain(t))
  BY <1>5, <1>6, <1>7 DEF Posts, Postings
<1>9. /\ \A t \in Term : PostingChain(t) \cap JournalChain = {}
      /\ \A t, u \in Term : t # u => PostingChain(t) \cap PostingChain(u) = {}
  BY <1>5, <1>6 DEF Postings
<1>10. \A b \in Block : /\ (page[b].kind = "Owners") = (b \in OwnerChain)
                        /\ (page[b].kind = "Dictionary") = (b \in DictChain)
                        /\ (page[b].kind = "Free") = (b \in FreeList)
  BY <1>3, <1>4 DEF Kind
<1> HIDE DEF PastEnd, OwnerChain, DictChain, FreeList, JournalChain
<1> QED BY <1>0, <1>8, <1>9, <1>10 DEF PagesAccounted

(* Chains are intact and lead to written slots. *)
LEMMA StoreInvIntact == StoreInv => ChainsIntact
<1> SUFFICES ASSUME StoreInv PROVE ChainsIntact
  OBVIOUS
<1>0. StoreOK /\ PostingsSound
  BY DEF StoreInv
<1>1. PICK J \in SUBSET Block, S \in SUBSET Block : PostingsHold(J, S)
  BY <1>0 DEF PostingsSound
<1>2. \A t \in Term : EntryValid(dict[t])
  BY <1>1 DEF PostingsHold, EntriesSound
<1>3. \A t \in Term : \A o \in TermRefs(t) : owner[o].pub # "None" /\ t \in owner[o].doc.terms
  BY <1>0, <1>1, TermRefsRefer DEF Refers
<1>4. \A t \in Term : dict[t].inline # 1 =>
        ChainIntact(t, dict[t].head, dict[t].tail, dict[t].first)
  BY <1>0, <1>1, EntryIntact
<1> QED BY <1>2, <1>3, <1>4 DEF ChainsIntact

(* The journal passes the checks of recover(), and nothing refers to an    *)
(* allocation orphan.                                                      *)
LEMMA StoreInvAccepts == StoreInv => RecoveryAccepts
<1> SUFFICES ASSUME StoreInv PROVE RecoveryAccepts
  OBVIOUS
<1>0. StoreOK /\ TypeOK /\ NamesWritten /\ PostingsSound /\ NoBlock \notin Block
      /\ page \in [Block -> PageRecord]
  BY LinkFacts2 DEF StoreInv, StoreOK, TypeOK
<1>1. PICK J \in SUBSET Block, S \in SUBSET Block : PostingsHold(J, S)
  BY <1>0 DEF PostingsSound
<1>2. JournalSound(J) /\ EntriesSound(J) /\ RefsSound(J)
  BY <1>1 DEF PostingsHold
<1>3. ASSUME meta.journal.phase # "None" PROVE RecoverAccepts
  <2>1. PICK h, l, t : h = meta.journal.head /\ l = meta.journal.tail /\ t = page[h].term
    OBVIOUS
  <2>2. h \in J /\ l \in J /\ h # NoBlock /\ l # NoBlock /\ page[l].next = NoBlock
        /\ J \subseteq Posts
    BY <1>0, <1>2, <1>3, <2>1, PostingTails DEF JournalSound
  <2>3. page[h].kind \in PostingKind /\ t \in Term /\ \A b \in J : page[b].term = t
    BY <1>2, <2>1, <2>2 DEF JournalSound, RefsSound, Posts
  <2>4. ChainIntact(t, h, l, NoOwner)
    <3>1. Chain(h, l) = J
      BY <1>0, <1>1, <2>1, PostingChainIs DEF JournalChain
    <3>2. \A b \in J : page[b].kind \in PostingKind /\ \A o \in page[b].refs : NoOwner < o
      <4>1. \A b \in J : \A o \in page[b].refs : o \in Owner
        BY <1>2, <2>2 DEF RefsSound, Refers
      <4> QED BY <2>2, <4>1, BoundAssumption DEF Owner, NoOwner, Posts
    <3>3. \A b \in J : page[b].next \in J =>
            \A o \in page[b].refs, p \in page[page[b].next].refs : o < p
      BY <1>0, <1>2, <2>2 DEF RefsSound
    <3> QED BY <2>2, <2>3, <3>1, <3>2, <3>3 DEF ChainIntact
  <2>5. dict[t].inline # 1 => ChainIntact(t, dict[t].head, dict[t].tail, dict[t].first)
    BY <1>0, <1>1, <2>3, EntryIntact
  <2>6. dict[t].tail # l
    <3>1. CASE dict[t].inline = 1
      <4>1. dict[t].tail = dict[t].page /\ EntryValid(dict[t])
        BY <1>2, <2>3, <3>1 DEF EntriesSound, EntryValid
      <4>2. dict[t].page # NoBlock => page[dict[t].page].kind = "Dictionary"
        BY <1>2, <2>3 DEF EntriesSound
      <4>3. page[l].kind # "Dictionary"
        BY <2>2 DEF Posts, PostingKind
      <4> QED BY <2>2, <4>1, <4>2, <4>3
    <3>2. CASE dict[t].inline # 1
      <4>1. Chained(Link, Postings(t) \ J, dict[t].head, dict[t].tail)
        BY <1>2, <2>3, <3>2 DEF EntriesSound
      <4>2. CASE dict[t].head = NoBlock
        <5>1. (dict[t].head = NoBlock) = (dict[t].tail = NoBlock)
          BY <1>0, <1>2, <2>3, <3>2, PostingTails
        <5> QED BY <2>2, <4>2, <5>1
      <4>3. CASE dict[t].head # NoBlock
        <5>1. dict[t].tail \in Postings(t) \ J
          BY <1>0, <1>2, <2>3, <3>2, <4>3, PostingTails
        <5> QED BY <2>2, <5>1
      <4> QED BY <4>2, <4>3
    <3> QED BY <3>1, <3>2
  <2> QED BY <2>1, <2>2, <2>3, <2>4, <2>5, <2>6 DEF RecoverAccepts, JournalTerm
<1>4. ASSUME NEW b \in ZeroBlocks PROVE Unreferenced(b)
  <2>1. b \in Block /\ page[b].kind = "Zero" /\ b # NoBlock
    BY <1>0, <1>4 DEF ZeroBlocks
  <2>2. \A c : Written(c) => c # b
    BY <2>1 DEF Written
  <2> QED BY <1>0, <2>2 DEF Unreferenced, NamesWritten
<1> QED BY <1>3, <1>4 DEF RecoveryAccepts

-----------------------------------------------------------------------------
(* The properties of the index *)

(* Whatever insertions, vacuum passes, compactions, crashes and recoveries *)
(* did, the terms of a live document all lead to it and its fragments are  *)
(* all there, in order: a reader of insert()'s result never meets a part.  *)
THEOREM PublishedAlwaysComplete == Spec => []PublishedComplete
BY StoreInvAlways, StoreInvComplete, PTL

(* Every page is on the chain its kind says and on no other, so recover(), *)
(* reclaim() and reuse neither lose a page nor give one to two chains.     *)
THEOREM PagesAlwaysAccounted == Spec => []PagesAccounted
BY StoreInvAlways, StoreInvAccounted, PTL

(* A traversal of any entry passes the checks of inspect(): pages of the   *)
(* term, owners in ascending order, the tail where the entry says, and     *)
(* references to written slots of documents with the term.                 *)
THEOREM ChainsAlwaysIntact == Spec => []ChainsIntact
BY StoreInvAlways, StoreInvIntact, PTL

(* recover() accepts the journal that a crash between any two commits      *)
(* leaves, and the zero pages that vacuum reclaims have no reference.      *)
THEOREM RecoveryAlwaysAccepts == Spec => []RecoveryAccepts
BY StoreInvAlways, StoreInvAccepts, PTL

(* A vacuum pass has recovered the journal before it removes owners, and   *)
(* no journal comes up before it returns.                                  *)
PassRecovered == pc \in {"owners", "sweep", "zeros"} => meta.journal.phase = "None"

(* The stages of a pass stay behind its recovery. *)
LEMMA PassRecoveredStep ==
  ASSUME StoreOK, PassRecovered, [Next]_vars
  PROVE  PassRecovered'
<1> SUFFICES ASSUME pc' \in {"owners", "sweep", "zeros"} PROVE meta'.journal.phase = "None"
  BY DEF PassRecovered
<1>0. TypeOK
  BY DEF StoreOK
<1>1. pc \in {"owners", "sweep", "zeros"} \/ RecoverEndVacuum
  BY <1>0, PassStages DEF RemoveOwners, SweepEnd
<1>2. CASE RecoverEndVacuum
  BY <1>2 DEF RecoverEndVacuum
<1>3. CASE pc \in {"owners", "sweep", "zeros"}
  BY <1>3, JournalStays DEF PassRecovered
<1> QED BY <1>1, <1>2, <1>3

(* The pages of a live document's payload are those its record leads to. *)
LEMMA FragmentsAre ==
  ASSUME StoreInv, NEW o \in Owner, Live(o)
  PROVE  FragmentsOf(o) = Fragments(o)
<1>1. TypeOK
  BY DEF StoreInv, StoreOK
<1>2. PayloadFrom(o, owner[o].doc, 0, owner[o].head)
  BY DEF StoreInv, PayloadsSound
<1>3. PICK l \in BlockOrNone : Chained(Link, Fragments(o), owner[o].head, l)
  BY <1>2 DEF PayloadFrom
<1> QED BY <1>1, <1>3, LinkFacts2, ChainIsSet DEF FragmentsOf

(* Where a pass returns, every block is in use and no slot is left of an   *)
(* unfinished insertion.                                                   *)
LEMMA PassLeavesNoDebris ==
  ASSUME StoreInv, PassRecovered, VacuumEnd
  PROVE  /\ 1 .. size \subseteq InUse
         /\ \A o \in Owner : owner[o].pub \notin {"Allocated", "FragmentsWritten"}
<1>0. StoreOK /\ TypeOK /\ PastEnd /\ PayloadsSound /\ PostingsSound /\ PagesAccounted
  BY StoreInvAccounted DEF StoreInv, StoreOK
<1>1. pc = "zeros" /\ ZeroBlocks = {} /\ meta.journal.phase = "None"
  BY DEF VacuumEnd, PassRecovered
<1>2. \A o \in Owner : owner[o].pub \notin {"Allocated", "FragmentsWritten"}
  BY <1>1 DEF StoreInv, RootInv, OwnersRetired, Retirable, Unfinished
<1>3. JournalChain = {}
  <2>1. PICK J \in SUBSET Block, S \in SUBSET Block : PostingsHold(J, S)
    BY <1>0 DEF PostingsSound
  <2>2. J = {}
    BY <1>1, <2>1 DEF PostingsHold, JournalSound
  <2> QED BY <1>0, <2>1, <2>2, PostingChainIs
<1>4. ASSUME NEW b \in 1 .. size PROVE b \in InUse
  <2>1. b \in Block /\ page[b].kind \in PageKind /\ page[b].kind \notin {"None", "Zero"}
    <3>1. b \in Block /\ ~(b > size)
      BY <1>0, BoundAssumption DEF TypeOK, Block
    <3>2. page[b].kind \in PageKind
      BY <1>0, <3>1 DEF TypeOK, PageRecord
    <3> QED BY <1>0, <1>1, <3>1, <3>2 DEF PastEnd, ZeroBlocks
  <2>2. CASE page[b].kind = "Fragment"
    <3>1. ~DeadFragment(b)
      BY <1>1, <2>1 DEF StoreInv, RootInv, SweptClean
    <3>2. PICK o \in Owner : page[b].owner = o /\ Live(o)
      BY <1>0, <2>1, <2>2, <3>1 DEF PayloadsSound, DeadFragment
    <3>3. b \in FragmentsOf(o)
      BY <2>1, <2>2, <3>2, FragmentsAre DEF Fragments
    <3> HIDE DEF FragmentsOf
    <3> QED BY <3>2, <3>3 DEF InUse
  <2> HIDE DEF OwnerChain, DictChain, FreeList, JournalChain, PostingChain, FragmentsOf
  <2>3. CASE page[b].kind \in PostingKind
    <3>1. PICK t \in Term : b \in PostingChain(t)
      BY <1>0, <1>3, <2>1, <2>3 DEF PagesAccounted
    <3> QED BY <3>1 DEF InUse
  <2>4. CASE page[b].kind \in {"Owners", "Dictionary", "Free"}
    <3>1. b \in OwnerChain \cup DictChain \cup FreeList
      BY <1>0, <2>1, <2>4 DEF PagesAccounted
    <3> QED BY <3>1 DEF InUse
  <2> QED BY <2>1, <2>2, <2>3, <2>4 DEF PageKind, PostingKind
<1> QED BY <1>2, <1>4

(* vacuum() that returns has freed or retired everything that crashes,     *)
(* cancelled insertions, interrupted rewrites and deletions left behind,   *)
(* and has leaked nothing itself: every block is a page that the metapage, *)
(* an entry or a live document leads to, with no pages held by a journal,  *)
(* and no slot is still of an unfinished insertion.                        *)
THEOREM VacuumNeverLeavesDebris == Spec => VacuumLeavesNoDebris
<1> DEFINE Clean == /\ 1 .. size \subseteq InUse
                    /\ \A o \in Owner : owner[o].pub \notin {"Allocated", "FragmentsWritten"}
<1>1. StoreInv /\ PassRecovered => [VacuumEnd => Clean]_vars
  BY PassLeavesNoDebris
<1>2. StoreInv /\ PassRecovered /\ [Next]_vars => PassRecovered'
  BY PassRecoveredStep DEF StoreInv
<1>3. Init => PassRecovered
  BY DEF Init, PassRecovered
<1>4. Spec => [](StoreInv /\ PassRecovered)
  BY <1>2, <1>3, StoreInvAlways, PTL DEF Spec
<1> QED BY <1>1, <1>4, PTL DEF Spec, VacuumLeavesNoDebris

-----------------------------------------------------------------------------
(* The index implements the document index *)

(* The postings of the live documents *)
Posted == {p \in Term \X Owner : Live(p[2]) /\ p[1] \in owner[p[2]].doc.terms}

Shown == {<<o, owner[o].doc.terms>> : o \in {p \in Owner : owner[p].pub = "Published"}}

Removable == {o \in Owner : owner[o].pub = "Published" /\ heap[owner[o].root] = "dead"}

(* What a reader resolves is the postings of the live documents. *)
LEMMA StoreInvPostings == StoreInv => LivePostings = Posted
<1> SUFFICES ASSUME StoreInv PROVE LivePostings = Posted
  OBVIOUS
<1>0. StoreOK /\ PostingsSound
  BY DEF StoreInv
<1>1. PICK J \in SUBSET Block, S \in SUBSET Block : PostingsHold(J, S)
  BY <1>0 DEF PostingsSound
<1>2. ASSUME NEW t \in Term, NEW o, Live(o)
      PROVE  o \in TermRefs(t) <=> (o \in Owner /\ t \in owner[o].doc.terms)
  <2>1. o \in TermRefs(t) => o \in Owner /\ t \in owner[o].doc.terms
    BY <1>0, <1>1, TermRefsRefer DEF Refers
  <2>2. ASSUME o \in Owner, t \in owner[o].doc.terms PROVE o \in TermRefs(t)
    <3>1. Has(J, t, o)
      BY <1>1, <1>2, <2>2 DEF PostingsHold, LinksComplete, Due
    <3> QED BY <1>0, <1>1, <3>1, TermRefsAre
  <2> QED BY <2>1, <2>2
<1> HIDE DEF Live
<1>3. ASSUME NEW p \in LivePostings PROVE p \in Posted
  <2>1. PICK t \in Term : p \in {t} \X {o \in TermRefs(t) : Live(o)}
    BY <1>3 DEF LivePostings
  <2>2. PICK o : o \in TermRefs(t) /\ Live(o) /\ p = <<t, o>>
    BY <2>1
  <2> QED BY <1>2, <2>2 DEF Posted
<1>4. ASSUME NEW p \in Posted PROVE p \in LivePostings
  <2>1. PICK t \in Term, o \in Owner : p = <<t, o>> /\ Live(o) /\ t \in owner[o].doc.terms
    BY <1>4 DEF Posted
  <2>2. o \in TermRefs(t)
    BY <1>2, <2>1
  <2>3. p \in {t} \X {q \in TermRefs(t) : Live(q)}
    BY <2>1, <2>2
  <2> QED BY <2>3 DEF LivePostings
<1> QED BY <1>3, <1>4

(* Only Publish publishes a document, and none ceases to be published. *)
LEMMA PublishedStep ==
  ASSUME StoreOK, [Next]_vars, NEW o \in Owner
  PROVE  (owner'[o].pub = "Published") <=>
           (owner[o].pub = "Published" \/ (Publish /\ o = ins.owner))
<1>0. owner \in [Owner -> OwnerRecord]
  BY DEF StoreOK, TypeOK
<1>1. ASSUME UNCHANGED owner, ~Publish
      PROVE  (owner'[o].pub = "Published") <=>
               (owner[o].pub = "Published" \/ (Publish /\ o = ins.owner))
  BY <1>1
<1>2. CASE Reserve
  <2>1. PICK b, h : AppendOwner(b, h) /\ pc = "reserve"
    BY <1>2 DEF Reserve, ReserveFirst, ReserveAppend, ReserveNext
  <2>2. m = meta /\ meta.inc \in Int
    BY <2>1 DEF StoreOK, ImageCurrent, MetapageCurrent, TypeOK, MetaRecord
  <2>3. owner[o].pub # "None" => o # m.inc
    BY <2>2 DEF StoreOK, ImageCurrent, MetapageCurrent, Owner
  <2>4. owner'[o] = owner[o] \/ (o = m.inc /\ owner'[o].pub = "Allocated")
    BY <1>0, <2>1 DEF AppendOwner
  <2> QED BY <2>1, <2>3, <2>4 DEF Publish
<1>3. CASE PayloadReady
  <2>1. o # ins.owner => owner'[o] = owner[o]
    BY <1>0, <1>3 DEF PayloadReady
  <2>2. o = ins.owner => owner'[o] = [owner[o] EXCEPT !.pub = "FragmentsWritten", !.head = ins.head]
                         /\ owner[o].pub = "Allocated"
    BY <1>0, <1>3 DEF PayloadReady, CanChange, Changed
  <2> QED BY <1>0, <1>3, <2>1, <2>2 DEF OwnerRecord, Publish, PayloadReady
<1>4. CASE Publish
  <2>1. o # ins.owner => owner'[o] = owner[o]
    BY <1>0, <1>4 DEF Publish
  <2>2. o = ins.owner => owner'[o] = [owner[o] EXCEPT !.pub = "Published", !.live = TRUE]
    BY <1>0, <1>4 DEF Publish, CanChange, Changed
  <2> QED BY <1>0, <1>4, <2>1, <2>2 DEF OwnerRecord
<1>5. CASE RemoveOwners
  <2>1. owner'[o] = Retired(o) /\ ~Publish
    BY <1>5 DEF RemoveOwners, Publish
  <2>2. \/ owner'[o] = owner[o]
        \/ owner'[o] = [owner[o] EXCEPT !.live = FALSE, !.head = NoBlock] /\ owner[o].pub = "Published"
        \/ owner'[o] = [owner[o] EXCEPT !.pub = "Abandoned", !.head = NoBlock]
           /\ owner[o].pub # "Published"
    BY <2>1 DEF Retired, CanChange, Changed
  <2> QED BY <1>0, <2>1, <2>2 DEF OwnerRecord
<1>6. CASE \/ RecoverEndVacuum \/ SweepEnd \/ VacuumEnd \/ Starts \/ Abandoned \/ QuietStep
           \/ \E r \in Root : HeapDelete(r)
           \/ \E t \in Term : RewriteBegin(t)
  <2>1. UNCHANGED owner
    BY <1>6 DEF RecoverEndVacuum, SweepEnd, VacuumEnd, Starts, VacuumBegin, InsertBegin,
                CompactBegin, Abandoned, HeapDelete, RewriteBegin, QuietStep
  <2> QED BY <1>1, <1>4, <2>1
<1> QED BY <1>2, <1>3, <1>4, <1>5, <1>6, StepKinds DEF StoreOK

(* A step that neither publishes nor removes leaves all of it alone. *)
LEMMA OtherStep ==
  ASSUME StoreOK, [Next]_vars, ~Publish, ~RemoveOwners
  PROVE  Posted' = Posted /\ Shown' = Shown
<1>1. \A o \in Owner : (owner'[o].pub = "Published") <=> (owner[o].pub = "Published")
  BY PublishedStep
<1>2. \A o \in Owner : Live(o)' <=> Live(o)
  BY SlotFacts DEF StoreOK
<1>3. \A o \in Owner : owner[o].pub # "None" => owner'[o].doc = owner[o].doc
  BY SlotStep DEF StoreOK, SlotKept
<1>4. \A o \in Owner : Live(o) => owner[o].pub # "None"
  BY DEF Live
<1>5. Shown' = Shown
  BY <1>1, <1>3 DEF Shown
<1>6. Posted' = Posted
  <2>1. \A p \in Term \X Owner : (Live(p[2]) /\ p[1] \in owner[p[2]].doc.terms)' <=>
                                 (Live(p[2]) /\ p[1] \in owner[p[2]].doc.terms)
    <3> HIDE DEF Live
    <3> QED BY <1>2, <1>3, <1>4
  <2> QED BY <2>1 DEF Posted
<1> QED BY <1>5, <1>6

(* Publish adds a document that was never published, with all its terms. *)
LEMMA PublishStep ==
  ASSUME StoreInv, [Next]_vars, Publish
  PROVE  /\ ins.owner \in Owner /\ owner[ins.owner].doc.terms \in SUBSET Term
         /\ \A p \in Shown : p[1] # ins.owner
         /\ Shown' = Shown \cup {<<ins.owner, owner[ins.owner].doc.terms>>}
         /\ Posted' = Posted \cup (owner[ins.owner].doc.terms \X {ins.owner})
         /\ Removable' = Removable
<1>0. StoreOK /\ TypeOK /\ ImageCurrent /\ InsertOwnsRoot /\ pc = "link" /\ heap' = heap
  BY DEF StoreInv, StoreOK, RootInv, Publish
<1>1. PICK w, T : w = ins.owner /\ T = owner[w].doc.terms
  OBVIOUS
<1>2. w \in Owner /\ owner[w].pub = "FragmentsWritten" /\ owner[w].root = ins.root
      /\ heap[ins.root] = "used"
  BY <1>0, <1>1 DEF ImageCurrent, MetapageCurrent, InsertOwnsRoot, Publish, CanChange
<1>3. T \in SUBSET Term
  <2>1. owner[w] \in OwnerRecord
    BY <1>0, <1>2 DEF TypeOK
  <2> QED BY <1>1, <2>1, DocumentFacts DEF OwnerRecord
<1>4. \A o \in Owner : owner[o].pub # "None" =>
        owner'[o].doc = owner[o].doc /\ owner'[o].root = owner[o].root
  BY <1>0, SlotStep DEF SlotKept
<1>5. \A o \in Owner : (owner'[o].pub = "Published") <=> (owner[o].pub = "Published" \/ o = w)
  BY <1>0, <1>1, PublishedStep
<1>6. \A o \in Owner : Live(o)' <=> (Live(o) \/ o = w)
  <2>1. ~RemoveOwners
    BY <1>0 DEF RemoveOwners
  <2>2. Live(w)'
    <3>1. owner'[w] = [owner[w] EXCEPT !.pub = "Published", !.live = TRUE]
      BY <1>0, <1>1, <1>2 DEF Publish, Changed, TypeOK
    <3> QED BY <1>0, <1>2, <3>1 DEF Live, TypeOK, OwnerRecord
  <2>3. \A o \in Owner : o # w => (Live(o)' <=> Live(o))
    BY <1>0, <1>1, <2>1, SlotFacts
  <2> QED BY <2>2, <2>3
<1>7. \A o \in Owner : Live(o) => owner[o].pub # "None" /\ o # w
  BY <1>2 DEF Live
<1>8. \A p \in Shown : p[1] # w
  BY <1>2 DEF Shown
<1>9. Shown' = Shown \cup {<<w, T>>}
  <2>1. owner'[w].doc.terms = T
    BY <1>1, <1>2, <1>4
  <2> QED BY <1>2, <1>4, <1>5, <2>1 DEF Shown
<1>10. Posted' = Posted \cup (T \X {w})
  <2> HIDE DEF Live
  <2>1. ASSUME NEW t \in Term, NEW o \in Owner
        PROVE  (Live(o) /\ t \in owner[o].doc.terms)' <=>
                 (Live(o) /\ t \in owner[o].doc.terms) \/ (o = w /\ t \in T)
    BY <1>1, <1>2, <1>4, <1>6, <1>7
  <2>2. \A t \in Term, o \in Owner : <<t, o>> \in Posted' <=> <<t, o>> \in Posted \cup (T \X {w})
    BY <2>1 DEF Posted
  <2>3. Posted \subseteq Term \X Owner /\ Posted' \subseteq Term \X Owner
        /\ T \X {w} \subseteq Term \X Owner
    BY <1>2, <1>3 DEF Posted
  <2> HIDE DEF Posted
  <2> QED BY <2>2, <2>3
<1>11. Removable' = Removable
  BY <1>0, <1>2, <1>4, <1>5 DEF Removable
<1> QED BY <1>1, <1>2, <1>3, <1>8, <1>9, <1>10, <1>11

(* The owner pass removes documents that the host has declared dead, each  *)
(* with all its postings.                                                  *)
LEMMA RemoveStep ==
  ASSUME StoreInv, [Next]_vars, RemoveOwners
  PROVE  /\ Posted' \subseteq Posted
         /\ \A p \in Posted \ Posted' : p[2] \in Removable /\ \A q \in Posted' : p[2] # q[2]
         /\ Shown' = Shown /\ Removable' = Removable
<1>0. StoreOK /\ TypeOK /\ DeadCollected /\ heap' = heap /\ ~Publish
  BY DEF StoreInv, StoreOK, RootInv, RemoveOwners, Publish
<1>1. \A o \in Owner : owner[o].pub # "None" =>
        owner'[o].doc = owner[o].doc /\ owner'[o].root = owner[o].root
  BY <1>0, SlotStep DEF SlotKept, StoreOK
<1>2. \A o \in Owner : (owner'[o].pub = "Published") <=> (owner[o].pub = "Published")
  BY <1>0, PublishedStep
<1>3. \A o \in Owner : Live(o)' => Live(o)
  BY <1>0, SlotFacts DEF StoreOK
<1>4. ASSUME NEW o \in Owner, Live(o), ~Live(o)' PROVE o \in Removable
  <2>1. owner'[o] = Retired(o) /\ owner[o].pub = "Published"
    BY <1>4 DEF RemoveOwners, Live
  <2>2. owner[o].root \in vac.dead
    <3>1. ~CanChange(o, "Abandon") /\ owner'[o] # owner[o]
      BY <1>4, <2>1 DEF CanChange, Live
    <3> QED BY <2>1, <3>1 DEF Retired
  <2> QED BY <1>0, <2>1, <2>2 DEF DeadCollected, Removable
<1>5. Shown' = Shown
  BY <1>1, <1>2 DEF Shown
<1>6. Removable' = Removable
  BY <1>0, <1>1, <1>2 DEF Removable
<1>7. \A o \in Owner : Live(o) => owner[o].pub # "None"
  BY DEF Live
<1>8. ASSUME NEW t \in Term, NEW o \in Owner
      PROVE  <<t, o>> \in Posted' <=> <<t, o>> \in Posted /\ Live(o)'
  <2> HIDE DEF Live
  <2> QED BY <1>1, <1>3, <1>7 DEF Posted
<1>9. /\ Posted \subseteq Term \X Owner /\ Posted' \subseteq Term \X Owner
      /\ \A t \in Term, o \in Owner : <<t, o>> \in Posted => Live(o)
  BY DEF Posted
<1>10. Posted' \subseteq Posted
  <2> HIDE DEF Posted, Live
  <2> QED BY <1>8, <1>9
<1>11. ASSUME NEW p \in Posted \ Posted', NEW q \in Posted'
       PROVE  p[2] # q[2]
  <2> HIDE DEF Posted, Live
  <2>1. PICK t \in Term, o \in Owner : p = <<t, o>>
    BY <1>9, <1>11
  <2>2. PICK u \in Term, v \in Owner : q = <<u, v>>
    BY <1>9, <1>11
  <2>3. ~Live(o)' /\ Live(v)'
    BY <1>8, <1>11, <2>1, <2>2
  <2> QED BY <2>1, <2>2, <2>3
<1>12. ASSUME NEW p \in Posted \ Posted' PROVE p[2] \in Removable
  <2> HIDE DEF Posted, Live
  <2>1. PICK t \in Term, o \in Owner : p = <<t, o>>
    BY <1>9, <1>12
  <2>2. Live(o) /\ ~Live(o)'
    BY <1>8, <1>9, <1>12, <2>1
  <2> QED BY <1>4, <2>1, <2>2
<1> QED BY <1>5, <1>6, <1>10, <1>11, <1>12

(* Every step is a step of the document index. *)
LEMMA IndexStep ==
  ASSUME StoreInv, [Next]_vars, LivePostings = Posted, LivePostings' = Posted'
  PROVE  Index!Next
<1>0. StoreOK
  BY DEF StoreInv
<1> HIDE DEF LivePostings, Posted
<1>1. CASE Publish
  <2>1. PICK w, T : w = ins.owner /\ T = owner[w].doc.terms
    OBVIOUS
  <2>2. w \in Owner /\ T \in SUBSET Term
    BY <1>1, <2>1, PublishStep
  <2>3. Index!Publish(w, T)
    BY <1>1, <2>1, PublishStep DEF Index!Publish, Shown, Removable
  <2> QED BY <2>2, <2>3 DEF Index!Next
<1>2. CASE RemoveOwners
  <2>1. Index!Remove
    BY <1>2, RemoveStep DEF Index!Remove, Shown, Removable
  <2> QED BY <2>1 DEF Index!Next
<1>3. CASE ~Publish /\ ~RemoveOwners
  <2>1. Removable' \in SUBSET Owner
    BY DEF Removable
  <2>2. Index!Host
    BY <1>0, <1>3, <2>1, OtherStep DEF Index!Host, Shown, Removable
  <2> QED BY <2>2 DEF Index!Next
<1> QED BY <1>1, <1>2, <1>3

(* The document index starts empty. *)
LEMMA IndexInit == Init => Index!Init
<1> SUFFICES ASSUME Init PROVE Index!Init
  OBVIOUS
<1>1. StoreInv /\ \A o \in Owner : owner[o].pub = "None"
  BY StoreInvInit DEF Init, UnusedSlot
<1>2. Posted = {} /\ Shown = {} /\ Removable = {}
  BY <1>1 DEF Posted, Shown, Removable, Live
<1> QED BY <1>1, <1>2, StoreInvPostings DEF Index!Init, Shown, Removable

(* Refinement: what readers resolve changes only when an insertion         *)
(* publishes a document with all its terms and when a pass removes         *)
(* documents whose root the host declared dead.  Links, compactions,       *)
(* crashes and recoveries change nothing that a reader can tell.           *)
THEOREM StoreImplementsIndex == Spec => ImplementsIndex
<1>0. StoreInv' => LivePostings' = Posted'
  <2>1. StoreInv' => (LivePostings = Posted)'
    BY StoreInvPostings, PTL
  <2> QED BY <2>1
<1>1. StoreInv /\ [Next]_vars => Index!Next
  <2> SUFFICES ASSUME StoreInv, [Next]_vars PROVE Index!Next
    OBVIOUS
  <2>1. StoreInv'
    BY StoreInvStep
  <2> QED BY <1>0, <2>1, IndexStep, StoreInvPostings
<1> QED BY <1>1, IndexInit, StoreInvAlways, PTL DEF Spec, ImplementsIndex, Index!Spec

-----------------------------------------------------------------------------
(* What a reader follows *)

(* The posting pages of t that its entry leads to *)
ScanPages(t) == Postings(t) \ JournalChain

(* An owner that the references of t have been handed out up to *)
Reached(t, o) == o = dict[t].first \/ Holds(ScanPages(t), o)

(* The links of a chain that was captured when tail was its last page *)
Cut(tail) == [b \in Block |-> IF b = tail THEN NoBlock ELSE page[b].next]

(* The journal's pages are those a traversal of it visits. *)
LEMMA JournalIs == TypeOK => \A J \in SUBSET Block : JournalSound(J) => JournalChain = J
<1> SUFFICES ASSUME TypeOK, NEW J \in SUBSET Block, JournalSound(J) PROVE JournalChain = J
  OBVIOUS
<1> QED BY ChainIsSet DEF JournalChain, JournalSound

(* And so they are afterwards. *)
LEMMA JournalIsNext == (TypeOK => \A J \in SUBSET Block : JournalSound(J) => JournalChain = J)'
BY JournalIs, PTL

(* The pages of a scan are those outside the journal. *)
LEMMA ScanPagesAre ==
  ASSUME StoreOK, NEW J \in SUBSET Block, JournalSound(J), NEW t
  PROVE  ScanPages(t) = Postings(t) \ J
BY JournalIs DEF ScanPages, StoreOK

(* And so they are afterwards. *)
LEMMA ScanPagesNext ==
  ASSUME StoreOK', NEW J \in SUBSET Block, JournalSound(J)', NEW t
  PROVE  ScanPages(t)' = Postings(t)' \ J
<1>1. TypeOK' /\ JournalChain' = J
  BY JournalIsNext DEF StoreOK
<1> QED BY <1>1 DEF ScanPages

(* Its entry *)
LEMMA TermEntry ==
  ASSUME StoreInv, NEW t \in Term
  PROVE  /\ dict[t] \in TermRecord /\ EntryValid(dict[t])
         /\ dict[t].page # NoBlock =>
              page[dict[t].page].kind = "Dictionary" /\ Refers(t, dict[t].first)
         /\ dict[t].inline = 1 =>
              ScanPages(t) = {} /\ Refers(t, dict[t].second) /\ dict[t].first < dict[t].second
         /\ dict[t].inline # 1 => Chained(Link, ScanPages(t), dict[t].head, dict[t].tail)
<1>1. StoreOK /\ PostingsSound /\ dict[t] \in TermRecord
  BY DEF StoreInv, StoreOK, TypeOK
<1>2. PICK J \in SUBSET Block, S \in SUBSET Block : PostingsHold(J, S)
  BY <1>1 DEF PostingsSound
<1>3. JournalSound(J) /\ EntriesSound(J) /\ RefsSound(J)
  BY <1>2 DEF PostingsHold
<1>4. ScanPages(t) = Postings(t) \ J
  BY <1>1, <1>3, ScanPagesAre
<1>5. /\ dict[t].page # NoBlock => page[dict[t].page].kind = "Dictionary"
      /\ EntryValid(dict[t])
      /\ dict[t].inline = 1 => Postings(t) \subseteq J
      /\ dict[t].inline # 1 => Chained(Link, Postings(t) \ J, dict[t].head, dict[t].tail)
  BY <1>3 DEF EntriesSound
<1>6. /\ dict[t].page # NoBlock => Refers(t, dict[t].first)
      /\ dict[t].inline = 1 => Refers(t, dict[t].second) /\ dict[t].first < dict[t].second
  BY <1>3 DEF RefsSound
<1>7. PICK Q : Q = Postings(t) \ J
  OBVIOUS
<1>8. ScanPages(t) = Q /\ (dict[t].inline = 1 => Q = {})
      /\ (dict[t].inline # 1 => Chained(Link, Q, dict[t].head, dict[t].tail))
  BY <1>4, <1>5, <1>7
<1> QED BY <1>1, <1>5, <1>6, <1>8

(* Its pages *)
LEMMA PlaceFacts ==
  ASSUME StoreInv, NEW t \in Term
  PROVE  /\ ScanPages(t) \subseteq Block /\ 0 \notin ScanPages(t) /\ NoBlock = 0
         /\ ScanPages(t) # {} => dict[t].page # NoBlock /\ dict[t].inline # 1
         /\ \A b \in ScanPages(t) :
              /\ page[b].kind \in PostingKind /\ page[b].term = t /\ page[b].refs # {}
              /\ \A o \in page[b].refs : Refers(t, o) /\ dict[t].first < o
              /\ page[b].next # NoBlock =>
                   /\ page[b].next \in ScanPages(t)
                   /\ \A o \in page[b].refs, p \in page[page[b].next].refs : o < p
<1>1. StoreOK /\ PostingsSound /\ TypeOK
  BY DEF StoreInv, StoreOK
<1>2. PICK J \in SUBSET Block, S \in SUBSET Block : PostingsHold(J, S)
  BY <1>1 DEF PostingsSound
<1>3. JournalSound(J) /\ EntriesSound(J) /\ RefsSound(J)
  BY <1>2 DEF PostingsHold
<1>4. ScanPages(t) = Postings(t) \ J
  BY <1>1, <1>3, ScanPagesAre
<1>5. ScanPages(t) \subseteq Block /\ 0 \notin ScanPages(t) /\ NoBlock = 0
  BY <1>1, <1>4, LinkFacts2
<1>6. ScanPages(t) # {} => dict[t].page # NoBlock /\ dict[t].inline # 1
  <2>1. NoEntry.inline = 0 /\ NoEntry.head = NoBlock
    BY DEF NoEntry
  <2> QED BY <1>1, <1>3, <1>4, <2>1, PostingTails DEF EntriesSound
<1>7. ASSUME NEW b \in ScanPages(t)
      PROVE  /\ page[b].kind \in PostingKind /\ page[b].term = t /\ page[b].refs # {}
             /\ \A o \in page[b].refs : Refers(t, o) /\ dict[t].first < o
             /\ page[b].next # NoBlock =>
                  /\ page[b].next \in ScanPages(t)
                  /\ \A o \in page[b].refs, p \in page[page[b].next].refs : o < p
  <2>1. b \in Postings(t) /\ b \notin J /\ b \in Posts /\ page[b].term = t
        /\ page[b].kind \in PostingKind
    BY <1>4, <1>7 DEF Postings, Posts
  <2>2. page[b].next # NoBlock => page[b].next \in ScanPages(t)
    BY <1>1, <1>3, <1>4, <2>1, PostLinks
  <2> QED BY <1>3, <2>1, <2>2 DEF RefsSound
<1> QED BY <1>5, <1>6, <1>7

(* What it leads to *)
LEMMA TermHas ==
  ASSUME StoreInv, NEW t \in Term
  PROVE  /\ \A o \in Owner : Live(o) /\ t \in owner[o].doc.terms =>
              /\ dict[t].page # NoBlock
              /\ \/ o = dict[t].first
                 \/ dict[t].inline = 1 /\ o = dict[t].second
                 \/ Holds(ScanPages(t), o)
         /\ \A o \in TermRefs(t) : Refers(t, o) /\ dict[t].page # NoBlock
<1>1. StoreOK /\ PostingsSound
  BY DEF StoreInv
<1>2. PICK J \in SUBSET Block, S \in SUBSET Block : PostingsHold(J, S)
  BY <1>1 DEF PostingsSound
<1>3. JournalSound(J) /\ LinksComplete(J)
  BY <1>2 DEF PostingsHold
<1>4. ScanPages(t) = Postings(t) \ J
  BY <1>1, <1>3, ScanPagesAre
<1>5. \A o \in Owner : Live(o) /\ t \in owner[o].doc.terms => Has(J, t, o)
  BY <1>3 DEF LinksComplete, Due
<1>6. \A o \in TermRefs(t) : Refers(t, o) /\ dict[t].page # NoBlock
  <2>1. ASSUME NEW o \in TermRefs(t) PROVE Refers(t, o)
    BY <1>1, <1>2, <2>1, TermRefsRefer
  <2> QED BY <2>1 DEF TermRefs
<1> QED BY <1>4, <1>5, <1>6 DEF Has

(* An insertion that is to be linked comes after all of it. *)
LEMMA TargetAbove ==
  ASSUME StoreInv, NEW t \in Term, pc = "link", t \in ins.todo
  PROVE  /\ owner[ins.owner].pub = "FragmentsWritten"
         /\ \A o : dict[t].page # NoBlock /\ Reached(t, o) => o < ins.owner
<1>1. StoreOK /\ PostingsSound /\ InsertSound
  BY DEF StoreInv
<1>2. PICK J \in SUBSET Block, S \in SUBSET Block : PostingsHold(J, S)
  BY <1>1 DEF PostingsSound
<1>3. ScanPages(t) = Postings(t) \ J
  BY <1>1, <1>2, ScanPagesAre DEF PostingsHold
<1>4. /\ \A b \in Postings(t) : \A o \in page[b].refs : o < ins.owner
      /\ dict[t].page # NoBlock => dict[t].first < ins.owner
  BY <1>1, <1>2, LinkTarget
<1> QED BY <1>1, <1>3, <1>4 DEF InsertSound, Reached, Holds

(* An owner reached has a slot and belongs to the term. *)
LEMMA ReachedRefers ==
  ASSUME StoreInv, NEW t \in Term, dict[t].page # NoBlock, NEW o, Reached(t, o)
  PROVE  Refers(t, o)
<1>1. CASE o = dict[t].first
  BY <1>1, TermEntry
<1>2. ASSUME NEW b \in ScanPages(t), o \in page[b].refs PROVE Refers(t, o)
  BY <1>2, PlaceFacts
<1> QED BY <1>1, <1>2 DEF Reached, Holds

(* A step that touches no posting page, no entry and not the journal. *)
QuietStepOf == Posts' = Posts /\ (\A b \in Posts : Same(b)) /\ (\A t : PostsOf(t))
               /\ dict' = dict /\ meta'.journal = meta.journal

(* No chain is rewritten, and no second owner dropped from its entry. *)
NoRewrite == pc # "rewrite" /\ \A t \in Term : ~CompactInline(t)

(* Without a rewrite a step is quiet, links a term or frees pages of a     *)
(* journal that a crash has left.                                          *)
LEMMA BesideClasses ==
  ASSUME StoreInv, NoRewrite, [Next]_vars
  PROVE  QuietStepOf \/ (\E t \in Term : LinkTerm(t)) \/ Recover
<1>0. StoreOK /\ OwnersChained /\ DictChained /\ PostingsSound
  BY DEF StoreInv
<1>1. pc # "rewrite"
  BY DEF NoRewrite
<1>2. \A t \in Term : ~CompactInline(t)
  BY DEF NoRewrite
<1>3. ~PersistReused /\ ~PersistAllocated /\ ~PublishReplacement
  BY <1>1 DEF PersistReused, PersistAllocated, PersistOutput, PublishReplacement
<1>4. CASE \/ PlainStep \/ Allocate \/ Reserve \/ StoreFragmentReused \/ StoreFragmentAllocated
           \/ \E b \in Block : SweepFragment(b) \/ ReclaimZero(b)
  BY <1>0, <1>4, QuietPosts, QuietEntries DEF QuietStepOf
<1> QED BY <1>0, <1>2, <1>3, <1>4, StepClasses

(* The pages of a scan stay; one with a successor is final, and what is    *)
(* added is the insertion under way, at the end.                           *)
PagesStay(t) ==
  /\ \A b \in ScanPages(t) :
       /\ b \in ScanPages(t)' /\ page[b].refs \subseteq page'[b].refs
       /\ page[b].next # NoBlock => page'[b].next = page[b].next /\ page'[b].refs = page[b].refs
       /\ \A o \in page'[b].refs \ page[b].refs :
            pc = "link" /\ t \in ins.todo /\ o = ins.owner
  /\ \A b \in ScanPages(t)' : b \notin ScanPages(t) => b = dict'[t].tail

(* An entry keeps its page and its owners; its chain grows at the end of   *)
(* the relation.                                                           *)
EntryStays(t) ==
  /\ dict[t].page # NoBlock => dict'[t].page = dict[t].page /\ dict'[t].first = dict[t].first
  /\ dict[t].inline # 0 => dict'[t].inline # 0 /\ dict'[t].second = dict[t].second
  /\ dict'[t].inline # 1 => dict'[t].tail = dict[t].tail \/ dict'[t].tail = size

(* link_term() leaves the pages of the journal alone. *)
LEMMA LinkSpares ==
  ASSUME StoreOK, NamesWritten, OwnersChained, DictChained, PostingsSound,
         NEW J \in SUBSET Block, NEW S, PostingsHold(J, S), NEW t \in Term, LinkTerm(t)
  PROVE  \A b \in J : Same(b)
<1>0. JournalSound(J) /\ EntriesSound(J) /\ J \subseteq Posts /\ page \in [Block -> PageRecord]
  BY DEF PostingsHold, JournalSound, StoreOK, TypeOK
<1>1. CASE LinkFirstTerm(t) \/ LinkNewTerm(t) \/ LinkNewTermNextPage(t) \/ LinkInline(t)
  BY <1>0, <1>1, QuietPosts
<1>2. CASE LinkPromote(t) \/ LinkFirstPosting(t) \/ LinkNextPage(t)
  <2>1. blk \notin J
    BY <1>0, <1>2, LinkedOutput, Allocated DEF Posts, PostingKind
  <2>2. LinkNextPage(t) => dict[t].tail \notin J
    BY <1>0, LinkBatch, PostingTails
  <2> QED BY <1>0, <1>2, <2>1, <2>2, LinkedOutput DEF Puts, PutsBehind, Same, Turned
<1>3. CASE LinkAppend(t)
  <2>1. dict[t].tail \notin J /\ page' = [page EXCEPT ![dict[t].tail].refs = @ \cup {ins.owner}]
    BY <1>0, <1>3, LinkBatch, PostingTails
  <2> QED BY <1>0, <2>1 DEF Same, Turned
<1> QED BY <1>1, <1>2, <1>3 DEF LinkTerm

(* Where pages, journal and entry are the same *)
LEMMA StaysSame ==
  ASSUME StoreOK, StoreOK', NEW J \in SUBSET Block, JournalSound(J), JournalSound(J)',
         NEW t \in Term, PostsOf(t), dict'[t] = dict[t]
  PROVE  PagesStay(t) /\ EntryStays(t)
<1>1. ScanPages(t)' = ScanPages(t) /\ ScanPages(t) \subseteq Postings(t)
  BY ScanPagesAre, ScanPagesNext DEF PostsOf
<1>2. PagesStay(t)
  BY <1>1 DEF PagesStay, PostsOf, Same, Turned
<1> QED BY <1>2 DEF EntryStays

(* link_term(), of the term itself *)
LEMMA StaysLinked ==
  ASSUME StoreInv, StoreInv', [Next]_vars, NEW J \in SUBSET Block, NEW S, PostingsHold(J, S),
         JournalSound(J)', NEW t \in Term, LinkTerm(t)
  PROVE  PagesStay(t) /\ EntryStays(t)
<1>0. /\ StoreOK /\ StoreOK' /\ NamesWritten /\ OwnersChained /\ DictChained /\ PostingsSound
      /\ InsertSound /\ JournalSound(J) /\ EntriesSound(J) /\ RefsSound(J) /\ TypeOK
      /\ dict[t] \in TermRecord /\ NoBlock \notin Block /\ Postings(t) \subseteq Block
      /\ page \in [Block -> PageRecord] /\ BlockAtEnd
  BY LinkFacts2 DEF StoreInv, StoreOK, PostingsHold, TypeOK, RootInv
<1>1. TermLinked(t)
  BY <1>0, LinkBatch DEF LinkTerm
<1>2. pc = "link" /\ t \in ins.todo
  BY <1>1 DEF TermLinked
<1>3. ScanPages(t) = Postings(t) \ J /\ ScanPages(t)' = Postings(t)' \ J
  BY <1>0, ScanPagesAre, ScanPagesNext
<1>4. EntryValid(dict[t]) /\ (dict[t].page = NoBlock => dict[t] = NoEntry)
  BY <1>0 DEF EntriesSound
<1>5. CASE LinkFirstTerm(t) \/ LinkNewTerm(t) \/ LinkNewTermNextPage(t) \/ LinkInline(t)
  <2>1. PostsOf(t)
    BY <1>0, <1>5, QuietPosts
  <2>2. PagesStay(t)
    BY <1>3, <2>1 DEF PagesStay, PostsOf, Same, Turned
  <2>3. CASE LinkInline(t)
    <3>1. dict[t].inline # 1 /\ dict[t].head = NoBlock /\ dict'[t] = WithSecond(dict[t], ins.owner)
      BY <1>0, <2>3, LinkBatch DEF EntryPut
    <3>2. dict[t].inline = 0
      BY <1>0, <1>4, <3>1 DEF EntryValid, TermRecord
    <3> QED BY <2>2, <3>1, <3>2 DEF EntryStays, WithSecond
  <2>4. CASE LinkFirstTerm(t) \/ LinkNewTerm(t) \/ LinkNewTermNextPage(t)
    <3>1. dict[t] = NoEntry /\ \E b : dict'[t] = NewEntry(b, ins.owner)
      BY <1>0, <1>4, <2>4, LinkBatch DEF EntryPut
    <3> QED BY <2>2, <3>1 DEF EntryStays, NoEntry, NewEntry
  <2> QED BY <1>5, <2>3, <2>4
<1>6. CASE LinkPromote(t) \/ LinkFirstPosting(t) \/ LinkNextPage(t)
  <2>1. /\ blk # NoBlock /\ blk = size /\ blk \in Block /\ page[blk].kind = "Zero"
        /\ blk \notin Postings(t)
    BY <1>0, <1>6, LinkedOutput, Allocated DEF BlockAtEnd, Postings, Posts, PostingKind
  <2>2. /\ dict'[t].tail = blk /\ dict'[t].page = dict[t].page /\ dict'[t].first = dict[t].first
        /\ dict'[t].second = dict[t].second /\ (dict[t].inline # 0 => dict'[t].inline # 0)
    <3>1. \/ dict[t].inline = 1 /\ dict'[t] = Promoted(dict[t], blk)
          \/ \E h : dict'[t] = WithChain(dict[t], h, blk)
      BY <1>0, <1>6, LinkBatch DEF EntryPut
    <3>2. CASE dict[t].inline = 1 /\ dict'[t] = Promoted(dict[t], blk)
      BY <3>2 DEF Promoted
    <3>3. ASSUME NEW h, dict'[t] = WithChain(dict[t], h, blk)
          PROVE  /\ dict'[t].tail = blk /\ dict'[t].page = dict[t].page
                 /\ dict'[t].first = dict[t].first /\ dict'[t].second = dict[t].second
                 /\ dict[t].inline # 0 => dict'[t].inline # 0
      BY <1>0, <3>3 DEF WithChain, TermRecord
    <3> QED BY <3>1, <3>2, <3>3
  <2>3. PICK l : l = dict[t].tail
    OBVIOUS
  <2>4. /\ LinkNextPage(t) => l \in Postings(t) /\ page[l].next = NoBlock
    BY <1>0, <2>3, LinkBatch, PostingTails
  <2>5. /\ \A c \in Block : c # blk =>
             /\ page'[c].kind = page[c].kind /\ page'[c].term = page[c].term
             /\ page'[c].refs = page[c].refs
             /\ page[c].next # NoBlock => page'[c].next = page[c].next
    BY <1>0, <1>6, <2>3, <2>4, LinkedOutput DEF Puts, PutsBehind, Turned
  <2>6. \A c \in Postings(t) : c \in Postings(t)'
    BY <1>0, <2>1, <2>5 DEF Postings, Posts
  <2>7. \A c \in Postings(t)' : c \in Postings(t) \/ c = blk
    BY <1>0, <2>1, <2>5 DEF Postings, Posts
  <2>8. PagesStay(t)
    BY <1>0, <1>3, <2>1, <2>2, <2>5, <2>6, <2>7 DEF PagesStay
  <2> QED BY <2>1, <2>2, <2>8 DEF EntryStays
<1>7. CASE LinkAppend(t)
  <2>1. PICK w, l : w = ins.owner /\ l = dict[t].tail
    OBVIOUS
  <2>2. /\ dict[t].inline # 1 /\ dict[t].head # NoBlock /\ dict' = dict
        /\ page' = [page EXCEPT ![l].refs = @ \cup {w}]
    BY <1>0, <1>7, <2>1, LinkBatch
  <2>3. l \in Postings(t) \ J /\ l \in Block /\ page[l].next = NoBlock
    BY <1>0, <2>1, <2>2, PostingTails
  <2>4. /\ \A c \in Block : c # l => page'[c] = page[c]
        /\ page'[l].refs = page[l].refs \cup {w}
        /\ \A c \in Block : /\ page'[c].kind = page[c].kind /\ page'[c].term = page[c].term
                            /\ page'[c].next = page[c].next
    BY <1>0, <2>2, <2>3 DEF PageRecord
  <2>5. Postings(t)' = Postings(t)
    BY <2>4 DEF Postings, Posts
  <2>6. PagesStay(t)
    BY <1>0, <1>2, <1>3, <2>1, <2>3, <2>4, <2>5 DEF PagesStay
  <2> QED BY <2>2, <2>6 DEF EntryStays
<1> QED BY <1>5, <1>6, <1>7 DEF LinkTerm

(* recover() *)
LEMMA StaysRecovered ==
  ASSUME StoreInv, StoreInv', Recover, NEW J \in SUBSET Block, NEW S, PostingsHold(J, S),
         NEW t \in Term
  PROVE  PagesStay(t) /\ EntryStays(t)
<1>0. StoreOK /\ StoreOK' /\ TypeOK /\ JournalSound(J) /\ Postings(t) \subseteq Block
  BY LinkFacts2 DEF StoreInv, StoreOK, PostingsHold
<1>1. PICK J2 \in SUBSET J : JournalCut(J, J2)
  BY <1>0, JournalFreed
<1>2. dict' = dict
  BY <1>0, RecoverBatch
<1>3. JournalSound(J2)'
  <2>1. J2 \subseteq Posts /\ \A c \in J2 : page'[c] = page[c]
    BY <1>0, <1>1 DEF JournalSound, JournalCut
  <2>2. J2 \subseteq Posts' /\ \A b, c \in J2 : page'[b].term = page'[c].term
    BY <1>0, <1>1, <2>1 DEF JournalSound, Posts
  <2> QED BY <1>1, <2>2 DEF JournalSound, JournalCut
<1>4. ScanPages(t) = Postings(t) \ J /\ ScanPages(t)' = Postings(t)' \ J2
  <2>1. J2 \in SUBSET Block
    BY <1>1
  <2> QED BY <1>0, <1>3, <2>1, ScanPagesAre, ScanPagesNext
<1>5. \A c : c \in Postings(t)' \ J2 <=> c \in Postings(t) \ J
  BY <1>1 DEF JournalCut, Postings, Posts
<1>6. \A c \in Postings(t) \ J : page'[c] = page[c]
  BY <1>0, <1>1 DEF JournalCut
<1>7. PagesStay(t)
  BY <1>4, <1>5, <1>6 DEF PagesStay
<1> QED BY <1>2, <1>7 DEF EntryStays

(* Any step but a rewrite *)
LEMMA TermStays ==
  ASSUME StoreInv, StoreInv', NoRewrite, [Next]_vars, NEW t \in Term
  PROVE  PagesStay(t) /\ EntryStays(t)
<1>0. /\ StoreOK /\ StoreOK' /\ NamesWritten /\ OwnersChained /\ DictChained /\ PostingsSound
  BY DEF StoreInv
<1>1. PICK J \in SUBSET Block, S \in SUBSET Block : PostingsHold(J, S)
  BY <1>0 DEF PostingsSound
<1>2. JournalSound(J) /\ J \subseteq Posts
  BY <1>1 DEF PostingsHold, JournalSound
<1>3. CASE QuietStepOf
  <2>1. JournalSound(J)'
    BY <1>2, <1>3, JournalKept DEF QuietStepOf
  <2> QED BY <1>0, <1>2, <1>3, <2>1, StaysSame DEF QuietStepOf
<1>4. ASSUME NEW u \in Term, LinkTerm(u) PROVE PagesStay(t) /\ EntryStays(t)
  <2>1. meta'.journal = meta.journal
    BY <1>0, <1>4, LinkBatch DEF LinkTerm, TermLinked
  <2>2. \A b \in J : Same(b)
    BY <1>0, <1>1, <1>4, LinkSpares
  <2>3. JournalSound(J)'
    BY <1>2, <2>1, <2>2, JournalKept
  <2>4. CASE u = t
    BY <1>1, <1>4, <2>3, <2>4, StaysLinked
  <2>5. CASE u # t
    <3>1. PostsOf(t) /\ dict'[t] = dict[t]
      BY <1>0, <1>4, <2>5, LinkOther
    <3> QED BY <1>0, <1>2, <2>3, <3>1, StaysSame
  <2> QED BY <2>4, <2>5
<1>5. CASE Recover
  BY <1>1, <1>5, StaysRecovered
<1> QED BY <1>3, <1>4, <1>5, BesideClasses

(* What is written is inside the relation. *)
LEMMA WrittenInside ==
  ASSUME StoreOK, NEW b \in BlockOrNone, Written(b)
  PROVE  b <= size /\ size \in 0 .. MaxBlocks
<1>1. size \in 0 .. MaxBlocks
  BY DEF StoreOK, TypeOK
<1>2. CASE b = NoBlock
  BY <1>1, <1>2, BoundAssumption DEF NoBlock
<1>3. CASE b # NoBlock
  BY <1>1, <1>3, BoundAssumption DEF StoreOK, PastEnd, Written, BlockOrNone, Block
<1> QED BY <1>2, <1>3

(* Dictionary pages are those up to the last one. *)
DictBelow == \A t \in Term : dict[t].page <= meta.dictTail

(* The page of an entry never changes; a new entry is on the last          *)
(* dictionary page.                                                        *)
LEMMA DictBelowStep ==
  ASSUME StoreInv, StoreInv', DictBelow, [Next]_vars
  PROVE  DictBelow'
<1>0. /\ StoreOK /\ OwnersChained /\ DictChained /\ PostingsSound /\ NamesWritten /\ BlockAtEnd
      /\ dict \in [Term -> TermRecord] /\ meta \in MetaRecord
  BY DEF StoreInv, StoreOK, TypeOK, RootInv
<1>1. meta.dictTail \in BlockOrNone /\ meta.dictTail <= size
  BY <1>0, WrittenInside DEF MetaRecord, NamesWritten
<1>2. \A t \in Term : dict[t].page \in BlockOrNone
  BY <1>0 DEF TermRecord
<1>3. CASE ~\E t \in Term : LinkFirstTerm(t) \/ LinkNewTermNextPage(t)
  <2>1. meta'.dictTail = meta.dictTail
    BY <1>0, <1>3, DictEnds
  <2>2. ASSUME NEW t \in Term PROVE dict'[t].page \in {dict[t].page, meta.dictTail}
    <3>1. CASE dict' = dict
      BY <3>1
    <3>2. ASSUME NEW u \in Term, LinkTerm(u)
          PROVE  dict'[t].page \in {dict[t].page, meta.dictTail}
      <4>1. u # t => dict'[t] = dict[t]
        BY <1>0, <3>2, LinkBatch DEF LinkTerm, EntryPut
      <4>2. CASE LinkNewTerm(u)
        <5>1. EntryPut(u, NewEntry(meta.dictTail, ins.owner))
          BY <1>0, <4>2, LinkBatch
        <5> QED BY <4>1, <5>1 DEF EntryPut, NewEntry
      <4>3. CASE LinkPromote(u) \/ LinkInline(u) \/ LinkAppend(u)
        <5>1. \/ EntryPut(u, Promoted(dict[u], blk)) \/ EntryPut(u, WithSecond(dict[u], ins.owner))
              \/ dict' = dict
          BY <1>0, <4>3, LinkBatch
        <5> QED BY <4>1, <5>1 DEF EntryPut, Promoted, WithSecond
      <4>4. CASE LinkFirstPosting(u) \/ LinkNextPage(u)
        <5>1. EntryPut(u, WithChain(dict[u], blk, blk)) \/ EntryPut(u, WithChain(dict[u], dict[u].head, blk))
          BY <1>0, <4>4, LinkBatch
        <5>2. dict'[u].page = dict[u].page
          BY <1>0, <5>1 DEF EntryPut, WithChain, TermRecord
        <5> QED BY <4>1, <5>2
      <4> QED BY <1>3, <3>2, <4>2, <4>3, <4>4 DEF LinkTerm
    <3>3. ASSUME NEW u \in Term, CompactInline(u)
          PROVE  dict'[t].page = dict[t].page
      BY <1>0, <3>3 DEF CompactInline, WithoutSecond, NewEntry
    <3>4. CASE PublishReplacement
      <4>1. \E h, l : dict' = [dict EXCEPT ![cpt.term] = WithChain(dict[cpt.term], h, l)]
        BY <3>4 DEF PublishReplacement, Replacement
      <4> QED BY <1>0, <4>1 DEF WithChain, TermRecord
    <3>5. CASE PersistReused \/ PersistAllocated \/ Recover
      <4>1. dict' = dict
        BY <3>5 DEF PersistReused, PersistAllocated, PersistOutput, Recover, RecoverOne, RecoverTwo
      <4> QED BY <3>1, <4>1
    <3> QED BY <1>0, <3>1, <3>2, <3>3, <3>4, <3>5, QuietEntries, StepClasses
  <2>3. ASSUME NEW t \in Term PROVE dict'[t].page <= meta'.dictTail
    <3>1. dict[t].page <= meta.dictTail /\ meta.dictTail \in Nat
      BY <1>1, BoundAssumption DEF DictBelow, BlockOrNone, Block, NoBlock
    <3> QED BY <2>1, <2>2, <3>1
  <2> QED BY <2>3 DEF DictBelow
<1>4. ASSUME NEW u \in Term, LinkFirstTerm(u) \/ LinkNewTermNextPage(u) PROVE DictBelow'
  <2>1. blk = size /\ meta'.dictTail = blk
    BY <1>0, <1>4, LinkBatch DEF BlockAtEnd
  <2>2. ASSUME NEW t \in Term PROVE dict'[t].page <= blk
    <3>0. size \in Nat
      BY <1>0, BoundAssumption DEF StoreOK, TypeOK
    <3>1. CASE t = u
      <4>1. dict'[t].page = blk
        <5>1. EntryPut(u, NewEntry(blk, ins.owner))
          BY <1>0, <1>4, LinkBatch
        <5> QED BY <3>1, <5>1 DEF EntryPut, NewEntry
      <4> QED BY <2>1, <3>0, <4>1
    <3>2. CASE t # u
      <4>1. dict'[t] = dict[t]
        BY <1>0, <1>4, <3>2, LinkBatch DEF EntryPut
      <4>2. dict[t].page <= size
        BY <1>0, <1>2, WrittenInside DEF NamesWritten
      <4> QED BY <2>1, <4>1, <4>2
    <3> QED BY <3>1, <3>2
  <2> QED BY <2>1, <2>2 DEF DictBelow
<1> QED BY <1>3, <1>4

(* A chain is no longer than the relation. *)
LEMMA Counted ==
  ASSUME NEW R \in SUBSET Block
  PROVE  IsFiniteSet(R) /\ Cardinality(R) \in Nat
<1>1. IsFiniteSet(Block)
  BY BoundAssumption, FS_Interval DEF Block
<1> QED BY <1>1, FS_Subset, FS_CardinalityType

(* A page of references has a last one. *)
LEMMA LastIs ==
  ASSUME NEW S \in SUBSET Owner, S # {}
  PROVE  \E o \in S : \A p \in S : p <= o
<1>1. Owner \subseteq Nat /\ \A o \in Owner : MaxOwners - o \in Nat
  BY BoundAssumption DEF Owner
<1>2. PICK x \in {MaxOwners - o : o \in S} : \A y \in {MaxOwners - o : o \in S} : x <= y
  BY <1>1, LeastElement
<1>3. PICK o \in S : x = MaxOwners - o
  BY <1>2
<1>4. \A p \in S : MaxOwners - o <= MaxOwners - p
  BY <1>2, <1>3
<1> QED BY <1>1, <1>4, BoundAssumption

(* Only a compaction rewrites. *)
CompactStages == pc \in {"compact", "rewrite"} => cpt.then = "compact"

(* A compaction under way stays one, and only a compaction visits terms    *)
(* and rewrites.                                                           *)
LEMMA CompactSteps ==
  ASSUME TypeOK, CompactStages, Step \/ Interrupt \/ (\E r \in Root : HeapDelete(r)) \/ UNCHANGED vars
  PROVE  CompactStages' /\ (cpt'.then = "compact" => cpt.then = "compact")
<1> USE DEF CompactStages
<1>0. cpt \in CompactRecord /\ NoCompact.then = "none"
  BY DEF TypeOK, NoCompact
<1>1. CASE UNCHANGED <<pc, cpt>>
  BY <1>1
<1>2. CASE ExtendFails \/ FailedCleanup \/ Interrupt
  BY <1>0, <1>2 DEF ExtendFails, FailedCleanup, Interrupt, Abandoned
<1>3. CASE Insert
  <2>1. cpt' = cpt /\ pc' \notin {"compact", "rewrite"}
    BY <1>3 DEF Insert, ReserveFirst, ReserveAppend, ReserveNext, AppendOwner,
         StoreFragmentReused, StoreFragmentAllocated, StoredFragment, FragmentNeedsBlock,
         PayloadReady, Publish, LinkTerm, LinkFirstTerm, LinkNewTerm, LinkNewTermNextPage,
         LinkPromote, LinkInline, LinkFirstPosting, LinkAppend, LinkNextPage, LinkReady, Linked
  <2> QED BY <2>1
<1>4. CASE Recover \/ Allocate \/ \E r \in Root : HeapDelete(r)
  BY <1>1, <1>4 DEF Recover, RecoverOne, RecoverTwo, Allocate, Extend, HeapDelete
<1>5. CASE Compaction
  <2>1. CASE PublishRejected \/ CompactEnd \/ RecoverEndCompact
    BY <1>0, <2>1 DEF PublishRejected, CompactEnd, RecoverEndCompact
  <2>2. CASE PublishReplacement
    <3>1. cpt'.then = cpt.then /\ pc' = "recover"
      BY <1>0, <2>2 DEF PublishReplacement, CompactRecord
    <3> QED BY <3>1
  <2>3. CASE PersistReused \/ PersistAllocated
    <3>1. cpt'.then = cpt.then /\ pc = "rewrite"
      BY <1>0, <2>3 DEF PersistReused, PersistAllocated, PersistOutput, CompactRecord
    <3> QED BY <3>1
  <2>4. ASSUME NEW t \in Term, CompactSkip(t) \/ CompactInline(t) \/ RewriteBegin(t)
        PROVE  cpt'.then = cpt.then /\ pc = "compact"
    BY <1>0, <2>4 DEF CompactSkip, CompactInline, RewriteBegin, Visit, CompactRecord
  <2> QED BY <1>5, <2>1, <2>2, <2>3, <2>4 DEF Compaction
<1>6. CASE VacuumPass
  <2>1. CASE RecoverEndVacuum
    <3>1. cpt'.then = "none" /\ pc' \in {"owners", "sweep"}
      BY <1>0, <2>1 DEF RecoverEndVacuum, CompactRecord
    <3> QED BY <3>1
  <2>2. CASE ~RecoverEndVacuum
    <3>1. cpt' = cpt /\ (pc' = pc \/ pc' \notin {"compact", "rewrite"})
      BY <1>6, <2>2 DEF VacuumPass, RemoveOwners, SweepDirect, SweepFragment, ReclaimZero,
           SweepEnd, VacuumEnd, Reclaim
    <3> QED BY <3>1
  <2> QED BY <2>1, <2>2
<1> QED BY <1>1, <1>2, <1>3, <1>4, <1>5, <1>6 DEF Step, vars

(* The fragments of a live document are numbered from its slot on.         *)
LEMMA LivePayloadFacts ==
  ASSUME StoreInv, NEW o \in Owner, Live(o)
  PROVE  LET n == owner[o].doc.frags IN
         /\ n \in Nat
         /\ n > 0 => owner[o].head \in Fragments(o) /\ page[owner[o].head].index = 0
         /\ \A b \in Fragments(o) :
              /\ b \in Block /\ b # NoBlock
              /\ page[b].index \in 0 .. (n - 1)
              /\ IF page[b].next = NoBlock THEN page[b].index + 1 = n
                 ELSE /\ page[b].next \in Fragments(o)
                      /\ page[page[b].next].index = page[b].index + 1
<1>1. PICK d, h, F : d = owner[o].doc /\ h = owner[o].head /\ F = Fragments(o)
  OBVIOUS
<1>2. TypeOK /\ PayloadFrom(o, d, 0, h)
  BY <1>1 DEF StoreInv, StoreOK, PayloadsSound
<1>3. d.frags \in Nat
  <2>1. owner[o] \in OwnerRecord
    BY <1>2 DEF TypeOK
  <2> QED BY <1>1, <2>1, DocumentFacts DEF OwnerRecord
<1>4. PICK t \in BlockOrNone : Chained(Link, F, h, t)
  BY <1>1, <1>2 DEF PayloadFrom
<1>5. /\ F \in SUBSET Block /\ NoBlock = 0 /\ 0 \notin F
      /\ \A b \in F : Link[b] = page[b].next
  BY <1>1, <1>2, LinkFacts2 DEF Fragments
<1>6. /\ h # 0 => h \in F /\ t \in F /\ Link[t] = 0
      /\ \A b \in F : b # t => Link[b] \in F
  BY <1>4, <1>5, ChainedFacts
<1>7. (h = 0) = (F = {})
  BY <1>4, <1>5, ChainedFacts
<1>8. d.frags > 0 => h # 0
  <2>1. Cardinality(F) = d.frags
    BY <1>1, <1>2, <1>3 DEF PayloadFrom
  <2>2. Cardinality({}) = 0
    BY FS_EmptySet
  <2> QED BY <1>3, <1>7, <2>1, <2>2
<1>9. /\ h # 0 => page[h].index = 0
      /\ \A b \in F : page[b].index \in 0 .. (d.frags - 1)
      /\ \A b \in F : IF page[b].next = NoBlock THEN page[b].index + 1 = d.frags
                      ELSE page[page[b].next].index = page[b].index + 1
  BY <1>1, <1>2, <1>5 DEF PayloadFrom
<1>10. \A b \in F : page[b].next # NoBlock => page[b].next \in F
  BY <1>5, <1>6, <1>7
<1> QED BY <1>1, <1>3, <1>5, <1>6, <1>8, <1>9, <1>10

=============================================================================
