------------------------------ MODULE Compact -------------------------------
(***************************************************************************)
(* compact_with_mode(), rewrite(), persist_output() and recover() of       *)
(* crates/pin-core/src/mutable/compact.rs.  recover() is also the first    *)
(* thing a vacuum pass does; cpt.then says which operation called it.      *)
(*                                                                         *)
(* The reads of a rewrite happen under the exclusive barriers, so nothing  *)
(* they return changes before the commit that uses them: the live          *)
(* references of the source are collected when the rewrite starts.         *)
(***************************************************************************)
EXTENDS PageFile

CONSTANT CompactMode   \* the modes the host asks for
ASSUME ModeAssumption == CompactMode \subseteq {"Copy", "RetainSealedPrefix", "DirectTid"}

Mode == {"Copy", "RetainSealedPrefix", "DirectTid"}

NoCompact == [then |-> "none", mode |-> "Copy", todo |-> {}, term |-> NoTerm,
              source |-> NoBlock, boundary |-> NoBlock, pending |-> {}]

CompactRecord == [then : {"none", "vacuum", "compact"}, mode : Mode,
                  todo : SUBSET Term, term : Term \cup {NoTerm},
                  source : BlockOrNone, boundary : BlockOrNone,
                  pending : SUBSET Owner]

(* The references a traversal of the entry's posting chain meets. *)
ChainRefs(head, tail) == UNION {page[b].refs : b \in Chain(head, tail)}

-----------------------------------------------------------------------------
(* inspect(): what the chain of an entry holds. *)

(* A nonempty chain ends at its tail, the tail is terminal, every page is  *)
(* a posting page of the term and references increase along the chain,     *)
(* from the owner that precedes it.                                        *)
ChainIntact(t, head, tail, previous) ==
  LET blocks == Chain(head, tail) IN
  /\ (head = NoBlock) = (tail = NoBlock)
  /\ head # NoBlock => tail \in blocks /\ page[tail].next = NoBlock
  /\ \A b \in blocks : /\ page[b].kind \in PostingKind
                       /\ page[b].term = t
                       /\ \A o \in page[b].refs : previous < o
  /\ \A b \in blocks : page[b].next \in blocks =>
       \A o \in page[b].refs, p \in page[page[b].next].refs : o < p

(* A sealed page all of whose references are live. *)
PageLive(b) == page[b].kind = "Sealed" /\ \A o \in page[b].refs : Live(o)

(* The leading run of such pages. *)
LivePrefix(head, tail) ==
  {b \in Chain(head, tail) : \A c \in Chain(head, b) : PageLive(c)}

(* RetainedPrefix: the prefix but for its last page, the source, which is  *)
(* rewritten with the suffix; the boundary is the page before it.          *)
RetainedPrefix(prefix, boundary, source) ==
  /\ source \in prefix /\ page[source].next \notin prefix
  /\ boundary \in prefix /\ page[boundary].next = source

NeedsRewrite(e, mode) ==
  LET blocks == Chain(e.head, e.tail) IN
  \/ \E b \in blocks : page[b].kind = "Postings"
  \/ \E o \in ChainRefs(e.head, e.tail) : ~Live(o)
  \/ mode = "DirectTid" /\ \E b \in blocks : page[b].kind # "Direct"

-----------------------------------------------------------------------------
(* compact_with_mode() *)

(* The host holds the exclusive structural barrier and the interlock. *)
CompactBegin(mode) ==
  /\ pc = "idle"
  /\ pc' = "recover"
  /\ cpt' = [NoCompact EXCEPT !.then = "compact", !.mode = mode,
                              !.todo = {t \in Term : dict[t].page # NoBlock}]
  /\ UNCHANGED <<page, size, meta, dict, owner, heap, crashes, m, blk, ins, vac>>

Visit(t) == pc = "compact" /\ t \in cpt.todo

(* No posting chain, a live inline owner or nothing to rewrite. *)
CompactSkip(t) ==
  /\ Visit(t)
  /\ \/ dict[t].head = NoBlock
     \/ dict[t].inline = 1 /\ Live(dict[t].second)
     \/ dict[t].inline # 1 /\ dict[t].head # NoBlock /\ ~NeedsRewrite(dict[t], cpt.mode)
  /\ cpt' = [cpt EXCEPT !.todo = cpt.todo \ {t}]
  /\ UNCHANGED <<page, size, meta, dict, owner, heap, crashes, pc, m, blk, ins, vac>>

(* set_inline_second(None): a dead inline owner leaves the entry. *)
CompactInline(t) ==
  /\ Visit(t)
  /\ dict[t].inline = 1 /\ ~Live(dict[t].second)
  /\ dict' = [dict EXCEPT ![t] = WithoutSecond(dict[t])]
  /\ cpt' = [cpt EXCEPT !.todo = cpt.todo \ {t}]
  /\ UNCHANGED <<page, size, meta, owner, heap, crashes, pc, m, blk, ins, vac>>

RewriteBegin(t) ==
  LET e == dict[t]
      prefix == LivePrefix(e.head, e.tail)
      retain == cpt.mode = "RetainSealedPrefix" /\ Cardinality(prefix) > 1
  IN
  /\ Visit(t)
  /\ e.inline # 1 /\ e.head # NoBlock
  /\ ChainIntact(t, e.head, e.tail, e.first)
  /\ NeedsRewrite(e, cpt.mode)
  /\ m.journal.phase = "None"
  /\ \E source \in Block, boundary \in BlockOrNone :
       /\ IF retain THEN RetainedPrefix(prefix, boundary, source)
                    ELSE source = e.head /\ boundary = NoBlock
       /\ cpt' = [cpt EXCEPT !.todo = cpt.todo \ {t}, !.term = t,
                    !.source = source, !.boundary = boundary,
                    !.pending = {o \in ChainRefs(source, e.tail) : Live(o)}]
  /\ pc' = "rewrite"
  /\ UNCHANGED <<page, size, meta, dict, owner, heap, crashes, m, blk, ins, vac>>

-----------------------------------------------------------------------------
(* rewrite(): output_block() and persist_output() *)

OutputNeedsBlock == pc = "rewrite" /\ cpt.pending # {} /\ m.free = NoBlock

(* One full (or last) output page b, with the journal that owns it; free   *)
(* is the free list without b.                                             *)
PersistOutput(b, free) ==
  LET chunk == FirstRefs(cpt.pending, SealedPerPage)
      output == SealedPage(cpt.term, chunk, cpt.mode = "DirectTid")
      first == m.journal.phase = "None"
  IN
  /\ pc = "rewrite" /\ cpt.pending # {}
  /\ m.journal.phase # "Retiring"
  /\ ~first => /\ page[m.journal.tail].kind \in {"Sealed", "Direct"}
               /\ page[m.journal.tail].next = NoBlock
  /\ m' = [m EXCEPT !.free = free,
             !.journal = [phase |-> "Building", tail |-> b,
                          head |-> IF first THEN b ELSE m.journal.head]]
  /\ meta' = m'
  /\ page' = IF first THEN [page EXCEPT ![b] = output]
             ELSE [page EXCEPT ![b] = output, ![m.journal.tail].next = b]
  /\ cpt' = [cpt EXCEPT !.pending = cpt.pending \ chunk]
  /\ blk' = NoBlock
  /\ UNCHANGED <<size, dict, owner, heap, crashes, pc, ins, vac>>

PersistReused ==
  /\ m.free # NoBlock
  /\ page[m.free].kind = "Free"
  /\ PersistOutput(m.free, page[m.free].next)

PersistAllocated ==
  /\ m.free = NoBlock
  /\ blk # NoBlock
  /\ PersistOutput(blk, NoBlock)

-----------------------------------------------------------------------------
(* rewrite(): the replacement.  The batch holds the dictionary page, which *)
(* commit() validates before anything is written.                          *)

Building == m.journal.phase = "Building"
NewHead == IF Building THEN m.journal.head ELSE NoBlock
NewTail == IF Building THEN m.journal.tail ELSE NoBlock

(* Fault: behind a retained prefix only the boundary's link is changed. *)
FaultReplacement ==
  LET e == dict[cpt.term] IN
  IF cpt.boundary # NoBlock THEN e ELSE WithChain(e, NewHead, NewTail)

Replacement ==
  LET e == dict[cpt.term] IN
  IF cpt.boundary # NoBlock
  THEN WithChain(e, e.head, IF Building THEN NewTail ELSE cpt.boundary)
  ELSE WithChain(e, NewHead, NewTail)

(* Fault: the whole source is retired, the retained prefix included. *)
FaultPublishReplacement ==
  /\ pc = "rewrite" /\ cpt.pending = {}
  /\ EntryValid(Replacement)
  /\ m' = [m EXCEPT !.journal = [phase |-> "Retiring", head |-> dict[cpt.term].head,
                                 tail |-> dict[cpt.term].tail]]
  /\ meta' = m'
  /\ dict' = [dict EXCEPT ![cpt.term] = Replacement]
  /\ page' = IF cpt.boundary # NoBlock
             THEN [page EXCEPT ![cpt.boundary].next = NewHead] ELSE page
  /\ pc' = "recover"
  /\ cpt' = [cpt EXCEPT !.term = NoTerm, !.source = NoBlock, !.boundary = NoBlock]
  /\ UNCHANGED <<size, owner, heap, crashes, blk, ins, vac>>

PublishReplacement ==
  /\ pc = "rewrite" /\ cpt.pending = {}
  /\ cpt.boundary # NoBlock => /\ page[cpt.boundary].kind = "Sealed"
                               /\ page[cpt.boundary].next = cpt.source
  /\ EntryValid(Replacement)
  /\ m' = [m EXCEPT !.journal = [phase |-> "Retiring", head |-> cpt.source,
                                 tail |-> dict[cpt.term].tail]]
  /\ meta' = m'
  /\ dict' = [dict EXCEPT ![cpt.term] = Replacement]
  /\ page' = IF cpt.boundary # NoBlock
             THEN [page EXCEPT ![cpt.boundary].next = NewHead] ELSE page
  /\ pc' = "recover"
  /\ cpt' = [cpt EXCEPT !.term = NoTerm, !.source = NoBlock, !.boundary = NoBlock]
  /\ UNCHANGED <<size, owner, heap, crashes, blk, ins, vac>>

(* The dictionary page does not validate: commit() fails and so does the   *)
(* whole maintenance call, with nothing of the batch written.              *)
PublishRejected ==
  /\ pc = "rewrite" /\ cpt.pending = {}
  /\ ~EntryValid(Replacement)
  /\ pc' = "failed"
  /\ UNCHANGED <<page, size, meta, dict, owner, heap, crashes, m, blk, ins, vac, cpt>>

(* Every term is done. *)
CompactEnd ==
  /\ pc = "compact" /\ cpt.todo = {}
  /\ pc' = "idle"
  /\ cpt' = NoCompact
  /\ UNCHANGED <<page, size, meta, dict, owner, heap, crashes, m, blk, ins, vac>>

-----------------------------------------------------------------------------
(* recover() works on a metapage image of its own, so the caller's image m *)
(* is stale until the caller reloads it.                                   *)

JournalTerm == page[meta.journal.head].term

(* The checks recover() makes before it frees anything. *)
RecoverAccepts ==
  /\ meta.journal.head # NoBlock
  /\ page[meta.journal.head].kind \in PostingKind
  /\ ChainIntact(JournalTerm, meta.journal.head, meta.journal.tail, NoOwner)
  /\ LET e == dict[JournalTerm] IN
     /\ e.inline # 1 => ChainIntact(JournalTerm, e.head, e.tail, e.first)
     /\ e.tail # meta.journal.tail

(* Two journal pages a batch, and the last one alone; load_posting() and   *)
(* posting_next() check each page again.                                   *)
RecoverOne ==
  LET b == meta.journal.head IN
  /\ pc = "recover" /\ meta.journal.phase # "None"
  /\ RecoverAccepts
  /\ b = meta.journal.tail
  /\ meta' = [meta EXCEPT !.journal = NoJournal, !.free = b]
  /\ page' = [page EXCEPT ![b] = FreePage(meta.free)]
  /\ UNCHANGED <<size, dict, owner, heap, crashes, pc, m, blk, ins, vac, cpt>>

(* Fault: the second page of a batch is freed without the first. *)
FaultRecoverTwo ==
  LET b == meta.journal.head
      c == page[b].next
  IN
  /\ pc = "recover" /\ meta.journal.phase # "None"
  /\ RecoverAccepts
  /\ b # meta.journal.tail
  /\ meta' = [meta EXCEPT !.free = c,
                !.journal = IF c = meta.journal.tail THEN NoJournal
                            ELSE [meta.journal EXCEPT !.head = page[c].next]]
  /\ page' = [page EXCEPT ![b] = FreePage(meta.free), ![c] = FreePage(meta.free)]
  /\ UNCHANGED <<size, dict, owner, heap, crashes, pc, m, blk, ins, vac, cpt>>

RecoverTwo ==
  LET b == meta.journal.head
      c == page[b].next
  IN
  /\ pc = "recover" /\ meta.journal.phase # "None"
  /\ RecoverAccepts
  /\ b # meta.journal.tail
  /\ c \notin {NoBlock, b} /\ page[c].kind \in PostingKind /\ page[c].term = JournalTerm
  /\ c # meta.journal.tail => page[c].next # NoBlock
  /\ meta' = [meta EXCEPT !.free = c,
                !.journal = IF c = meta.journal.tail THEN NoJournal
                            ELSE [meta.journal EXCEPT !.head = page[c].next]]
  /\ page' = [page EXCEPT ![b] = FreePage(meta.free), ![c] = FreePage(b)]
  /\ UNCHANGED <<size, dict, owner, heap, crashes, pc, m, blk, ins, vac, cpt>>

(* Fault: the compaction goes on with the metapage it had. *)
FaultRecoverEndCompact ==
  /\ pc = "recover" /\ meta.journal.phase = "None" /\ cpt.then = "compact"
  /\ pc' = "compact"
  /\ UNCHANGED <<page, size, meta, dict, owner, heap, crashes, m, blk, ins, vac, cpt>>

(* Nothing is left; the compaction that called reloads its metapage. *)
RecoverEndCompact ==
  /\ pc = "recover" /\ meta.journal.phase = "None" /\ cpt.then = "compact"
  /\ m' = meta
  /\ pc' = "compact"
  /\ UNCHANGED <<page, size, meta, dict, owner, heap, crashes, blk, ins, vac, cpt>>

=============================================================================
