--------------------------- MODULE ScanWorkProofs ---------------------------
(***************************************************************************)
(* Proofs about the plain scan, for every number of participants, blocks,  *)
(* owners and terms: captured work stays readable, no owner is handed out  *)
(* twice, and a scan that ends has handed out every document that was live *)
(* when it opened and is live still.                                       *)
(*                                                                         *)
(* The writers beside a scan only add to what it reads: pages that have a  *)
(* successor are final, and new pages and references come at the end.  The *)
(* invariant says where in the references of the term the shared words     *)
(* stand, and that a prepared batch is what the words it was made of mean. *)
(***************************************************************************)
EXTENDS ScanWork, IndexProofs

-----------------------------------------------------------------------------
(* Where a scan stands *)

(* R are the pages that the words k have still to visit. *)
OnChain(t, k, R) ==
  /\ R \subseteq ScanPages(t)
  /\ Chained(Cut(k.tail), R, k.at, k.tail)
  /\ \A b \in R : b < k.limit
  /\ Cardinality(R) < k.left
  /\ \A o \in page[k.at].refs : k.previous < o

(* The words k were captured when the second owner was inline. *)
OnEntry(t, k) ==
  /\ k.at = dict[t].page /\ k.tail = k.at /\ k.left > 0
  /\ dict[t].inline # 0 /\ dict[t].second \in Owner /\ dict[t].first < dict[t].second
  /\ k.previous = dict[t].first

(* What is left to hand out after the first owner *)
Rest(k, M) == IF k.kind = "first" THEN M \ {k.previous} ELSE M

(* The words k are a place in the references of t from where every owner   *)
(* of M is still to come.                                                  *)
Position(t, k, M) ==
  /\ k \in WorkRecord /\ k.kind # "done"
  /\ dict[t].page # NoBlock /\ Reached(t, k.previous)
  /\ k.kind = "first" => k.previous = dict[t].first
  /\ k.kind = "chain" => k.at # NoBlock
  /\ IF k.at = NoBlock THEN Rest(k, M) = {}
     ELSE \/ OnEntry(t, k) /\ Rest(k, M) \subseteq {dict[t].second}
          \/ \E R \in SUBSET Block : OnChain(t, k, R) /\ \A o \in Rest(k, M) : Holds(R, o)

(* load_posting() *)
BatchRefs(t, b) == IF page[b].kind = "Dictionary" THEN {dict[t].second} ELSE page[b].refs

(* refs and next are what prepare() has made of the words k: nothing that  *)
(* was live when the scan opened is missing, and where the chain goes on   *)
(* the page is full and the successor the one it would be now.             *)
BatchOf(t, k, refs, next) ==
  IF k.kind = "first"
  THEN /\ refs = {k.previous}
       /\ next = IF k.at = NoBlock THEN NoWork ELSE [k EXCEPT !.kind = "chain"]
  ELSE /\ refs \subseteq BatchRefs(t, k.at)
       /\ must \cap BatchRefs(t, k.at) \subseteq refs
       /\ IF k.at = k.tail THEN next = NoWork
          ELSE /\ refs = page[k.at].refs
               /\ next = [k EXCEPT !.at = page[k.at].next, !.left = k.left - 1,
                                   !.previous = next.previous]
               /\ next.previous \in refs /\ \A o \in refs : o <= next.previous

-----------------------------------------------------------------------------
(* The inductive invariant *)

ScanRecord == [stage : {"closed", "opened", "limited", "ready", "rejected"},
               term : Term \cup {NoTerm}, limit : 0 .. (MaxBlocks + 1), dictTail : BlockOrNone]

(* The barrier is held until the work is consumed, and no compaction runs  *)
(* beside its holders.                                                     *)
BarrierSound ==
  /\ scan \in ScanRecord /\ (scan.stage # "closed" => scan.term \in Term)
  /\ holds # {} => ~CompactHolds
  /\ scan.stage \in {"opened", "limited"} => holds # {} /\ emitted = {}
  /\ scan.stage = "ready" /\ work.kind # "done" => holds # {}
  /\ \A w \in Worker : scan.stage # "ready" \/ w \notin holds => wk[w].stage = "idle"

(* Between the two halves of capture(): pages that the chain has grown by  *)
(* since the relation size was read are behind its tail.                   *)
LimitSound ==
  scan.stage = "limited" =>
    /\ scan.limit \in 1 .. (MaxBlocks + 1)
    /\ \A b \in ScanPages(scan.term) :
         b < scan.limit \/ (dict[scan.term].inline # 1 /\ scan.limit <= dict[scan.term].tail)

(* What was live when the scan opened was published under the term, and    *)
(* its entry is found.                                                     *)
MustSound ==
  /\ must \subseteq Owner
  /\ scan.stage = "closed" => must = {}
  /\ \A o \in must : owner[o].pub = "Published" /\ scan.term \in owner[o].doc.terms
  /\ must # {} /\ scan.stage = "opened" => dict[scan.term].page # NoBlock
  /\ must # {} /\ scan.stage = "limited" => dict[scan.term].page \in 1 .. scan.dictTail

(* What is live and has neither been emitted nor claimed *)
Outstanding ==
  {o \in must : /\ Live(o) /\ o \notin emitted
                /\ \A w \in Worker : wk[w].stage = "claimed" => o \notin wk[w].refs}

(* The shared words name what is left, and what has been claimed is behind *)
(* them.                                                                   *)
WorkSound ==
  scan.stage = "ready" =>
    /\ work.kind = "done" => Outstanding = {}
    /\ \A t \in {scan.term}, k \in {work}, M \in {Outstanding} :
         k.kind # "done" => Position(t, k, M)
    /\ work.kind = "first" => emitted = {} /\ \A w \in Worker : wk[w].stage # "claimed"
    /\ work.kind = "chain" =>
         /\ \A o \in emitted : o <= work.previous
         /\ \A w \in Worker : wk[w].stage = "claimed" =>
              \A o \in wk[w].refs : o <= work.previous

(* A prepared batch is what the words it was made of mean, even if others  *)
(* have moved them since.                                                  *)
PreparedSound ==
  \A w \in Worker : \A t \in {scan.term}, p \in {wk[w]} :
    p.stage = "prepared" =>
      Position(t, p.seen, {}) /\ BatchOf(t, p.seen, p.refs, p.next)

ScanInv ==
  /\ StoreInv /\ CompactStages /\ DictBelow
  /\ ScanTypeOK /\ BarrierSound /\ LimitSound /\ MustSound
  /\ WorkSound /\ PreparedSound /\ EmittedOnce
-----------------------------------------------------------------------------
(* What the writers do to the pages of a scan *)

-----------------------------------------------------------------------------
(* The barrier and the dictionary *)

(* No compaction begins beside the holders of the barrier. *)
LEMMA BarrierKept ==
  ASSUME TypeOK, CompactStages, holds # {} => ~CompactHolds, WriterStep \/ UNCHANGED vars
  PROVE  CompactStages' /\ (holds # {} => ~CompactHolds')
<1>0. cpt \in CompactRecord
  BY DEF TypeOK
<1>1. CASE VacuumBegin
  <2>1. cpt'.then = "vacuum" /\ pc' = "recover"
    BY <1>0, <1>1 DEF VacuumBegin, CompactRecord
  <2> QED BY <2>1 DEF CompactStages, CompactHolds
<1>2. ASSUME NEW r \in Root, NEW d \in Document, InsertBegin(r, d)
      PROVE  pc' = "reserve" /\ cpt' = cpt
  BY <1>2 DEF InsertBegin
<1>3. ASSUME NEW mode \in CompactMode, CompactBegin(mode) PROVE pc' = "recover"
  BY <1>3 DEF CompactBegin
<1>4. CASE (\E r \in Root, d \in Document : InsertBegin(r, d))
           \/ (holds = {} /\ \E mode \in CompactMode : CompactBegin(mode))
  BY <1>2, <1>3, <1>4 DEF CompactStages, CompactHolds
<1> QED BY <1>1, <1>4, CompactSteps DEF WriterStep, CompactHolds

-----------------------------------------------------------------------------
(* A term as a scan meets it *)

-----------------------------------------------------------------------------
(* A place in the references stays one *)

(* The chain of a captured place *)
LEMMA CutFacts ==
  ASSUME StoreInv, NEW t \in Term, NEW k, k.at # NoBlock, NEW R \in SUBSET Block, OnChain(t, k, R)
  PROVE  /\ k.at \in R /\ k.tail \in R /\ R \subseteq ScanPages(t)
         /\ \A b \in R : b # k.tail => page[b].next \in R /\ page[b].next # NoBlock
<1>1. R \subseteq ScanPages(t) /\ 0 \notin R /\ NoBlock = 0 /\ Chained(Cut(k.tail), R, k.at, k.tail)
  BY PlaceFacts DEF OnChain
<1>2. \A b \in R : b # k.tail => Cut(k.tail)[b] = page[b].next
  BY DEF Cut
<1>3. PICK c : c = Cut(k.tail)
  OBVIOUS
<1>4. /\ k.at # 0 => k.at \in R /\ k.tail \in R
      /\ \A b \in R : b # k.tail => c[b] \in R
  BY ONLY <1>1, <1>3, ChainedFacts
<1> QED BY <1>1, <1>2, <1>3, <1>4

(* The writers beside a scan keep its place. *)
LEMMA PositionKept ==
  ASSUME StoreInv, NEW t \in Term, PagesStay(t), EntryStays(t), NEW k, NEW M, Position(t, k, M)
  PROVE  Position(t, k, M)'
<1>1. /\ k \in WorkRecord /\ k.kind # "done"
      /\ dict[t].page # NoBlock /\ Reached(t, k.previous)
      /\ k.kind = "first" => k.previous = dict[t].first
      /\ k.kind = "chain" => k.at # NoBlock
  BY DEF Position
<1>2. dict'[t].page = dict[t].page /\ dict'[t].first = dict[t].first
  BY <1>1 DEF EntryStays
<1>3. \A b \in ScanPages(t) : b \in ScanPages(t)' /\ page[b].refs \subseteq page'[b].refs
  BY DEF PagesStay
<1>4. Reached(t, k.previous)'
  BY <1>1, <1>2, <1>3 DEF Reached, Holds
<1>5. ASSUME OnEntry(t, k), Rest(k, M) \subseteq {dict[t].second}
      PROVE  OnEntry(t, k)' /\ Rest(k, M) \subseteq {dict'[t].second}
  BY <1>2, <1>5 DEF OnEntry, EntryStays
<1>6. ASSUME NEW R \in SUBSET Block, k.at # NoBlock, OnChain(t, k, R), \A o \in Rest(k, M) : Holds(R, o)
      PROVE  OnChain(t, k, R)' /\ \A o \in Rest(k, M) : Holds(R, o)'
  <2>1. /\ k.at \in R /\ R \subseteq ScanPages(t)
        /\ \A b \in R : b # k.tail => page[b].next # NoBlock
    BY <1>6, CutFacts
  <2>2. R \subseteq ScanPages(t)'
    BY <1>3, <2>1
  <2>3. Chained(Cut(k.tail)', R, k.at, k.tail)
    <3>1. PICK c, d : c = Cut(k.tail) /\ d = Cut(k.tail)'
      OBVIOUS
    <3>2. \A b \in R : d[b] = c[b]
      BY <2>1, <3>1 DEF Cut, PagesStay
    <3>3. Chained(c, R, k.at, k.tail)
      BY <1>6, <3>1 DEF OnChain
    <3>4. Chained(d, R, k.at, k.tail)
      BY ONLY <3>2, <3>3, ChainedSame
    <3> QED BY <3>1, <3>4
  <2>4. ASSUME NEW o \in page'[k.at].refs PROVE k.previous < o
    <3>1. CASE o \in page[k.at].refs
      BY <1>6, <3>1 DEF OnChain
    <3>2. CASE o \notin page[k.at].refs
      <4>1. pc = "link" /\ t \in ins.todo /\ o = ins.owner
        BY <2>1, <2>4, <3>2 DEF PagesStay
      <4> QED BY <1>1, <4>1, TargetAbove
    <3> QED BY <3>1, <3>2
  <2>5. \A o \in Rest(k, M) : Holds(R, o)'
    BY <1>3, <1>6, <2>1 DEF Holds
  <2> QED BY <1>6, <2>2, <2>3, <2>4, <2>5 DEF OnChain
<1>7. CASE k.at = NoBlock
  BY <1>1, <1>2, <1>4, <1>7 DEF Position
<1>8. CASE k.at # NoBlock
  <2>1. \/ OnEntry(t, k) /\ Rest(k, M) \subseteq {dict[t].second}
        \/ \E R \in SUBSET Block : OnChain(t, k, R) /\ \A o \in Rest(k, M) : Holds(R, o)
    BY <1>8 DEF Position
  <2>2. \/ OnEntry(t, k)' /\ Rest(k, M) \subseteq {dict'[t].second}
        \/ \E R \in SUBSET Block : OnChain(t, k, R)' /\ \A o \in Rest(k, M) : Holds(R, o)'
    BY <1>5, <1>6, <1>8, <2>1
  <2> QED BY <1>1, <1>2, <1>4, <1>8, <2>2 DEF Position
<1> QED BY <1>7, <1>8
-----------------------------------------------------------------------------
(* Batches *)

(* A place from where less is to come *)
LEMMA PositionLess ==
  ASSUME NEW t, NEW k, NEW M, NEW N \in SUBSET M, Position(t, k, M)
  PROVE  Position(t, k, N)
<1>1. Rest(k, N) \subseteq Rest(k, M)
  BY DEF Rest
<1> QED BY <1>1 DEF Position

(* The page a place is at *)
LEMMA PlaceOf ==
  ASSUME StoreInv, NEW t \in Term, NEW k, NEW M, Position(t, k, M), k.at # NoBlock
  PROVE  \/ /\ OnEntry(t, k) /\ Rest(k, M) \subseteq {dict[t].second}
            /\ k.at = k.tail /\ page[k.at].kind = "Dictionary" /\ k.at \in Block
            /\ BatchRefs(t, k.at) = {dict[t].second}
         \/ /\ \E R \in SUBSET Block : OnChain(t, k, R) /\ \A o \in Rest(k, M) : Holds(R, o)
            /\ k.at \in ScanPages(t) /\ page[k.at].kind \in PostingKind /\ page[k.at].term = t
            /\ BatchRefs(t, k.at) = page[k.at].refs
            /\ k.at # k.tail => page[k.at].next # NoBlock
<1>1. dict[t].page # NoBlock
  BY DEF Position
<1>2. CASE OnEntry(t, k) /\ Rest(k, M) \subseteq {dict[t].second}
  <2>1. k.at = dict[t].page /\ k.at = k.tail /\ page[k.at].kind = "Dictionary"
    BY <1>1, <1>2, TermEntry DEF OnEntry
  <2>2. k.at \in Block
    BY <2>1, TermEntry DEF TermRecord, BlockOrNone
  <2> QED BY <1>2, <2>1, <2>2 DEF BatchRefs
<1>3. ASSUME NEW R \in SUBSET Block, OnChain(t, k, R)
      PROVE  /\ k.at \in ScanPages(t) /\ page[k.at].kind \in PostingKind /\ page[k.at].term = t
             /\ BatchRefs(t, k.at) = page[k.at].refs
             /\ k.at # k.tail => page[k.at].next # NoBlock
  <2>1. k.at \in ScanPages(t) /\ (k.at # k.tail => page[k.at].next # NoBlock)
    BY <1>3, CutFacts
  <2>2. page[k.at].kind \in PostingKind /\ page[k.at].term = t
    BY <2>1, PlaceFacts
  <2>3. BatchRefs(t, k.at) = page[k.at].refs
    BY <2>2 DEF BatchRefs, PostingKind
  <2> QED BY <2>1, <2>2, <2>3
<1>4. \/ OnEntry(t, k) /\ Rest(k, M) \subseteq {dict[t].second}
      \/ \E R \in SUBSET Block : OnChain(t, k, R) /\ \A o \in Rest(k, M) : Holds(R, o)
  BY DEF Position
<1> QED BY <1>2, <1>3, <1>4

(* The writers beside a scan keep what it has prepared. *)
LEMMA BatchKept ==
  ASSUME StoreInv, NEW t \in Term, PagesStay(t), EntryStays(t), DictStays, must' = must,
         \A o \in must : owner[o].pub = "Published",
         NEW k, NEW refs, NEW next, Position(t, k, {}), BatchOf(t, k, refs, next)
  PROVE  BatchOf(t, k, refs, next)'
<1>1. CASE k.kind = "first"
  BY <1>1 DEF BatchOf
<1>2. CASE k.kind # "first"
  <2>1. k.kind = "chain" /\ k.at # NoBlock
    BY <1>2 DEF Position, WorkRecord
  <2>2. /\ refs \subseteq BatchRefs(t, k.at) /\ must \cap BatchRefs(t, k.at) \subseteq refs
        /\ IF k.at = k.tail THEN next = NoWork
           ELSE /\ refs = page[k.at].refs
                /\ next = [k EXCEPT !.at = page[k.at].next, !.left = k.left - 1,
                                    !.previous = next.previous]
                /\ next.previous \in refs /\ \A o \in refs : o <= next.previous
    BY <1>2 DEF BatchOf
  <2>3. CASE OnEntry(t, k) /\ page[k.at].kind = "Dictionary" /\ k.at \in Block
             /\ BatchRefs(t, k.at) = {dict[t].second} /\ k.at = k.tail
    <3>1. BatchRefs(t, k.at)' = BatchRefs(t, k.at)
      BY <2>3 DEF BatchRefs, DictStays, EntryStays, OnEntry
    <3> QED BY <1>2, <2>2, <2>3, <3>1 DEF BatchOf
  <2>4. CASE /\ k.at \in ScanPages(t) /\ BatchRefs(t, k.at) = page[k.at].refs
             /\ k.at # k.tail => page[k.at].next # NoBlock
    <3>1. BatchRefs(t, k.at)' = page'[k.at].refs
      BY <2>4 DEF PagesStay, ScanPages, Postings, Posts, PostingKind, BatchRefs
    <3>2. page[k.at].refs \subseteq page'[k.at].refs
      BY <2>4 DEF PagesStay
    <3>3. ASSUME NEW o \in must, o \in page'[k.at].refs PROVE o \in refs
      <4>1. CASE o \in page[k.at].refs
        BY <2>2, <2>4, <3>3, <4>1
      <4>2. CASE o \notin page[k.at].refs
        <5>1. pc = "link" /\ t \in ins.todo /\ o = ins.owner
          BY <2>4, <3>3, <4>2 DEF PagesStay
        <5> QED BY <5>1, TargetAbove
      <4> QED BY <4>1, <4>2
    <3>4. k.at # k.tail => page'[k.at].next = page[k.at].next /\ page'[k.at].refs = page[k.at].refs
      BY <2>4 DEF PagesStay
    <3> QED BY <1>2, <2>2, <2>4, <3>1, <3>2, <3>3, <3>4 DEF BatchOf
  <2> QED BY <2>1, <2>3, <2>4, PlaceOf
<1> QED BY <1>1, <1>2

(* The place behind a page that is not the last *)
LEMMA ChainAdvances ==
  ASSUME StoreInv, NEW t \in Term, NEW k, NEW M \in SUBSET must, Position(t, k, M), NEW refs, NEW next,
         BatchOf(t, k, refs, next), k.kind = "chain", k.at # k.tail,
         NEW R \in SUBSET Block, OnChain(t, k, R), \A o \in M : Holds(R, o)
  PROVE  /\ Position(t, next, M \ refs) /\ next.kind = "chain"
         /\ k.previous <= next.previous /\ \A o \in refs : o <= next.previous
<1>1. /\ k \in WorkRecord /\ dict[t].page # NoBlock /\ k.at # NoBlock
  BY DEF Position
<1>2. /\ k.at \in R /\ k.tail \in R /\ R \subseteq ScanPages(t)
      /\ page[k.at].next \in R /\ page[k.at].next # NoBlock
  BY <1>1, CutFacts
<1>3. PICK l, n, Q : l = page[k.at].next /\ n = next.previous /\ Q = R \ {k.at}
  OBVIOUS
<1>4. /\ refs = page[k.at].refs /\ n \in refs /\ \A o \in refs : o <= n
      /\ next = [k EXCEPT !.at = l, !.left = k.left - 1, !.previous = n]
  BY <1>3 DEF BatchOf
<1>5. /\ next.at = l /\ next.left = k.left - 1 /\ next.previous = n /\ next.kind = "chain"
      /\ next.limit = k.limit /\ next.tail = k.tail
  BY <1>1, <1>4 DEF WorkRecord
<1>6. \A o \in refs : Refers(t, o) /\ o \in Owner /\ k.previous < o
  BY <1>2, <1>4, PlaceFacts DEF OnChain, Refers
<1>7. \A o \in page[l].refs : n < o
  BY <1>2, <1>3, <1>4, PlaceFacts
<1>8. Chained(Cut(k.tail), Q, l, k.tail)
  <2>1. PICK c : c = Cut(k.tail)
    OBVIOUS
  <2>2. 0 \notin R /\ k.at # 0 /\ Chained(c, R, k.at, k.tail) /\ c[k.at] = l
    BY <1>1, <1>2, <1>3, <2>1, PlaceFacts DEF OnChain, Cut
  <2>3. Chained(c, R \ {k.at}, c[k.at], IF k.at = k.tail THEN 0 ELSE k.tail)
    BY ONLY <2>2, ChainedPop
  <2> QED BY <1>3, <2>1, <2>2, <2>3
<1>9. Cardinality(Q) = Cardinality(R) - 1 /\ Cardinality(Q) \in Nat /\ Cardinality(R) \in Nat
  BY <1>2, <1>3, Counted, FS_RemoveElement
<1>10. k.left \in 0 .. (MaxBlocks + 1) /\ Cardinality(R) < k.left
  BY <1>1 DEF WorkRecord, OnChain
<1>11. next \in WorkRecord
  <2>1. l \in BlockOrNone /\ n \in OwnerOrNone /\ k.left - 1 \in 0 .. (MaxBlocks + 1)
    BY <1>2, <1>3, <1>4, <1>6, <1>9, <1>10, BoundAssumption DEF BlockOrNone, OwnerOrNone
  <2> QED BY <1>1, <1>4, <2>1 DEF WorkRecord
<1>12. Cardinality(Q) < next.left
  BY <1>5, <1>9, <1>10, BoundAssumption
<1>13. OnChain(t, next, Q)
  <2>1. \A b \in R : b < k.limit
    BY DEF OnChain
  <2> QED BY <1>2, <1>3, <1>5, <1>7, <1>8, <1>12, <2>1 DEF OnChain
<1>14. \A o \in M \ refs : Holds(Q, o)
  BY <1>3, <1>4 DEF Holds
<1>15. Reached(t, n)
  BY <1>2, <1>4 DEF Reached, Holds
<1>16. Position(t, next, M \ refs)
  <2>1. Rest(next, M \ refs) = M \ refs /\ next.at # NoBlock /\ Q \in SUBSET Block
    BY <1>2, <1>3, <1>5 DEF Rest
  <2> QED BY <1>1, <1>5, <1>11, <1>13, <1>14, <1>15, <2>1 DEF Position
<1>17. k.previous <= n
  BY <1>1, <1>4, <1>6, BoundAssumption DEF WorkRecord, OwnerOrNone, Owner, NoOwner
<1> QED BY <1>4, <1>5, <1>16, <1>17

(* The claim of a batch moves the place behind it: what is not in the      *)
(* batch is still to come.                                                 *)
LEMMA ClaimAdvances ==
  ASSUME StoreInv, NEW t \in Term, NEW k, NEW M \in SUBSET must, Position(t, k, M), NEW refs, NEW next,
         BatchOf(t, k, refs, next)
  PROVE  /\ refs \subseteq Owner
         /\ k.kind = "chain" => \A o \in refs : k.previous < o
         /\ \/ next = NoWork /\ M \subseteq refs
            \/ /\ Position(t, next, M \ refs) /\ next.kind = "chain"
               /\ k.previous <= next.previous /\ \A o \in refs : o <= next.previous
<1>1. /\ k \in WorkRecord /\ k.kind # "done" /\ dict[t].page # NoBlock /\ Reached(t, k.previous)
      /\ k.kind = "first" => k.previous = dict[t].first
      /\ k.kind = "chain" => k.at # NoBlock
  BY DEF Position
<1>2. k.previous \in Owner
  BY <1>1, ReachedRefers DEF Refers
<1>3. CASE k.kind = "first"
  <2>1. refs = {k.previous} /\ Rest(k, M) = M \ {k.previous}
        /\ next = IF k.at = NoBlock THEN NoWork ELSE [k EXCEPT !.kind = "chain"]
    BY <1>3 DEF BatchOf, Rest
  <2>2. CASE k.at = NoBlock
    BY <1>2, <1>3, <2>1, <2>2 DEF Position
  <2>3. CASE k.at # NoBlock
    <3>1. /\ next \in WorkRecord /\ next.kind = "chain" /\ next.at = k.at /\ next.tail = k.tail
          /\ next.left = k.left /\ next.limit = k.limit /\ next.previous = k.previous
      BY <1>1, <2>1, <2>3 DEF WorkRecord
    <3>2. Rest(next, M \ refs) = Rest(k, M)
      BY <2>1, <3>1 DEF Rest
    <3>3. OnEntry(t, k) => OnEntry(t, next)
      BY <3>1 DEF OnEntry
    <3>4. \A R \in SUBSET Block : OnChain(t, k, R) => OnChain(t, next, R)
      BY <3>1 DEF OnChain
    <3>5. Position(t, next, M \ refs)
      BY <1>1, <2>3, <3>1, <3>2, <3>3, <3>4 DEF Position
    <3> QED BY <1>2, <1>3, <2>1, <3>1, <3>5 DEF Owner
  <2> QED BY <2>2, <2>3
<1>4. CASE k.kind = "chain"
  <2>1. Rest(k, M) = M /\ k.at # NoBlock
    BY <1>1, <1>4 DEF Rest
  <2>2. /\ refs \subseteq BatchRefs(t, k.at) /\ must \cap BatchRefs(t, k.at) \subseteq refs
        /\ k.at = k.tail => next = NoWork
    BY <1>4 DEF BatchOf
  <2>3. CASE OnEntry(t, k) /\ M \subseteq {dict[t].second} /\ k.at = k.tail
             /\ BatchRefs(t, k.at) = {dict[t].second}
    BY <1>4, <2>2, <2>3 DEF OnEntry
  <2>4. ASSUME NEW R \in SUBSET Block, OnChain(t, k, R), \A o \in M : Holds(R, o),
               k.at \in ScanPages(t), BatchRefs(t, k.at) = page[k.at].refs
        PROVE  /\ refs \subseteq Owner /\ \A o \in refs : k.previous < o
               /\ \/ next = NoWork /\ M \subseteq refs
                  \/ /\ Position(t, next, M \ refs) /\ next.kind = "chain"
                     /\ k.previous <= next.previous /\ \A o \in refs : o <= next.previous
    <3>1. refs \subseteq Owner /\ \A o \in refs : k.previous < o
      BY <2>2, <2>4, PlaceFacts DEF OnChain, Refers
    <3>2. CASE k.at = k.tail
      <4>1. R \ {k.at} = {}
        <5>1. PICK c : c = Cut(k.tail)
          OBVIOUS
        <5>2. 0 \notin R /\ k.at # 0 /\ Chained(c, R, k.at, k.tail)
          BY <2>1, <2>4, <5>1, PlaceFacts DEF OnChain
        <5>3. /\ k.at = k.tail => R \ {k.at} = {} /\ c[k.at] = 0
              /\ Chained(c, R \ {k.at}, c[k.at], IF k.at = k.tail THEN 0 ELSE k.tail)
          BY ONLY <5>2, ChainedPop
        <5> QED BY <3>2, <5>3
      <4>2. \A o \in M : o \in page[k.at].refs
        BY <2>4, <4>1 DEF Holds
      <4>3. M \subseteq refs
        BY <2>2, <2>4, <4>2
      <4> QED BY <2>2, <3>1, <3>2, <4>3
    <3>3. CASE k.at # k.tail
      BY <1>4, <2>4, <3>1, <3>3, ChainAdvances
    <3> QED BY <3>2, <3>3
  <2>5. \/ OnEntry(t, k) /\ M \subseteq {dict[t].second} /\ k.at = k.tail
           /\ BatchRefs(t, k.at) = {dict[t].second}
        \/ (\E R \in SUBSET Block : OnChain(t, k, R) /\ \A o \in M : Holds(R, o))
           /\ k.at \in ScanPages(t) /\ BatchRefs(t, k.at) = page[k.at].refs
    BY <2>1, PlaceOf
  <2> QED BY <1>4, <2>3, <2>4, <2>5
<1> QED BY <1>1, <1>3, <1>4 DEF WorkRecord

(* prepare() makes a batch of what the words mean. *)
LEMMA BatchMade ==
  ASSUME StoreInv, NEW M, scan.term \in Term, Position(scan.term, work, M)
  PROVE  BatchOf(scan.term, work,
                 IF work.kind = "first" THEN {work.previous} ELSE PostingRefs(work.at), Successor)
<1>1. CASE work.kind = "first"
  BY <1>1 DEF BatchOf, Successor
<1>2. CASE work.kind # "first"
  <2>1. work \in WorkRecord /\ work.kind = "chain" /\ work.at # NoBlock
    BY <1>2 DEF Position, WorkRecord
  <2>2. PICK B : B = PostingRefs(work.at)
    OBVIOUS
  <2>3. B = BatchRefs(scan.term, work.at)
    BY <2>2 DEF PostingRefs, BatchRefs
  <2>4. CASE work.at = work.tail
    BY <1>2, <2>2, <2>3, <2>4 DEF BatchOf, Successor
  <2>5. CASE work.at # work.tail
    <3>1. work.at \in ScanPages(scan.term) /\ B = page[work.at].refs
      BY <2>1, <2>3, <2>5, PlaceOf
    <3>2. B \subseteq Owner /\ B # {}
      BY <3>1, PlaceFacts DEF Refers
    <3>3. PICK n : n = LastRef(B)
      OBVIOUS
    <3>4. n \in B /\ \A p \in B : p <= n
      <4>1. n = CHOOSE o \in B : \A p \in B : p <= o
        BY <3>2, <3>3 DEF LastRef
      <4>2. \E o \in B : \A p \in B : p <= o
        BY <3>2, LastIs
      <4> QED BY <4>1, <4>2
    <3>5. Successor = [work EXCEPT !.at = page[work.at].next, !.left = work.left - 1, !.previous = n]
      BY <1>2, <2>2, <2>5, <3>3 DEF Successor
    <3>6. Successor.previous = n
      BY <2>1, <3>5 DEF WorkRecord
    <3> QED BY <1>2, <2>2, <2>3, <2>5, <3>1, <3>4, <3>5, <3>6 DEF BatchOf
  <2> QED BY <2>4, <2>5
<1> QED BY <1>1, <1>2
-----------------------------------------------------------------------------
(* Capture *)

(* The place that capture() publishes *)
LEMMA CapturedPlace ==
  ASSUME StoreInv, NEW t \in Term, dict[t].page # NoBlock, NEW n \in 1 .. (MaxBlocks + 1),
         \A b \in ScanPages(t) : b < n \/ (dict[t].inline # 1 /\ n <= dict[t].tail),
         dict[t].head # NoBlock => dict[t].tail < n,
         NEW M, \A o \in M : o \in Owner /\ Live(o) /\ t \in owner[o].doc.terms,
         NEW k, k = [kind |-> "first", at |-> dict[t].head, tail |-> dict[t].tail,
                     left |-> n, limit |-> n, previous |-> dict[t].first]
  PROVE  Position(t, k, M)
<1>1. /\ dict[t] \in TermRecord /\ EntryValid(dict[t]) /\ Refers(t, dict[t].first)
      /\ dict[t].inline = 1 =>
           ScanPages(t) = {} /\ Refers(t, dict[t].second) /\ dict[t].first < dict[t].second
  BY TermEntry
<1>2. /\ k.kind = "first" /\ k.at = dict[t].head /\ k.tail = dict[t].tail /\ k.left = n
      /\ k.limit = n /\ k.previous = dict[t].first
  OBVIOUS
<1>3. k \in WorkRecord
  BY <1>1, BoundAssumption DEF WorkRecord, TermRecord
<1>4. Reached(t, k.previous)
  BY <1>2 DEF Reached
<1>5. \A o \in M : \/ o = dict[t].first \/ (dict[t].inline = 1 /\ o = dict[t].second)
                   \/ Holds(ScanPages(t), o)
  BY TermHas
<1>6. Rest(k, M) = M \ {dict[t].first}
  BY <1>2 DEF Rest
<1>7. PICK P, h, l : P = ScanPages(t) /\ h = dict[t].head /\ l = dict[t].tail
  OBVIOUS
<1>8. P \subseteq Block /\ 0 \notin P /\ NoBlock = 0
  BY <1>7, PlaceFacts
<1>9. dict[t].inline # 1 => Chained(Link, P, h, l)
  BY <1>7, TermEntry
<1>10. CASE h = NoBlock
  <2>1. dict[t].inline # 1
    BY <1>1, <1>7, <1>10 DEF EntryValid
  <2>2. P = {}
    BY <1>8, <1>9, <1>10, <2>1, ChainedFacts
  <2>3. Rest(k, M) = {}
    BY <1>5, <1>6, <1>7, <2>1, <2>2 DEF Holds
  <2> QED BY <1>2, <1>3, <1>4, <1>7, <1>10, <2>3 DEF Position
<1>11. CASE h # NoBlock /\ dict[t].inline = 1
  <2>1. OnEntry(t, k)
    BY <1>1, <1>2, <1>11 DEF OnEntry, EntryValid, Refers
  <2>2. Rest(k, M) \subseteq {dict[t].second}
    BY <1>1, <1>5, <1>6, <1>11 DEF Holds
  <2> QED BY <1>2, <1>3, <1>4, <1>7, <1>11, <2>1, <2>2 DEF Position
<1>12. CASE h # NoBlock /\ dict[t].inline # 1
  <2>1. \A b \in P : b < n
    BY <1>1, <1>7, <1>8, <1>12, BoundAssumption DEF TermRecord, BlockOrNone, Block
  <2>2. h \in P /\ l \in P /\ Link[l] = 0
    BY <1>8, <1>9, <1>12, ChainedFacts
  <2>3. Chained(Cut(l), P, h, l)
    <3>1. PICK c, d : c = Link /\ d = Cut(l)
      OBVIOUS
    <3>2. \A b \in P : d[b] = c[b]
      BY <1>8, <2>2, <3>1 DEF Link, Cut
    <3>3. Chained(c, P, h, l)
      BY <1>9, <1>12, <3>1
    <3>4. Chained(d, P, h, l)
      BY ONLY <3>2, <3>3, ChainedSame
    <3> QED BY <3>1, <3>4
  <2>4. Cardinality(P) < n
    <3>1. P \subseteq 1 .. (n - 1)
      BY <1>8, <2>1, BoundAssumption DEF Block
    <3>2. IsFiniteSet(1 .. (n - 1)) /\ Cardinality(1 .. (n - 1)) <= n - 1
      BY FS_Interval
    <3>3. Cardinality(P) <= Cardinality(1 .. (n - 1)) /\ Cardinality(P) \in Nat
          /\ Cardinality(1 .. (n - 1)) \in Nat
      BY <3>1, <3>2, FS_Subset, FS_CardinalityType
    <3> QED BY <3>2, <3>3
  <2>5. \A o \in page[h].refs : dict[t].first < o
    BY <1>7, <2>2, PlaceFacts
  <2>6. OnChain(t, k, P)
    BY <1>2, <1>7, <1>8, <2>1, <2>3, <2>4, <2>5 DEF OnChain
  <2>7. \A o \in Rest(k, M) : Holds(P, o)
    BY <1>5, <1>6, <1>7, <1>12
  <2> QED BY <1>2, <1>3, <1>4, <1>7, <1>8, <1>12, <2>6, <2>7 DEF Position
<1> QED BY <1>10, <1>11, <1>12

-----------------------------------------------------------------------------
(* What stays when others move *)

(* The writers beside the holders of the barrier *)
LEMMA ScanBeside ==
  ASSUME ScanInv, StoreInv', [Next]_vars, holds # {}, scan.stage # "closed", NEW t, t = scan.term
  PROVE  t \in Term /\ PagesStay(t) /\ EntryStays(t) /\ DictStays
<1>1. StoreInv /\ CompactStages /\ ~CompactHolds /\ t \in Term
  BY DEF ScanInv, BarrierSound
<1>2. DictStays
  BY <1>1, DictStaysStep DEF StoreInv
<1>3. NoRewrite
  BY <1>1 DEF NoRewrite, CompactStages, CompactHolds, CompactInline, Visit
<1> QED BY <1>1, <1>2, <1>3, TermStays

(* Nothing that was live when the scan opened comes alive again. *)
LEMMA MustLive ==
  ASSUME ScanInv, [Next]_vars, NEW o \in must, Live(o)'
  PROVE  Live(o)
<1>1. o \in Owner /\ owner[o].pub = "Published" /\ StoreOK
  BY DEF ScanInv, MustSound, StoreInv
<1>2. Publish => owner[ins.owner].pub = "FragmentsWritten"
  BY DEF Publish, CanChange
<1> QED BY <1>1, <1>2, SlotFacts DEF StoreOK

(* The shared words, where they are or will be *)
LEMMA PlaceKept ==
  ASSUME ScanInv, StoreInv', [Next]_vars, holds # {}, scan.stage # "closed", scan'.term = scan.term,
         NEW k, k = work', NEW N, \A t \in {scan.term} : k.kind # "done" => Position(t, k, N),
         Outstanding' \subseteq N
  PROVE  \A t \in {scan'.term}, l \in {work'}, M \in {Outstanding'} :
           l.kind # "done" => Position(t, l, M)'
<1>1. PICK t, M : t = scan.term /\ M = Outstanding'
  OBVIOUS
<1>2. t \in Term /\ PagesStay(t) /\ EntryStays(t) /\ StoreInv
  BY <1>1, ScanBeside DEF ScanInv
<1>3. ASSUME k.kind # "done" PROVE Position(t, k, M)'
  <2>1. Position(t, k, N) /\ M \in SUBSET N
    BY <1>1, <1>3
  <2>2. Position(t, k, M)
    BY <2>1, PositionLess
  <2> QED BY <1>2, <2>2, PositionKept
<1>4. scan'.term = t /\ work' = k /\ Outstanding' = M
  BY <1>1
<1> QED BY <1>3, <1>4

(* A prepared batch *)
LEMMA PreparedKept ==
  ASSUME ScanInv, StoreInv', [Next]_vars, scan'.term = scan.term, must' = must,
         NEW w \in Worker, wk'[w] = wk[w] \/ wk'[w].stage # "prepared"
  PROVE  \A t \in {scan'.term}, p \in {wk'[w]} :
           p.stage = "prepared" => Position(t, p.seen, {})' /\ BatchOf(t, p.seen, p.refs, p.next)'
<1> SUFFICES ASSUME wk'[w].stage = "prepared"
             PROVE  \A t \in {scan'.term}, p \in {wk'[w]} :
                      Position(t, p.seen, {})' /\ BatchOf(t, p.seen, p.refs, p.next)'
  OBVIOUS
<1>1. PICK t, p : t = scan.term /\ p = wk[w]
  OBVIOUS
<1>2. p.stage = "prepared" /\ scan'.term = t /\ wk'[w] = p
  BY <1>1
<1>3. holds # {} /\ scan.stage = "ready"
  BY <1>1, <1>2 DEF ScanInv, BarrierSound
<1>4. t \in Term /\ PagesStay(t) /\ EntryStays(t) /\ DictStays /\ StoreInv
  BY <1>1, <1>3, ScanBeside DEF ScanInv
<1>5. Position(t, p.seen, {}) /\ BatchOf(t, p.seen, p.refs, p.next)
  BY <1>1, <1>2 DEF ScanInv, PreparedSound
<1>6. \A o \in must : owner[o].pub = "Published"
  BY DEF ScanInv, MustSound
<1>7. Position(t, p.seen, {})'
  BY <1>4, <1>5, PositionKept
<1>8. BatchOf(t, p.seen, p.refs, p.next)'
  BY <1>4, <1>5, <1>6, BatchKept
<1> QED BY <1>2, <1>7, <1>8

(* What was live when the scan opened *)
LEMMA MustKept ==
  ASSUME ScanInv, [Next]_vars, NEW o \in must, NEW t, t \in owner[o].doc.terms
  PROVE  owner'[o].pub = "Published" /\ t \in owner'[o].doc.terms
<1>1. o \in Owner /\ owner[o].pub = "Published" /\ StoreOK
  BY DEF ScanInv, MustSound, StoreInv
<1> QED BY <1>1, PublishedStep, SlotStep DEF StoreOK, SlotKept

(* All that is said of the scan *)
ScanSound ==
  /\ ScanTypeOK /\ BarrierSound /\ LimitSound /\ MustSound
  /\ WorkSound /\ PreparedSound /\ EmittedOnce

-----------------------------------------------------------------------------
(* The writers *)

(* An entry with pages is no inline entry. *)
LEMMA PagesApart ==
  StoreInv => \A t \in Term : ScanPages(t) # {} => dict[t].inline # 1
BY PlaceFacts

(* And so it is afterwards. *)
LEMMA PagesApartNext ==
  (StoreInv => \A t \in Term : ScanPages(t) # {} => dict[t].inline # 1)'
BY PagesApart, PTL

(* A chain that grows between the two halves of capture() *)
LEMMA LimitKept ==
  ASSUME ScanInv, StoreInv', [Next]_vars, UNCHANGED scanVars
  PROVE  LimitSound'
<1> SUFFICES ASSUME scan.stage = "limited" PROVE LimitSound'
  BY DEF LimitSound, scanVars
<1>1. PICK t, n : t = scan.term /\ n = scan.limit
  OBVIOUS
<1>2. /\ StoreInv /\ n \in 1 .. (MaxBlocks + 1) /\ holds # {}
      /\ \A b \in ScanPages(t) : b < n \/ (dict[t].inline # 1 /\ n <= dict[t].tail)
  BY <1>1 DEF ScanInv, LimitSound, BarrierSound
<1>3. t \in Term /\ PagesStay(t) /\ EntryStays(t)
  BY <1>1, <1>2, ScanBeside
<1>4. dict[t].tail \in BlockOrNone /\ dict[t].tail <= size /\ size \in 0 .. MaxBlocks
  BY <1>2, <1>3, WrittenInside DEF StoreInv, StoreOK, TypeOK, NamesWritten, TermRecord
<1>5. ASSUME NEW b \in ScanPages(t)'
      PROVE  b < n \/ (dict'[t].inline # 1 /\ n <= dict'[t].tail)
  <2>1. dict'[t].inline # 1
    BY <1>3, <1>5, PagesApartNext
  <2>2. dict'[t].tail = dict[t].tail \/ dict'[t].tail = size
    BY <1>3, <2>1 DEF EntryStays
  <2>3. CASE b \in ScanPages(t)
    <3>1. b < n \/ n <= dict[t].tail
      BY <1>2, <2>3
    <3> QED BY <1>2, <1>4, <2>1, <2>2, <3>1, BoundAssumption DEF BlockOrNone, Block, NoBlock
  <2>4. CASE b \notin ScanPages(t)
    <3>1. b = dict'[t].tail
      BY <1>3, <1>5, <2>4 DEF PagesStay
    <3> QED BY <1>2, <1>4, <2>1, <2>2, <3>1, BoundAssumption DEF BlockOrNone, Block, NoBlock
  <2> QED BY <2>3, <2>4
<1>6. scan' = scan /\ scan'.term = t /\ scan'.limit = n
  BY <1>1 DEF scanVars
<1> QED BY <1>2, <1>5, <1>6 DEF LimitSound

(* The writers leave a scan sound. *)
LEMMA WritersKeep ==
  ASSUME ScanInv, StoreInv', WriterStep \/ UNCHANGED vars, UNCHANGED scanVars
  PROVE  CompactStages' /\ ScanSound'
<1>0. [Next]_vars
  BY DEF WriterStep, Next
<1>1. /\ scan' = scan /\ work' = work /\ wk' = wk /\ holds' = holds /\ emitted' = emitted
      /\ must' = must
  BY DEF scanVars
<1>2. /\ StoreInv /\ TypeOK /\ CompactStages /\ ScanTypeOK /\ BarrierSound /\ MustSound /\ WorkSound
      /\ EmittedOnce
  BY DEF ScanInv, StoreInv, StoreOK
<1>3. CompactStages' /\ (holds # {} => ~CompactHolds')
  BY <1>2, BarrierKept DEF BarrierSound
<1>4. BarrierSound'
  BY <1>1, <1>2, <1>3 DEF BarrierSound
<1>5. LimitSound'
  BY <1>0, LimitKept
<1>6. MustSound'
  <2>1. \A o \in must : owner'[o].pub = "Published" /\ scan.term \in owner'[o].doc.terms
    BY <1>0, <1>2, MustKept DEF MustSound
  <2>2. PICK t : t = scan.term
    OBVIOUS
  <2>3. scan.stage \in {"opened", "limited"} /\ dict[t].page # NoBlock => dict'[t].page = dict[t].page
    BY <1>0, <1>2, <2>2, ScanBeside DEF BarrierSound, EntryStays
  <2>4. scan.stage = "limited" /\ must # {} => dict[t].page # NoBlock
    BY <1>2, <2>2, BoundAssumption DEF MustSound, NoBlock
  <2> QED BY <1>1, <1>2, <2>1, <2>2, <2>3, <2>4 DEF MustSound
<1>7. Outstanding' \subseteq Outstanding
  BY <1>0, <1>1, MustLive DEF Outstanding
<1>8. ASSUME scan.stage = "ready"
      PROVE  \A t \in {scan'.term}, k \in {work'}, M \in {Outstanding'} :
               k.kind # "done" => Position(t, k, M)'
  <2>1. PICK k, N : k = work' /\ N = Outstanding
    OBVIOUS
  <2>2. CASE k.kind # "done"
    <3>1. holds # {} /\ \A t \in {scan.term} : Position(t, k, N)
      BY <1>1, <1>2, <1>8, <2>1, <2>2 DEF BarrierSound, WorkSound
    <3> QED BY <1>0, <1>1, <1>7, <1>8, <2>1, <3>1, PlaceKept
  <2> QED BY <2>1, <2>2
<1>9. WorkSound'
  <2>1. scan.stage = "ready" =>
          /\ work.kind = "done" => Outstanding = {}
          /\ work.kind = "first" => emitted = {} /\ \A w \in Worker : wk[w].stage # "claimed"
          /\ work.kind = "chain" =>
               /\ \A o \in emitted : o <= work.previous
               /\ \A w \in Worker : wk[w].stage = "claimed" =>
                    \A o \in wk[w].refs : o <= work.previous
    BY <1>2 DEF WorkSound
  <2> QED BY <1>1, <1>7, <1>8, <2>1 DEF WorkSound
<1>10. PreparedSound'
  BY <1>0, <1>1, PreparedKept DEF PreparedSound
<1>11. ScanTypeOK' /\ EmittedOnce'
  BY <1>1, <1>2 DEF ScanTypeOK, EmittedOnce
<1> QED BY <1>3, <1>4, <1>5, <1>6, <1>9, <1>10, <1>11 DEF ScanSound
-----------------------------------------------------------------------------
(* The scan itself *)

(* What the scan reads is what it was. *)
LEMMA ReadsSame ==
  ASSUME UNCHANGED vars
  PROVE  /\ page' = page /\ dict' = dict /\ owner' = owner /\ meta' = meta /\ size' = size
         /\ CompactHolds' = CompactHolds /\ (\A o : Live(o)' = Live(o))
         /\ \A t : ScanPages(t)' = ScanPages(t)
<1>1. page' = page /\ dict' = dict /\ owner' = owner /\ meta' = meta /\ size' = size /\ cpt' = cpt
  BY DEF vars
<1>2. JournalChain' = JournalChain
  BY <1>1 DEF JournalChain, Chain, Walk
<1>3. \A t : ScanPages(t)' = ScanPages(t)
  BY <1>1, <1>2 DEF ScanPages, Postings, Posts
<1> QED BY <1>1, <1>3 DEF CompactHolds, Live

(* Where nobody has prepared or claimed a batch *)
LEMMA IdleSound ==
  ASSUME \A w \in Worker : wk'[w].stage = "idle"
  PROVE  PreparedSound' /\ EmittedOnce'
BY DEF PreparedSound, EmittedOnce

(* The beginning *)
LEMMA OpenSound ==
  ASSUME ScanInv, UNCHANGED vars, NEW t \in Term, ScanOpen(t)
  PROVE  ScanSound'
<1>1. /\ StoreInv /\ ScanTypeOK /\ BarrierSound /\ scan.stage = "closed"
      /\ ~CompactHolds /\ holds' = {Leader} /\ emitted' = {} /\ must' = LiveOwners(t)
      /\ work' = work /\ wk' = wk /\ Leader \in Worker
  BY WorkerAssumption DEF ScanInv, ScanOpen
<1>2. /\ scan' = [stage |-> "opened", term |-> t, limit |-> 0, dictTail |-> NoBlock]
      /\ scan'.stage = "opened" /\ scan'.term = t
  BY DEF ScanOpen, NoScan
<1>3. \A w \in Worker : wk[w].stage = "idle"
  BY <1>1 DEF BarrierSound
<1>4. ScanTypeOK'
  BY <1>1, <1>2 DEF ScanTypeOK
<1>5. BarrierSound'
  <2>1. scan' \in ScanRecord
    BY <1>2, BoundAssumption DEF ScanRecord, BlockOrNone
  <2> QED BY <1>1, <1>2, <1>3, <2>1, ReadsSame DEF BarrierSound
<1>6. MustSound'
  <2>1. \A o \in LiveOwners(t) : /\ o \in Owner /\ owner[o].pub = "Published"
                                 /\ t \in owner[o].doc.terms /\ dict[t].page # NoBlock
    BY <1>1, TermHas DEF LiveOwners, Live, Refers
  <2>2. PICK L : L = LiveOwners(t)
    OBVIOUS
  <2>3. must' = L
    BY <1>1, <2>2
  <2>4. \A o \in L : /\ o \in Owner /\ owner'[o].pub = "Published"
                     /\ t \in owner'[o].doc.terms /\ dict'[t].page # NoBlock
    BY <2>1, <2>2, ReadsSame
  <2> QED BY <1>2, <2>3, <2>4 DEF MustSound
<1>7. LimitSound' /\ WorkSound'
  BY <1>2 DEF LimitSound, WorkSound
<1>8. PreparedSound' /\ EmittedOnce'
  BY <1>1, <1>3, IdleSound
<1> QED BY <1>4, <1>5, <1>6, <1>7, <1>8 DEF ScanSound

(* The first half of capture() *)
LEMMA LimitTaken ==
  ASSUME ScanInv, UNCHANGED vars, CaptureLimit
  PROVE  ScanSound'
<1>1. /\ StoreInv /\ DictBelow /\ ScanTypeOK /\ BarrierSound /\ MustSound /\ scan.stage = "opened"
      /\ work' = work /\ wk' = wk /\ holds' = holds /\ emitted' = emitted /\ must' = must
  BY DEF ScanInv, CaptureLimit
<1>2. PICK t, n : t = scan.term /\ n = size + 1
  OBVIOUS
<1>3. t \in Term /\ scan \in ScanRecord /\ holds # {} /\ emitted = {}
  BY <1>1, <1>2 DEF BarrierSound
<1>4. scan' = [scan EXCEPT !.stage = "limited", !.limit = n, !.dictTail = meta.dictTail]
  BY <1>2 DEF CaptureLimit
<1>5. /\ scan'.stage = "limited" /\ scan'.term = t /\ scan'.limit = n
      /\ scan'.dictTail = meta.dictTail
  BY <1>2, <1>3, <1>4 DEF ScanRecord
<1>6. size \in 0 .. MaxBlocks /\ meta.dictTail \in BlockOrNone /\ n \in 1 .. (MaxBlocks + 1)
  BY <1>1, <1>2, BoundAssumption DEF StoreInv, StoreOK, TypeOK, MetaRecord
<1>7. \A w \in Worker : wk[w].stage = "idle"
  BY <1>1 DEF BarrierSound
<1>8. ScanTypeOK'
  BY <1>1, <1>5 DEF ScanTypeOK
<1>9. BarrierSound'
  <2>0. n \in 0 .. (MaxBlocks + 1)
    BY <1>6, BoundAssumption
  <2>1. scan' \in ScanRecord
    BY <1>3, <1>4, <1>6, <2>0 DEF ScanRecord
  <2> QED BY <1>1, <1>3, <1>5, <1>7, <2>1, ReadsSame DEF BarrierSound
<1>10. LimitSound'
  <2>1. ASSUME NEW b \in ScanPages(t) PROVE b < n
    <3>1. b \in Block /\ page[b].kind \in PostingKind
      BY <1>1, <1>3, <2>1, PlaceFacts
    <3>2. b <= size
      BY <1>1, <3>1, WrittenInside DEF StoreInv, Written, PostingKind, BlockOrNone
    <3> QED BY <1>2, <1>6, <3>1, <3>2, BoundAssumption DEF Block
  <2>2. \A b \in ScanPages(t)' : b < n
    BY <2>1, ReadsSame
  <2> QED BY <1>5, <1>6, <2>2 DEF LimitSound
<1>11. MustSound'
  <2>1. /\ must \subseteq Owner
        /\ \A o \in must : owner[o].pub = "Published" /\ t \in owner[o].doc.terms
        /\ must # {} => dict[t].page # NoBlock
    BY <1>1, <1>2 DEF MustSound
  <2>2. must # {} => dict[t].page \in 1 .. meta.dictTail
    <3>1. dict[t].page \in BlockOrNone /\ dict[t].page <= meta.dictTail
      BY <1>1, <1>3 DEF StoreInv, StoreOK, TypeOK, TermRecord, DictBelow
    <3> QED BY <1>6, <2>1, <3>1, BoundAssumption DEF BlockOrNone, Block, NoBlock
  <2> QED BY <1>1, <1>5, <2>1, <2>2, ReadsSame DEF MustSound
<1>12. WorkSound'
  BY <1>5 DEF WorkSound
<1>13. PreparedSound' /\ EmittedOnce'
  BY <1>1, <1>7, IdleSound
<1> QED BY <1>8, <1>9, <1>10, <1>11, <1>12, <1>13 DEF ScanSound

(* The second half *)
LEMMA CaptureSound ==
  ASSUME ScanInv, StoreInv', UNCHANGED vars, CaptureAbsent \/ CaptureEntry
  PROVE  ScanSound'
<1>0. [Next]_vars
  OBVIOUS
<1>1. /\ StoreInv /\ ScanTypeOK /\ BarrierSound /\ MustSound /\ LimitSound /\ scan.stage = "limited"
      /\ scan' = [scan EXCEPT !.stage = "ready"]
      /\ wk' = wk /\ holds' = holds /\ emitted' = emitted /\ must' = must
  BY DEF ScanInv, CaptureAbsent, CaptureEntry
<1>2. PICK t, k, N : t = scan.term /\ k = work' /\ N = Outstanding'
  OBVIOUS
<1>3. t \in Term /\ scan \in ScanRecord /\ holds # {} /\ emitted = {}
      /\ \A w \in Worker : wk[w].stage = "idle"
  BY <1>1, <1>2 DEF BarrierSound
<1>4. scan' \in ScanRecord /\ scan'.stage = "ready" /\ scan'.term = t
  BY <1>1, <1>2, <1>3 DEF ScanRecord
<1>5. N \subseteq {o \in must : Live(o)}
  BY <1>1, <1>2, ReadsSame DEF Outstanding
<1>6. \/ k = NoWork /\ must = {}
      \/ k.kind = "first" /\ Position(t, k, N)
  <2>1. CASE CaptureAbsent
    <3>1. must = {}
      BY <1>1, <2>1, BoundAssumption DEF MustSound, CaptureAbsent, EntryFound, NoBlock
    <3> QED BY <1>2, <2>1, <3>1 DEF CaptureAbsent
  <2>2. CASE CaptureEntry
    <3>1. PICK n : n = scan.limit
      OBVIOUS
    <3>2. /\ k = [kind |-> "first", at |-> dict[t].head, tail |-> dict[t].tail,
                  left |-> n, limit |-> n, previous |-> dict[t].first]
          /\ dict[t].page \in 1 .. scan.dictTail /\ CaptureValid(dict[t])
      BY <1>2, <2>2, <3>1 DEF CaptureEntry, EntryFound
    <3>3. n \in 1 .. (MaxBlocks + 1)
          /\ \A b \in ScanPages(t) : b < n \/ (dict[t].inline # 1 /\ n <= dict[t].tail)
      BY <1>1, <1>2, <3>1 DEF LimitSound
    <3>4. dict[t].page # NoBlock /\ (dict[t].head # NoBlock => dict[t].tail < n)
      BY <1>3, <3>1, <3>2, BoundAssumption DEF CaptureValid, Inside, NoBlock
    <3>5. \A o \in N : o \in Owner /\ Live(o) /\ t \in owner[o].doc.terms
      BY <1>1, <1>2, <1>5 DEF MustSound
    <3>6. Position(t, k, N)
      BY <1>1, <1>3, <3>2, <3>3, <3>4, <3>5, CapturedPlace
    <3> QED BY <3>2, <3>6
  <2> QED BY <2>1, <2>2
<1>7. k \in WorkRecord
  <2>1. NoWork \in WorkRecord
    BY BoundAssumption DEF NoWork, WorkRecord, BlockOrNone, OwnerOrNone
  <2> QED BY <1>6, <2>1 DEF Position
<1>8. NoWork.kind = "done"
  BY DEF NoWork
<1>9. ScanTypeOK'
  BY <1>1, <1>2, <1>4, <1>7 DEF ScanTypeOK
<1>10. BarrierSound'
  BY <1>1, <1>3, <1>4, ReadsSame DEF BarrierSound
<1>11. LimitSound'
  BY <1>4 DEF LimitSound
<1>12. MustSound'
  BY <1>1, <1>2, <1>4, ReadsSame DEF MustSound
<1>13. \A u \in {scan'.term}, l \in {work'}, M \in {Outstanding'} :
          l.kind # "done" => Position(u, l, M)'
  <2>1. \A u \in {scan.term} : k.kind # "done" => Position(u, k, N)
    BY <1>2, <1>6, <1>8
  <2>2. scan.stage # "closed" /\ scan'.term = scan.term /\ Outstanding' \subseteq N
    BY <1>1, <1>2, <1>4
  <2> QED BY <1>0, <1>2, <1>3, <2>1, <2>2, PlaceKept
<1>14. WorkSound'
  <2>1. work'.kind = "done" => Outstanding' = {}
    BY <1>2, <1>5, <1>6
  <2>2. work'.kind # "chain"
    BY <1>2, <1>6, <1>8
  <2> QED BY <1>1, <1>3, <1>13, <2>1, <2>2 DEF WorkSound
<1>15. PreparedSound' /\ EmittedOnce'
  BY <1>1, <1>3, IdleSound
<1> QED BY <1>9, <1>10, <1>11, <1>12, <1>14, <1>15 DEF ScanSound

(* A refused capture and the ends *)
LEMMA EndSound ==
  ASSUME ScanInv, UNCHANGED vars, CaptureRejected \/ ScanEnd \/ ScanAbort
  PROVE  ScanSound'
<1>1. /\ ScanTypeOK /\ BarrierSound /\ MustSound /\ work' = work /\ wk' = wk
  BY DEF ScanInv, CaptureRejected, ScanEnd, ScanAbort
<1>2. \A w \in Worker : wk[w].stage = "idle"
  BY <1>1 DEF BarrierSound, CaptureRejected, ScanEnd, ScanAbort
<1>3. PreparedSound' /\ EmittedOnce'
  BY <1>1, <1>2, IdleSound
<1>4. CASE CaptureRejected
  <2>1. /\ scan \in ScanRecord /\ scan.term \in Term /\ scan' = [scan EXCEPT !.stage = "rejected"]
        /\ holds' = holds /\ emitted' = emitted /\ must' = must
    BY <1>1, <1>4 DEF BarrierSound, CaptureRejected
  <2>2. scan' \in ScanRecord /\ scan'.stage = "rejected" /\ scan'.term = scan.term
    BY <2>1 DEF ScanRecord
  <2>3. ScanTypeOK'
    BY <1>1, <2>1, <2>2 DEF ScanTypeOK
  <2>4. BarrierSound'
    BY <1>1, <1>2, <2>1, <2>2, ReadsSame DEF BarrierSound
  <2>5. MustSound'
    BY <1>1, <2>1, <2>2, ReadsSame DEF MustSound
  <2>6. LimitSound' /\ WorkSound'
    BY <2>2 DEF LimitSound, WorkSound
  <2> QED BY <1>3, <2>3, <2>4, <2>5, <2>6 DEF ScanSound
<1>5. CASE ScanEnd \/ ScanAbort
  <2>1. scan' = NoScan /\ holds' = {} /\ emitted' = {} /\ must' = {}
    BY <1>5 DEF ScanEnd, ScanAbort
  <2>2. scan' \in ScanRecord /\ scan'.stage = "closed"
    BY <2>1, BoundAssumption DEF NoScan, ScanRecord, BlockOrNone
  <2>3. ScanTypeOK'
    BY <1>1, <2>1, <2>2 DEF ScanTypeOK
  <2>4. BarrierSound'
    BY <1>1, <1>2, <2>1, <2>2 DEF BarrierSound
  <2>5. MustSound' /\ LimitSound' /\ WorkSound'
    BY <2>1, <2>2 DEF MustSound, LimitSound, WorkSound
  <2> QED BY <1>3, <2>3, <2>4, <2>5 DEF ScanSound
<1> QED BY <1>4, <1>5

(* What a participant's step leaves alone *)
LEMMA ParticipantsKeep ==
  ASSUME ScanInv, UNCHANGED vars, scan.stage = "ready", UNCHANGED <<scan, must>>
  PROVE  LimitSound' /\ MustSound'
<1>1. MustSound /\ scan' = scan /\ must' = must
  BY DEF ScanInv
<1> QED BY <1>1, ReadsSame DEF LimitSound, MustSound

(* Join and leave *)
LEMMA HoldersSound ==
  ASSUME ScanInv, StoreInv', UNCHANGED vars, NEW w \in Worker, Join(w) \/ Leave(w)
  PROVE  ScanSound'
<1>0. [Next]_vars
  OBVIOUS
<1>1. /\ ScanTypeOK /\ BarrierSound /\ WorkSound /\ EmittedOnce /\ scan.stage = "ready"
      /\ scan' = scan /\ work' = work /\ wk' = wk /\ emitted' = emitted /\ must' = must
  BY DEF ScanInv, Join, Leave, Participant
<1>2. \/ holds' = holds \cup {w} /\ ~CompactHolds
      \/ holds' = holds \ {w} /\ work.kind = "done" /\ wk[w].stage = "idle"
  BY DEF Join, Leave, Participant
<1>3. ScanTypeOK' /\ EmittedOnce'
  BY <1>1, <1>2 DEF ScanTypeOK, EmittedOnce
<1>4. BarrierSound'
  <2>1. CASE holds' = holds \cup {w} /\ ~CompactHolds
    BY <1>1, <2>1, ReadsSame DEF BarrierSound
  <2>2. CASE holds' = holds \ {w} /\ work.kind = "done" /\ wk[w].stage = "idle"
    BY <1>1, <2>2, ReadsSame DEF BarrierSound
  <2> QED BY <1>2, <2>1, <2>2
<1>5. Outstanding' = Outstanding
  BY <1>1, ReadsSame DEF Outstanding
<1>6. \A t \in {scan'.term}, k \in {work'}, M \in {Outstanding'} :
        k.kind # "done" => Position(t, k, M)'
  <2>1. PICK k, N : k = work' /\ N = Outstanding
    OBVIOUS
  <2>2. CASE k.kind # "done"
    <3>1. holds # {} /\ \A t \in {scan.term} : Position(t, k, N)
      BY <1>1, <2>1, <2>2 DEF BarrierSound, WorkSound
    <3> QED BY <1>0, <1>1, <1>5, <2>1, <3>1, PlaceKept
  <2> QED BY <2>1, <2>2
<1>7. WorkSound'
  <2>1. /\ work.kind = "done" => Outstanding = {}
        /\ work.kind = "first" => emitted = {} /\ \A v \in Worker : wk[v].stage # "claimed"
        /\ work.kind = "chain" =>
             /\ \A o \in emitted : o <= work.previous
             /\ \A v \in Worker : wk[v].stage = "claimed" =>
                  \A o \in wk[v].refs : o <= work.previous
    BY <1>1 DEF WorkSound
  <2> QED BY <1>1, <1>5, <1>6, <2>1 DEF WorkSound
<1>8. PreparedSound'
  BY <1>0, <1>1, PreparedKept DEF PreparedSound
<1> QED BY <1>1, <1>3, <1>4, <1>7, <1>8, ParticipantsKeep DEF ScanSound
(* A participant that acts within the barrier *)
LEMMA ActorBarrier ==
  ASSUME ScanInv, UNCHANGED vars, scan.stage = "ready", UNCHANGED <<scan, must, holds>>,
         NEW w \in holds, \A v \in Worker : v # w => wk'[v] = wk[v]
  PROVE  BarrierSound' /\ LimitSound' /\ MustSound'
<1>1. BarrierSound /\ scan' = scan /\ holds' = holds
  BY DEF ScanInv
<1>2. BarrierSound'
  BY <1>1, ReadsSame DEF BarrierSound
<1> QED BY <1>2, ParticipantsKeep

(* The words of a scan that goes on *)
LEMMA WorkPlace ==
  ASSUME ScanInv, scan.stage = "ready", work.kind # "done", NEW t, t = scan.term, NEW k, k = work,
         NEW M, M = Outstanding
  PROVE  StoreInv /\ t \in Term /\ M \in SUBSET must /\ Position(t, k, M)
BY DEF ScanInv, BarrierSound, WorkSound, Outstanding

(* prepare() *)
LEMMA PrepareSound ==
  ASSUME ScanInv, StoreInv', UNCHANGED vars, NEW w \in Worker, Prepare(w)
  PROVE  ScanSound'
<1>0. [Next]_vars
  OBVIOUS
<1>1. PICK t, k, M, B, n : /\ t = scan.term /\ k = work /\ M = Outstanding /\ n = Successor
                           /\ B = IF work.kind = "first" THEN {work.previous} ELSE PostingRefs(work.at)
  OBVIOUS
<1>2. /\ scan.stage = "ready" /\ w \in holds /\ wk[w].stage = "idle" /\ k.kind # "done"
      /\ scan' = scan /\ work' = work /\ holds' = holds /\ emitted' = emitted /\ must' = must
      /\ wk' = [wk EXCEPT ![w] = [stage |-> "prepared", seen |-> k, next |-> n, refs |-> B]]
  BY <1>1 DEF Prepare, Participant
<1>3. /\ ScanTypeOK /\ WorkSound /\ EmittedOnce /\ \A o \in must : owner[o].pub = "Published"
  BY DEF ScanInv, MustSound
<1>4. /\ \A v \in Worker : v # w => wk'[v] = wk[v]
      /\ wk'[w] = [stage |-> "prepared", seen |-> k, next |-> n, refs |-> B]
      /\ wk'[w].stage = "prepared" /\ wk'[w].seen = k /\ wk'[w].next = n /\ wk'[w].refs = B
  BY <1>2, <1>3 DEF ScanTypeOK
<1>5. StoreInv /\ t \in Term /\ M \in SUBSET must /\ Position(t, k, M)
  BY <1>1, <1>2, WorkPlace
<1>6. BatchOf(t, k, B, n)
  BY <1>1, <1>5, BatchMade
<1>7. B \subseteq Owner /\ (n = NoWork \/ n \in WorkRecord) /\ k \in WorkRecord
  <2>1. /\ B \subseteq Owner
        /\ \/ n = NoWork /\ M \subseteq B
           \/ /\ Position(t, n, M \ B) /\ n.kind = "chain"
              /\ k.previous <= n.previous /\ \A o \in B : o <= n.previous
    BY <1>5, <1>6, ClaimAdvances
  <2> QED BY <1>5, <2>1 DEF Position
<1>8. NoWork \in WorkRecord
  BY BoundAssumption DEF NoWork, WorkRecord, BlockOrNone, OwnerOrNone
<1>9. ScanTypeOK'
  BY <1>2, <1>3, <1>7, <1>8 DEF ScanTypeOK
<1>10. EmittedOnce'
  BY <1>2, <1>3, <1>4 DEF EmittedOnce
<1>11. PagesStay(t) /\ EntryStays(t) /\ DictStays
  BY <1>0, <1>1, <1>2, ScanBeside
<1>12. PreparedSound'
  <2>1. Position(t, k, {})
    BY <1>5, PositionLess
  <2>2. Position(t, k, {})'
    BY <1>5, <1>11, <2>1, PositionKept
  <2>3. BatchOf(t, k, B, n)'
    BY <1>2, <1>3, <1>5, <1>6, <1>11, <2>1, BatchKept
  <2>4. \A u \in {scan'.term}, p \in {wk'[w]} :
          p.stage = "prepared" => Position(u, p.seen, {})' /\ BatchOf(u, p.seen, p.refs, p.next)'
    BY <1>1, <1>2, <1>4, <2>2, <2>3
  <2>5. ASSUME NEW v \in Worker, v # w
        PROVE  \A u \in {scan'.term}, p \in {wk'[v]} :
                 p.stage = "prepared" => Position(u, p.seen, {})' /\ BatchOf(u, p.seen, p.refs, p.next)'
    BY <1>0, <1>2, <1>4, <2>5, PreparedKept
  <2> QED BY <2>4, <2>5 DEF PreparedSound
<1>13. Outstanding' \subseteq M
  BY <1>1, <1>2, <1>4, ReadsSame DEF Outstanding
<1>14. \A u \in {scan'.term}, l \in {work'}, N \in {Outstanding'} :
         l.kind # "done" => Position(u, l, N)'
  <2>1. k = work' /\ scan'.term = scan.term /\ holds # {} /\ scan.stage # "closed"
        /\ \A u \in {scan.term} : k.kind # "done" => Position(u, k, M)
    BY <1>1, <1>2, <1>5
  <2> QED BY <1>0, <1>13, <2>1, PlaceKept
<1>15. WorkSound'
  <2>1. /\ work.kind = "first" => emitted = {} /\ \A v \in Worker : wk[v].stage # "claimed"
        /\ work.kind = "chain" =>
             /\ \A o \in emitted : o <= work.previous
             /\ \A v \in Worker : wk[v].stage = "claimed" =>
                  \A o \in wk[v].refs : o <= work.previous
    BY <1>2, <1>3 DEF WorkSound
  <2>2. work'.kind # "done" /\ \A v \in Worker : wk'[v].stage = "claimed" => wk'[v] = wk[v]
    BY <1>1, <1>2, <1>4
  <2> QED BY <1>2, <1>14, <2>1, <2>2 DEF WorkSound
<1> QED BY <1>2, <1>4, <1>9, <1>10, <1>12, <1>15, ActorBarrier DEF ScanSound

(* pin_scan_work_claim() where the words have moved: the batch is dropped. *)
LEMMA ClaimLost ==
  ASSUME ScanInv, StoreInv', UNCHANGED vars, NEW w \in Worker, Claim(w), work # wk[w].seen
  PROVE  ScanSound'
<1>0. [Next]_vars
  OBVIOUS
<1>1. /\ scan.stage = "ready" /\ w \in holds /\ wk[w].stage = "prepared"
      /\ scan' = scan /\ work' = work /\ holds' = holds /\ emitted' = emitted /\ must' = must
      /\ wk' = [wk EXCEPT ![w] = Idle]
  BY DEF Claim, Participant
<1>2. ScanTypeOK /\ WorkSound /\ EmittedOnce
  BY DEF ScanInv
<1>3. (\A v \in Worker : v # w => wk'[v] = wk[v]) /\ wk'[w].stage = "idle"
  BY <1>1, <1>2 DEF ScanTypeOK, Idle
<1>4. ScanTypeOK'
  <2>1. NoWork \in WorkRecord
    BY BoundAssumption DEF NoWork, WorkRecord, BlockOrNone, OwnerOrNone
  <2> QED BY <1>1, <1>2, <2>1 DEF ScanTypeOK, Idle
<1>5. EmittedOnce'
  BY <1>1, <1>2, <1>3 DEF EmittedOnce
<1>6. PreparedSound'
  BY <1>0, <1>1, <1>3, PreparedKept DEF PreparedSound
<1>7. Outstanding' \subseteq Outstanding
  BY <1>1, <1>3, ReadsSame DEF Outstanding
<1>8. \A t \in {scan'.term}, k \in {work'}, M \in {Outstanding'} :
        k.kind # "done" => Position(t, k, M)'
  <2>1. PICK k, N : k = work' /\ N = Outstanding
    OBVIOUS
  <2>2. holds # {} /\ \A t \in {scan.term} : k.kind # "done" => Position(t, k, N)
    BY <1>1, <1>2, <2>1 DEF WorkSound
  <2> QED BY <1>0, <1>1, <1>7, <2>1, <2>2, PlaceKept
<1>9. WorkSound'
  <2>1. /\ work.kind = "done" => Outstanding = {}
        /\ work.kind = "first" => emitted = {} /\ \A v \in Worker : wk[v].stage # "claimed"
        /\ work.kind = "chain" =>
             /\ \A o \in emitted : o <= work.previous
             /\ \A v \in Worker : wk[v].stage = "claimed" =>
                  \A o \in wk[v].refs : o <= work.previous
    BY <1>1, <1>2 DEF WorkSound
  <2>2. \A v \in Worker : wk'[v].stage = "claimed" => wk'[v] = wk[v]
    BY <1>3
  <2> QED BY <1>1, <1>7, <1>8, <2>1, <2>2 DEF WorkSound
<1> QED BY <1>1, <1>3, <1>4, <1>5, <1>6, <1>9, ActorBarrier DEF ScanSound

(* And where they have not: the batch and what it leaves are what the      *)
(* words meant.                                                            *)
LEMMA ClaimWon ==
  ASSUME ScanInv, StoreInv', UNCHANGED vars, NEW w \in Worker, Claim(w), work = wk[w].seen
  PROVE  ScanSound'
<1>0. [Next]_vars
  OBVIOUS
<1>1. PICK t, k, M, p, N : /\ t = scan.term /\ k = work /\ M = Outstanding /\ p = wk[w]
                           /\ N = Outstanding \ wk[w].refs
  OBVIOUS
<1>2. /\ scan.stage = "ready" /\ w \in holds /\ p.stage = "prepared" /\ p.seen = k
      /\ scan' = scan /\ work' = p.next /\ holds' = holds /\ emitted' = emitted /\ must' = must
      /\ wk' = [wk EXCEPT ![w].stage = "claimed"]
  BY <1>1 DEF Claim, Participant
<1>3. /\ ScanTypeOK /\ WorkSound /\ PreparedSound /\ EmittedOnce
  BY DEF ScanInv
<1>4. /\ p.next \in WorkRecord /\ p.refs \subseteq Owner /\ emitted \subseteq Owner /\ k \in WorkRecord
      /\ \A v \in Worker : wk[v].refs \subseteq Owner
  BY <1>1, <1>3 DEF ScanTypeOK
<1>5. /\ \A v \in Worker : v # w => wk'[v] = wk[v]
      /\ wk'[w].stage = "claimed" /\ wk'[w].refs = p.refs
  BY <1>1, <1>2, <1>3 DEF ScanTypeOK
<1>6. Position(t, k, {}) /\ BatchOf(t, k, p.refs, p.next)
  BY <1>1, <1>2, <1>3 DEF PreparedSound
<1>7. work.kind # "done" /\ k.kind \in {"first", "chain"}
  BY <1>1, <1>6 DEF Position, WorkRecord
<1>8. StoreInv /\ t \in Term /\ M \in SUBSET must /\ Position(t, k, M)
  BY <1>1, <1>2, <1>7, WorkPlace
<1>9. /\ k.kind = "chain" => \A o \in p.refs : k.previous < o
      /\ \/ p.next = NoWork /\ M \subseteq p.refs
         \/ /\ Position(t, p.next, M \ p.refs) /\ p.next.kind = "chain"
            /\ k.previous <= p.next.previous /\ \A o \in p.refs : o <= p.next.previous
  BY <1>6, <1>8, ClaimAdvances
<1>10. /\ k.kind = "first" => emitted = {} /\ \A v \in Worker : wk[v].stage # "claimed"
       /\ k.kind = "chain" =>
            /\ \A o \in emitted : o <= k.previous
            /\ \A v \in Worker : wk[v].stage = "claimed" =>
                 \A o \in wk[v].refs : o <= k.previous
  BY <1>1, <1>2, <1>3 DEF WorkSound
<1>11. NoWork.kind = "done"
  BY DEF NoWork
<1>12. ScanTypeOK'
  BY <1>1, <1>2, <1>3, <1>4 DEF ScanTypeOK
<1>13. EmittedOnce'
  <2>1. k.previous \in Int /\ Owner \subseteq Int
    BY <1>4, BoundAssumption DEF WorkRecord, OwnerOrNone, Owner, NoOwner
  <2>2. ASSUME NEW o \in p.refs
        PROVE  /\ o \notin emitted
               /\ \A v \in Worker : wk[v].stage = "claimed" => o \notin wk[v].refs
    <3>1. CASE k.kind = "first"
      BY <1>10, <3>1
    <3>2. CASE k.kind = "chain"
      <4>1. k.previous < o /\ o \in Int
        BY <1>4, <1>9, <2>1, <2>2, <3>2
      <4>2. ~(o <= k.previous)
        BY <2>1, <4>1
      <4> QED BY <1>10, <3>2, <4>2
    <3> QED BY <1>7, <3>1, <3>2
  <2>3. p.refs \cap emitted = {} /\ \A v \in Worker : wk[v].stage = "claimed" => wk[v].refs \cap p.refs = {}
    BY <2>2
  <2> QED BY <1>2, <1>3, <1>5, <2>3 DEF EmittedOnce
<1>14. PreparedSound'
  BY <1>0, <1>2, <1>5, PreparedKept DEF PreparedSound
<1>15. Outstanding' \subseteq N
  BY <1>1, <1>2, <1>5, ReadsSame DEF Outstanding
<1>16. \A u \in {scan'.term}, l \in {work'}, Q \in {Outstanding'} :
         l.kind # "done" => Position(u, l, Q)'
  <2>1. PICK l : l = work'
    OBVIOUS
  <2>2. holds # {} /\ \A u \in {scan.term} : l.kind # "done" => Position(u, l, N)
    BY <1>1, <1>2, <1>9, <1>11, <2>1
  <2> QED BY <1>0, <1>2, <1>15, <2>1, <2>2, PlaceKept
<1>17. WorkSound'
  <2>1. work'.kind = "done" => Outstanding' = {}
    BY <1>1, <1>2, <1>9, <1>15
  <2>2. work'.kind # "first"
    BY <1>2, <1>9, <1>11
  <2>3. ASSUME work'.kind = "chain"
        PROVE  /\ \A o \in emitted' : o <= work'.previous
               /\ \A v \in Worker : wk'[v].stage = "claimed" => \A o \in wk'[v].refs : o <= work'.previous
    <3>1. k.previous <= p.next.previous /\ \A o \in p.refs : o <= p.next.previous
      BY <1>2, <1>9, <1>11, <2>3
    <3>2. k.previous \in Int /\ p.next.previous \in Int /\ Owner \subseteq Int
      BY <1>4, BoundAssumption DEF WorkRecord, OwnerOrNone, Owner, NoOwner
    <3>3. \A o \in emitted : o <= p.next.previous
      BY <1>4, <1>7, <1>10, <3>1, <3>2
    <3>4. ASSUME NEW v \in Worker, wk[v].stage = "claimed", NEW o \in wk[v].refs
          PROVE  o <= p.next.previous
      <4>1. k.kind = "chain"
        BY <1>7, <1>10, <3>4
      <4>2. o <= k.previous /\ o \in Int
        BY <1>4, <1>10, <3>2, <3>4, <4>1
      <4> QED BY <3>1, <3>2, <4>2
    <3>5. ASSUME NEW v \in Worker, wk'[v].stage = "claimed", NEW o \in wk'[v].refs
          PROVE  o <= p.next.previous
      BY <1>5, <3>1, <3>4, <3>5
    <3> QED BY <1>2, <3>3, <3>5
  <2> QED BY <1>16, <2>1, <2>2, <2>3 DEF WorkSound
<1> QED BY <1>2, <1>5, <1>12, <1>13, <1>14, <1>17, ActorBarrier DEF ScanSound

(* for_each_root() *)
LEMMA EmitSound ==
  ASSUME ScanInv, StoreInv', UNCHANGED vars, NEW w \in Worker, Emit(w)
  PROVE  ScanSound'
<1>0. [Next]_vars
  OBVIOUS
<1>1. PICK E : E = {o \in wk[w].refs : Live(o)}
  OBVIOUS
<1>2. /\ scan.stage = "ready" /\ w \in holds /\ wk[w].stage = "claimed"
      /\ scan' = scan /\ work' = work /\ holds' = holds /\ must' = must
      /\ emitted' = emitted \cup E /\ wk' = [wk EXCEPT ![w] = Idle]
  BY <1>1 DEF Emit, Participant
<1>3. ScanTypeOK /\ WorkSound /\ EmittedOnce
  BY DEF ScanInv
<1>4. (\A v \in Worker : v # w => wk'[v] = wk[v]) /\ wk'[w].stage = "idle"
  BY <1>2, <1>3 DEF ScanTypeOK, Idle
<1>5. E \subseteq wk[w].refs /\ wk[w].refs \subseteq Owner
  BY <1>1, <1>3 DEF ScanTypeOK
<1>6. ScanTypeOK'
  <2>1. NoWork \in WorkRecord
    BY BoundAssumption DEF NoWork, WorkRecord, BlockOrNone, OwnerOrNone
  <2> QED BY <1>2, <1>3, <1>5, <2>1 DEF ScanTypeOK, Idle
<1>7. EmittedOnce'
  BY <1>2, <1>3, <1>4, <1>5 DEF EmittedOnce
<1>8. PreparedSound'
  BY <1>0, <1>2, <1>4, PreparedKept DEF PreparedSound
<1>9. Outstanding' \subseteq Outstanding
  <2>1. ASSUME NEW o \in Outstanding' PROVE o \in Outstanding
    <3>1. /\ o \in must /\ Live(o) /\ o \notin emitted /\ o \notin E
          /\ \A v \in Worker : wk'[v].stage = "claimed" => o \notin wk'[v].refs
      BY <1>2, <2>1, ReadsSame DEF Outstanding
    <3>2. \A v \in Worker : wk[v].stage = "claimed" => o \notin wk[v].refs
      BY <1>1, <1>4, <3>1
    <3> QED BY <3>1, <3>2 DEF Outstanding
  <2> QED BY <2>1
<1>10. \A t \in {scan'.term}, k \in {work'}, M \in {Outstanding'} :
         k.kind # "done" => Position(t, k, M)'
  <2>1. PICK k, N : k = work' /\ N = Outstanding
    OBVIOUS
  <2>2. holds # {} /\ \A t \in {scan.term} : k.kind # "done" => Position(t, k, N)
    BY <1>2, <1>3, <2>1 DEF WorkSound
  <2> QED BY <1>0, <1>2, <1>9, <2>1, <2>2, PlaceKept
<1>11. WorkSound'
  <2>1. /\ work.kind = "done" => Outstanding = {}
        /\ work.kind # "first"
        /\ work.kind = "chain" =>
             /\ \A o \in emitted : o <= work.previous
             /\ \A v \in Worker : wk[v].stage = "claimed" =>
                  \A o \in wk[v].refs : o <= work.previous
    BY <1>2, <1>3 DEF WorkSound
  <2>2. \A v \in Worker : wk'[v].stage = "claimed" => wk'[v] = wk[v]
    BY <1>4
  <2>3. work.kind = "chain" => \A o \in emitted' : o <= work.previous
    BY <1>2, <1>5, <2>1
  <2> QED BY <1>2, <1>9, <1>10, <2>1, <2>2, <2>3 DEF WorkSound
<1> QED BY <1>2, <1>4, <1>6, <1>7, <1>8, <1>11, ActorBarrier DEF ScanSound

-----------------------------------------------------------------------------
(* Nothing is scanned at first. *)
LEMMA ScanInvInit == ScanInit => ScanInv
<1> SUFFICES ASSUME ScanInit PROVE ScanInv
  OBVIOUS
<1>1. StoreInv /\ Init
  BY StoreInvInit DEF ScanInit
<1>2. CompactStages
  BY <1>1 DEF Init, CompactStages
<1>3. DictBelow
  <2>1. \A t \in Term : dict[t].page = 0 /\ meta.dictTail = 0
    BY <1>1 DEF Init, NoEntry, EmptyMeta, NoBlock
  <2> QED BY <2>1 DEF DictBelow
<1>4. /\ NoWork \in WorkRecord /\ NoScan \in ScanRecord /\ NoScan.stage = "closed"
      /\ Idle.stage = "idle"
      /\ Idle \in [stage : {"idle", "prepared", "claimed"}, seen : WorkRecord,
                   next : WorkRecord, refs : SUBSET Owner]
  BY BoundAssumption DEF NoWork, WorkRecord, NoScan, ScanRecord, Idle, BlockOrNone, OwnerOrNone
<1>5. ScanTypeOK
  BY <1>4 DEF ScanInit, ScanTypeOK
<1>6. BarrierSound /\ LimitSound /\ MustSound /\ WorkSound
  BY <1>4 DEF ScanInit, BarrierSound, LimitSound, MustSound, WorkSound
<1>7. PreparedSound /\ EmittedOnce
  BY <1>4 DEF ScanInit, PreparedSound, EmittedOnce
<1> QED BY <1>1, <1>2, <1>3, <1>5, <1>6, <1>7 DEF ScanInv

(* Every step preserves the invariant. *)
LEMMA ScanInvStep ==
  ASSUME ScanInv, [ScanNext]_allVars
  PROVE  ScanInv'
<1>1. \/ (WriterStep \/ UNCHANGED vars) /\ UNCHANGED scanVars
      \/ ScanStep /\ UNCHANGED vars
  BY DEF ScanNext, allVars
<1>2. [Next]_vars
  BY <1>1 DEF WriterStep, Next
<1>3. StoreInv /\ DictBelow
  BY DEF ScanInv
<1>4. StoreInv'
  BY <1>2, <1>3, StoreInvStep
<1>5. DictBelow'
  BY <1>2, <1>3, <1>4, DictBelowStep
<1>6. CASE (WriterStep \/ UNCHANGED vars) /\ UNCHANGED scanVars
  BY <1>4, <1>5, <1>6, WritersKeep DEF ScanInv, ScanSound
<1>7. CASE ScanStep /\ UNCHANGED vars
  <2>1. CompactStages'
    BY <1>7 DEF ScanInv, CompactStages, vars
  <2>2. ASSUME NEW w \in Worker, Join(w) \/ Prepare(w) \/ Claim(w) \/ Emit(w) \/ Leave(w)
        PROVE  ScanSound'
    BY <1>4, <1>7, <2>2, HoldersSound, PrepareSound, ClaimLost, ClaimWon, EmitSound
  <2>3. ScanSound'
    BY <1>4, <1>7, <2>2, OpenSound, LimitTaken, CaptureSound, EndSound DEF ScanStep
  <2> QED BY <1>4, <1>5, <2>1, <2>3 DEF ScanInv, ScanSound
<1> QED BY <1>1, <1>6, <1>7

(* A place can be read. *)
LEMMA PlaceReadable == ScanInv => CapturedWorkReadable
<1> SUFFICES ASSUME ScanInv, scan.stage = "ready", work.kind # "done"
             PROVE  /\ page[owner[work.previous].page].kind = "Owners"
                    /\ work.kind = "chain" => BatchValid
                    /\ work.kind = "first" /\ work.at # NoBlock =>
                         \/ page[work.at].kind = "Dictionary" /\ dict[scan.term].inline # 0
                         \/ page[work.at].kind \in PostingKind /\ page[work.at].term = scan.term
  BY DEF CapturedWorkReadable
<1>1. PICK t, k, M : t = scan.term /\ k = work /\ M = Outstanding
  OBVIOUS
<1>2. StoreInv /\ t \in Term /\ M \in SUBSET must /\ Position(t, k, M)
  BY <1>1, WorkPlace
<1>3. page[owner[k.previous].page].kind = "Owners"
  <2>1. Refers(t, k.previous)
    BY <1>2, ReachedRefers DEF Position
  <2> QED BY <1>2, <2>1 DEF Refers, StoreInv, RootInv, SlotsOnOwnerPages, IsOwnerPage
<1>4. k.at # NoBlock =>
        \/ page[k.at].kind = "Dictionary" /\ dict[t].inline # 0
        \/ page[k.at].kind \in PostingKind /\ page[k.at].term = t
  BY <1>2, PlaceOf DEF OnEntry
<1>5. ASSUME k.kind = "chain" PROVE BatchValid
  <2>1. k.at # NoBlock /\ k \in WorkRecord /\ Rest(k, M) = M
    BY <1>2, <1>5 DEF Position, Rest
  <2>2. \A o \in PostingRefs(k.at) : k.previous < o
    <3>1. PICK B, n : B = PostingRefs(k.at) /\ n = Successor
      OBVIOUS
    <3>2. BatchOf(t, k, B, n)
      <4>1. work.kind # "first"
        BY <1>1, <1>5
      <4> QED BY <1>1, <1>2, <3>1, <4>1, BatchMade
    <3>3. \A o \in B : k.previous < o
      BY <1>2, <1>5, <3>2, ClaimAdvances
    <3> QED BY <3>1, <3>3
  <2>3. k.left > 0 /\ (k.at # k.tail => /\ page[k.at].next # NoBlock /\ k.left > 1
                                        /\ page[k.at].next < k.limit)
    <3>1. CASE OnEntry(t, k) /\ k.at = k.tail
      BY <3>1 DEF OnEntry
    <3>2. ASSUME NEW R \in SUBSET Block, OnChain(t, k, R)
          PROVE  k.left > 0 /\ (k.at # k.tail => /\ page[k.at].next # NoBlock /\ k.left > 1
                                                 /\ page[k.at].next < k.limit)
      <4>1. /\ k.at \in R /\ k.tail \in R
            /\ k.at # k.tail => page[k.at].next \in R /\ page[k.at].next # NoBlock
        BY <1>2, <2>1, <3>2, CutFacts
      <4>2. k.left \in Int /\ Cardinality(R) < k.left /\ \A b \in R : b < k.limit
        BY <2>1, <3>2, BoundAssumption DEF OnChain, WorkRecord
      <4>3. PICK Q : Q = R \ {k.at}
        OBVIOUS
      <4>4. /\ IsFiniteSet(Q) /\ Cardinality(Q) = Cardinality(R) - 1 /\ Cardinality(R) \in Nat
            /\ Cardinality(Q) \in Nat
        BY <4>1, <4>3, Counted, FS_RemoveElement, FS_CardinalityType
      <4>5. k.at # k.tail => Cardinality(Q \ {k.tail}) = Cardinality(Q) - 1
        BY <4>1, <4>3, <4>4, FS_RemoveElement
      <4>6. Cardinality(Q \ {k.tail}) \in Nat
        BY <4>4, FS_RemoveElement, FS_CardinalityType
      <4> QED BY <4>1, <4>2, <4>4, <4>5, <4>6
    <3> QED BY <1>2, <2>1, <3>1, <3>2, PlaceOf
  <2> QED BY <1>1, <1>4, <2>1, <2>2, <2>3 DEF BatchValid
<1> QED BY <1>1, <1>3, <1>4, <1>5

(* The invariant holds throughout. *)
LEMMA ScanInvAlways == ScanSpec => []ScanInv
BY ScanInvInit, ScanInvStep, PTL DEF ScanSpec

(* The shared words and every participant's copies of them are what        *)
(* from_words() and to_words() exchange, in every interleaving.            *)
THEOREM ScanTypeCorrect == ScanSpec => []ScanTypeOK
BY ScanInvAlways, PTL DEF ScanInv

(* pin_scan_work_claim() gives every batch to one participant: batches     *)
(* claimed at the same time are disjoint, and none holds an owner that has *)
(* been handed out.                                                        *)
THEOREM EmittedAlwaysOnce == ScanSpec => []EmittedOnce
BY ScanInvAlways, PTL DEF ScanInv

(* The shared side of the structural barrier protects captured work:       *)
(* prepare() never fails on words that capture() has published, whatever   *)
(* insertions and vacuum passes have done since.                           *)
THEOREM CapturedAlwaysReadable == ScanSpec => []CapturedWorkReadable
BY ScanInvAlways, PlaceReadable, PTL

(* A scan that ends has handed out every document of its term that was     *)
(* live when it opened and is live still, in any number of participants    *)
(* and beside any insertions and vacuum passes.                            *)
THEOREM ScanAlwaysComplete == ScanSpec => ScanComplete
<1>1. ASSUME ScanInv, ScanEnd PROVE \A o \in must : Live(o) => o \in emitted
  <2>1. scan.stage = "ready" /\ work.kind = "done" /\ holds = {}
    BY <1>1 DEF ScanEnd
  <2>2. Outstanding = {} /\ \A w \in Worker : wk[w].stage = "idle"
    BY <1>1, <2>1 DEF ScanInv, WorkSound, BarrierSound
  <2> QED BY <2>2 DEF Outstanding
<1>2. ScanInv => [ScanEnd => \A o \in must : Live(o) => o \in emitted]_allVars
  BY <1>1
<1> QED BY <1>2, ScanInvAlways, PTL DEF ScanComplete
=============================================================================
