------------------------------ MODULE ScanWork ------------------------------
(***************************************************************************)
(* A plain index scan of one term, serial or parallel, beside the writers: *)
(* WorkState of crates/pin-core/src/mutable/work.rs, the shared words and  *)
(* their compare-and-replace in crates/pin-pg/cshim/pin_storage.c, and     *)
(* pin_parallel_scan_fill in crates/pin-pg/src/am.rs.                      *)
(*                                                                         *)
(* Every participant holds the shared side of the structural barrier;      *)
(* compaction takes the exclusive side.  Insertions and vacuum passes take *)
(* only the writer interlock and run beside the scan.                      *)
(***************************************************************************)
EXTENDS MutableStore

CONSTANTS Worker, Leader
ASSUME WorkerAssumption == Leader \in Worker

VARIABLES
  scan,     \* the scan: its stage, its term and what capture() has read
  work,     \* the shared coordination words
  wk,       \* each participant's private snapshot, successor and batch
  holds,    \* the participants that hold the shared structural barrier
  emitted,  \* the owners whose roots were emitted
  must      \* the owners of the term that were live when the scan opened

scanVars == <<scan, work, wk, holds, emitted, must>>
allVars == <<vars, scanVars>>

NoWork == [kind |-> "done", at |-> NoBlock, tail |-> NoBlock, left |-> 0,
           limit |-> 0, previous |-> NoOwner]

WorkRecord == [kind : {"done", "first", "chain"}, at : BlockOrNone,
               tail : BlockOrNone, left : 0 .. (MaxBlocks + 1),
               limit : 0 .. (MaxBlocks + 1), previous : OwnerOrNone]

NoScan == [stage |-> "closed", term |-> NoTerm, limit |-> 0, dictTail |-> NoBlock]
Idle == [stage |-> "idle", seen |-> NoWork, next |-> NoWork, refs |-> {}]

ScanInit ==
  /\ Init
  /\ scan = NoScan
  /\ work = NoWork
  /\ wk = [w \in Worker |-> Idle]
  /\ holds = {}
  /\ emitted = {}
  /\ must = {}

-----------------------------------------------------------------------------
(* The exclusive side of the barrier is held for the whole compaction. *)
CompactHolds == cpt.then = "compact"

(* The owners of the term that a scan opened now must not miss. *)
LiveOwners(t) == {o \in TermRefs(t) : Live(o)}

(* pin_scan_rescan(): the leader takes the barrier. *)
ScanOpen(t) ==
  /\ scan.stage = "closed" /\ holds = {}
  /\ ~CompactHolds
  /\ holds' = {Leader}
  /\ scan' = [NoScan EXCEPT !.stage = "opened", !.term = t]
  /\ emitted' = {}
  /\ must' = LiveOwners(t)
  /\ UNCHANGED <<work, wk>>

(* capture(), first half: the metapage and the relation size. *)
CaptureLimit ==
  /\ scan.stage = "opened"
  /\ scan' = [scan EXCEPT !.stage = "limited", !.limit = size + 1,
                          !.dictTail = meta.dictTail]
  /\ UNCHANGED <<work, wk, holds, emitted, must>>

(* find_term() follows the dictionary chain as the metapage copy ends it. *)
EntryFound ==
  /\ scan.dictTail # NoBlock
  /\ dict[scan.term].page \in 1 .. scan.dictTail

(* from_words() of the captured entry *)
Inside(b) == b > 0 /\ b < scan.limit

CaptureValid(e) ==
  /\ (Inside(e.head) /\ Inside(e.tail)) \/ (e.head = NoBlock /\ e.tail = NoBlock)
  /\ Inside(e.page) /\ Inside(owner[e.first].page)

(* capture(), second half: the dictionary entry, and                       *)
(* pin_scan_work_publish().                                                *)
CaptureAbsent ==
  /\ scan.stage = "limited" /\ ~EntryFound
  /\ work' = NoWork
  /\ scan' = [scan EXCEPT !.stage = "ready"]
  /\ UNCHANGED <<wk, holds, emitted, must>>

CaptureEntry ==
  LET e == dict[scan.term] IN
  /\ scan.stage = "limited" /\ EntryFound
  /\ CaptureValid(e)
  /\ work' = [kind |-> "first", at |-> e.head, tail |-> e.tail,
              left |-> scan.limit, limit |-> scan.limit, previous |-> e.first]
  /\ scan' = [scan EXCEPT !.stage = "ready"]
  /\ UNCHANGED <<wk, holds, emitted, must>>

(* from_words() refuses the words and the query ends with an error. *)
CaptureRejected ==
  /\ scan.stage = "limited" /\ EntryFound
  /\ ~CaptureValid(dict[scan.term])
  /\ scan' = [scan EXCEPT !.stage = "rejected"]
  /\ UNCHANGED <<work, wk, holds, emitted, must>>

(* A parallel worker's rescan takes the barrier and finds the work ready. *)
Join(w) ==
  /\ scan.stage = "ready"
  /\ w \notin holds
  /\ work.kind # "done"
  /\ ~CompactHolds
  /\ holds' = holds \cup {w}
  /\ UNCHANGED <<scan, work, wk, emitted, must>>

-----------------------------------------------------------------------------
(* prepare() *)

Participant(w, stage) ==
  scan.stage = "ready" /\ w \in holds /\ wk[w].stage = stage

(* load_posting(): a dictionary page stands for its second owner. *)
PostingRefs(b) ==
  IF page[b].kind = "Dictionary" THEN {dict[scan.term].second} ELSE page[b].refs

BatchValid ==
  LET b == work.at IN
  /\ \/ page[b].kind = "Dictionary" /\ dict[scan.term].inline # 0
     \/ page[b].kind \in PostingKind /\ page[b].term = scan.term
  /\ \A o \in PostingRefs(b) : work.previous < o
  /\ work.left > 0
  /\ b # work.tail => /\ page[b].next # NoBlock
                      /\ work.left > 1
                      /\ page[b].next < work.limit

LastRef(refs) ==
  IF refs = {} THEN work.previous ELSE CHOOSE o \in refs : \A p \in refs : p <= o

(* Faults: the chain ends at the page before the tail; the bound on the    *)
(* pages left is off by one.                                               *)
FaultSuccessor ==
  IF work.kind = "first"
  THEN IF work.at = NoBlock THEN NoWork ELSE [work EXCEPT !.kind = "chain"]
  ELSE IF work.at = work.tail \/ page[work.at].next = work.tail THEN NoWork
  ELSE [work EXCEPT !.at = page[work.at].next, !.left = work.left - 1,
                    !.previous = LastRef(PostingRefs(work.at))]
FaultSuccessorLeft ==
  IF work.kind = "first"
  THEN IF work.at = NoBlock THEN NoWork ELSE [work EXCEPT !.kind = "chain", !.left = work.left + 1]
  ELSE IF work.at = work.tail THEN NoWork
  ELSE [work EXCEPT !.at = page[work.at].next, !.left = work.left - 1,
                    !.previous = LastRef(PostingRefs(work.at))]

Successor ==
  IF work.kind = "first"
  THEN IF work.at = NoBlock THEN NoWork ELSE [work EXCEPT !.kind = "chain"]
  ELSE IF work.at = work.tail THEN NoWork
  ELSE [work EXCEPT !.at = page[work.at].next, !.left = work.left - 1,
                    !.previous = LastRef(PostingRefs(work.at))]

(* pin_scan_work_snapshot() and prepare(): a private batch and successor. *)
Prepare(w) ==
  /\ Participant(w, "idle")
  /\ work.kind # "done"
  /\ work.kind = "chain" => BatchValid
  /\ wk' = [wk EXCEPT ![w] =
       [stage |-> "prepared", seen |-> work, next |-> Successor,
        refs |-> IF work.kind = "first" THEN {work.previous} ELSE PostingRefs(work.at)]]
  /\ UNCHANGED <<scan, work, holds, emitted, must>>

(* Fault: the words are replaced without being compared. *)
FaultClaim(w) ==
  /\ Participant(w, "prepared")
  /\ work' = wk[w].next
  /\ wk' = [wk EXCEPT ![w].stage = "claimed"]
  /\ UNCHANGED <<scan, holds, emitted, must>>

(* pin_scan_work_claim(): compare and replace under the spinlock. *)
Claim(w) ==
  /\ Participant(w, "prepared")
  /\ IF work = wk[w].seen
     THEN work' = wk[w].next /\ wk' = [wk EXCEPT ![w].stage = "claimed"]
     ELSE work' = work /\ wk' = [wk EXCEPT ![w] = Idle]
  /\ UNCHANGED <<scan, holds, emitted, must>>

(* for_each_root(): only live canonical owners yield a root. *)
Emit(w) ==
  /\ Participant(w, "claimed")
  /\ emitted' = emitted \cup {o \in wk[w].refs : Live(o)}
  /\ wk' = [wk EXCEPT ![w] = Idle]
  /\ UNCHANGED <<scan, work, holds, must>>

(* pin_scan_end() of one participant, once it finds no more work. *)
Leave(w) ==
  /\ Participant(w, "idle")
  /\ work.kind = "done"
  /\ holds' = holds \ {w}
  /\ UNCHANGED <<scan, work, wk, emitted, must>>

ScanEnd ==
  /\ scan.stage = "ready" /\ work.kind = "done" /\ holds = {}
  /\ scan' = NoScan
  /\ emitted' = {} /\ must' = {}
  /\ UNCHANGED <<work, wk, holds>>

(* The error of a rejected capture releases everything. *)
ScanAbort ==
  /\ scan.stage = "rejected"
  /\ scan' = NoScan /\ holds' = {}
  /\ emitted' = {} /\ must' = {}
  /\ UNCHANGED <<work, wk>>

-----------------------------------------------------------------------------
ScanStep ==
  \/ \E t \in Term : ScanOpen(t)
  \/ CaptureLimit \/ CaptureAbsent \/ CaptureEntry \/ CaptureRejected
  \/ \E w \in Worker : Join(w) \/ Prepare(w) \/ Claim(w) \/ Emit(w) \/ Leave(w)
  \/ ScanEnd \/ ScanAbort

(* The writers' steps; a compaction waits for every reader. *)
WriterStep ==
  \/ \E r \in Root, d \in Document : InsertBegin(r, d)
  \/ VacuumBegin
  \/ holds = {} /\ \E mode \in CompactMode : CompactBegin(mode)
  \/ Step
  \/ Interrupt
  \/ \E r \in Root : HeapDelete(r)

ScanNext ==
  \/ WriterStep /\ UNCHANGED scanVars
  \/ ScanStep /\ UNCHANGED vars

ScanSpec == ScanInit /\ [][ScanNext]_allVars

-----------------------------------------------------------------------------
(* A parallel rescan: amparallelrescan resets the shared words and         *)
(* captures again while the leader still holds the barrier; the executor   *)
(* calls the leader's own amrescan after it, and pin_scan_rescan() drops   *)
(* the barrier before it takes it again.  The order of the two calls is    *)
(* the host's.                                                             *)
ParallelRescan ==
  /\ scan.stage = "ready" /\ holds = {Leader}
  /\ work.kind = "done" /\ wk[Leader].stage = "idle"
  /\ scan' = [scan EXCEPT !.stage = "opened"]
  /\ emitted' = {}
  /\ must' = LiveOwners(scan.term)
  /\ UNCHANGED <<work, wk, holds>>

RescanUnlock ==
  /\ Participant(Leader, "idle")
  /\ work.kind = "first"
  /\ holds' = holds \ {Leader}
  /\ UNCHANGED <<scan, work, wk, emitted, must>>

RescanNext ==
  \/ ScanNext
  \/ (ParallelRescan \/ RescanUnlock) /\ UNCHANGED vars

RescanSpec == ScanInit /\ [][RescanNext]_allVars

-----------------------------------------------------------------------------
(* Type correctness of the shared words and the participants' copies. *)
ScanTypeOK ==
  /\ work \in WorkRecord
  /\ wk \in [Worker -> [stage : {"idle", "prepared", "claimed"}, seen : WorkRecord,
                        next : WorkRecord, refs : SUBSET Owner]]
  /\ scan.stage \in {"closed", "opened", "limited", "ready", "rejected"}
  /\ holds \subseteq Worker
  /\ emitted \subseteq Owner

(* No owner is handed out twice: two claimed batches never overlap, and no *)
(* claimed batch holds an owner already emitted ("claimed batches must not *)
(* be retried", pin_scan_work_claim()).                                    *)
EmittedOnce ==
  \A w \in Worker : wk[w].stage = "claimed" =>
    /\ wk[w].refs \cap emitted = {}
    /\ \A v \in Worker \ {w} : wk[v].stage = "claimed" => wk[v].refs \cap wk[w].refs = {}

(* "must hold the shared structural barrier until all captured work is     *)
(* consumed": the words always name a batch that prepare() accepts, never  *)
(* a page that maintenance has recycled since they were captured.          *)
CapturedWorkReadable ==
  scan.stage = "ready" /\ work.kind # "done" =>
    /\ page[owner[work.previous].page].kind = "Owners"
    /\ work.kind = "chain" => BatchValid
    /\ work.kind = "first" /\ work.at # NoBlock =>
         \/ page[work.at].kind = "Dictionary" /\ dict[scan.term].inline # 0
         \/ page[work.at].kind \in PostingKind /\ page[work.at].term = scan.term

(* A scan is complete: when it ends, every document of the term that was   *)
(* live when it opened and is live still has been emitted, whatever was    *)
(* appended, promoted, removed or claimed by other participants meanwhile. *)
ScanComplete ==
  [][ScanEnd => \A o \in must : Live(o) => o \in emitted]_allVars

(* capture() "rejects corrupt metadata, failed I/O, and a cover exceeding  *)
(* memory_bytes": on a sound index it does not fail.                       *)
CaptureSucceeds == scan.stage # "rejected"

=============================================================================
