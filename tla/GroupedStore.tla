---------------------------- MODULE GroupedStore ----------------------------
(***************************************************************************)
(* The grouped generations beside the mutable index: a full snapshot of    *)
(* the live documents, a bounded stack of sealed deltas above it, and the  *)
(* frontier of owners above the newest fence that only the canonical index *)
(* knows (crates/pin-core/src/mutable/grouped/storage.rs, build.rs and     *)
(* vacuum.rs, the grouped state of page_grouped.rs, and the callers in     *)
(* crates/pin-pg/src/grouped.rs and am.rs).                                *)
(*                                                                         *)
(* Every action holds the writer interlock; builds hold the exclusive      *)
(* structural barrier too.  One commit is one step, and a crash or an      *)
(* error may fall between any two.  Owners and generations draw their      *)
(* numbers from one incarnation counter, so an owner is its incarnation.   *)
(* A page's term records are left out: the roots of its liveness record    *)
(* stand for the documents it holds.                                       *)
(***************************************************************************)
EXTENDS Integers, Sequences, FiniteSets

CONSTANTS
  Segments,         \* GROUP_DELTA_SEGMENTS
  SealOwners,       \* DELTA_SEAL_OWNERS
  FrontierAnchors,  \* whether the host asks for frontier anchors
  HeapGroups,       \* number of heap groups the roots fall into
  MaxInc,           \* bound: the largest incarnation
  MaxNew,           \* bound: incarnations handed out in a behaviour
  MaxBlocks,        \* bound: blocks of the relation
  MaxCrashes,       \* bound: interrupted operations
  MaxDead,          \* bound: dead roots that await a vacuum pass
  MaxDue            \* bound: backends between an insertion and its maintenance

ASSUME SegmentsAssumption == Segments \in Nat \ {0}
ASSUME SealAssumption == SealOwners \in Nat \ {0}
ASSUME AnchorsAssumption == FrontierAnchors \in BOOLEAN
ASSUME GroupBoundAssumption == /\ MaxInc \in Nat /\ MaxBlocks \in Nat /\ MaxNew \in Nat
                               /\ MaxCrashes \in Nat /\ MaxDue \in Nat
                               /\ MaxDead \in Nat /\ HeapGroups \in Nat \ {0}

NoBlock == 0
NoId == 0
NoOwner == 0
Block == 1 .. MaxBlocks
BlockOrNone == 0 .. MaxBlocks
Incarnation == 1 .. MaxInc
OwnerOrNone == 0 .. MaxInc

VARIABLES
  inc,       \* the metapage's next incarnation
  last,      \* the newest slot of the owner chain
  published, \* the owner slots in state Published
  live,      \* those that are live
  dead,      \* the owners whose root the host has declared dead
  page,      \* the pages that grouped storage uses or used
  size,      \* the relation's last block
  free,      \* the head of the free list
  active,    \* GroupState.active
  deltas,    \* GroupState.deltas, without the empty slots
  journal,   \* GroupState.journal
  retired,   \* GroupState.retired, without the empty slots
  job,       \* the locals of the operation that holds the interlock
  budget,    \* incarnations that may still be handed out
  due,       \* backends whose insertion found maintenance due
  crashes,   \* interrupted operations so far
  abandoned  \* builds that took an identity and were not published

canonical == <<last, published, live, dead>>
pages     == <<page, size, free>>
group     == <<active, deltas, journal, retired>>
vars      == <<inc, last, published, live, dead, page, size, free, active,
               deltas, journal, retired, job, budget, due, crashes,
               abandoned>>

-----------------------------------------------------------------------------
(* Pages and generations *)

GroupPage == [kind : {"None", "Zero", "Free", "Record", "Node"},
              id : OwnerOrNone, next : BlockOrNone, roots : SUBSET Incarnation]

NewPage(kind, id, roots) == [kind |-> kind, id |-> id, next |-> NoBlock, roots |-> roots]
NoPage     == NewPage("None", NoId, {})
ZeroPage   == NewPage("Zero", NoId, {})
FreePage(next) == [NewPage("Free", NoId, {}) EXCEPT !.next = next]

IsGrouped(b) == page[b].kind \in {"Record", "Node"}

(* anchored: frontier_root is present; frontier is the block it names. *)
Snapshot == [id : OwnerOrNone, head : BlockOrNone, tail : BlockOrNone,
             root : BlockOrNone, anchored : BOOLEAN, frontier : BlockOrNone,
             valid : BOOLEAN, after : OwnerOrNone]

NewSnapshot(id, after) ==
  [id |-> id, head |-> NoBlock, tail |-> NoBlock, root |-> NoBlock,
   anchored |-> FALSE, frontier |-> NoBlock, valid |-> FALSE, after |-> after]

NoSnapshot == NewSnapshot(NoId, NoOwner)

Delta == [snap : Snapshot, before : OwnerOrNone, level : Nat]

GroupRetired == [id : OwnerOrNone, head : BlockOrNone, tail : BlockOrNone]
NoJournal == [id |-> NoId, head |-> NoBlock, tail |-> NoBlock]

(* GroupState::latest() and delta_count() *)
DeltaCount == Len(deltas)
Latest == IF deltas = <<>> THEN active ELSE deltas[DeltaCount].snap

(* grouped_delta_span(): incarnations handed out above the newest fence,   *)
(* when next is the next to be handed out                                  *)
DeltaSpan(next) == next - Latest.id - 1

(* The generations a reader of the metapage visits, oldest first. *)
Generations == <<active>> \o [i \in 1 .. DeltaCount |-> deltas[i].snap]

(* What a generation's liveness records hold, found by the identity stamped *)
(* on its pages.                                                           *)
Members(id) == UNION {page[b].roots : b \in {c \in Block : page[c].id = id}}

(* The documents above the newest fence, which a frontier scan reads from  *)
(* the canonical index.                                                    *)
Frontier == {o \in live : o > Latest.id}

(* The documents an exact scan finds. *)
View == IF active.id = NoId THEN live
        ELSE Frontier \cup UNION {Members(Generations[i].id) : i \in 1 .. (DeltaCount + 1)}

-----------------------------------------------------------------------------
(* The operation under way *)

NoJob == [stage |-> "idle", then |-> "end", op |-> "none", snap |-> NoSnapshot,
          before |-> NoOwner, level |-> 0, from |-> 0, left |-> {}, blk |-> NoBlock]

Stage == {"idle", "recover", "capture", "begin", "write", "anchors",
          "publish", "retire", "owners", "failed"}

Job == [stage : Stage, then : {"end", "capture", "retire"},
        op : {"none", "rebuild", "seal", "vacuum"}, snap : Snapshot,
        before : OwnerOrNone, level : Nat, from : Nat,
        left : SUBSET Incarnation, blk : BlockOrNone]

Idle == job.stage = "idle"

Init ==
  /\ inc = 1
  /\ last = NoOwner
  /\ published = {}
  /\ live = {}
  /\ dead = {}
  /\ page = [b \in Block |-> NoPage]
  /\ size = 0
  /\ free = NoBlock
  /\ active = NoSnapshot
  /\ deltas = <<>>
  /\ journal = NoJournal
  /\ retired = <<>>
  /\ job = NoJob
  /\ budget = MaxNew
  /\ due = 0
  /\ crashes = 0
  /\ abandoned = 0

-----------------------------------------------------------------------------
(* Insertions and deletions, as grouped storage sees them *)

(* Fault: a full stack of deltas is sealed once more. *)
FaultDeltaMaintenanceFull(next) ==
  IF active.id = NoId THEN "Rebuild"
  ELSE IF DeltaSpan(next) < SealOwners THEN "None"
  ELSE "Seal"

(* delta_maintenance() *)
DeltaMaintenance(next) ==
  IF active.id = NoId THEN "Rebuild"
  ELSE IF DeltaSpan(next) < SealOwners THEN "None"
  ELSE IF DeltaCount = Segments THEN "Rebuild"
  ELSE "Seal"

(* reserve_incarnation() *)
CanReserve == inc <= MaxInc /\ budget > 0
Reserve == CanReserve /\ inc' = inc + 1 /\ budget' = budget - 1

(* insert(): the owner enters the chain with the next incarnation; an      *)
(* insertion that fails afterwards leaves a slot that is never published.  *)
Insert(completes) ==
  /\ Idle
  /\ Reserve
  /\ last' = inc
  /\ published' = IF completes THEN published \cup {inc} ELSE published
  /\ live' = IF completes THEN live \cup {inc} ELSE live
  /\ due' = IF completes /\ DeltaMaintenance(inc + 1) # "None" /\ due < MaxDue THEN due + 1 ELSE due
  /\ UNCHANGED <<dead, page, size, free, active, deltas, journal, retired, job, crashes, abandoned>>

(* The host declares the root of a document dead. *)
HeapDelete(o) ==
  /\ o \in live \ dead
  /\ Cardinality(dead) < MaxDead
  /\ dead' = dead \cup {o}
  /\ UNCHANGED <<inc, last, published, live, pages, group, job, budget, due, crashes, abandoned>>

(* invalidate(): committed before a canonical chain is rewritten. *)
Invalidate ==
  /\ Idle
  /\ active.valid
  /\ active' = [active EXCEPT !.valid = FALSE]
  /\ UNCHANGED <<inc, canonical, pages, deltas, journal, retired, job, budget, due, crashes,
               abandoned>>

-----------------------------------------------------------------------------
(* Maintenance begins *)

(* needs_rebuild() *)
NeedsRebuild ==
  \/ active.id = NoId
  \/ active.after # last
  \/ FrontierAnchors /\ ~active.valid

BuildJob(op) == [NoJob EXCEPT !.stage = "recover", !.then = "capture", !.op = op]

(* insert() with delta_due, after it has released the writer interlock:    *)
(* maintain_delta() under both barriers decides again.                     *)
MaintainBegin ==
  /\ Idle /\ due > 0
  /\ due' = due - 1
  /\ job' = CASE DeltaMaintenance(inc) = "None"    -> job
              [] DeltaMaintenance(inc) = "Rebuild" -> IF NeedsRebuild THEN BuildJob("rebuild") ELSE job
              [] DeltaMaintenance(inc) = "Seal"    -> BuildJob("seal")
  /\ UNCHANGED <<inc, canonical, pages, group, budget, crashes, abandoned>>

(* maintain_delta() or rebuild() when the host refuses the sort memory. *)
MaintainSkipped ==
  /\ Idle /\ due > 0
  /\ due' = due - 1
  /\ UNCHANGED <<inc, canonical, pages, group, job, budget, crashes, abandoned>>

(* compact_cleanup() calls rebuild() after compaction. *)
CleanupBegin ==
  /\ Idle
  /\ NeedsRebuild
  /\ job' = BuildJob("rebuild")
  /\ UNCHANGED <<inc, canonical, pages, group, budget, due, crashes, abandoned>>

(* vacuum(): the removable roots stay the same for the whole pass. *)
VacuumBegin ==
  /\ Idle
  /\ job' = [NoJob EXCEPT !.stage = "recover", !.then = "retire", !.op = "vacuum",
                          !.left = dead]
  /\ UNCHANGED <<inc, canonical, pages, group, budget, due, crashes, abandoned>>

-----------------------------------------------------------------------------
(* recover() *)

(* inspect(): the chain from head to tail carries one identity. *)
Inspect(id, head, tail) ==
  LET reach[n \in 0 .. MaxBlocks] ==
        [b \in BlockOrNone |->
           /\ n > 0 /\ b # NoBlock
           /\ IsGrouped(b) /\ page[b].id = id
           /\ IF b = tail THEN page[b].next = NoBlock ELSE reach[n - 1][page[b].next]]
  IN  IF head = NoBlock THEN tail = NoBlock ELSE reach[MaxBlocks][head]

FreeHead(b) ==
  /\ page' = [page EXCEPT ![b] = FreePage(free)]
  /\ free' = b

Following(entry) ==
  IF entry.head = entry.tail THEN NoBlock ELSE page[entry.head].next

RecoverEmptyJournal ==
  /\ job.stage = "recover"
  /\ journal.id # NoId /\ journal.head = NoBlock
  /\ journal' = NoJournal
  /\ UNCHANGED <<inc, canonical, pages, active, deltas, retired, job, budget, due, crashes, abandoned>>

(* Fault: the page is freed and the journal keeps naming it. *)
FaultRecoverJournal ==
  /\ job.stage = "recover"
  /\ journal.id # NoId /\ journal.head # NoBlock
  /\ FreeHead(journal.head)
  /\ journal' = IF Following(journal) = NoBlock THEN NoJournal ELSE journal
  /\ UNCHANGED <<inc, canonical, size, active, deltas, retired, job, budget, due, crashes, abandoned>>

RecoverJournal ==
  /\ job.stage = "recover"
  /\ journal.id # NoId /\ journal.head # NoBlock
  /\ Inspect(journal.id, journal.head, journal.tail)
  /\ FreeHead(journal.head)
  /\ journal' = IF Following(journal) = NoBlock THEN NoJournal
                ELSE [journal EXCEPT !.head = Following(journal)]
  /\ UNCHANGED <<inc, canonical, size, active, deltas, retired, job, budget, due, crashes, abandoned>>

RecoverRetired ==
  LET first == Head(retired) IN
  /\ job.stage = "recover"
  /\ journal.id = NoId /\ retired # <<>>
  /\ Inspect(first.id, first.head, first.tail)
  /\ FreeHead(first.head)
  /\ retired' = IF Following(first) = NoBlock THEN Tail(retired)
                ELSE [retired EXCEPT ![1].head = Following(first)]
  /\ UNCHANGED <<inc, canonical, size, active, deltas, journal, job, budget, due, crashes, abandoned>>

(* Fault: the retired generations are left for a later pass. *)
FaultRecoverDone ==
  /\ job.stage = "recover"
  /\ journal.id = NoId
  /\ job' = IF job.then = "end" THEN NoJob ELSE [job EXCEPT !.stage = job.then]
  /\ UNCHANGED <<inc, canonical, pages, group, budget, due, crashes, abandoned>>

RecoverDone ==
  /\ job.stage = "recover"
  /\ journal.id = NoId /\ retired = <<>>
  /\ job' = IF job.then = "end" THEN NoJob ELSE [job EXCEPT !.stage = job.then]
  /\ UNCHANGED <<inc, canonical, pages, group, budget, due, crashes, abandoned>>

-----------------------------------------------------------------------------
(* A build: capture, begin, append, publish *)

(* The newest deltas that a seal absorbs: as many as carry the levels 0,   *)
(* 1, 2, ... counted from the newest.                                      *)
Absorbed ==
  CHOOSE n \in 0 .. DeltaCount :
    /\ \A j \in 1 .. n : deltas[DeltaCount - j + 1].level = j - 1
    /\ n < DeltaCount => deltas[DeltaCount - n].level # n

SealBefore ==
  IF Absorbed = 0 THEN Latest.after ELSE deltas[DeltaCount - Absorbed + 1].before

(* capture() *)
CaptureAll ==
  /\ job.stage = "capture" /\ job.op = "rebuild"
  /\ job' = [job EXCEPT !.stage = "begin", !.left = live, !.snap.after = last]
  /\ UNCHANGED <<inc, canonical, pages, group, budget, due, crashes, abandoned>>

(* Fault: the new delta takes the level of the newest it absorbs. *)
FaultCaptureDeltaLevel ==
  /\ job.stage = "capture" /\ job.op = "seal"
  /\ job' = IF Absorbed >= Segments \/ last = SealBefore
            THEN [job EXCEPT !.stage = "failed"]
            ELSE [job EXCEPT !.stage = "begin", !.snap.after = last, !.before = SealBefore,
                             !.level = Absorbed - 1, !.from = DeltaCount - Absorbed,
                             !.left = {o \in live : o > SealBefore}]
  /\ UNCHANGED <<inc, canonical, pages, group, budget, due, crashes, abandoned>>

(* Fault: the absorbed deltas are not captured again. *)
FaultCaptureDelta ==
  /\ job.stage = "capture" /\ job.op = "seal"
  /\ job' = [job EXCEPT !.stage = "begin", !.snap.after = last, !.before = SealBefore,
                        !.level = Absorbed, !.from = DeltaCount - Absorbed,
                        !.left = {o \in live : o > Latest.after}]
  /\ UNCHANGED <<inc, canonical, pages, group, budget, due, crashes, abandoned>>

(* seal_delta() plans like a binary counter; capture_delta() *)
CaptureDelta ==
  /\ job.stage = "capture" /\ job.op = "seal"
  /\ job' = IF Absorbed >= Segments \/ last = SealBefore
            THEN [job EXCEPT !.stage = "failed"]
            ELSE [job EXCEPT !.stage = "begin", !.snap.after = last, !.before = SealBefore,
                             !.level = Absorbed, !.from = DeltaCount - Absorbed,
                             !.left = {o \in live : o > SealBefore}]
  /\ UNCHANGED <<inc, canonical, pages, group, budget, due, crashes, abandoned>>

(* begin(), whose own recover() has nothing left to do. *)
Begin ==
  /\ job.stage = "begin"
  /\ Reserve
  /\ journal' = [id |-> inc, head |-> NoBlock, tail |-> NoBlock]
  /\ job' = [job EXCEPT !.stage = "write", !.snap.id = inc]
  /\ UNCHANGED <<canonical, pages, active, deltas, retired, due, crashes, abandoned>>

(* allocate(): a crash leaves the block all zero. *)
Extend ==
  /\ job.stage \in {"write", "anchors"}
  /\ free = NoBlock /\ job.blk = NoBlock /\ size < MaxBlocks
  /\ size' = size + 1
  /\ page' = [page EXCEPT ![size + 1] = ZeroPage]
  /\ job' = [job EXCEPT !.blk = size + 1]
  /\ UNCHANGED <<inc, canonical, free, group, budget, due, crashes, abandoned>>

HasBlock == free # NoBlock \/ job.blk # NoBlock
NextBlock == IF free # NoBlock THEN free ELSE job.blk

(* append(): the page, the link from the old tail and the journal in one   *)
(* commit.                                                                 *)
Append1(p) ==
  LET b == NextBlock IN
  /\ HasBlock
  /\ page' = [c \in Block |-> IF c = b THEN p
                              ELSE IF c = journal.tail THEN [page[c] EXCEPT !.next = b]
                              ELSE page[c]]
  /\ free' = IF free # NoBlock THEN page[free].next ELSE free
  /\ journal' = [journal EXCEPT !.head = IF @ = NoBlock THEN b ELSE @, !.tail = b]

Appended(s) == [s EXCEPT !.head = IF @ = NoBlock THEN NextBlock ELSE @, !.tail = NextBlock]

InGroup(g) == {o \in job.left : o % HeapGroups = g}

(* seal() and write_record(): the documents of one heap group, in the      *)
(* order of the sorted rows; one page stands for the group's records.      *)
WriteGroup(g) ==
  /\ job.stage = "write"
  /\ InGroup(g) # {} /\ \A h \in 0 .. (g - 1) : InGroup(h) = {}
  /\ Append1(NewPage("Record", job.snap.id, InGroup(g)))
  /\ job' = [job EXCEPT !.left = @ \ InGroup(g), !.snap = Appended(@), !.blk = NoBlock]
  /\ UNCHANGED <<inc, canonical, size, active, deltas, retired, budget, due, crashes, abandoned>>

AfterCatalog == IF FrontierAnchors /\ job.op = "rebuild" THEN "anchors" ELSE "publish"

(* CatalogBuilder::finish(): the root is the last node written. *)
FinishCatalog ==
  /\ job.stage = "write" /\ job.left = {} /\ job.snap.head # NoBlock
  /\ Append1(NewPage("Node", job.snap.id, {}))
  /\ job' = [job EXCEPT !.stage = AfterCatalog, !.blk = NoBlock,
                        !.snap = [Appended(@) EXCEPT !.root = NextBlock]]
  /\ UNCHANGED <<inc, canonical, size, active, deltas, retired, budget, due, crashes, abandoned>>

(* No live document: no page is written. *)
FinishEmpty ==
  /\ job.stage = "write" /\ job.left = {} /\ job.snap.head = NoBlock
  /\ job' = [job EXCEPT !.stage = AfterCatalog]
  /\ UNCHANGED <<inc, canonical, pages, group, budget, due, crashes, abandoned>>

(* The anchors of every term of the dictionary, live or not. *)
FinishAnchors ==
  /\ job.stage = "anchors" /\ last # NoOwner
  /\ Append1(NewPage("Node", job.snap.id, {}))
  /\ job' = [job EXCEPT !.stage = "publish", !.blk = NoBlock,
                        !.snap = [Appended(@) EXCEPT !.anchored = TRUE, !.valid = TRUE,
                                                     !.frontier = NextBlock]]
  /\ UNCHANGED <<inc, canonical, size, active, deltas, retired, budget, due, crashes, abandoned>>

(* No document had a term: the anchor catalog is empty. *)
FinishNoAnchors ==
  /\ job.stage = "anchors"
  /\ job' = [job EXCEPT !.stage = "publish", !.snap.anchored = TRUE, !.snap.valid = TRUE]
  /\ UNCHANGED <<inc, canonical, pages, group, budget, due, crashes, abandoned>>

(* verify_build() *)
VerifyBuild ==
  LET s == job.snap IN
  /\ ~s.anchored => s.root = s.tail
  /\ Inspect(s.id, s.head, s.tail)
  /\ \A b \in {s.root, s.frontier} \ {NoBlock} : page[b].kind = "Node" /\ page[b].id = s.id
  /\ journal = [id |-> s.id, head |-> s.head, tail |-> s.tail]

(* Fault: a generation without pages is queued too. *)
FaultRetiring(snapshots) ==
  [i \in 1 .. Len(snapshots) |-> [id |-> snapshots[i].id, head |-> snapshots[i].head,
                                  tail |-> snapshots[i].tail]]

(* retired(): what the queue keeps of the generations that have pages *)
Retiring(snapshots) ==
  LET queue[i \in 0 .. Len(snapshots)] ==
        IF i = 0 THEN <<>>
        ELSE IF snapshots[i].head = NoBlock THEN queue[i - 1]
        ELSE Append(queue[i - 1], [id |-> snapshots[i].id, head |-> snapshots[i].head,
                                   tail |-> snapshots[i].tail])
  IN  queue[Len(snapshots)]

Published == [job EXCEPT !.stage = "recover", !.then = "end", !.snap = NoSnapshot]

(* Fault: the deltas under the new generation are forgotten, not retired. *)
FaultPublish ==
  /\ job.stage = "publish" /\ job.op = "rebuild"
  /\ VerifyBuild /\ retired = <<>>
  /\ retired' = Retiring(IF active.id = NoId THEN <<>> ELSE <<active>>)
  /\ active' = job.snap
  /\ deltas' = <<>>
  /\ journal' = NoJournal
  /\ job' = Published
  /\ UNCHANGED <<inc, canonical, pages, budget, due, crashes, abandoned>>

(* publish(): one commit makes the new generation active and queues the    *)
(* old ones.                                                               *)
Publish ==
  /\ job.stage = "publish" /\ job.op = "rebuild"
  /\ VerifyBuild /\ retired = <<>>
  /\ retired' = Retiring(IF active.id = NoId THEN <<>> ELSE Generations)
  /\ active' = job.snap
  /\ deltas' = <<>>
  /\ journal' = NoJournal
  /\ job' = Published
  /\ UNCHANGED <<inc, canonical, pages, budget, due, crashes, abandoned>>

(* Fault: the absorbed deltas keep their slots. *)
FaultPublishDelta ==
  /\ job.stage = "publish" /\ job.op = "seal"
  /\ VerifyBuild /\ active.id # NoId /\ retired = <<>>
  /\ retired' = Retiring([i \in 1 .. (DeltaCount - job.from) |-> deltas[job.from + i].snap])
  /\ deltas' = Append(deltas,
                      [snap |-> job.snap, before |-> job.before, level |-> job.level])
  /\ journal' = NoJournal
  /\ job' = Published
  /\ UNCHANGED <<inc, canonical, pages, active, budget, due, crashes, abandoned>>

(* publish_delta(): the new delta replaces the ones it absorbed. *)
PublishDelta ==
  /\ job.stage = "publish" /\ job.op = "seal"
  /\ VerifyBuild /\ active.id # NoId /\ retired = <<>>
  /\ job.from <= DeltaCount
  /\ job.before = IF job.from = DeltaCount THEN Latest.after ELSE deltas[job.from + 1].before
  /\ retired' = Retiring([i \in 1 .. (DeltaCount - job.from) |-> deltas[job.from + i].snap])
  /\ deltas' = Append(SubSeq(deltas, 1, job.from),
                      [snap |-> job.snap, before |-> job.before, level |-> job.level])
  /\ journal' = NoJournal
  /\ job' = Published
  /\ UNCHANGED <<inc, canonical, pages, active, budget, due, crashes, abandoned>>

-----------------------------------------------------------------------------
(* vacuum(): shared liveness first, then the owner slots, then zero pages *)

Dirty(i) == {b \in Block : page[b].id = Generations[i].id /\ page[b].roots \cap job.left # {}}

AllDirty == IF active.id = NoId THEN {} ELSE UNION {Dirty(i) : i \in 1 .. (DeltaCount + 1)}

(* retire_snapshot(): one liveness record, the generations in order *)
RetireRecord(b) ==
  /\ job.stage = "retire"
  /\ active.id # NoId
  /\ \E i \in 1 .. (DeltaCount + 1) :
       b \in Dirty(i) /\ \A j \in 1 .. (i - 1) : Dirty(j) = {}
  /\ page' = [page EXCEPT ![b].roots = @ \ job.left]
  /\ UNCHANGED <<inc, canonical, size, free, group, job, budget, due, crashes, abandoned>>

(* Fault: only the active generation is retired. *)
FaultRetireDone ==
  /\ job.stage = "retire"
  /\ active.id = NoId \/ Dirty(1) = {}
  /\ job' = [job EXCEPT !.stage = "owners"]
  /\ UNCHANGED <<inc, canonical, pages, group, budget, due, crashes, abandoned>>

RetireDone ==
  /\ job.stage = "retire"
  /\ AllDirty = {}
  /\ job' = [job EXCEPT !.stage = "owners"]
  /\ UNCHANGED <<inc, canonical, pages, group, budget, due, crashes, abandoned>>

(* The owner slots of one page *)
RemoveOwners(gone) ==
  /\ job.stage = "owners"
  /\ gone # {} /\ gone \subseteq live \cap job.left
  /\ live' = live \ gone
  /\ UNCHANGED <<inc, last, published, dead, pages, group, job, budget, due, crashes, abandoned>>

(* references(): some page or the metapage still names the block. *)
Referenced(b) ==
  \/ b \in {active.head, active.tail, active.root, active.frontier, journal.head, journal.tail}
  \/ \E i \in 1 .. DeltaCount :
       b \in {deltas[i].snap.head, deltas[i].snap.tail, deltas[i].snap.root}
  \/ \E i \in 1 .. Len(retired) : b \in {retired[i].head, retired[i].tail}
  \/ \E c \in Block : page[c].next = b

ReclaimZero(b) ==
  /\ job.stage = "owners" /\ live \cap job.left = {}
  /\ page[b].kind = "Zero" /\ ~Referenced(b)
  /\ FreeHead(b)
  /\ UNCHANGED <<inc, canonical, size, group, job, budget, due, crashes, abandoned>>

(* The host may now give the dead roots to new tuples. *)
VacuumEnd ==
  /\ job.stage = "owners" /\ live \cap job.left = {}
  /\ \A b \in Block : page[b].kind # "Zero"
  /\ dead' = dead \ job.left
  /\ job' = NoJob
  /\ UNCHANGED <<inc, last, published, live, pages, group, budget, due, crashes, abandoned>>

-----------------------------------------------------------------------------
(* The operation is over and its locals are gone. *)
Ended ==
  /\ job' = NoJob
  /\ abandoned' = IF job.snap.id = NoId THEN abandoned ELSE abandoned + 1

(* A crash, a cancellation or a host error *)
Interrupt ==
  /\ ~Idle
  /\ crashes < MaxCrashes
  /\ crashes' = crashes + 1
  /\ Ended
  /\ UNCHANGED <<inc, canonical, pages, group, budget, due>>

(* The relation or the incarnations are at their bound: the build ends     *)
(* with an error.                                                          *)
OutOfSpace ==
  /\ \/ job.stage = "begin" /\ ~CanReserve
     \/ job.stage \in {"write", "anchors"} /\ ~HasBlock /\ size = MaxBlocks
  /\ Ended
  /\ UNCHANGED <<inc, canonical, pages, group, budget, due, crashes>>

(* The error of seal_delta() ends the insertion that asked for it. *)
SealRefused ==
  /\ job.stage = "failed"
  /\ Ended
  /\ UNCHANGED <<inc, canonical, pages, group, budget, due, crashes>>

Build ==
  \/ CaptureAll \/ CaptureDelta \/ Begin \/ Extend
  \/ \E g \in 0 .. (HeapGroups - 1) : WriteGroup(g)
  \/ FinishCatalog \/ FinishEmpty \/ FinishAnchors \/ FinishNoAnchors
  \/ Publish \/ PublishDelta \/ OutOfSpace \/ SealRefused

Vacuum ==
  \/ \E b \in Block : RetireRecord(b) \/ ReclaimZero(b)
  \/ RetireDone \/ VacuumEnd
  \/ \E gone \in SUBSET (live \cap job.left) : RemoveOwners(gone)

Recover == RecoverEmptyJournal \/ RecoverJournal \/ RecoverRetired \/ RecoverDone

Step == Recover \/ Build \/ Vacuum

Next ==
  \/ \E completes \in BOOLEAN : Insert(completes)
  \/ \E o \in live : HeapDelete(o)
  \/ Invalidate
  \/ MaintainBegin \/ MaintainSkipped \/ CleanupBegin \/ VacuumBegin
  \/ Step
  \/ Interrupt

Spec == Init /\ [][Next]_vars

(* Once started, an operation runs on until it ends or is interrupted, and *)
(* autovacuum keeps coming back.                                           *)
Fairness == WF_vars(Step) /\ SF_vars(VacuumBegin)

-----------------------------------------------------------------------------
(* Properties *)

(* Type correctness: every stored generation, journal entry and page stays *)
(* inside the records the metapage format defines, whatever the order of   *)
(* builds, vacuum passes and crashes.                                      *)
GroupTypeOK ==
  /\ inc \in 1 .. (MaxInc + 1)
  /\ last \in OwnerOrNone
  /\ published \subseteq Incarnation
  /\ live \subseteq published
  /\ dead \subseteq Incarnation
  /\ page \in [Block -> GroupPage]
  /\ size \in BlockOrNone
  /\ free \in BlockOrNone
  /\ active \in Snapshot
  /\ deltas \in Seq(Delta)
  /\ journal \in GroupRetired
  /\ retired \in Seq(GroupRetired)
  /\ job \in Job
  /\ budget \in Nat
  /\ due \in 0 .. MaxDue
  /\ crashes \in 0 .. MaxCrashes
  /\ abandoned \in 0 .. MaxInc

(* validate_snapshot() *)
SnapshotValid(s, allowFrontier) ==
  /\ (s.head = NoBlock) = (s.tail = NoBlock)
  /\ (s.head = NoBlock) = (s.root = NoBlock /\ s.frontier = NoBlock)
  /\ s.anchored => allowFrontier
  /\ ~s.anchored => s.root = s.tail /\ s.frontier = NoBlock
  /\ s.frontier # NoBlock => s.frontier # s.root
  /\ s.valid => s.anchored
  /\ s.after < s.id

(* The fence under delta i: the end of what the generations below cover. *)
FenceBelow(i) == IF i = 1 THEN active ELSE deltas[i - 1].snap

DeltaValid(i) ==
  /\ SnapshotValid(deltas[i].snap, FALSE)
  /\ deltas[i].level < Segments
  /\ i > 1 => deltas[i - 1].level > deltas[i].level
  /\ deltas[i].before = FenceBelow(i).after
  /\ deltas[i].before < deltas[i].snap.after
  /\ FenceBelow(i).id < deltas[i].snap.id

(* grouped_state() and set_grouped_state() accept the grouped state after  *)
(* every commit: the deltas are a chain of adjoining owner ranges with     *)
(* strictly falling levels and rising identities, the queues fit their     *)
(* arrays, and no identity has two roles.  A state they refuse would make  *)
(* every later scan, vacuum pass and build of the index fail.              *)
GroupStateValid ==
  /\ active.id # NoId => SnapshotValid(active, TRUE)
  /\ deltas # <<>> => active.id # NoId
  /\ DeltaCount <= Segments
  /\ \A i \in 1 .. DeltaCount : DeltaValid(i)
  /\ Len(retired) <= Segments + 1
  /\ (journal.head = NoBlock) = (journal.tail = NoBlock)
  /\ journal.id # NoId => Latest.id < journal.id
  /\ \A i \in 1 .. Len(retired) :
       /\ retired[i].head # NoBlock /\ retired[i].tail # NoBlock
       /\ retired[i].id < inc /\ retired[i].id # journal.id
       /\ \A j \in 1 .. (DeltaCount + 1) : Generations[j].id # retired[i].id
  /\ Latest.id < inc /\ journal.id < inc

(* Every chain the metapage names can be walked by inspect(), a build that *)
(* reaches publication passes verify_build(), and a seal has owners to     *)
(* seal and a level left to put them on: recovery after a crash and the    *)
(* next maintenance are not refused.  One refusal is possible: identities  *)
(* of abandoned builds count towards the span that makes a seal due, so    *)
(* after SealOwners of them a seal may find no new owner.                  *)
MaintenanceAccepted ==
  /\ Inspect(journal.id, journal.head, journal.tail)
  /\ \A i \in 1 .. Len(retired) : Inspect(retired[i].id, retired[i].head, retired[i].tail)
  /\ \A i \in 1 .. (DeltaCount + 1) :
       Inspect(Generations[i].id, Generations[i].head, Generations[i].tail)
  /\ job.stage = "publish" => /\ VerifyBuild /\ retired = <<>>
                              /\ job.op = "seal" =>
                                   job.before = IF job.from = DeltaCount THEN Latest.after
                                                ELSE deltas[job.from + 1].before
  /\ job.stage = "failed" => abandoned >= SealOwners

(* A document is found exactly once by a scan of the generations and the   *)
(* frontier: none is lost between two fences, none is in two generations,  *)
(* and a removed one stays only until the running vacuum pass is over.     *)
CoverageExact ==
  active.id # NoId =>
    /\ View \subseteq live
    /\ live \ View \subseteq dead
    /\ \A i, j \in 1 .. (DeltaCount + 1) :
         i # j => Members(Generations[i].id) \cap Members(Generations[j].id) = {}
    /\ \A i \in 1 .. (DeltaCount + 1) : Members(Generations[i].id) \cap Frontier = {}

(* The identities that the metapage names. *)
NamedIds == ({journal.id} \cup {Generations[i].id : i \in 1 .. (DeltaCount + 1)}
               \cup {retired[i].id : i \in 1 .. Len(retired)}) \ {NoId}

FreeBlocks ==
  LET from[n \in 0 .. MaxBlocks] ==
        [b \in BlockOrNone |->
           IF n = 0 \/ b = NoBlock THEN {} ELSE {b} \cup from[n - 1][page[b].next]]
  IN  from[MaxBlocks][free]

(* No page is lost and none is in two places: a grouped page carries the   *)
(* identity of a generation, build or retired chain the metapage names,    *)
(* and the free list holds the free pages and nothing else.                *)
GroupPagesAccounted ==
  /\ \A b \in Block : IsGrouped(b) => page[b].id \in NamedIds
  /\ \A b \in Block : (page[b].kind = "Free") = (b \in FreeBlocks)

(* While a reader may be inside a generation, which is as long as it stays *)
(* published, its pages keep their place; only liveness bits go out.       *)
PublishedPagesStable ==
  [][\A i \in 1 .. (DeltaCount + 1) : \A b \in Block :
       /\ Generations[i].id # NoId /\ page[b].id = Generations[i].id
       /\ \E j \in 1 .. (Len(deltas') + 1) : Generations'[j].id = Generations[i].id
       => /\ page'[b].id = page[b].id /\ page'[b].next = page[b].next
          /\ page'[b].roots \subseteq page[b].roots]_vars

(* Every operation ends: recovery, captures and vacuum sweeps terminate. *)
MaintenanceEnds == (job.stage # "idle") ~> (job.stage = "idle")

(* An abandoned build and the generations that a published one replaced    *)
(* give their pages back by the next pass that is not interrupted.         *)
DebrisReclaimed ==
  (journal.id # NoId \/ retired # <<>>) ~> (journal.id = NoId /\ retired = <<>>)

(* Refinement: every step is a step of DocumentIndex, for a single term,   *)
(* or changes nothing a reader can tell: builds, recovery and crashes      *)
(* neither lose nor revive a document.  A dead document counts as present  *)
(* until its slot is removed: an interrupted vacuum pass may have cleared  *)
(* its shared liveness, and the next build, which captures the slots,      *)
(* brings it back while the host still hides the tuple.                    *)
Index == INSTANCE DocumentIndex WITH
  Term <- {"t"}, Owner <- Incarnation,
  postings <- {"t"} \X (View \cup (live \cap dead)),
  published <- {<<o, {"t"}>> : o \in published},
  removable <- dead

StepsImplementIndex ==
  [][Index!Next]_<<{"t"} \X (View \cup (live \cap dead)), published, dead>>

=============================================================================
