# PIN mutable index: TLA+ models, model checking and proofs

PIN is an inverted index for PostgreSQL, written in Rust with a small C shim. Its
core (`crates/pin-core`) is a page-store format and the operations over it; its
adapter (`crates/pin-pg`) supplies buffers, WAL records, locks and the executor
interface. This directory holds the TLA+ specifications of the part that decides
whether documents can be lost, duplicated or resurrected: the mutable page file,
its three writers (insertion, vacuum, compaction), the grouped generations built over
it, what a crash leaves of any of them, the readers that run beside them, and the
locks of several backends that keep them apart.

Paths below are relative to the repository root.

## 1. Inventory

### The system's parts

| Part | State | Operations | Modelled in |
|---|---|---|---|
| Page format and store (`mutable/page.rs`, `mutable/mod.rs`) | pages with a kind and a link, metapage, dictionary entries, owner slots, free list, journal | `load`, `commit` (one atomic WAL batch), `allocate`/`extend` | `PageFile` |
| Insertion (`mutable/writer.rs`) | private metapage image, owner, payload head | `insert`, `reserve_owner`, `link_term` | `Writer` |
| Compaction and recovery (`mutable/compact.rs`) | private metapage image, rewrite cursor, output page | `compact_with_mode`, `rewrite`, `persist_output`, `recover` | `Compact` |
| Vacuum (`mutable/vacuum.rs`) | dead-root callback, sweep position, zero-block set | `vacuum`, `remove_owners`, `reclaim`, `check_unreferenced` | `Vacuum` |
| Plain and parallel scan (`mutable/work.rs`, `cshim/pin_storage.c`, `am.rs`) | shared coordination words, private successor and batch | `capture`, `prepare`, snapshot, claim, emit, rescan | `ScanWork` |
| Exact phrase reader (`mutable/query.rs`, `phrase_prefix.rs`) | private owner-page copy, fragment cursor | `resolve_phrase`, fragment traversal | `PhraseScan` |
| PostgreSQL adapter (`pin-pg/src/storage.rs`, `parallel.rs`, `am.rs`, `cshim/pin_storage.c`) | writer interlock, structural barrier, pins, relation size | lock, extend, generic WAL, cleanup-locked removal | guards of the modules above; `Interlocks` |
| Counts (`mutable/count.rs`, `pin-pg/src/count.rs`, `grouped_count.rs`, `cshim/pin_count.c`) | shared work word, team, owner-page pins, tallies | open, claim, flush, visibility, gather | `Interlocks` |
| Grouped storage (`mutable/grouped/storage.rs`, `build.rs`, `vacuum.rs`, `page_grouped.rs`) | active generation, deltas, journal, retired queue | `rebuild`, `seal_delta`, `publish`, `publish_delta`, `recover`, `retire` | `GroupedStore` |
| Grouped scan, anchors, frontier (`grouped/scan.rs`, `anchors.rs`, `frontier.rs`) | captured metapage and terms, cursors, owner walk | `scan_exact`, `lookup`, `invalidate`, `scan`, `scan_owner_frontier` | `FrontierScan` |
| Query cursors, candidate covers, recheck | iterators | `seek`, cover, filter | no |
| Parallel build scheduling | worker handshake | begin, attach, fail, finish | no |
| Codecs, analysis, ranking, SIMD kernels, pgrx glue | none or bytes | pure functions | see "Not modelled" |

### How the parts interact

* One writer at a time: insertion, vacuum and compaction hold the **writer
  interlock** for the whole operation.
* Readers take the shared side of the **structural barrier**, compaction takes its
  exclusive side. Insertions and vacuum passes take only the interlock, so they run
  *beside* readers.
* Everything durable changes in WAL batches of a few pages (`store.commit`). An
  operation is a sequence of such batches; a crash, a cancellation or a host error
  can end it between any two.
* `recover()` is called by vacuum and by compaction, before their own work, on the
  journal an interrupted compaction left in the metapage.
* Grouped storage shares the free list, the incarnation counter and the metapage with
  the mutable index. Builds hold both exclusive locks; vacuum clears the liveness of
  every generation before it touches an owner slot; a rewrite of a canonical chain is
  preceded by a commit that declares the frontier anchors invalid.
* An insertion that makes maintenance due releases the interlock and then takes the
  exclusive barrier and the interlock again, in this order.
* A count reads under the shared barrier; it keeps an owner page pinned from the check
  of its slots to the last visibility check, and removal waits for the pin with a
  cleanup lock.
* The host calls vacuum with the roots that are dead to every snapshot and may put a
  new tuple at such a root as soon as the pass has returned.

### What is hard

Crashes between the batches of an insertion, of a rewrite and of recovery itself; a
private metapage image that becomes stale when a callee commits its own; a free list
that four operations pop and push; chains that are rewritten, promoted and extended
while a reader holds positions in them; copied heap coordinates that must be gone
before the heap reuses a root; shared scan words replaced by several participants;
deltas merged like a binary counter over a fixed array, with fences that must adjoin;
pages freed one commit at a time from chains that a crash leaves half freed; two locks,
pins and cleanup locks taken in different orders by five kinds of operation.
`PROJECT.json` lists these hazards at the lines where they bite, with the property
that watches each.

### What makes the parts correct

* **Insertion**: nothing of a document is visible before all of it is durable;
  incarnations are never reused.
* **Vacuum**: a root is recycled only when no live slot and no copied coordinate of it
  is left; nothing of a live document is reclaimed; nothing leaks.
* **Compaction and recovery**: they change no answer; whatever an interruption leaves
  is accepted and freed exactly once.
* **Scans**: every document live from start to end is emitted, and none twice.
* **Grouped storage**: every live document is in exactly one generation or beyond the
  newest fence; every state written is one the metapage accepts; replaced pages come
  back exactly once.
* **Counts and locks**: a count equals what its snapshot sees; nothing is rewritten
  under a reader; nobody waits for ever.

## 2. Modules

    PageFile ── Writer ──┐
             ├─ Compact ─┼─ MutableStore ─┬─ MCStore
             └─ Vacuum ──┘      │         ├─ ScanWork ───── MCScan
                                │         ├─ PhraseScan ─── MCPhrase
                                │         └─ FrontierScan ─ MCFrontier
       DocumentIndex ◄──────────┤
        (refinement)            │
                        GroupedStore ── MCGrouped

    Interlocks ── MCLocks

    MutableStore ── MutableStoreProofs ──┐
                               Chains ───┴─ IndexProofs ─┬─ PhraseScanProofs ──── PhraseScan
                                 │                       ├─ ScanWorkProofs ────── ScanWork
                                 │                       └─ FrontierScanProofs ── FrontierScan
                                 ├── GroupedStoreProofs ── GroupedStore
                                 └── InterlocksProofs ──── Interlocks

**PageFile** holds the variables and the format. `page` maps a block to a record
(kind, next link, fragment owner and index, posting term and references, copied
coordinates); `meta` is block 0; `dict` has one entry per term with the state word
`inline` (0, 1, 2 as in `page.rs`); `owner` has one slot per incarnation with its
publication state, root and payload head. `heap` is the host's heap. Variables `pc`,
`m`, `blk`, `ins`, `vac`, `cpt` are the locals of the one operation that holds the
interlock; `m` is its private metapage image and `blk` the block it has allocated and
not yet committed. `EntryValid` is what `Terms::next` demands of an entry,
`CanChange`/`Changed` are `change_owner()`.

**Writer** has one action per WAL batch of `insert()`: three forms of
`reserve_owner()`, a fragment from the free list or from a new block, `PayloadReady`,
eight forms of `link_term()`, and `Publish`.

**Compact** has the visit of each term (`CompactSkip`, `CompactInline`,
`RewriteBegin`), the output pages (`PersistReused`, `PersistAllocated`), the
replacement batch (`PublishReplacement`, or `PublishRejected` when `commit()` refuses
the dictionary page) and the two batch forms of `recover()` (`RecoverOne`,
`RecoverTwo`). Its three modes are `Copy`, `RetainSealedPrefix` and `DirectTid`.

**Vacuum** has the owner pass (`RemoveOwners`, one batch per owner page), the sweep
(`SweepDirect`, `SweepFragment`) and the reclamation of allocation orphans
(`ReclaimZero`), which checks `Unreferenced` as `check_unreferenced()` does.
`VacuumEnd` is where the host recycles the collected roots.

**MutableStore** composes them with the host: deletions, a relation that cannot grow,
and `Interrupt`, which drops the locals and releases the interlock at any point. It
states the invariants, action properties and liveness properties.

**DocumentIndex** is the abstract specification: a set of postings; a document enters
with all its terms in one step and leaves with all of them in one step, after the host
has declared it dead; maintenance and crashes are stuttering.
`MutableStore!ImplementsIndex` maps the page file to it: `postings` are the references
reachable from the dictionary that lead to live slots, `published` the slots ever
published.

**ScanWork** adds a one-term scan with several participants. `capture()` is two
steps, because it reads the relation size and the dictionary entry at different times
while insertions run; `Prepare`, `Claim` and `Emit` are the snapshot, the
compare-and-replace under the spinlock and the resolution of a claimed batch.
`RescanSpec` adds the parallel rescan. **PhraseScan** adds a phrase reader with its
private copy of an owner page and its walk through payload fragments.

**GroupedStore** is the grouped half of the metapage: `active`, `deltas`, `journal` and
`retired` as in `GroupState`, the pages grouped storage uses, the free list, the
incarnation counter, and of the canonical index what grouped storage reads (the last
slot, the live slots). Every commit is an action: `Begin`, `WriteGroup`,
`FinishCatalog`, `FinishAnchors`, `Publish`, `PublishDelta`, the forms of `recover()`
(`RecoverEmptyJournal`, `RecoverJournal`, `RecoverRetired`), `RetireRecord`,
`RemoveOwners`, `ReclaimZero`, `Invalidate`; `Extend` is separate because a crash after
it leaves a zero page. `CaptureDelta` plans a seal: it absorbs the newest deltas with
levels 0, 1, 2, … . `MaintainBegin` decides again under the barriers what the insertion
decided before, as `maintain_delta()` does. `StepsImplementIndex` says that every step
is a step of `DocumentIndex` for the documents an exact scan finds.

**FrontierScan** adds to `MutableStore` the generations as values (`gen`) and one exact
reader: the captured metapage, the capture of each term, the generations, and then the
owners beyond the fence, either by cursors (`CursorOpen`, `CursorAnchor`, `CursorLoad`,
`UniverseLoad`, `SeekDone`, `Filter…`) or by the owner pages and fragments
(`OwnersLoad`, `Fragment…`, with the fallback to cursors). `Matches`, `LowerBound`,
`Universe` and `SeekTerms` are the Boolean program of `compile()`, as recursive
functions over its nodes. Each page the reader loads is one step, so insertions and
vacuum passes fall between any two. A rebuild or a seal is one step here, because it
excludes readers and writers; `GroupedStore` has its commits.

**Interlocks** has several backends, the barrier (shared and exclusive), the writer
interlock (exclusive, and shared by a grouped count), pins of owner pages, PostgreSQL's
lock queue (a request waits behind earlier conflicting ones; a backend that shares the
barrier goes in front of those that wait for it) and its deadlock detector. The
operations are scans with rescans, insertions with maintenance, vacuum, and serial,
parallel and grouped counts with the all-visible bits they trust. A document stands for
its tuple, its slot and its posting.

Definitions whose names begin with `Fault` are deliberately wrong variants of the
definition that follows them: each one is the plausible mistake that a property must
notice. No specification uses them.

### Abstractions

* A document is its number of fragments and its set of terms; positions and payload
  bytes are not kept.
* Capacities are constants, counted in entries and not in bytes.
* A posting page keeps its references as a set, because every page and every traversal
  insists on strictly increasing references.
* One dictionary bucket. Buckets never share a page, so several are several copies.
* The reads of a rewrite happen under both exclusive locks; the live references of the
  source are therefore collected in the step that starts the rewrite.
* Terms of a document are linked in any order, which includes the code's order.
* The sweep is the sequence of its changes, in block order; blocks it leaves alone are
  not steps. `ReclaimZero` likewise.
* `MutableStore` by itself is an index without grouped directory, where
  `grouped::recover`, the retirement in vacuum and the frontier invalidation do nothing.
  `FrontierScan` adds them as steps that must come before the step they guard. The refusal
  of `recover()` while anchors are valid (`compact.rs:400-406`) is a guard of its `WriterStep`.
* The `recover_compaction()` that a rebuild starts with is the recovery of `Compact`, which
  runs under the same locks; `RebuildGeneration` begins where the journal is gone.
* In `GroupedStore` the records of one heap group are one page, and a catalog is one
  node: what matters is which identity a page carries, how the chain is linked and
  which documents a liveness record holds. In `FrontierScan` a generation is a set of
  owners per term; bitmaps and page masks are set operations.
* `Interlocks` keeps one posting page per owner page, one count at a time, and decides
  maintenance by a free choice (`due`); `GroupedStore` has the condition.
* A parallel worker that joins a count takes the shared barrier without waiting behind
  an exclusive request: PostgreSQL's rule for members of a lock group, on which the
  code relies.

## 3. Runs

| Run | Question | Distinct states |
|---|---|---|
| `store_fragments` | Insertions with payload fragments, vacuum and compaction over a recycled free list, a phrase reader beside them, one crash anywhere | 1.36 M |
| `store_compaction` | Compaction that keeps a sealed prefix or writes direct pages, packed dictionary with inline second owners, one crash; chains, recovery, copied coordinates and the refinement | 1.38 M |
| `store_progress` | Three terms over two dictionary pages and documents that share terms, interrupted between links; liveness under `FairSpec` | 127 k |
| `scan_parallel` | Two participants beside insertions, vacuum and compaction | 3.4 M |
| `frontier` | The exact grouped reader with negations, beside insertions, promotions, vacuum, rebuilds and seals; the writers with one crash anywhere, where recovery refuses no journal | 1.16 M |
| `grouped` | Generations, deltas, journal, retirement and the free list, one crash anywhere; coverage, acceptance, refinement, liveness | 198 k |
| `locks` | Three backends: scans, insertions with maintenance, vacuum, the three counts, cancellation; exact counts, deadlock, liveness | 88 k |
| `compact_promoted`, `scan_capture`, `scan_rescan`, `phrase_vacuum`, `lock_upgrade` | Statements of the repository that the code does not keep (section 5) | stop at the violation |

What the safety properties say:

* `PublishedComplete`: every term of a live document leads to it, and its payload is
  all there in order, whatever was interrupted, reclaimed or rewritten since.
* `PagesAccounted`: every written page is in exactly the chain its kind says, no two
  chains share a page, and no page is outside its chain.
* `ChainsIntact`: no traversal meets one of the corruption errors, and every reference
  leads to a slot that was written for a document with that term.
* `FreeListSound`: the free list runs through free pages, none twice.
* `ImageCurrent`: outside recovery the private metapage is the durable one, and an
  allocated block is unwritten and held only by a stage that will write it.
* `RecoveryAccepts`: recovery never refuses what a crash left, and a vacuum pass never
  meets a zero block that something names.
* `NoStaleRoot`: a root that the heap may reuse has neither a live owner nor a live
  copied coordinate.
* `OwnerNeverRevived`: what a step may do to a slot. `VacuumLeavesNoDebris`: when a pass
  returns, every block of the relation is one that the metapage, an entry or a live
  document leads to, no page is held by the journal, and no slot is still of an
  unfinished insertion, whatever was interrupted before.
* `ImplementsIndex`: refinement of `DocumentIndex`.
* `EmittedOnce`, `CapturedWorkReadable`, `ScanComplete`: the scan hands out nothing
  twice, never reads a recycled page, and misses nothing.
* `LivePayloadReadable`, `ImageBehindPage`: the payload of a live document can be read
  from an old owner-page copy, and the copy never runs ahead of the page.
* `GroupStateValid`: the deltas are adjoining owner ranges with falling levels and rising
  identities, as `validate()` demands at every access. `MaintenanceAccepted`: every chain
  the metapage names can be walked, and neither a publication nor a seal is refused. One
  refusal is real: identities of abandoned builds count towards the span that makes a
  seal due, so a seal may find no new owner and end the insertion with an error.
* `CoverageExact`, `GroupPagesAccounted`: every document is found exactly once over all
  generations and the frontier; every grouped page belongs to something named.
* `PublishedPagesStable`, `StepsImplementIndex`: what a step may do to a published
  generation, and to the documents a scan finds.
* `AnchorsCurrent`, `FrontierExact`, `FrontierReadable`: anchors that are declared valid
  are; the exact reader neither misses nor invents a match nor counts one twice; it
  takes nothing that a writer does for corruption, save the fragments of a document
  removed since its owner page was copied (the exposure of `phrase_vacuum`, here in
  `fragment_membership()`).
* `JournalRecoverable`: `recover()` takes valid anchors beside a journal for corruption;
  it never meets them, and accepts the pages of every journal.
* `ReadersProtected`, `CountExact`, `DeadlockOnlyByUpgrade`: exclusion of readers,
  counts and writers; counts equal to their snapshot; a circle of waiters only where
  insertions with open scans upgrade the barrier.

### Bounds, and why they are enough

`MaxBlocks`, `MaxOwners`, `MaxCrashes`, `MaxDead` and the page capacities are the only
bounds, all in guards and all named.

* Capacities of 1 to 4 entries make every "page full" branch happen within a few
  insertions; 2 mutable references and 1 sealed reference per page give chains of
  several pages, and an odd number of journal pages as well as an even one.
* `MaxOwners` (2 to 4, 7 with a prepared start in `frontier`) lets a term have a first owner, an inline second owner, a
  promoted page and a further page, and lets a root be used a second time.
* `MaxBlocks` (5 to 7) is reached, so `ExtendFails` is exercised, and is large enough
  for a rewrite with its source and its output at once. `frontier` has 8.
* One crash reaches every stage of every operation, recovery included, since every
  rewrite ends in a recovery. A crash in the repair of what an earlier crash left needs
  two: the fragment and compaction instances were checked once with two (2.9 M and 3.2 M
  states, no violation) and are kept with one to stay fast. The theorems do not bound
  crashes.
* Symmetry over roots is used in `store_compaction`: the roots are model values that are
  only compared, no property checked there tells them apart, and the only temporal
  property among them is a safety property whose mapped state holds no root. It is not
  used in `store_progress`, where it would be unsound.
* A crash of the server ends a scan, so `scan_parallel` has none, and `frontier` has one
  where no reader is open and opens none behind it (`ReaderBeforeCrash`): a reader writes
  nothing, so what the crash leaves is the same. An error of one writer beside the reader
  is left out there; `store_fragments` has it, and `frontier` was checked once with one
  error in its second instance (3.3 M states).
* `frontier` begins with one of two prepared indexes, both reachable: a second owner
  still in the dictionary with an insertion about to promote it, and a chain of two
  pages whose last page was filled beyond the fence. Steps of the reader that touch only
  its own copies are taken at once (`ReaderLocal`): no other step reads or writes what
  they do. The queries are `(t1 or t2) and not t2` and `not t2`, one bounded by its terms
  and one over all owners.
* `grouped` has two delta slots (`Segments`), a seal due after one owner, two heap groups
  and one crash, and begins with an empty index, with one delta or with a full stack;
  three further incarnations then reach a merge, a full rebuild, and recovery of each.
* `locks` has three backends with four workloads: a count with a worker beside vacuum;
  grouped and serial counts beside insertion and vacuum, each with cancellation; two
  backends that insert with open scans beside vacuum; and a count with a worker beside
  an insertion. Two documents lie on different owner pages and on one heap block, so a
  removal changes the all-visible bit another document is certified by.

### Fairness

`FairSpec` has `WF(Step)`: a backend that holds the interlock and can take a step
takes it (nothing in these operations waits for another backend). It has
`SF(VacuumBegin)`: vacuum asks for the interlock, and PostgreSQL's lock queue serves it
although insertions and compactions come in between; autovacuum returns while there
are dead tuples. No fairness is assumed of insertions, deletions, compactions or
crashes. Under it `OperationsEnd` (no loop is caught), `DebrisCleared` (journals and
orphan blocks are repaired) and `RootsRecycled` hold.

`GroupedStore` has the same two, `WF(Step)` and `SF(VacuumBegin)`, for
`MaintenanceEnds` and `DebrisReclaimed`.

`Interlocks` has, for each backend, `WF(Progress or DeadlockAbort)`: a backend that is
not waiting runs on, a lock is granted when nothing stands before it, and the detector
ends a circle. `SF(ScanEnd or RemoveOwners)`: an executor ends the scans it opens, and a
waiter for a cleanup lock is woken when the pin count falls to one, between two counts'
pins. No fairness is assumed of statements beginning, of deletions or cancellations. Under
it every operation ends (`OperationsServed`); readers that come and go do not starve
maintenance, because a new share request queues behind an exclusive one.

## 4. Proofs

TLAPS proves the following for every value of the constants: every number of blocks,
owners, crashes, terms and documents, every capacity, every set of modes.

| Module | Theorem | Statement |
|---|---|---|
| `MutableStoreProofs` | `TypeCorrect` | `Spec => []TypeOK` |
| | `ImageAlwaysCurrent` | `Spec => []ImageCurrent` |
| | `FreeListAlwaysSound` | `Spec => []FreeListSound` |
| | `SlotsNeverRevived` | `Spec => OwnerNeverRevived` |
| | `RootsNeverStale` | `Spec => []NoStaleRoot` |
| `IndexProofs` | `PublishedAlwaysComplete` | `Spec => []PublishedComplete` |
| | `PagesAlwaysAccounted` | `Spec => []PagesAccounted` |
| | `ChainsAlwaysIntact` | `Spec => []ChainsIntact` |
| | `RecoveryAlwaysAccepts` | `Spec => []RecoveryAccepts` |
| | `VacuumNeverLeavesDebris` | `Spec => VacuumLeavesNoDebris` |
| | `StoreImplementsIndex` | `Spec => ImplementsIndex` (the page file implements `DocumentIndex`) |
| `ScanWorkProofs` | `ScanTypeCorrect` | `ScanSpec => []ScanTypeOK` |
| | `EmittedAlwaysOnce` | `ScanSpec => []EmittedOnce` |
| | `CapturedAlwaysReadable` | `ScanSpec => []CapturedWorkReadable` |
| | `ScanAlwaysComplete` | `ScanSpec => ScanComplete` |
| `PhraseScanProofs` | `ImageAlwaysBehind` | `PhraseSpec => []ImageBehindPage` |
| | `LivePayloadAlwaysReadable` | `PhraseSpec => []LivePayloadReadable` |
| `GroupedStoreProofs` | `GroupTypeAlways` | `Spec => []GroupTypeOK` |
| | `GroupStateAlwaysValid` | `Spec => []GroupStateValid` |
| | `CoverageAlwaysExact` | `Spec => []CoverageExact` |
| | `MaintenanceAlwaysAccepted` | `Spec => []MaintenanceAccepted` |
| | `GroupPagesAlwaysAccounted` | `Spec => []GroupPagesAccounted` |
| | `PublishedPagesAlwaysStable` | `Spec => PublishedPagesStable` |
| | `GroupedImplementsIndex` | `Spec => Index!Spec /\ StepsImplementIndex` |
| `InterlocksProofs` | `ReadersAlwaysProtected` | `Spec => []ReadersProtected` |
| | `CountAlwaysExact` | `Spec => []CountExact` |
| | `DeadlocksAlwaysUpgrade` | `Spec => []DeadlockOnlyByUpgrade` |
| `FrontierScanProofs` | `AnchorsAlwaysCurrent` | `FrontierSpec => []AnchorsCurrent` |
| | `JournalAlwaysRecoverable` | `FrontierSpec => []JournalRecoverable` |
| | `FrontierAlwaysExact` | `FrontierSpec => []FrontierExact` |
| | `FrontierAlwaysReadable` | `FrontierSpec => []FrontierReadable` |

**Assumptions**, all named where the constants are declared and evaluated by TLC in the
runs. For the page file: `NullAssumption` (the null term and root are no terms and roots),
`DocumentAssumption`, `BoundAssumption`, `CapacityAssumption` (a mutable posting page
holds at least two references, as promotion writes two), `PackedAssumption`,
`ModeAssumption`. For the scan: `WorkerAssumption`. For the grouped store: `SegmentsAssumption`, `SealAssumption`,
`AnchorsAssumption`, `GroupBoundAssumption`. For the frontier: `ProgramAssumption` (what
`validate_program()` demands: every node is a term or applies to nodes before it) and
`SpanAssumption`. For the locks: `BackendAssumption`, `DocAssumption`, `PageAssumption`,
`HeapAssumption`.

### Types, the metapage image and the free list

`TypeOK` is not inductive alone: an action that writes
`owner[ins.owner]`, `owner[m.inc]` or `page[blk]` stays in type only if that index is
in range. `MetapageCurrent` supplies this: the image an operation works on is the
durable metapage outside recovery, the incarnation it is about to hand out is below the
limit, and every used incarnation is below the counter. The second part of
`ImageCurrent`, `BlockAwaited`, says that an allocated block is held only by a stage
that will write it; without it a later operation could start with a block of an
earlier one. `NextCorrect` shows, one lemma per group of actions, that the three are
inductive together.

`FreeListSound` needs them and `PastEnd` (pages past the relation's end are absent, so
a new block is not on the list). Every action either leaves the list alone
(`ListKept`), pushes a page that is not free (`ListPushed`: `Reclaim`, `RecoverOne`, and
twice in `RecoverTwo`), or pops the head (`ListPopped`: a reused fragment or output
page). The predicate says that no two free pages have the same successor and that
none has the head as successor, which is what makes push and pop preserve it without a
notion of reachability. That the private image is current is essential: a pop from a
stale image would take a page that recovery has since put behind others.

`SlotsNeverRevived` follows from `MetapageCurrent` (a new slot is an unused one) and
the table of `change_owner()`.

### Heap identifiers

`NoStaleRoot` (a root that is free is named by no live owner and by no copied
coordinate) follows from the order of a vacuum pass, and `RootInv` says that order: owner
pages ascend through the relation, so that the owner pass, which goes from link to link,
leaves none behind (`OwnerPagesAscend`); a live owner of a collected root, or a slot of an unfinished insertion, is on a page
the pass has still to visit (`OwnersRetired`); once it sweeps there is none, and once it is at
the zero pages there is no reference to one (`SweptClean`). A new coordinate is that of
an owner that is live when it is copied (`PendingLive`). Only then does
`VacuumEnd` free the roots.

### Chains

`Chains` states what the other proofs need of a chain of linked blocks. A chain is a set of
blocks with a head and a tail for which a sequence without repetition exists that
follows the links (`Chained`). Lemmas say what appending, pushing, popping, cutting and
splicing do to it, without mentioning the sequence, so the inductive steps are about
sets. Two lemmas connect such a set with the walks of the
model, which are recursive functions: `WalkChain` (`ChainIsSet` for the pages of the index)
and `CheckChain` (the validation of a grouped chain). Their induction is over numbers, from the
least-element principle (`SetInduction`, `RecursionExists`), since the library's induction
theorems take an operator as a parameter.

### The page file implements the index

`StoreInv` is the inductive invariant. It assigns each page to a chain: the owner, dictionary
and free pages form one chain each, the fragments of a live document are a chain with
ascending indices (`PayloadsSound`), and there are a set *J*, the journal's pages, and
a set *S*, the pages a rewrite under way is to replace, such that the posting pages
of a term outside *J* are exactly the chain of its dictionary entry (`PostingsSound`). *J*
and *S* are existentially quantified: each step names its new ones, and no step
has to compute the walk that defines them. References ascend along a chain, start after
the first owner and belong to documents of the term (`RefsSound`); what is live and linked
is on the chain (`LinksComplete`); during a rewrite, what is live on *S* is pending or
already on *J* (`RewriteSound`), so the replacement loses nothing at whatever batch
it is cut short. `NamesWritten` says that every link leads to a written page, which makes an
allocated block one that nothing names.

The steps fall in classes (`StepClasses`): most touch no posting page; `link_term()`
appends one reference to one chain; the batches of compaction move pages between *J*, *S* and
the chain; recovery takes pages from *J*. One lemma per class shows that
`PostingsSound` is preserved. The refinement is then short: the posting set of the index is
the set of (document, term) of the live owners, and a step is `PublishStep` (a document
enters with all its terms), `RemoveStep` (documents leave) or `OtherStep` (the set
is the same), `LinksComplete` and `RefsSound` being what makes the first one whole.

`VacuumLeavesNoDebris` puts the two invariants together. The guards of `SweepEnd` and
`VacuumEnd` only say that no zero block and no fragment of a dead owner is left. That the other
pages are reachable is `StoreInv`: a fragment of a live owner is on the chain of its record
(`FragmentsAre`), a page of any other kind is on the chain of its kind or on the journal. The
journal is empty because the pass recovered first and nothing but a rewrite opens one
(`PassRecovered`, `JournalStays`), and unfinished slots are gone by `OwnersRetired`.

### The plain scan

`ScanInv` adds to `StoreInv` what the shared words mean. `Position(t, k, M)` says that
the words `k` are a place in the references of `t` from where all of `M` is still to
come: before the first owner, at the inline second owner, or at a page of the chain as it
was captured. In the last case the pages still to visit, `R`, are the chain that ends at
the captured tail (`Cut`), all of them below the captured limit and fewer than the count
of pages left, which is what `prepare()` checks. `WorkSound` says it of the shared words
with everything still `Outstanding`: live when the scan opened, live still, neither
emitted nor claimed. What has been claimed or emitted is not above the words' last owner;
references ascend, so two claimed batches cannot meet. `PreparedSound` says of every
participant's private copy that its batch is what the words it was made of mean
(`BatchOf`); a stale copy loses the comparison, and an equal one is right although pages
have grown since.

The writers are dealt with once, in `TermStays` (of `IndexProofs`, for any step but a
rewrite): without a compaction the pages of a term
stay, a page with a successor is final, and a new page or reference comes at the end of
the chain and belongs to the insertion under way, which was not live when the scan opened.
`BarrierSound` is why there is no compaction: the work is held until it is consumed, and
`CompactBegin` waits for the holders. Between the two halves of `capture()` the chain may
grow past the size that was read, and `LimitSound` says that then its tail has, so that
`from_words()` refuses it: the place that is published is within the limit. (That it may
be refused at all is finding 2.) The theorems speak of `ScanSpec`; a rescan
(`RescanSpec`) gives up the barrier with work captured and is finding 3.

### The phrase reader

`PhraseInv` adds to `StoreInv` where the reader stands. The owner page it copied may be
older than the page itself, and `ImageBehindPage` says in which direction: a slot
never becomes live again, and one live in both has the same payload head. While the
document is live, the reader is at the fragment of its chain whose turn it is
(`ReaderPlaced`). Writers keep this since vacuum takes the fragments of removed documents
only.

### Grouped storage

`GroupInv` ties the metapage's stack of generations, the journal and the queue of retired
chains to the pages. The pages that carry an identity are one chain between the ends the
metapage names (`ChainsSound`), identities and fences rise along the stack and levels fall
(`StackSound`), identities come from the counter that also numbers owners
(`NumbersBehind`), and every live document is above the newest fence or in exactly one
generation (`CoverSound`). `JobWaits` and `JobBuilds` say, stage by stage,
what the operation under way has captured. That retired identities differ from those of
the stack is what makes published pages stable; that a document is live in a generation's
range only is what makes the union of the generations exact. `MaintenanceAccepted` and
`GroupPagesAccounted` follow with `ChainIsSet` for the walk of `Inspect`.

### Locks

`ReadersProtected` is not inductive: it speaks of stages and holders, and what makes it
true is which stage holds which lock. `LockInv` says so: the holder of the barrier and of
the interlock are exactly the backends in the stages that have them (`Holders`), the
number of shared acquisitions of a backend follows from its open scan and its part in
the count (`Shares`), a queued request belongs to a stage that waits (`Requests`), the
team is the workers of the count under way and its leader keeps the barrier as long as
one is left (`Teams`), and the barrier's holder excludes other sharers as the
interlock's excludes the guard (`Exclusions`). One lemma per action shows that it is
inductive; `Launch`, `Accumulate` and `Gather` are where the team's life is bound to the
leader's barrier, and `Abort` where a whole team goes at once.

`DeadlockOnlyByUpgrade` does need the order of the queue. `QueueInv` says what a waiter
stands behind (`Queues`: writers behind writers only, shares behind exclusive requests
only), that waiters can be ranked so that everyone stands behind lower ranks (`Ordered`), and
that an upgrade, which goes in front of those its own share blocks, has before it only
other upgrades and shares that wait for nothing (`Upgrades`). A circle of waits then
cannot consist of queue places alone; followed to a holder, it is an insertion with an
open scan that waits for the barrier.

`CountExact` compares a total with a set. `TableInv` says what the heap, the owners and
the postings have to do with one another beside insertions, deletions and vacuum: what a
snapshot sees stays in the index and in the heap, and an all-visible bit holds for it
(`Snapshot`). `WorkInv` keeps the books of the count: each document of the snapshot is still
to be claimed, or in exactly one participant's hand (`Hand`, `Apart`), or entered in one
account, which is a participant's tally or the total (`Counted`, `Entered`, `Books`; the
account of each document is existentially quantified, and a step names the new one). What
has been claimed is decided under the pin of its page, and the pin is what keeps
`RemoveOwners` away (`Pinned`). When nobody works any longer all is in the total.

### The frontier

A reader of the frontier holds the shared barrier, so what protects its anchors is that a
rewrite begins only after `InvalidateFrontier` and never beside a reader (`BarrierHeld`,
`WriterBarrier`). `AnchorsCurrent` is not inductive. A reader that has captured valid anchors may
look one up after they were invalidated, and after the
promotion of a second owner the anchor names the dictionary page where that owner no
longer is; so `AnchorsSound` speaks of anchors that are valid or were when an open reader
captured the metapage, and `AnchorAt` of both forms of a place. What keeps `a.last` in its
page is `TermStays`, the lemma of the plain scan: beside readers a page of a term loses
nothing and a chain grows at its end. `GenFence` and `GenHolds` say what generations cover: a
slot is at most the last one covered or newer than the newest generation, and what is live up to
the fence is in a generation. A rebuild takes its anchors from `AnchorOf`, where `AnchorIs`
finds the last owner of a chain on its tail. Together these are `GroundInv`.
`JournalRecoverable` rests on the same barrier: valid anchors mean that no rewrite is under way,
so no journal is opened (`JournalStays`), and a rebuild makes anchors valid only after its
own recovery.

`FrontierExact` and `FrontierReadable` follow from one invariant, `FrontierInv`: `GroundInv`, where
slots and entries are on their pages (`Paged`: later slots on later owner pages, a second
owner above the first), and `ReaderSound`, which says that no document known at the start is
lost to the scan:

* A cursor stands on a part of its term's chain that still ends where the captured tail is
  (`Captured`, a `Run`), and every known document of the term from the target on is in the page in
  hand or on the pages to come (`Placed`, `Owing`). Appends add to such a run at its end only;
  `RunBehind` divides it at the page that is loaded, and an anchor divides it so that nothing
  beyond the fence is before it (`CursorAnchors`). For each of the ways `open()` may go, `CursorOpens`
  shows that its checks pass and the cursor is placed.
* The walk over the owner pages has every known document beyond the fence in the copy in hand or
  on a page to come (`UniverseSound`, `OwnersSound`, `WalkOn`); an owner whose payload is being read is
  where the next fragment is as long as it is live (`PayloadAt`), which is why `OneFailure` leaves
  a single failing check, and for a removed document only.
* What is emitted matches, and what is to be emitted is in the answer or still pledged
  (`Answered`, `Pledged`). A step that moves the target rests on `lower_bound()`: it passes no
  document that matches (`LowerBoundBelow`, `NextOwnerBelow`); the target is decided by the terms
  whose cursors stand on it, which are the document's own (`HitIs`).

A program is a sequence of nodes, each over earlier ones, and `matches()`, the seek terms and
`lower_bound()` are recursive functions over it. What they compute is proved for every program: a
function with these equations exists (`TreeExists`, over the least node where it would not), so
`CHOOSE` finds it (`MatchesIs`, `SeekTermsAre`, `LowerBoundIs`), and `NodeInduction` is then an argument
about the least node outside a set.

### Only model-checked

* Liveness (`OperationsServed` and the progress properties of `store_progress`): fairness and
  `ENABLED` are outside the prover's reach.

## 5. Findings

Five runs state what the repository says and show that the code does otherwise.

1. `compact_promoted` / `CompactionSucceeds`. A term whose entry was promoted to state 2
   and whose chain references are all dead cannot be compacted: `rewrite()` sets the
   chain to `NO_BLOCK`, `Terms::next` rejects a state-2 entry without a chain, `commit()`
   fails, and so does every later maintenance call. No data is damaged: the batch is
   not written.
2. `scan_capture` / `CaptureSucceeds`. `capture()` reads the relation size before the
   dictionary entry; an insertion in between makes it reject a sound index.
3. `scan_rescan` / `CapturedWorkReadable`. A parallel rescan captures under the
   leader's barrier, which the leader's own rescan then drops and takes again; a
   compaction admitted in the gap retires the captured pages.
4. `phrase_vacuum` / `PhraseNeverFails`. The documentation says that reclamation needs
   the exclusive barrier; vacuum reclaims fragments under the interlock alone, and a
   phrase query that has started on a document just removed ends with an error.
   `LivePayloadReadable` shows that this concerns removed documents only.
5. `lock_upgrade` / `NoUpgrade`. `with_maintenance()` demands that its caller holds
   neither lock; an insertion whose delta is due calls it although its backend may have an
   index scan open, which keeps the shared barrier. PostgreSQL grants the exclusive side
   above the backend's own share, so maintenance runs with a captured scan open; and two
   such backends deadlock until the detector ends one, which is the only circle
   (`DeadlockOnlyByUpgrade`).

Two further remarks, not runs. The comment above `invalidate()` (`anchors.rs:126`) says
that the host holds the exclusive structural barrier; `link_term()` calls it under the
writer interlock alone. `FrontierReadable` shows that readers bear it: a promoted second
owner is recognised by its shadow. And `FrontierReadable` names the one error a reader
beyond the fence may meet, on a document removed after its owner page was copied.

## 6. Not modelled

* **Bytes**: page layout, checksums, codecs, bitmaps, catalog nodes, WAL record contents.
  The model starts where `Page::validate` ends.
* **The union scan over canonical owners** (kind 3 work), ranking, the cursors of the
  ordinary Boolean plan (`query.rs`), candidate covers and recheck: sequential functions of
  one captured index and a query tree.
* **The sparse term of `scan_exact()`** (`scan.rs:453-478`): a query of one term with at most
  64 postings on one page is answered without generations or anchors, by the serial
  `scan_term_entry()`, which reads what a single participant of `ScanWork` reads, under
  the same barrier and without shared words. In `FrontierScan` such a query takes the
  general path.
* **The Retiring phase of the grouped journal**: `grouped_state()` decodes it and
  `validate()` has a rule for it, for metapages written before retired chains had a queue;
  `begin()` writes only Building, and `publish()` moves an old generation to that queue.
* **Parallel build**: the worker handshake rests on PostgreSQL's parallel contexts; the
  build itself writes through the operations modelled here.
* **Memory budgets** of readers and builds, save where they choose a path
  (`OwnersFallBack`, `MaintainSkipped`).
* **Text**: analysis, normalisation, document preparation; pure functions of bytes.
* **SIMD kernels and pgrx glue**: bit operations and declarations, with no protocol.

## 7. Plan

1. `ParallelBuild`: the worker handshake and its error paths.
2. `QueryCursors` and `CandidateCover`: pure operators checked against set semantics over
   bounded inputs; the codecs of block offsets and position blocks.
3. Runs: an error of a writer beside a parallel scan.
