----------------------------- MODULE Interlocks -----------------------------
(***************************************************************************)
(* The interlocks of several backends on one index: the structural barrier *)
(* and the writer interlock of crates/pin-pg/cshim/pin_storage.c and       *)
(* crates/pin-pg/src/storage.rs, pinned owner pages against the cleanup    *)
(* lock of owner removal, and the operations that take them: index scans,  *)
(* insertions with their maintenance, vacuum, and the counts that decide   *)
(* visibility under their protection (pin_count.c, count.rs,               *)
(* grouped_count.rs and crates/pin-core/src/mutable/count.rs).             *)
(*                                                                         *)
(* Lock tables, snapshots, the visibility map and parallel workers are     *)
(* PostgreSQL's.  A document stands for its heap tuple, its owner slot and *)
(* its posting; the postings of an owner page's documents share a page.    *)
(* One count runs at a time, as large a team as it may have.               *)
(***************************************************************************)
EXTENDS Naturals, FiniteSets

CONSTANTS
  Backend, NoBackend,
  Doc, NoDoc,
  Pages,        \* number of owner pages
  PageOf,       \* the owner page of a document
  BlockOf,      \* its heap block
  Inline        \* documents whose posting stays in the dictionary

ASSUME BackendAssumption == NoBackend \notin Backend /\ IsFiniteSet(Backend)
ASSUME DocAssumption == NoDoc \notin Doc /\ IsFiniteSet(Doc)
ASSUME PageAssumption == Pages \in Nat /\ PageOf \in [Doc -> 1 .. Pages]
ASSUME HeapAssumption == DOMAIN BlockOf = Doc /\ Inline \subseteq Doc

HeapBlock == {BlockOf[d] : d \in Doc}

Statement == {"scan", "insert", "vacuum", "grouped", "parallel", "serial"}

VARIABLES
  runs,     \* the statements a session issues, that it is a parallel worker,
            \* or that it may be cancelled
  do,       \* what a backend is doing
  open,     \* the backends with an open index scan
  share,    \* the backends' acquisitions of the shared barrier
  barrier,  \* the holder of the exclusive barrier
  writer,   \* the holder of the writer interlock
  guard,    \* the backends that share the writer interlock
  want,     \* the lock a backend waits for
  after,    \* the waiters it may not overtake
  pin,      \* the owner page a backend has pinned, or 0
  mine,     \* the document a backend is inserting
  dead,     \* the documents the vacuum pass removes
  heap,     \* the state of a tuple
  vm,       \* the all-visible bits
  owners,   \* the live owner slots
  posted,   \* the documents in postings, live or not
  sealed,   \* those in sealed posting pages
  job,      \* the count under way
  part      \* a participant's progress

lockVars  == <<share, barrier, writer, guard, want, after, pin>>
tableVars == <<dead, heap, vm>>
indexVars == <<owners, posted, sealed>>
vars == <<runs, do, open, lockVars, mine, tableVars, indexVars, job, part>>

-----------------------------------------------------------------------------
(* LockPage() and its wait queue *)

Request == {"Share", "Exclusive", "Writer"}
Waiters(requests) == {q \in Backend : want[q] \in requests}
Sharers == {p \in Backend : share[p] > 0}

(* Share requests with an exclusive one before them *)
Held == {q \in Waiters({"Share"}) : after[q] # {}}

(* The earlier waiters a request conflicts with.  A backend that shares    *)
(* the barrier goes before those that wait for it.                         *)
Earlier(p, request) ==
  CASE request = "Share"     -> Waiters({"Exclusive"})
    [] request = "Exclusive" -> IF share[p] > 0 THEN Waiters({"Share"}) \ Held
                                ELSE Waiters({"Share", "Exclusive"})
    [] request = "Writer"    -> Waiters({"Writer"})

Overtaken(p, request) ==
  IF request = "Exclusive" /\ share[p] > 0 THEN Waiters({"Exclusive"}) \cup Held ELSE {}

Ask(p, request) ==
  /\ want' = [want EXCEPT ![p] = request]
  /\ after' = [q \in Backend |-> IF q = p THEN Earlier(p, request)
                                ELSE IF q \in Overtaken(p, request) THEN after[q] \cup {p}
                                ELSE after[q]]

(* The backends that a waiter waits for *)
Blockers(p) ==
  (CASE want[p] = "Share"     -> after[p] \cup {barrier}
     [] want[p] = "Exclusive" -> after[p] \cup {barrier} \cup Sharers
     [] want[p] = "Writer"    -> after[p] \cup {writer} \cup guard
     [] OTHER                 -> {}) \ {p, NoBackend}

Granted(p, request) == want[p] = request /\ Blockers(p) = {}

Leave(p) ==
  /\ want' = [want EXCEPT ![p] = "None"]
  /\ after' = [q \in Backend |-> IF q = p THEN {} ELSE after[q] \ {p}]

(* pin_structure_lock(): a backend that shares the barrier already, or     *)
(* whose parallel leader does, does not wait.                              *)
GainShare(p) ==
  /\ IF want[p] = "None" THEN UNCHANGED <<want, after>> ELSE Granted(p, "Share") /\ Leave(p)
  /\ share' = [share EXCEPT ![p] = @ + 1]

(* pin_structure_unlock() *)
DropShare(p) == share' = [share EXCEPT ![p] = @ - 1]

(* pin_writer_lock() *)
GainWriter(p) ==
  /\ Granted(p, "Writer") /\ Leave(p)
  /\ writer' = p

-----------------------------------------------------------------------------
(* The host's table *)

NoJob == [leader |-> NoBackend, kind |-> "none", snap |-> {}, work |-> 1, total |-> 0,
          team |-> {}]
NoPart == [seen |-> 0, blocks |-> {}, pending |-> {}, incoming |-> {}, live |-> {}, fetch |-> {},
           tally |-> 0]

Counting == job.leader # NoBackend

(* Every tuple of the block is visible to every snapshot. *)
AllVisible(b, table) ==
  \A d \in Doc : BlockOf[d] = b /\ table[d] \notin {"absent", "unused"} =>
    table[d] = "live" /\ (Counting => d \in job.snap)

Init ==
  /\ runs \in [Backend -> SUBSET (Statement \cup {"worker", "cancel"})]
  /\ do = [p \in Backend |-> "idle"]
  /\ open = {}
  /\ share = [p \in Backend |-> 0]
  /\ barrier = NoBackend
  /\ writer = NoBackend
  /\ guard = {}
  /\ want = [p \in Backend |-> "None"]
  /\ after = [p \in Backend |-> {}]
  /\ pin = [p \in Backend |-> 0]
  /\ mine = [p \in Backend |-> NoDoc]
  /\ dead = {}
  /\ heap = [d \in Doc |-> "absent"]
  /\ vm = [b \in HeapBlock |-> FALSE]
  /\ owners = {}
  /\ posted = {}
  /\ sealed = {}
  /\ job = NoJob
  /\ part = [p \in Backend |-> NoPart]

(* A deletion that commits *)
HeapDelete(d) ==
  /\ heap[d] = "live"
  /\ heap' = [heap EXCEPT ![d] = "deleted"]
  /\ vm' = [vm EXCEPT ![BlockOf[d]] = FALSE]
  /\ UNCHANGED <<runs, do, open, lockVars, mine, dead, indexVars, job, part>>

-----------------------------------------------------------------------------
(* Index scans: pin_scan_rescan() and pin_scan_end() *)

ScanBegin(p) ==
  /\ do[p] = "idle" /\ p \notin open /\ "scan" \in runs[p]
  /\ Ask(p, "Share")
  /\ do' = [do EXCEPT ![p] = "scan"]
  /\ UNCHANGED <<runs, open, share, barrier, writer, guard, pin, mine, tableVars, indexVars, job, part>>

ScanLocked(p) ==
  /\ do[p] = "scan"
  /\ GainShare(p)
  /\ open' = open \cup {p}
  /\ do' = [do EXCEPT ![p] = "idle"]
  /\ UNCHANGED <<runs, barrier, writer, guard, pin, mine, tableVars, indexVars, job, part>>

(* A rescan gives the barrier back before it asks again. *)
ScanRescan(p) ==
  /\ do[p] = "idle" /\ p \in open
  /\ DropShare(p)
  /\ open' = open \ {p}
  /\ Ask(p, "Share")
  /\ do' = [do EXCEPT ![p] = "scan"]
  /\ UNCHANGED <<runs, barrier, writer, guard, pin, mine, tableVars, indexVars, job, part>>

ScanEnd(p) ==
  /\ do[p] = "idle" /\ p \in open
  /\ DropShare(p)
  /\ open' = open \ {p}
  /\ UNCHANGED <<runs, do, barrier, writer, guard, want, after, pin, mine, tableVars, indexVars, job, part>>

-----------------------------------------------------------------------------
(* insert() and with_maintenance() *)

(* The tuple is in the heap; insert_value() waits for the writer           *)
(* interlock.  The backend may have an open scan.                          *)
InsertBegin(p, d) ==
  /\ do[p] = "idle" /\ "insert" \in runs[p] /\ heap[d] = "absent"
  /\ heap' = [heap EXCEPT ![d] = "inserting"]
  /\ vm' = [vm EXCEPT ![BlockOf[d]] = FALSE]
  /\ mine' = [mine EXCEPT ![p] = d]
  /\ Ask(p, "Writer")
  /\ do' = [do EXCEPT ![p] = "insert"]
  /\ UNCHANGED <<runs, open, share, barrier, writer, guard, pin, dead, indexVars, job, part>>

InsertLocked(p) ==
  /\ do[p] = "insert"
  /\ GainWriter(p)
  /\ do' = [do EXCEPT ![p] = "inserting"]
  /\ UNCHANGED <<runs, open, share, barrier, guard, pin, mine, tableVars, indexVars, job, part>>

(* The transaction commits with its statement. *)
Committed(p) ==
  IF mine[p] = NoDoc THEN heap ELSE [heap EXCEPT ![mine[p]] = "live"]

(* Fault: maintenance that is due begins under the insertion's writer      *)
(* interlock.                                                              *)
FaultInsertDone(p, due) ==
  /\ do[p] = "inserting"
  /\ owners' = owners \cup {mine[p]}
  /\ posted' = posted \cup {mine[p]}
  /\ IF due
     THEN /\ Ask(p, "Exclusive")
          /\ do' = [do EXCEPT ![p] = "barrier"]
          /\ UNCHANGED <<heap, mine, writer>>
     ELSE /\ heap' = Committed(p)
          /\ mine' = [mine EXCEPT ![p] = NoDoc]
          /\ do' = [do EXCEPT ![p] = "idle"]
          /\ writer' = NoBackend
          /\ UNCHANGED <<want, after>>
  /\ UNCHANGED <<runs, open, share, barrier, guard, pin, dead, vm, sealed, job, part>>

(* The owner is published; maintenance may be due. *)
InsertDone(p, due) ==
  /\ do[p] = "inserting"
  /\ owners' = owners \cup {mine[p]}
  /\ posted' = posted \cup {mine[p]}
  /\ writer' = NoBackend
  /\ IF due
     THEN /\ Ask(p, "Exclusive")
          /\ do' = [do EXCEPT ![p] = "barrier"]
          /\ UNCHANGED <<heap, mine>>
     ELSE /\ heap' = Committed(p)
          /\ mine' = [mine EXCEPT ![p] = NoDoc]
          /\ do' = [do EXCEPT ![p] = "idle"]
          /\ UNCHANGED <<want, after>>
  /\ UNCHANGED <<runs, open, share, barrier, guard, pin, dead, vm, sealed, job, part>>

(* with_maintenance(): the barrier first, then the writer interlock *)
BarrierLocked(p) ==
  /\ do[p] = "barrier"
  /\ Granted(p, "Exclusive")
  /\ barrier' = p
  /\ want' = [want EXCEPT ![p] = "Writer"]
  /\ after' = [q \in Backend |-> IF q = p THEN Waiters({"Writer"}) ELSE after[q] \ {p}]
  /\ do' = [do EXCEPT ![p] = "interlock"]
  /\ UNCHANGED <<runs, open, share, writer, guard, pin, mine, tableVars, indexVars, job, part>>

MaintainLocked(p) ==
  /\ do[p] = "interlock"
  /\ GainWriter(p)
  /\ do' = [do EXCEPT ![p] = "maintain"]
  /\ UNCHANGED <<runs, open, share, barrier, guard, pin, mine, tableVars, indexVars, job, part>>

(* The delta of an insertion, or the compaction of a vacuum pass, which    *)
(* drops the postings of removed owners and seals the others.              *)
MaintainDone(p) ==
  /\ do[p] = "maintain"
  /\ IF mine[p] = NoDoc
     THEN posted' = posted \cap owners /\ sealed' = (posted \cap owners) \ Inline
     ELSE UNCHANGED <<posted, sealed>>
  /\ heap' = Committed(p)
  /\ mine' = [mine EXCEPT ![p] = NoDoc]
  /\ barrier' = NoBackend /\ writer' = NoBackend
  /\ do' = [do EXCEPT ![p] = "idle"]
  /\ UNCHANGED <<runs, open, share, guard, want, after, pin, dead, vm, owners, job, part>>

-----------------------------------------------------------------------------
(* vacuum: owner slots, then the heap, then compact_cleanup() *)

Vacuuming ==
  \E p \in Backend :
    \/ do[p] \in {"vacuum", "remove", "heap"}
    \/ do[p] \in {"barrier", "interlock", "maintain"} /\ mine[p] = NoDoc

(* The host hands over the tuples that no snapshot sees; it lets one pass  *)
(* run at a time, and none inside a transaction.                           *)
VacuumBegin(p) ==
  /\ do[p] = "idle" /\ p \notin open /\ "vacuum" \in runs[p]
  /\ ~Vacuuming
  /\ dead' = {d \in Doc : heap[d] = "deleted" /\ d \notin job.snap}
  /\ Ask(p, "Writer")
  /\ do' = [do EXCEPT ![p] = "vacuum"]
  /\ UNCHANGED <<runs, open, share, barrier, writer, guard, pin, mine, heap, vm, indexVars, job, part>>

VacuumLocked(p) ==
  /\ do[p] = "vacuum"
  /\ GainWriter(p)
  /\ do' = [do EXCEPT ![p] = "remove"]
  /\ UNCHANGED <<runs, open, share, barrier, guard, pin, mine, tableVars, indexVars, job, part>>

Removable(k) == {d \in dead \cap owners : PageOf[d] = k}
Pinners(k) == {p \in Backend : pin[p] = k}

(* pin_storage_remove_owners(): the cleanup lock waits for every pin. *)
RemoveOwners(p, k) ==
  /\ do[p] = "remove"
  /\ Removable(k) # {} /\ Pinners(k) = {}
  /\ owners' = owners \ Removable(k)
  /\ UNCHANGED <<runs, do, open, lockVars, mine, tableVars, posted, sealed, job, part>>

RemoveDone(p) ==
  /\ do[p] = "remove" /\ dead \cap owners = {}
  /\ writer' = NoBackend
  /\ do' = [do EXCEPT ![p] = "heap"]
  /\ UNCHANGED <<runs, open, share, barrier, guard, want, after, pin, mine, tableVars, indexVars, job, part>>

(* The host frees the line pointers and sets the all-visible bits. *)
HeapClean(p) ==
  LET table == [d \in Doc |-> IF d \in dead THEN "unused" ELSE heap[d]] IN
  /\ do[p] = "heap"
  /\ heap' = table
  /\ vm' = [b \in HeapBlock |-> vm[b] \/ AllVisible(b, table)]
  /\ dead' = {}
  /\ Ask(p, "Exclusive")
  /\ do' = [do EXCEPT ![p] = "barrier"]
  /\ UNCHANGED <<runs, open, share, barrier, writer, guard, pin, mine, indexVars, job, part>>

-----------------------------------------------------------------------------
(* Counts: pin_count_next() *)

(* The snapshot, and the shared barrier *)
CountBegin(p, kind) ==
  /\ do[p] = "idle" /\ kind \in runs[p] /\ ~Counting
  /\ job' = [NoJob EXCEPT !.leader = p, !.kind = kind, !.snap = {d \in Doc : heap[d] = "live"}]
  /\ IF share[p] > 0 THEN UNCHANGED <<want, after>> ELSE Ask(p, "Share")
  /\ do' = [do EXCEPT ![p] = "count"]
  /\ UNCHANGED <<runs, open, share, barrier, writer, guard, pin, mine, tableVars, indexVars, part>>

CountLocked(p) ==
  /\ do[p] = "count"
  /\ GainShare(p)
  /\ do' = [do EXCEPT ![p] = CASE job.kind = "grouped"  -> "protect"
                               [] job.kind = "parallel" /\ job.leader = p -> "capture"
                               [] OTHER -> "claim"]
  /\ UNCHANGED <<runs, open, barrier, writer, guard, pin, mine, tableVars, indexVars, job, part>>

(* pin_count_grouped_execute(): the writer interlock shared, without       *)
(* waiting; where that fails the core aggregate counts.                    *)
Protect(p) ==
  /\ do[p] = "protect"
  /\ writer = NoBackend /\ Waiters({"Writer"}) = {}
  /\ guard' = guard \cup {p}
  /\ part' = [part EXCEPT ![p].blocks = HeapBlock]
  /\ do' = [do EXCEPT ![p] = "page"]
  /\ UNCHANGED <<runs, open, share, barrier, writer, want, after, pin, mine, tableVars, indexVars, job>>

Unprotected(p) ==
  /\ do[p] = "protect"
  /\ ~(writer = NoBackend /\ Waiters({"Writer"}) = {})
  /\ DropShare(p)
  /\ job' = NoJob
  /\ do' = [do EXCEPT ![p] = "idle"]
  /\ UNCHANGED <<runs, open, barrier, writer, guard, want, after, pin, mine, tableVars, indexVars, part>>

(* PageCounter: the exact members of one heap block, by its all-visible    *)
(* bit or by the snapshot.                                                 *)
GroupedPage(p, b) ==
  LET roots == {d \in owners : BlockOf[d] = b} IN
  /\ do[p] = "page" /\ b \in part[p].blocks
  /\ part' = [part EXCEPT ![p].blocks = @ \ {b},
                          ![p].tally = @ + Cardinality(IF vm[b] THEN roots ELSE roots \cap job.snap)]
  /\ UNCHANGED <<runs, do, open, lockVars, mine, tableVars, indexVars, job>>

GroupedDone(p) ==
  /\ do[p] = "page" /\ part[p].blocks = {}
  /\ guard' = guard \ {p}
  /\ DropShare(p)
  /\ job' = [job EXCEPT !.total = part[p].tally]
  /\ part' = [part EXCEPT ![p] = NoPart]
  /\ do' = [do EXCEPT ![p] = "report"]
  /\ UNCHANGED <<runs, open, barrier, writer, want, after, pin, mine, tableVars, indexVars>>

(* pin_count_parallel_run(): the workers are launched under the leader's   *)
(* barrier; without any the count is serial.                               *)
Launch(p, team) ==
  /\ do[p] = "capture"
  /\ \A q \in team : "worker" \in runs[q] /\ q # p /\ do[q] = "idle" /\ q \notin open
  /\ IF team = {}
     THEN /\ job' = [job EXCEPT !.kind = "serial"]
          /\ DropShare(p)
          /\ IF share[p] > 1 THEN UNCHANGED <<want, after>> ELSE Ask(p, "Share")
          /\ do' = [do EXCEPT ![p] = "count"]
     ELSE /\ job' = [job EXCEPT !.team = team]
          /\ do' = [q \in Backend |-> IF q = p THEN "claim" ELSE IF q \in team THEN "count" ELSE do[q]]
          /\ UNCHANGED <<share, want, after>>
  /\ UNCHANGED <<runs, open, barrier, writer, guard, pin, mine, tableVars, indexVars, part>>

(* pin_count_work_snapshot() and prepare() *)
WorkSnapshot(p) ==
  /\ do[p] = "claim" /\ job.work <= Pages
  /\ part' = [part EXCEPT ![p].seen = job.work,
                          ![p].incoming = {d \in posted : PageOf[d] = job.work}]
  /\ do' = [do EXCEPT ![p] = "try"]
  /\ UNCHANGED <<runs, open, lockVars, mine, tableVars, indexVars, job>>

(* pin_count_work_claim(), and push(): a candidate of another owner page   *)
(* flushes what is pending.                                                *)
WorkClaim(p) ==
  /\ do[p] = "try"
  /\ IF job.work # part[p].seen
     THEN /\ do' = [do EXCEPT ![p] = "claim"]
          /\ part' = [part EXCEPT ![p].incoming = {}]
          /\ UNCHANGED job
     ELSE /\ job' = [job EXCEPT !.work = @ + 1]
          /\ IF part[p].pending = {} \/ part[p].incoming = {}
             THEN /\ part' = [part EXCEPT ![p].pending = @ \cup part[p].incoming, ![p].incoming = {}]
                  /\ do' = [do EXCEPT ![p] = "claim"]
             ELSE /\ do' = [do EXCEPT ![p] = "flush"]
                  /\ UNCHANGED part
  /\ UNCHANGED <<runs, open, lockVars, mine, tableVars, indexVars>>

(* Fault: the loop ends only where candidates are pending. *)
FaultWorkDone(p) ==
  /\ do[p] = "claim" /\ job.work > Pages
  /\ part[p].pending # {}
  /\ do' = [do EXCEPT ![p] = "flush"]
  /\ UNCHANGED <<runs, open, lockVars, mine, tableVars, indexVars, job, part>>

(* No work is left: the last flush, then the result. *)
WorkDone(p) ==
  /\ do[p] = "claim" /\ job.work > Pages
  /\ do' = [do EXCEPT ![p] = IF part[p].pending # {} THEN "flush" ELSE "accumulate"]
  /\ UNCHANGED <<runs, open, lockVars, mine, tableVars, indexVars, job, part>>

(* Fault: the owner page is copied and not kept pinned. *)
FaultOwnerLock(p) ==
  /\ do[p] = "flush"
  /\ part' = [part EXCEPT ![p].live = owners \cap part[p].pending]
  /\ do' = [do EXCEPT ![p] = "check"]
  /\ UNCHANGED <<runs, open, lockVars, mine, tableVars, indexVars, job>>

(* flush(): pin_count_owner_lock() copies the owner page and keeps its pin *)
OwnerLock(p) ==
  /\ do[p] = "flush"
  /\ pin' = [pin EXCEPT ![p] = PageOf[CHOOSE d \in part[p].pending : TRUE]]
  /\ part' = [part EXCEPT ![p].live = owners \cap part[p].pending]
  /\ do' = [do EXCEPT ![p] = "check"]
  /\ UNCHANGED <<runs, open, share, barrier, writer, guard, want, after, mine, tableVars, indexVars, job>>

(* A removed owner is rejected; a sealed one is certified by the           *)
(* all-visible bit, or fetched like the others.                            *)
Check(p, d) ==
  /\ do[p] = "check" /\ d \in part[p].pending
  /\ part' = [part EXCEPT
       ![p].pending = @ \ {d},
       ![p].fetch = IF d \in part[p].live /\ ~(d \in sealed /\ vm[BlockOf[d]]) THEN @ \cup {d} ELSE @,
       ![p].tally = IF d \in part[p].live /\ d \in sealed /\ vm[BlockOf[d]] THEN @ + 1 ELSE @]
  /\ UNCHANGED <<runs, do, open, lockVars, mine, tableVars, indexVars, job>>

(* pin_count_fetch() under the snapshot *)
Fetch(p, d) ==
  /\ do[p] = "check" /\ part[p].pending = {} /\ d \in part[p].fetch
  /\ part' = [part EXCEPT ![p].fetch = @ \ {d},
                          ![p].tally = IF d \in job.snap /\ heap[d] # "unused" THEN @ + 1 ELSE @]
  /\ UNCHANGED <<runs, do, open, lockVars, mine, tableVars, indexVars, job>>

OwnerUnlock(p) ==
  /\ do[p] = "check" /\ part[p].pending = {} /\ part[p].fetch = {}
  /\ pin' = [pin EXCEPT ![p] = 0]
  /\ part' = [part EXCEPT ![p].pending = part[p].incoming, ![p].incoming = {}, ![p].live = {}]
  /\ do' = [do EXCEPT ![p] = "claim"]
  /\ UNCHANGED <<runs, open, share, barrier, writer, guard, want, after, mine, tableVars, indexVars, job>>

(* pin_count_parallel_accumulate(); the leader then waits for its team. *)
Accumulate(p) ==
  /\ do[p] = "accumulate"
  /\ job' = [job EXCEPT !.total = @ + part[p].tally, !.team = @ \ {p}]
  /\ part' = [part EXCEPT ![p] = NoPart]
  /\ IF p = job.leader
     THEN do' = [do EXCEPT ![p] = "gather"] /\ UNCHANGED share
     ELSE do' = [do EXCEPT ![p] = "idle"] /\ DropShare(p)
  /\ UNCHANGED <<runs, open, barrier, writer, guard, want, after, pin, mine, tableVars, indexVars>>

(* Fault: the leader does not wait for its workers. *)
FaultGather(p) ==
  /\ do[p] = "gather"
  /\ DropShare(p)
  /\ do' = [do EXCEPT ![p] = "report"]
  /\ UNCHANGED <<runs, open, barrier, writer, guard, want, after, pin, mine, tableVars, indexVars, job, part>>

Gather(p) ==
  /\ do[p] = "gather" /\ job.team = {}
  /\ DropShare(p)
  /\ do' = [do EXCEPT ![p] = "report"]
  /\ UNCHANGED <<runs, open, barrier, writer, guard, want, after, pin, mine, tableVars, indexVars, job, part>>

CountEnd(p) ==
  /\ do[p] = "report"
  /\ job' = NoJob
  /\ do' = [do EXCEPT ![p] = "idle"]
  /\ UNCHANGED <<runs, open, lockVars, mine, tableVars, indexVars, part>>

-----------------------------------------------------------------------------
(* An error or a cancellation: abort cleanup releases whatever the backend *)
(* holds, and a count goes down with its whole team.                       *)
Participants == job.team \cup {job.leader}

Aborted(p) == IF Counting /\ p \in Participants THEN Participants ELSE {p}

Abort(p) ==
  LET gone == Aborted(p) IN
  /\ do[p] # "idle"
  /\ do' = [q \in Backend |-> IF q \in gone THEN "idle" ELSE do[q]]
  /\ open' = open \ gone
  /\ share' = [q \in Backend |-> IF q \in gone THEN 0 ELSE share[q]]
  /\ barrier' = IF barrier \in gone THEN NoBackend ELSE barrier
  /\ writer' = IF writer \in gone THEN NoBackend ELSE writer
  /\ guard' = guard \ gone
  /\ want' = [q \in Backend |-> IF q \in gone THEN "None" ELSE want[q]]
  /\ after' = [q \in Backend |-> IF q \in gone THEN {} ELSE after[q] \ gone]
  /\ pin' = [q \in Backend |-> IF q \in gone THEN 0 ELSE pin[q]]
  /\ mine' = [q \in Backend |-> IF q \in gone THEN NoDoc ELSE mine[q]]
  /\ heap' = IF mine[p] = NoDoc THEN heap ELSE [heap EXCEPT ![mine[p]] = "deleted"]
  /\ dead' = IF do[p] \in {"vacuum", "remove", "heap"} THEN {} ELSE dead
  /\ job' = IF Counting /\ p \in Participants THEN NoJob ELSE job
  /\ part' = [q \in Backend |-> IF q \in gone THEN NoPart ELSE part[q]]
  /\ UNCHANGED <<runs, vm, indexVars>>

Cancel(p) == "cancel" \in runs[p] /\ Abort(p)

(* Everyone that a backend waits for: lock holders and earlier waiters,    *)
(* the pins on a page it cleans up, and the workers of its count.          *)
WaitsFor(p) ==
  Blockers(p)
    \cup (IF do[p] = "remove" THEN UNION {Pinners(PageOf[d]) : d \in dead \cap owners} ELSE {})
    \cup (IF do[p] = "gather" THEN job.team ELSE {})

Stuck(team) == team # {} /\ \A p \in team : WaitsFor(p) \cap team # {}
Cycle(team) == Stuck(team) /\ \A smaller \in SUBSET team : Stuck(smaller) => smaller = team

(* PostgreSQL's deadlock detector *)
DeadlockAbort(p) ==
  /\ WaitsFor(p) # {}
  /\ \E team \in SUBSET Backend : p \in team /\ Cycle(team)
  /\ Abort(p)

-----------------------------------------------------------------------------
(* What goes on by itself once an operation has begun *)
Progress(p) ==
  \/ ScanLocked(p) \/ InsertLocked(p) \/ BarrierLocked(p) \/ MaintainLocked(p) \/ MaintainDone(p)
  \/ \E due \in BOOLEAN : InsertDone(p, due)
  \/ VacuumLocked(p) \/ RemoveDone(p) \/ HeapClean(p)
  \/ CountLocked(p) \/ Protect(p) \/ Unprotected(p) \/ GroupedDone(p)
  \/ \E b \in HeapBlock : GroupedPage(p, b)
  \/ \E team \in SUBSET Backend : Launch(p, team)
  \/ WorkSnapshot(p) \/ WorkClaim(p) \/ WorkDone(p) \/ OwnerLock(p) \/ OwnerUnlock(p)
  \/ \E d \in Doc : Check(p, d) \/ Fetch(p, d)
  \/ Accumulate(p) \/ Gather(p) \/ CountEnd(p)

Starts(p) ==
  \/ ScanBegin(p) \/ ScanRescan(p) \/ VacuumBegin(p)
  \/ \E d \in Doc : InsertBegin(p, d)
  \/ \E kind \in {"grouped", "parallel", "serial"} : CountBegin(p, kind)

Next ==
  \/ \E d \in Doc : HeapDelete(d)
  \/ \E p \in Backend : Starts(p) \/ Progress(p) \/ ScanEnd(p) \/ Cancel(p) \/ DeadlockAbort(p)
  \/ \E p \in Backend, k \in 1 .. Pages : RemoveOwners(p, k)

Spec == Init /\ [][Next]_vars

(* Backends run on and deadlocks are detected; a host ends every scan it   *)
(* has opened, and the wait for a cleanup lock is woken between two pins.  *)
Fairness ==
  \A p \in Backend :
    /\ WF_vars(Progress(p) \/ DeadlockAbort(p))
    /\ SF_vars(ScanEnd(p) \/ \E k \in 1 .. Pages : RemoveOwners(p, k))

-----------------------------------------------------------------------------
(* Properties *)

Reading == Sharers \cup {p \in Backend : pin[p] # 0} \cup guard

(* A count has captured its work and has not consumed all of it. *)
Captured == Counting /\ do[job.leader] \in {"claim", "try", "flush", "check", "accumulate", "gather"}

(* "excludes readers before writers": while pages are rewritten nobody     *)
(* else reads, pins or writes, and no count has work captured, the workers *)
(* that have yet to take the barrier included; while a count shares the    *)
(* writer interlock nothing inserts, removes or rewrites; and no owner     *)
(* page is pinned outside the shared barrier.                              *)
ReadersProtected ==
  /\ \A p \in Backend : do[p] = "maintain" =>
       /\ Reading \subseteq {p} /\ ~Captured
       /\ \A q \in Backend \ {p} : do[q] \notin {"inserting", "remove", "maintain"}
  /\ guard # {} => \A p \in Backend : do[p] \notin {"inserting", "remove", "maintain"}
  /\ \A p \in Backend : pin[p] # 0 => share[p] > 0

(* A count is the number of documents its snapshot sees, whatever is       *)
(* inserted, deleted, vacuumed or compacted beside it, and however its     *)
(* team divides the work: no document is certified by an all-visible bit   *)
(* that was set after its removal, none is lost or counted twice.          *)
CountExact ==
  \A p \in Backend : do[p] = "report" => job.total = Cardinality(job.snap)

(* Backends wait for one another in a circle only where an insertion whose *)
(* backend has a scan open needs the exclusive barrier: every one of the   *)
(* circle does.  Cleanup locks, conditional locks and the workers of a     *)
(* count never close one.                                                  *)
DeadlockOnlyByUpgrade ==
  \A team \in SUBSET Backend : Cycle(team) => \A p \in team : do[p] = "barrier" /\ p \in open

(* Every operation ends: no waiter is starved by readers that come and go, *)
(* and no lock outlives the operation that took it.                        *)
OperationsServed == \A p \in Backend : (do[p] # "idle") ~> (do[p] = "idle")

(* "excludes readers before writers, so no captured posting page can be    *)
(* recycled" (storage.rs): maintenance has no reader beside it, not even   *)
(* an open scan of its own backend.                                        *)
NoUpgrade == \A p \in Backend : do[p] = "maintain" => Sharers = {}

=============================================================================
