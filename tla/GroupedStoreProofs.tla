------------------------- MODULE GroupedStoreProofs -------------------------
(***************************************************************************)
(* Proofs about the grouped generations, for every number of segments,     *)
(* owners, blocks and crashes.  GroupInv is the inductive invariant: it    *)
(* ties the stack of generations, the journal and the retirement queue to  *)
(* the pages that carry their identities, and a build under way to what it *)
(* has captured.                                                           *)
(***************************************************************************)
EXTENDS GroupedStore, Chains
(* The generations, oldest first, by position. *)
Gen(i) == IF i = 1 THEN active ELSE deltas[i - 1].snap
GenCount == DeltaCount + 1

Owned(id) == {b \in Block : page[b].id = id}
FreePages == {b \in Block : page[b].kind = "Free"}
Link == [b \in Block |-> page[b].next]

(* 1 while a build has taken an identity and is not yet published. *)
Taken == IF job.snap.id = NoId THEN 0 ELSE 1

(* Identities and owners come from one counter, and every page, owner and  *)
(* build is behind it; what is not an owner or a published identity above  *)
(* the newest fence was an abandoned build.                                *)
NumbersBehind ==
  /\ last < inc
  /\ \A o \in published : o <= last
  /\ \A b \in Block : page[b].id < inc
  /\ job.snap.id # NoId => job.snap.id = inc - 1 /\ last < job.snap.id
  /\ abandoned + Taken < inc
  /\ inc - 1 - Latest.id <= abandoned + Taken \/ inc - 1 - last <= abandoned + Taken

(* Pages that carry an identity are grouped pages; the free pages are one  *)
(* chain; no page is past the end of the relation.                         *)
PagesSound ==
  /\ \A b \in Block : page[b].id = NoId <=> ~IsGrouped(b)
  /\ \A b \in Block : ~IsGrouped(b) => page[b].roots = {}
  /\ \A b \in Block : b > size => page[b].kind = "None"
  /\ \E t \in BlockOrNone : Chained(Link, FreePages, free, t)

(* The stack of generations: rising identities and fences, adjoining       *)
(* ranges, falling levels.                                                 *)
StackSound ==
  /\ active.id = NoId => deltas = <<>> /\ active = NoSnapshot
  /\ active.id # NoId => SnapshotValid(active, TRUE)
  /\ \A i \in 1 .. DeltaCount : /\ SnapshotValid(deltas[i].snap, FALSE)
                                /\ deltas[i].level < Segments
                                /\ deltas[i].before = Gen(i).after
  /\ \A i, j \in 1 .. GenCount : i < j => Gen(i).id < Gen(j).id /\ Gen(i).after < Gen(j).after
  /\ \A i, j \in 1 .. DeltaCount : i < j => deltas[i].level >= deltas[j].level + (j - i)
  /\ Latest.id < inc /\ Latest.after <= last
  /\ \A o \in published \cup {last} : o <= Latest.after \/ o > Latest.id

(* The journal and the retirement queue name identities of their own. *)
QueueSound ==
  /\ journal.id = NoId => journal = NoJournal
  /\ journal.id # NoId => Latest.id < journal.id /\ journal.id < inc /\ retired = <<>>
  /\ Len(retired) <= Segments + 1
  /\ \A i \in 1 .. Len(retired) :
       /\ retired[i].head # NoBlock
       /\ retired[i].id # NoId /\ retired[i].id < inc
       /\ \A j \in 1 .. GenCount : Gen(j).id # retired[i].id
       /\ \A j \in 1 .. Len(retired) : i # j => retired[i].id # retired[j].id

(* The pages of one identity are one chain, between the ends that the      *)
(* metapage names, and every grouped page is in such a chain.              *)
ChainsSound ==
  /\ journal.id # NoId => Chained(Link, Owned(journal.id), journal.head, journal.tail)
  /\ \A i \in 1 .. Len(retired) :
       Chained(Link, Owned(retired[i].id), retired[i].head, retired[i].tail)
  /\ active.id # NoId =>
       \A i \in 1 .. GenCount : Chained(Link, Owned(Gen(i).id), Gen(i).head, Gen(i).tail)
  /\ \A b \in Block : IsGrouped(b) =>
       \/ page[b].id = journal.id
       \/ \E i \in 1 .. GenCount : page[b].id = Gen(i).id
       \/ \E i \in 1 .. Len(retired) : page[b].id = retired[i].id

(* A generation holds live documents of its own range, and every document  *)
(* that is not dead is above the newest fence or in a generation.          *)
CoverSound ==
  active.id # NoId =>
    /\ \A i \in 1 .. GenCount : \A b \in Block : page[b].id = Gen(i).id =>
         \A o \in page[b].roots : /\ o \in live /\ o <= Gen(i).after
                                  /\ i > 1 => o > Gen(i - 1).after
    /\ \A o \in live \ dead :
         \/ o > Latest.id
         \/ \E i \in 1 .. GenCount : \E b \in Block : page[b].id = Gen(i).id /\ o \in page[b].roots

Waiting == job.stage = "recover" /\ job.then # "end"

(* The stages of an operation, before a build begins. *)
JobWaits ==
  /\ job.stage = "idle" => job = NoJob
  /\ job.stage \in {"idle", "recover", "capture", "retire", "owners", "failed"} =>
       job.snap = NoSnapshot
  /\ Waiting \/ job.stage \in {"capture", "begin", "retire", "owners", "failed"} =>
       job.blk = NoBlock
  /\ job.stage \in {"capture", "begin", "retire", "owners", "failed"} =>
       journal.id = NoId /\ retired = <<>>
  /\ job.stage = "recover" => \/ job.then = "end"
                              \/ job.then = "capture" /\ job.op \in {"rebuild", "seal"}
                              \/ job.then = "retire" /\ job.op = "vacuum"
  /\ job.stage \in {"capture", "begin", "write", "anchors", "publish"} =>
       job.op \in {"rebuild", "seal"}
  /\ job.op = "rebuild" => job.before = NoOwner
  /\ job.op = "seal" /\ (Waiting \/ job.stage = "capture") =>
       /\ active.id # NoId /\ DeltaCount < Segments
       /\ inc - Latest.id - 1 >= SealOwners
  /\ job.stage = "failed" => abandoned >= SealOwners
  /\ job.op = "vacuum" => job.left \subseteq dead
  /\ job.stage \in {"retire", "owners"} => job.op = "vacuum"
  /\ job.stage = "owners" /\ active.id # NoId =>
       \A i \in 1 .. GenCount : \A b \in Block :
         page[b].id = Gen(i).id => page[b].roots \cap job.left = {}

Building == job.stage \in {"begin", "write", "anchors", "publish"}

(* A build: what it has captured is left to write or written under its     *)
(* identity; a seal keeps the deltas below its fence.                      *)
CaptureSound ==
  Building =>
    /\ job.snap.after = last
    /\ \A o \in Incarnation :
         o \in live /\ o > job.before <=>
           o \in job.left \/ \E b \in Block : page[b].id = job.snap.id /\ o \in page[b].roots
    /\ job.op = "seal" =>
         /\ active.id # NoId
         /\ job.from <= DeltaCount /\ job.level = DeltaCount - job.from
         /\ job.level < Segments
         /\ job.before = Gen(job.from + 1).after /\ job.before < last
         /\ job.from > 0 => deltas[job.from].level > job.level

(* The snapshot of a build, stage by stage: its pages are the journal's. *)
ShapeSound ==
  /\ job.stage = "begin" => job.snap.id = NoId
  /\ job.stage \in {"write", "anchors", "publish"} =>
       /\ job.snap.id # NoId
       /\ journal = [id |-> job.snap.id, head |-> job.snap.head, tail |-> job.snap.tail]
  /\ job.stage \in {"begin", "write"} =>
       job.snap.root = NoBlock
  /\ job.stage = "begin" => job.snap.head = NoBlock /\ job.snap.tail = NoBlock
  /\ job.stage \in {"begin", "write", "anchors"} =>
       job.snap.frontier = NoBlock /\ ~job.snap.anchored /\ ~job.snap.valid
  /\ job.stage = "anchors" => job.op = "rebuild" /\ job.snap.root = job.snap.tail
  /\ job.stage \in {"anchors", "publish"} =>
       /\ job.left = {}
       /\ \A b \in {job.snap.root, job.snap.frontier} \ {NoBlock} :
            page[b].kind = "Node" /\ page[b].id = job.snap.id
  /\ job.stage = "publish" => SnapshotValid(job.snap, job.op = "rebuild")
  /\ job.stage \in {"write", "anchors"} /\ job.blk # NoBlock =>
       free = NoBlock /\ page[job.blk].kind = "Zero"

JobBuilds == CaptureSound /\ ShapeSound

(* The inductive invariant *)
GroupInv ==
  /\ GroupTypeOK
  /\ NumbersBehind /\ PagesSound /\ StackSound /\ QueueSound
  /\ ChainsSound /\ CoverSound /\ JobWaits /\ JobBuilds

-----------------------------------------------------------------------------
(* The operators of the model *)

USE SegmentsAssumption, SealAssumption, AnchorsAssumption, GroupBoundAssumption

(* Members of Generations by position: what Gen(i) and Latest name. *)
LEMMA GenFacts ==
  ASSUME GroupTypeOK
  PROVE  /\ DeltaCount \in Nat /\ GenCount \in Nat /\ GenCount = DeltaCount + 1
         /\ \A i \in 1 .. DeltaCount : deltas[i] \in Delta
         /\ \A i \in 1 .. GenCount : Gen(i) \in Snapshot
         /\ Gen(1) = active
         /\ \A i \in 1 .. DeltaCount : Gen(i + 1) = deltas[i].snap /\ i + 1 \in 1 .. GenCount
         /\ Latest = Gen(GenCount) /\ Latest \in Snapshot
         /\ (deltas = <<>>) = (DeltaCount = 0)
<1> USE DEF GroupTypeOK, DeltaCount, GenCount
<1>1. DeltaCount \in Nat /\ GenCount \in Nat /\ GenCount = DeltaCount + 1
  OBVIOUS
<1>2. \A i \in 1 .. DeltaCount : deltas[i] \in Delta
  OBVIOUS
<1>3. \A i \in 1 .. DeltaCount : deltas[i].snap \in Snapshot
  BY <1>2 DEF Delta
<1>4. ASSUME NEW i \in 1 .. GenCount PROVE Gen(i) \in Snapshot
  <2>1. CASE i = 1
    BY <2>1 DEF Gen
  <2>2. CASE i # 1
    <3>1. i - 1 \in 1 .. DeltaCount
      BY <2>2
    <3> QED BY <1>3, <2>2, <3>1 DEF Gen
  <2> QED BY <2>1, <2>2
<1>5. Gen(1) = active
  BY DEF Gen
<1>6. ASSUME NEW i \in 1 .. DeltaCount PROVE Gen(i + 1) = deltas[i].snap /\ i + 1 \in 1 .. GenCount
  BY DEF Gen
<1>7. (deltas = <<>>) = (DeltaCount = 0)
  OBVIOUS
<1>8. Latest = Gen(GenCount)
  BY <1>1, <1>7 DEF Latest, Gen
<1>9. Latest \in Snapshot
  BY <1>1, <1>4, <1>8
<1> QED BY <1>1, <1>2, <1>4, <1>5, <1>6, <1>7, <1>8, <1>9

(* Generations lists the same snapshots. *)
LEMMA GenerationsAre ==
  ASSUME GroupTypeOK
  PROVE  /\ Generations \in Seq(Snapshot) /\ Len(Generations) = GenCount
         /\ \A i \in 1 .. GenCount : Generations[i] = Gen(i)
<1> DEFINE above == [i \in 1 .. DeltaCount |-> deltas[i].snap]
<1>1. DeltaCount \in Nat /\ GenCount = DeltaCount + 1 /\ active \in Snapshot
  BY GenFacts DEF GroupTypeOK
<1>2. \A i \in 1 .. DeltaCount : deltas[i].snap \in Snapshot
  BY GenFacts DEF Delta
<1>3. above \in Seq(Snapshot) /\ Len(above) = DeltaCount
  BY <1>1, <1>2
<1>4. \A i \in 1 .. DeltaCount : above[i] = deltas[i].snap
  OBVIOUS
<1> HIDE DEF above
<1>5. Generations = <<active>> \o above
  BY DEF Generations, above
<1>6. <<active>> \in Seq(Snapshot) /\ Len(<<active>>) = 1 /\ <<active>>[1] = active
  BY <1>1
<1>7. Generations \in Seq(Snapshot) /\ Len(Generations) = GenCount
  BY <1>1, <1>3, <1>5, <1>6
<1>8. ASSUME NEW i \in 1 .. GenCount PROVE Generations[i] = Gen(i)
  <2>1. CASE i = 1
    BY <1>1, <1>3, <1>5, <1>6, <2>1 DEF Gen
  <2>2. CASE i # 1
    <3>1. i - 1 \in 1 .. DeltaCount
      BY <1>1, <2>2
    <3>2. (<<active>> \o above)[i] = above[i - 1]
      BY <1>1, <1>3, <1>6, <2>2
    <3> QED BY <1>4, <1>5, <2>2, <3>1, <3>2 DEF Gen
  <2> QED BY <2>1, <2>2
<1> QED BY <1>7, <1>8

(* Absorbed is what the loop of seal_delta() counts: it stops. *)
LEMMA AbsorbedFacts ==
  ASSUME GroupTypeOK
  PROVE  /\ Absorbed \in 0 .. DeltaCount
         /\ \A j \in 1 .. Absorbed : deltas[DeltaCount - j + 1].level = j - 1
         /\ Absorbed < DeltaCount => deltas[DeltaCount - Absorbed].level # Absorbed
<1>1. DeltaCount \in Nat
  BY GenFacts
<1> DEFINE Stops(n) == n = DeltaCount \/ deltas[DeltaCount - n].level # n
           T == {n \in 0 .. DeltaCount : Stops(n)}
<1>2. T \subseteq Nat /\ T # {}
  <2>1. DeltaCount \in T
    BY <1>1
  <2> QED BY <1>1, <2>1
<1>3. PICK n \in T : \A k \in T : n <= k
  BY <1>2, LeastElement
<1>4. n \in 0 .. DeltaCount /\ Stops(n)
  BY <1>3
<1>5. ASSUME NEW j \in 1 .. n PROVE deltas[DeltaCount - j + 1].level = j - 1
  <2>1. j - 1 \in 0 .. DeltaCount /\ j - 1 < n /\ DeltaCount - (j - 1) = DeltaCount - j + 1
    BY <1>1, <1>4
  <2>2. j - 1 \notin T
    BY <1>3, <2>1
  <2> QED BY <2>1, <2>2
<1>6. n < DeltaCount => deltas[DeltaCount - n].level # n
  BY <1>1, <1>4
<1> QED BY <1>4, <1>5, <1>6 DEF Absorbed

(* What the queue keeps of a generation. *)
Entry(s) == [id |-> s.id, head |-> s.head, tail |-> s.tail]

(* An entry of the queue is well formed. *)
LEMMA EntryType ==
  ASSUME NEW s \in Snapshot
  PROVE  Entry(s) \in GroupRetired /\ Entry(s).id = s.id
BY DEF Entry, GroupRetired, Snapshot

IsQueue(f, q) ==
  f = [i \in 0 .. Len(q) |->
         IF i = 0 THEN <<>>
         ELSE IF q[i].head = NoBlock THEN f[i - 1]
         ELSE Append(f[i - 1], Entry(q[i]))]

(* The recursion in Retiring is well defined. *)
LEMMA QueueExists ==
  ASSUME NEW q \in Seq(Snapshot)
  PROVE  \E f : f \in [0 .. Len(q) -> Seq(GroupRetired)] /\ IsQueue(f, q)
<1> DEFINE n == Len(q)
           V == Seq(GroupRetired)
           step == [p \in (1 .. n) \X V |->
                      IF q[p[1]].head = NoBlock THEN p[2] ELSE Append(p[2], Entry(q[p[1]]))]
<1>1. n \in Nat /\ \A i \in 1 .. n : q[i] \in Snapshot
  OBVIOUS
<1>2. \A i \in 1 .. n : Entry(q[i]) \in GroupRetired
  BY <1>1 DEF Entry, GroupRetired, Snapshot
<1>3. ASSUME NEW i \in 1 .. n, NEW v \in V
      PROVE  (IF q[i].head = NoBlock THEN v ELSE Append(v, Entry(q[i]))) \in V
  BY <1>2
<1>4. step \in [(1 .. n) \X V -> V]
  BY <1>3
<1>5. \A i \in 1 .. n, v \in V :
        step[<<i, v>>] = IF q[i].head = NoBlock THEN v ELSE Append(v, Entry(q[i]))
  OBVIOUS
<1>6. <<>> \in V
  OBVIOUS
<1> HIDE DEF step
<1>7. PICK f \in [0 .. n -> V] : Runs(f, n, <<>>, step)
  BY <1>1, <1>4, <1>6, RecursionExists
<1>8. f[0] = <<>> /\ \A i \in 1 .. n : f[i] = step[<<i, f[i - 1]>>]
  BY <1>7 DEF Runs
<1>9. ASSUME NEW i \in 0 .. n
      PROVE  f[i] = IF i = 0 THEN <<>>
                    ELSE IF q[i].head = NoBlock THEN f[i - 1]
                    ELSE Append(f[i - 1], Entry(q[i]))
  <2>1. CASE i = 0
    BY <1>8, <2>1
  <2>2. CASE i # 0
    <3>1. i \in 1 .. n /\ f[i - 1] \in V
      BY <1>7, <2>2
    <3> QED BY <1>5, <1>8, <2>2, <3>1
  <2> QED BY <2>1, <2>2
<1>10. IsQueue(f, q)
  BY <1>7, <1>9 DEF IsQueue
<1> QED BY <1>7, <1>10

(* w is the queue of the generations q[1] .. q[n] that have pages. *)
Queues(w, q, n) ==
  /\ Len(w) <= n
  /\ \A i \in 1 .. Len(w) : \E k \in 1 .. n : q[k].head # NoBlock /\ w[i] = Entry(q[k])
  /\ \A k \in 1 .. n : q[k].head # NoBlock => \E i \in 1 .. Len(w) : w[i] = Entry(q[k])
  /\ \A i, j \in 1 .. Len(w) : i # j => w[i].id # w[j].id

(* One more generation is queued, or skipped. *)
LEMMA QueuesStep ==
  ASSUME NEW q \in Seq(Snapshot), NEW n \in Nat, n + 1 <= Len(q),
         \A i, j \in 1 .. Len(q) : i # j => q[i].id # q[j].id,
         NEW w \in Seq(GroupRetired), Queues(w, q, n),
         NEW v, v = IF q[n + 1].head = NoBlock THEN w ELSE Append(w, Entry(q[n + 1]))
  PROVE  Queues(v, q, n + 1)
<1> DEFINE e == Entry(q[n + 1])
<1>0. \A k \in 1 .. n : k \in 1 .. (n + 1) /\ k \in 1 .. Len(q) /\ k # n + 1
  OBVIOUS
<1>00. n + 1 \in 1 .. Len(q) /\ n + 1 \in 1 .. (n + 1) /\ Len(w) \in Nat
  OBVIOUS
<1>01. \A k \in 1 .. (n + 1) : k = n + 1 \/ k \in 1 .. n
  OBVIOUS
<1>1. CASE q[n + 1].head = NoBlock
  <2>1. v = w
    BY <1>1
  <2> QED BY <1>0, <1>00, <1>01, <1>1, <2>1 DEF Queues
<1>2. CASE q[n + 1].head # NoBlock
  <2>0. q[n + 1] \in Snapshot
    BY <1>00
  <2>1. v = Append(w, e) /\ e \in GroupRetired
    BY <1>2, <2>0, EntryType
  <2>2. /\ Len(v) = Len(w) + 1 /\ v[Len(w) + 1] = e
        /\ \A i \in 1 .. Len(w) : v[i] = w[i] /\ i \in 1 .. Len(v)
        /\ \A i \in 1 .. Len(v) : i \in 1 .. Len(w) \/ i = Len(w) + 1
        /\ Len(w) + 1 \in 1 .. Len(v)
    <3> HIDE DEF e
    <3> QED BY <2>1
  <2>3. Len(v) <= n + 1
    BY <2>2 DEF Queues
  <2>4. \A i \in 1 .. Len(v) : \E k \in 1 .. (n + 1) : q[k].head # NoBlock /\ v[i] = Entry(q[k])
    BY <1>0, <1>00, <1>2, <2>2 DEF Queues
  <2>5. \A k \in 1 .. (n + 1) : q[k].head # NoBlock => \E i \in 1 .. Len(v) : v[i] = Entry(q[k])
    BY <1>01, <2>2 DEF Queues
  <2>6. ASSUME NEW i \in 1 .. Len(w) PROVE w[i].id # e.id
    <3>1. PICK k \in 1 .. n : w[i] = Entry(q[k])
      BY DEF Queues
    <3>2. q[k].id # q[n + 1].id
      BY <1>0, <1>00
    <3> QED BY <3>1, <3>2 DEF Entry
  <2>7. \A i, j \in 1 .. Len(w) : i # j => w[i].id # w[j].id
    BY DEF Queues
  <2>8. \A i, j \in 1 .. Len(v) : i # j => v[i].id # v[j].id
    <3> HIDE DEF e
    <3> QED BY <2>2, <2>6, <2>7
  <2> QED BY <2>3, <2>4, <2>5, <2>8 DEF Queues
<1> QED BY <1>1, <1>2

(* retired() of several generations: every one that has pages, once. *)
LEMMA RetiringFacts ==
  ASSUME NEW q \in Seq(Snapshot), \A i, j \in 1 .. Len(q) : i # j => q[i].id # q[j].id
  PROVE  Retiring(q) \in Seq(GroupRetired) /\ Queues(Retiring(q), q, Len(q))
<1> DEFINE c == CHOOSE f : f = [i \in 0 .. Len(q) |->
                  IF i = 0 THEN <<>>
                  ELSE IF q[i].head = NoBlock THEN f[i - 1]
                  ELSE Append(f[i - 1], [id |-> q[i].id, head |-> q[i].head, tail |-> q[i].tail])]
<1>1. Retiring(q) = c[Len(q)]
  BY DEF Retiring
<1>2. c = CHOOSE f : IsQueue(f, q)
  BY DEF IsQueue, Entry
<1> HIDE DEF c
<1>3. IsQueue(c, q)
  BY <1>2, QueueExists
<1>4. c[0] = <<>>
  BY <1>3 DEF IsQueue
<1>5. ASSUME NEW i \in 1 .. Len(q)
      PROVE  c[i] = IF q[i].head = NoBlock THEN c[i - 1] ELSE Append(c[i - 1], Entry(q[i]))
  <2>1. i \in 0 .. Len(q) /\ i # 0
    OBVIOUS
  <2> QED BY <1>3, <2>1, Zenon DEF IsQueue
<1> DEFINE Good(n) == c[n] \in Seq(GroupRetired) /\ Queues(c[n], q, n)
           T == {n \in Nat : n <= Len(q) => Good(n)}
<1>6. Good(0)
  BY <1>4 DEF Queues
<1>7. ASSUME NEW n \in Nat, n + 1 <= Len(q), Good(n) PROVE Good(n + 1)
  <2>1. n + 1 \in 1 .. Len(q) /\ (n + 1) - 1 = n
    BY <1>7
  <2>2. c[n + 1] = IF q[n + 1].head = NoBlock THEN c[n] ELSE Append(c[n], Entry(q[n + 1]))
    BY <1>5, <2>1
  <2>3. Entry(q[n + 1]) \in GroupRetired
    <3>1. q[n + 1] \in Snapshot
      BY <2>1
    <3> QED BY <3>1, EntryType
  <2>4. c[n + 1] \in Seq(GroupRetired)
    BY <1>7, <2>2, <2>3
  <2>5. Queues(c[n + 1], q, n + 1)
    BY <1>7, <2>2, QueuesStep
  <2> QED BY <2>4, <2>5
<1> HIDE DEF Good
<1>8. 0 \in T
  BY <1>6
<1>9. ASSUME NEW n \in Nat, n \in T PROVE n + 1 \in T
  BY <1>7, <1>9
<1>10. Nat \subseteq T
  <2> HIDE DEF T
  <2> QED BY <1>8, <1>9, SetInduction
<1>11. Good(Len(q))
  BY <1>10
<1> QED BY <1>1, <1>11 DEF Good

-----------------------------------------------------------------------------
(* Type correctness *)

(* The pages that the actions write are pages. *)
LEMMA PageTypes ==
  /\ NoPage \in GroupPage /\ ZeroPage \in GroupPage
  /\ \A b \in BlockOrNone : FreePage(b) \in GroupPage
  /\ \A id \in OwnerOrNone, roots \in SUBSET Incarnation :
       NewPage("Record", id, roots) \in GroupPage /\ NewPage("Node", id, roots) \in GroupPage
  /\ NoSnapshot \in Snapshot /\ NoJob \in Job /\ NoJournal \in GroupRetired
BY DEF NoPage, ZeroPage, FreePage, NewPage, GroupPage, BlockOrNone, OwnerOrNone, NoBlock, NoId,
       NoOwner, NoSnapshot, NewSnapshot, Snapshot, NoJob, Job, Stage, NoJournal, GroupRetired

(* Types of the pages and ends of chains *)
LEMMA FieldTypes ==
  ASSUME GroupTypeOK
  PROVE  /\ \A b \in Block : /\ page[b].id \in OwnerOrNone /\ page[b].next \in BlockOrNone
                             /\ page[b].roots \in SUBSET Incarnation
         /\ journal.id \in OwnerOrNone /\ journal.head \in BlockOrNone
         /\ journal.tail \in BlockOrNone
         /\ \A i \in 1 .. Len(retired) :
              /\ retired[i] \in GroupRetired
              /\ retired[i].id \in OwnerOrNone /\ retired[i].head \in BlockOrNone
              /\ retired[i].tail \in BlockOrNone
         /\ job.snap \in Snapshot /\ job.blk \in BlockOrNone /\ job.left \subseteq Incarnation
         /\ job.snap.id \in OwnerOrNone /\ job.snap.tail \in BlockOrNone
         /\ job.snap.head \in BlockOrNone
         /\ \A b \in BlockOrNone : b # NoBlock => b \in Block
<1>1. \A b \in Block : /\ page[b].id \in OwnerOrNone /\ page[b].next \in BlockOrNone
                       /\ page[b].roots \in SUBSET Incarnation
  BY DEF GroupTypeOK, GroupPage
<1>2. journal.id \in OwnerOrNone /\ journal.head \in BlockOrNone /\ journal.tail \in BlockOrNone
  BY DEF GroupTypeOK, GroupRetired
<1>3. \A i \in 1 .. Len(retired) : retired[i] \in GroupRetired
  BY DEF GroupTypeOK
<1>4. \A e \in GroupRetired : /\ e.id \in OwnerOrNone /\ e.head \in BlockOrNone
                              /\ e.tail \in BlockOrNone
  BY DEF GroupRetired
<1>5. job.snap \in Snapshot /\ job.blk \in BlockOrNone /\ job.left \subseteq Incarnation
  BY DEF GroupTypeOK, Job
<1>6. /\ job.snap.id \in OwnerOrNone /\ job.snap.tail \in BlockOrNone
      /\ job.snap.head \in BlockOrNone
  BY <1>5 DEF Snapshot
<1>7. \A b \in BlockOrNone : b # NoBlock => b \in Block
  BY DEF BlockOrNone, Block, NoBlock
<1> QED BY <1>1, <1>2, <1>3, <1>4, <1>5, <1>6, <1>7

(* The freed page and the new head of the free list *)
LEMMA FreeHeadType ==
  ASSUME GroupTypeOK, NEW b \in Block, FreeHead(b)
  PROVE  page' \in [Block -> GroupPage] /\ free' \in BlockOrNone
<1>1. FreePage(free) \in GroupPage /\ b \in BlockOrNone
  BY PageTypes DEF GroupTypeOK, Block, BlockOrNone
<1> QED BY <1>1 DEF FreeHead, GroupTypeOK

(* append() keeps the types. *)
LEMMA AppendType ==
  ASSUME GroupTypeOK, NEW p \in GroupPage, Append1(p)
  PROVE  /\ page' \in [Block -> GroupPage] /\ free' \in BlockOrNone
         /\ journal' \in GroupRetired
         /\ NextBlock \in Block /\ Appended(job.snap) \in Snapshot
<1>1. NextBlock \in Block
  <2>1. free \in BlockOrNone /\ job.blk \in BlockOrNone
    BY FieldTypes DEF GroupTypeOK
  <2>2. free # NoBlock \/ job.blk # NoBlock
    BY DEF Append1, HasBlock
  <2> QED BY <2>1, <2>2, FieldTypes DEF NextBlock
<1>2. \A c \in Block : [page[c] EXCEPT !.next = NextBlock] \in GroupPage
  <2>1. NextBlock \in BlockOrNone /\ \A c \in Block : page[c] \in GroupPage
    BY <1>1 DEF GroupTypeOK, Block, BlockOrNone
  <2> QED BY <2>1 DEF GroupPage
<1>3. page' \in [Block -> GroupPage]
  BY <1>2 DEF Append1, GroupTypeOK
<1>4. free' \in BlockOrNone
  <2>1. free \in BlockOrNone
    BY DEF GroupTypeOK
  <2>2. free' = IF free # NoBlock THEN page[free].next ELSE free
    BY DEF Append1
  <2> QED BY <2>1, <2>2, FieldTypes
<1>5. journal' \in GroupRetired
  <2>1. journal' = [journal EXCEPT !.head = IF @ = NoBlock THEN NextBlock ELSE @,
                                   !.tail = NextBlock]
    BY DEF Append1
  <2>2. NextBlock \in BlockOrNone /\ journal \in GroupRetired
    BY <1>1 DEF GroupTypeOK, Block, BlockOrNone
  <2> HIDE DEF NextBlock
  <2> QED BY <2>1, <2>2 DEF GroupRetired
<1>6. Appended(job.snap) \in Snapshot
  <2>1. NextBlock \in BlockOrNone /\ job.snap \in Snapshot
    BY <1>1, FieldTypes DEF Block, BlockOrNone
  <2> QED BY <2>1 DEF Appended, Snapshot
<1> QED BY <1>1, <1>3, <1>4, <1>5, <1>6

(* An operation that ends leaves no locals. *)
LEMMA EndedType ==
  ASSUME GroupTypeOK, NumbersBehind, Ended
  PROVE  job' \in Job /\ abandoned' \in 0 .. MaxInc
<1>1. job' \in Job
  BY PageTypes DEF Ended
<1>2. abandoned' \in 0 .. MaxInc
  BY DEF Ended, GroupTypeOK, NumbersBehind, Taken
<1> QED BY <1>1, <1>2

(* The insertions and the steps that only begin an operation *)
LEMMA TypeHost ==
  ASSUME GroupTypeOK, NumbersBehind,
         \/ \E completes \in BOOLEAN : Insert(completes)
         \/ \E o \in live : HeapDelete(o)
         \/ Invalidate \/ MaintainBegin \/ MaintainSkipped \/ CleanupBegin \/ VacuumBegin
         \/ Interrupt
  PROVE  GroupTypeOK'
<1> USE DEF GroupTypeOK, canonical, pages, group
<1>1. ASSUME NEW completes \in BOOLEAN, Insert(completes) PROVE GroupTypeOK'
  <2>1. inc \in Incarnation /\ inc \in OwnerOrNone /\ inc' \in 1 .. (MaxInc + 1) /\ budget' \in Nat
    BY <1>1 DEF Insert, Reserve, CanReserve, Incarnation, OwnerOrNone
  <2>2. due' \in 0 .. MaxDue
    BY <1>1 DEF Insert
  <2> QED BY <1>1, <2>1, <2>2 DEF Insert
<1>2. ASSUME NEW o \in live, HeapDelete(o) PROVE GroupTypeOK'
  BY <1>2 DEF HeapDelete
<1>3. CASE Invalidate
  <2>1. active' \in Snapshot
    BY <1>3 DEF Invalidate, Snapshot
  <2> QED BY <1>3, <2>1 DEF Invalidate
<1>4. ASSUME NEW op \in {"rebuild", "seal"} PROVE BuildJob(op) \in Job
  BY PageTypes DEF BuildJob, NoJob, Job, Stage
<1>5. CASE MaintainBegin
  <2>1. DeltaMaintenance(inc) \in {"None", "Rebuild", "Seal"}
    BY DEF DeltaMaintenance
  <2>2. /\ DeltaMaintenance(inc) = "None" => job' = job
        /\ DeltaMaintenance(inc) = "Rebuild" => job' \in {job, BuildJob("rebuild")}
        /\ DeltaMaintenance(inc) = "Seal" => job' = BuildJob("seal")
    BY <1>5 DEF MaintainBegin
  <2>3. job' \in Job
    BY <1>4, <2>1, <2>2
  <2>4. due' \in 0 .. MaxDue
    BY SMTT(30), <1>5 DEF MaintainBegin
  <2> QED BY <1>5, <2>3, <2>4 DEF MaintainBegin
<1>6. CASE MaintainSkipped
  BY <1>6 DEF MaintainSkipped
<1>7. CASE CleanupBegin
  BY <1>4, <1>7 DEF CleanupBegin
<1>8. CASE VacuumBegin
  <2>1. job' \in Job
    BY <1>8, PageTypes DEF VacuumBegin, NoJob, Job, Stage
  <2> QED BY <1>8, <2>1 DEF VacuumBegin
<1>9. CASE Interrupt
  <2>1. job' \in Job /\ abandoned' \in 0 .. MaxInc
    BY <1>9, EndedType DEF Interrupt
  <2> QED BY <1>9, <2>1 DEF Interrupt
<1> QED BY <1>1, <1>2, <1>3, <1>5, <1>6, <1>7, <1>8, <1>9

(* recover() *)
LEMMA TypeRecover ==
  ASSUME GroupTypeOK, QueueSound, Recover
  PROVE  GroupTypeOK'
<1> USE DEF GroupTypeOK, canonical, pages, group
<1>1. CASE RecoverEmptyJournal
  BY <1>1, PageTypes DEF RecoverEmptyJournal
<1>2. CASE RecoverJournal
  <2>1. journal.head \in Block
    BY <1>2, FieldTypes DEF RecoverJournal
  <2>2. page' \in [Block -> GroupPage] /\ free' \in BlockOrNone
    BY <1>2, <2>1, FreeHeadType DEF RecoverJournal
  <2>3. Following(journal) \in BlockOrNone
    BY <2>1, FieldTypes DEF Following, BlockOrNone, NoBlock
  <2>4. journal' \in GroupRetired
    BY <1>2, <2>3, PageTypes DEF RecoverJournal, GroupRetired
  <2> QED BY <1>2, <2>2, <2>4 DEF RecoverJournal
<1>3. CASE RecoverRetired
  <2> DEFINE first == Head(retired)
  <2>1. retired # <<>> /\ first = retired[1] /\ 1 \in 1 .. Len(retired) /\ first \in GroupRetired
    BY <1>3 DEF RecoverRetired
  <2>2. first.head \in Block
    BY <2>1, FieldTypes DEF QueueSound
  <2>3. page' \in [Block -> GroupPage] /\ free' \in BlockOrNone
    BY <1>3, <2>2, FreeHeadType DEF RecoverRetired
  <2>4. Following(first) \in BlockOrNone
    BY <2>2, FieldTypes DEF Following, BlockOrNone, NoBlock
  <2>5. [first EXCEPT !.head = Following(first)] \in GroupRetired
    BY <2>1, <2>4 DEF GroupRetired
  <2>6. retired' \in Seq(GroupRetired)
    BY <1>3, <2>1, <2>5 DEF RecoverRetired
  <2> QED BY <1>3, <2>3, <2>6 DEF RecoverRetired
<1>4. CASE RecoverDone
  <2>1. job' \in Job
    BY <1>4, PageTypes DEF RecoverDone, Job, Stage
  <2> QED BY <1>4, <2>1 DEF RecoverDone
<1> QED BY <1>1, <1>2, <1>3, <1>4 DEF Recover


(* The build *)
LEMMA TypeBuild ==
  ASSUME GroupTypeOK, NumbersBehind, StackSound, JobBuilds, Build
  PROVE  GroupTypeOK'
<1> USE DEF GroupTypeOK, canonical, pages, group
<1>1. CASE CaptureAll
  <2>1. job' \in Job
    BY <1>1 DEF CaptureAll, Job, Stage, Snapshot
  <2> QED BY <1>1, <2>1 DEF CaptureAll
<1>2. CASE CaptureDelta
  <2>1. SealBefore \in OwnerOrNone /\ Absorbed \in Nat /\ DeltaCount - Absorbed \in Nat
    <3>1. Absorbed \in 0 .. DeltaCount /\ DeltaCount \in Nat
      BY AbsorbedFacts, GenFacts
    <3>2. Latest.after \in OwnerOrNone
      BY GenFacts DEF Snapshot
    <3>3. Absorbed # 0 => DeltaCount - Absorbed + 1 \in 1 .. DeltaCount
      BY <3>1
    <3>4. Absorbed # 0 => deltas[DeltaCount - Absorbed + 1].before \in OwnerOrNone
      BY <3>3, GenFacts DEF Delta
    <3> QED BY <3>1, <3>2, <3>4 DEF SealBefore
  <2>2. {o \in live : o > SealBefore} \in SUBSET Incarnation
    OBVIOUS
  <2>3. job.snap \in Snapshot /\ [job.snap EXCEPT !.after = last] \in Snapshot
    BY FieldTypes DEF Snapshot
  <2>4. job' = [job EXCEPT !.stage = "failed"] \/
        job' = [job EXCEPT !.stage = "begin", !.snap = [job.snap EXCEPT !.after = last],
                           !.before = SealBefore,
                           !.level = Absorbed, !.from = DeltaCount - Absorbed,
                           !.left = {o \in live : o > SealBefore}]
    BY <1>2 DEF CaptureDelta, Job
  <2>5. job' \in Job
    BY ZenonT(40), <2>1, <2>2, <2>3, <2>4 DEF Job, Stage
  <2> QED BY <1>2, <2>5 DEF CaptureDelta
<1>3. CASE Begin
  <2>1. inc \in OwnerOrNone /\ inc' \in 1 .. (MaxInc + 1) /\ budget' \in Nat
    BY SMTT(30), <1>3 DEF Begin, Reserve, CanReserve, OwnerOrNone
  <2>2. job' \in Job
    BY <1>3, <2>1 DEF Begin, Job, Stage, Snapshot
  <2>3. journal' \in GroupRetired
    BY <1>3, <2>1 DEF Begin, GroupRetired, BlockOrNone, NoBlock
  <2> QED BY <1>3, <2>1, <2>2, <2>3 DEF Begin
<1>4. CASE Extend
  <2>1. size + 1 \in BlockOrNone
    BY SMTT(30), <1>4 DEF Extend, BlockOrNone
  <2>2. page' \in [Block -> GroupPage]
    BY <1>4, PageTypes DEF Extend
  <2>3. job' \in Job
    BY <1>4, <2>1 DEF Extend, Job
  <2> QED BY <1>4, <2>1, <2>2, <2>3 DEF Extend
<1>5. job.snap.id \in OwnerOrNone /\ {} \in SUBSET Incarnation
  BY FieldTypes
<1>6. NoBlock \in BlockOrNone
  BY DEF NoBlock, BlockOrNone
<1>7. \A g \in 0 .. (HeapGroups - 1) : InGroup(g) \in SUBSET Incarnation
  BY FieldTypes DEF InGroup
<1>8. \A b \in Block : b \in BlockOrNone
  BY DEF Block, BlockOrNone
<1>9. AfterCatalog \in {"anchors", "publish"}
  BY DEF AfterCatalog
<1>10. ASSUME NEW g \in 0 .. (HeapGroups - 1), WriteGroup(g) PROVE GroupTypeOK'
  <2>1. NewPage("Record", job.snap.id, InGroup(g)) \in GroupPage
    BY <1>5, <1>7, PageTypes
  <2>2. /\ page' \in [Block -> GroupPage] /\ free' \in BlockOrNone
        /\ journal' \in GroupRetired /\ Appended(job.snap) \in Snapshot
    BY <1>10, <2>1, AppendType DEF WriteGroup
  <2>3. job' = [job EXCEPT !.left = job.left \ InGroup(g), !.snap = Appended(job.snap),
                           !.blk = NoBlock]
    BY <1>10 DEF WriteGroup, Job
  <2>4. job' \in Job
    BY <1>6, <2>2, <2>3 DEF Job
  <2> QED BY <1>10, <2>2, <2>4 DEF WriteGroup
<1>11. CASE FinishCatalog
  <2>1. NewPage("Node", job.snap.id, {}) \in GroupPage
    BY <1>5, PageTypes
  <2>2. /\ page' \in [Block -> GroupPage] /\ free' \in BlockOrNone
        /\ journal' \in GroupRetired /\ Appended(job.snap) \in Snapshot
        /\ NextBlock \in BlockOrNone
    BY <1>8, <1>11, <2>1, AppendType DEF FinishCatalog
  <2>3. [Appended(job.snap) EXCEPT !.root = NextBlock] \in Snapshot
    BY <2>2 DEF Snapshot
  <2>4. job' = [job EXCEPT !.stage = AfterCatalog, !.blk = NoBlock,
                           !.snap = [Appended(job.snap) EXCEPT !.root = NextBlock]]
    BY <1>11 DEF FinishCatalog, Job
  <2>5. job' \in Job
    BY <1>6, <1>9, <2>3, <2>4 DEF Job, Stage
  <2> QED BY <1>11, <2>2, <2>5 DEF FinishCatalog
<1>12. CASE FinishEmpty
  <2>1. job' \in Job
    BY <1>9, <1>12 DEF FinishEmpty, Job, Stage
  <2> QED BY <1>12, <2>1 DEF FinishEmpty
<1>13. CASE FinishAnchors
  <2>1. NewPage("Node", job.snap.id, {}) \in GroupPage
    BY <1>5, PageTypes
  <2>2. /\ page' \in [Block -> GroupPage] /\ free' \in BlockOrNone
        /\ journal' \in GroupRetired /\ Appended(job.snap) \in Snapshot
        /\ NextBlock \in BlockOrNone
    BY <1>8, <1>13, <2>1, AppendType DEF FinishAnchors
  <2>3. [Appended(job.snap) EXCEPT !.anchored = TRUE, !.valid = TRUE,
                                   !.frontier = NextBlock] \in Snapshot
    BY <2>2 DEF Snapshot
  <2>4. job' = [job EXCEPT !.stage = "publish", !.blk = NoBlock,
                           !.snap = [Appended(job.snap) EXCEPT !.anchored = TRUE, !.valid = TRUE,
                                                               !.frontier = NextBlock]]
    BY <1>13 DEF FinishAnchors, Job
  <2>5. job' \in Job
    BY <1>6, <2>3, <2>4 DEF Job, Stage
  <2> QED BY <1>13, <2>2, <2>5 DEF FinishAnchors
<1>14. CASE FinishNoAnchors
  <2>1. job' \in Job
    BY <1>14 DEF FinishNoAnchors, Job, Stage, Snapshot
  <2> QED BY <1>14, <2>1 DEF FinishNoAnchors
<1>15. Published \in Job
  BY PageTypes DEF Published, Job, Stage
<1>16. CASE Publish
  <2>1. Generations \in Seq(Snapshot) /\ <<>> \in Seq(Snapshot)
    BY GenerationsAre
  <2>2. \A i, j \in 1 .. Len(Generations) : i # j => Generations[i].id # Generations[j].id
    <3>1. \A i, j \in 1 .. GenCount : i < j => Gen(i).id < Gen(j).id
      BY DEF StackSound
    <3>2. \A i \in 1 .. GenCount : Gen(i).id \in Nat
      BY GenFacts DEF Snapshot, OwnerOrNone
    <3>3. \A i, j \in 1 .. GenCount : i # j => Gen(i).id # Gen(j).id
      BY <3>1, <3>2, GenFacts
    <3>4. Len(Generations) = GenCount /\ \A i \in 1 .. GenCount : Generations[i] = Gen(i)
      BY GenerationsAre
    <3> HIDE DEF Generations
    <3> QED BY <3>3, <3>4
  <2>3. Retiring(Generations) \in Seq(GroupRetired)
    BY <2>1, <2>2, RetiringFacts
  <2>4. Retiring(<<>>) \in Seq(GroupRetired)
    <3> DEFINE none == <<>>
    <3>1. none \in Seq(Snapshot) /\ Len(none) = 0
      OBVIOUS
    <3> HIDE DEF none
    <3>2. \A i, j \in 1 .. Len(none) : i # j => none[i].id # none[j].id
      BY <3>1
    <3>3. Retiring(none) \in Seq(GroupRetired)
      BY <3>1, <3>2, RetiringFacts
    <3> QED BY <3>3 DEF none
  <2>5. retired' \in Seq(GroupRetired)
    BY <1>16, <2>3, <2>4 DEF Publish
  <2> QED BY <1>15, <1>16, <2>5, FieldTypes, PageTypes DEF Publish
<1>17. CASE PublishDelta
  <2> DEFINE n == DeltaCount - job.from
             q == [i \in 1 .. n |-> deltas[job.from + i].snap]
  <2>1. n \in Nat /\ job.from \in Nat /\ job.from <= DeltaCount
    BY <1>17, GenFacts DEF PublishDelta, Job
  <2>2. \A i \in 1 .. n : job.from + i \in 1 .. DeltaCount
    BY <2>1, GenFacts
  <2>3. \A i \in 1 .. n : deltas[job.from + i].snap \in Snapshot
    BY <2>2, GenFacts DEF Delta
  <2>4. q \in Seq(Snapshot) /\ Len(q) = n
    BY SMTT(30), <2>1, <2>3
  <2>5. \A i, j \in 1 .. Len(q) : i # j => q[i].id # q[j].id
    <3>1. \A i, j \in 1 .. GenCount : i < j => Gen(i).id < Gen(j).id
      BY DEF StackSound
    <3>2. \A i \in 1 .. GenCount : Gen(i).id \in Nat
      BY GenFacts DEF Snapshot, OwnerOrNone
    <3>3. \A i \in 1 .. n : job.from + i + 1 \in 1 .. GenCount
      BY <2>1, <2>2, GenFacts
    <3>4. \A i \in 1 .. n : q[i] = Gen(job.from + i + 1)
      BY <2>2, GenFacts
    <3>5. ASSUME NEW i \in 1 .. n, NEW j \in 1 .. n, i # j
          PROVE  Gen(job.from + i + 1).id # Gen(job.from + j + 1).id
      BY SMTT(30), <2>1, <3>1, <3>2, <3>3, <3>5
    <3> HIDE DEF q, n
    <3> QED BY <2>4, <3>4, <3>5
  <2>6. Retiring(q) \in Seq(GroupRetired)
    <3> HIDE DEF q, n
    <3> QED BY <2>4, <2>5, RetiringFacts
  <2>7. retired' = Retiring(q)
    BY <1>17 DEF PublishDelta
  <2> HIDE DEF q, n
  <2>8. [snap |-> job.snap, before |-> job.before, level |-> job.level] \in Delta
    BY FieldTypes DEF Job, Delta
  <2>9. SubSeq(deltas, 1, job.from) \in Seq(Delta)
    BY <2>1, GenFacts
  <2>10. deltas' \in Seq(Delta)
    BY <1>17, <2>8, <2>9 DEF PublishDelta
  <2> QED BY <1>15, <1>17, <2>6, <2>7, <2>10, PageTypes DEF PublishDelta
<1>18. CASE OutOfSpace
  <2>1. job' \in Job /\ abandoned' \in 0 .. MaxInc
    BY <1>18, EndedType DEF OutOfSpace
  <2> QED BY <1>18, <2>1 DEF OutOfSpace
<1>19. CASE SealRefused
  <2>1. job' \in Job /\ abandoned' \in 0 .. MaxInc
    BY <1>19, EndedType DEF SealRefused
  <2> QED BY <1>19, <2>1 DEF SealRefused
<1> QED BY <1>1, <1>2, <1>3, <1>4, <1>10, <1>11, <1>12, <1>13, <1>14, <1>16, <1>17, <1>18, <1>19
       DEF Build

(* vacuum() *)
LEMMA TypeVacuum ==
  ASSUME GroupTypeOK, Vacuum
  PROVE  GroupTypeOK'
<1> USE DEF GroupTypeOK, canonical, pages, group
<1>1. ASSUME NEW b \in Block, RetireRecord(b) PROVE GroupTypeOK'
  <2>1. page[b] \in GroupPage
    OBVIOUS
  <2>2. [page[b] EXCEPT !.roots = page[b].roots \ job.left] \in GroupPage
    BY <2>1 DEF GroupPage
  <2>3. page' = [page EXCEPT ![b] = [page[b] EXCEPT !.roots = page[b].roots \ job.left]]
    BY <1>1, <2>1 DEF RetireRecord, GroupPage
  <2>4. page' \in [Block -> GroupPage]
    BY <2>2, <2>3
  <2> QED BY <1>1, <2>4 DEF RetireRecord
<1>2. ASSUME NEW b \in Block, ReclaimZero(b) PROVE GroupTypeOK'
  <2>1. page' \in [Block -> GroupPage] /\ free' \in BlockOrNone
    BY <1>2, FreeHeadType DEF ReclaimZero
  <2> QED BY <1>2, <2>1 DEF ReclaimZero
<1>3. CASE RetireDone
  <2>1. job' \in Job
    BY <1>3 DEF RetireDone, Job, Stage
  <2> QED BY <1>3, <2>1 DEF RetireDone
<1>4. CASE VacuumEnd
  BY <1>4, PageTypes DEF VacuumEnd
<1>5. ASSUME NEW gone \in SUBSET (live \cap job.left), RemoveOwners(gone) PROVE GroupTypeOK'
  BY <1>5 DEF RemoveOwners
<1> QED BY <1>1, <1>2, <1>3, <1>4, <1>5 DEF Vacuum

(* Every step keeps the types. *)
LEMMA TypeStep ==
  ASSUME GroupInv, [Next]_vars
  PROVE  GroupTypeOK'
<1> USE DEF GroupInv
<1>1. CASE UNCHANGED vars
  BY <1>1 DEF vars, GroupTypeOK
<1>2. CASE Recover
  BY <1>2, TypeRecover
<1>3. CASE Build
  BY <1>3, TypeBuild
<1>4. CASE Vacuum
  BY <1>4, TypeVacuum
<1>5. CASE \/ \E completes \in BOOLEAN : Insert(completes)
           \/ \E o \in live : HeapDelete(o)
           \/ Invalidate \/ MaintainBegin \/ MaintainSkipped \/ CleanupBegin \/ VacuumBegin
           \/ Interrupt
  BY <1>5, TypeHost
<1> QED BY <1>1, <1>2, <1>3, <1>4, <1>5 DEF Next, Step

-----------------------------------------------------------------------------
(* Steps that leave the pages and the generations alone *)

(* The parts of the invariant that only speak of what is stored *)
LEMMA StoreFrame ==
  ASSUME GroupInv,
         UNCHANGED <<inc, last, published, page, size, free, active, deltas, journal, retired>>
  PROVE  PagesSound' /\ StackSound' /\ QueueSound' /\ ChainsSound'
<1>1. PagesSound'
  BY DEF GroupInv, PagesSound, IsGrouped, Link, FreePages
<1>2. StackSound'
  BY DEF GroupInv, StackSound, DeltaCount, GenCount, Gen, Latest, SnapshotValid
<1>3. QueueSound'
  BY DEF GroupInv, QueueSound, DeltaCount, GenCount, Gen, Latest
<1>4. ChainsSound'
  BY DEF GroupInv, ChainsSound, DeltaCount, GenCount, Gen, Link, Owned, IsGrouped
<1> QED BY <1>1, <1>2, <1>3, <1>4

(* The documents of the generations when no slot changes *)
LEMMA CoverFrame ==
  ASSUME GroupInv, UNCHANGED <<page, active, deltas, live>>, dead \subseteq dead'
  PROVE  CoverSound'
BY DEF GroupInv, CoverSound, GenCount, DeltaCount, Gen, Latest

(* Without an operation under way nothing is asked of its locals. *)
LEMMA NoJobFacts ==
  ASSUME job' = NoJob
  PROVE  JobWaits' /\ JobBuilds'
BY DEF JobWaits, JobBuilds, CaptureSound, ShapeSound, NoJob, NoSnapshot, NewSnapshot, Waiting, Building

(* The counter and the identities when no identity is taken *)
LEMMA NumbersFrame ==
  ASSUME GroupInv, UNCHANGED <<inc, last, published, page, active, deltas, abandoned>>,
         job'.snap.id = job.snap.id
  PROVE  NumbersBehind'
BY DEF GroupInv, NumbersBehind, Latest, DeltaCount, Taken

(* An identity that is not published counts as abandoned. *)
LEMMA EndedNumbers ==
  ASSUME GroupInv, UNCHANGED <<inc, last, published, page, active, deltas>>, Ended
  PROVE  NumbersBehind'
<1>1. job'.snap.id = NoId
  BY DEF Ended, NoJob, NoSnapshot, NewSnapshot
<1>2. abandoned' + Taken' = abandoned + Taken
  BY <1>1 DEF Ended, Taken, GroupInv, GroupTypeOK
<1> HIDE DEF Taken
<1> QED BY <1>1, <1>2 DEF GroupInv, NumbersBehind, Latest, DeltaCount

(* Interrupt, OutOfSpace and SealRefused *)
LEMMA EndedStep ==
  ASSUME GroupInv, UNCHANGED <<inc, canonical, pages, group>>, Ended
  PROVE  /\ NumbersBehind' /\ PagesSound' /\ StackSound' /\ QueueSound'
         /\ ChainsSound' /\ CoverSound' /\ JobWaits' /\ JobBuilds'
BY StoreFrame, CoverFrame, NoJobFacts, EndedNumbers DEF canonical, pages, group, Ended

(* HeapDelete: a document of the running pass stays dead. *)
LEMMA HeapDeleteStep ==
  ASSUME GroupInv, NEW o \in live, HeapDelete(o)
  PROVE  /\ NumbersBehind' /\ PagesSound' /\ StackSound' /\ QueueSound'
         /\ ChainsSound' /\ CoverSound' /\ JobWaits' /\ JobBuilds'
<1> USE DEF HeapDelete, canonical, pages, group
<1>1. PagesSound' /\ StackSound' /\ QueueSound' /\ ChainsSound'
  BY StoreFrame
<1>2. CoverSound'
  BY CoverFrame
<1>3. NumbersBehind'
  BY NumbersFrame
<1>4. JobWaits'
  BY DEF GroupInv, JobWaits, Waiting, GenCount, DeltaCount, Gen, Latest
<1>5. JobBuilds'
  BY DEF GroupInv, JobBuilds, CaptureSound, ShapeSound, Building, DeltaCount, Gen, SnapshotValid
<1> QED BY <1>1, <1>2, <1>3, <1>4, <1>5

(* A build is asked for with what maintain_delta() has decided. *)
LEMMA BuildJobFacts ==
  ASSUME GroupInv, Idle, NEW op \in {"rebuild", "seal"}, job' = BuildJob(op),
         UNCHANGED <<inc, canonical, pages, group, abandoned>>,
         op = "seal" => /\ active.id # NoId /\ DeltaCount < Segments
                        /\ inc - Latest.id - 1 >= SealOwners
  PROVE  NumbersBehind' /\ JobWaits' /\ JobBuilds'
<1> USE DEF canonical, pages, group
<1>1. job = NoJob
  BY DEF GroupInv, JobWaits, Idle
<1>2. /\ job'.stage = "recover" /\ job'.then = "capture" /\ job'.op = op
      /\ job'.snap = NoSnapshot /\ job'.before = NoOwner /\ job'.blk = NoBlock
  BY DEF BuildJob, NoJob
<1>3. NumbersBehind'
  BY <1>1, <1>2, NumbersFrame DEF NoJob
<1>4. JobWaits'
  BY <1>2 DEF JobWaits, Waiting, Latest, DeltaCount
<1>5. JobBuilds'
  BY <1>2 DEF JobBuilds, CaptureSound, ShapeSound, Building
<1> QED BY <1>3, <1>4, <1>5

(* The decision of delta_maintenance() *)
LEMMA MaintenanceIs ==
  ASSUME GroupInv, DeltaMaintenance(inc) = "Seal"
  PROVE  /\ active.id # NoId /\ DeltaCount < Segments
         /\ inc - Latest.id - 1 >= SealOwners
<1>1. DeltaCount <= Segments
  <2>1. CASE DeltaCount = 0
    BY <2>1
  <2>2. CASE DeltaCount # 0
    <3>1. DeltaCount \in Nat /\ 1 \in 1 .. DeltaCount /\ DeltaCount \in 1 .. DeltaCount
      BY <2>2, GenFacts DEF GroupInv
    <3>2. deltas[1].level \in Nat /\ deltas[DeltaCount].level \in Nat
      BY <3>1, GenFacts DEF GroupInv, Delta
    <3>3. deltas[1].level < Segments
      BY <3>1 DEF GroupInv, StackSound
    <3>4. 1 < DeltaCount => deltas[1].level >= deltas[DeltaCount].level + (DeltaCount - 1)
      BY <3>1 DEF GroupInv, StackSound
    <3> QED BY <3>1, <3>2, <3>3, <3>4
  <2> QED BY <2>1, <2>2
<1>2. active.id # NoId /\ DeltaCount # Segments /\ ~(inc - Latest.id - 1 < SealOwners)
  BY DEF DeltaMaintenance, DeltaSpan
<1>3. inc - Latest.id - 1 \in Int /\ DeltaCount \in Nat
  BY GenFacts DEF GroupInv, GroupTypeOK, Snapshot, OwnerOrNone
<1> QED BY <1>1, <1>2, <1>3

(* MaintainBegin, MaintainSkipped, CleanupBegin and VacuumBegin *)
LEMMA BeginStep ==
  ASSUME GroupInv, MaintainBegin \/ MaintainSkipped \/ CleanupBegin \/ VacuumBegin
  PROVE  /\ NumbersBehind' /\ PagesSound' /\ StackSound' /\ QueueSound'
         /\ ChainsSound' /\ CoverSound' /\ JobWaits' /\ JobBuilds'
<1>1. Idle /\ UNCHANGED <<inc, canonical, pages, group, abandoned>>
  BY DEF MaintainBegin, MaintainSkipped, CleanupBegin, VacuumBegin
<1>2. PagesSound' /\ StackSound' /\ QueueSound' /\ ChainsSound' /\ CoverSound'
  BY <1>1, StoreFrame, CoverFrame DEF canonical, pages, group
<1> SUFFICES NumbersBehind' /\ JobWaits' /\ JobBuilds'
  BY <1>2
<1>3. job = NoJob
  BY <1>1 DEF GroupInv, JobWaits, Idle
<1>4. CASE job' = job
  BY <1>1, <1>3, <1>4, NumbersFrame, NoJobFacts DEF canonical, pages, group
<1>5. CASE job' = BuildJob("rebuild")
  BY <1>1, <1>5, BuildJobFacts
<1>6. CASE job' = BuildJob("seal") /\ DeltaMaintenance(inc) = "Seal"
  BY <1>1, <1>6, BuildJobFacts, MaintenanceIs
<1>7. CASE VacuumBegin
  <2>1. /\ job'.stage = "recover" /\ job'.then = "retire" /\ job'.op = "vacuum"
        /\ job'.snap = NoSnapshot /\ job'.blk = NoBlock /\ job'.left = dead
    BY <1>7 DEF VacuumBegin, NoJob
  <2>2. JobWaits'
    BY <1>1, <2>1 DEF JobWaits, Waiting, canonical
  <2>3. JobBuilds'
    BY <2>1 DEF JobBuilds, CaptureSound, ShapeSound, Building
  <2>4. NumbersBehind'
    BY <1>1, <1>3, <2>1, NumbersFrame DEF canonical, pages, group, NoJob
  <2> QED BY <2>2, <2>3, <2>4
<1>8. \/ job' = job \/ job' = BuildJob("rebuild")
      \/ job' = BuildJob("seal") /\ DeltaMaintenance(inc) = "Seal"
      \/ VacuumBegin
  <2>1. DeltaMaintenance(inc) \in {"None", "Rebuild", "Seal"}
    BY DEF DeltaMaintenance
  <2> QED BY <2>1 DEF MaintainBegin, MaintainSkipped, CleanupBegin
<1> QED BY <1>4, <1>5, <1>6, <1>7, <1>8


(* Insert: the new document is above the newest fence. *)
LEMMA InsertStep ==
  ASSUME GroupInv, NEW completes \in BOOLEAN, Insert(completes)
  PROVE  /\ NumbersBehind' /\ PagesSound' /\ StackSound' /\ QueueSound'
         /\ ChainsSound' /\ CoverSound' /\ JobWaits' /\ JobBuilds'
<1>0. job = NoJob
  BY DEF GroupInv, JobWaits, Insert, Idle
<1>1. /\ inc' = inc + 1 /\ last' = inc
      /\ UNCHANGED <<dead, page, size, free, active, deltas, journal, retired, job, abandoned>>
      /\ published \subseteq published' /\ published' \subseteq published \cup {inc}
      /\ live \subseteq live' /\ live' \subseteq live \cup {inc}
  BY DEF Insert, Reserve
<1>2. inc \in Nat /\ Latest.id \in Nat /\ Latest.after \in Nat /\ last \in Nat
      /\ abandoned \in Nat /\ \A o \in published : o \in Nat
  BY GenFacts DEF GroupInv, GroupTypeOK, Snapshot, OwnerOrNone, Incarnation
<1>3. Latest.id < inc /\ Latest.after <= last /\ last < inc
  BY DEF GroupInv, StackSound, NumbersBehind
<1>4. PagesSound'
  BY <1>1 DEF GroupInv, PagesSound, IsGrouped, Link, FreePages
<1>5. ChainsSound'
  BY <1>1 DEF GroupInv, ChainsSound, DeltaCount, GenCount, Gen, Link, Owned, IsGrouped
<1>6. Latest' = Latest
  BY <1>1 DEF Latest, DeltaCount
<1>7. QueueSound'
  <2>1. journal.id \in Nat /\ \A i \in 1 .. Len(retired) : retired[i].id \in Nat
    BY FieldTypes DEF OwnerOrNone, GroupInv
  <2> HIDE DEF Latest
  <2> QED BY <1>1, <1>2, <1>6, <2>1 DEF GroupInv, QueueSound, DeltaCount, GenCount, Gen
<1>8. StackSound'
  <2>1. \A o \in published' \cup {last'} : o <= Latest.after \/ o > Latest.id
    BY <1>1, <1>2, <1>3 DEF GroupInv, StackSound
  <2>2. Latest.id < inc' /\ Latest.after <= last'
    BY <1>1, <1>2, <1>3
  <2> HIDE DEF Latest
  <2> QED BY <1>1, <1>6, <2>1, <2>2
          DEF GroupInv, StackSound, DeltaCount, GenCount, Gen, SnapshotValid
<1>9. CoverSound'
  <2> SUFFICES ASSUME active.id # NoId PROVE CoverSound'
    BY <1>1 DEF CoverSound
  <2>1. \A i \in 1 .. GenCount : \A b \in Block : page[b].id = Gen(i).id =>
         \A o \in page[b].roots : /\ o \in live' /\ o <= Gen(i).after
                                  /\ i > 1 => o > Gen(i - 1).after
    BY <1>1 DEF GroupInv, CoverSound
  <2>2. \A o \in live' \ dead :
         \/ o > Latest.id
         \/ \E i \in 1 .. GenCount : \E b \in Block : page[b].id = Gen(i).id /\ o \in page[b].roots
    BY <1>1, <1>2, <1>3 DEF GroupInv, CoverSound
  <2> HIDE DEF Latest
  <2> QED BY <1>1, <1>6, <2>1, <2>2 DEF CoverSound, DeltaCount, GenCount, Gen
<1>10. JobWaits' /\ JobBuilds'
  BY <1>0, <1>1, NoJobFacts
<1>11. NumbersBehind'
  <2>1. job'.snap.id = NoId /\ Taken' = 0 /\ Taken = 0
    BY <1>0, <1>1 DEF NoJob, NoSnapshot, NewSnapshot, Taken
  <2>2. \A b \in Block : page[b].id \in Nat
    BY FieldTypes DEF OwnerOrNone, GroupInv
  <2> HIDE DEF Latest, Taken
  <2> QED BY <1>1, <1>2, <1>3, <1>6, <2>1, <2>2 DEF GroupInv, NumbersBehind
<1> QED BY <1>4, <1>5, <1>7, <1>8, <1>9, <1>10, <1>11

(* Invalidate: the generation keeps its pages and its range. *)
LEMMA InvalidateStep ==
  ASSUME GroupInv, Invalidate
  PROVE  /\ NumbersBehind' /\ PagesSound' /\ StackSound' /\ QueueSound'
         /\ ChainsSound' /\ CoverSound' /\ JobWaits' /\ JobBuilds'
<1> USE DEF canonical, pages
<1>0. job = NoJob /\ job' = job
  BY DEF GroupInv, JobWaits, Invalidate, Idle
<1>1. /\ active' = [active EXCEPT !.valid = FALSE]
      /\ UNCHANGED <<inc, last, published, live, dead, page, size, free, deltas, journal,
                     retired, job, abandoned>>
  BY DEF Invalidate
<1>2. active \in Snapshot
  BY DEF GroupInv, GroupTypeOK
<1>3. /\ active'.id = active.id /\ active'.after = active.after /\ active'.head = active.head
      /\ active'.tail = active.tail /\ active'.root = active.root
      /\ active'.anchored = active.anchored /\ active'.frontier = active.frontier
      /\ active'.valid = FALSE
  BY <1>1, <1>2 DEF Snapshot
<1>4. active.id # NoId
  <2>1. active.valid
    BY DEF Invalidate
  <2> QED BY <2>1 DEF GroupInv, StackSound, NoSnapshot, NewSnapshot
<1>5. /\ DeltaCount' = DeltaCount /\ GenCount' = GenCount
      /\ \A i : /\ Gen(i)'.id = Gen(i).id /\ Gen(i)'.after = Gen(i).after
                /\ Gen(i)'.head = Gen(i).head /\ Gen(i)'.tail = Gen(i).tail
      /\ Latest'.id = Latest.id /\ Latest'.after = Latest.after
  BY <1>1, <1>3 DEF DeltaCount, GenCount, Gen, Latest
<1>6. PagesSound'
  BY <1>1 DEF GroupInv, PagesSound, IsGrouped, Link, FreePages
<1>7. ChainsSound'
  <2> HIDE DEF Gen, GenCount
  <2> QED BY ZenonT(40), <1>1, <1>3, <1>5 DEF GroupInv, ChainsSound, Link, Owned, IsGrouped
<1>8. QueueSound'
  <2> HIDE DEF Gen, GenCount, Latest
  <2> QED BY <1>1, <1>5 DEF GroupInv, QueueSound
<1>9. StackSound'
  <2>1. SnapshotValid(active', TRUE)
    BY <1>3, <1>4 DEF GroupInv, StackSound, SnapshotValid
  <2>2. \A i \in 1 .. DeltaCount : SnapshotValid(deltas'[i].snap, FALSE)
    BY <1>1 DEF GroupInv, StackSound
  <2> HIDE DEF Gen, GenCount, Latest, SnapshotValid
  <2> QED BY ZenonT(40), <1>1, <1>3, <1>4, <1>5, <2>1, <2>2 DEF GroupInv, StackSound
<1>10. CoverSound'
  <2> HIDE DEF Gen, GenCount, Latest
  <2> QED BY <1>1, <1>3, <1>5 DEF GroupInv, CoverSound
<1>11. NumbersBehind'
  <2> HIDE DEF Latest
  <2> QED BY <1>1, <1>5 DEF GroupInv, NumbersBehind, Taken
<1>12. JobWaits' /\ JobBuilds'
  BY <1>0, NoJobFacts
<1> QED BY <1>6, <1>7, <1>8, <1>9, <1>10, <1>11, <1>12

(* RecoverDone: the queues are empty when the operation goes on. *)
LEMMA RecoverDoneStep ==
  ASSUME GroupInv, RecoverDone
  PROVE  /\ NumbersBehind' /\ PagesSound' /\ StackSound' /\ QueueSound'
         /\ ChainsSound' /\ CoverSound' /\ JobWaits' /\ JobBuilds'
<1> USE DEF canonical, pages, group
<1>1. /\ job.stage = "recover" /\ journal.id = NoId /\ retired = <<>>
      /\ UNCHANGED <<inc, last, published, live, dead, page, size, free, active, deltas, journal,
                     retired, abandoned>>
      /\ job' = IF job.then = "end" THEN NoJob ELSE [job EXCEPT !.stage = job.then]
  BY DEF RecoverDone
<1>2. PagesSound' /\ StackSound' /\ QueueSound' /\ ChainsSound' /\ CoverSound'
  BY <1>1, StoreFrame, CoverFrame
<1>3. job.snap = NoSnapshot
  BY <1>1 DEF GroupInv, JobWaits
<1> SUFFICES NumbersBehind' /\ JobWaits' /\ JobBuilds'
  BY <1>2
<1>4. CASE job.then = "end"
  BY <1>1, <1>3, <1>4, NoJobFacts, NumbersFrame DEF NoJob
<1>5. CASE job.then # "end"
  <2>1. /\ job'.stage = job.then /\ job'.op = job.op /\ job'.snap = job.snap
        /\ job'.blk = job.blk /\ job'.before = job.before /\ job'.left = job.left
        /\ job'.then = job.then
    BY <1>1, <1>5 DEF GroupInv, GroupTypeOK, Job
  <2>2. \/ job.then = "capture" /\ job.op \in {"rebuild", "seal"}
        \/ job.then = "retire" /\ job.op = "vacuum"
    BY <1>1, <1>5 DEF GroupInv, JobWaits
  <2>3. job.blk = NoBlock
    BY <1>1, <1>5 DEF GroupInv, JobWaits, Waiting
  <2>4. job.op = "rebuild" => job.before = NoOwner
    BY DEF GroupInv, JobWaits
  <2>5. job.op = "vacuum" => job.left \subseteq dead
    BY DEF GroupInv, JobWaits
  <2>6. job.op = "seal" => /\ active.id # NoId /\ DeltaCount < Segments
                           /\ inc - Latest.id - 1 >= SealOwners
    BY <1>1, <1>5 DEF GroupInv, JobWaits, Waiting
  <2>7. JobWaits'
    BY <1>1, <1>3, <2>1, <2>2, <2>3, <2>4, <2>5, <2>6 DEF JobWaits, Waiting, Latest, DeltaCount
  <2>8. JobBuilds'
    BY <2>1, <2>2 DEF JobBuilds, CaptureSound, ShapeSound, Building
  <2>9. NumbersBehind'
    BY <1>1, <2>1, NumbersFrame
  <2> QED BY <2>7, <2>8, <2>9
<1> QED BY <1>4, <1>5

(* A page without an identity holds no document. *)
LEMMA NoIdEmpty ==
  ASSUME GroupInv, NEW b \in Block, page[b].id = NoId
  PROVE  page[b].roots = {}
BY DEF GroupInv, PagesSound

(* The snapshot of a build that has only its fence *)
Fenced(s) ==
  /\ s.id = NoId /\ s.head = NoBlock /\ s.tail = NoBlock /\ s.root = NoBlock
  /\ s.anchored = FALSE /\ s.frontier = NoBlock /\ s.valid = FALSE /\ s.after = last

(* It is what a capture leaves. *)
LEMMA FencedSnapshot == Fenced([NoSnapshot EXCEPT !.after = last])
BY DEF NoSnapshot, NewSnapshot, Fenced

(* CaptureAll: every live document, before the first page is written. *)
LEMMA CaptureAllStep ==
  ASSUME GroupInv, CaptureAll
  PROVE  /\ NumbersBehind' /\ PagesSound' /\ StackSound' /\ QueueSound'
         /\ ChainsSound' /\ CoverSound' /\ JobWaits' /\ JobBuilds'
<1> USE DEF canonical, pages, group
<1>1. /\ job.stage = "capture" /\ job.op = "rebuild"
      /\ UNCHANGED <<inc, last, published, live, dead, page, size, free, active, deltas, journal,
                     retired, abandoned>>
      /\ job' = [job EXCEPT !.stage = "begin", !.left = live, !.snap.after = last]
  BY DEF CaptureAll
<1>2. PagesSound' /\ StackSound' /\ QueueSound' /\ ChainsSound' /\ CoverSound'
  BY <1>1, StoreFrame, CoverFrame
<1>3. job.snap = NoSnapshot /\ job.blk = NoBlock /\ journal.id = NoId /\ retired = <<>>
      /\ job.before = NoOwner
  BY <1>1 DEF GroupInv, JobWaits
<1>4. /\ job'.stage = "begin" /\ job'.op = "rebuild" /\ Fenced(job'.snap)
      /\ job'.blk = NoBlock /\ job'.before = NoOwner /\ job'.left = live
  <2>1. job \in Job
    BY DEF GroupInv, GroupTypeOK
  <2>2. job'.snap = [job.snap EXCEPT !.after = last]
    BY <1>1, <2>1 DEF Job
  <2>3. /\ job'.stage = "begin" /\ job'.op = "rebuild"
        /\ job'.blk = NoBlock /\ job'.before = NoOwner /\ job'.left = live
    BY <1>1, <1>3, <2>1 DEF Job
  <2> QED BY <1>3, <2>2, <2>3, FencedSnapshot
<1>5. JobWaits'
  BY <1>1, <1>3, <1>4 DEF JobWaits, Waiting
<1>6. \A o \in Incarnation :
        o \in live /\ o > NoOwner <=>
          o \in live \/ \E b \in Block : page[b].id = NoId /\ o \in page[b].roots
  <2>1. \A o \in Incarnation : o > NoOwner
    BY DEF Incarnation, NoOwner
  <2> QED BY <2>1, NoIdEmpty
<1>7. JobBuilds'
  BY <1>1, <1>4, <1>6 DEF JobBuilds, CaptureSound, ShapeSound, Building, Fenced
<1>8. NumbersBehind'
  BY <1>1, <1>3, <1>4, NumbersFrame DEF NewSnapshot, NoSnapshot, Fenced
<1> QED BY <1>2, <1>5, <1>7, <1>8

(* What a seal plans: the level above the deltas it absorbs is free. *)
LEMMA SealPlan ==
  ASSUME GroupInv, active.id # NoId, DeltaCount < Segments
  PROVE  /\ Absorbed < Segments
         /\ SealBefore = Gen(DeltaCount - Absorbed + 1).after
         /\ SealBefore <= last
         /\ SealBefore = last => Absorbed = 0 /\ last < Latest.id
         /\ DeltaCount - Absorbed > 0 => deltas[DeltaCount - Absorbed].level > Absorbed
<1> DEFINE n == Absorbed
           c == DeltaCount
<1>1. n \in 0 .. c /\ c \in Nat
  BY AbsorbedFacts, GenFacts DEF GroupInv
<1>2. \A j \in 1 .. n : deltas[c - j + 1].level = j - 1
  BY AbsorbedFacts DEF GroupInv
<1>3. n < c => deltas[c - n].level # n
  BY AbsorbedFacts DEF GroupInv
<1>4. \A i \in 1 .. c : deltas[i].level \in Nat /\ deltas[i].before \in Nat
  BY GenFacts DEF GroupInv, Delta, OwnerOrNone
<1>5. \A i \in 1 .. GenCount : Gen(i).after \in Nat /\ Gen(i).id \in Nat
  BY GenFacts DEF GroupInv, Snapshot, OwnerOrNone
<1>6. /\ \A i, j \in 1 .. GenCount : i < j => Gen(i).id < Gen(j).id /\ Gen(i).after < Gen(j).after
      /\ \A i, j \in 1 .. c : i < j => deltas[i].level >= deltas[j].level + (j - i)
      /\ \A i \in 1 .. c : deltas[i].before = Gen(i).after
      /\ Latest.after <= last
  BY DEF GroupInv, StackSound
<1>7. GenCount = c + 1 /\ Latest = Gen(c + 1) /\ last \in Nat
  BY GenFacts DEF GroupInv, GroupTypeOK, OwnerOrNone
<1>8. Latest.after < Latest.id
  <2>1. CASE c = 0
    <3>1. Latest = active
      BY <1>7, <2>1 DEF Gen
    <3> QED BY <3>1 DEF GroupInv, StackSound, SnapshotValid
  <2>2. CASE c # 0
    <3>1. c \in 1 .. c /\ Latest = deltas[c].snap
      BY <1>1, <1>7, <2>2 DEF Gen
    <3> QED BY <3>1 DEF GroupInv, StackSound, SnapshotValid
  <2> QED BY <2>1, <2>2
<1> HIDE DEF n, c
<1>9. n < Segments
  BY <1>1 DEF c
<1>10. SealBefore = Gen(c - n + 1).after
  <2>1. CASE n = 0
    BY <1>1, <1>7, <2>1 DEF SealBefore, n, c
  <2>2. CASE n # 0
    <3>1. c - n + 1 \in 1 .. c
      BY <1>1, <2>2
    <3>2. SealBefore = deltas[c - n + 1].before
      BY <2>2 DEF SealBefore, n, c
    <3> QED BY <1>6, <3>1, <3>2
  <2> QED BY <2>1, <2>2
<1>11. n # 0 => SealBefore < Latest.after
  BY <1>1, <1>6, <1>7, <1>10
<1>12. SealBefore <= last /\ (SealBefore = last => n = 0 /\ last < Latest.id)
  <2>1. Latest.after \in Nat /\ Latest.id \in Nat /\ SealBefore \in Nat
    BY <1>1, <1>5, <1>7, <1>10
  <2>2. n = 0 => SealBefore = Latest.after
    BY <1>1, <1>7, <1>10
  <2> HIDE DEF SealBefore, Latest
  <2> QED BY <1>6, <1>7, <1>8, <1>11, <2>1, <2>2
<1>13. c - n > 0 => deltas[c - n].level > n
  <2> SUFFICES ASSUME c - n > 0 PROVE deltas[c - n].level > n
    OBVIOUS
  <2>1. c - n \in 1 .. c /\ deltas[c - n].level \in Nat
    BY <1>1, <1>4
  <2>2. CASE n = 0
    BY <1>1, <1>3, <2>1, <2>2
  <2>3. CASE n # 0
    <3>1. n \in 1 .. n /\ c - n + 1 \in 1 .. c /\ c - n < c - n + 1
      BY <1>1, <2>3
    <3>2. deltas[c - n + 1].level = n - 1
      BY <1>2, <3>1
    <3>3. deltas[c - n].level >= deltas[c - n + 1].level + ((c - n + 1) - (c - n))
      BY <1>6, <2>1, <3>1
    <3> QED BY <1>1, <1>3, <2>1, <3>2, <3>3
  <2> QED BY <2>2, <2>3
<1> QED BY <1>9, <1>10, <1>12, <1>13 DEF n, c

(* CaptureDelta: the live documents above the fence that stays; a seal     *)
(* that finds none has only abandoned identities above the newest fence.   *)
LEMMA CaptureDeltaStep ==
  ASSUME GroupInv, CaptureDelta
  PROVE  /\ NumbersBehind' /\ PagesSound' /\ StackSound' /\ QueueSound'
         /\ ChainsSound' /\ CoverSound' /\ JobWaits' /\ JobBuilds'
<1> USE DEF canonical, pages, group
<1>1. /\ job.stage = "capture" /\ job.op = "seal"
      /\ UNCHANGED <<inc, last, published, live, dead, page, size, free, active, deltas, journal,
                     retired, abandoned>>
  BY DEF CaptureDelta
<1>2. PagesSound' /\ StackSound' /\ QueueSound' /\ ChainsSound' /\ CoverSound'
  BY <1>1, StoreFrame, CoverFrame
<1>3. job.snap = NoSnapshot /\ job.blk = NoBlock /\ journal.id = NoId /\ retired = <<>>
  BY <1>1 DEF GroupInv, JobWaits
<1>4. active.id # NoId /\ DeltaCount < Segments /\ inc - Latest.id - 1 >= SealOwners
  BY <1>1 DEF GroupInv, JobWaits
<1>5. /\ Absorbed < Segments /\ SealBefore = Gen(DeltaCount - Absorbed + 1).after
      /\ SealBefore <= last
      /\ SealBefore = last => Absorbed = 0 /\ last < Latest.id
      /\ DeltaCount - Absorbed > 0 => deltas[DeltaCount - Absorbed].level > Absorbed
  BY <1>4, SealPlan
<1>6. Absorbed \in 0 .. DeltaCount /\ DeltaCount \in Nat
  BY AbsorbedFacts, GenFacts DEF GroupInv
<1>7. last \in Nat /\ Latest.id \in Nat /\ inc \in Nat /\ abandoned \in Nat
  BY GenFacts DEF GroupInv, GroupTypeOK, OwnerOrNone, Snapshot
<1>70. SealBefore \in Nat
  <2>1. DeltaCount - Absorbed + 1 \in 1 .. GenCount
    BY <1>6, GenFacts DEF GroupInv
  <2> QED BY <1>5, <2>1, GenFacts DEF GroupInv, Snapshot, OwnerOrNone
<1> HIDE DEF Absorbed, SealBefore, Latest, Gen
<1>8. CASE last = SealBefore
  <2>1. job' = [job EXCEPT !.stage = "failed"]
    BY <1>8 DEF CaptureDelta
  <2>2. /\ job'.stage = "failed" /\ job'.op = "seal" /\ job'.snap = NoSnapshot
        /\ job'.blk = NoBlock
    BY <1>1, <1>3, <2>1 DEF GroupInv, GroupTypeOK, Job
  <2>3. abandoned >= SealOwners
    <3>1. Taken = 0
      BY <1>3 DEF Taken, NoSnapshot, NewSnapshot
    <3>2. inc - 1 - Latest.id <= abandoned + Taken \/ inc - 1 - last <= abandoned + Taken
      BY DEF GroupInv, NumbersBehind
    <3> QED BY <1>4, <1>5, <1>7, <1>8, <3>1, <3>2
  <2>4. JobWaits'
    BY <1>1, <1>3, <2>2, <2>3 DEF JobWaits, Waiting
  <2>5. JobBuilds'
    BY <2>2 DEF JobBuilds, CaptureSound, ShapeSound, Building
  <2>6. NumbersBehind'
    BY <1>1, <1>3, <2>2, NumbersFrame
  <2> QED BY <1>2, <2>4, <2>5, <2>6
<1>9. CASE last # SealBefore
  <2>0. SealBefore < last
    BY <1>5, <1>7, <1>70, <1>9
  <2>1. job' = [job EXCEPT !.stage = "begin", !.snap.after = last, !.before = SealBefore,
                           !.level = Absorbed, !.from = DeltaCount - Absorbed,
                           !.left = {o \in live : o > SealBefore}]
    BY <1>5, <1>6, <1>9 DEF CaptureDelta
  <2>2. /\ job'.stage = "begin" /\ job'.op = "seal" /\ Fenced(job'.snap)
        /\ job'.blk = NoBlock /\ job'.before = SealBefore
        /\ job'.level = Absorbed /\ job'.from = DeltaCount - Absorbed
        /\ job'.left = {o \in live : o > SealBefore}
    <3>1. job \in Job
      BY DEF GroupInv, GroupTypeOK
    <3>2. job'.snap = [job.snap EXCEPT !.after = last]
      BY <2>1, <3>1 DEF Job
    <3>3. /\ job'.stage = "begin" /\ job'.op = "seal"
          /\ job'.blk = NoBlock /\ job'.before = SealBefore
          /\ job'.level = Absorbed /\ job'.from = DeltaCount - Absorbed
          /\ job'.left = {o \in live : o > SealBefore}
      BY <1>1, <1>3, <2>1, <3>1 DEF Job
    <3> QED BY <1>3, <3>2, <3>3, FencedSnapshot
  <2>3. JobWaits'
    BY <1>1, <1>3, <2>2 DEF JobWaits, Waiting
  <2>4. /\ \A i : Gen(i)' = Gen(i)
        /\ DeltaCount' = DeltaCount
    BY <1>1 DEF Gen, DeltaCount
  <2>5. \A o \in Incarnation :
          o \in live /\ o > SealBefore <=>
            \/ o \in {p \in live : p > SealBefore}
            \/ \E b \in Block : page[b].id = NoId /\ o \in page[b].roots
    BY NoIdEmpty
  <2>6. /\ DeltaCount - Absorbed \in Nat /\ DeltaCount - Absorbed <= DeltaCount
        /\ Absorbed = DeltaCount - (DeltaCount - Absorbed)
    BY <1>6
  <2> HIDE DEF Gen, DeltaCount
  <2>7. JobBuilds'
    BY <1>1, <1>4, <1>5, <2>0, <2>2, <2>4, <2>5, <2>6 DEF JobBuilds, CaptureSound, ShapeSound, Building, Fenced
  <2>8. NumbersBehind'
    BY <1>1, <1>3, <2>2, NumbersFrame DEF NewSnapshot, NoSnapshot, Fenced
  <2> QED BY <1>2, <2>3, <2>7, <2>8
<1> QED BY <1>8, <1>9


(* RetireDone: no shared liveness bit of a document to be removed is left. *)
LEMMA RetireDoneStep ==
  ASSUME GroupInv, RetireDone
  PROVE  /\ NumbersBehind' /\ PagesSound' /\ StackSound' /\ QueueSound'
         /\ ChainsSound' /\ CoverSound' /\ JobWaits' /\ JobBuilds'
<1> USE DEF canonical, pages, group
<1>1. /\ job.stage = "retire"
      /\ UNCHANGED <<inc, last, published, live, dead, page, size, free, active, deltas, journal,
                     retired, abandoned>>
      /\ job' = [job EXCEPT !.stage = "owners"]
  BY DEF RetireDone
<1>2. PagesSound' /\ StackSound' /\ QueueSound' /\ ChainsSound' /\ CoverSound'
  BY <1>1, StoreFrame, CoverFrame
<1>3. job.snap = NoSnapshot /\ job.blk = NoBlock /\ journal.id = NoId /\ retired = <<>>
      /\ job.op = "vacuum" /\ job.left \subseteq dead
  BY <1>1 DEF GroupInv, JobWaits
<1>4. /\ job'.stage = "owners" /\ job'.op = "vacuum" /\ job'.snap = NoSnapshot
      /\ job'.blk = NoBlock /\ job'.left = job.left
  BY <1>1, <1>3 DEF GroupInv, GroupTypeOK, Job
<1>5. ASSUME active.id # NoId, NEW i \in 1 .. GenCount, NEW b \in Block, page[b].id = Gen(i).id
      PROVE  page[b].roots \cap job.left = {}
  <2>1. GenCount = DeltaCount + 1 /\ Generations[i] = Gen(i)
    BY GenFacts, GenerationsAre DEF GroupInv
  <2>2. Dirty(i) = {}
    <3>1. UNION {Dirty(k) : k \in 1 .. (DeltaCount + 1)} = {}
      BY <1>5 DEF RetireDone, AllDirty
    <3> HIDE DEF Dirty
    <3> QED BY <2>1, <3>1
  <2>3. b \notin Dirty(i)
    BY <2>2
  <2> HIDE DEF Generations
  <2> QED BY <1>5, <2>1, <2>3 DEF Dirty
<1>6. /\ GenCount' = GenCount /\ \A i : Gen(i)' = Gen(i)
  BY <1>1 DEF GenCount, DeltaCount, Gen
<1>7. JobWaits'
  <2> HIDE DEF Gen, GenCount
  <2> QED BY <1>1, <1>3, <1>4, <1>5, <1>6 DEF JobWaits, Waiting
<1>8. JobBuilds'
  BY <1>4 DEF JobBuilds, CaptureSound, ShapeSound, Building
<1>9. NumbersBehind'
  BY <1>1, <1>3, <1>4, NumbersFrame
<1> QED BY <1>2, <1>7, <1>8, <1>9

(* RemoveOwners: what leaves the slots has left the generations before. *)
LEMMA RemoveOwnersStep ==
  ASSUME GroupInv, NEW gone \in SUBSET (live \cap job.left), RemoveOwners(gone)
  PROVE  /\ NumbersBehind' /\ PagesSound' /\ StackSound' /\ QueueSound'
         /\ ChainsSound' /\ CoverSound' /\ JobWaits' /\ JobBuilds'
<1> USE DEF canonical, pages, group
<1>1. /\ job.stage = "owners" /\ live' = live \ gone
      /\ UNCHANGED <<inc, last, published, dead, page, size, free, active, deltas, journal,
                     retired, abandoned, job>>
  BY DEF RemoveOwners
<1>2. PagesSound' /\ StackSound' /\ QueueSound' /\ ChainsSound'
  BY <1>1, StoreFrame
<1>3. CoverSound'
  <2> SUFFICES ASSUME active.id # NoId PROVE CoverSound'
    BY <1>1 DEF CoverSound
  <2>1. \A i \in 1 .. GenCount : \A b \in Block :
          page[b].id = Gen(i).id => page[b].roots \cap job.left = {}
    BY <1>1 DEF GroupInv, JobWaits
  <2>2. \A i \in 1 .. GenCount : \A b \in Block : page[b].id = Gen(i).id =>
         \A o \in page[b].roots : /\ o \in live' /\ o <= Gen(i).after
                                  /\ i > 1 => o > Gen(i - 1).after
    BY <1>1, <2>1 DEF GroupInv, CoverSound
  <2>3. \A o \in live' \ dead :
         \/ o > Latest.id
         \/ \E i \in 1 .. GenCount : \E b \in Block : page[b].id = Gen(i).id /\ o \in page[b].roots
    BY <1>1 DEF GroupInv, CoverSound
  <2>4. Latest' = Latest /\ GenCount' = GenCount /\ \A i : Gen(i)' = Gen(i)
    BY <1>1 DEF GenCount, DeltaCount, Gen, Latest
  <2> HIDE DEF Latest, Gen, GenCount
  <2> QED BY <1>1, <2>2, <2>3, <2>4 DEF CoverSound
<1>4. JobWaits'
  BY <1>1 DEF GroupInv, JobWaits, Waiting, GenCount, DeltaCount, Gen, Latest
<1>5. JobBuilds'
  BY <1>1 DEF JobBuilds, CaptureSound, ShapeSound, Building
<1>6. NumbersBehind'
  BY <1>1, NumbersFrame
<1> QED BY <1>2, <1>3, <1>4, <1>5, <1>6

(* VacuumEnd: the roots that the host takes back have no slot left. *)
LEMMA VacuumEndStep ==
  ASSUME GroupInv, VacuumEnd
  PROVE  /\ NumbersBehind' /\ PagesSound' /\ StackSound' /\ QueueSound'
         /\ ChainsSound' /\ CoverSound' /\ JobWaits' /\ JobBuilds'
<1> USE DEF canonical, pages, group
<1>1. /\ job.stage = "owners" /\ live \cap job.left = {} /\ dead' = dead \ job.left
      /\ job' = NoJob
      /\ UNCHANGED <<inc, last, published, live, page, size, free, active, deltas, journal,
                     retired, abandoned>>
  BY DEF VacuumEnd
<1>2. PagesSound' /\ StackSound' /\ QueueSound' /\ ChainsSound'
  BY <1>1, StoreFrame
<1>3. CoverSound'
  <2>1. live' \ dead' = live \ dead
    BY <1>1
  <2>2. Latest' = Latest /\ GenCount' = GenCount /\ \A i : Gen(i)' = Gen(i)
    BY <1>1 DEF GenCount, DeltaCount, Gen, Latest
  <2> HIDE DEF Latest, Gen, GenCount
  <2> QED BY <1>1, <2>1, <2>2 DEF GroupInv, CoverSound
<1>4. JobWaits' /\ JobBuilds'
  BY <1>1, NoJobFacts
<1>5. NumbersBehind'
  BY <1>1, NumbersFrame DEF NoJob, GroupInv, JobWaits
<1> QED BY <1>2, <1>3, <1>4, <1>5

-----------------------------------------------------------------------------
(* The build, where it writes no page *)

(* What a build has captured, when only its stage and the ends and flags   *)
(* of its snapshot change                                                  *)
LEMMA CaptureFrame ==
  ASSUME GroupInv, Building, UNCHANGED <<last, live, page, active, deltas>>,
         job'.op = job.op, job'.snap.id = job.snap.id, job'.snap.after = job.snap.after,
         job'.before = job.before, job'.left = job.left, job'.level = job.level,
         job'.from = job.from
  PROVE  CaptureSound'
<1>1. DeltaCount' = DeltaCount /\ \A i : Gen(i)' = Gen(i)
  BY DEF DeltaCount, Gen
<1> HIDE DEF DeltaCount, Gen
<1> QED BY <1>1 DEF GroupInv, JobBuilds, CaptureSound

(* A build has an owner range, and no vacuum runs with it. *)
LEMMA BuildingWaits ==
  ASSUME GroupInv, Building
  PROVE  /\ job.op \in {"rebuild", "seal"} /\ (job.op = "rebuild" => job.before = NoOwner)
BY DEF GroupInv, JobWaits, Building

(* JobWaits asks little of a build that has an identity. *)
LEMMA BuildingJob ==
  ASSUME job'.stage \in {"write", "anchors", "publish"}, job'.op \in {"rebuild", "seal"},
         job'.op = "rebuild" => job'.before = NoOwner
  PROVE  JobWaits'
BY DEF JobWaits, Waiting

(* The pages of a build are its journal's chain. *)
LEMMA BuildingEnds ==
  ASSUME GroupInv, job.stage \in {"write", "anchors", "publish"}
  PROVE  /\ journal.id = job.snap.id /\ journal.id # NoId
         /\ journal.head = job.snap.head /\ journal.tail = job.snap.tail
         /\ retired = <<>>
         /\ Chained(Link, Owned(journal.id), journal.head, journal.tail)
         /\ (journal.head = NoBlock) = (journal.tail = NoBlock)
         /\ journal.tail # NoBlock => journal.tail \in Block /\ page[journal.tail].id = journal.id
         /\ last < job.snap.id /\ Latest.id < journal.id
<1>1. /\ job.snap.id # NoId
      /\ journal = [id |-> job.snap.id, head |-> job.snap.head, tail |-> job.snap.tail]
  BY DEF GroupInv, JobBuilds, ShapeSound
<1>2. /\ journal.id = job.snap.id /\ journal.id # NoId
      /\ journal.head = job.snap.head /\ journal.tail = job.snap.tail
  BY <1>1
<1>3. Chained(Link, Owned(journal.id), journal.head, journal.tail)
  BY <1>2 DEF GroupInv, ChainsSound
<1>4. 0 \notin Owned(journal.id)
  BY DEF Owned, Block
<1>5. /\ (journal.head = 0) = (journal.tail = 0)
      /\ journal.head # 0 => journal.tail \in Owned(journal.id)
  BY <1>3, <1>4, ChainedFacts
<1>6. journal.tail # NoBlock => journal.tail \in Block /\ page[journal.tail].id = journal.id
  BY <1>5 DEF Owned, NoBlock
<1>7. (journal.head = NoBlock) = (journal.tail = NoBlock)
  BY <1>5 DEF NoBlock
<1>8. retired = <<>> /\ Latest.id < journal.id
  BY <1>2 DEF GroupInv, QueueSound
<1>9. last < job.snap.id
  BY <1>1 DEF GroupInv, NumbersBehind
<1> QED BY <1>2, <1>3, <1>6, <1>7, <1>8, <1>9

(* FinishEmpty: a generation without documents has no page. *)
LEMMA FinishEmptyStep ==
  ASSUME GroupInv, FinishEmpty
  PROVE  /\ NumbersBehind' /\ PagesSound' /\ StackSound' /\ QueueSound'
         /\ ChainsSound' /\ CoverSound' /\ JobWaits' /\ JobBuilds'
<1> USE DEF canonical, pages, group
<1>1. /\ job.stage = "write" /\ job.left = {} /\ job.snap.head = NoBlock
      /\ UNCHANGED <<inc, last, published, live, dead, page, size, free, active, deltas, journal,
                     retired, abandoned>>
      /\ job' = [job EXCEPT !.stage = AfterCatalog]
  BY DEF FinishEmpty
<1>2. PagesSound' /\ StackSound' /\ QueueSound' /\ ChainsSound' /\ CoverSound'
  BY <1>1, StoreFrame, CoverFrame
<1>3. AfterCatalog = "publish" \/ (AfterCatalog = "anchors" /\ job.op = "rebuild")
  BY DEF AfterCatalog
<1> HIDE DEF AfterCatalog
<1>4. /\ job'.stage = AfterCatalog /\ job'.op = job.op /\ job'.snap = job.snap
      /\ job'.blk = job.blk /\ job'.before = job.before /\ job'.left = job.left
      /\ job'.level = job.level /\ job'.from = job.from
  BY <1>1 DEF GroupInv, GroupTypeOK, Job
<1>5. Building
  BY <1>1 DEF Building
<1>6. JobWaits'
  BY <1>3, <1>4, <1>5, BuildingWaits, BuildingJob
<1>7. /\ job.snap.id # NoId /\ job.snap.root = NoBlock /\ job.snap.frontier = NoBlock
      /\ ~job.snap.anchored /\ ~job.snap.valid /\ job.snap.after = last
      /\ journal = [id |-> job.snap.id, head |-> job.snap.head, tail |-> job.snap.tail]
      /\ job.blk # NoBlock => free = NoBlock /\ page[job.blk].kind = "Zero"
  BY <1>1, <1>5 DEF GroupInv, JobBuilds, CaptureSound, ShapeSound
<1>8. job.snap.tail = NoBlock /\ last < job.snap.id
  BY <1>1, BuildingEnds
<1>9. SnapshotValid(job.snap, job.op = "rebuild")
  BY <1>1, <1>7, <1>8 DEF SnapshotValid
<1>10. CaptureSound'
  BY <1>1, <1>4, <1>5, CaptureFrame
<1>11. ShapeSound'
  <2> HIDE DEF SnapshotValid
  <2> QED BY <1>1, <1>3, <1>4, <1>7, <1>8, <1>9 DEF ShapeSound
<1>12. NumbersBehind'
  BY <1>1, <1>4, NumbersFrame
<1> QED BY <1>2, <1>6, <1>10, <1>11, <1>12 DEF JobBuilds

(* FinishNoAnchors: the empty anchor catalog is present. *)
LEMMA FinishNoAnchorsStep ==
  ASSUME GroupInv, FinishNoAnchors
  PROVE  /\ NumbersBehind' /\ PagesSound' /\ StackSound' /\ QueueSound'
         /\ ChainsSound' /\ CoverSound' /\ JobWaits' /\ JobBuilds'
<1> USE DEF canonical, pages, group
<1>1. /\ job.stage = "anchors"
      /\ UNCHANGED <<inc, last, published, live, dead, page, size, free, active, deltas, journal,
                     retired, abandoned>>
      /\ job' = [job EXCEPT !.stage = "publish", !.snap.anchored = TRUE, !.snap.valid = TRUE]
  BY DEF FinishNoAnchors
<1>2. PagesSound' /\ StackSound' /\ QueueSound' /\ ChainsSound' /\ CoverSound'
  BY <1>1, StoreFrame, CoverFrame
<1>3. job \in Job /\ job.snap \in Snapshot
  BY FieldTypes DEF GroupInv, GroupTypeOK
<1>4. /\ job'.stage = "publish" /\ job'.op = job.op
      /\ job'.blk = job.blk /\ job'.before = job.before /\ job'.left = job.left
      /\ job'.level = job.level /\ job'.from = job.from
      /\ job'.snap = [job.snap EXCEPT !.anchored = TRUE, !.valid = TRUE]
  BY <1>1, <1>3 DEF Job, Snapshot
<1>5. /\ job'.snap.id = job.snap.id /\ job'.snap.head = job.snap.head
      /\ job'.snap.tail = job.snap.tail /\ job'.snap.root = job.snap.root
      /\ job'.snap.frontier = job.snap.frontier /\ job'.snap.after = job.snap.after
      /\ job'.snap.anchored = TRUE /\ job'.snap.valid = TRUE
  BY <1>3, <1>4 DEF Snapshot
<1>6. Building
  BY <1>1 DEF Building
<1>7. JobWaits'
  BY <1>4, <1>6, BuildingWaits, BuildingJob
<1>8. /\ job.snap.id # NoId /\ job.snap.frontier = NoBlock /\ job.op = "rebuild"
      /\ job.snap.root = job.snap.tail /\ job.snap.after = last /\ job.left = {}
      /\ journal = [id |-> job.snap.id, head |-> job.snap.head, tail |-> job.snap.tail]
      /\ \A b \in {job.snap.root, job.snap.frontier} \ {NoBlock} :
            page[b].kind = "Node" /\ page[b].id = job.snap.id
  BY <1>1, <1>6 DEF GroupInv, JobBuilds, CaptureSound, ShapeSound
<1>9. (job.snap.head = NoBlock) = (job.snap.tail = NoBlock) /\ last < job.snap.id
  BY <1>1, BuildingEnds
<1>10. SnapshotValid(job'.snap, TRUE)
  BY <1>5, <1>8, <1>9 DEF SnapshotValid
<1>11. CaptureSound'
  BY <1>1, <1>4, <1>5, <1>6, CaptureFrame
<1>12. ShapeSound'
  <2>1. (job'.op = "rebuild") = TRUE
    BY <1>4, <1>8
  <2>2. SnapshotValid(job'.snap, job'.op = "rebuild")
    BY <1>10, <2>1
  <2>3. journal' = [id |-> job'.snap.id, head |-> job'.snap.head, tail |-> job'.snap.tail]
    BY <1>1, <1>5, <1>8
  <2>4. \A b \in {job'.snap.root, job'.snap.frontier} \ {NoBlock} :
          page'[b].kind = "Node" /\ page'[b].id = job'.snap.id
    BY <1>1, <1>5, <1>8
  <2> HIDE DEF SnapshotValid
  <2> QED BY <1>4, <1>5, <1>8, <2>2, <2>3, <2>4 DEF ShapeSound, SnapshotValid
<1>13. NumbersBehind'
  BY <1>1, <1>5, NumbersFrame
<1> QED BY <1>2, <1>7, <1>11, <1>12, <1>13 DEF JobBuilds

(* RecoverEmptyJournal: a build that wrote no page leaves only its         *)
(* identity behind.                                                        *)
LEMMA RecoverEmptyStep ==
  ASSUME GroupInv, RecoverEmptyJournal
  PROVE  /\ NumbersBehind' /\ PagesSound' /\ StackSound' /\ QueueSound'
         /\ ChainsSound' /\ CoverSound' /\ JobWaits' /\ JobBuilds'
<1> USE DEF canonical, pages
<1>1. /\ job.stage = "recover" /\ journal.id # NoId /\ journal.head = NoBlock
      /\ journal' = NoJournal
      /\ UNCHANGED <<inc, last, published, live, dead, page, size, free, active, deltas,
                     retired, abandoned, job>>
  BY DEF RecoverEmptyJournal
<1>2. /\ DeltaCount' = DeltaCount /\ GenCount' = GenCount /\ Latest' = Latest
      /\ \A i : Gen(i)' = Gen(i)
  BY <1>1 DEF DeltaCount, GenCount, Gen, Latest
<1>3. journal'.id = NoId /\ journal'.head = NoBlock /\ journal'.tail = NoBlock
  BY <1>1 DEF NoJournal
<1>4. PagesSound'
  BY <1>1 DEF GroupInv, PagesSound, IsGrouped, Link, FreePages
<1>5. StackSound'
  BY <1>1 DEF GroupInv, StackSound, DeltaCount, GenCount, Gen, Latest, SnapshotValid
<1>6. CoverSound'
  BY <1>1, CoverFrame
<1>7. NumbersBehind'
  BY <1>1, NumbersFrame
<1>8. QueueSound'
  <2> HIDE DEF Gen, GenCount, Latest, DeltaCount
  <2> QED BY <1>1, <1>2, <1>3 DEF GroupInv, QueueSound
<1>9. Owned(journal.id) = {}
  <2>1. Chained(Link, Owned(journal.id), journal.head, journal.tail)
    BY <1>1 DEF GroupInv, ChainsSound
  <2>2. 0 \notin Owned(journal.id)
    BY DEF Owned, Block
  <2>3. (journal.head = 0) = (Owned(journal.id) = {})
    BY <2>1, <2>2, ChainedFacts
  <2> QED BY <1>1, <2>3 DEF NoBlock
<1>10. \A b \in Block : IsGrouped(b) =>
         \/ \E i \in 1 .. GenCount : page[b].id = Gen(i).id
         \/ \E i \in 1 .. Len(retired) : page[b].id = retired[i].id
  BY <1>9 DEF GroupInv, ChainsSound, Owned
<1>11. ChainsSound'
  <2>1. Link' = Link /\ (\A id : Owned(id)' = Owned(id)) /\ \A b : IsGrouped(b)' = IsGrouped(b)
    BY <1>1 DEF Link, Owned, IsGrouped
  <2> HIDE DEF Gen, GenCount, Link, Owned, IsGrouped
  <2> QED BY <1>1, <1>2, <1>3, <1>10, <2>1 DEF GroupInv, ChainsSound
<1>12. JobWaits'
  <2> HIDE DEF Gen, GenCount, Latest, DeltaCount
  <2> QED BY <1>1, <1>2 DEF GroupInv, JobWaits, Waiting
<1>13. JobBuilds'
  BY <1>1 DEF JobBuilds, CaptureSound, ShapeSound, Building
<1> QED BY <1>4, <1>5, <1>6, <1>7, <1>8, <1>11, <1>12, <1>13

(* Begin: the journal names the new identity before any page carries it. *)
LEMMA BeginBuildStep ==
  ASSUME GroupInv, Begin
  PROVE  /\ NumbersBehind' /\ PagesSound' /\ StackSound' /\ QueueSound'
         /\ ChainsSound' /\ CoverSound' /\ JobWaits' /\ JobBuilds'
<1> USE DEF canonical, pages
<1>1. /\ job.stage = "begin" /\ inc' = inc + 1
      /\ journal' = [id |-> inc, head |-> NoBlock, tail |-> NoBlock]
      /\ job' = [job EXCEPT !.stage = "write", !.snap.id = inc]
      /\ UNCHANGED <<last, published, live, dead, page, size, free, active, deltas,
                     retired, abandoned>>
  BY DEF Begin, Reserve
<1>2. /\ DeltaCount' = DeltaCount /\ GenCount' = GenCount /\ Latest' = Latest
      /\ \A i : Gen(i)' = Gen(i)
  BY <1>1 DEF DeltaCount, GenCount, Gen, Latest
<1>3. journal'.id = inc /\ journal'.head = NoBlock /\ journal'.tail = NoBlock
  BY <1>1
<1>4. job \in Job /\ job.snap \in Snapshot
  BY FieldTypes DEF GroupInv, GroupTypeOK
<1>5. /\ job'.stage = "write" /\ job'.op = job.op
      /\ job'.blk = job.blk /\ job'.before = job.before /\ job'.left = job.left
      /\ job'.level = job.level /\ job'.from = job.from
      /\ job'.snap = [job.snap EXCEPT !.id = inc]
  BY <1>1, <1>4 DEF Job
<1>6. /\ job'.snap.id = inc /\ job'.snap.head = job.snap.head
      /\ job'.snap.tail = job.snap.tail /\ job'.snap.root = job.snap.root
      /\ job'.snap.frontier = job.snap.frontier /\ job'.snap.after = job.snap.after
      /\ job'.snap.anchored = job.snap.anchored /\ job'.snap.valid = job.snap.valid
  BY <1>4, <1>5 DEF Snapshot
<1>7. Building
  BY <1>1 DEF Building
<1>8. /\ inc \in Nat /\ inc # NoId /\ last \in Nat /\ abandoned \in Nat /\ Latest.id \in Nat
      /\ Latest.after \in Nat
  BY GenFacts DEF GroupInv, GroupTypeOK, NoId, OwnerOrNone, Snapshot
<1>9. journal.id = NoId /\ retired = <<>> /\ job.blk = NoBlock
  BY <1>1 DEF GroupInv, JobWaits
<1>10. /\ job.snap.id = NoId /\ job.snap.head = NoBlock /\ job.snap.tail = NoBlock
       /\ job.snap.root = NoBlock /\ job.snap.frontier = NoBlock
       /\ ~job.snap.anchored /\ ~job.snap.valid
  BY <1>1 DEF GroupInv, JobBuilds, ShapeSound
<1>11. \A b \in Block : page[b].id < inc /\ page[b].id \in Nat
  BY FieldTypes DEF GroupInv, NumbersBehind, OwnerOrNone
<1>12. PagesSound'
  BY <1>1 DEF GroupInv, PagesSound, IsGrouped, Link, FreePages
<1>13. CoverSound'
  BY <1>1, CoverFrame
<1>14. StackSound'
  <2>1. Latest.id < inc'
    BY <1>1, <1>8 DEF GroupInv, StackSound
  <2> HIDE DEF Gen, GenCount, Latest, DeltaCount
  <2> QED BY <1>1, <1>2, <2>1 DEF GroupInv, StackSound, SnapshotValid
<1>15. QueueSound'
  <2>1. Latest.id < inc /\ inc < inc'
    BY <1>1, <1>8 DEF GroupInv, StackSound
  <2>2. Len(retired) = 0 /\ Segments + 1 \in Nat
    BY <1>9
  <2> HIDE DEF Gen, GenCount, Latest, DeltaCount
  <2> QED BY <1>1, <1>2, <1>3, <1>8, <1>9, <2>1, <2>2 DEF QueueSound
<1>16. ChainsSound'
  <2>1. Link' = Link /\ (\A id : Owned(id)' = Owned(id)) /\ \A b : IsGrouped(b)' = IsGrouped(b)
    BY <1>1 DEF Link, Owned, IsGrouped
  <2>2. Owned(inc) = {}
    BY <1>8, <1>11 DEF Owned
  <2>3. Chained(Link, Owned(inc), NoBlock, NoBlock)
    BY <2>2, ChainedEmpty DEF NoBlock
  <2>4. \A b \in Block : IsGrouped(b) => page[b].id # NoId
    BY DEF GroupInv, PagesSound
  <2> HIDE DEF Gen, GenCount, Link, Owned, IsGrouped
  <2> QED BY <1>1, <1>2, <1>3, <1>9, <2>1, <2>3, <2>4 DEF GroupInv, ChainsSound
<1>17. JobWaits'
  BY <1>5, <1>7, BuildingWaits, BuildingJob
<1>18. ShapeSound'
  BY <1>1, <1>3, <1>5, <1>6, <1>8, <1>9, <1>10 DEF ShapeSound
<1>19. CaptureSound'
  <2>1. \A o \in Incarnation : \A b \in Block :
          /\ ~(page[b].id = job.snap.id /\ o \in page[b].roots)
          /\ page[b].id # inc
    BY <1>8, <1>10, <1>11, NoIdEmpty
  <2> HIDE DEF Gen, DeltaCount
  <2> QED BY <1>1, <1>2, <1>5, <1>6, <1>7, <2>1 DEF GroupInv, JobBuilds, CaptureSound
<1>20. NumbersBehind'
  <2>1. Taken = 0 /\ Taken' = 1
    BY <1>6, <1>8, <1>10 DEF Taken
  <2> HIDE DEF Taken, Latest
  <2> QED BY <1>1, <1>2, <1>6, <1>8, <1>11, <2>1 DEF GroupInv, NumbersBehind
<1> QED BY <1>12, <1>13, <1>14, <1>15, <1>16, <1>17, <1>18, <1>19, <1>20 DEF JobBuilds

-----------------------------------------------------------------------------
(* Steps that change pages *)

(* The generations when the metapage keeps them *)
LEMMA GenFrame ==
  ASSUME UNCHANGED <<active, deltas>>
  PROVE  /\ DeltaCount' = DeltaCount /\ GenCount' = GenCount /\ Latest' = Latest
         /\ \A i : Gen(i)' = Gen(i)
BY DEF DeltaCount, GenCount, Gen, Latest

(* and their order *)
LEMMA StackFrame ==
  ASSUME GroupInv, UNCHANGED <<inc, last, published, active, deltas>>
  PROVE  StackSound'
BY DEF GroupInv, StackSound, DeltaCount, GenCount, Gen, Latest, SnapshotValid

(* Published generations have identities, none above the newest. *)
LEMMA GenIds ==
  ASSUME GroupInv, NEW i \in 1 .. GenCount
  PROVE  /\ Gen(i).id \in Nat /\ Gen(i).id <= Latest.id
         /\ active.id # NoId => Gen(i).id # NoId
         /\ active.id = NoId => Gen(i).id = NoId /\ i = 1 /\ GenCount = 1
<1>1. /\ GenCount \in Nat /\ 1 \in 1 .. GenCount /\ GenCount \in 1 .. GenCount
      /\ Latest = Gen(GenCount) /\ Gen(1) = active
      /\ (deltas = <<>>) = (GenCount = 1)
  BY GenFacts DEF GroupInv
<1>2. \A j \in 1 .. GenCount : Gen(j).id \in Nat
  BY GenFacts DEF GroupInv, Snapshot, OwnerOrNone
<1>3. \A j, k \in 1 .. GenCount : j < k => Gen(j).id < Gen(k).id
  BY DEF GroupInv, StackSound
<1>4. active.id = NoId => GenCount = 1
  BY <1>1 DEF GroupInv, StackSound
<1> HIDE DEF Gen, GenCount, Latest
<1>5. Gen(i).id <= Latest.id
  <2>1. CASE i = GenCount
    BY <1>1, <1>2, <2>1
  <2>2. CASE i # GenCount
    BY <1>1, <1>2, <1>3, <2>2
  <2> QED BY <2>1, <2>2
<1>6. active.id # NoId => Gen(i).id # NoId
  <2>1. CASE i = 1
    BY <1>1, <2>1
  <2>2. CASE i # 1
    <3>1. 1 < i
      BY <1>1, <2>2
    <3> QED BY <1>1, <1>2, <1>3, <3>1 DEF NoId
  <2> QED BY <2>1, <2>2
<1> QED BY <1>1, <1>2, <1>4, <1>5, <1>6

(* A step keeps the pages of an identity and their links. *)
Keeps(id) == Owned(id)' = Owned(id) /\ \A c \in Owned(id) : Link'[c] = Link[c]

(* Then they stay one chain. *)
LEMMA KeptChain ==
  ASSUME NEW id, Keeps(id), NEW h, NEW t, Chained(Link, Owned(id), h, t)
  PROVE  Chained(Link', Owned(id)', h, t)
<1>1. Owned(id)' = Owned(id) /\ \A c \in Owned(id) : Link'[c] = Link[c]
  BY DEF Keeps
<1> HIDE DEF Owned, Link
<1>2. Chained(Link', Owned(id), h, t)
  BY <1>1, ChainedSame
<1> QED BY <1>1, <1>2

(* The chains of the generations, when a step keeps them *)
LEMMA GenChains ==
  ASSUME GroupInv, UNCHANGED <<active, deltas>>,
         \A i \in 1 .. GenCount : active.id # NoId => Keeps(Gen(i).id)
  PROVE  (active.id # NoId =>
            \A i \in 1 .. GenCount : Chained(Link, Owned(Gen(i).id), Gen(i).head, Gen(i).tail))'
<1>1. GenCount' = GenCount /\ \A i : Gen(i)' = Gen(i)
  BY GenFrame
<1>2. active.id # NoId =>
        \A i \in 1 .. GenCount : Chained(Link, Owned(Gen(i).id), Gen(i).head, Gen(i).tail)
  BY DEF GroupInv, ChainsSound
<1> HIDE DEF Gen, Owned, Link, GenCount
<1> QED BY <1>1, <1>2, KeptChain

(* The documents of the generations, when pages lose at most dead roots *)
LEMMA CoverPages ==
  ASSUME GroupInv, UNCHANGED <<active, deltas, live, dead>>,
         \A c \in Block : \A i \in 1 .. GenCount : Gen(i).id # NoId =>
           /\ (page'[c].id = Gen(i).id) = (page[c].id = Gen(i).id)
           /\ page[c].id = Gen(i).id => /\ page'[c].roots \subseteq page[c].roots
                                        /\ page[c].roots \ page'[c].roots \subseteq dead
  PROVE  CoverSound'
<1>1. /\ DeltaCount' = DeltaCount /\ GenCount' = GenCount /\ Latest' = Latest
      /\ \A i : Gen(i)' = Gen(i)
  BY GenFrame
<1>2. SUFFICES ASSUME active.id # NoId
      PROVE  /\ \A i \in 1 .. GenCount : \A b \in Block : page'[b].id = Gen(i).id =>
                  \A o \in page'[b].roots : /\ o \in live /\ o <= Gen(i).after
                                            /\ i > 1 => o > Gen(i - 1).after
             /\ \A o \in live \ dead :
                  \/ o > Latest.id
                  \/ \E i \in 1 .. GenCount : \E b \in Block :
                       page'[b].id = Gen(i).id /\ o \in page'[b].roots
  <2> HIDE DEF Gen, GenCount, Latest
  <2> QED BY <1>1 DEF CoverSound
<1>3. \A i \in 1 .. GenCount : Gen(i).id # NoId
  BY <1>2, GenIds
<1>4. /\ \A i \in 1 .. GenCount : \A b \in Block : page[b].id = Gen(i).id =>
         \A o \in page[b].roots : /\ o \in live /\ o <= Gen(i).after
                                  /\ i > 1 => o > Gen(i - 1).after
      /\ \A o \in live \ dead :
           \/ o > Latest.id
           \/ \E i \in 1 .. GenCount : \E b \in Block : page[b].id = Gen(i).id /\ o \in page[b].roots
  BY <1>2 DEF GroupInv, CoverSound
<1> HIDE DEF Gen, GenCount, Latest
<1> QED BY <1>3, <1>4

(* What FreeHead does to a page that is in use or zero *)
LEMMA FreeHeadFacts ==
  ASSUME GroupInv, NEW b \in Block, page[b].kind \notin {"Free", "None"}, FreeHead(b),
         size' = size
  PROVE  /\ page'[b].id = NoId /\ page'[b].roots = {} /\ page'[b].kind = "Free"
         /\ \A c \in Block : c # b => page'[c] = page[c]
         /\ PagesSound'
         /\ \A id : id # NoId => Owned(id)' = Owned(id) \ {b}
         /\ \A c \in Block : c # b => Link'[c] = Link[c]
<1>1. /\ page'[b] = FreePage(free) /\ free' = b
      /\ \A c \in Block : c # b => page'[c] = page[c]
  BY DEF FreeHead, GroupInv, GroupTypeOK
<1>2. page'[b].id = NoId /\ page'[b].roots = {} /\ page'[b].kind = "Free" /\ page'[b].next = free
  BY <1>1 DEF FreePage, NewPage
<1>3. \A id : id # NoId => Owned(id)' = Owned(id) \ {b}
  BY <1>1, <1>2 DEF Owned
<1>4. Link'[b] = free /\ \A c \in Block : c # b => Link'[c] = Link[c]
  BY <1>1, <1>2 DEF Link
<1>5. FreePages' = FreePages \cup {b} /\ b \notin FreePages
  BY <1>1, <1>2 DEF FreePages
<1>6. b # 0 /\ 0 \notin FreePages /\ b \in Nat /\ b \in BlockOrNone
  BY DEF FreePages, Block, BlockOrNone
<1>7. PICK t \in BlockOrNone : Chained(Link, FreePages, free, t)
  BY DEF GroupInv, PagesSound
<1>8. \A c \in FreePages : Link'[c] = Link[c]
  BY <1>4, <1>5 DEF FreePages
<1>9. Chained(Link', FreePages \cup {b}, b, IF t = 0 THEN b ELSE t)
  <2> HIDE DEF Link, FreePages
  <2> QED BY <1>4, <1>5, <1>6, <1>7, <1>8, ChainedPush
<1>10. (IF t = 0 THEN b ELSE t) \in BlockOrNone
  BY <1>6
<1>11. \E u \in BlockOrNone : Chained(Link', FreePages', free', u)
  BY <1>1, <1>5, <1>9, <1>10
<1>12. b <= size
  BY <1>6 DEF GroupInv, PagesSound, GroupTypeOK, BlockOrNone
<1>13. /\ \A c \in Block : (page'[c].id = NoId) <=> ~(IsGrouped(c)')
       /\ \A c \in Block : ~(IsGrouped(c)') => page'[c].roots = {}
  BY <1>1, <1>2 DEF GroupInv, PagesSound, IsGrouped
<1>14. \A c \in Block : c > size' => page'[c].kind = "None"
  BY <1>1, <1>6, <1>12 DEF GroupInv, PagesSound, GroupTypeOK, BlockOrNone, Block
<1>15. PagesSound'
  <2> HIDE DEF IsGrouped, Link, FreePages
  <2> QED BY <1>11, <1>13, <1>14 DEF PagesSound
<1> QED BY <1>1, <1>2, <1>3, <1>4, <1>15

(* and to what does not own it *)
LEMMA FreeHeadFrame ==
  ASSUME GroupInv, NEW b \in Block, page[b].kind \notin {"Free", "None"}, FreeHead(b),
         UNCHANGED <<inc, last, published, live, dead, size, active, deltas, job, abandoned>>,
         \A i \in 1 .. GenCount : Gen(i).id # NoId => page[b].id # Gen(i).id
  PROVE  /\ NumbersBehind' /\ StackSound' /\ CoverSound'
         /\ \A id : id # NoId /\ page[b].id # id => Keeps(id)
<1>1. /\ page'[b].id = NoId /\ page'[b].roots = {}
      /\ \A c \in Block : c # b => page'[c] = page[c]
      /\ \A id : id # NoId => Owned(id)' = Owned(id) \ {b}
      /\ \A c \in Block : c # b => Link'[c] = Link[c]
  BY FreeHeadFacts
<1>2. StackSound'
  BY StackFrame
<1>3. CoverSound'
  <2> HIDE DEF Gen, GenCount
  <2>1. \A c \in Block : \A i \in 1 .. GenCount : Gen(i).id # NoId =>
           /\ (page'[c].id = Gen(i).id) = (page[c].id = Gen(i).id)
           /\ page[c].id = Gen(i).id => page'[c] = page[c]
    BY <1>1
  <2> QED BY <2>1, CoverPages
<1>4. ASSUME NEW id, id # NoId, page[b].id # id PROVE Keeps(id)
  <2>1. b \notin Owned(id)
    BY <1>4 DEF Owned
  <2>2. \A c \in Owned(id) : c \in Block
    BY DEF Owned
  <2> HIDE DEF Owned, Link
  <2> QED BY SMTT(30), <1>1, <1>4, <2>1, <2>2 DEF Keeps
<1>5. NumbersBehind'
  <2>1. Taken' = Taken /\ Latest' = Latest
    BY GenFrame DEF Taken
  <2>2. 0 < inc
    BY DEF GroupInv, GroupTypeOK
  <2> HIDE DEF Taken, Latest
  <2> QED BY <1>1, <2>1, <2>2 DEF GroupInv, NumbersBehind, NoId
<1> QED BY <1>2, <1>3, <1>4, <1>5

(* ReclaimZero: a zero page carries no identity. *)
LEMMA ReclaimZeroStep ==
  ASSUME GroupInv, NEW b \in Block, ReclaimZero(b)
  PROVE  /\ NumbersBehind' /\ PagesSound' /\ StackSound' /\ QueueSound'
         /\ ChainsSound' /\ CoverSound' /\ JobWaits' /\ JobBuilds'
<1> USE DEF canonical, group
<1>1. /\ job.stage = "owners" /\ page[b].kind = "Zero" /\ FreeHead(b)
      /\ UNCHANGED <<inc, last, published, live, dead, size, active, deltas, journal, retired,
                     job, abandoned>>
  BY DEF ReclaimZero
<1>2. page[b].id = NoId
  BY <1>1 DEF GroupInv, PagesSound, IsGrouped
<1>3. /\ NumbersBehind' /\ StackSound' /\ CoverSound'
      /\ \A id : id # NoId => Keeps(id)
  BY <1>1, <1>2, FreeHeadFrame
<1>4. /\ PagesSound' /\ page'[b].id = NoId /\ page'[b].kind = "Free"
      /\ \A c \in Block : c # b => page'[c] = page[c]
  BY <1>1, FreeHeadFacts
<1>5. /\ DeltaCount' = DeltaCount /\ GenCount' = GenCount /\ Latest' = Latest
      /\ \A i : Gen(i)' = Gen(i)
  BY <1>1, GenFrame
<1>6. QueueSound'
  <2> HIDE DEF Gen, GenCount, Latest, DeltaCount
  <2> QED BY SMTT(30), <1>1, <1>5 DEF GroupInv, QueueSound
<1>7. journal.id = NoId /\ retired = <<>> /\ job.op = "vacuum"
  BY <1>1 DEF GroupInv, JobWaits
<1>8. ChainsSound'
  <2>1. (active.id # NoId =>
           \A i \in 1 .. GenCount : Chained(Link, Owned(Gen(i).id), Gen(i).head, Gen(i).tail))'
    BY <1>1, <1>3, GenIds, GenChains
  <2>2. Len(retired) = 0
    BY <1>7
  <2>3. \A c \in Block : IsGrouped(c)' => IsGrouped(c) /\ c # b
    BY <1>4 DEF IsGrouped
  <2>4. \A c \in Block : IsGrouped(c)' => \E i \in 1 .. GenCount : page'[c].id = Gen(i).id
    <3> HIDE DEF Gen, GenCount
    <3>1. \A c \in Block : IsGrouped(c) => page[c].id # NoId
      BY DEF GroupInv, PagesSound
    <3> QED BY <1>4, <1>7, <2>3, <3>1 DEF GroupInv, ChainsSound
  <2> HIDE DEF Gen, GenCount, IsGrouped, Owned, Link
  <2> QED BY <1>1, <1>5, <1>7, <2>1, <2>2, <2>4 DEF ChainsSound
<1>9. JobWaits'
  <2>1. job.stage = "owners" /\ active.id # NoId =>
       \A i \in 1 .. GenCount : \A c \in Block :
         page'[c].id = Gen(i).id => page'[c].roots \cap job.left = {}
    <3>1. active.id # NoId => \A i \in 1 .. GenCount : Gen(i).id # NoId
      BY GenIds
    <3> HIDE DEF Gen, GenCount
    <3> QED BY <1>1, <1>4, <3>1 DEF GroupInv, JobWaits
  <2> HIDE DEF Gen, GenCount, Latest, DeltaCount
  <2> QED BY <1>1, <1>5, <2>1 DEF GroupInv, JobWaits, Waiting
<1>10. JobBuilds'
  BY <1>1 DEF JobBuilds, CaptureSound, ShapeSound, Building
<1> QED BY <1>3, <1>4, <1>6, <1>8, <1>9, <1>10

(* The first page of a chain that owns an identity *)
LEMMA ChainHead ==
  ASSUME GroupInv, NEW id \in Nat, id # NoId, NEW h, h # NoBlock, NEW t,
         Chained(Link, Owned(id), h, t)
  PROVE  /\ h \in Block /\ page[h].id = id /\ page[h].kind \notin {"Free", "None"}
         /\ t \in Block /\ page[t].id = id
         /\ h # t => page[h].next # NoBlock
<1>1. 0 \notin Owned(id)
  BY DEF Owned, Block
<1>2. h \in Owned(id) /\ t \in Owned(id) /\ (h # t => Link[h] \in Owned(id))
  <2> HIDE DEF Owned, Link
  <2> QED BY <1>1, ChainedFacts DEF NoBlock
<1>3. h \in Block /\ page[h].id = id /\ t \in Block /\ page[t].id = id
  BY <1>2 DEF Owned
<1>4. IsGrouped(h)
  BY <1>3 DEF GroupInv, PagesSound
<1>5. h # t => page[h].next # NoBlock
  BY <1>1, <1>2, <1>3 DEF Link, NoBlock
<1> QED BY <1>3, <1>4, <1>5 DEF IsGrouped

(* Freeing the head shortens the chain. *)
LEMMA FreedChain ==
  ASSUME GroupInv, NEW id \in Nat, id # NoId, NEW h, h # NoBlock, NEW t,
         Chained(Link, Owned(id), h, t), FreeHead(h), size' = size
  PROVE  /\ h = t => Owned(id)' = {}
         /\ h # t => Chained(Link', Owned(id)', page[h].next, t)
<1>1. h \in Block /\ page[h].id = id /\ page[h].kind \notin {"Free", "None"}
  BY ChainHead
<1>2. /\ Owned(id)' = Owned(id) \ {h}
      /\ \A c \in Block : c # h => Link'[c] = Link[c]
  BY <1>1, FreeHeadFacts
<1>3. 0 \notin Owned(id) /\ Owned(id) \subseteq Block /\ Link[h] = page[h].next
  BY <1>1 DEF Owned, Block, Link
<1>4. \A c \in Owned(id) : c # h => Link'[c] = Link[c]
  BY <1>2, <1>3
<1> HIDE DEF Owned, Link
<1>5. /\ h = t => Owned(id) \ {h} = {}
      /\ Chained(Link', Owned(id) \ {h}, Link[h], IF h = t THEN 0 ELSE t)
  <2>1. h # 0
    BY DEF NoBlock
  <2>2. Chained(Link, Owned(id), h, t)
    OBVIOUS
  <2>3. Chained(Link', Owned(id) \ {h}, Link[h], IF h = t THEN 0 ELSE t)
    BY <1>3, <1>4, <2>1, <2>2, ChainedPop, Zenon
  <2>4. ASSUME h = t PROVE Owned(id) \ {h} = {}
    <3>1. PICK R : R = Owned(id) \ {h}
      OBVIOUS
    <3>2. Chained(Link', R, Link[h], 0) /\ 0 \notin R
      BY <1>3, <2>3, <2>4, <3>1
    <3>3. R = {}
      BY <3>2, ChainedFacts
    <3> QED BY <3>1, <3>3
  <2> QED BY <2>3, <2>4
<1> QED BY <1>2, <1>3, <1>5

(* RecoverJournal: the abandoned build loses its first page. *)
LEMMA RecoverJournalStep ==
  ASSUME GroupInv, RecoverJournal
  PROVE  /\ NumbersBehind' /\ PagesSound' /\ StackSound' /\ QueueSound'
         /\ ChainsSound' /\ CoverSound' /\ JobWaits' /\ JobBuilds'
<1> USE DEF canonical
<1> DEFINE h == journal.head
           t == journal.tail
<1>1. /\ job.stage = "recover" /\ journal.id # NoId /\ h # NoBlock
      /\ FreeHead(h)
      /\ journal' = IF Following(journal) = NoBlock THEN NoJournal
                    ELSE [journal EXCEPT !.head = Following(journal)]
      /\ UNCHANGED <<inc, last, published, live, dead, size, active, deltas, retired,
                     job, abandoned>>
  BY DEF RecoverJournal
<1>2. journal.id \in Nat /\ Chained(Link, Owned(journal.id), h, t)
  BY <1>1, FieldTypes DEF GroupInv, ChainsSound, OwnerOrNone
<1>3. /\ h \in Block /\ page[h].id = journal.id /\ page[h].kind \notin {"Free", "None"}
      /\ h # t => page[h].next # NoBlock
  BY <1>1, <1>2, ChainHead
<1>4. PICK id \in Nat : id = journal.id
  BY <1>2
<1>5. /\ h = t => Owned(id)' = {}
      /\ h # t => Chained(Link', Owned(id)', page[h].next, t)
  BY <1>1, <1>2, <1>4, FreedChain
<1>6. /\ Latest.id \in Nat /\ Latest.id < journal.id /\ retired = <<>> /\ Len(retired) = 0
      /\ \A i \in 1 .. GenCount : Gen(i).id # journal.id
  <2>1. Latest.id < journal.id /\ retired = <<>> /\ Len(retired) = 0
    BY <1>1 DEF GroupInv, QueueSound
  <2>2. Latest.id \in Nat
    BY GenFacts DEF GroupInv, Snapshot, OwnerOrNone
  <2>3. ASSUME NEW i \in 1 .. GenCount PROVE Gen(i).id # journal.id
    <3>1. Gen(i).id \in Nat /\ Gen(i).id <= Latest.id
      BY GenIds
    <3> HIDE DEF Gen, Latest, GenCount
    <3> QED BY <1>2, <2>1, <2>2, <3>1
  <2> QED BY <2>1, <2>2, <2>3
<1>7. /\ NumbersBehind' /\ StackSound' /\ CoverSound'
      /\ \A k : k # NoId /\ journal.id # k => Keeps(k)
  BY <1>1, <1>3, <1>6, FreeHeadFrame
<1>8. /\ PagesSound' /\ page'[h].kind = "Free"
      /\ \A c \in Block : c # h => page'[c] = page[c]
  BY <1>1, <1>3, FreeHeadFacts
<1>9. /\ DeltaCount' = DeltaCount /\ GenCount' = GenCount /\ Latest' = Latest
      /\ \A i : Gen(i)' = Gen(i)
  BY <1>1, GenFrame
<1>10. (active.id # NoId =>
          \A i \in 1 .. GenCount : Chained(Link, Owned(Gen(i).id), Gen(i).head, Gen(i).tail))'
  BY <1>1, <1>6, <1>7, GenIds, GenChains
<1>11. /\ h = t => journal' = NoJournal
       /\ h # t => journal'.id = id /\ journal'.head = page[h].next /\ journal'.tail = t
  BY <1>1, <1>3, <1>4 DEF Following, GroupInv, GroupTypeOK, GroupRetired
<1>12. NoJournal.id = NoId
  BY DEF NoJournal
<1>13. \A b \in Block : IsGrouped(b)' =>
         page'[b].id = id \/ \E i \in 1 .. GenCount : page'[b].id = Gen(i).id
  <2>1. \A b \in Block : IsGrouped(b)' => IsGrouped(b) /\ page'[b] = page[b]
    BY <1>8 DEF IsGrouped
  <2> HIDE DEF Gen, GenCount, IsGrouped
  <2> QED BY <1>4, <1>6, <2>1 DEF GroupInv, ChainsSound
<1>14. h = t => \A b \in Block : page'[b].id # id
  BY <1>5 DEF Owned
<1>15. QueueSound'
  <2> HIDE DEF Gen, GenCount, Latest, DeltaCount
  <2> QED BY <1>1, <1>4, <1>6, <1>9, <1>11, <1>12 DEF GroupInv, QueueSound
<1>16. ChainsSound'
  <2> HIDE DEF Gen, GenCount, IsGrouped, Owned, Link
  <2>1. CASE h = t
    <3>1. journal'.id = NoId
      BY <1>11, <1>12, <2>1
    <3>2. \A b \in Block : IsGrouped(b)' => \E i \in 1 .. GenCount' : page'[b].id = Gen(i)'.id
      BY <1>9, <1>13, <1>14, <2>1
    <3> QED BY <1>1, <1>6, <1>10, <3>1, <3>2 DEF ChainsSound
  <2>2. CASE h # t
    <3>1. journal'.id # NoId => Chained(Link', Owned(journal.id)', journal'.head, journal'.tail)
      BY <1>5, <1>11, <2>2
    <3> QED BY <1>1, <1>6, <1>9, <1>10, <1>11, <1>13, <2>2, <3>1 DEF ChainsSound
  <2> QED BY <2>1, <2>2
<1>17. JobWaits'
  <2> HIDE DEF Gen, GenCount, Latest, DeltaCount
  <2> QED BY <1>1, <1>9 DEF GroupInv, JobWaits, Waiting
<1>18. JobBuilds'
  BY <1>1 DEF JobBuilds, CaptureSound, ShapeSound, Building
<1> QED BY <1>7, <1>8, <1>15, <1>16, <1>17, <1>18

(* The retirement queue after its first entry has lost its last page, *)
LEMMA QueueShortened ==
  ASSUME NEW q \in Seq(GroupRetired), q # <<>>
  PROVE  /\ Len(q) \in Nat /\ 1 \in 1 .. Len(q) /\ Head(q) = q[1]
         /\ Tail(q) \in Seq(GroupRetired) /\ Len(Tail(q)) = Len(q) - 1
         /\ \A i \in 1 .. (Len(q) - 1) : Tail(q)[i] = q[i + 1] /\ i + 1 \in 2 .. Len(q)
OBVIOUS

(* and when it has more *)
IsAdvanced(q, r, h) == r = [q EXCEPT ![1].head = h]

(* What stays of the queue *)
LEMMA QueueAdvanced ==
  ASSUME NEW q \in Seq(GroupRetired), q # <<>>, NEW h \in BlockOrNone,
         NEW r, IsAdvanced(q, r, h)
  PROVE  /\ Len(r) = Len(q)
         /\ r[1].id = q[1].id /\ r[1].head = h /\ r[1].tail = q[1].tail
         /\ \A i \in 2 .. Len(q) : r[i] = q[i]
<1>1. Len(q) \in Nat /\ 1 \in 1 .. Len(q) /\ Head(q) = q[1] /\ q[1] \in GroupRetired
  OBVIOUS
<1>3. Len(r) = Len(q) /\ r[1] = [q[1] EXCEPT !.head = h] /\ \A i \in 2 .. Len(q) : r[i] = q[i]
  BY <1>1 DEF IsAdvanced
<1>4. /\ [q[1] EXCEPT !.head = h].id = q[1].id /\ [q[1] EXCEPT !.head = h].head = h
      /\ [q[1] EXCEPT !.head = h].tail = q[1].tail
  BY <1>1 DEF GroupRetired
<1> QED BY <1>3, <1>4

(* RecoverRetired: the oldest retired generation loses its first page. *)
LEMMA RecoverRetiredStep ==
  ASSUME GroupInv, RecoverRetired
  PROVE  /\ NumbersBehind' /\ PagesSound' /\ StackSound' /\ QueueSound'
         /\ ChainsSound' /\ CoverSound' /\ JobWaits' /\ JobBuilds'
<1> USE DEF canonical
<1>1. /\ job.stage = "recover" /\ journal.id = NoId /\ retired # <<>>
      /\ FreeHead(Head(retired).head)
      /\ retired' = IF Following(Head(retired)) = NoBlock THEN Tail(retired)
                    ELSE [retired EXCEPT ![1].head = Following(Head(retired))]
      /\ UNCHANGED <<inc, last, published, live, dead, size, active, deltas, journal,
                     job, abandoned>>
  BY DEF RecoverRetired
<1>2. PICK n \in Nat : n = Len(retired)
  BY DEF GroupInv, GroupTypeOK
<1>3. 1 \in 1 .. n /\ n - 1 \in Nat /\ Head(retired) = retired[1] /\ retired \in Seq(GroupRetired)
  BY <1>1, <1>2, QueueShortened DEF GroupInv, GroupTypeOK
<1>4. PICK id \in Nat : id = retired[1].id
  BY <1>2, <1>3, FieldTypes DEF GroupInv, OwnerOrNone
<1>5. PICK h \in BlockOrNone : h = retired[1].head
  BY <1>2, <1>3, FieldTypes DEF GroupInv
<1>6. PICK t \in BlockOrNone : t = retired[1].tail
  BY <1>2, <1>3, FieldTypes DEF GroupInv
<1>7. /\ \A i \in 1 .. n :
           /\ retired[i].head # NoBlock
           /\ retired[i].id # NoId /\ retired[i].id < inc
           /\ \A j \in 1 .. GenCount : Gen(j).id # retired[i].id
           /\ \A j \in 1 .. n : i # j => retired[i].id # retired[j].id
           /\ Chained(Link, Owned(retired[i].id), retired[i].head, retired[i].tail)
      /\ n <= Segments + 1
  BY <1>2 DEF GroupInv, QueueSound, ChainsSound
<1>8. id # NoId /\ h # NoBlock /\ Chained(Link, Owned(id), h, t)
  BY <1>3, <1>4, <1>5, <1>6, <1>7
<1>9. /\ h \in Block /\ page[h].id = id /\ page[h].kind \notin {"Free", "None"}
      /\ h # t => page[h].next # NoBlock
  BY <1>8, ChainHead
<1>10. FreeHead(h) /\ size' = size
  BY <1>1, <1>3, <1>5
<1>11. /\ h = t => Owned(id)' = {}
       /\ h # t => Chained(Link', Owned(id)', page[h].next, t)
  BY <1>8, <1>10, FreedChain
<1>12. /\ NumbersBehind' /\ StackSound' /\ CoverSound'
       /\ \A k : k # NoId /\ id # k => Keeps(k)
  BY <1>1, <1>3, <1>4, <1>7, <1>9, <1>10, FreeHeadFrame
<1>13. /\ PagesSound' /\ page'[h].kind = "Free"
       /\ \A c \in Block : c # h => page'[c] = page[c]
  BY <1>9, <1>10, FreeHeadFacts
<1>14. /\ DeltaCount' = DeltaCount /\ GenCount' = GenCount /\ Latest' = Latest
       /\ \A i : Gen(i)' = Gen(i)
  BY <1>1, GenFrame
<1>15. (active.id # NoId =>
          \A i \in 1 .. GenCount : Chained(Link, Owned(Gen(i).id), Gen(i).head, Gen(i).tail))'
  BY <1>1, <1>3, <1>4, <1>7, <1>12, GenIds, GenChains
<1>16. JobWaits'
  <2> HIDE DEF Gen, GenCount, Latest, DeltaCount
  <2> QED BY <1>1, <1>14 DEF GroupInv, JobWaits, Waiting
<1>17. JobBuilds'
  BY <1>1 DEF JobBuilds, CaptureSound, ShapeSound, Building
<1>18. \A b \in Block : IsGrouped(b)' =>
         \/ \E i \in 1 .. GenCount : page'[b].id = Gen(i).id
         \/ \E i \in 1 .. n : page'[b].id = retired[i].id
  <2>1. \A b \in Block : IsGrouped(b)' => IsGrouped(b) /\ page'[b] = page[b]
    BY <1>13 DEF IsGrouped
  <2>2. \A b \in Block : IsGrouped(b) => page[b].id # NoId
    BY DEF GroupInv, PagesSound
  <2> HIDE DEF Gen, GenCount, IsGrouped
  <2> QED BY <1>1, <1>2, <2>1, <2>2 DEF GroupInv, ChainsSound
<1>19. ASSUME NEW i \in 2 .. n
       PROVE  Chained(Link', {b \in Block : page'[b].id = retired[i].id},
                      retired[i].head, retired[i].tail)
  <2>1. PICK k : k = retired[i].id
    OBVIOUS
  <2>2. i \in 1 .. n /\ i # 1
    OBVIOUS
  <2>3. k # NoId /\ id # k /\ Chained(Link, Owned(k), retired[i].head, retired[i].tail)
    BY <1>3, <1>4, <1>7, <2>1, <2>2
  <2>4. Chained(Link', Owned(k)', retired[i].head, retired[i].tail)
    BY <1>12, <2>3, KeptChain
  <2>5. Owned(k)' = {b \in Block : page'[b].id = k}
    BY DEF Owned
  <2> QED BY <2>1, <2>4, <2>5
<1>20. CASE h = t
  <2>1. /\ retired' = Tail(retired)
    BY <1>1, <1>3, <1>5, <1>6, <1>20 DEF Following
  <2>2. /\ Len(retired') = n - 1
        /\ \A i \in 1 .. (n - 1) : retired'[i] = retired[i + 1] /\ i + 1 \in 2 .. n
    BY <1>1, <1>2, <1>3, <2>1, QueueShortened
  <2>3. \A b \in Block : page'[b].id # id
    BY <1>11, <1>20 DEF Owned
  <2>4. Len(retired') <= Segments + 1
    BY <1>7, <2>2, SegmentsAssumption
  <2>5. ASSUME NEW i \in 1 .. (n - 1)
        PROVE  /\ retired'[i].head # NoBlock
               /\ retired'[i].id # NoId /\ retired'[i].id < inc
               /\ \A j \in 1 .. GenCount : Gen(j).id # retired'[i].id
               /\ \A j \in 1 .. (n - 1) : i # j => retired'[i].id # retired'[j].id
    <3> HIDE DEF Gen, GenCount
    <3>1. i + 1 \in 1 .. n /\ \A j \in 1 .. (n - 1) : j + 1 \in 1 .. n /\ (i # j => i + 1 # j + 1)
      BY <1>3
    <3> QED BY <1>7, <2>2, <3>1
  <2>6. QueueSound'
    <3> HIDE DEF Gen, GenCount, Latest, DeltaCount
    <3> QED BY <1>1, <1>14, <2>2, <2>4, <2>5 DEF GroupInv, QueueSound
  <2>7. \A i \in 1 .. (n - 1) :
          Chained(Link', {b \in Block : page'[b].id = retired'[i].id},
                  retired'[i].head, retired'[i].tail)
    BY <1>19, <2>2
  <2>8. \A b \in Block : IsGrouped(b)' =>
          \/ \E i \in 1 .. GenCount : page'[b].id = Gen(i).id
          \/ \E i \in 1 .. (n - 1) : page'[b].id = retired'[i].id
    <3>1. \A i \in 1 .. n : i = 1 \/ (i - 1 \in 1 .. (n - 1) /\ retired'[i - 1] = retired[i])
      BY <1>3, <2>2
    <3> HIDE DEF Gen, GenCount, IsGrouped
    <3> QED BY <1>4, <1>18, <2>3, <3>1
  <2>9. ChainsSound'
    <3> HIDE DEF Gen, GenCount, IsGrouped, Link
    <3>1. \A i \in 1 .. Len(retired') :
            Chained(Link', Owned(retired[i].id)', retired'[i].head, retired'[i].tail)
      BY <2>2, <2>7 DEF Owned
    <3> HIDE DEF Owned
    <3> QED BY <1>1, <1>14, <1>15, <2>2, <2>8, <3>1 DEF ChainsSound
  <2> QED BY <1>12, <1>13, <1>16, <1>17, <2>6, <2>9
<1>21. CASE h # t
  <2>0. PICK next \in BlockOrNone : next = page[h].next
    BY <1>9, FieldTypes DEF GroupInv
  <2>1. IsAdvanced(retired, retired', next)
    BY <1>1, <1>3, <1>5, <1>6, <1>9, <1>21, <2>0 DEF Following, IsAdvanced
  <2>2. /\ Len(retired') = n /\ retired'[1].id = id /\ retired'[1].head = next
        /\ retired'[1].tail = t
        /\ \A i \in 2 .. n : retired'[i] = retired[i]
    <3>1. /\ Len(retired') = Len(retired)
          /\ retired'[1].id = retired[1].id /\ retired'[1].head = next
          /\ retired'[1].tail = retired[1].tail
          /\ \A i \in 2 .. Len(retired) : retired'[i] = retired[i]
      <4>1. retired # <<>>
        BY <1>1
      <4> QED BY <1>3, <2>1, <4>1, QueueAdvanced
    <3> QED BY <1>2, <1>4, <1>6, <3>1
  <2>3. \A i \in 1 .. n : i = 1 \/ i \in 2 .. n
    OBVIOUS
  <2>4. \A i \in 1 .. n : retired'[i].id = retired[i].id /\ retired'[i].head # NoBlock
    BY <1>4, <1>7, <1>9, <1>21, <2>0, <2>2, <2>3
  <2>6. QueueSound'
    <3> HIDE DEF Gen, GenCount, Latest, DeltaCount
    <3>1. \A i \in 1 .. n :
            /\ retired'[i].head # NoBlock
            /\ retired'[i].id # NoId /\ retired'[i].id < inc
            /\ \A j \in 1 .. GenCount : Gen(j).id # retired'[i].id
            /\ \A j \in 1 .. n : i # j => retired'[i].id # retired'[j].id
      BY <1>7, <2>4
    <3>2. Len(retired') <= Segments + 1
      BY <1>7, <2>2
    <3> QED BY SMTT(30), <1>1, <1>14, <2>2, <3>1, <3>2 DEF GroupInv, QueueSound
  <2>7. ASSUME NEW i \in 1 .. n
        PROVE  Chained(Link', {b \in Block : page'[b].id = retired'[i].id},
                       retired'[i].head, retired'[i].tail)
    <3>1. CASE i = 1
      <4>1. Owned(id)' = {b \in Block : page'[b].id = id}
        BY DEF Owned
      <4> HIDE DEF Owned, Link
      <4>2. retired'[i].id = id /\ retired'[i].head = page[h].next /\ retired'[i].tail = t
        BY <2>0, <2>2, <3>1
      <4> QED BY <1>11, <1>21, <4>1, <4>2
    <3>2. CASE i \in 2 .. n
      BY <1>19, <2>2, <3>2
    <3> QED BY <2>3, <3>1, <3>2
  <2>8. \A b \in Block : IsGrouped(b)' =>
          \/ \E i \in 1 .. GenCount : page'[b].id = Gen(i).id
          \/ \E i \in 1 .. n : page'[b].id = retired'[i].id
    <3> HIDE DEF Gen, GenCount, IsGrouped
    <3> QED BY <1>18, <2>4
  <2>9. ChainsSound'
    <3> HIDE DEF Gen, GenCount, IsGrouped, Link
    <3>1. \A i \in 1 .. Len(retired') :
            Chained(Link', Owned(retired[i].id)', retired'[i].head, retired'[i].tail)
      BY <2>2, <2>7 DEF Owned
    <3> HIDE DEF Owned
    <3> QED BY <1>1, <1>14, <1>15, <2>2, <2>8, <3>1 DEF ChainsSound
  <2> QED BY <1>12, <1>13, <1>16, <1>17, <2>6, <2>9
<1> QED BY <1>20, <1>21

(* The chains, when the metapage and the pages of every identity stay *)
LEMMA ChainsFrame ==
  ASSUME GroupInv, UNCHANGED <<active, deltas, journal, retired>>,
         \A id : id # NoId => Keeps(id),
         \A b \in Block : IsGrouped(b)' => IsGrouped(b) /\ page'[b].id = page[b].id
  PROVE  ChainsSound'
<1>1. GenCount' = GenCount /\ \A i : Gen(i)' = Gen(i)
  BY GenFrame
<1>2. (active.id # NoId =>
         \A i \in 1 .. GenCount : Chained(Link, Owned(Gen(i).id), Gen(i).head, Gen(i).tail))'
  BY GenIds, GenChains
<1>3. \A i \in 1 .. Len(retired) : retired[i].id # NoId
  BY DEF GroupInv, QueueSound
<1> HIDE DEF Gen, GenCount, IsGrouped, Owned, Link
<1>4. journal'.id # NoId => Chained(Link', Owned(journal.id)', journal'.head, journal'.tail)
  BY KeptChain DEF GroupInv, ChainsSound
<1>5. \A i \in 1 .. Len(retired') :
        Chained(Link', Owned(retired[i].id)', retired'[i].head, retired'[i].tail)
  BY <1>3, KeptChain DEF GroupInv, ChainsSound
<1>6. \A b \in Block : IsGrouped(b)' =>
       \/ page'[b].id = journal'.id
       \/ \E i \in 1 .. GenCount' : page'[b].id = Gen(i)'.id
       \/ \E i \in 1 .. Len(retired') : page'[b].id = retired'[i].id
  BY <1>1 DEF GroupInv, ChainsSound
<1> QED BY <1>2, <1>4, <1>5, <1>6 DEF ChainsSound

(* The identities of the queues, when the metapage stays *)
LEMMA QueueFrame ==
  ASSUME GroupInv, UNCHANGED <<inc, active, deltas, journal, retired>>
  PROVE  QueueSound'
BY DEF GroupInv, QueueSound, DeltaCount, GenCount, Gen, Latest

(* RetireRecord: only dead roots leave a record, and no link changes. *)
LEMMA RetireRecordStep ==
  ASSUME GroupInv, NEW b \in Block, RetireRecord(b)
  PROVE  /\ NumbersBehind' /\ PagesSound' /\ StackSound' /\ QueueSound'
         /\ ChainsSound' /\ CoverSound' /\ JobWaits' /\ JobBuilds'
<1> USE DEF canonical, group
<1>1. /\ job.stage = "retire"
      /\ page' = [page EXCEPT ![b].roots = @ \ job.left]
      /\ UNCHANGED <<inc, last, published, live, dead, size, free, active, deltas, journal,
                     retired, job, abandoned>>
  BY DEF RetireRecord
<1>2. /\ \A c \in Block : c # b => page'[c] = page[c]
      /\ page'[b] = [page[b] EXCEPT !.roots = @ \ job.left]
      /\ page[b] \in GroupPage
  BY <1>1 DEF GroupInv, GroupTypeOK
<1>3. /\ page'[b].kind = page[b].kind /\ page'[b].id = page[b].id
      /\ page'[b].next = page[b].next /\ page'[b].roots = page[b].roots \ job.left
  BY <1>2 DEF GroupPage
<1>4. \A c \in Block : /\ page'[c].kind = page[c].kind /\ page'[c].id = page[c].id
                       /\ page'[c].next = page[c].next /\ page'[c].roots \subseteq page[c].roots
                       /\ page[c].roots \ page'[c].roots \subseteq job.left
  BY <1>2, <1>3
<1>5. job.op = "vacuum" /\ job.left \subseteq dead
  BY <1>1 DEF GroupInv, JobWaits
<1>6. /\ Link' = Link /\ FreePages' = FreePages /\ (\A id : Owned(id)' = Owned(id))
      /\ \A c \in Block : IsGrouped(c)' = IsGrouped(c)
  BY <1>4 DEF Link, FreePages, Owned, IsGrouped
<1>7. PagesSound'
  <2> HIDE DEF Link, FreePages, IsGrouped
  <2> QED BY <1>1, <1>4, <1>6 DEF GroupInv, PagesSound
<1>8. StackSound' /\ QueueSound'
  BY <1>1, StackFrame, QueueFrame
<1>9. ChainsSound'
  <2>1. \A id : Keeps(id)
    BY <1>6 DEF Keeps
  <2> HIDE DEF IsGrouped
  <2> QED BY <1>1, <1>4, <1>6, <2>1, ChainsFrame
<1>10. CoverSound'
  <2> HIDE DEF Gen, GenCount
  <2> QED BY <1>1, <1>4, <1>5, CoverPages
<1>11. /\ DeltaCount' = DeltaCount /\ GenCount' = GenCount /\ Latest' = Latest
       /\ \A i : Gen(i)' = Gen(i)
  BY <1>1, GenFrame
<1>12. JobWaits'
  <2> HIDE DEF Gen, GenCount, Latest, DeltaCount
  <2> QED BY <1>1, <1>11 DEF GroupInv, JobWaits, Waiting
<1>13. JobBuilds'
  BY <1>1 DEF JobBuilds, CaptureSound, ShapeSound, Building
<1>14. NumbersBehind'
  <2>1. Taken' = Taken
    BY <1>1 DEF Taken
  <2> HIDE DEF Taken, Latest
  <2> QED BY <1>1, <1>4, <1>11, <2>1 DEF GroupInv, NumbersBehind
<1> QED BY <1>7, <1>8, <1>9, <1>10, <1>12, <1>13, <1>14

(* What a build has captured, when its snapshot keeps its identity and the *)
(* pages of that identity their roots                                      *)
LEMMA CaptureKept ==
  ASSUME GroupInv, Building, UNCHANGED <<last, live, active, deltas>>,
         job'.op = job.op, job'.snap.id = job.snap.id, job'.snap.after = job.snap.after,
         job'.before = job.before, job'.level = job.level, job'.from = job.from,
         \A o \in Incarnation :
           (o \in job'.left \/ \E b \in Block : page'[b].id = job.snap.id /\ o \in page'[b].roots)
           <=> (o \in job.left \/ \E b \in Block : page[b].id = job.snap.id /\ o \in page[b].roots)
  PROVE  CaptureSound'
<1>1. DeltaCount' = DeltaCount /\ \A i : Gen(i)' = Gen(i)
  BY DEF DeltaCount, Gen
<1> HIDE DEF DeltaCount, Gen
<1> QED BY <1>1 DEF GroupInv, JobBuilds, CaptureSound

(* Extend: the new block is past every page in use. *)
LEMMA ExtendStep ==
  ASSUME GroupInv, Extend
  PROVE  /\ NumbersBehind' /\ PagesSound' /\ StackSound' /\ QueueSound'
         /\ ChainsSound' /\ CoverSound' /\ JobWaits' /\ JobBuilds'
<1> USE DEF canonical, group
<1>1. /\ job.stage \in {"write", "anchors"} /\ free = NoBlock /\ size < MaxBlocks
      /\ size' = size + 1
      /\ page' = [page EXCEPT ![size + 1] = ZeroPage]
      /\ job' = [job EXCEPT !.blk = size + 1]
      /\ UNCHANGED <<inc, last, published, live, dead, free, active, deltas, journal,
                     retired, abandoned>>
  BY DEF Extend
<1>2. PICK n \in Block : n = size + 1
  BY SMTT(30), <1>1, GroupBoundAssumption DEF GroupInv, GroupTypeOK, Block, BlockOrNone
<1>3. page[n].kind = "None" /\ size \in Nat /\ n > size
  BY <1>2 DEF GroupInv, PagesSound, GroupTypeOK, Block, BlockOrNone
<1>4. page[n].id = NoId
  BY <1>3 DEF GroupInv, PagesSound, IsGrouped
<1>5. page'[n] = ZeroPage /\ \A c \in Block : c # n => page'[c] = page[c]
  BY <1>1, <1>2 DEF GroupInv, GroupTypeOK
<1>6. page'[n].kind = "Zero" /\ page'[n].id = NoId /\ page'[n].roots = {}
  BY <1>5 DEF ZeroPage, NewPage
<1>7. \A id : id # NoId => Keeps(id)
  BY <1>4, <1>5, <1>6 DEF Keeps, Owned, Link
<1>8. \A c \in Block : IsGrouped(c)' => IsGrouped(c) /\ page'[c].id = page[c].id
  BY <1>5, <1>6 DEF IsGrouped
<1>9. StackSound' /\ QueueSound' /\ ChainsSound'
  <2> HIDE DEF IsGrouped
  <2> QED BY <1>1, <1>7, <1>8, StackFrame, QueueFrame, ChainsFrame
<1>10. CoverSound'
  <2> HIDE DEF Gen, GenCount
  <2>1. \A c \in Block : \A i \in 1 .. GenCount : Gen(i).id # NoId =>
           /\ (page'[c].id = Gen(i).id) = (page[c].id = Gen(i).id)
           /\ page[c].id = Gen(i).id => page'[c] = page[c]
    BY <1>4, <1>5, <1>6
  <2> QED BY <1>1, <2>1, CoverPages
<1>11. PagesSound'
  <2>1. FreePages' = FreePages
    BY <1>3, <1>5, <1>6 DEF FreePages
  <2>2. PICK t \in BlockOrNone : Chained(Link, FreePages, free, t)
    BY DEF GroupInv, PagesSound
  <2>3. \A c \in FreePages : Link'[c] = Link[c]
    BY <1>3, <1>5 DEF FreePages, Link
  <2>4. Chained(Link', FreePages', free', t)
    <3> HIDE DEF Link, FreePages
    <3> QED BY <1>1, <2>1, <2>2, <2>3, ChainedSame
  <2>5. /\ \A c \in Block : (page'[c].id = NoId) <=> ~(IsGrouped(c)')
        /\ \A c \in Block : ~(IsGrouped(c)') => page'[c].roots = {}
    BY <1>5, <1>6 DEF GroupInv, PagesSound, IsGrouped
  <2>6. \A c \in Block : c > size' => page'[c].kind = "None"
    BY <1>1, <1>2, <1>3, <1>5 DEF GroupInv, PagesSound, Block
  <2> HIDE DEF IsGrouped, Link, FreePages
  <2> QED BY <2>4, <2>5, <2>6 DEF PagesSound
<1>12. job \in Job
  BY DEF GroupInv, GroupTypeOK
<1>13. /\ job'.stage = job.stage /\ job'.op = job.op /\ job'.snap = job.snap
       /\ job'.blk = n /\ job'.before = job.before /\ job'.left = job.left
       /\ job'.level = job.level /\ job'.from = job.from
  BY <1>1, <1>2, <1>12 DEF Job
<1>14. Building
  BY <1>1 DEF Building
<1>15. JobWaits'
  BY <1>1, <1>13, <1>14, BuildingWaits, BuildingJob
<1>16. \A o : (\E b \in Block : page'[b].id = job.snap.id /\ o \in page'[b].roots)
              <=> (\E b \in Block : page[b].id = job.snap.id /\ o \in page[b].roots)
  <2>1. page[n].roots = {}
    BY <1>4, NoIdEmpty
  <2> QED BY <1>5, <1>6, <2>1
<1>17. CaptureSound'
  BY <1>1, <1>13, <1>14, <1>16, CaptureKept
<1>18. ShapeSound'
  <2>1. \A b \in {job.snap.root, job.snap.frontier} \ {NoBlock} :
          job.stage = "anchors" => page'[b].kind = "Node" /\ page'[b].id = job.snap.id
    <3>1. job.snap.root \in BlockOrNone /\ job.snap.frontier \in BlockOrNone
      BY FieldTypes DEF GroupInv, Snapshot
    <3>2. \A b \in {job.snap.root, job.snap.frontier} \ {NoBlock} :
          job.stage = "anchors" => b \in Block /\ page[b].kind = "Node" /\ page[b].id = job.snap.id
      BY <3>1 DEF GroupInv, JobBuilds, ShapeSound, Block, BlockOrNone, NoBlock
    <3> QED BY <1>3, <1>5, <3>2
  <2> QED BY <1>1, <1>6, <1>13, <2>1 DEF GroupInv, JobBuilds, ShapeSound
<1>19. NumbersBehind'
  <2>1. Taken' = Taken /\ Latest' = Latest
    BY <1>1, <1>13, GenFrame DEF Taken
  <2>2. 0 < inc
    BY DEF GroupInv, GroupTypeOK
  <2> HIDE DEF Taken, Latest
  <2> QED BY <1>1, <1>5, <1>6, <1>13, <2>1, <2>2 DEF GroupInv, NumbersBehind, NoId
<1> QED BY <1>9, <1>10, <1>11, <1>15, <1>17, <1>18, <1>19 DEF JobBuilds

-----------------------------------------------------------------------------
(* append() *)

(* The block that append() takes is free or zero, and its commit changes   *)
(* that block, the old tail's link and the ends of the journal.            *)
LEMMA AppendPages ==
  ASSUME GroupInv, job.stage \in {"write", "anchors"}, NEW p \in GroupPage, Append1(p)
  PROVE  /\ NextBlock \in Block /\ page[NextBlock].kind \in {"Free", "Zero"}
         /\ page[NextBlock].id = NoId /\ page[NextBlock].roots = {}
         /\ NextBlock # journal.tail
         /\ page'[NextBlock] = p
         /\ \A c \in Block : c # NextBlock =>
              /\ page'[c].id = page[c].id /\ page'[c].kind = page[c].kind
              /\ page'[c].roots = page[c].roots
              /\ page'[c].next = IF c = journal.tail THEN NextBlock ELSE page[c].next
         /\ journal'.id = journal.id /\ journal'.tail = NextBlock
         /\ journal'.head = IF journal.head = NoBlock THEN NextBlock ELSE journal.head
         /\ free' = IF free # NoBlock THEN page[free].next ELSE free
<1>1. NextBlock \in Block
  BY AppendType DEF GroupInv
<1>2. page[NextBlock].kind \in {"Free", "Zero"}
  <2>1. CASE free # NoBlock
    <3>1. PICK t \in BlockOrNone : Chained(Link, FreePages, free, t)
      BY DEF GroupInv, PagesSound
    <3>2. 0 \notin FreePages
      BY DEF FreePages, Block
    <3>3. free \in FreePages
      <4> HIDE DEF Link, FreePages
      <4> QED BY <2>1, <3>1, <3>2, ChainedFacts DEF NoBlock
    <3> QED BY <2>1, <3>3 DEF FreePages, NextBlock
  <2>2. CASE free = NoBlock
    <3>1. NextBlock = job.blk /\ job.blk # NoBlock
      BY <2>2 DEF NextBlock, Append1, HasBlock
    <3> QED BY <3>1 DEF GroupInv, JobBuilds, ShapeSound
  <2> QED BY <2>1, <2>2
<1>3. page[NextBlock].id = NoId /\ page[NextBlock].roots = {}
  BY <1>1, <1>2 DEF GroupInv, PagesSound, IsGrouped
<1>4. journal.tail # NoBlock => journal.tail \in Block /\ page[journal.tail].id # NoId
  BY BuildingEnds
<1>5. NextBlock # journal.tail
  BY <1>1, <1>3, <1>4 DEF Block, NoBlock
<1>6. \A c \in Block : page'[c] = IF c = NextBlock THEN p
                                  ELSE IF c = journal.tail THEN [page[c] EXCEPT !.next = NextBlock]
                                  ELSE page[c]
  BY DEF Append1
<1>7. \A c \in Block : page[c] \in GroupPage
  BY DEF GroupInv, GroupTypeOK
<1> HIDE DEF NextBlock
<1>8. \A c \in Block : c # NextBlock =>
        /\ page'[c].id = page[c].id /\ page'[c].kind = page[c].kind
        /\ page'[c].roots = page[c].roots
        /\ page'[c].next = IF c = journal.tail THEN NextBlock ELSE page[c].next
  BY <1>6, <1>7 DEF GroupPage
<1>9. /\ journal'.id = journal.id /\ journal'.tail = NextBlock
      /\ journal'.head = IF journal.head = NoBlock THEN NextBlock ELSE journal.head
  BY DEF GroupInv, GroupTypeOK, GroupRetired, Append1
<1>10. free' = IF free # NoBlock THEN page[free].next ELSE free
  BY DEF Append1
<1> QED BY <1>1, <1>2, <1>3, <1>5, <1>6, <1>8, <1>9, <1>10

(* append() keeps every chain but its own, and its own grows at the tail. *)
LEMMA AppendChains ==
  ASSUME GroupInv, job.stage \in {"write", "anchors"}, NEW p \in GroupPage, Append1(p),
         p.kind \in {"Record", "Node"}, p.id = job.snap.id, p.next = NoBlock
  PROVE  /\ \A id : id # NoId /\ id # journal.id => Keeps(id)
         /\ Chained(Link', Owned(journal.id)', journal'.head, journal'.tail)
<1> DEFINE b == NextBlock
<1>1. /\ b \in Block /\ page[b].id = NoId /\ b # journal.tail
      /\ page'[b] = p
      /\ \A c \in Block : c # b =>
           /\ page'[c].id = page[c].id
           /\ page'[c].next = IF c = journal.tail THEN b ELSE page[c].next
      /\ journal'.id = journal.id /\ journal'.tail = b
      /\ journal'.head = IF journal.head = NoBlock THEN b ELSE journal.head
  BY AppendPages
<1> HIDE DEF b
<1>2. PICK d : d = journal.id
  OBVIOUS
<1>3. /\ d = job.snap.id /\ d # NoId
      /\ Chained(Link, Owned(d), journal.head, journal.tail)
      /\ journal.tail # NoBlock => journal.tail \in Block /\ page[journal.tail].id = d
  BY <1>2, BuildingEnds
<1>4. ASSUME NEW id, id # NoId, id # d PROVE Keeps(id)
  <2>1. Owned(id)' = Owned(id)
    BY <1>1, <1>3, <1>4 DEF Owned
  <2>2. \A c \in Owned(id) : c \in Block /\ c # b /\ c # journal.tail
    BY <1>1, <1>3, <1>4 DEF Owned, Block, NoBlock
  <2>3. \A c \in Owned(id) : Link'[c] = Link[c]
    BY <1>1, <2>2 DEF Link
  <2> QED BY <2>1, <2>3 DEF Keeps
<1>5. Owned(d)' = Owned(d) \cup {b} /\ b \notin Owned(d) /\ 0 \notin Owned(d) /\ b # 0
  BY <1>1, <1>3 DEF Owned, Block
<1>6. /\ Link'[b] = 0
      /\ journal.tail # 0 => Link'[journal.tail] = b
      /\ \A c \in Owned(d) : c # journal.tail => Link'[c] = Link[c]
  BY <1>1, <1>3, <1>5 DEF Link, Owned, NoBlock
<1>7. Chained(Link', Owned(d) \cup {b}, IF journal.head = 0 THEN b ELSE journal.head, b)
  <2> HIDE DEF Link, Owned
  <2>1. 0 \notin Owned(d) /\ b \notin Owned(d) /\ b # 0
    BY <1>5
  <2>2. Chained(Link, Owned(d), journal.head, journal.tail)
    BY <1>3
  <2> QED BY <1>6, <2>1, <2>2, ChainedAppend
<1>8. journal'.head = IF journal.head = 0 THEN b ELSE journal.head
  BY <1>1 DEF NoBlock
<1>9. Chained(Link', Owned(d)', journal'.head, journal'.tail)
  <2> HIDE DEF Link, Owned
  <2> QED BY <1>1, <1>5, <1>7, <1>8
<1> HIDE DEF Link, Owned
<1> QED BY <1>1, <1>2, <1>4, <1>9

(* append() keeps the free list. *)
LEMMA AppendFree ==
  ASSUME GroupInv, job.stage \in {"write", "anchors"}, NEW p \in GroupPage, Append1(p),
         p.kind \in {"Record", "Node"}, p.id = job.snap.id, size' = size
  PROVE  PagesSound'
<1> DEFINE b == NextBlock
<1>1. /\ b \in Block /\ page[b].kind \in {"Free", "Zero"}
      /\ page'[b] = p
      /\ \A c \in Block : c # b =>
           /\ page'[c].id = page[c].id /\ page'[c].kind = page[c].kind
           /\ page'[c].roots = page[c].roots
           /\ page'[c].next = IF c = journal.tail THEN b ELSE page[c].next
      /\ free' = IF free # NoBlock THEN page[free].next ELSE free
  BY AppendPages
<1>2. /\ job.snap.id # NoId
      /\ journal.tail # NoBlock => journal.tail \in Block /\ page[journal.tail].id # NoId
  BY BuildingEnds
<1>3. \A c \in FreePages : c # journal.tail /\ c \in Block
  BY <1>2 DEF GroupInv, PagesSound, IsGrouped, FreePages, Block, NoBlock
<1>4. FreePages' = FreePages \ {b}
  BY <1>1 DEF FreePages
<1>5. \A c \in FreePages : c # b => Link'[c] = Link[c]
  BY <1>1, <1>3 DEF Link
<1>6. PICK t \in BlockOrNone : Chained(Link, FreePages, free, t)
  BY DEF GroupInv, PagesSound
<1>7. 0 \notin FreePages
  BY DEF FreePages, Block
<1>8. \E u \in BlockOrNone : Chained(Link', FreePages', free', u)
  <2>1. CASE free # NoBlock
    <3>1. b = free
      BY <2>1 DEF NextBlock
    <3>2. Link[free] = free' /\ free # 0
      BY <1>1, <2>1, <3>1 DEF Link, NoBlock
    <3>3. Chained(Link', FreePages \ {free}, Link[free], IF free = t THEN 0 ELSE t)
      <4> HIDE DEF Link, FreePages, b
      <4>1. \A c \in FreePages : c # free => Link'[c] = Link[c]
        BY <1>5, <3>1
      <4>2. free # 0
        BY <3>2
      <4> QED BY <1>6, <1>7, <4>1, <4>2, ChainedPop
    <3>4. (IF free = t THEN 0 ELSE t) \in BlockOrNone
      BY GroupBoundAssumption DEF BlockOrNone
    <3> HIDE DEF Link, FreePages, b
    <3> QED BY <1>4, <3>1, <3>2, <3>3, <3>4
  <2>2. CASE free = NoBlock
    <3>1. FreePages = {} /\ t = 0
      <4> HIDE DEF Link, FreePages
      <4> QED BY <1>6, <1>7, <2>2, ChainedFacts DEF NoBlock
    <3>2. Chained(Link', {}, 0, 0) /\ 0 \in BlockOrNone
      BY ChainedEmpty, GroupBoundAssumption DEF BlockOrNone
    <3> QED BY <1>1, <1>4, <2>2, <3>1, <3>2 DEF NoBlock
  <2> QED BY <2>1, <2>2
<1>9. /\ \A c \in Block : (page'[c].id = NoId) <=> ~(IsGrouped(c)')
      /\ \A c \in Block : ~(IsGrouped(c)') => page'[c].roots = {}
  <2> HIDE DEF b
  <2> QED BY <1>1, <1>2 DEF GroupInv, PagesSound, IsGrouped
<1>10. \A c \in Block : c > size' => page'[c].kind = "None"
  <2> HIDE DEF b
  <2> QED BY <1>1 DEF GroupInv, PagesSound
<1> HIDE DEF IsGrouped, Link, FreePages
<1> QED BY <1>8, <1>9, <1>10 DEF PagesSound

(* append() and everything but the build itself *)
LEMMA AppendStore ==
  ASSUME GroupInv, job.stage \in {"write", "anchors"}, NEW p \in GroupPage, Append1(p),
         p.kind \in {"Record", "Node"}, p.id = job.snap.id, p.next = NoBlock,
         UNCHANGED <<inc, last, published, live, dead, size, active, deltas, retired, abandoned>>,
         job'.snap.id = job.snap.id
  PROVE  /\ NumbersBehind' /\ PagesSound' /\ StackSound' /\ QueueSound'
         /\ ChainsSound' /\ CoverSound'
<1> DEFINE b == NextBlock
<1>1. /\ b \in Block /\ page[b].id = NoId
      /\ page'[b] = p
      /\ \A c \in Block : c # b =>
           /\ page'[c].id = page[c].id /\ page'[c].kind = page[c].kind
           /\ page'[c].roots = page[c].roots
      /\ journal'.id = journal.id
  BY AppendPages
<1> HIDE DEF b
<1>2. /\ journal.id = job.snap.id /\ journal.id # NoId /\ retired = <<>>
      /\ Latest.id < journal.id
  BY BuildingEnds
<1>3. \A i \in 1 .. GenCount : Gen(i).id # journal.id
  <2>1. journal.id \in Nat /\ Latest.id \in Nat
    BY GenFacts, FieldTypes DEF GroupInv, Snapshot, OwnerOrNone
  <2>2. \A i \in 1 .. GenCount : Gen(i).id \in Nat /\ Gen(i).id <= Latest.id
    BY GenIds
  <2> HIDE DEF Gen, GenCount, Latest
  <2> QED BY <1>2, <2>1, <2>2
<1>4. /\ \A id : id # NoId /\ id # journal.id => Keeps(id)
      /\ Chained(Link', Owned(journal.id)', journal'.head, journal'.tail)
  BY AppendChains
<1>5. PagesSound' /\ StackSound'
  BY AppendFree, StackFrame
<1>6. /\ DeltaCount' = DeltaCount /\ GenCount' = GenCount /\ Latest' = Latest
      /\ \A i : Gen(i)' = Gen(i)
  BY GenFrame
<1>7. (active.id # NoId =>
         \A i \in 1 .. GenCount : Chained(Link, Owned(Gen(i).id), Gen(i).head, Gen(i).tail))'
  BY <1>3, <1>4, GenIds, GenChains
<1>8. \A c \in Block : IsGrouped(c)' =>
         page'[c].id = journal.id \/ \E i \in 1 .. GenCount : page'[c].id = Gen(i).id
  <2>1. \A c \in Block : IsGrouped(c)' /\ c # b => IsGrouped(c) /\ page'[c].id = page[c].id
    BY <1>1 DEF IsGrouped
  <2>2. Len(retired) = 0
    BY <1>2
  <2> HIDE DEF Gen, GenCount, IsGrouped
  <2> QED BY <1>1, <1>2, <2>1, <2>2 DEF GroupInv, ChainsSound
<1>9. ChainsSound'
  <2>1. Len(retired') = 0
    BY <1>2
  <2> HIDE DEF Gen, GenCount, IsGrouped, Owned, Link
  <2> QED BY <1>1, <1>4, <1>6, <1>7, <1>8, <2>1 DEF ChainsSound
<1>10. QueueSound'
  <2> HIDE DEF Gen, GenCount, Latest, DeltaCount
  <2> QED BY <1>1, <1>2, <1>6 DEF GroupInv, QueueSound
<1>11. CoverSound'
  <2> HIDE DEF Gen, GenCount
  <2>1. \A c \in Block : \A i \in 1 .. GenCount : Gen(i).id # NoId =>
           /\ (page'[c].id = Gen(i).id) = (page[c].id = Gen(i).id)
           /\ page[c].id = Gen(i).id => page'[c].roots = page[c].roots
    BY <1>1, <1>2, <1>3
  <2> QED BY <2>1, CoverPages
<1>12. NumbersBehind'
  <2>1. Taken' = Taken
    BY DEF Taken
  <2>2. inc \in Nat /\ job.snap.id = inc - 1
    BY <1>2 DEF GroupInv, NumbersBehind, GroupTypeOK
  <2>3. p.id < inc
    BY <2>2
  <2> HIDE DEF Taken, Latest
  <2> QED BY <1>1, <1>6, <2>1, <2>3 DEF GroupInv, NumbersBehind
<1> QED BY <1>5, <1>9, <1>10, <1>11, <1>12

(* The snapshot of the build follows its journal. *)
LEMMA AppendedFacts ==
  ASSUME GroupInv, job.stage \in {"write", "anchors"}, NEW p \in GroupPage, Append1(p),
         NEW s, s = Appended(job.snap)
  PROVE  /\ s.id = job.snap.id /\ s.root = job.snap.root /\ s.frontier = job.snap.frontier
         /\ s.anchored = job.snap.anchored /\ s.valid = job.snap.valid
         /\ s.after = job.snap.after
         /\ s.head = journal'.head /\ s.tail = journal'.tail /\ s.tail = NextBlock
         /\ s.head # NoBlock /\ s.tail # NoBlock
         /\ journal' = [id |-> s.id, head |-> s.head, tail |-> s.tail]
         /\ s \in Snapshot
<1>1. job.snap \in Snapshot
  BY FieldTypes DEF GroupInv
<1>2. /\ s.id = job.snap.id /\ s.root = job.snap.root /\ s.frontier = job.snap.frontier
      /\ s.anchored = job.snap.anchored /\ s.valid = job.snap.valid
      /\ s.after = job.snap.after /\ s.tail = NextBlock
      /\ s.head = IF job.snap.head = NoBlock THEN NextBlock ELSE job.snap.head
  BY <1>1 DEF Appended, Snapshot
<1>3. /\ NextBlock \in Block /\ journal'.id = journal.id /\ journal'.tail = NextBlock
      /\ journal'.head = IF journal.head = NoBlock THEN NextBlock ELSE journal.head
  BY AppendPages
<1>4. journal.id = job.snap.id /\ journal.head = job.snap.head
  BY BuildingEnds
<1>5. NextBlock # NoBlock
  BY <1>3 DEF Block, NoBlock
<1>6. journal' \in GroupRetired /\ s \in Snapshot
  BY AppendType DEF GroupInv
<1>7. journal' = [id |-> journal'.id, head |-> journal'.head, tail |-> journal'.tail]
  BY <1>6 DEF GroupRetired
<1> HIDE DEF NextBlock
<1> QED BY <1>2, <1>3, <1>4, <1>5, <1>6, <1>7

(* What pages a build holds after append() *)
LEMMA AppendedRoots ==
  ASSUME GroupInv, job.stage \in {"write", "anchors"}, NEW p \in GroupPage, Append1(p),
         p.id = job.snap.id, NEW o
  PROVE  (\E b \in Block : page'[b].id = job.snap.id /\ o \in page'[b].roots)
         <=> (o \in p.roots \/ \E b \in Block : page[b].id = job.snap.id /\ o \in page[b].roots)
<1>1. /\ NextBlock \in Block /\ page[NextBlock].roots = {} /\ page'[NextBlock] = p
      /\ \A c \in Block : c # NextBlock =>
              page'[c].id = page[c].id /\ page'[c].roots = page[c].roots
  BY AppendPages
<1> HIDE DEF NextBlock
<1> QED BY <1>1

(* WriteGroup: the documents of the group move from what is left to a page. *)
LEMMA WriteGroupStep ==
  ASSUME GroupInv, NEW g \in 0 .. (HeapGroups - 1), WriteGroup(g)
  PROVE  /\ NumbersBehind' /\ PagesSound' /\ StackSound' /\ QueueSound'
         /\ ChainsSound' /\ CoverSound' /\ JobWaits' /\ JobBuilds'
<1> USE DEF canonical
<1> DEFINE p == NewPage("Record", job.snap.id, InGroup(g))
<1>1. /\ job.stage = "write" /\ Append1(p)
      /\ job' = [job EXCEPT !.left = @ \ InGroup(g), !.snap = Appended(@), !.blk = NoBlock]
      /\ UNCHANGED <<inc, last, published, live, dead, size, active, deltas, retired, abandoned>>
  BY DEF WriteGroup
<1>2. InGroup(g) \subseteq job.left /\ InGroup(g) \in SUBSET Incarnation
  BY FieldTypes DEF InGroup, GroupInv
<1>3. p \in GroupPage
  BY <1>2, PageTypes, FieldTypes DEF GroupInv
<1>4. p.kind = "Record" /\ p.id = job.snap.id /\ p.next = NoBlock /\ p.roots = InGroup(g)
  BY DEF NewPage
<1> HIDE DEF p
<1>5. job \in Job
  BY DEF GroupInv, GroupTypeOK
<1>6. /\ job'.stage = "write" /\ job'.op = job.op /\ job'.left = job.left \ InGroup(g)
      /\ job'.blk = NoBlock /\ job'.before = job.before
      /\ job'.level = job.level /\ job'.from = job.from
      /\ job'.snap = Appended(job.snap)
  <2> HIDE DEF InGroup, Appended
  <2> QED BY <1>1, <1>5 DEF Job
<1>7. /\ job'.snap.id = job.snap.id /\ job'.snap.root = job.snap.root
      /\ job'.snap.frontier = job.snap.frontier /\ job'.snap.anchored = job.snap.anchored
      /\ job'.snap.valid = job.snap.valid /\ job'.snap.after = job.snap.after
      /\ journal' = [id |-> job'.snap.id, head |-> job'.snap.head, tail |-> job'.snap.tail]
  BY <1>1, <1>3, <1>6, AppendedFacts
<1>8. NumbersBehind' /\ PagesSound' /\ StackSound' /\ QueueSound' /\ ChainsSound' /\ CoverSound'
  BY <1>1, <1>3, <1>4, <1>7, AppendStore
<1>9. Building
  BY <1>1 DEF Building
<1>10. JobWaits'
  BY <1>6, <1>9, BuildingWaits, BuildingJob
<1>11. \A o : (\E b \in Block : page'[b].id = job.snap.id /\ o \in page'[b].roots)
         <=> (o \in InGroup(g) \/ \E b \in Block : page[b].id = job.snap.id /\ o \in page[b].roots)
  BY <1>1, <1>3, <1>4, AppendedRoots
<1>12. CaptureSound'
  <2> HIDE DEF InGroup
  <2>1. \A o \in Incarnation :
           (o \in job'.left \/ \E b \in Block : page'[b].id = job.snap.id /\ o \in page'[b].roots)
           <=> (o \in job.left \/ \E b \in Block : page[b].id = job.snap.id /\ o \in page[b].roots)
    BY <1>2, <1>6, <1>11
  <2> QED BY <1>1, <1>6, <1>7, <1>9, <2>1, CaptureKept
<1>13. ShapeSound'
  BY <1>1, <1>6, <1>7 DEF GroupInv, JobBuilds, ShapeSound
<1> QED BY <1>8, <1>10, <1>12, <1>13 DEF JobBuilds

(* FinishCatalog: the last node is the root of the dictionary. *)
LEMMA FinishCatalogStep ==
  ASSUME GroupInv, FinishCatalog
  PROVE  /\ NumbersBehind' /\ PagesSound' /\ StackSound' /\ QueueSound'
         /\ ChainsSound' /\ CoverSound' /\ JobWaits' /\ JobBuilds'
<1> USE DEF canonical
<1> DEFINE p == NewPage("Node", job.snap.id, {})
<1>1. /\ job.stage = "write" /\ job.left = {} /\ Append1(p)
      /\ job' = [job EXCEPT !.stage = AfterCatalog, !.blk = NoBlock,
                            !.snap = [Appended(@) EXCEPT !.root = NextBlock]]
      /\ UNCHANGED <<inc, last, published, live, dead, size, active, deltas, retired, abandoned>>
  BY DEF FinishCatalog
<1>3. p \in GroupPage
  BY PageTypes, FieldTypes DEF GroupInv
<1>4. p.kind = "Node" /\ p.id = job.snap.id /\ p.next = NoBlock /\ p.roots = {}
  BY DEF NewPage
<1> HIDE DEF p
<1>5. job \in Job
  BY DEF GroupInv, GroupTypeOK
<1>50. AfterCatalog = "publish" \/ (AfterCatalog = "anchors" /\ job.op = "rebuild")
  BY DEF AfterCatalog
<1>6. /\ job'.stage = AfterCatalog /\ job'.op = job.op /\ job'.left = job.left
      /\ job'.blk = NoBlock /\ job'.before = job.before
      /\ job'.level = job.level /\ job'.from = job.from
      /\ job'.snap = [Appended(job.snap) EXCEPT !.root = NextBlock]
  <2> HIDE DEF AfterCatalog, Appended, NextBlock
  <2> QED BY <1>1, <1>5 DEF Job
<1>60. PICK s : s = Appended(job.snap)
  OBVIOUS
<1>61. /\ s.id = job.snap.id /\ s.root = job.snap.root /\ s.frontier = job.snap.frontier
       /\ s.anchored = job.snap.anchored /\ s.valid = job.snap.valid
       /\ s.after = job.snap.after /\ s.tail = NextBlock
       /\ s.head # NoBlock /\ s.tail # NoBlock
       /\ journal' = [id |-> s.id, head |-> s.head, tail |-> s.tail]
       /\ s \in Snapshot
  BY <1>1, <1>3, <1>60, AppendedFacts
<1>7. /\ job'.snap.id = job.snap.id /\ job'.snap.root = NextBlock
      /\ job'.snap.frontier = job.snap.frontier /\ job'.snap.anchored = job.snap.anchored
      /\ job'.snap.valid = job.snap.valid /\ job'.snap.after = job.snap.after
      /\ job'.snap.head = s.head /\ job'.snap.tail = s.tail
  <2> HIDE DEF AfterCatalog, Appended, NextBlock
  <2> QED BY <1>6, <1>60, <1>61 DEF Snapshot
<1>70. journal' = [id |-> job'.snap.id, head |-> job'.snap.head, tail |-> job'.snap.tail]
  BY <1>7, <1>61
<1> HIDE DEF AfterCatalog, Appended
<1>8. NumbersBehind' /\ PagesSound' /\ StackSound' /\ QueueSound' /\ ChainsSound' /\ CoverSound'
  BY <1>1, <1>3, <1>4, <1>7, AppendStore
<1>9. Building
  BY <1>1 DEF Building
<1>10. JobWaits'
  BY <1>6, <1>50, <1>9, BuildingWaits, BuildingJob
<1>11. \A o : (\E b \in Block : page'[b].id = job.snap.id /\ o \in page'[b].roots)
         <=> (\E b \in Block : page[b].id = job.snap.id /\ o \in page[b].roots)
  BY <1>1, <1>3, <1>4, AppendedRoots
<1>12. CaptureSound'
  BY <1>1, <1>6, <1>7, <1>9, <1>11, CaptureKept
<1>13. /\ job.snap.frontier = NoBlock /\ ~job.snap.anchored /\ ~job.snap.valid
       /\ job.snap.after = last /\ last < job.snap.id /\ job.snap.id # NoId
  BY <1>1, <1>9, BuildingEnds DEF GroupInv, JobBuilds, ShapeSound, CaptureSound
<1>14. page'[NextBlock] = p
  BY <1>1, <1>3, AppendPages
<1> HIDE DEF NextBlock
<1>15. SnapshotValid(job'.snap, job'.op = "rebuild")
  BY <1>7, <1>13, <1>61 DEF SnapshotValid
<1>16. \A b \in {job'.snap.root, job'.snap.frontier} \ {NoBlock} :
         page'[b].kind = "Node" /\ page'[b].id = job'.snap.id
  BY <1>4, <1>7, <1>13, <1>14
<1>17. ShapeSound'
  <2> HIDE DEF SnapshotValid
  <2> QED BY <1>1, <1>50, <1>6, <1>61, <1>7, <1>70, <1>13, <1>15, <1>16 DEF ShapeSound
<1> QED BY <1>8, <1>10, <1>12, <1>17 DEF JobBuilds

(* FinishAnchors: the anchor catalog has a root of its own. *)
LEMMA FinishAnchorsStep ==
  ASSUME GroupInv, FinishAnchors
  PROVE  /\ NumbersBehind' /\ PagesSound' /\ StackSound' /\ QueueSound'
         /\ ChainsSound' /\ CoverSound' /\ JobWaits' /\ JobBuilds'
<1> USE DEF canonical
<1> DEFINE p == NewPage("Node", job.snap.id, {})
<1>1. /\ job.stage = "anchors" /\ Append1(p)
      /\ job' = [job EXCEPT !.stage = "publish", !.blk = NoBlock,
                            !.snap = [Appended(@) EXCEPT !.anchored = TRUE, !.valid = TRUE,
                                                         !.frontier = NextBlock]]
      /\ UNCHANGED <<inc, last, published, live, dead, size, active, deltas, retired, abandoned>>
  BY DEF FinishAnchors
<1>3. p \in GroupPage
  BY PageTypes, FieldTypes DEF GroupInv
<1>4. p.kind = "Node" /\ p.id = job.snap.id /\ p.next = NoBlock /\ p.roots = {}
  BY DEF NewPage
<1> HIDE DEF p
<1>5. job \in Job
  BY DEF GroupInv, GroupTypeOK
<1>6. /\ job'.stage = "publish" /\ job'.op = job.op /\ job'.left = job.left
      /\ job'.blk = NoBlock /\ job'.before = job.before
      /\ job'.level = job.level /\ job'.from = job.from
      /\ job'.snap = [Appended(job.snap) EXCEPT !.anchored = TRUE, !.valid = TRUE,
                                                !.frontier = NextBlock]
  <2> HIDE DEF Appended, NextBlock
  <2> QED BY <1>1, <1>5 DEF Job
<1>60. PICK s : s = Appended(job.snap)
  OBVIOUS
<1>61. /\ s.id = job.snap.id /\ s.root = job.snap.root
       /\ s.after = job.snap.after /\ s.tail = NextBlock
       /\ s.head # NoBlock /\ s.tail # NoBlock
       /\ journal' = [id |-> s.id, head |-> s.head, tail |-> s.tail]
       /\ s \in Snapshot
  BY <1>1, <1>3, <1>60, AppendedFacts
<1>7. /\ job'.snap.id = job.snap.id /\ job'.snap.root = job.snap.root
      /\ job'.snap.frontier = NextBlock /\ job'.snap.anchored = TRUE
      /\ job'.snap.valid = TRUE /\ job'.snap.after = job.snap.after
      /\ job'.snap.head = s.head /\ job'.snap.tail = s.tail
  <2> HIDE DEF Appended, NextBlock
  <2> QED BY <1>6, <1>60, <1>61 DEF Snapshot
<1>70. journal' = [id |-> job'.snap.id, head |-> job'.snap.head, tail |-> job'.snap.tail]
  BY <1>7, <1>61
<1> HIDE DEF Appended
<1>8. NumbersBehind' /\ PagesSound' /\ StackSound' /\ QueueSound' /\ ChainsSound' /\ CoverSound'
  BY <1>1, <1>3, <1>4, <1>7, AppendStore
<1>9. Building
  BY <1>1 DEF Building
<1>10. JobWaits'
  BY <1>6, <1>9, BuildingWaits, BuildingJob
<1>11. \A o : (\E b \in Block : page'[b].id = job.snap.id /\ o \in page'[b].roots)
         <=> (\E b \in Block : page[b].id = job.snap.id /\ o \in page[b].roots)
  BY <1>1, <1>3, <1>4, AppendedRoots
<1>12. CaptureSound'
  BY <1>1, <1>6, <1>7, <1>9, <1>11, CaptureKept
<1>13. /\ job.left = {} /\ job.op = "rebuild"
       /\ job.snap.after = last /\ last < job.snap.id /\ job.snap.id # NoId
       /\ job.snap.root # NoBlock =>
            page[job.snap.root].kind = "Node" /\ page[job.snap.root].id = job.snap.id
  BY <1>1, <1>9, BuildingEnds DEF GroupInv, JobBuilds, ShapeSound, CaptureSound
<1>130. job.snap.root # NoBlock => job.snap.root \in Block
  BY FieldTypes DEF GroupInv, Snapshot, Block, BlockOrNone, NoBlock
<1>14. /\ page'[NextBlock] = p /\ page[NextBlock].id = NoId
       /\ \A c \in Block : c # NextBlock => page'[c].id = page[c].id /\ page'[c].kind = page[c].kind
  BY <1>1, <1>3, AppendPages
<1> HIDE DEF NextBlock
<1>140. job.snap.root # NextBlock
  BY <1>13, <1>14, <1>61
<1>15. SnapshotValid(job'.snap, TRUE)
  BY <1>7, <1>13, <1>61, <1>140 DEF SnapshotValid
<1>150. SnapshotValid(job'.snap, job'.op = "rebuild")
  <2>1. (job'.op = "rebuild") = TRUE
    BY <1>6, <1>13
  <2> QED BY <1>15, <2>1
<1>16. \A b \in {job'.snap.root, job'.snap.frontier} \ {NoBlock} :
         page'[b].kind = "Node" /\ page'[b].id = job'.snap.id
  BY <1>4, <1>7, <1>13, <1>130, <1>14, <1>140
<1>17. ShapeSound'
  <2> HIDE DEF SnapshotValid
  <2> QED BY <1>6, <1>7, <1>70, <1>13, <1>150, <1>16 DEF ShapeSound
<1> QED BY <1>8, <1>10, <1>12, <1>17 DEF JobBuilds

-----------------------------------------------------------------------------
(* Publication *)

(* The levels keep the stack within its slots. *)
LEMMA DeltasFit ==
  ASSUME GroupInv
  PROVE  DeltaCount \in Nat /\ DeltaCount <= Segments /\ GenCount <= Segments + 1
<1>0. DeltaCount \in Nat /\ GenCount = DeltaCount + 1
  BY GenFacts DEF GroupInv
<1>1. CASE DeltaCount = 0
  BY <1>0, <1>1, SegmentsAssumption
<1>2. CASE DeltaCount # 0
  <2>1. 1 \in 1 .. DeltaCount /\ DeltaCount \in 1 .. DeltaCount
    BY <1>0, <1>2
  <2>2. deltas[1].level \in Nat /\ deltas[DeltaCount].level \in Nat
    BY <2>1, GenFacts DEF GroupInv, Delta
  <2>3. deltas[1].level < Segments
    BY <2>1 DEF GroupInv, StackSound
  <2>4. 1 < DeltaCount => deltas[1].level >= deltas[DeltaCount].level + (DeltaCount - 1)
    BY <2>1 DEF GroupInv, StackSound
  <2> HIDE DEF DeltaCount, GenCount
  <2> QED BY <1>0, <2>1, <2>2, <2>3, <2>4, SegmentsAssumption
<1> QED BY <1>1, <1>2

(* The order of the generations, with the types *)
LEMMA GenOrder ==
  ASSUME GroupInv
  PROVE  /\ GenCount \in Nat
         /\ \A i \in 1 .. GenCount : Gen(i).id \in Nat /\ Gen(i).after \in Nat
         /\ \A i, j \in 1 .. GenCount :
              i < j => Gen(i).id < Gen(j).id /\ Gen(i).after < Gen(j).after
         /\ active.id # NoId => Latest.after < Latest.id
<1>1. /\ GenCount \in Nat /\ GenCount = DeltaCount + 1 /\ DeltaCount \in Nat
      /\ \A i \in 1 .. GenCount : Gen(i).id \in Nat /\ Gen(i).after \in Nat
  BY GenFacts DEF GroupInv, Snapshot, OwnerOrNone
<1>2. \A i, j \in 1 .. GenCount :
              i < j => Gen(i).id < Gen(j).id /\ Gen(i).after < Gen(j).after
  BY DEF GroupInv, StackSound
<1>3. ASSUME active.id # NoId PROVE Latest.after < Latest.id
  <2>1. CASE deltas = <<>>
    BY <1>3, <2>1 DEF GroupInv, StackSound, SnapshotValid, Latest
  <2>2. CASE deltas # <<>>
    <3>1. DeltaCount \in 1 .. DeltaCount
      BY <1>1, <2>2, GenFacts DEF GroupInv
    <3> HIDE DEF DeltaCount
    <3> QED BY <2>2, <3>1 DEF GroupInv, StackSound, SnapshotValid, Latest
  <2> QED BY <2>1, <2>2
<1> QED BY <1>1, <1>2, <1>3

(* One commit replaces the generations above the first m by the new one    *)
(* and queues them.                                                        *)
Republishes(m, q) ==
  /\ m \in 0 .. GenCount
  /\ active.id = NoId => m = 0
  /\ GenCount' = m + 1 /\ active'.id # NoId /\ Latest' = job.snap
  /\ \A i \in 1 .. m : Gen(i)' = Gen(i)
  /\ Gen(m + 1)' = job.snap
  /\ q \in Seq(Snapshot)
  /\ Len(q) = IF active.id = NoId THEN 0 ELSE GenCount - m
  /\ \A i \in 1 .. Len(q) : q[i] = Gen(m + i)
  /\ retired' = Retiring(q)
  /\ job.before = IF m = 0 THEN NoOwner ELSE Gen(m).after
  /\ journal' = NoJournal /\ job' = Published
  /\ UNCHANGED <<inc, last, published, live, dead, page, size, free, abandoned>>

(* The queue that publication leaves *)
LEMMA RepublishQueue ==
  ASSUME GroupInv, NEW m, NEW q, Republishes(m, q)
  PROVE  /\ Len(retired') <= Segments + 1 /\ retired' \in Seq(GroupRetired)
         /\ \A i \in 1 .. Len(retired') : \E k \in 1 .. GenCount :
              /\ active.id # NoId /\ k > m /\ Gen(k).head # NoBlock
              /\ retired'[i].id = Gen(k).id /\ retired'[i].head = Gen(k).head
              /\ retired'[i].tail = Gen(k).tail
         /\ \A k \in 1 .. GenCount : active.id # NoId /\ k > m /\ Gen(k).head # NoBlock =>
              \E i \in 1 .. Len(retired') : retired'[i].id = Gen(k).id
         /\ \A i, j \in 1 .. Len(retired') : i # j => retired'[i].id # retired'[j].id
<1>1. /\ m \in 0 .. GenCount /\ q \in Seq(Snapshot)
      /\ Len(q) = IF active.id = NoId THEN 0 ELSE GenCount - m
      /\ \A i \in 1 .. Len(q) : q[i] = Gen(m + i)
      /\ retired' = Retiring(q)
  BY DEF Republishes
<1>2. /\ GenCount \in Nat /\ GenCount <= Segments + 1
      /\ \A i \in 1 .. GenCount : Gen(i).id \in Nat
      /\ \A i, j \in 1 .. GenCount : i < j => Gen(i).id < Gen(j).id
  BY GenOrder, DeltasFit
<1> HIDE DEF Gen, GenCount
<1>3. \A i \in 1 .. Len(q) : m + i \in 1 .. GenCount /\ active.id # NoId /\ m + i > m
  BY <1>1, <1>2
<1>4. \A i, j \in 1 .. Len(q) : i # j => q[i].id # q[j].id
  <2> SUFFICES ASSUME NEW i \in 1 .. Len(q), NEW j \in 1 .. Len(q), i # j
               PROVE  q[i].id # q[j].id
    OBVIOUS
  <2>1. m + i \in 1 .. GenCount /\ m + j \in 1 .. GenCount /\ (m + i < m + j \/ m + j < m + i)
    BY <1>1, <1>2, <1>3
  <2>2. Gen(m + i).id # Gen(m + j).id
    BY <1>2, <2>1
  <2> QED BY <1>1, <2>2
<1>5. retired' \in Seq(GroupRetired) /\ Queues(retired', q, Len(q))
  BY <1>1, <1>4, RetiringFacts
<1>6. /\ Len(retired') <= Len(q)
      /\ \A i \in 1 .. Len(retired') : \E k \in 1 .. Len(q) :
           q[k].head # NoBlock /\ retired'[i] = Entry(q[k])
      /\ \A k \in 1 .. Len(q) : q[k].head # NoBlock =>
           \E i \in 1 .. Len(retired') : retired'[i] = Entry(q[k])
      /\ \A i, j \in 1 .. Len(retired') : i # j => retired'[i].id # retired'[j].id
  BY <1>5 DEF Queues
<1>7. \A k \in 1 .. Len(q) : /\ Entry(q[k]).id = Gen(m + k).id /\ Entry(q[k]).head = Gen(m + k).head
                             /\ Entry(q[k]).tail = Gen(m + k).tail /\ q[k].head = Gen(m + k).head
  BY <1>1 DEF Entry
<1>8. \A i \in 1 .. Len(retired') : \E k \in 1 .. GenCount :
        /\ active.id # NoId /\ k > m /\ Gen(k).head # NoBlock
        /\ retired'[i].id = Gen(k).id /\ retired'[i].head = Gen(k).head
        /\ retired'[i].tail = Gen(k).tail
  <2> SUFFICES ASSUME NEW i \in 1 .. Len(retired')
               PROVE  \E k \in 1 .. GenCount :
                        /\ active.id # NoId /\ k > m /\ Gen(k).head # NoBlock
                        /\ retired'[i].id = Gen(k).id /\ retired'[i].head = Gen(k).head
                        /\ retired'[i].tail = Gen(k).tail
    OBVIOUS
  <2>1. PICK k \in 1 .. Len(q) : q[k].head # NoBlock /\ retired'[i] = Entry(q[k])
    BY <1>6
  <2> QED BY <1>3, <1>7, <2>1
<1>9. \A k \in 1 .. GenCount : active.id # NoId /\ k > m /\ Gen(k).head # NoBlock =>
              \E i \in 1 .. Len(retired') : retired'[i].id = Gen(k).id
  <2> SUFFICES ASSUME NEW k \in 1 .. GenCount, active.id # NoId, k > m, Gen(k).head # NoBlock
               PROVE  \E i \in 1 .. Len(retired') : retired'[i].id = Gen(k).id
    OBVIOUS
  <2>1. k - m \in 1 .. Len(q) /\ m + (k - m) = k
    BY <1>1, <1>2
  <2>2. Entry(q[k - m]).id = Gen(k).id /\ q[k - m].head # NoBlock
    BY <1>7, <2>1
  <2> QED BY <1>6, <2>1, <2>2
<1>10. Len(retired') <= Segments + 1
  <2>1. Len(retired') \in Nat /\ Len(q) \in Nat /\ Len(q) <= GenCount
    BY <1>1, <1>2, <1>5
  <2> QED BY <1>2, <1>6, <2>1, SegmentsAssumption
<1> QED BY <1>5, <1>6, <1>8, <1>9, <1>10

(* Publication and everything but the order of the new stack *)
LEMMA RepublishStore ==
  ASSUME GroupInv, job.stage = "publish", NEW m, NEW q, Republishes(m, q)
  PROVE  /\ NumbersBehind' /\ PagesSound' /\ QueueSound'
         /\ ChainsSound' /\ CoverSound' /\ JobWaits' /\ JobBuilds'
<1>1. /\ m \in 0 .. GenCount /\ (active.id = NoId => m = 0)
      /\ GenCount' = m + 1 /\ active'.id # NoId /\ Latest' = job.snap
      /\ \A i \in 1 .. m : Gen(i)' = Gen(i)
      /\ Gen(m + 1)' = job.snap
      /\ job.before = IF m = 0 THEN NoOwner ELSE Gen(m).after
      /\ journal' = NoJournal /\ job' = Published
      /\ UNCHANGED <<inc, last, published, live, dead, page, size, free, abandoned>>
  BY DEF Republishes
<1>2. /\ Len(retired') <= Segments + 1 /\ retired' \in Seq(GroupRetired)
      /\ \A i \in 1 .. Len(retired') : \E k \in 1 .. GenCount :
           /\ active.id # NoId /\ k > m /\ Gen(k).head # NoBlock
           /\ retired'[i].id = Gen(k).id /\ retired'[i].head = Gen(k).head
           /\ retired'[i].tail = Gen(k).tail
      /\ \A k \in 1 .. GenCount : active.id # NoId /\ k > m /\ Gen(k).head # NoBlock =>
           \E i \in 1 .. Len(retired') : retired'[i].id = Gen(k).id
      /\ \A i, j \in 1 .. Len(retired') : i # j => retired'[i].id # retired'[j].id
  BY RepublishQueue
<1>3. /\ GenCount \in Nat
      /\ \A i \in 1 .. GenCount : Gen(i).id \in Nat /\ Gen(i).after \in Nat
      /\ \A i, j \in 1 .. GenCount :
           i < j => Gen(i).id < Gen(j).id /\ Gen(i).after < Gen(j).after
      /\ active.id # NoId => Latest.after < Latest.id
      /\ GenCount \in 1 .. GenCount /\ Latest = Gen(GenCount)
  BY GenOrder, GenFacts DEF GroupInv
<1>4. \A i \in 1 .. GenCount : Gen(i).id <= Latest.id /\ (active.id # NoId => Gen(i).id # NoId)
  BY GenIds
<1>5. /\ journal.id = job.snap.id /\ journal.id # NoId
      /\ journal.head = job.snap.head /\ journal.tail = job.snap.tail
      /\ retired = <<>>
      /\ Chained(Link, Owned(journal.id), journal.head, journal.tail)
      /\ last < job.snap.id /\ Latest.id < journal.id
  BY BuildingEnds
<1>6. inc \in Nat /\ job.snap.id = inc - 1 /\ abandoned \in Nat /\ last \in Nat
  BY <1>5 DEF GroupInv, NumbersBehind, GroupTypeOK, OwnerOrNone
<1>7. /\ job.snap.after = last /\ job.left = {}
      /\ \A o \in Incarnation :
           o \in live /\ o > job.before <=>
             \E b \in Block : page[b].id = job.snap.id /\ o \in page[b].roots
  BY DEF GroupInv, JobBuilds, CaptureSound, ShapeSound, Building
<1>8. /\ job'.stage = "recover" /\ job'.then = "end" /\ job'.snap = NoSnapshot
      /\ job'.op = job.op /\ job'.before = job.before /\ job'.left = job.left
  BY <1>1 DEF Published, GroupInv, GroupTypeOK, Job
<1>9. job.op \in {"rebuild", "seal"} /\ (job.op = "rebuild" => job.before = NoOwner)
  BY BuildingWaits DEF Building
<1>10. JobWaits' /\ JobBuilds'
  BY <1>8, <1>9 DEF JobWaits, Waiting, JobBuilds, CaptureSound, ShapeSound, Building
<1>11. journal'.id = NoId
  BY <1>1 DEF NoJournal
<1>12. PagesSound'
  BY <1>1 DEF GroupInv, PagesSound, IsGrouped, Link, FreePages
<1>13. Link' = Link /\ (\A id : Owned(id)' = Owned(id)) /\ \A b : IsGrouped(b)' = IsGrouped(b)
  BY <1>1 DEF Link, Owned, IsGrouped
<1>14. NumbersBehind'
  <2>1. Taken' = 0
    BY <1>8 DEF Taken, NoSnapshot, NewSnapshot
  <2>2. job'.snap.id = NoId
    BY <1>8 DEF NoSnapshot, NewSnapshot
  <2>3. Taken \in Nat
    BY DEF Taken
  <2> HIDE DEF Taken, Latest
  <2>4. inc' - 1 - (Latest').id <= abandoned' + Taken' /\ abandoned' + Taken' < inc'
    BY <1>1, <1>6, <2>1, <2>3 DEF GroupInv, NumbersBehind
  <2> QED BY <1>1, <2>2, <2>4 DEF GroupInv, NumbersBehind
<1> HIDE DEF Gen, GenCount, Latest, Link, Owned, IsGrouped
<1>15. QueueSound'
  <2>1. ASSUME NEW i \in 1 .. Len(retired')
        PROVE  /\ retired'[i].head # NoBlock
               /\ retired'[i].id # NoId /\ retired'[i].id < inc
               /\ \A j \in 1 .. GenCount' : Gen(j)'.id # retired'[i].id
    <3>1. PICK k \in 1 .. GenCount :
           /\ active.id # NoId /\ k > m /\ Gen(k).head # NoBlock
           /\ retired'[i].id = Gen(k).id /\ retired'[i].head = Gen(k).head
      BY <1>2
    <3>2. Gen(k).id \in Nat /\ Gen(k).id < job.snap.id /\ Gen(k).id # NoId
      <4>1. Latest.id \in Nat /\ job.snap.id \in Nat /\ Gen(k).id <= Latest.id /\ Gen(k).id \in Nat
        BY <1>3, <1>4, <1>5, <1>6, FieldTypes DEF GroupInv, OwnerOrNone
      <4> QED BY <1>4, <1>5, <3>1, <4>1
    <3>3. ASSUME NEW j \in 1 .. GenCount' PROVE Gen(j)'.id # Gen(k).id
      <4>1. CASE j = m + 1
        BY <1>1, <3>2, <4>1
      <4>2. CASE j # m + 1
        <5>1. j \in 1 .. m /\ j \in 1 .. GenCount /\ j < k
          BY <1>1, <1>3, <3>1, <4>2
        <5>2. Gen(j).id < Gen(k).id /\ Gen(j).id \in Nat
          BY <1>3, <5>1
        <5> QED BY <1>1, <3>2, <5>1, <5>2
      <4> QED BY <4>1, <4>2
    <3>4. Gen(k).id < inc
      BY <1>6, <3>2
    <3> QED BY <3>1, <3>2, <3>3, <3>4
  <2>2. journal' = NoJournal
    BY <1>1
  <2> QED BY <1>1, <1>2, <1>11, <2>1, <2>2 DEF QueueSound
<1>16. ChainsSound'
  <2>1. active.id # NoId =>
          \A i \in 1 .. GenCount : Chained(Link, Owned(Gen(i).id), Gen(i).head, Gen(i).tail)
    BY DEF GroupInv, ChainsSound
  <2>2. \A i \in 1 .. Len(retired') :
          Chained(Link', Owned(retired[i].id)', retired'[i].head, retired'[i].tail)
    BY <1>2, <1>13, <2>1
  <2>3. \A i \in 1 .. GenCount' : Chained(Link', Owned(Gen(i).id)', Gen(i)'.head, Gen(i)'.tail)
    <3> SUFFICES ASSUME NEW i \in 1 .. GenCount'
                 PROVE  Chained(Link', Owned(Gen(i).id)', Gen(i)'.head, Gen(i)'.tail)
      OBVIOUS
    <3>1. CASE i = m + 1
      BY <1>1, <1>5, <1>13, <3>1
    <3>2. CASE i # m + 1
      <4>1. i \in 1 .. m /\ i \in 1 .. GenCount /\ active.id # NoId
        BY <1>1, <1>3, <3>2
      <4> QED BY <1>1, <1>13, <2>1, <4>1
    <3> QED BY <3>1, <3>2
  <2>4. ASSUME NEW b \in Block, IsGrouped(b)
        PROVE  \/ \E i \in 1 .. GenCount' : page[b].id = Gen(i)'.id
               \/ \E i \in 1 .. Len(retired') : page[b].id = retired'[i].id
    <3>1. page[b].id # NoId
      BY <2>4 DEF GroupInv, PagesSound
    <3>2. \/ page[b].id = journal.id
          \/ \E i \in 1 .. GenCount : page[b].id = Gen(i).id
      <4>1. Len(retired) = 0
        BY <1>5
      <4> QED BY <2>4, <4>1 DEF GroupInv, ChainsSound
    <3>3. CASE page[b].id = journal.id
      <4>1. m + 1 \in 1 .. GenCount'
        BY <1>1, <1>3
      <4> QED BY <1>1, <1>5, <3>3, <4>1
    <3>4. ASSUME NEW i \in 1 .. GenCount, page[b].id = Gen(i).id
          PROVE  \/ \E j \in 1 .. GenCount' : page[b].id = Gen(j)'.id
                 \/ \E j \in 1 .. Len(retired') : page[b].id = retired'[j].id
      <4>1. CASE i <= m
        <5>1. i \in 1 .. m /\ i \in 1 .. GenCount'
          BY <1>1, <1>3, <4>1
        <5> QED BY <1>1, <3>4, <5>1
      <4>2. CASE i > m
        <5>1. active.id # NoId
          BY <3>1, <3>4, GenIds
        <5>2. b \in Owned(Gen(i).id) /\ 0 \notin Owned(Gen(i).id)
          BY <3>4 DEF Owned, Block
        <5>3. Gen(i).head # NoBlock
          BY <2>1, <5>1, <5>2, ChainedFacts DEF NoBlock
        <5> QED BY <1>2, <3>4, <4>2, <5>1, <5>3
      <4> QED BY <1>1, <1>3, <4>1, <4>2
    <3> QED BY <3>2, <3>3, <3>4
  <2>5. \A b \in Block : IsGrouped(b)' =>
           \/ \E i \in 1 .. GenCount' : page'[b].id = Gen(i)'.id
           \/ \E i \in 1 .. Len(retired') : page'[b].id = retired'[i].id
    BY <1>1, <1>13, <2>4
  <2> QED BY <1>11, <2>2, <2>3, <2>5 DEF ChainsSound
<1>17. CoverSound'
  <2>1. \A o \in live : o \in Incarnation /\ o \in Nat /\ o > 0 /\ o <= last
    BY DEF GroupInv, GroupTypeOK, NumbersBehind, Incarnation
  <2>2. ASSUME NEW i \in 1 .. GenCount', NEW b \in Block, page[b].id = Gen(i)'.id,
               NEW o \in page[b].roots
        PROVE  /\ o \in live /\ o <= Gen(i)'.after
               /\ i > 1 => o > Gen(i - 1)'.after
    <3>1. CASE i = m + 1
      <4>1. o \in Incarnation /\ page[b].id = job.snap.id
        BY <1>1, <2>2, <3>1, FieldTypes DEF GroupInv
      <4>2. o \in live /\ o > job.before
        BY <1>7, <2>2, <4>1
      <4>3. o <= Gen(i)'.after
        BY <1>1, <1>7, <2>1, <3>1, <4>2
      <4>4. i > 1 => m # 0 /\ i - 1 = m /\ i - 1 \in 1 .. m
        BY <1>1, <1>3, <3>1
      <4> QED BY <1>1, <4>2, <4>3, <4>4
    <3>2. CASE i # m + 1
      <4>1. /\ i \in 1 .. m /\ i \in 1 .. GenCount /\ active.id # NoId
            /\ i > 1 => i - 1 \in 1 .. m
        BY <1>1, <1>3, <3>2
      <4>2. Gen(i)' = Gen(i) /\ (i > 1 => Gen(i - 1)' = Gen(i - 1))
        BY <1>1, <4>1
      <4> QED BY <2>2, <4>1, <4>2 DEF GroupInv, CoverSound
    <3> QED BY <3>1, <3>2
  <2>3. ASSUME NEW o \in live \ dead
        PROVE  \E i \in 1 .. GenCount' : \E b \in Block : page[b].id = Gen(i)'.id /\ o \in page[b].roots
    <3>0. job.before \in Nat
      BY <1>1, <1>3 DEF NoOwner
    <3>1. CASE o > job.before
      <4>1. PICK b \in Block : page[b].id = job.snap.id /\ o \in page[b].roots
        BY <1>7, <2>1, <2>3, <3>1
      <4>2. m + 1 \in 1 .. GenCount'
        BY <1>1, <1>3
      <4> QED BY <1>1, <4>1, <4>2
    <3>2. CASE ~(o > job.before)
      <4>1. m # 0 /\ m \in 1 .. GenCount /\ active.id # NoId /\ o <= Gen(m).after
        BY <1>1, <1>3, <2>1, <2>3, <3>0, <3>2 DEF NoOwner
      <4>2. Gen(m).after <= Latest.after
        <5>1. m = GenCount \/ m < GenCount
          BY <1>3, <4>1
        <5>2. Gen(m).after = Latest.after \/ Gen(m).after < Latest.after
          BY <1>3, <4>1, <5>1
        <5> QED BY <1>3, <4>1, <5>2
      <4>3. ~(o > Latest.id)
        BY <1>3, <2>1, <2>3, <4>1, <4>2
      <4>4. PICK i \in 1 .. GenCount : \E b \in Block : page[b].id = Gen(i).id /\ o \in page[b].roots
        BY <2>3, <4>1, <4>3 DEF GroupInv, CoverSound
      <4>5. PICK b \in Block : page[b].id = Gen(i).id /\ o \in page[b].roots
        BY <4>4
      <4>6. i > 1 => o > Gen(i - 1).after
        BY <4>1, <4>5 DEF GroupInv, CoverSound
      <4>7. i <= m
        <5> SUFFICES ASSUME i > m PROVE FALSE
          BY <1>1, <1>3
        <5>1. i > 1 /\ i - 1 \in 1 .. GenCount /\ (i - 1 = m \/ m < i - 1)
          BY <1>3, <4>1
        <5>2. Gen(i - 1).after >= Gen(m).after
          BY <1>3, <4>1, <5>1
        <5> QED BY <1>3, <2>1, <2>3, <4>1, <4>6, <5>1, <5>2
      <4>8. i \in 1 .. m /\ i \in 1 .. GenCount'
        BY <1>1, <1>3, <4>7
      <4> QED BY <1>1, <4>5, <4>8
    <3> QED BY <3>1, <3>2
  <2> QED BY <1>1, <2>2, <2>3 DEF CoverSound
<1> QED BY <1>10, <1>12, <1>14, <1>15, <1>16, <1>17

(* The identity of a build is above all that is published. *)
LEMMA PublishIds ==
  ASSUME GroupInv, job.stage = "publish"
  PROVE  /\ job.snap \in Snapshot /\ job.snap.id \in Nat /\ job.snap.id # NoId
         /\ inc \in Nat /\ job.snap.id < inc /\ last \in Nat /\ job.snap.after = last
         /\ \A i \in 1 .. GenCount : Gen(i).id < job.snap.id
         /\ SnapshotValid(job.snap, job.op = "rebuild")
         /\ \A o \in published \cup {last} : o <= last
<1>1. /\ journal.id = job.snap.id /\ journal.id # NoId /\ Latest.id < journal.id
  BY BuildingEnds
<1>2. job.snap \in Snapshot /\ job.snap.id \in Nat /\ inc \in Nat /\ last \in Nat
  BY FieldTypes DEF GroupInv, GroupTypeOK, OwnerOrNone
<1>3. job.snap.id = inc - 1 /\ \A o \in published : o <= last
  BY <1>1 DEF GroupInv, NumbersBehind
<1>4. job.snap.after = last /\ SnapshotValid(job.snap, job.op = "rebuild")
  BY DEF GroupInv, JobBuilds, CaptureSound, ShapeSound, Building
<1>5. \A i \in 1 .. GenCount : Gen(i).id \in Nat /\ Gen(i).id <= Latest.id
  BY GenIds
<1>6. Latest.id \in Nat
  BY GenFacts DEF GroupInv, Snapshot, OwnerOrNone
<1> HIDE DEF Gen, GenCount, Latest, SnapshotValid
<1>7. \A i \in 1 .. GenCount : Gen(i).id < job.snap.id
  BY <1>1, <1>2, <1>5, <1>6
<1> QED BY <1>1, <1>2, <1>3, <1>4, <1>7

(* Publish: the new generation covers what all the old ones did. *)
LEMMA PublishStep ==
  ASSUME GroupInv, Publish
  PROVE  /\ NumbersBehind' /\ PagesSound' /\ StackSound' /\ QueueSound'
         /\ ChainsSound' /\ CoverSound' /\ JobWaits' /\ JobBuilds'
<1> USE DEF canonical, pages
<1> DEFINE q == IF active.id = NoId THEN <<>> ELSE Generations
<1>1. /\ job.stage = "publish" /\ job.op = "rebuild" /\ retired' = Retiring(q)
      /\ active' = job.snap /\ deltas' = <<>> /\ journal' = NoJournal /\ job' = Published
      /\ UNCHANGED <<inc, last, published, live, dead, page, size, free, abandoned>>
  BY DEF Publish
<1>2. /\ job.snap.id # NoId /\ job.snap.id < inc /\ last \in Nat /\ job.snap.after = last
      /\ SnapshotValid(job.snap, job.op = "rebuild")
      /\ \A o \in published \cup {last} : o <= last
  BY <1>1, PublishIds
<1>3. job.before = NoOwner
  BY <1>1 DEF GroupInv, JobWaits
<1>4. DeltaCount' = 0 /\ GenCount' = 1 /\ Latest' = job.snap /\ Gen(1)' = job.snap
  BY <1>1 DEF DeltaCount, GenCount, Latest, Gen
<1>5. /\ GenCount \in Nat /\ Generations \in Seq(Snapshot) /\ Len(Generations) = GenCount
      /\ \A i \in 1 .. GenCount : Generations[i] = Gen(i)
  BY GenFacts, GenerationsAre DEF GroupInv
<1>6. /\ q \in Seq(Snapshot) /\ Len(q) = IF active.id = NoId THEN 0 ELSE GenCount - 0
      /\ \A i \in 1 .. Len(q) : q[i] = Gen(0 + i)
  <2> HIDE DEF Gen, GenCount, Generations
  <2>1. CASE active.id = NoId
    BY <2>1
  <2>2. CASE active.id # NoId
    BY <1>5, <2>2
  <2> QED BY <2>1, <2>2
<1> HIDE DEF q
<1>7. Republishes(0, q)
  <2>1. 0 \in 0 .. GenCount
    BY <1>5
  <2> HIDE DEF Gen, GenCount, Latest, Published, NoJournal
  <2> QED BY <1>1, <1>2, <1>3, <1>4, <1>6, <2>1 DEF Republishes
<1>8. StackSound'
  <2>1. SnapshotValid(active', TRUE)
    <3>1. (job.op = "rebuild") = TRUE
      BY <1>1
    <3> QED BY <1>1, <1>2, <3>1
  <2>2. SnapshotValid(active, TRUE)'
    BY <2>1 DEF SnapshotValid
  <2>3. (Latest').id < inc' /\ (Latest').after <= last'
    BY <1>1, <1>2, <1>4
  <2>4. \A o \in published' \cup {last'} : o <= (Latest').after
    BY <1>1, <1>2, <1>4
  <2> HIDE DEF Gen, GenCount, Latest, SnapshotValid, DeltaCount
  <2>5. (\A i \in 1 .. DeltaCount' : FALSE) /\ \A i, j \in 1 .. GenCount' : ~(i < j)
    BY <1>4
  <2> QED BY <1>1, <1>2, <2>2, <2>3, <2>4, <2>5 DEF StackSound
<1> QED BY <1>1, <1>7, <1>8, RepublishStore

(* PublishDelta: the deltas below the fence keep their slots. *)
LEMMA PublishDeltaStep ==
  ASSUME GroupInv, PublishDelta
  PROVE  /\ NumbersBehind' /\ PagesSound' /\ StackSound' /\ QueueSound'
         /\ ChainsSound' /\ CoverSound' /\ JobWaits' /\ JobBuilds'
<1> USE DEF canonical, pages
<1> DEFINE q == [i \in 1 .. (DeltaCount - job.from) |-> deltas[job.from + i].snap]
           new == [snap |-> job.snap, before |-> job.before, level |-> job.level]
<1>1. /\ job.stage = "publish" /\ job.op = "seal" /\ retired' = Retiring(q)
      /\ active.id # NoId /\ active' = active /\ journal' = NoJournal /\ job' = Published
      /\ deltas' = Append(SubSeq(deltas, 1, job.from), new)
      /\ UNCHANGED <<inc, last, published, live, dead, page, size, free, abandoned>>
  BY DEF PublishDelta
<1>2. /\ job.snap \in Snapshot /\ job.snap.id \in Nat
      /\ job.snap.id # NoId /\ job.snap.id < inc /\ last \in Nat /\ job.snap.after = last
      /\ SnapshotValid(job.snap, job.op = "rebuild")
      /\ \A i \in 1 .. GenCount : Gen(i).id < job.snap.id
      /\ \A o \in published \cup {last} : o <= last
  BY <1>1, PublishIds
<1>3. PICK f \in Nat : f = job.from
  BY DEF GroupInv, GroupTypeOK, Job
<1>4. /\ f <= DeltaCount /\ job.level < Segments
      /\ job.before = Gen(f + 1).after /\ job.before < last
      /\ f > 0 => deltas[f].level > job.level
      /\ job.level \in Nat
  BY <1>1, <1>3 DEF GroupInv, JobBuilds, CaptureSound, Building, GroupTypeOK, Job
<1>5. /\ DeltaCount \in Nat /\ GenCount = DeltaCount + 1
      /\ \A i \in 1 .. DeltaCount : deltas[i] \in Delta /\ Gen(i + 1) = deltas[i].snap
                                    /\ deltas[i].level \in Nat
      /\ deltas \in Seq(Delta)
  BY GenFacts DEF GroupInv, GroupTypeOK, Delta
<1>6. /\ Len(deltas') = f + 1
      /\ \A i \in 1 .. f : deltas'[i] = deltas[i] /\ i \in 1 .. DeltaCount
      /\ deltas'[f + 1] = new
  <2>1. /\ Len(SubSeq(deltas, 1, f)) = f /\ SubSeq(deltas, 1, f) \in Seq(Delta)
        /\ \A i \in 1 .. f : SubSeq(deltas, 1, f)[i] = deltas[i] /\ i \in 1 .. DeltaCount
    BY <1>4, <1>5 DEF DeltaCount
  <2> HIDE DEF new
  <2>2. PICK s \in Seq(Delta) : s = SubSeq(deltas, 1, f)
    BY <2>1
  <2>3. Len(s) = f /\ deltas' = Append(s, new) /\ \A i \in 1 .. f : s[i] = deltas[i]
    BY <1>1, <1>3, <2>1, <2>2
  <2> QED BY <2>1, <2>2, <2>3
<1>7. new.snap = job.snap /\ new.before = job.before /\ new.level = job.level
  OBVIOUS
<1> HIDE DEF new
<1>8. DeltaCount' = f + 1 /\ GenCount' = f + 2
  BY <1>6 DEF DeltaCount, GenCount
<1>9. /\ \A i \in 1 .. (f + 1) : Gen(i)' = Gen(i) /\ i \in 1 .. GenCount
      /\ Gen(f + 2)' = job.snap /\ Latest' = job.snap
  <2>1. ASSUME NEW i \in 1 .. (f + 1) PROVE Gen(i)' = Gen(i) /\ i \in 1 .. GenCount
    <3>1. i \in 1 .. GenCount
      BY <1>4, <1>5
    <3>2. CASE i = 1
      BY <1>1, <3>1, <3>2 DEF Gen
    <3>3. CASE i # 1
      <4>1. i - 1 \in 1 .. f
        BY <3>3
      <4> QED BY <1>6, <3>1, <3>3, <4>1 DEF Gen
    <3> QED BY <3>2, <3>3
  <2>2. Gen(f + 2)' = job.snap
    <3>1. f + 2 # 1 /\ (f + 2) - 1 = f + 1
      OBVIOUS
    <3>2. Gen(f + 2)' = deltas'[(f + 2) - 1].snap
      BY <3>1 DEF Gen
    <3> QED BY <1>6, <1>7, <3>1, <3>2
  <2>3. Latest' = job.snap
    <3>1. deltas' # <<>>
      BY <1>6
    <3>2. Latest' = deltas'[DeltaCount'].snap
      BY <3>1 DEF Latest
    <3> QED BY <1>6, <1>7, <1>8, <3>2
  <2> QED BY <2>1, <2>2, <2>3
<1>10. /\ q \in Seq(Snapshot) /\ Len(q) = GenCount - (f + 1)
       /\ \A i \in 1 .. Len(q) : q[i] = Gen((f + 1) + i)
  <2>1. DeltaCount - f \in Nat /\ GenCount - (f + 1) = DeltaCount - f
    BY <1>4, <1>5
  <2>2. ASSUME NEW i \in 1 .. (DeltaCount - f)
        PROVE  deltas[f + i].snap \in Snapshot /\ Gen((f + 1) + i) = deltas[f + i].snap
    <3>1. f + i \in 1 .. DeltaCount /\ (f + 1) + i = (f + i) + 1
      BY <1>5, <2>1
    <3>2. Gen((f + i) + 1) = deltas[f + i].snap /\ deltas[f + i] \in Delta
      BY <1>5, <3>1
    <3> QED BY <3>1, <3>2 DEF Delta
  <2> HIDE DEF Gen, GenCount, DeltaCount
  <2>3. q = [i \in 1 .. (DeltaCount - f) |-> deltas[f + i].snap]
    BY <1>3
  <2> HIDE DEF q
  <2>4. q \in Seq(Snapshot) /\ Len(q) = DeltaCount - f
    BY <2>1, <2>2, <2>3
  <2> QED BY <2>1, <2>2, <2>3, <2>4
<1> HIDE DEF q
<1>11. Republishes(f + 1, q)
  <2>1. f + 1 \in 0 .. GenCount /\ f + 1 # 0 /\ (f + 1) + 1 = f + 2
    BY <1>4, <1>5
  <2>2. GenCount' = (f + 1) + 1 /\ Gen((f + 1) + 1)' = job.snap
    BY <1>8, <1>9, <2>1
  <2> HIDE DEF Gen, GenCount, Latest, Published, NoJournal, DeltaCount
  <2> QED BY <1>1, <1>4, <1>9, <1>10, <2>1, <2>2 DEF Republishes
<1>12. StackSound'
  <2>1. /\ \A i \in 1 .. GenCount : Gen(i).id \in Nat /\ Gen(i).after \in Nat
        /\ \A i, j \in 1 .. GenCount :
              i < j => Gen(i).id < Gen(j).id /\ Gen(i).after < Gen(j).after
    BY GenOrder
  <2>2. /\ SnapshotValid(active, TRUE)
        /\ \A i \in 1 .. DeltaCount : /\ SnapshotValid(deltas[i].snap, FALSE)
                                      /\ deltas[i].level < Segments
                                      /\ deltas[i].before = Gen(i).after
        /\ \A i, j \in 1 .. DeltaCount : i < j => deltas[i].level >= deltas[j].level + (j - i)
    BY <1>1 DEF GroupInv, StackSound
  <2>3. SnapshotValid(job.snap, FALSE)
    <3>1. (job.op = "rebuild") = FALSE
      BY <1>1
    <3> QED BY <1>2, <3>1
  <2> HIDE DEF Gen, GenCount, DeltaCount, Latest
  <2>4. ASSUME NEW i \in 1 .. (f + 1)
        PROVE  /\ SnapshotValid(deltas'[i].snap, FALSE)
               /\ deltas'[i].level < Segments
               /\ deltas'[i].before = Gen(i)'.after
    <3>1. CASE i = f + 1
      BY <1>4, <1>6, <1>7, <1>9, <2>3, <3>1
    <3>2. CASE i # f + 1
      <4>1. i \in 1 .. f
        BY <3>2
      <4>2. i \in 1 .. DeltaCount /\ deltas'[i] = deltas[i] /\ Gen(i)' = Gen(i)
        BY <1>6, <1>9, <4>1
      <4> QED BY <2>2, <4>2
    <3> QED BY <3>1, <3>2
  <2>5. ASSUME NEW i \in 1 .. (f + 2), NEW j \in 1 .. (f + 2), i < j
        PROVE  Gen(i)'.id < Gen(j)'.id /\ Gen(i)'.after < Gen(j)'.after
    <3>1. i \in 1 .. (f + 1) /\ f + 1 \in 1 .. (f + 1)
      BY <2>5
    <3>2. CASE j = f + 2
      <4>1. Gen(i).id < job.snap.id
        BY <1>2, <1>9, <3>1
      <4>2. Gen(i).after <= Gen(f + 1).after
        <5>1. i = f + 1 \/ i < f + 1
          BY <3>1
        <5>2. i \in 1 .. GenCount /\ f + 1 \in 1 .. GenCount
          BY <1>9, <3>1
        <5>3. Gen(i).after = Gen(f + 1).after \/ Gen(i).after < Gen(f + 1).after
          BY <2>1, <5>1, <5>2
        <5> QED BY <2>1, <5>2, <5>3
      <4>3. Gen(i).after \in Nat /\ Gen(f + 1).after \in Nat
        BY <1>9, <2>1, <3>1
      <4>4. Gen(i).after < job.snap.after
        BY <1>2, <1>4, <4>2, <4>3
      <4> QED BY <1>9, <3>1, <3>2, <4>1, <4>4
    <3>3. CASE j # f + 2
      <4>1. j \in 1 .. (f + 1)
        BY <3>3
      <4> QED BY <1>9, <2>1, <2>5, <3>1, <4>1
    <3> QED BY <3>2, <3>3
  <2>6. ASSUME NEW i \in 1 .. (f + 1), NEW j \in 1 .. (f + 1), i < j
        PROVE  deltas'[i].level >= deltas'[j].level + (j - i)
    <3>1. i \in 1 .. f /\ f > 0 /\ f \in 1 .. f
      BY <2>6
    <3>2. deltas'[i] = deltas[i] /\ i \in 1 .. DeltaCount /\ f \in 1 .. DeltaCount
      BY <1>6, <3>1
    <3>3. CASE j = f + 1
      <4>0. deltas[f].level \in Nat /\ deltas[i].level \in Nat
        BY <1>5, <3>2
      <4>1. deltas[f].level >= job.level + 1
        <5>1. deltas[f].level > job.level /\ job.level \in Nat
          BY <1>4, <3>1
        <5> QED BY <4>0, <5>1
      <4>2. deltas[i].level >= deltas[f].level + (f - i)
        <5>1. CASE i = f
          BY <4>0, <5>1
        <5>2. CASE i # f
          <6>1. i < f
            BY <3>1, <5>2
          <6> QED BY <2>2, <3>2, <6>1
        <5> QED BY <5>1, <5>2
      <4>3. deltas'[j].level = job.level
        BY <1>6, <1>7, <3>3
      <4> QED BY <1>4, <3>1, <3>2, <3>3, <4>0, <4>1, <4>2, <4>3
    <3>4. CASE j # f + 1
      <4>1. j \in 1 .. f
        BY <3>4
      <4>2. deltas'[j] = deltas[j] /\ j \in 1 .. DeltaCount
        BY <1>6, <4>1
      <4> QED BY <2>2, <2>6, <3>2, <4>2
    <3> QED BY <3>3, <3>4
  <2>7. (Latest').id < inc' /\ (Latest').after <= last'
    BY <1>1, <1>2, <1>9
  <2>8. \A o \in published' \cup {last'} : o <= (Latest').after
    BY <1>1, <1>2, <1>9
  <2>9. SnapshotValid(active, TRUE)' /\ \A i \in 1 .. (f + 1) : SnapshotValid(deltas[i].snap, FALSE)'
    BY <1>1, <2>2, <2>4 DEF SnapshotValid
  <2> HIDE DEF SnapshotValid
  <2> QED BY <1>1, <1>8, <2>4, <2>5, <2>6, <2>7, <2>8, <2>9 DEF StackSound
<1> QED BY <1>1, <1>11, <1>12, RepublishStore

-----------------------------------------------------------------------------
(* The invariant *)

(* A new index satisfies it. *)
LEMMA GroupInvInit == Init => GroupInv
<1> SUFFICES ASSUME Init PROVE GroupInv
  OBVIOUS
<1> USE DEF Init
<1>1. GroupTypeOK
  BY PageTypes, GroupBoundAssumption
     DEF GroupTypeOK, OwnerOrNone, NoOwner, BlockOrNone, NoBlock
<1>2. /\ DeltaCount = 0 /\ GenCount = 1 /\ Latest = NoSnapshot /\ Gen(1) = NoSnapshot
      /\ NoSnapshot.id = NoId /\ NoSnapshot.after = NoOwner
      /\ NoJob.snap = NoSnapshot
  BY DEF DeltaCount, GenCount, Latest, Gen, NoSnapshot, NewSnapshot, NoJob
<1>3. \A b \in Block : /\ page[b].kind = "None" /\ page[b].id = NoId /\ page[b].roots = {}
                       /\ ~IsGrouped(b)
  BY DEF NoPage, NewPage, IsGrouped
<1>4. NumbersBehind
  BY <1>2, <1>3 DEF NumbersBehind, Taken, NoId, NoOwner
<1>5. PagesSound
  <2>1. FreePages = {}
    BY <1>3 DEF FreePages
  <2>2. Chained(Link, FreePages, free, 0)
    BY <2>1, ChainedEmpty DEF NoBlock
  <2>3. 0 \in BlockOrNone
    BY GroupBoundAssumption DEF BlockOrNone
  <2> QED BY <1>3, <2>2, <2>3 DEF PagesSound
<1>6. StackSound
  BY <1>2 DEF StackSound, NoId, NoOwner
<1>7. QueueSound
  BY SegmentsAssumption DEF QueueSound, NoJournal
<1>8. ChainsSound
  BY <1>2, <1>3 DEF ChainsSound, NoJournal
<1>9. CoverSound
  BY <1>2 DEF CoverSound
<1>10. JobWaits /\ JobBuilds
  BY DEF JobWaits, JobBuilds, CaptureSound, ShapeSound, NoJob, NoSnapshot, NewSnapshot, Waiting,
         Building
<1> QED BY <1>1, <1>4, <1>5, <1>6, <1>7, <1>8, <1>9, <1>10 DEF GroupInv

(* A step that changes nothing *)
LEMMA StutterStep ==
  ASSUME GroupInv, UNCHANGED vars
  PROVE  /\ NumbersBehind' /\ PagesSound' /\ StackSound' /\ QueueSound'
         /\ ChainsSound' /\ CoverSound' /\ JobWaits' /\ JobBuilds'
<1> USE DEF vars
<1>1. PagesSound' /\ StackSound' /\ QueueSound' /\ ChainsSound' /\ CoverSound' /\ NumbersBehind'
  BY StoreFrame, CoverFrame, NumbersFrame
<1>2. JobWaits'
  BY DEF GroupInv, JobWaits, Waiting, GenCount, DeltaCount, Gen, Latest
<1>3. JobBuilds'
  BY DEF GroupInv, JobBuilds, CaptureSound, ShapeSound, Building, DeltaCount, Gen, SnapshotValid
<1> QED BY <1>1, <1>2, <1>3

(* Every action keeps it. *)
LEMMA GroupInvStep == GroupInv /\ [Next]_vars => GroupInv'
<1> SUFFICES ASSUME GroupInv, [Next]_vars
             PROVE  GroupInv'
  OBVIOUS
<1>1. GroupTypeOK'
  BY TypeStep
<1> DEFINE Rest == /\ NumbersBehind' /\ PagesSound' /\ StackSound' /\ QueueSound'
                   /\ ChainsSound' /\ CoverSound' /\ JobWaits' /\ JobBuilds'
<1> SUFFICES Rest
  BY <1>1 DEF GroupInv
<1>2. CASE \E completes \in BOOLEAN : Insert(completes)
  BY <1>2, InsertStep
<1>3. CASE \E o \in live : HeapDelete(o)
  BY <1>3, HeapDeleteStep
<1>4. CASE Invalidate
  BY <1>4, InvalidateStep
<1>5. CASE MaintainBegin \/ MaintainSkipped \/ CleanupBegin \/ VacuumBegin
  BY <1>5, BeginStep
<1>6. CASE Recover
  BY <1>6, RecoverEmptyStep, RecoverJournalStep, RecoverRetiredStep, RecoverDoneStep DEF Recover
<1>7. CASE CaptureAll \/ CaptureDelta \/ Begin \/ Extend
  BY <1>7, CaptureAllStep, CaptureDeltaStep, BeginBuildStep, ExtendStep
<1>8. CASE \E g \in 0 .. (HeapGroups - 1) : WriteGroup(g)
  BY <1>8, WriteGroupStep
<1>9. CASE FinishCatalog \/ FinishEmpty \/ FinishAnchors \/ FinishNoAnchors
  BY <1>9, FinishCatalogStep, FinishEmptyStep, FinishAnchorsStep, FinishNoAnchorsStep
<1>10. CASE Publish \/ PublishDelta
  BY <1>10, PublishStep, PublishDeltaStep
<1>11. CASE OutOfSpace \/ SealRefused \/ Interrupt
  BY <1>11, EndedStep DEF OutOfSpace, SealRefused, Interrupt
<1>12. CASE Vacuum
  <2>1. CASE \E b \in Block : RetireRecord(b) \/ ReclaimZero(b)
    BY <2>1, RetireRecordStep, ReclaimZeroStep
  <2>2. CASE RetireDone \/ VacuumEnd
    BY <2>2, RetireDoneStep, VacuumEndStep
  <2>3. CASE \E gone \in SUBSET (live \cap job.left) : RemoveOwners(gone)
    BY <2>3, RemoveOwnersStep
  <2> QED BY <1>12, <2>1, <2>2, <2>3 DEF Vacuum
<1>13. CASE UNCHANGED vars
  BY <1>13, StutterStep
<1> QED BY <1>2, <1>3, <1>4, <1>5, <1>6, <1>7, <1>8, <1>9, <1>10, <1>11, <1>12, <1>13
        DEF Next, Step, Build

(* GroupInv holds in every behaviour of the grouped store. *)
THEOREM GroupInvAlways == Spec => []GroupInv
BY GroupInvInit, GroupInvStep, PTL DEF Spec

-----------------------------------------------------------------------------
(* What it implies *)

(* Both ends of a named chain are present or absent together. *)
LEMMA JournalEnds ==
  ASSUME GroupInv
  PROVE  /\ (journal.head = NoBlock) = (journal.tail = NoBlock) /\ journal.id < inc
         /\ \A i \in 1 .. Len(retired) : retired[i].tail # NoBlock
<1>0. inc > 0
  BY DEF GroupInv, GroupTypeOK
<1>1. \A id : 0 \notin Owned(id)
  BY DEF Owned, Block
<1>2. CASE journal.id = NoId
  <2>1. journal.head = NoBlock /\ journal.tail = NoBlock /\ Len(retired) \in Nat
    BY <1>2 DEF GroupInv, QueueSound, NoJournal, GroupTypeOK
  <2>2. ASSUME NEW i \in 1 .. Len(retired) PROVE retired[i].tail # NoBlock
    <3>1. /\ Chained(Link, Owned(retired[i].id), retired[i].head, retired[i].tail)
          /\ retired[i].head # NoBlock
      BY DEF GroupInv, ChainsSound, QueueSound
    <3> HIDE DEF Owned, Link
    <3> QED BY <1>1, <3>1, ChainedFacts DEF NoBlock
  <2> QED BY <1>0, <1>2, <2>1, <2>2 DEF NoId
<1>3. CASE journal.id # NoId
  <2>1. /\ Chained(Link, Owned(journal.id), journal.head, journal.tail)
        /\ retired = <<>> /\ journal.id < inc
    BY <1>3 DEF GroupInv, ChainsSound, QueueSound
  <2>2. (journal.head = NoBlock) = (journal.tail = NoBlock)
    <3> HIDE DEF Owned, Link
    <3> QED BY <1>1, <2>1, ChainedFacts DEF NoBlock
  <2> QED BY <2>1, <2>2
<1> QED BY <1>2, <1>3

(* GroupState as the page code reads it is valid. *)
LEMMA GroupInvValid == GroupInv => GroupStateValid
<1> SUFFICES ASSUME GroupInv PROVE GroupStateValid
  OBVIOUS
<1>1. DeltaCount \in Nat /\ DeltaCount <= Segments /\ GenCount = DeltaCount + 1
  BY DeltasFit, GenFacts DEF GroupInv
<1>2. \A i \in 1 .. GenCount : Generations[i] = Gen(i)
  BY GenerationsAre DEF GroupInv
<1>3. \A i : FenceBelow(i) = Gen(i)
  BY DEF FenceBelow, Gen
<1>4. /\ active.id # NoId => SnapshotValid(active, TRUE)
      /\ deltas # <<>> => active.id # NoId
      /\ Latest.id < inc
  BY DEF GroupInv, StackSound
<1>5. ASSUME NEW i \in 1 .. DeltaCount PROVE DeltaValid(i)
  <2>1. /\ SnapshotValid(deltas[i].snap, FALSE) /\ deltas[i].level < Segments
        /\ deltas[i].before = Gen(i).after
    BY DEF GroupInv, StackSound
  <2>2. /\ i \in 1 .. GenCount /\ i + 1 \in 1 .. GenCount /\ i < i + 1
        /\ Gen(i + 1) = deltas[i].snap
    BY <1>1, GenFacts DEF GroupInv
  <2>3. Gen(i).id < deltas[i].snap.id /\ Gen(i).after < deltas[i].snap.after
    <3>1. Gen(i).id < Gen(i + 1).id /\ Gen(i).after < Gen(i + 1).after
      BY <2>2, GenOrder
    <3> QED BY <2>2, <3>1
  <2>4. i > 1 => deltas[i - 1].level > deltas[i].level
    <3> SUFFICES ASSUME i > 1 PROVE deltas[i - 1].level > deltas[i].level
      OBVIOUS
    <3>1. i - 1 \in 1 .. DeltaCount /\ i - 1 < i /\ i - (i - 1) = 1
      BY <1>1
    <3>2. deltas[i - 1].level >= deltas[i].level + (i - (i - 1))
      BY <3>1 DEF GroupInv, StackSound
    <3>3. deltas[i - 1].level \in Nat /\ deltas[i].level \in Nat
      BY <3>1, GenFacts DEF GroupInv, Delta
    <3> QED BY <3>1, <3>2, <3>3
  <2> HIDE DEF Gen, SnapshotValid, FenceBelow
  <2> QED BY <1>3, <2>1, <2>3, <2>4 DEF DeltaValid
<1>6. /\ Len(retired) <= Segments + 1
      /\ journal.id # NoId => Latest.id < journal.id /\ retired = <<>>
      /\ \A i \in 1 .. Len(retired) :
           /\ retired[i].head # NoBlock /\ retired[i].id # NoId /\ retired[i].id < inc
           /\ \A j \in 1 .. GenCount : Gen(j).id # retired[i].id
  BY DEF GroupInv, QueueSound
<1>7. \A i \in 1 .. Len(retired) : retired[i].id # journal.id
  <2>1. CASE journal.id = NoId
    BY <1>6, <2>1
  <2>2. CASE journal.id # NoId
    <3>1. Len(retired) = 0
      BY <1>6, <2>2
    <3> QED BY <3>1
  <2> QED BY <2>1, <2>2
<1>8. /\ (journal.head = NoBlock) = (journal.tail = NoBlock) /\ journal.id < inc
      /\ \A i \in 1 .. Len(retired) : retired[i].tail # NoBlock
  BY JournalEnds
<1> HIDE DEF Gen, GenCount, Latest, DeltaCount, DeltaValid, SnapshotValid, Generations
<1> QED BY <1>1, <1>2, <1>4, <1>5, <1>6, <1>7, <1>8 DEF GroupStateValid

(* What Members collects *)
LEMMA MembersAre ==
  ASSUME NEW id, NEW o
  PROVE  o \in Members(id) <=> \E b \in Block : page[b].id = id /\ o \in page[b].roots
BY DEF Members

(* The documents of two generations, or of a generation and the frontier,  *)
(* are in disjoint ranges.                                                 *)
LEMMA RangesApart ==
  ASSUME GroupInv, active.id # NoId, NEW i \in 1 .. GenCount, NEW o \in Members(Gen(i).id)
  PROVE  /\ o \in live /\ o \in Nat /\ ~(o > Latest.id)
         /\ \A j \in 1 .. GenCount : i < j => o \notin Members(Gen(j).id)
<1>1. /\ GenCount \in Nat
      /\ \A k \in 1 .. GenCount : Gen(k).id \in Nat /\ Gen(k).after \in Nat
      /\ \A k, j \in 1 .. GenCount : k < j => Gen(k).after < Gen(j).after
      /\ Latest.after < Latest.id /\ Latest = Gen(GenCount) /\ GenCount \in 1 .. GenCount
  <2>1. GroupTypeOK
    BY DEF GroupInv
  <2>2. GenCount \in Nat /\ GenCount = DeltaCount + 1 /\ DeltaCount \in Nat /\ Latest = Gen(GenCount)
    BY <2>1, GenFacts
  <2>3. GenCount \in 1 .. GenCount
    BY <2>2
  <2> HIDE DEF Gen, GenCount, Latest, GroupInv
  <2> QED BY <2>2, <2>3, GenOrder
<1>2. \A k \in 1 .. GenCount : \A p \in Members(Gen(k).id) :
        /\ p \in live /\ p <= Gen(k).after
        /\ k > 1 => p > Gen(k - 1).after
  <2> HIDE DEF Gen, GenCount, Members
  <2> QED BY MembersAre DEF GroupInv, CoverSound
<1>3. \A p \in live : p \in Nat
  BY DEF GroupInv, GroupTypeOK, Incarnation
<1> HIDE DEF Gen, GenCount, Latest, Members
<1>4. o \in live /\ o \in Nat /\ o <= Gen(i).after
  BY <1>2, <1>3
<1>5. ~(o > Latest.id)
  <2>1. i = GenCount \/ i < GenCount
    BY <1>1
  <2>2. Gen(i).after = Latest.after \/ Gen(i).after < Latest.after
    BY <1>1, <2>1
  <2> QED BY <1>1, <1>4, <2>2
<1>6. ASSUME NEW j \in 1 .. GenCount, i < j, o \in Members(Gen(j).id) PROVE FALSE
  <2>1. j > 1 /\ j - 1 \in 1 .. GenCount /\ (i = j - 1 \/ i < j - 1)
    BY <1>1, <1>6
  <2>2. o > Gen(j - 1).after
    BY <1>2, <1>6, <2>1
  <2>3. Gen(i).after <= Gen(j - 1).after
    BY <1>1, <2>1
  <2> QED BY <1>1, <1>4, <2>1, <2>2, <2>3
<1> QED BY <1>4, <1>5, <1>6

(* A scan finds every document once. *)
LEMMA GroupInvCovers == GroupInv => CoverageExact
<1> SUFFICES ASSUME GroupInv, active.id # NoId
             PROVE  /\ View \subseteq live
                    /\ live \ View \subseteq dead
                    /\ \A i, j \in 1 .. (DeltaCount + 1) :
                         i # j => Members(Generations[i].id) \cap Members(Generations[j].id) = {}
                    /\ \A i \in 1 .. (DeltaCount + 1) : Members(Generations[i].id) \cap Frontier = {}
  BY DEF CoverageExact
<1>1. GenCount = DeltaCount + 1 /\ GenCount \in Nat /\ \A i \in 1 .. GenCount : Generations[i] = Gen(i)
  BY GenerationsAre, GenFacts DEF GroupInv
<1>2. \A o : o \in View <=> \/ o \in live /\ o > Latest.id
                            \/ \E i \in 1 .. GenCount : o \in Members(Gen(i).id)
  <2>1. View = Frontier \cup UNION {Members(Generations[i].id) : i \in 1 .. (DeltaCount + 1)}
    BY DEF View
  <2> HIDE DEF Members, Generations, GenCount, DeltaCount, Latest, Gen
  <2> QED BY <1>1, <2>1 DEF Frontier
<1>3. \A o \in live \ dead : o > Latest.id \/ \E i \in 1 .. GenCount : o \in Members(Gen(i).id)
  <2>1. \A o \in live \ dead :
         \/ o > Latest.id
         \/ \E i \in 1 .. GenCount : \E b \in Block : page[b].id = Gen(i).id /\ o \in page[b].roots
    BY DEF GroupInv, CoverSound
  <2> HIDE DEF Gen, GenCount, Members, Latest
  <2> QED BY <2>1, MembersAre
<1>4. \A i \in 1 .. GenCount : \A o \in Members(Gen(i).id) :
         /\ o \in live /\ ~(o > Latest.id)
         /\ \A j \in 1 .. GenCount : i < j => o \notin Members(Gen(j).id)
  BY RangesApart
<1> HIDE DEF Gen, GenCount, Members, Latest, Generations, DeltaCount, View
<1>5. View \subseteq live /\ live \ View \subseteq dead
  BY <1>2, <1>3, <1>4
<1>6. ASSUME NEW i \in 1 .. GenCount, NEW j \in 1 .. GenCount, i # j
      PROVE  Members(Gen(i).id) \cap Members(Gen(j).id) = {}
  <2>1. i < j \/ j < i
    BY <1>1, <1>6
  <2> QED BY <1>4, <2>1
<1>7. \A i \in 1 .. GenCount : Members(Gen(i).id) \cap Frontier = {}
  BY <1>4 DEF Frontier
<1> QED BY <1>1, <1>5, <1>6, <1>7

(* inspect() accepts a chain that its pages form. *)
LEMMA InspectChain ==
  ASSUME GroupInv, NEW id, NEW h, NEW t,
         \/ id # NoId /\ Chained(Link, Owned(id), h, t)
         \/ h = NoBlock /\ t = NoBlock
  PROVE  Inspect(id, h, t)
<1>1. CASE h = NoBlock
  <2>1. 0 \notin Owned(id)
    BY DEF Owned, Block
  <2>2. t = NoBlock
    <3> HIDE DEF Owned, Link
    <3> QED BY <1>1, <2>1, ChainedFacts DEF NoBlock
  <2> QED BY <1>1, <2>2 DEF Inspect
<1>2. CASE h # NoBlock
  <2> DEFINE c == CHOOSE f : f = [n \in 0 .. MaxBlocks |-> [b \in BlockOrNone |->
                     /\ n > 0 /\ b # NoBlock
                     /\ IsGrouped(b) /\ page[b].id = id
                     /\ IF b = t THEN page[b].next = NoBlock ELSE f[n - 1][page[b].next]]]
             G == {b \in Block : IsGrouped(b) /\ page[b].id = id}
  <2>1. Inspect(id, h, t) = c[MaxBlocks][h]
    BY <1>2 DEF Inspect
  <2>2. MaxBlocks \in Nat
    BY GroupBoundAssumption
  <2>3. Link \in [1 .. MaxBlocks -> 0 .. MaxBlocks]
    BY FieldTypes DEF GroupInv, Link, Block, BlockOrNone
  <2>4. G \in SUBSET (1 .. MaxBlocks)
    BY DEF Block
  <2>5. \A f, n : \A b \in BlockOrNone :
          (/\ n > 0 /\ b # NoBlock /\ IsGrouped(b) /\ page[b].id = id
           /\ IF b = t THEN page[b].next = NoBlock ELSE f[n - 1][page[b].next])
          = (/\ n > 0 /\ b \in G
             /\ IF b = t THEN Link[b] = 0 ELSE f[n - 1][Link[b]])
    <3>1. ASSUME NEW b \in BlockOrNone
          PROVE  /\ (b # NoBlock /\ IsGrouped(b) /\ page[b].id = id) <=> b \in G
                 /\ b \in G => Link[b] = page[b].next
      BY DEF Block, BlockOrNone, NoBlock, Link
    <3> HIDE DEF G, IsGrouped, Link
    <3> USE DEF NoBlock
    <3> QED BY <3>1, Zenon
  <2>6. c = CHOOSE f : IsCheck(f, MaxBlocks, Link, G, t)
    <3> HIDE DEF G, IsGrouped, Link
    <3>1. \A f : (f = [n \in 0 .. MaxBlocks |-> [b \in BlockOrNone |->
                     /\ n > 0 /\ b # NoBlock
                     /\ IsGrouped(b) /\ page[b].id = id
                     /\ IF b = t THEN page[b].next = NoBlock ELSE f[n - 1][page[b].next]]])
                 = IsCheck(f, MaxBlocks, Link, G, t)
      BY <2>5 DEF IsCheck, BlockOrNone
    <3> QED BY <3>1
  <2> HIDE DEF c
  <2>7. IsCheck(c, MaxBlocks, Link, G, t)
    <3>1. \E f : IsCheck(f, MaxBlocks, Link, G, t)
      <4> HIDE DEF Link, G
      <4> QED BY <2>2, <2>3, <2>4, CheckExists
    <3> QED BY <2>6, <3>1
  <2>8. id # NoId /\ Chained(Link, Owned(id), h, t)
    BY <1>2
  <2>9. Owned(id) \subseteq G /\ Owned(id) \in SUBSET (1 .. MaxBlocks)
    BY <2>8 DEF Owned, GroupInv, PagesSound, Block
  <2>10. h # 0
    BY <1>2 DEF NoBlock
  <2>11. c[MaxBlocks][h]
    <3> HIDE DEF Link, G, Owned
    <3> QED BY <2>2, <2>7, <2>8, <2>9, <2>10, CheckChain
  <2> QED BY <2>1, <2>11
<1> QED BY <1>1, <1>2

(* Recovery, publication and the next seal are not refused. *)
LEMMA GroupInvAccepted == GroupInv => MaintenanceAccepted
<1> SUFFICES ASSUME GroupInv PROVE MaintenanceAccepted
  OBVIOUS
<1>1. GenCount = DeltaCount + 1 /\ \A i \in 1 .. GenCount : Generations[i] = Gen(i)
  BY GenerationsAre, GenFacts DEF GroupInv
<1>2. Inspect(journal.id, journal.head, journal.tail)
  <2>1. CASE journal.id = NoId
    <3>1. journal.head = NoBlock /\ journal.tail = NoBlock
      BY <2>1 DEF GroupInv, QueueSound, NoJournal
    <3> QED BY <3>1, InspectChain
  <2>2. CASE journal.id # NoId
    <3>1. Chained(Link, Owned(journal.id), journal.head, journal.tail)
      BY <2>2 DEF GroupInv, ChainsSound
    <3> QED BY <2>2, <3>1, InspectChain
  <2> QED BY <2>1, <2>2
<1>3. ASSUME NEW i \in 1 .. Len(retired)
      PROVE  Inspect(retired[i].id, retired[i].head, retired[i].tail)
  <2>1. /\ retired[i].id # NoId
        /\ Chained(Link, Owned(retired[i].id), retired[i].head, retired[i].tail)
    BY DEF GroupInv, ChainsSound, QueueSound
  <2> QED BY <2>1, InspectChain
<1>4. ASSUME NEW i \in 1 .. GenCount PROVE Inspect(Gen(i).id, Gen(i).head, Gen(i).tail)
  <2>1. CASE active.id = NoId
    <3>1. Gen(i) = NoSnapshot
      <4>1. i = 1
        BY <2>1, GenIds
      <4> QED BY <2>1, <4>1 DEF GroupInv, StackSound, Gen
    <3>2. Gen(i).head = NoBlock /\ Gen(i).tail = NoBlock
      BY <3>1 DEF NoSnapshot, NewSnapshot
    <3> QED BY <3>2, InspectChain
  <2>2. CASE active.id # NoId
    <3>1. Gen(i).id # NoId /\ Chained(Link, Owned(Gen(i).id), Gen(i).head, Gen(i).tail)
      BY <2>2, GenIds DEF GroupInv, ChainsSound
    <3> QED BY <3>1, InspectChain
  <2> QED BY <2>1, <2>2
<1>5. ASSUME job.stage = "publish"
      PROVE  /\ VerifyBuild /\ retired = <<>>
             /\ job.op = "seal" =>
                  job.before = IF job.from = DeltaCount THEN Latest.after
                               ELSE deltas[job.from + 1].before
  <2>1. /\ journal.id = job.snap.id /\ journal.id # NoId
        /\ journal.head = job.snap.head /\ journal.tail = job.snap.tail
        /\ retired = <<>>
    BY <1>5, BuildingEnds
  <2>2. Inspect(job.snap.id, job.snap.head, job.snap.tail)
    BY <1>2, <2>1
  <2>3. /\ journal = [id |-> job.snap.id, head |-> job.snap.head, tail |-> job.snap.tail]
        /\ \A b \in {job.snap.root, job.snap.frontier} \ {NoBlock} :
             page[b].kind = "Node" /\ page[b].id = job.snap.id
        /\ ~job.snap.anchored => job.snap.root = job.snap.tail
    BY <1>5 DEF GroupInv, JobBuilds, ShapeSound, SnapshotValid
  <2>4. VerifyBuild
    BY <2>2, <2>3 DEF VerifyBuild
  <2>5. ASSUME job.op = "seal"
        PROVE  job.before = IF job.from = DeltaCount THEN Latest.after
                            ELSE deltas[job.from + 1].before
    <3>1. /\ job.from <= DeltaCount /\ job.before = Gen(job.from + 1).after
          /\ job.from \in Nat /\ DeltaCount \in Nat
      BY <1>5, <2>5, GenFacts
         DEF GroupInv, JobBuilds, CaptureSound, Building, GroupTypeOK, Job
    <3>2. CASE job.from = DeltaCount
      BY <1>1, <3>1, <3>2, GenFacts DEF GroupInv
    <3>3. CASE job.from # DeltaCount
      <4>1. job.from + 1 \in 1 .. DeltaCount
        BY <3>1, <3>3
      <4> QED BY <3>1, <3>3, <4>1 DEF GroupInv, StackSound
    <3> QED BY <3>2, <3>3
  <2> QED BY <2>1, <2>4, <2>5
<1>6. job.stage = "failed" => abandoned >= SealOwners
  BY DEF GroupInv, JobWaits
<1> HIDE DEF Gen, GenCount, Generations, DeltaCount, Latest, Inspect, VerifyBuild
<1> QED BY <1>1, <1>2, <1>3, <1>4, <1>5, <1>6 DEF MaintenanceAccepted

(* The free list is a walk over the free pages. *)
LEMMA FreeBlocksAre ==
  ASSUME GroupInv
  PROVE  FreeBlocks = FreePages
<1> DEFINE c == CHOOSE f : f = [n \in 0 .. MaxBlocks |-> [b \in BlockOrNone |->
                  IF n = 0 \/ b = NoBlock THEN {} ELSE {b} \cup f[n - 1][page[b].next]]]
<1>1. FreeBlocks = c[MaxBlocks][free]
  BY DEF FreeBlocks
<1>2. MaxBlocks \in Nat
  BY GroupBoundAssumption
<1>3. Link \in [1 .. MaxBlocks -> 0 .. MaxBlocks]
  BY FieldTypes DEF GroupInv, Link, Block, BlockOrNone
<1>4. c = CHOOSE f : IsWalk(f, MaxBlocks, Link, 0)
  <2>1. \A f, n : \A b \in BlockOrNone :
          (IF n = 0 \/ b = NoBlock THEN {} ELSE {b} \cup f[n - 1][page[b].next])
          = (IF n = 0 \/ b = 0 THEN {}
             ELSE {b} \cup (IF b = 0 THEN {} ELSE f[n - 1][Link[b]]))
    <3>1. \A b \in BlockOrNone : b = 0 \/ (b # 0 /\ Link[b] = page[b].next)
      BY DEF Link, Block, BlockOrNone
    <3> HIDE DEF Link
    <3> USE DEF NoBlock
    <3> SUFFICES ASSUME NEW f, NEW n, NEW b \in BlockOrNone
                 PROVE  (IF n = 0 \/ b = 0 THEN {} ELSE {b} \cup f[n - 1][page[b].next])
                        = (IF n = 0 \/ b = 0 THEN {}
                           ELSE {b} \cup (IF b = 0 THEN {} ELSE f[n - 1][Link[b]]))
      OBVIOUS
    <3>2. CASE b = 0
      BY <3>2
    <3>3. CASE b # 0 /\ Link[b] = page[b].next
      BY <3>3
    <3> QED BY <3>1, <3>2, <3>3
  <2>2. \A f : (f = [n \in 0 .. MaxBlocks |-> [b \in BlockOrNone |->
                       IF n = 0 \/ b = NoBlock THEN {} ELSE {b} \cup f[n - 1][page[b].next]]])
               = IsWalk(f, MaxBlocks, Link, 0)
    <3> HIDE DEF Link
    <3> SUFFICES ASSUME NEW f
                 PROVE  (f = [n \in 0 .. MaxBlocks |-> [b \in BlockOrNone |->
                            IF n = 0 \/ b = NoBlock THEN {} ELSE {b} \cup f[n - 1][page[b].next]]])
                        = (f = [n \in 0 .. MaxBlocks |-> [b \in BlockOrNone |->
                            IF n = 0 \/ b = 0 THEN {}
                            ELSE {b} \cup (IF b = 0 THEN {} ELSE f[n - 1][Link[b]])]])
      BY DEF IsWalk, BlockOrNone
    <3>1. [n \in 0 .. MaxBlocks |-> [b \in BlockOrNone |->
              IF n = 0 \/ b = NoBlock THEN {} ELSE {b} \cup f[n - 1][page[b].next]]]
          = [n \in 0 .. MaxBlocks |-> [b \in BlockOrNone |->
               IF n = 0 \/ b = 0 THEN {}
               ELSE {b} \cup (IF b = 0 THEN {} ELSE f[n - 1][Link[b]])]]
      BY <2>1, Zenon
    <3> QED BY <3>1, Zenon
  <2> QED BY <2>2
<1> HIDE DEF c
<1>5. IsWalk(c, MaxBlocks, Link, 0)
  <2>1. \E f : IsWalk(f, MaxBlocks, Link, 0)
    <3> HIDE DEF Link
    <3> QED BY <1>2, <1>3, WalkExists
  <2> QED BY <1>4, <2>1
<1>6. PICK t \in BlockOrNone : Chained(Link, FreePages, free, t)
  BY DEF GroupInv, PagesSound
<1>7. FreePages \in SUBSET (1 .. MaxBlocks)
  BY DEF FreePages, Block
<1>8. c[MaxBlocks][free] = FreePages
  <2> HIDE DEF Link, FreePages
  <2> QED BY <1>2, <1>5, <1>6, <1>7, WalkChain
<1> QED BY <1>1, <1>8

(* No grouped page is lost and no free one is in use. *)
LEMMA GroupInvAccounted == GroupInv => GroupPagesAccounted
<1> SUFFICES ASSUME GroupInv PROVE GroupPagesAccounted
  OBVIOUS
<1>1. GenCount = DeltaCount + 1 /\ \A i \in 1 .. GenCount : Generations[i] = Gen(i)
  BY GenerationsAre, GenFacts DEF GroupInv
<1>2. \A b \in Block : IsGrouped(b) => page[b].id # NoId
  BY DEF GroupInv, PagesSound
<1>3. \A b \in Block : IsGrouped(b) => page[b].id \in NamedIds
  <2>1. \A b \in Block : IsGrouped(b) =>
       \/ page[b].id = journal.id
       \/ \E i \in 1 .. GenCount : page[b].id = Gen(i).id
       \/ \E i \in 1 .. Len(retired) : page[b].id = retired[i].id
    BY DEF GroupInv, ChainsSound
  <2> HIDE DEF Gen, GenCount, Generations, DeltaCount, IsGrouped
  <2> QED BY <1>1, <1>2, <2>1 DEF NamedIds
<1>4. \A b \in Block : (page[b].kind = "Free") = (b \in FreeBlocks)
  <2> HIDE DEF FreeBlocks
  <2> QED BY FreeBlocksAre DEF FreePages
<1> HIDE DEF FreeBlocks, NamedIds, IsGrouped
<1> QED BY <1>3, <1>4 DEF GroupPagesAccounted

-----------------------------------------------------------------------------
(* What the metapage promises *)

(* Type correctness: every stored generation, journal entry and page stays *)
(* inside the records of the metapage format, for every number of segments *)
(* and blocks.                                                             *)
THEOREM GroupTypeAlways == Spec => []GroupTypeOK
<1>1. GroupInv => GroupTypeOK
  BY DEF GroupInv
<1> QED BY <1>1, GroupInvAlways, PTL

(* grouped_state() and set_grouped_state() accept the state after every    *)
(* commit of a build, a recovery or a vacuum pass, crashes included.       *)
THEOREM GroupStateAlwaysValid == Spec => []GroupStateValid
BY GroupInvAlways, GroupInvValid, PTL

(* A scan of the generations and of the frontier finds every document that *)
(* is not dead, once, and nothing else.                                    *)
THEOREM CoverageAlwaysExact == Spec => []CoverageExact
BY GroupInvAlways, GroupInvCovers, PTL

(* inspect() and verify_build() accept every chain and build they meet,    *)
(* and a seal is refused only after SealOwners abandoned builds.           *)
THEOREM MaintenanceAlwaysAccepted == Spec => []MaintenanceAccepted
BY GroupInvAlways, GroupInvAccepted, PTL

(* Every grouped page belongs to an identity the metapage names, and the   *)
(* free list holds the free pages and no other.                            *)
THEOREM GroupPagesAlwaysAccounted == Spec => []GroupPagesAccounted
BY GroupInvAlways, GroupInvAccounted, PTL

-----------------------------------------------------------------------------
(* What a step may do to the pages of the published generations *)

(* Liveness bits may go out; the rest of a published page stays. *)
PageStays(b) ==
  (\E i \in 1 .. GenCount : Gen(i).id # NoId /\ page[b].id = Gen(i).id) =>
    /\ page'[b].id = page[b].id /\ page'[b].next = page[b].next
    /\ page'[b].roots \subseteq page[b].roots

(* The journal's identity is not a published one. *)
LEMMA JournalApart ==
  ASSUME GroupInv, journal.id # NoId, NEW i \in 1 .. GenCount
  PROVE  Gen(i).id # journal.id
<1>1. Latest.id < journal.id
  BY DEF GroupInv, QueueSound
<1>2. Gen(i).id \in Nat /\ Gen(i).id <= Latest.id
  BY GenIds
<1>3. Latest.id \in Nat /\ journal.id \in Nat
  BY GenFacts, FieldTypes DEF GroupInv, Snapshot, OwnerOrNone
<1> HIDE DEF Gen, GenCount, Latest
<1> QED BY <1>1, <1>2, <1>3

(* A page that no published generation owns may change. *)
LEMMA OtherPages ==
  ASSUME NEW x \in Block, \A i \in 1 .. GenCount : Gen(i).id # NoId => page[x].id # Gen(i).id,
         \A c \in Block : c # x => page'[c] = page[c]
  PROVE  \A b \in Block : PageStays(b)
<1> HIDE DEF Gen, GenCount
<1> QED BY DEF PageStays

(* recover() frees pages of the journal and of the retired chains only. *)
LEMMA RecoverKeepsPages ==
  ASSUME GroupInv, RecoverJournal \/ RecoverRetired
  PROVE  \A b \in Block : PageStays(b)
<1> USE DEF canonical
<1>1. CASE RecoverJournal
  <2> DEFINE h == journal.head
  <2>1. /\ journal.id # NoId /\ h # NoBlock /\ FreeHead(h) /\ size' = size
    BY <1>1 DEF RecoverJournal
  <2>2. journal.id \in Nat /\ Chained(Link, Owned(journal.id), h, journal.tail)
    BY <2>1, FieldTypes DEF GroupInv, ChainsSound, OwnerOrNone
  <2>3. h \in Block /\ page[h].id = journal.id /\ page[h].kind \notin {"Free", "None"}
    BY <2>1, <2>2, ChainHead
  <2>4. \A c \in Block : c # h => page'[c] = page[c]
    BY <2>1, <2>3, FreeHeadFacts
  <2>5. \A i \in 1 .. GenCount : page[h].id # Gen(i).id
    BY <2>1, <2>3, JournalApart
  <2> HIDE DEF h, Gen, GenCount, PageStays
  <2> QED BY <2>3, <2>4, <2>5, OtherPages
<1>2. CASE RecoverRetired
  <2>1. /\ retired # <<>> /\ FreeHead(Head(retired).head) /\ size' = size
    BY <1>2 DEF RecoverRetired
  <2>2. PICK n \in Nat : n = Len(retired)
    BY DEF GroupInv, GroupTypeOK
  <2>3. 1 \in 1 .. n /\ Head(retired) = retired[1]
    BY <2>1, <2>2, QueueShortened DEF GroupInv, GroupTypeOK
  <2>4. PICK id \in Nat : id = retired[1].id
    BY <2>2, <2>3, FieldTypes DEF GroupInv, OwnerOrNone
  <2>5. PICK h \in BlockOrNone : h = retired[1].head
    BY <2>2, <2>3, FieldTypes DEF GroupInv
  <2>6. /\ id # NoId /\ h # NoBlock /\ Chained(Link, Owned(id), h, retired[1].tail)
        /\ \A j \in 1 .. GenCount : Gen(j).id # id
    BY <2>2, <2>3, <2>4, <2>5 DEF GroupInv, QueueSound, ChainsSound
  <2>7. h \in Block /\ page[h].id = id /\ page[h].kind \notin {"Free", "None"}
    BY <2>6, ChainHead
  <2>8. \A c \in Block : c # h => page'[c] = page[c]
    BY <2>1, <2>3, <2>5, <2>7, FreeHeadFacts
  <2> HIDE DEF Gen, GenCount, PageStays
  <2> QED BY <2>6, <2>7, <2>8, OtherPages
<1> QED BY <1>1, <1>2

(* append() links its block behind the journal's tail. *)
LEMMA AppendKeepsPages ==
  ASSUME GroupInv, job.stage \in {"write", "anchors"}, NEW p \in GroupPage, Append1(p)
  PROVE  \A b \in Block : PageStays(b)
<1>1. /\ NextBlock \in Block /\ page[NextBlock].id = NoId
      /\ \A c \in Block : c # NextBlock =>
           /\ page'[c].id = page[c].id /\ page'[c].roots = page[c].roots
           /\ page'[c].next = IF c = journal.tail THEN NextBlock ELSE page[c].next
  BY AppendPages
<1>2. journal.id # NoId /\ journal.id \in Nat /\ Chained(Link, Owned(journal.id), journal.head, journal.tail)
      /\ (journal.head = NoBlock => journal.tail = NoBlock)
  BY BuildingEnds, FieldTypes, JournalEnds DEF GroupInv, ChainsSound, OwnerOrNone, GroupStateValid
<1>3. journal.tail # NoBlock => page[journal.tail].id = journal.id
  BY <1>2, ChainHead
<1>4. \A i \in 1 .. GenCount : Gen(i).id # journal.id
  BY <1>2, JournalApart
<1>5. ASSUME NEW b \in Block PROVE PageStays(b)
  <2>1. b # NoBlock
    BY DEF Block, NoBlock
  <2> HIDE DEF Gen, GenCount, NextBlock
  <2> QED BY <1>1, <1>3, <1>4, <2>1 DEF PageStays
<1> QED BY <1>5

(* The page step of every action *)
LEMMA PagesStay ==
  ASSUME GroupInv, [Next]_vars
  PROVE  \A b \in Block : PageStays(b)
<1> USE DEF canonical, pages, group
<1>1. CASE UNCHANGED page
  BY <1>1 DEF PageStays
<1>2. CASE \E completes \in BOOLEAN : Insert(completes)
  <2>1. UNCHANGED page
    BY <1>2 DEF Insert
  <2> QED BY <1>1, <2>1
<1>3. CASE \E o \in live : HeapDelete(o)
  <2>1. UNCHANGED page
    BY <1>3 DEF HeapDelete
  <2> QED BY <1>1, <2>1
<1>4. CASE Invalidate \/ MaintainBegin \/ MaintainSkipped \/ CleanupBegin \/ VacuumBegin
  <2>1. UNCHANGED page
    BY <1>4 DEF Invalidate, MaintainBegin, MaintainSkipped, CleanupBegin, VacuumBegin
  <2> QED BY <1>1, <2>1
<1>5. CASE Recover
  <2>1. CASE RecoverEmptyJournal \/ RecoverDone
    <3>1. UNCHANGED page
      BY <2>1 DEF RecoverEmptyJournal, RecoverDone
    <3> QED BY <1>1, <3>1
  <2>2. CASE RecoverJournal \/ RecoverRetired
    BY <2>2, RecoverKeepsPages
  <2> QED BY <1>5, <2>1, <2>2 DEF Recover
<1>6. CASE CaptureAll \/ CaptureDelta \/ Begin
  <2>1. UNCHANGED page
    BY <1>6 DEF CaptureAll, CaptureDelta, Begin
  <2> QED BY <1>1, <2>1
<1>7. CASE Extend
  <2>1. size < MaxBlocks /\ page' = [page EXCEPT ![size + 1] = ZeroPage]
    BY <1>7 DEF Extend
  <2>2. PICK n \in Block : n = size + 1
    BY <2>1, GroupBoundAssumption DEF GroupInv, GroupTypeOK, Block, BlockOrNone
  <2>3. page[n].kind = "None"
    BY <2>2 DEF GroupInv, PagesSound, GroupTypeOK, Block, BlockOrNone
  <2>4. page[n].id = NoId
    BY <2>3 DEF GroupInv, PagesSound, IsGrouped
  <2>5. \A c \in Block : c # n => page'[c] = page[c]
    BY <2>1, <2>2 DEF GroupInv, GroupTypeOK
  <2>6. \A i \in 1 .. GenCount : Gen(i).id # NoId => page[n].id # Gen(i).id
    <3> HIDE DEF Gen, GenCount
    <3> QED BY <2>4
  <2> HIDE DEF Gen, GenCount, PageStays
  <2> QED BY <2>5, <2>6, OtherPages
<1>8. CASE \E g \in 0 .. (HeapGroups - 1) : WriteGroup(g)
  <2>1. PICK g \in 0 .. (HeapGroups - 1) : WriteGroup(g)
    BY <1>8
  <2>2. job.stage = "write" /\ Append1(NewPage("Record", job.snap.id, InGroup(g)))
    BY <2>1 DEF WriteGroup
  <2>3. NewPage("Record", job.snap.id, InGroup(g)) \in GroupPage
    <3>1. InGroup(g) \in SUBSET Incarnation
      BY FieldTypes DEF InGroup, GroupInv
    <3> QED BY <3>1, PageTypes, FieldTypes DEF GroupInv
  <2> QED BY <2>2, <2>3, AppendKeepsPages
<1>9. CASE FinishCatalog \/ FinishAnchors
  <2>1. job.stage \in {"write", "anchors"} /\ Append1(NewPage("Node", job.snap.id, {}))
    BY <1>9 DEF FinishCatalog, FinishAnchors
  <2>2. NewPage("Node", job.snap.id, {}) \in GroupPage
    BY PageTypes, FieldTypes DEF GroupInv
  <2> QED BY <2>1, <2>2, AppendKeepsPages
<1>10. CASE FinishEmpty \/ FinishNoAnchors \/ Publish \/ PublishDelta
  <2>1. UNCHANGED page
    BY <1>10 DEF FinishEmpty, FinishNoAnchors, Publish, PublishDelta
  <2> QED BY <1>1, <2>1
<1>11. CASE OutOfSpace \/ SealRefused \/ Interrupt
  <2>1. UNCHANGED page
    BY <1>11 DEF OutOfSpace, SealRefused, Interrupt
  <2> QED BY <1>1, <2>1
<1>12. CASE Vacuum
  <2>1. CASE \E b \in Block : RetireRecord(b)
    <3>1. PICK x \in Block : RetireRecord(x)
      BY <2>1
    <3>2. page' = [page EXCEPT ![x].roots = @ \ job.left] /\ page \in [Block -> GroupPage]
      BY <3>1 DEF RetireRecord, GroupInv, GroupTypeOK
    <3>3. ASSUME NEW b \in Block
          PROVE  /\ page'[b].id = page[b].id /\ page'[b].next = page[b].next
                 /\ page'[b].roots \subseteq page[b].roots
      <4>1. b # x => page'[b] = page[b]
        BY <3>2
      <4>2. page'[x] = [page[x] EXCEPT !.roots = @ \ job.left] /\ page[x] \in GroupPage
        BY <3>2
      <4> QED BY <4>1, <4>2 DEF GroupPage
    <3> QED BY <3>3 DEF PageStays
  <2>2. CASE \E b \in Block : ReclaimZero(b)
    <3>1. PICK x \in Block : ReclaimZero(x)
      BY <2>2
    <3>2. page[x].kind = "Zero" /\ FreeHead(x) /\ size' = size
      BY <3>1 DEF ReclaimZero
    <3>3. page[x].id = NoId
      BY <3>2 DEF GroupInv, PagesSound, IsGrouped
    <3>4. \A c \in Block : c # x => page'[c] = page[c]
      BY <3>2, FreeHeadFacts
    <3>5. \A i \in 1 .. GenCount : Gen(i).id # NoId => page[x].id # Gen(i).id
      <4> HIDE DEF Gen, GenCount
      <4> QED BY <3>3
    <3> HIDE DEF Gen, GenCount, PageStays
    <3> QED BY <3>4, <3>5, OtherPages
  <2>3. CASE RetireDone \/ VacuumEnd \/ \E gone \in SUBSET (live \cap job.left) : RemoveOwners(gone)
    <3>1. UNCHANGED page
      BY <2>3 DEF RetireDone, VacuumEnd, RemoveOwners
    <3> QED BY <1>1, <3>1
  <2> QED BY <1>12, <2>1, <2>2, <2>3 DEF Vacuum
<1>13. CASE UNCHANGED vars
  BY <1>1, <1>13 DEF vars
<1> QED BY <1>2, <1>3, <1>4, <1>5, <1>6, <1>7, <1>8, <1>9, <1>10, <1>11, <1>12, <1>13
        DEF Next, Step, Build

(* While a generation is published, no build, recovery, crash or vacuum    *)
(* pass moves, relinks or reuses one of its pages: a reader inside it      *)
(* loses liveness bits and nothing else.                                   *)
THEOREM PublishedPagesAlwaysStable == Spec => PublishedPagesStable
<1>1. ASSUME GroupInv, [Next]_vars
      PROVE  [\A i \in 1 .. (DeltaCount + 1) : \A b \in Block :
                /\ Generations[i].id # NoId /\ page[b].id = Generations[i].id
                /\ \E j \in 1 .. (Len(deltas') + 1) : Generations'[j].id = Generations[i].id
                => /\ page'[b].id = page[b].id /\ page'[b].next = page[b].next
                   /\ page'[b].roots \subseteq page[b].roots]_vars
  <2>1. GenCount = DeltaCount + 1 /\ \A i \in 1 .. GenCount : Generations[i] = Gen(i)
    BY <1>1, GenerationsAre, GenFacts DEF GroupInv
  <2>2. \A b \in Block : PageStays(b)
    BY <1>1, PagesStay
  <2> HIDE DEF Gen, GenCount, Generations, DeltaCount
  <2> QED BY <2>1, <2>2 DEF PageStays
<1> QED BY <1>1, GroupInvAlways, PTL DEF Spec, PublishedPagesStable

-----------------------------------------------------------------------------
(* The grouped store implements the document index *)

(* The documents a reader can be told of *)
Shown == View \cup (live \cap dead)

(* They are the live ones. *)
LEMMA ShownIs == GroupInv => Shown = live
<1> SUFFICES ASSUME GroupInv PROVE Shown = live
  OBVIOUS
<1>1. CASE active.id = NoId
  BY <1>1 DEF Shown, View
<1>2. CASE active.id # NoId
  <2>1. View \subseteq live /\ live \ View \subseteq dead
    <3> HIDE DEF View
    <3> QED BY <1>2, GroupInvCovers DEF CoverageExact
  <2> HIDE DEF View
  <2> QED BY <2>1 DEF Shown
<1> QED BY <1>1, <1>2

(* A step of the abstract index, in terms of the live documents *)
LiveStep ==
  \/ /\ dead' \in SUBSET Incarnation /\ UNCHANGED <<live, published>>
  \/ /\ live' \subseteq live /\ live \ live' \subseteq dead
     /\ UNCHANGED <<published, dead>>
  \/ \E o \in Incarnation :
       /\ o \notin published
       /\ published' = published \cup {o} /\ live' = live \cup {o} /\ UNCHANGED dead

(* Every action is one. *)
LEMMA LiveSteps ==
  ASSUME GroupInv, [Next]_vars
  PROVE  LiveStep
<1> USE DEF canonical, pages, group
<1>0. live \subseteq published /\ published \subseteq Incarnation /\ dead \in SUBSET Incarnation
  BY DEF GroupInv, GroupTypeOK
<1>1. CASE UNCHANGED <<live, published, dead>>
  BY <1>0, <1>1 DEF LiveStep
<1>2. ASSUME NEW completes \in BOOLEAN, Insert(completes) PROVE LiveStep
  <2>1. /\ published' = IF completes THEN published \cup {inc} ELSE published
        /\ live' = IF completes THEN live \cup {inc} ELSE live
        /\ UNCHANGED dead /\ inc <= MaxInc
    BY <1>2 DEF Insert, Reserve, CanReserve
  <2>2. inc \in Incarnation
    BY <2>1, GroupBoundAssumption DEF GroupInv, GroupTypeOK, Incarnation
  <2>3. inc \notin published
    <3>1. last < inc /\ (\A o \in published : o <= last) /\ inc \in Nat /\ last \in Nat
      BY DEF GroupInv, NumbersBehind, GroupTypeOK, OwnerOrNone
    <3> QED BY <3>1
  <2>4. CASE completes
    BY <2>1, <2>2, <2>3, <2>4 DEF LiveStep
  <2>5. CASE ~completes
    BY <1>0, <2>1, <2>5 DEF LiveStep
  <2> QED BY <2>4, <2>5
<1>3. ASSUME NEW o \in live, HeapDelete(o) PROVE LiveStep
  BY <1>0, <1>3 DEF HeapDelete, LiveStep
<1>4. CASE Invalidate \/ MaintainBegin \/ MaintainSkipped \/ CleanupBegin \/ VacuumBegin
  <2>1. UNCHANGED <<live, published, dead>>
    BY <1>4 DEF Invalidate, MaintainBegin, MaintainSkipped, CleanupBegin, VacuumBegin
  <2> QED BY <1>1, <2>1
<1>5. CASE Recover
  <2>1. UNCHANGED <<live, published, dead>>
    BY <1>5 DEF Recover, RecoverEmptyJournal, RecoverJournal, RecoverRetired, RecoverDone
  <2> QED BY <1>1, <2>1
<1>6. CASE CaptureAll \/ CaptureDelta \/ Begin \/ Extend
  <2>1. UNCHANGED <<live, published, dead>>
    BY <1>6 DEF CaptureAll, CaptureDelta, Begin, Extend
  <2> QED BY <1>1, <2>1
<1>7. CASE \E g \in 0 .. (HeapGroups - 1) : WriteGroup(g)
  <2>1. UNCHANGED <<live, published, dead>>
    BY <1>7 DEF WriteGroup
  <2> QED BY <1>1, <2>1
<1>8. CASE FinishCatalog \/ FinishEmpty \/ FinishAnchors \/ FinishNoAnchors
  <2>1. UNCHANGED <<live, published, dead>>
    BY <1>8 DEF FinishCatalog, FinishEmpty, FinishAnchors, FinishNoAnchors
  <2> QED BY <1>1, <2>1
<1>9. CASE Publish \/ PublishDelta \/ OutOfSpace \/ SealRefused \/ Interrupt
  <2>1. UNCHANGED <<live, published, dead>>
    BY <1>9 DEF Publish, PublishDelta, OutOfSpace, SealRefused, Interrupt
  <2> QED BY <1>1, <2>1
<1>10. CASE Vacuum
  <2>1. CASE \E b \in Block : RetireRecord(b) \/ ReclaimZero(b)
    <3>1. UNCHANGED <<live, published, dead>>
      BY <2>1 DEF RetireRecord, ReclaimZero
    <3> QED BY <1>1, <3>1
  <2>2. CASE RetireDone
    <3>1. UNCHANGED <<live, published, dead>>
      BY <2>2 DEF RetireDone
    <3> QED BY <1>1, <3>1
  <2>3. CASE VacuumEnd
    BY <1>0, <2>3 DEF VacuumEnd, LiveStep
  <2>4. ASSUME NEW gone \in SUBSET (live \cap job.left), RemoveOwners(gone) PROVE LiveStep
    <3>1. job.left \subseteq dead
      BY <2>4 DEF RemoveOwners, GroupInv, JobWaits
    <3>2. live' = live \ gone /\ UNCHANGED <<published, dead>>
      BY <2>4 DEF RemoveOwners
    <3> QED BY <3>1, <3>2 DEF LiveStep
  <2> QED BY <1>10, <2>1, <2>2, <2>3, <2>4 DEF Vacuum
<1>11. CASE UNCHANGED vars
  BY <1>1, <1>11 DEF vars
<1> QED BY <1>2, <1>3, <1>4, <1>5, <1>6, <1>7, <1>8, <1>9, <1>10, <1>11
        DEF Next, Step, Build

(* A step on the live documents is a step of the index on their postings. *)
LEMMA IndexStep ==
  ASSUME LiveStep, Shown = live, Shown' = live',
         live \subseteq published, published \subseteq Incarnation
  PROVE  Index!Next
<1> DEFINE P == {"t"} \X Shown
           Q == {<<o, {"t"}>> : o \in published}
<1>0. P = {"t"} \X live /\ P' = {"t"} \X live'
  <2> HIDE DEF Shown
  <2> QED OBVIOUS
<1> HIDE DEF P
<1>1. CASE dead' \in SUBSET Incarnation /\ UNCHANGED <<live, published>>
  <2>1. P' = P /\ Q' = Q
    BY <1>0, <1>1
  <2>2. Index!Host
    BY <1>1, <2>1 DEF Index!Host, P, Shown
  <2> QED BY <2>2 DEF Index!Next
<1>2. CASE live' \subseteq live /\ live \ live' \subseteq dead /\ UNCHANGED <<published, dead>>
  <2>1. P' \subseteq P /\ Q' = Q
    BY <1>0, <1>2
  <2>2. \A p \in P \ P' : p[2] \in dead /\ \A q \in P' : p[2] # q[2]
    BY <1>0, <1>2
  <2>3. Index!Remove
    BY <1>2, <2>1, <2>2 DEF Index!Remove, P, Shown
  <2> QED BY <2>3 DEF Index!Next
<1>3. ASSUME NEW o \in Incarnation, o \notin published,
             published' = published \cup {o}, live' = live \cup {o}, UNCHANGED dead
      PROVE  Index!Next
  <2>1. \A q \in Q : q[1] # o
    BY <1>3
  <2>2. Q' = Q \cup {<<o, {"t"}>>}
    BY <1>3
  <2>3. P' = P \cup ({"t"} \X {o})
    BY <1>0, <1>3
  <2>4. Index!Publish(o, {"t"})
    BY <1>3, <2>1, <2>2, <2>3 DEF Index!Publish, P, Shown
  <2> QED BY <2>4 DEF Index!Next
<1> QED BY <1>1, <1>2, <1>3 DEF LiveStep

(* The document index starts empty. *)
LEMMA IndexInit == Init => Index!Init
BY DEF Init, Index!Init, View, NoSnapshot, NewSnapshot, NoId

(* Refinement: an insertion publishes its document, vacuum removes         *)
(* documents that the host declared dead, and builds, publications,        *)
(* recovery and crashes change nothing that a reader can tell.             *)
THEOREM GroupedImplementsIndex == Spec => Index!Spec /\ StepsImplementIndex
<1>0. GroupInv' => (Shown = live)'
  BY ShownIs, PTL
<1>1. GroupInv /\ [Next]_vars => Index!Next
  <2> SUFFICES ASSUME GroupInv, [Next]_vars PROVE Index!Next
    OBVIOUS
  <2>1. LiveStep
    BY LiveSteps
  <2>2. GroupInv'
    BY GroupInvStep
  <2>3. Shown = live /\ Shown' = live'
    BY <1>0, <2>2, ShownIs
  <2>4. live \subseteq published /\ published \subseteq Incarnation
    BY DEF GroupInv, GroupTypeOK
  <2> QED BY <2>1, <2>2, <2>3, <2>4, IndexStep
<1> QED BY <1>1, IndexInit, GroupInvAlways, PTL DEF Spec, Index!Spec, StepsImplementIndex

=============================================================================
