-------------------------- MODULE InterlocksProofs --------------------------
(***************************************************************************)
(* ReadersProtected, DeadlockOnlyByUpgrade and CountExact hold for any     *)
(* number of backends, documents and pages.                                *)
(*                                                                         *)
(* LockInv ties every lock to what its holder is doing: who holds a lock   *)
(* can be read off "do" and "open", so two holders that exclude each other *)
(* would have to be in two places at once.  QueueInv ranks the waiters by  *)
(* the order of their requests.  TableInv and WorkInv keep the books of a  *)
(* count: every document of its snapshot is still to be claimed, in one    *)
(* participant's hand, or entered in one account.                          *)
(***************************************************************************)
EXTENDS Interlocks, Chains

(* What a backend does while it holds the barrier, the writer interlock or *)
(* the shared barrier of a count                                           *)
AtBarrier == {"interlock", "maintain"}
AtWriter  == {"inserting", "remove", "maintain"}
Consuming == {"claim", "try", "flush", "check", "accumulate", "gather"}
Sharing   == Consuming \cup {"protect", "capture", "page"}
Working   == (Consuming \ {"gather"}) \cup {"count"}
InCount   == Sharing \cup {"count", "report"}

LockTypes ==
  /\ DOMAIN do = Backend /\ DOMAIN pin = Backend
  /\ share \in [Backend -> Nat]
  /\ want \in [Backend -> Request \cup {"None"}]
  /\ open \subseteq Backend /\ guard \subseteq Backend
  /\ barrier \in Backend \cup {NoBackend} /\ writer \in Backend \cup {NoBackend}
  /\ DOMAIN job = {"leader", "kind", "snap", "work", "total", "team"}
  /\ job.leader \in Backend \cup {NoBackend} /\ job.team \subseteq Backend

(* The holders of the exclusive locks, of the conditional share of the     *)
(* writer interlock and of a pin are the backends at those steps.          *)
Holders ==
  \A p \in Backend :
    /\ do[p] \in AtBarrier <=> barrier = p
    /\ do[p] \in AtWriter <=> writer = p
    /\ p \in guard <=> do[p] = "page"
    /\ pin[p] # 0 => do[p] = "check"

(* The shared barrier is acquired once by an open scan and once by a count; *)
(* a scan that waits for it is not open.                                    *)
Shares ==
  \A p \in Backend :
    /\ do[p] = "scan" => p \notin open
    /\ share[p] = (IF p \in open THEN 1 ELSE 0) + (IF do[p] \in Sharing THEN 1 ELSE 0)

(* A backend waits for the lock its operation asks for next; a count that  *)
(* does not wait shares the barrier already, or its leader does.           *)
Requests ==
  \A p \in Backend :
    /\ do[p] = "scan" => want[p] = "Share"
    /\ do[p] = "barrier" => want[p] = "Exclusive"
    /\ do[p] \in {"insert", "vacuum", "interlock"} => want[p] = "Writer"
    /\ do[p] = "count" => want[p] = "Share" \/ (want[p] = "None" /\ (p \in open \/ p \in job.team))
    /\ do[p] \notin {"scan", "barrier", "insert", "vacuum", "interlock", "count"} => want[p] = "None"

(* The participants of the count are the backends at its steps; only a     *)
(* parallel count has workers, and while it has any its leader holds the   *)
(* shared barrier.                                                         *)
Teams ==
  /\ \A p \in Backend : do[p] \in InCount <=> p \in job.team \cup {job.leader}
  /\ \A p \in Backend : do[p] = "capture" => job.kind = "parallel"
  /\ \A p \in job.team : p # job.leader /\ do[p] \in Working
  /\ job.team # {} =>
       job.kind = "parallel" /\ job.leader \in Backend /\ do[job.leader] \in Consuming

(* The exclusions themselves *)
Exclusions ==
  /\ barrier # NoBackend => \A q \in Backend : q # barrier => share[q] = 0
  /\ writer # NoBackend => guard = {}

LockInv == LockTypes /\ Holders /\ Shares /\ Requests /\ Teams /\ Exclusions

-----------------------------------------------------------------------------
(* One lemma per step *)

(* A step that moves no backend and leaves the locks and the count alone, *)
(* and a stuttering one                                                   *)
LEMMA IdleKeeps ==
  ASSUME LockInv, UNCHANGED <<do, open, lockVars, job>>
  PROVE  LockInv'
  BY DEF LockInv, LockTypes, Holders, Shares, Requests, Teams, Exclusions, lockVars

(* A scan begins: the request is queued, nothing is held yet. *)
LEMMA ScanBeginKeeps ==
  ASSUME LockInv, NEW p \in Backend, ScanBegin(p)
  PROVE  LockInv'
  <1> USE BackendAssumption DEF AtBarrier, AtWriter, Consuming, Sharing, Working,
          InCount, LockInv, Request, ScanBegin, Ask, lockVars
  <1>1. LockTypes'
    BY DEF LockTypes
  <1>2. Holders'
    BY DEF LockTypes, Holders, Teams
  <1>3. Shares'
    BY DEF LockTypes, Shares
  <1>4. Requests'
    BY DEF LockTypes, Requests, Shares, Teams
  <1>5. Teams'
    BY DEF LockTypes, Teams
  <1>6. Exclusions'
    BY DEF LockTypes, Exclusions, Holders, Shares, Teams, Requests
  <1> QED BY <1>1, <1>2, <1>3, <1>4, <1>5, <1>6

(* The share is granted only while nobody holds the barrier. *)
LEMMA ScanLockedKeeps ==
  ASSUME LockInv, NEW p \in Backend, ScanLocked(p)
  PROVE  LockInv'
  <1> USE BackendAssumption DEF AtBarrier, AtWriter, Consuming, Sharing, Working,
          InCount, LockInv, Request, ScanLocked, GainShare, Granted, Blockers,
          Leave, lockVars
  <1>1. LockTypes'
    BY DEF LockTypes
  <1>2. Holders'
    BY DEF LockTypes, Holders, Teams
  <1>3. Shares'
    BY DEF LockTypes, Shares
  <1>4. Requests'
    BY DEF LockTypes, Requests, Shares, Teams
  <1>5. Teams'
    BY DEF LockTypes, Teams
  <1>6. Exclusions'
    BY DEF LockTypes, Exclusions, Holders, Shares, Teams, Requests
  <1> QED BY <1>1, <1>2, <1>3, <1>4, <1>5, <1>6

(* A rescan gives its one acquisition back before it asks again. *)
LEMMA ScanRescanKeeps ==
  ASSUME LockInv, NEW p \in Backend, ScanRescan(p)
  PROVE  LockInv'
  <1> USE BackendAssumption DEF AtBarrier, AtWriter, Consuming, Sharing, Working,
          InCount, LockInv, Request, ScanRescan, Ask, DropShare, lockVars
  <1>1. LockTypes'
    BY DEF LockTypes, Shares
  <1>2. Holders'
    BY DEF LockTypes, Holders, Teams
  <1>3. Shares'
    BY DEF LockTypes, Shares
  <1>4. Requests'
    BY DEF LockTypes, Requests, Shares, Teams
  <1>5. Teams'
    BY DEF LockTypes, Teams
  <1>6. Exclusions'
    BY DEF LockTypes, Exclusions, Holders, Shares, Teams, Requests
  <1> QED BY <1>1, <1>2, <1>3, <1>4, <1>5, <1>6

(* The end of a scan gives its one acquisition back. *)
LEMMA ScanEndKeeps ==
  ASSUME LockInv, NEW p \in Backend, ScanEnd(p)
  PROVE  LockInv'
  <1> USE BackendAssumption DEF AtBarrier, AtWriter, Consuming, Sharing, Working,
          InCount, LockInv, Request, ScanEnd, DropShare, lockVars
  <1>1. LockTypes'
    BY DEF LockTypes, Shares
  <1>2. Holders'
    BY DEF LockTypes, Holders, Teams
  <1>3. Shares'
    BY DEF LockTypes, Shares
  <1>4. Requests'
    BY DEF LockTypes, Requests, Shares, Teams
  <1>5. Teams'
    BY DEF LockTypes, Teams
  <1>6. Exclusions'
    BY DEF LockTypes, Exclusions, Holders, Shares, Teams, Requests
  <1> QED BY <1>1, <1>2, <1>3, <1>4, <1>5, <1>6

(* An insertion waits for the writer interlock. *)
LEMMA InsertBeginKeeps ==
  ASSUME LockInv, NEW p \in Backend, NEW d, InsertBegin(p, d)
  PROVE  LockInv'
  <1> USE BackendAssumption DEF AtBarrier, AtWriter, Consuming, Sharing, Working,
          InCount, LockInv, Request, InsertBegin, Ask, lockVars
  <1>1. LockTypes'
    BY DEF LockTypes
  <1>2. Holders'
    BY DEF LockTypes, Holders, Teams
  <1>3. Shares'
    BY DEF LockTypes, Shares
  <1>4. Requests'
    BY DEF LockTypes, Requests, Shares, Teams
  <1>5. Teams'
    BY DEF LockTypes, Teams
  <1>6. Exclusions'
    BY DEF LockTypes, Exclusions, Holders, Shares, Teams, Requests
  <1> QED BY <1>1, <1>2, <1>3, <1>4, <1>5, <1>6

(* The writer interlock is granted only while nobody holds or shares it. *)
LEMMA InsertLockedKeeps ==
  ASSUME LockInv, NEW p \in Backend, InsertLocked(p)
  PROVE  LockInv'
  <1> USE BackendAssumption DEF AtBarrier, AtWriter, Consuming, Sharing, Working,
          InCount, LockInv, Request, InsertLocked, GainWriter, Granted, Blockers,
          Leave, lockVars
  <1>1. LockTypes'
    BY DEF LockTypes
  <1>2. Holders'
    BY DEF LockTypes, Holders, Teams
  <1>3. Shares'
    BY DEF LockTypes, Shares
  <1>4. Requests'
    BY DEF LockTypes, Requests, Shares, Teams
  <1>5. Teams'
    BY DEF LockTypes, Teams
  <1>6. Exclusions'
    BY DEF LockTypes, Exclusions, Holders, Shares, Teams, Requests
  <1> QED BY <1>1, <1>2, <1>3, <1>4, <1>5, <1>6

(* The writer interlock is released before the barrier is asked for. *)
LEMMA InsertDoneKeeps ==
  ASSUME LockInv, NEW p \in Backend, NEW due, InsertDone(p, due)
  PROVE  LockInv'
  <1> USE BackendAssumption DEF AtBarrier, AtWriter, Consuming, Sharing, Working,
          InCount, LockInv, Request, InsertDone, Ask, lockVars
  <1>1. LockTypes'
    BY DEF LockTypes
  <1>2. Holders'
    BY DEF LockTypes, Holders, Teams
  <1>3. Shares'
    BY DEF LockTypes, Shares
  <1>4. Requests'
    BY DEF LockTypes, Requests, Shares, Teams
  <1>5. Teams'
    BY DEF LockTypes, Teams
  <1>6. Exclusions'
    BY DEF LockTypes, Exclusions, Holders, Shares, Teams, Requests
  <1> QED BY <1>1, <1>2, <1>3, <1>4, <1>5, <1>6

(* The barrier is granted only while no other backend shares it. *)
LEMMA BarrierLockedKeeps ==
  ASSUME LockInv, NEW p \in Backend, BarrierLocked(p)
  PROVE  LockInv'
  <1> USE BackendAssumption DEF AtBarrier, AtWriter, Consuming, Sharing, Working,
          InCount, LockInv, Request, BarrierLocked, Granted, Blockers, Sharers,
          lockVars
  <1>1. LockTypes'
    BY DEF LockTypes
  <1>2. Holders'
    BY DEF LockTypes, Holders, Teams
  <1>3. Shares'
    BY DEF LockTypes, Shares
  <1>4. Requests'
    BY DEF LockTypes, Requests, Shares, Teams
  <1>5. Teams'
    BY DEF LockTypes, Teams
  <1>6. Exclusions'
    BY DEF LockTypes, Exclusions, Holders, Shares, Teams, Requests
  <1> QED BY <1>1, <1>2, <1>3, <1>4, <1>5, <1>6

(* The holder of the barrier gets the writer interlock too. *)
LEMMA MaintainLockedKeeps ==
  ASSUME LockInv, NEW p \in Backend, MaintainLocked(p)
  PROVE  LockInv'
  <1> USE BackendAssumption DEF AtBarrier, AtWriter, Consuming, Sharing, Working,
          InCount, LockInv, Request, MaintainLocked, GainWriter, Granted, Blockers,
          Leave, lockVars
  <1>1. LockTypes'
    BY DEF LockTypes
  <1>2. Holders'
    BY DEF LockTypes, Holders, Teams
  <1>3. Shares'
    BY DEF LockTypes, Shares
  <1>4. Requests'
    BY DEF LockTypes, Requests, Shares, Teams
  <1>5. Teams'
    BY DEF LockTypes, Teams
  <1>6. Exclusions'
    BY DEF LockTypes, Exclusions, Holders, Shares, Teams, Requests
  <1> QED BY <1>1, <1>2, <1>3, <1>4, <1>5, <1>6

(* Maintenance releases both locks. *)
LEMMA MaintainDoneKeeps ==
  ASSUME LockInv, NEW p \in Backend, MaintainDone(p)
  PROVE  LockInv'
  <1> USE BackendAssumption DEF AtBarrier, AtWriter, Consuming, Sharing, Working,
          InCount, LockInv, Request, MaintainDone, lockVars
  <1>1. LockTypes'
    BY DEF LockTypes
  <1>2. Holders'
    BY DEF LockTypes, Holders, Teams
  <1>3. Shares'
    BY DEF LockTypes, Shares
  <1>4. Requests'
    BY DEF LockTypes, Requests, Shares, Teams
  <1>5. Teams'
    BY DEF LockTypes, Teams
  <1>6. Exclusions'
    BY DEF LockTypes, Exclusions, Holders, Shares, Teams, Requests
  <1> QED BY <1>1, <1>2, <1>3, <1>4, <1>5, <1>6

(* A vacuum pass waits for the writer interlock. *)
LEMMA VacuumBeginKeeps ==
  ASSUME LockInv, NEW p \in Backend, VacuumBegin(p)
  PROVE  LockInv'
  <1> USE BackendAssumption DEF AtBarrier, AtWriter, Consuming, Sharing, Working,
          InCount, LockInv, Request, VacuumBegin, Ask, lockVars
  <1>1. LockTypes'
    BY DEF LockTypes
  <1>2. Holders'
    BY DEF LockTypes, Holders, Teams
  <1>3. Shares'
    BY DEF LockTypes, Shares
  <1>4. Requests'
    BY DEF LockTypes, Requests, Shares, Teams
  <1>5. Teams'
    BY DEF LockTypes, Teams
  <1>6. Exclusions'
    BY DEF LockTypes, Exclusions, Holders, Shares, Teams, Requests
  <1> QED BY <1>1, <1>2, <1>3, <1>4, <1>5, <1>6

(* Vacuum gets the writer interlock as an insertion does. *)
LEMMA VacuumLockedKeeps ==
  ASSUME LockInv, NEW p \in Backend, VacuumLocked(p)
  PROVE  LockInv'
  <1> USE BackendAssumption DEF AtBarrier, AtWriter, Consuming, Sharing, Working,
          InCount, LockInv, Request, VacuumLocked, GainWriter, Granted, Blockers,
          Leave, lockVars
  <1>1. LockTypes'
    BY DEF LockTypes
  <1>2. Holders'
    BY DEF LockTypes, Holders, Teams
  <1>3. Shares'
    BY DEF LockTypes, Shares
  <1>4. Requests'
    BY DEF LockTypes, Requests, Shares, Teams
  <1>5. Teams'
    BY DEF LockTypes, Teams
  <1>6. Exclusions'
    BY DEF LockTypes, Exclusions, Holders, Shares, Teams, Requests
  <1> QED BY <1>1, <1>2, <1>3, <1>4, <1>5, <1>6

(* Removal releases the writer interlock. *)
LEMMA RemoveDoneKeeps ==
  ASSUME LockInv, NEW p \in Backend, RemoveDone(p)
  PROVE  LockInv'
  <1> USE BackendAssumption DEF AtBarrier, AtWriter, Consuming, Sharing, Working,
          InCount, LockInv, Request, RemoveDone, lockVars
  <1>1. LockTypes'
    BY DEF LockTypes
  <1>2. Holders'
    BY DEF LockTypes, Holders, Teams
  <1>3. Shares'
    BY DEF LockTypes, Shares
  <1>4. Requests'
    BY DEF LockTypes, Requests, Shares, Teams
  <1>5. Teams'
    BY DEF LockTypes, Teams
  <1>6. Exclusions'
    BY DEF LockTypes, Exclusions, Holders, Shares, Teams, Requests
  <1> QED BY <1>1, <1>2, <1>3, <1>4, <1>5, <1>6

(* Vacuum asks for the barrier with no lock in hand. *)
LEMMA HeapCleanKeeps ==
  ASSUME LockInv, NEW p \in Backend, HeapClean(p)
  PROVE  LockInv'
  <1> USE BackendAssumption DEF AtBarrier, AtWriter, Consuming, Sharing, Working,
          InCount, LockInv, Request, HeapClean, Ask, lockVars
  <1>1. LockTypes'
    BY DEF LockTypes
  <1>2. Holders'
    BY DEF LockTypes, Holders, Teams
  <1>3. Shares'
    BY DEF LockTypes, Shares
  <1>4. Requests'
    BY DEF LockTypes, Requests, Shares, Teams
  <1>5. Teams'
    BY DEF LockTypes, Teams
  <1>6. Exclusions'
    BY DEF LockTypes, Exclusions, Holders, Shares, Teams, Requests
  <1> QED BY <1>1, <1>2, <1>3, <1>4, <1>5, <1>6

(* A count begins when no other is under way. *)
LEMMA CountBeginKeeps ==
  ASSUME LockInv, NEW p \in Backend, NEW kind, CountBegin(p, kind)
  PROVE  LockInv'
  <1> USE BackendAssumption DEF AtBarrier, AtWriter, Consuming, Sharing, Working,
          InCount, LockInv, Request, CountBegin, Ask, Counting, NoJob, lockVars
  <1>1. LockTypes'
    BY DEF LockTypes
  <1>2. Holders'
    BY DEF LockTypes, Holders, Teams
  <1>3. Shares'
    BY DEF LockTypes, Shares
  <1>4. Requests'
    BY DEF LockTypes, Requests, Shares, Teams
  <1>5. Teams'
    BY DEF LockTypes, Teams
  <1>6. Exclusions'
    BY DEF LockTypes, Exclusions, Holders, Shares, Teams, Requests
  <1> QED BY <1>1, <1>2, <1>3, <1>4, <1>5, <1>6

(* A count or a worker takes its share: it has waited for it, it has a     *)
(* scan open, or its leader shares the barrier; in each case nobody holds  *)
(* the barrier.                                                            *)
LEMMA CountLockedKeeps ==
  ASSUME LockInv, NEW p \in Backend, CountLocked(p)
  PROVE  LockInv'
  <1> USE BackendAssumption DEF AtBarrier, AtWriter, Consuming, Sharing, Working,
          InCount, LockInv, Request, CountLocked, GainShare, Granted, Blockers,
          Leave, lockVars
  <1>1. LockTypes'
    BY DEF LockTypes
  <1>2. Holders'
    BY DEF LockTypes, Holders, Teams
  <1>3. Shares'
    BY DEF LockTypes, Shares
  <1>4. Requests'
    BY DEF LockTypes, Requests, Shares, Teams
  <1>5. Teams'
    BY DEF LockTypes, Teams
  <1>6. Exclusions'
    BY DEF LockTypes, Exclusions, Holders, Shares, Teams, Requests
  <1> QED BY <1>1, <1>2, <1>3, <1>4, <1>5, <1>6

(* The writer interlock is shared only while nobody holds it. *)
LEMMA ProtectKeeps ==
  ASSUME LockInv, NEW p \in Backend, Protect(p)
  PROVE  LockInv'
  <1> USE BackendAssumption DEF AtBarrier, AtWriter, Consuming, Sharing, Working,
          InCount, LockInv, Request, Protect, lockVars
  <1>1. LockTypes'
    BY DEF LockTypes
  <1>2. Holders'
    BY DEF LockTypes, Holders, Teams
  <1>3. Shares'
    BY DEF LockTypes, Shares
  <1>4. Requests'
    BY DEF LockTypes, Requests, Shares, Teams
  <1>5. Teams'
    BY DEF LockTypes, Teams
  <1>6. Exclusions'
    BY DEF LockTypes, Exclusions, Holders, Shares, Teams, Requests
  <1> QED BY <1>1, <1>2, <1>3, <1>4, <1>5, <1>6

(* A grouped count that is not protected gives the barrier back. *)
LEMMA UnprotectedKeeps ==
  ASSUME LockInv, NEW p \in Backend, Unprotected(p)
  PROVE  LockInv'
  <1> USE BackendAssumption DEF AtBarrier, AtWriter, Consuming, Sharing, Working,
          InCount, LockInv, Request, Unprotected, DropShare, NoJob, lockVars
  <1>1. LockTypes'
    BY DEF LockTypes, Shares
  <1>2. Holders'
    BY DEF LockTypes, Holders, Teams
  <1>3. Shares'
    BY DEF LockTypes, Shares
  <1>4. Requests'
    BY DEF LockTypes, Requests, Shares, Teams
  <1>5. Teams'
    BY DEF LockTypes, Teams
  <1>6. Exclusions'
    BY DEF LockTypes, Exclusions, Holders, Shares, Teams, Requests
  <1> QED BY <1>1, <1>2, <1>3, <1>4, <1>5, <1>6

(* A grouped count gives up its guard and its share. *)
LEMMA GroupedDoneKeeps ==
  ASSUME LockInv, NEW p \in Backend, GroupedDone(p)
  PROVE  LockInv'
  <1> USE BackendAssumption DEF AtBarrier, AtWriter, Consuming, Sharing, Working,
          InCount, LockInv, Request, GroupedDone, DropShare, lockVars
  <1>1. LockTypes'
    BY DEF LockTypes, Shares
  <1>2. Holders'
    BY DEF LockTypes, Holders, Teams
  <1>3. Shares'
    BY DEF LockTypes, Shares
  <1>4. Requests'
    BY DEF LockTypes, Requests, Shares, Teams
  <1>5. Teams'
    BY DEF LockTypes, Teams
  <1>6. Exclusions'
    BY DEF LockTypes, Exclusions, Holders, Shares, Teams, Requests
  <1> QED BY <1>1, <1>2, <1>3, <1>4, <1>5, <1>6

(* Workers join while their leader shares the barrier; without any the     *)
(* count starts again as a serial one.                                     *)
LEMMA LaunchKeeps ==
  ASSUME LockInv, NEW p \in Backend,
         NEW team \in SUBSET Backend, Launch(p, team)
  PROVE  LockInv'
  <1> USE BackendAssumption DEF AtBarrier, AtWriter, Consuming, Sharing, Working,
          InCount, LockInv, Request, Launch, Ask, DropShare, lockVars
  <1>1. LockTypes'
    BY DEF LockTypes, Shares
  <1>2. Holders'
    BY DEF LockTypes, Holders, Teams
  <1>3. Shares'
    BY DEF LockTypes, Shares
  <1>4. Requests'
    BY DEF LockTypes, Requests, Shares, Teams
  <1>5. Teams'
    BY DEF LockTypes, Teams
  <1>6. Exclusions'
    BY DEF LockTypes, Exclusions, Holders, Shares, Teams, Requests
  <1> QED BY <1>1, <1>2, <1>3, <1>4, <1>5, <1>6

(* A participant reads the shared cursor. *)
LEMMA WorkSnapshotKeeps ==
  ASSUME LockInv, NEW p \in Backend, WorkSnapshot(p)
  PROVE  LockInv'
  <1> USE BackendAssumption DEF AtBarrier, AtWriter, Consuming, Sharing, Working,
          InCount, LockInv, Request, WorkSnapshot, lockVars
  <1>1. LockTypes'
    BY DEF LockTypes
  <1>2. Holders'
    BY DEF LockTypes, Holders, Teams
  <1>3. Shares'
    BY DEF LockTypes, Shares
  <1>4. Requests'
    BY DEF LockTypes, Requests, Shares, Teams
  <1>5. Teams'
    BY DEF LockTypes, Teams
  <1>6. Exclusions'
    BY DEF LockTypes, Exclusions, Holders, Shares, Teams, Requests
  <1> QED BY <1>1, <1>2, <1>3, <1>4, <1>5, <1>6

(* A participant claims a page, or loses the claim. *)
LEMMA WorkClaimKeeps ==
  ASSUME LockInv, NEW p \in Backend, WorkClaim(p)
  PROVE  LockInv'
  <1> USE BackendAssumption DEF AtBarrier, AtWriter, Consuming, Sharing, Working,
          InCount, LockInv, Request, WorkClaim, lockVars
  <1>1. LockTypes'
    BY DEF LockTypes
  <1>2. Holders'
    BY DEF LockTypes, Holders, Teams
  <1>3. Shares'
    BY DEF LockTypes, Shares
  <1>4. Requests'
    BY DEF LockTypes, Requests, Shares, Teams
  <1>5. Teams'
    BY DEF LockTypes, Teams
  <1>6. Exclusions'
    BY DEF LockTypes, Exclusions, Holders, Shares, Teams, Requests
  <1> QED BY <1>1, <1>2, <1>3, <1>4, <1>5, <1>6

(* A participant finds no work left. *)
LEMMA WorkDoneKeeps ==
  ASSUME LockInv, NEW p \in Backend, WorkDone(p)
  PROVE  LockInv'
  <1> USE BackendAssumption DEF AtBarrier, AtWriter, Consuming, Sharing, Working,
          InCount, LockInv, Request, WorkDone, lockVars
  <1>1. LockTypes'
    BY DEF LockTypes
  <1>2. Holders'
    BY DEF LockTypes, Holders, Teams
  <1>3. Shares'
    BY DEF LockTypes, Shares
  <1>4. Requests'
    BY DEF LockTypes, Requests, Shares, Teams
  <1>5. Teams'
    BY DEF LockTypes, Teams
  <1>6. Exclusions'
    BY DEF LockTypes, Exclusions, Holders, Shares, Teams, Requests
  <1> QED BY <1>1, <1>2, <1>3, <1>4, <1>5, <1>6

(* The pin is taken under the participant's share. *)
LEMMA OwnerLockKeeps ==
  ASSUME LockInv, NEW p \in Backend, OwnerLock(p)
  PROVE  LockInv'
  <1> USE BackendAssumption DEF AtBarrier, AtWriter, Consuming, Sharing, Working,
          InCount, LockInv, Request, OwnerLock, lockVars
  <1>1. LockTypes'
    BY DEF LockTypes
  <1>2. Holders'
    BY DEF LockTypes, Holders, Teams
  <1>3. Shares'
    BY DEF LockTypes, Shares
  <1>4. Requests'
    BY DEF LockTypes, Requests, Shares, Teams
  <1>5. Teams'
    BY DEF LockTypes, Teams
  <1>6. Exclusions'
    BY DEF LockTypes, Exclusions, Holders, Shares, Teams, Requests
  <1> QED BY <1>1, <1>2, <1>3, <1>4, <1>5, <1>6

(* The pin is dropped before the next claim. *)
LEMMA OwnerUnlockKeeps ==
  ASSUME LockInv, NEW p \in Backend, OwnerUnlock(p)
  PROVE  LockInv'
  <1> USE BackendAssumption DEF AtBarrier, AtWriter, Consuming, Sharing, Working,
          InCount, LockInv, Request, OwnerUnlock, lockVars
  <1>1. LockTypes'
    BY DEF LockTypes
  <1>2. Holders'
    BY DEF LockTypes, Holders, Teams
  <1>3. Shares'
    BY DEF LockTypes, Shares
  <1>4. Requests'
    BY DEF LockTypes, Requests, Shares, Teams
  <1>5. Teams'
    BY DEF LockTypes, Teams
  <1>6. Exclusions'
    BY DEF LockTypes, Exclusions, Holders, Shares, Teams, Requests
  <1> QED BY <1>1, <1>2, <1>3, <1>4, <1>5, <1>6

(* A worker leaves the team with its share. *)
LEMMA AccumulateKeeps ==
  ASSUME LockInv, NEW p \in Backend, Accumulate(p)
  PROVE  LockInv'
  <1> USE BackendAssumption DEF AtBarrier, AtWriter, Consuming, Sharing, Working,
          InCount, LockInv, Request, Accumulate, DropShare, lockVars
  <1>1. LockTypes'
    BY DEF LockTypes, Shares
  <1>2. Holders'
    BY DEF LockTypes, Holders, Teams
  <1>3. Shares'
    BY DEF LockTypes, Shares
  <1>4. Requests'
    BY DEF LockTypes, Requests, Shares, Teams
  <1>5. Teams'
    BY DEF LockTypes, Teams
  <1>6. Exclusions'
    BY DEF LockTypes, Exclusions, Holders, Shares, Teams, Requests
  <1> QED BY <1>1, <1>2, <1>3, <1>4, <1>5, <1>6

(* The leader gives its share back after the last worker. *)
LEMMA GatherKeeps ==
  ASSUME LockInv, NEW p \in Backend, Gather(p)
  PROVE  LockInv'
  <1> USE BackendAssumption DEF AtBarrier, AtWriter, Consuming, Sharing, Working,
          InCount, LockInv, Request, Gather, DropShare, lockVars
  <1>1. LockTypes'
    BY DEF LockTypes, Shares
  <1>2. Holders'
    BY DEF LockTypes, Holders, Teams
  <1>3. Shares'
    BY DEF LockTypes, Shares
  <1>4. Requests'
    BY DEF LockTypes, Requests, Shares, Teams
  <1>5. Teams'
    BY DEF LockTypes, Teams
  <1>6. Exclusions'
    BY DEF LockTypes, Exclusions, Holders, Shares, Teams, Requests
  <1> QED BY <1>1, <1>2, <1>3, <1>4, <1>5, <1>6

(* The count is over. *)
LEMMA CountEndKeeps ==
  ASSUME LockInv, NEW p \in Backend, CountEnd(p)
  PROVE  LockInv'
  <1> USE BackendAssumption DEF AtBarrier, AtWriter, Consuming, Sharing, Working,
          InCount, LockInv, Request, CountEnd, NoJob, lockVars
  <1>1. LockTypes'
    BY DEF LockTypes
  <1>2. Holders'
    BY DEF LockTypes, Holders, Teams
  <1>3. Shares'
    BY DEF LockTypes, Shares
  <1>4. Requests'
    BY DEF LockTypes, Requests, Shares, Teams
  <1>5. Teams'
    BY DEF LockTypes, Teams
  <1>6. Exclusions'
    BY DEF LockTypes, Exclusions, Holders, Shares, Teams, Requests
  <1> QED BY <1>1, <1>2, <1>3, <1>4, <1>5, <1>6

(* Abort cleanup releases all that the backend, or the whole team of its   *)
(* count, holds.                                                           *)
LEMMA AbortKeeps ==
  ASSUME LockInv, NEW p \in Backend, Abort(p)
  PROVE  LockInv'
  <1> USE BackendAssumption DEF AtBarrier, AtWriter, Consuming, Sharing, Working,
          InCount, LockInv, Request, Abort, Aborted, Participants, Counting, NoJob,
          lockVars
  <1>1. LockTypes'
    BY DEF LockTypes
  <1>2. Holders'
    BY DEF LockTypes, Holders, Teams
  <1>3. Shares'
    BY DEF LockTypes, Shares
  <1>4. Requests'
    BY DEF LockTypes, Requests, Shares, Teams
  <1>5. Teams'
    BY DEF LockTypes, Teams
  <1>6. Exclusions'
    BY DEF LockTypes, Exclusions, Holders, Shares, Teams, Requests
  <1> QED BY <1>1, <1>2, <1>3, <1>4, <1>5, <1>6

-----------------------------------------------------------------------------
(* The invariant *)

(* Nobody holds or wants anything in the beginning. *)
LEMMA InitHolds == Init => LockInv
  BY BackendAssumption
     DEF Init, LockInv, LockTypes, Holders, Shares, Requests, Teams, Exclusions, NoJob, Request,
         AtBarrier, AtWriter, Consuming, Sharing, Working, InCount

(* The steps an operation takes by itself keep the invariant. *)
LEMMA ProgressKeeps ==
  ASSUME LockInv, NEW p \in Backend, Progress(p)
  PROVE  LockInv'
  <1>1. CASE \/ ScanLocked(p) \/ InsertLocked(p) \/ BarrierLocked(p) \/ MaintainLocked(p)
             \/ MaintainDone(p) \/ VacuumLocked(p) \/ RemoveDone(p) \/ HeapClean(p)
    BY <1>1, ScanLockedKeeps, InsertLockedKeeps, BarrierLockedKeeps, MaintainLockedKeeps,
       MaintainDoneKeeps, VacuumLockedKeeps, RemoveDoneKeeps, HeapCleanKeeps
  <1>2. CASE \E due \in BOOLEAN : InsertDone(p, due)
    BY <1>2, InsertDoneKeeps
  <1>3. CASE CountLocked(p) \/ Protect(p) \/ Unprotected(p) \/ GroupedDone(p)
    BY <1>3, CountLockedKeeps, ProtectKeeps, UnprotectedKeeps, GroupedDoneKeeps
  <1>4. CASE \E b \in HeapBlock : GroupedPage(p, b)
    BY <1>4, IdleKeeps DEF GroupedPage
  <1>5. CASE \E team \in SUBSET Backend : Launch(p, team)
    BY <1>5, LaunchKeeps
  <1>6. CASE WorkSnapshot(p) \/ WorkClaim(p) \/ WorkDone(p) \/ OwnerLock(p) \/ OwnerUnlock(p)
    BY <1>6, WorkSnapshotKeeps, WorkClaimKeeps, WorkDoneKeeps, OwnerLockKeeps, OwnerUnlockKeeps
  <1>7. CASE \E d \in Doc : Check(p, d) \/ Fetch(p, d)
    BY <1>7, IdleKeeps DEF Check, Fetch
  <1>8. CASE Accumulate(p) \/ Gather(p) \/ CountEnd(p)
    BY <1>8, AccumulateKeeps, GatherKeeps, CountEndKeeps
  <1> QED BY <1>1, <1>2, <1>3, <1>4, <1>5, <1>6, <1>7, <1>8 DEF Progress

(* So do the beginnings of operations. *)
LEMMA StartsKeep ==
  ASSUME LockInv, NEW p \in Backend, Starts(p)
  PROVE  LockInv'
  BY ScanBeginKeeps, ScanRescanKeeps, VacuumBeginKeeps, InsertBeginKeeps, CountBeginKeeps DEF Starts

(* The lock invariant is inductive. *)
LEMMA NextKeeps == LockInv /\ [Next]_vars => LockInv'
  <1> SUFFICES ASSUME LockInv, [Next]_vars
               PROVE  LockInv'
    OBVIOUS
  <1>1. CASE \E d \in Doc : HeapDelete(d)
    BY <1>1, IdleKeeps DEF HeapDelete
  <1>2. CASE \E p \in Backend : Starts(p) \/ Progress(p) \/ ScanEnd(p)
    BY <1>2, StartsKeep, ProgressKeeps, ScanEndKeeps
  <1>3. CASE \E p \in Backend : Cancel(p) \/ DeadlockAbort(p)
    BY <1>3, AbortKeeps DEF Cancel, DeadlockAbort
  <1>4. CASE \E p \in Backend, k \in 1 .. Pages : RemoveOwners(p, k)
    BY <1>4, IdleKeeps DEF RemoveOwners
  <1>5. CASE UNCHANGED vars
    BY <1>5, IdleKeeps DEF vars, lockVars
  <1> QED BY <1>1, <1>2, <1>3, <1>4, <1>5 DEF Next

(* The invariant excludes every pair of holders that ReadersProtected names. *)
LEMMA InvProtects == LockInv => ReadersProtected
  <1> SUFFICES ASSUME LockInv
               PROVE  ReadersProtected
    OBVIOUS
  <1> USE BackendAssumption
          DEF LockInv, LockTypes, Holders, Shares, Exclusions, AtBarrier, AtWriter, Sharing, Consuming
  <1>1. ASSUME NEW p \in Backend, do[p] = "maintain"
        PROVE  /\ Reading \subseteq {p}
               /\ ~Captured
               /\ \A q \in Backend \ {p} : do[q] \notin {"inserting", "remove", "maintain"}
    <2>1. barrier = p /\ writer = p /\ guard = {}
      BY <1>1
    <2>2. \A q \in Backend : q # p => share[q] = 0 /\ do[q] \notin Sharing
      BY <2>1
    <2>3. Reading \subseteq {p}
      BY <2>1, <2>2 DEF Reading, Sharers
    <2>4. ~Captured
      BY <1>1, <2>2 DEF Captured, Counting
    <2> QED BY <2>1, <2>3, <2>4
  <1>2. guard # {} => \A p \in Backend : do[p] \notin {"inserting", "remove", "maintain"}
    OBVIOUS
  <1>3. \A p \in Backend : pin[p] # 0 => share[p] > 0
    OBVIOUS
  <1> QED BY <1>1, <1>2, <1>3 DEF ReadersProtected

(* In every behaviour of any number of backends, whatever is aborted and    *)
(* wherever the deadlock detector strikes, nothing is rewritten beside a    *)
(* reader, a pin or a count's captured work.                                *)
THEOREM ReadersAlwaysProtected == Spec => []ReadersProtected
  <1>1. Spec => []LockInv
    BY InitHolds, NextKeeps, PTL DEF Spec
  <1> QED BY <1>1, InvProtects, PTL

-----------------------------------------------------------------------------
(* The wait queue *)

(* Writer requests queue behind writer requests only, and shares of the    *)
(* barrier behind exclusive requests only.                                 *)
Queues ==
  /\ DOMAIN after = Backend
  /\ \A p \in Backend :
       /\ after[p] \subseteq Backend
       /\ want[p] = "None" => after[p] = {}
       /\ want[p] = "Share" => after[p] \subseteq Waiters({"Exclusive"})
       /\ want[p] = "Exclusive" => after[p] \subseteq Waiters({"Share", "Exclusive"})
       /\ want[p] = "Writer" => after[p] \subseteq Waiters({"Writer"})

(* Who waits for a share has none, and no worker of a count queues.        *)
Unshared ==
  /\ \A p \in Backend : want[p] = "Share" => p \notin open
  /\ \A p \in job.team : want[p] = "None"

(* Nobody queues behind himself, at any distance. *)
Ranked(n, rank) == \A p \in Backend : \A q \in after[p] : rank[q] < rank[p]
Ordered == \E n \in Nat : \E rank \in [Backend -> 0 .. n] : Ranked(n, rank)

(* An upgrade waits for shares that wait for nothing but the barrier, and  *)
(* for other upgrades.                                                     *)
Upgrades ==
  \A p \in open : do[p] = "barrier" =>
    \A q \in after[p] : q \in open \/ (want[q] = "Share" /\ after[q] = {})

QueueInv == Queues /\ Unshared /\ Ordered /\ Upgrades

-----------------------------------------------------------------------------
(* A request joins the queue: behind the earlier ones, before those it     *)
(* overtakes.                                                              *)
LEMMA AskQueues ==
  ASSUME LockTypes, Queues, NEW p \in Backend, NEW request \in Request,
         want[p] = "None", Ask(p, request)
  PROVE  Queues'
  <1>1. ASSUME NEW q \in Backend, q # p
        PROVE  /\ want'[q] = want[q] /\ after[q] \subseteq Backend /\ p \notin after[q]
               /\ after'[q] = IF q \in Overtaken(p, request) THEN after[q] \cup {p} ELSE after[q]
    BY <1>1 DEF Queues, Ask, LockTypes, Waiters, Request
  <1>2. want'[p] = request /\ after'[p] = Earlier(p, request) /\ DOMAIN after' = Backend
    BY DEF Ask, LockTypes
  <1>4. ASSUME NEW requests \in SUBSET Request
        PROVE  Waiters(requests)' = Waiters(requests) \cup (IF request \in requests THEN {p} ELSE {})
    BY <1>1, <1>2, "None" \notin Request DEF Waiters, Request
  <1>3. \A requests \in SUBSET Request : Waiters(requests) \subseteq Waiters(requests)'
    BY <1>4
  <1>5. /\ after'[p] \subseteq Backend
        /\ request = "Share" => after'[p] \subseteq Waiters({"Exclusive"})'
        /\ request = "Exclusive" => after'[p] \subseteq Waiters({"Share", "Exclusive"})'
        /\ request = "Writer" => after'[p] \subseteq Waiters({"Writer"})'
    <2>1. /\ Waiters({"Exclusive"}) \subseteq Waiters({"Exclusive"})'
          /\ Waiters({"Share"}) \subseteq Waiters({"Share", "Exclusive"})
          /\ Waiters({"Share", "Exclusive"}) \subseteq Waiters({"Share", "Exclusive"})'
          /\ Waiters({"Writer"}) \subseteq Waiters({"Writer"})'
          /\ \A requests : Waiters(requests) \subseteq Backend
      BY <1>3 DEF Request, Waiters
    <2> QED BY <1>2, <2>1 DEF Earlier, Request
  <1>6. ASSUME NEW q \in Backend, q # p
        PROVE  /\ after'[q] \subseteq Backend
               /\ want'[q] = "None" => after'[q] = {}
               /\ want'[q] = "Share" => after'[q] \subseteq Waiters({"Exclusive"})'
               /\ want'[q] = "Exclusive" => after'[q] \subseteq Waiters({"Share", "Exclusive"})'
               /\ want'[q] = "Writer" => after'[q] \subseteq Waiters({"Writer"})'
    <2>1. /\ want[q] = "None" => after[q] = {}
          /\ want[q] = "Share" => after[q] \subseteq Waiters({"Exclusive"})
          /\ want[q] = "Exclusive" => after[q] \subseteq Waiters({"Share", "Exclusive"})
          /\ want[q] = "Writer" => after[q] \subseteq Waiters({"Writer"})
      BY DEF Queues
    <2>2. q \in Overtaken(p, request) =>
            request = "Exclusive" /\ want[q] \in {"Share", "Exclusive"}
      BY DEF Overtaken, Waiters, Held
    <2> QED BY <1>1, <1>4, <1>6, <2>1, <2>2 DEF Request
  <1> QED BY <1>2, <1>5, <1>6 DEF Queues, Request

(* A request that overtakes goes right behind shares that nothing holds    *)
(* up; any other goes last.                                                *)
LEMMA AskOrders ==
  ASSUME LockTypes, Queues, Ordered, NEW p \in Backend, NEW request \in Request,
         want[p] = "None", Ask(p, request)
  PROVE  Ordered'
  <1>a. PICK n \in Nat : \E rank \in [Backend -> 0 .. n] : Ranked(n, rank)
    BY DEF Ordered
  <1>1. PICK rank \in [Backend -> 0 .. n] : Ranked(n, rank)
    BY <1>a
  <1>2. ASSUME NEW q \in Backend, q # p
        PROVE  /\ after[q] \subseteq Backend /\ p \notin after[q]
               /\ after'[q] = IF q \in Overtaken(p, request) THEN after[q] \cup {p} ELSE after[q]
    BY <1>2 DEF Queues, Ask, LockTypes, Waiters, Request
  <1>3. after'[p] = Earlier(p, request) /\ p \notin Earlier(p, request) /\ Earlier(p, request) \subseteq Backend
    BY DEF Ask, LockTypes, Earlier, Waiters, Held, Request
  <1>4. CASE Overtaken(p, request) = {}
    <2> DEFINE new == [rank EXCEPT ![p] = n + 1]
    <2>1. new \in [Backend -> 0 .. n + 1]
      OBVIOUS
    <2>2. ASSUME NEW q \in Backend, NEW r \in after'[q]
          PROVE  new[r] < new[q]
      <3>1. CASE q = p
        <4>1. r \in Backend /\ r # p
          BY <3>1, <1>3
        <4>2. rank[r] \in 0 .. n
          BY <4>1
        <4> QED BY <3>1, <4>1, <4>2
      <3>2. CASE q # p
        <4>1. r \in after[q] /\ r # p /\ r \in Backend
          BY <3>2, <1>2, <1>4
        <4>2. rank[r] < rank[q]
          BY <1>1, <4>1 DEF Ranked
        <4> QED BY <3>2, <4>1, <4>2
      <3> QED BY <3>1, <3>2
    <2>3. Ranked(n + 1, new)'
      BY <2>2 DEF Ranked
    <2> HIDE DEF new
    <2> QED BY <2>1, <2>3, n + 1 \in Nat DEF Ordered
  <1>5. CASE Overtaken(p, request) # {}
    <2>1. Earlier(p, request) = Waiters({"Share"}) \ Held
          /\ Overtaken(p, request) = Waiters({"Exclusive"}) \cup Held
      BY <1>5 DEF Earlier, Overtaken
    <2>5. PICK front : front = Earlier(p, request)
      OBVIOUS
    <2> DEFINE new == [q \in Backend |-> IF q = p THEN 1 ELSE IF q \in front THEN 0 ELSE rank[q] + 2]
    <2>2. new \in [Backend -> 0 .. n + 2]
      <3>1. ASSUME NEW q \in Backend PROVE rank[q] \in 0 .. n
        OBVIOUS
      <3> QED BY <3>1
    <2>3. ASSUME NEW q \in Backend, NEW r \in after'[q]
          PROVE  new[r] < new[q]
      <3>1. CASE q = p
        BY <3>1, <1>3, <2>5
      <3>2. CASE q # p /\ r = p
        <4>1. q \in Overtaken(p, request)
          BY <3>2, <1>2
        <4>2. q \notin front
          BY <4>1, <2>1, <2>5 DEF Waiters, Held
        <4>3. rank[q] \in 0 .. n
          OBVIOUS
        <4> QED BY <3>2, <4>2, <4>3
      <3>3. CASE q # p /\ r # p
        <4>1. r \in after[q] /\ r \in Backend
          BY <3>3, <1>2
        <4>2. rank[r] < rank[q] /\ rank[r] \in 0 .. n /\ rank[q] \in 0 .. n
          BY <1>1, <4>1 DEF Ranked
        <4>3. q \notin front
          BY <4>1, <2>1, <2>5 DEF Held
        <4> QED BY <3>3, <4>1, <4>2, <4>3
      <3> QED BY <3>1, <3>2, <3>3
    <2> HIDE DEF new
    <2>4. Ranked(n + 2, new)'
      BY <2>3 DEF Ranked
    <2> QED BY <2>2, <2>4, n + 2 \in Nat DEF Ordered
  <1> QED BY <1>4, <1>5

(* An upgrade that joins the queue waits as the invariant says, and so do  *)
(* the upgrades it overtakes.                                              *)
LEMMA AskUpgrades ==
  ASSUME LockTypes, Queues, Upgrades, NEW p \in Backend, NEW request \in Request,
         want[p] = "None", Ask(p, request),
         \A q \in Backend : q # p => do'[q] = do[q] /\ (q \in open' <=> q \in open),
         open' \subseteq Backend,
         p \in open' /\ do'[p] = "barrier" => request = "Exclusive" /\ share[p] > 0,
         request = "Exclusive" /\ share[p] > 0 => p \in open'
  PROVE  Upgrades'
  <1>1. ASSUME NEW q \in Backend, q # p
        PROVE  /\ want'[q] = want[q] /\ after[q] \subseteq Backend /\ p \notin after[q]
               /\ after'[q] = IF q \in Overtaken(p, request) THEN after[q] \cup {p} ELSE after[q]
    BY <1>1 DEF Queues, Ask, LockTypes, Waiters, Request
  <1>2. ASSUME NEW q \in Backend, q # p, want[q] = "Share", after[q] = {}
        PROVE  want'[q] = "Share" /\ after'[q] = {}
    BY <1>1, <1>2 DEF Overtaken, Waiters, Held
  <1>3. ASSUME NEW q \in open', do'[q] = "barrier", NEW r \in after'[q]
        PROVE  r \in open' \/ (want'[r] = "Share" /\ after'[r] = {})
    <2>1. CASE q = p
      <3>1. r \in Waiters({"Share"}) \ Held
        BY <2>1, <1>3 DEF Ask, Earlier, LockTypes
      <3>2. r \in Backend /\ r # p /\ want[r] = "Share" /\ after[r] = {}
        BY <3>1 DEF Waiters, Held
      <3> QED BY <3>2, <1>2
    <2>2. CASE q # p /\ r = p
      <3>1. q \in Overtaken(p, request)
        BY <2>2, <1>1, <1>3
      <3>2. request = "Exclusive" /\ share[p] > 0
        BY <3>1 DEF Overtaken
      <3> QED BY <2>2, <3>2
    <2>3. CASE q # p /\ r # p
      <3>1. q \in Backend /\ q \in open /\ do[q] = "barrier" /\ r \in after[q] /\ r \in Backend
        BY <2>3, <1>1, <1>3
      <3>2. r \in open \/ (want[r] = "Share" /\ after[r] = {})
        BY <3>1 DEF Upgrades
      <3> QED BY <2>3, <3>1, <3>2, <1>2
    <2> QED BY <2>1, <2>2, <2>3
  <1> QED BY <1>3 DEF Upgrades

(* Backends that leave the queue free those behind them. *)
LEMMA LeaveKeeps ==
  ASSUME LockTypes, Queues, Ordered, Upgrades, NEW gone \in SUBSET Backend,
         want' = [q \in Backend |-> IF q \in gone THEN "None" ELSE want[q]],
         after' = [q \in Backend |-> IF q \in gone THEN {} ELSE after[q] \ gone],
         \A q \in Backend : q \notin gone => do'[q] = do[q] /\ (q \in open' <=> q \in open),
         open' \subseteq Backend
  PROVE  Queues' /\ Ordered' /\ Upgrades'
  <1>1. ASSUME NEW q \in Backend
        PROVE  /\ q \in gone => want'[q] = "None" /\ after'[q] = {}
               /\ q \notin gone => want'[q] = want[q] /\ after'[q] = after[q] \ gone
               /\ after[q] \subseteq Backend
    BY DEF Queues
  <1>2. Queues'
    BY <1>1 DEF Queues, Waiters
  <1>3. Ordered'
    BY <1>1 DEF Ordered, Ranked
  <1>4. ASSUME NEW q \in open', do'[q] = "barrier", NEW r \in after'[q]
        PROVE  r \in open' \/ (want'[r] = "Share" /\ after'[r] = {})
    <2>1. q \in Backend /\ q \notin gone /\ r \in after[q] /\ r \in Backend /\ r \notin gone
      BY <1>1, <1>4
    <2>2. r \in open \/ (want[r] = "Share" /\ after[r] = {})
      BY <1>4, <2>1 DEF Upgrades
    <2> QED BY <1>1, <2>1, <2>2
  <1>5. Upgrades'
    BY <1>4 DEF Upgrades
  <1> QED BY <1>2, <1>3, <1>5

(* One backend leaves. *)
LEMMA LeaveQueue ==
  ASSUME LockTypes, Queues, Ordered, Upgrades, NEW p \in Backend, Leave(p),
         \A q \in Backend : q # p => do'[q] = do[q] /\ (q \in open' <=> q \in open),
         open' \subseteq Backend
  PROVE  Queues' /\ Ordered' /\ Upgrades'
  <1>1. want' = [q \in Backend |-> IF q \in {p} THEN "None" ELSE want[q]]
    BY DEF Leave, LockTypes
  <1>2. after' = [q \in Backend |-> IF q \in {p} THEN {} ELSE after[q] \ {p}]
    BY DEF Leave
  <1> QED BY ONLY <1>1, <1>2, LeaveKeeps, LockTypes, Queues, Ordered, Upgrades, p \in Backend,
             \A q \in Backend : q # p => do'[q] = do[q] /\ (q \in open' <=> q \in open),
             open' \subseteq Backend

(* The queue does not change; no backend that waits for the barrier is     *)
(* touched.                                                                *)
LEMMA QueueUnchanged ==
  ASSUME LockTypes, Queues, Ordered, Upgrades, UNCHANGED <<want, after>>,
         \A q \in Backend : want[q] # "None" => do'[q] = do[q] /\ (q \in open' <=> q \in open),
         \A q \in Backend : want[q] = "None" => do'[q] # "barrier",
         open' \subseteq Backend
  PROVE  Queues' /\ Ordered' /\ Upgrades'
  <1>1. Queues'
    BY DEF Queues, Waiters
  <1>2. Ordered'
    BY DEF Ordered, Ranked
  <1>3. ASSUME NEW q \in open', do'[q] = "barrier", NEW r \in after[q]
        PROVE  r \in open' \/ (want[r] = "Share" /\ after[r] = {})
    <2>1. q \in Backend /\ q \in open /\ do[q] = "barrier"
      BY <1>3
    <2>2. r \in Backend /\ want[r] # "None"
      BY <1>3, <2>1 DEF Queues, Waiters, LockTypes, Request
    <2> QED BY <1>3, <2>1, <2>2 DEF Upgrades
  <1> QED BY <1>1, <1>2, <1>3 DEF Upgrades

(* A request of a backend that does not wait *)
LEMMA AskKeeps ==
  ASSUME LockInv, QueueInv, NEW p \in Backend, NEW request \in Request,
         want[p] = "None", Ask(p, request),
         \A q \in Backend : q # p => do'[q] = do[q] /\ (q \in open' <=> q \in open),
         open' \subseteq Backend,
         p \in open' /\ do'[p] = "barrier" => request = "Exclusive" /\ share[p] > 0,
         request = "Exclusive" /\ share[p] > 0 => p \in open'
  PROVE  Queues' /\ Ordered' /\ Upgrades'
  BY AskQueues, AskOrders, AskUpgrades DEF LockInv, QueueInv

(* A scan asks for its share. *)
LEMMA ScanQueues ==
  ASSUME LockInv, QueueInv, NEW p \in Backend, ScanBegin(p) \/ ScanRescan(p)
  PROVE  QueueInv'
  <1>1. want[p] = "None" /\ p \notin job.team /\ open \subseteq Backend
    BY DEF LockInv, LockTypes, Requests, Teams, Working, Consuming, ScanBegin, ScanRescan
  <1>2. Ask(p, "Share") /\ do' = [do EXCEPT ![p] = "scan"] /\ job' = job
        /\ open' \subseteq open /\ p \notin open' /\ open \subseteq open' \cup {p}
    BY DEF ScanBegin, ScanRescan
  <1>3. /\ \A q \in Backend : q # p => do'[q] = do[q] /\ (q \in open' <=> q \in open)
        /\ do'[p] = "scan"
    BY <1>2 DEF LockInv, LockTypes
  <1>4. Queues' /\ Ordered' /\ Upgrades'
    BY <1>1, <1>2, <1>3, AskKeeps DEF Request
  <1>5. Unshared'
    BY <1>1, <1>2 DEF LockInv, LockTypes, QueueInv, Unshared, Ask
  <1> QED BY <1>4, <1>5 DEF QueueInv

(* An insertion, or a vacuum pass, asks for the writer interlock. *)
LEMMA WriterQueues ==
  ASSUME LockInv, QueueInv, NEW p \in Backend,
         VacuumBegin(p) \/ \E d \in Doc : InsertBegin(p, d)
  PROVE  QueueInv'
  <1>1. want[p] = "None" /\ p \notin job.team /\ open \subseteq Backend
    BY DEF LockInv, LockTypes, Requests, Teams, Working, Consuming, VacuumBegin, InsertBegin
  <1>2. Ask(p, "Writer") /\ job' = job /\ open' = open
        /\ (do' = [do EXCEPT ![p] = "vacuum"] \/ do' = [do EXCEPT ![p] = "insert"])
    BY DEF VacuumBegin, InsertBegin
  <1>3. /\ \A q \in Backend : q # p => do'[q] = do[q]
        /\ do'[p] \in {"vacuum", "insert"}
    BY <1>2 DEF LockInv, LockTypes
  <1>4. Queues' /\ Ordered' /\ Upgrades'
    BY <1>1, <1>2, <1>3, AskKeeps DEF Request
  <1>5. Unshared'
    BY <1>1, <1>2 DEF LockInv, LockTypes, QueueInv, Unshared, Ask
  <1> QED BY <1>4, <1>5 DEF QueueInv

(* Maintenance asks for the exclusive barrier: the only request that may   *)
(* overtake.                                                               *)
LEMMA ExclusiveQueues ==
  ASSUME LockInv, QueueInv, NEW p \in Backend,
         HeapClean(p) \/ InsertDone(p, TRUE)
  PROVE  QueueInv'
  <1>1. want[p] = "None" /\ p \notin job.team /\ open \subseteq Backend
        /\ (share[p] > 0 <=> p \in open)
    BY DEF LockInv, LockTypes, Requests, Teams, Shares, Working, Sharing, Consuming, HeapClean, InsertDone
  <1>2. Ask(p, "Exclusive") /\ job' = job /\ open' = open /\ do' = [do EXCEPT ![p] = "barrier"]
    BY DEF HeapClean, InsertDone
  <1>3. /\ \A q \in Backend : q # p => do'[q] = do[q]
        /\ do'[p] = "barrier"
    BY <1>2 DEF LockInv, LockTypes
  <1>4. Queues' /\ Ordered' /\ Upgrades'
    BY <1>1, <1>2, <1>3, AskKeeps DEF Request
  <1>5. Unshared'
    BY <1>1, <1>2 DEF LockInv, LockTypes, QueueInv, Unshared, Ask
  <1> QED BY <1>4, <1>5 DEF QueueInv

(* An insertion without maintenance leaves the queue alone. *)
LEMMA InsertDoneQueues ==
  ASSUME LockInv, QueueInv, NEW p \in Backend, InsertDone(p, FALSE)
  PROVE  QueueInv'
  <1>1. UNCHANGED <<want, after, open, job>> /\ do' = [do EXCEPT ![p] = "idle"] /\ want[p] = "None"
    BY DEF InsertDone, LockInv, Requests
  <1>2. /\ \A q \in Backend : want[q] # "None" => do'[q] = do[q]
        /\ \A q \in Backend : want[q] = "None" => do'[q] # "barrier"
        /\ open \subseteq Backend
    BY <1>1 DEF LockInv, LockTypes, Requests
  <1>3. Queues' /\ Ordered' /\ Upgrades'
    BY <1>1, <1>2, QueueUnchanged DEF LockInv, QueueInv
  <1>4. Unshared'
    BY <1>1 DEF QueueInv, Unshared
  <1> QED BY <1>3, <1>4 DEF QueueInv

(* A count begins, or falls back to a serial one. *)
LEMMA CountQueues ==
  ASSUME LockInv, QueueInv, NEW p \in Backend,
         \/ \E kind \in {"grouped", "parallel", "serial"} : CountBegin(p, kind)
         \/ \E team \in SUBSET Backend : Launch(p, team)
  PROVE  QueueInv'
  <1>1. want[p] = "None" /\ p \notin job.team /\ open \subseteq Backend
    BY DEF LockInv, LockTypes, Requests, Teams, Working, Consuming, CountBegin, Launch
  <1>2. /\ open' = open
        /\ \A q \in Backend : do'[q] # do[q] => do'[q] \in {"count", "claim"} /\ want[q] = "None"
        /\ \A q \in job'.team : q \in Backend /\ want[q] = "None"
        /\ Ask(p, "Share") => \A q \in Backend : q # p => do'[q] = do[q]
        /\ Ask(p, "Share") => do'[p] = "count" /\ p \notin open /\ p \notin job'.team
        /\ Ask(p, "Share") \/ UNCHANGED <<want, after>>
    <2>1. CASE \E kind \in {"grouped", "parallel", "serial"} : CountBegin(p, kind)
      <3>1. job'.team = {} /\ open' = open /\ do' = [do EXCEPT ![p] = "count"]
        BY <2>1 DEF CountBegin, NoJob
      <3>2. IF share[p] > 0 THEN UNCHANGED <<want, after>> ELSE Ask(p, "Share")
        BY <2>1 DEF CountBegin
      <3>3. share[p] = 0 => p \notin open
        BY DEF LockInv, Shares, LockTypes
      <3>4. share[p] \in Nat
        BY DEF LockInv, LockTypes
      <3>5. Ask(p, "Share") => share[p] = 0 \/ UNCHANGED <<want, after>>
        BY <3>2, <3>4
      <3>6. ~UNCHANGED <<want, after>> \/ ~Ask(p, "Share")
        BY <1>1 DEF Ask, LockInv, LockTypes
      <3> QED BY <1>1, <3>1, <3>2, <3>3, <3>4, <3>5, <3>6 DEF LockInv, LockTypes
    <2>2. ASSUME NEW team \in SUBSET Backend, Launch(p, team), team = {}
          PROVE  <1>2!:
      <3>1. job'.team = job.team /\ open' = open /\ do' = [do EXCEPT ![p] = "count"]
        BY <2>2 DEF Launch, LockInv, LockTypes
      <3>2. IF share[p] > 1 THEN UNCHANGED <<want, after>> ELSE Ask(p, "Share")
        BY <2>2 DEF Launch
      <3>3. share[p] = (IF p \in open THEN 1 ELSE 0) + 1
        BY <2>2 DEF LockInv, Shares, LockTypes, Sharing, Consuming, Launch
      <3>4. ~UNCHANGED <<want, after>> \/ ~Ask(p, "Share")
        BY <1>1 DEF Ask, LockInv, LockTypes
      <3> QED BY <1>1, <3>1, <3>2, <3>3, <3>4 DEF LockInv, LockTypes, QueueInv, Unshared
    <2>3. ASSUME NEW team \in SUBSET Backend, Launch(p, team), team # {}
          PROVE  <1>2!:
      <3>1. /\ job'.team = team /\ open' = open /\ UNCHANGED <<want, after>>
            /\ do' = [q \in Backend |-> IF q = p THEN "claim" ELSE IF q \in team THEN "count" ELSE do[q]]
            /\ \A q \in team : do[q] = "idle"
        BY <2>3 DEF Launch, LockInv, LockTypes
      <3>2. \A q \in team : want[q] = "None"
        BY <3>1 DEF LockInv, Requests
      <3>3. ~Ask(p, "Share")
        BY <1>1, <3>1 DEF Ask, LockInv, LockTypes
      <3> QED BY <1>1, <3>1, <3>2, <3>3
    <2> QED BY <2>1, <2>2, <2>3
  <1>3. Queues' /\ Ordered' /\ Upgrades'
    <2>1. CASE Ask(p, "Share")
      BY <1>1, <1>2, <2>1, AskKeeps DEF Request
    <2>2. CASE UNCHANGED <<want, after>>
      <3>1. /\ \A q \in Backend : want[q] # "None" => do'[q] = do[q]
            /\ \A q \in Backend : want[q] = "None" => do'[q] # "barrier"
        BY <1>2 DEF LockInv, Requests
      <3> QED BY <1>1, <1>2, <2>2, <3>1, QueueUnchanged DEF LockInv, QueueInv
    <2> QED BY <1>2, <2>1, <2>2
  <1>4. Unshared'
    <2>1. CASE Ask(p, "Share")
      BY <1>1, <1>2, <2>1 DEF LockInv, LockTypes, QueueInv, Unshared, Ask
    <2>2. CASE UNCHANGED <<want, after>>
      BY <1>1, <1>2, <2>2 DEF QueueInv, Unshared
    <2> QED BY <1>2, <2>1, <2>2
  <1> QED BY <1>3, <1>4 DEF QueueInv

(* A request is granted: a share of the barrier, *)
LEMMA ShareLeaves ==
  ASSUME LockInv, QueueInv, NEW p \in Backend, ScanLocked(p) \/ CountLocked(p)
  PROVE  QueueInv'
  <1>1. /\ \A q \in Backend : q # p => do'[q] = do[q] /\ (q \in open' <=> q \in open)
        /\ open' \subseteq Backend /\ job' = job /\ do'[p] # "barrier"
    BY DEF LockInv, LockTypes, ScanLocked, CountLocked
  <1>2. Leave(p) \/ (UNCHANGED <<want, after>> /\ want[p] = "None")
    BY DEF ScanLocked, CountLocked, GainShare
  <1>3. Queues' /\ Ordered' /\ Upgrades'
    <2>1. CASE Leave(p)
      BY <1>1, <2>1, LeaveQueue DEF LockInv, QueueInv
    <2>2. CASE UNCHANGED <<want, after>> /\ want[p] = "None"
      <3>1. /\ \A q \in Backend : want[q] # "None" => do'[q] = do[q] /\ (q \in open' <=> q \in open)
            /\ \A q \in Backend : want[q] = "None" => do'[q] # "barrier"
        BY <1>1, <2>2 DEF LockInv, Requests
      <3> QED BY <1>1, <2>2, <3>1, QueueUnchanged DEF LockInv, QueueInv
    <2> QED BY <1>2, <2>1, <2>2
  <1>4. Unshared'
    <2>1. want'[p] = "None" /\ \A q \in Backend : q # p => want'[q] = want[q]
      BY <1>2 DEF Leave, LockInv, LockTypes
    <2>2. job.team \subseteq Backend
      BY DEF LockInv, LockTypes
    <2> QED BY <1>1, <2>1, <2>2 DEF QueueInv, Unshared
  <1> QED BY <1>3, <1>4 DEF QueueInv

(* or the writer interlock. *)
LEMMA WriterLeaves ==
  ASSUME LockInv, QueueInv, NEW p \in Backend,
         InsertLocked(p) \/ MaintainLocked(p) \/ VacuumLocked(p)
  PROVE  QueueInv'
  <1>1. /\ \A q \in Backend : q # p => do'[q] = do[q]
        /\ open' = open /\ open \subseteq Backend /\ job' = job /\ Leave(p)
    BY DEF LockInv, LockTypes, InsertLocked, MaintainLocked, VacuumLocked, GainWriter
  <1>2. Queues' /\ Ordered' /\ Upgrades'
    BY <1>1, LeaveQueue DEF LockInv, QueueInv
  <1>3. Unshared'
    <2>1. want'[p] = "None" /\ \A q \in Backend : q # p => want'[q] = want[q]
      BY <1>1 DEF Leave, LockInv, LockTypes
    <2>2. job.team \subseteq Backend
      BY DEF LockInv, LockTypes
    <2> QED BY <1>1, <2>1, <2>2 DEF QueueInv, Unshared
  <1> QED BY <1>2, <1>3 DEF QueueInv

(* Maintenance has the barrier, leaves that queue and joins the other. *)
LEMMA BarrierQueues ==
  ASSUME LockInv, QueueInv, NEW p \in Backend, BarrierLocked(p)
  PROVE  QueueInv'
  <1>1. /\ \A q \in Backend : q # p => do'[q] = do[q] /\ want'[q] = want[q] /\ after'[q] = after[q] \ {p}
        /\ want[p] = "Exclusive" /\ want'[p] = "Writer" /\ after'[p] = Waiters({"Writer"})
        /\ open' = open /\ job' = job /\ do'[p] = "interlock" /\ DOMAIN after' = Backend
        /\ p \notin Waiters({"Writer"})
    BY DEF BarrierLocked, Granted, LockInv, LockTypes, Waiters
  <1>2. open \subseteq Backend /\ p \notin job.team /\ \A q \in Backend : after[q] \subseteq Backend
    BY <1>1 DEF LockInv, LockTypes, QueueInv, Queues, Unshared
  <1>3. Queues'
    BY <1>1, <1>2 DEF QueueInv, Queues, Waiters
  <1>4. Ordered'
    <2>a. PICK n \in Nat : \E rank \in [Backend -> 0 .. n] : Ranked(n, rank)
      BY DEF QueueInv, Ordered
    <2>1. PICK rank \in [Backend -> 0 .. n] : Ranked(n, rank)
      BY <2>a
    <2> DEFINE new == [rank EXCEPT ![p] = n + 1]
    <2>2. new \in [Backend -> 0 .. n + 1]
      OBVIOUS
    <2>3. ASSUME NEW q \in Backend, NEW r \in after'[q]
          PROVE  new[r] < new[q]
      <3>1. r \in Backend /\ r # p
        BY <1>1, <1>2, <2>3 DEF Waiters
      <3>2. rank[r] \in 0 .. n /\ rank[q] \in 0 .. n
        BY <3>1
      <3>3. q # p => rank[r] < rank[q]
        BY <1>1, <2>1 DEF Ranked
      <3> QED BY <3>1, <3>2, <3>3
    <2> HIDE DEF new
    <2>4. Ranked(n + 1, new)'
      BY <2>3 DEF Ranked
    <2> QED BY <2>2, <2>4, n + 1 \in Nat DEF Ordered
  <1>5. Upgrades'
    <2>1. ASSUME NEW q \in open, do'[q] = "barrier", NEW r \in after'[q]
          PROVE  r \in open \/ (want'[r] = "Share" /\ after'[r] = {})
      <3>1. q \in Backend /\ q # p /\ do[q] = "barrier" /\ r \in after[q] /\ r # p /\ r \in Backend
        BY <1>1, <1>2, <2>1
      <3>2. r \in open \/ (want[r] = "Share" /\ after[r] = {})
        BY <3>1, <2>1 DEF QueueInv, Upgrades
      <3> QED BY <1>1, <3>1, <3>2
    <2> QED BY <1>1, <2>1 DEF Upgrades
  <1>6. Unshared'
    BY <1>1, <1>2 DEF QueueInv, Unshared, LockInv, LockTypes
  <1> QED BY <1>3, <1>4, <1>5, <1>6 DEF QueueInv

(* An abort takes whole teams out of the queue. *)
LEMMA AbortQueues ==
  ASSUME LockInv, QueueInv, NEW p \in Backend, Abort(p)
  PROVE  QueueInv'
  <1>1. PICK gone : gone = Aborted(p)
    OBVIOUS
  <1>2. gone \subseteq Backend
    BY <1>1 DEF Aborted, Participants, Counting, LockInv, LockTypes
  <1>3. /\ want' = [q \in Backend |-> IF q \in gone THEN "None" ELSE want[q]]
        /\ after' = [q \in Backend |-> IF q \in gone THEN {} ELSE after[q] \ gone]
        /\ do' = [q \in Backend |-> IF q \in gone THEN "idle" ELSE do[q]]
        /\ open' = open \ gone
    BY <1>1 DEF Abort
  <1>4. Queues' /\ Ordered' /\ Upgrades'
    <2>1. /\ \A q \in Backend : q \notin gone => do'[q] = do[q] /\ (q \in open' <=> q \in open)
          /\ open' \subseteq Backend
      BY <1>3 DEF LockInv, LockTypes
    <2> QED BY <1>2, <1>3, <2>1, LeaveKeeps DEF LockInv, QueueInv
  <1>5. job'.team \subseteq job.team
    BY DEF Abort, NoJob
  <1>6. Unshared'
    BY <1>3, <1>5 DEF QueueInv, Unshared, LockInv, LockTypes
  <1> QED BY <1>4, <1>6 DEF QueueInv

(* A step that neither asks, nor is granted, nor gives up *)
LEMMA OthersQueue ==
  ASSUME LockInv, QueueInv, UNCHANGED <<want, after>>, open' \subseteq open, job'.team \subseteq job.team,
         \A q \in Backend : do'[q] # do[q] \/ (q \in open /\ q \notin open') =>
           want[q] = "None" /\ do'[q] # "barrier"
  PROVE  QueueInv'
  <1>1. /\ \A q \in Backend : want[q] # "None" => do'[q] = do[q] /\ (q \in open' <=> q \in open)
        /\ \A q \in Backend : want[q] = "None" => do'[q] # "barrier"
        /\ open' \subseteq Backend
    BY DEF LockInv, LockTypes, Requests
  <1>2. Queues' /\ Ordered' /\ Upgrades'
    BY <1>1, QueueUnchanged DEF LockInv, QueueInv
  <1>3. Unshared'
    BY DEF QueueInv, Unshared
  <1> QED BY <1>2, <1>3 DEF QueueInv

(* The steps of a backend that holds what it needs: of scans, maintenance  *)
(* and vacuum,                                                             *)
LEMMA HoldersQueue ==
  ASSUME LockInv, QueueInv, NEW p \in Backend,
         ScanEnd(p) \/ MaintainDone(p) \/ RemoveDone(p)
  PROVE  QueueInv'
  <1>1. UNCHANGED <<want, after, job>> /\ open' \subseteq open /\ open \subseteq open' \cup {p}
        /\ (do' = do \/ do' = [do EXCEPT ![p] = "heap"] \/ do' = [do EXCEPT ![p] = "idle"])
    BY DEF ScanEnd, MaintainDone, RemoveDone
  <1>2. want[p] = "None" /\ do[p] # "barrier"
    BY DEF LockInv, Requests, ScanEnd, MaintainDone, RemoveDone
  <1>3. \A q \in Backend : q # p => do'[q] = do[q]
    BY <1>1 DEF LockInv, LockTypes
  <1>4. do'[p] # "barrier"
    BY <1>1, <1>2 DEF LockInv, LockTypes
  <1> QED BY <1>1, <1>2, <1>3, <1>4, OthersQueue

(* and of counts.                                                          *)
LEMMA CountersQueue ==
  ASSUME LockInv, QueueInv, NEW p \in Backend,
         \/ Protect(p) \/ Unprotected(p) \/ GroupedDone(p)
         \/ WorkSnapshot(p) \/ WorkClaim(p) \/ WorkDone(p) \/ OwnerLock(p) \/ OwnerUnlock(p)
         \/ Accumulate(p) \/ Gather(p) \/ CountEnd(p)
  PROVE  QueueInv'
  <1> DEFINE Counts == Sharing \cup {"report"}
  <1>1. /\ UNCHANGED <<want, after, open>> /\ do[p] \in Counts /\ DOMAIN do = Backend
        /\ \E step \in Counts \cup {"idle"} : do' = [do EXCEPT ![p] = step]
    <2> USE DEF Sharing, Consuming, lockVars, LockInv, LockTypes
    <2>1. CASE Protect(p) \/ Unprotected(p) \/ GroupedDone(p)
      BY <2>1 DEF Protect, Unprotected, GroupedDone
    <2>2. CASE WorkSnapshot(p) \/ WorkDone(p) \/ OwnerLock(p) \/ OwnerUnlock(p)
      BY <2>2 DEF WorkSnapshot, WorkDone, OwnerLock, OwnerUnlock
    <2>3. CASE WorkClaim(p)
      BY <2>3 DEF WorkClaim
    <2>4. CASE Accumulate(p) \/ Gather(p) \/ CountEnd(p)
      BY <2>4 DEF Accumulate, Gather, CountEnd
    <2> QED BY <2>1, <2>2, <2>3, <2>4
  <1>2. want[p] = "None"
    BY <1>1 DEF LockInv, Requests, Sharing, Consuming
  <1>3. do'[p] # "barrier" /\ \A q \in Backend : q # p => do'[q] = do[q]
    BY <1>1 DEF Sharing, Consuming
  <1>4. job'.team \subseteq job.team
    <2> USE DEF LockInv, LockTypes
    <2>1. CASE Unprotected(p) \/ CountEnd(p)
      BY <2>1 DEF Unprotected, CountEnd, NoJob
    <2>2. CASE GroupedDone(p)
      BY <2>2 DEF GroupedDone
    <2>3. CASE WorkClaim(p)
      BY <2>3 DEF WorkClaim
    <2>4. CASE Accumulate(p)
      BY <2>4 DEF Accumulate
    <2>5. CASE Protect(p) \/ WorkSnapshot(p) \/ WorkDone(p) \/ OwnerLock(p) \/ OwnerUnlock(p) \/ Gather(p)
      BY <2>5 DEF Protect, WorkSnapshot, WorkDone, OwnerLock, OwnerUnlock, Gather
    <2> QED BY <2>1, <2>2, <2>3, <2>4, <2>5
  <1> QED BY <1>1, <1>2, <1>3, <1>4, OthersQueue

(* The queue invariant is inductive beside the lock invariant. *)
LEMMA NextQueues == LockInv /\ QueueInv /\ [Next]_vars => QueueInv'
  <1> SUFFICES ASSUME LockInv, QueueInv, [Next]_vars
               PROVE  QueueInv'
    OBVIOUS
  <1>1. CASE \/ \E d \in Doc : HeapDelete(d)
             \/ \E p \in Backend, k \in 1 .. Pages : RemoveOwners(p, k)
             \/ \E p \in Backend : \E b \in HeapBlock : GroupedPage(p, b)
             \/ \E p \in Backend : \E d \in Doc : Check(p, d) \/ Fetch(p, d)
             \/ UNCHANGED vars
    <2>1. UNCHANGED <<want, after, open, job, do>>
      BY <1>1 DEF HeapDelete, RemoveOwners, GroupedPage, Check, Fetch, vars, lockVars
    <2> QED BY <2>1, OthersQueue
  <1>2. ASSUME NEW p \in Backend, Starts(p) PROVE QueueInv'
    BY <1>2, ScanQueues, WriterQueues, CountQueues DEF Starts
  <1>3. ASSUME NEW p \in Backend, NEW due \in BOOLEAN, InsertDone(p, due) PROVE QueueInv'
    <2>1. due = TRUE \/ due = FALSE
      OBVIOUS
    <2> QED BY <1>3, <2>1, ExclusiveQueues, InsertDoneQueues
  <1>4. ASSUME NEW p \in Backend, Progress(p), ~\E due \in BOOLEAN : InsertDone(p, due),
               ~\E b \in HeapBlock : GroupedPage(p, b), ~\E d \in Doc : Check(p, d) \/ Fetch(p, d)
        PROVE  QueueInv'
    BY <1>4, ShareLeaves, WriterLeaves, BarrierQueues, ExclusiveQueues, CountQueues, HoldersQueue,
       CountersQueue DEF Progress
  <1>5. ASSUME NEW p \in Backend, ScanEnd(p) \/ Cancel(p) \/ DeadlockAbort(p) PROVE QueueInv'
    BY <1>5, HoldersQueue, AbortQueues DEF Cancel, DeadlockAbort
  <1> QED BY <1>1, <1>2, <1>3, <1>4, <1>5 DEF Next

(* Nobody waits at the beginning. *)
LEMMA InitQueues == Init => QueueInv
  <1> SUFFICES ASSUME Init PROVE QueueInv
    OBVIOUS
  <1>1. Queues /\ Unshared /\ Upgrades
    BY DEF Init, Queues, Unshared, Upgrades, NoJob
  <1>2. [p \in Backend |-> 0] \in [Backend -> 0 .. 0] /\ Ranked(0, [p \in Backend |-> 0])
    BY DEF Init, Ranked
  <1>3. Ordered
    BY <1>2 DEF Ordered
  <1> QED BY <1>1, <1>3 DEF QueueInv

-----------------------------------------------------------------------------
(* Who waits, and for whom *)

(* A backend that neither queues, nor cleans a page up, nor gathers waits  *)
(* for nobody.                                                             *)
LEMMA NoWait ==
  ASSUME NEW p \in Backend, want[p] = "None", do[p] \notin {"remove", "gather"}
  PROVE  WaitsFor(p) = {}
  BY DEF WaitsFor, Blockers

(* So nobody in a circle has a pin, shares the writer interlock, or works  *)
(* for a count.                                                            *)
LEMMA CircleQueues ==
  ASSUME LockInv, QueueInv, owners \subseteq Doc, NEW team \in SUBSET Backend, Stuck(team),
         NEW p \in team
  PROVE  want[p] \in Request
  <1>1. ASSUME NEW q \in team, want[q] = "None" PROVE do[q] \in {"remove", "gather"}
    BY <1>1, NoWait DEF Stuck
  <1>2. do[p] # "gather"
    <2> SUFFICES ASSUME do[p] = "gather" PROVE FALSE
      OBVIOUS
    <2>1. want[p] = "None"
      BY DEF LockInv, Requests
    <2>2. WaitsFor(p) = job.team
      BY <2>1 DEF WaitsFor, Blockers
    <2>3. PICK q \in team : q \in job.team
      BY <2>2 DEF Stuck
    <2>4. want[q] = "None" /\ do[q] \in Working
      BY <2>3 DEF LockInv, Teams, QueueInv, Unshared
    <2> QED BY <1>1, <2>4 DEF Working, Consuming
  <1>3. do[p] # "remove"
    <2> SUFFICES ASSUME do[p] = "remove" PROVE FALSE
      OBVIOUS
    <2>1. want[p] = "None"
      BY DEF LockInv, Requests
    <2>2. WaitsFor(p) = UNION {Pinners(PageOf[d]) : d \in dead \cap owners}
      BY <2>1 DEF WaitsFor, Blockers
    <2>3. PICK q \in team : \E d \in dead \cap owners : q \in Pinners(PageOf[d])
      BY <2>2 DEF Stuck
    <2>4. pin[q] # 0
      BY <2>3, PageAssumption DEF Pinners
    <2>5. do[q] = "check"
      BY <2>4 DEF LockInv, Holders
    <2>6. want[q] = "None"
      BY <2>5 DEF LockInv, Requests
    <2> QED BY <1>1, <2>5, <2>6
  <1>4. want[p] # "None"
    BY <1>1, <1>2, <1>3
  <1> QED BY <1>4 DEF LockInv, LockTypes

(* A nonempty set of backends has one that queues behind none of them. *)
LEMMA FirstInQueue ==
  ASSUME Ordered, NEW team \in SUBSET Backend, team # {}
  PROVE  \E p \in team : after[p] \cap team = {}
  <1>1. PICK n \in Nat : \E rank \in [Backend -> 0 .. n] : Ranked(n, rank)
    BY DEF Ordered
  <1>2. PICK rank \in [Backend -> 0 .. n] : Ranked(n, rank)
    BY <1>1
  <1> DEFINE ranks == {rank[p] : p \in team}
  <1>3. ranks \subseteq Nat /\ ranks # {}
    OBVIOUS
  <1>4. PICK least \in ranks : \A r \in ranks : least <= r
    BY <1>3, LeastElement
  <1>5. PICK p \in team : rank[p] = least
    BY <1>4
  <1>6. ASSUME NEW q \in team, q \in after[p] PROVE FALSE
    <2>1. rank[q] < rank[p]
      BY <1>2, <1>6 DEF Ranked
    <2>2. rank[p] <= rank[q] /\ rank[p] \in Nat /\ rank[q] \in Nat
      BY <1>3, <1>4, <1>5
    <2> QED BY <2>1, <2>2
  <1> QED BY <1>6

(* Nobody in a circle waits for the writer interlock: its holder, and      *)
(* whoever shares it, goes on without waiting for a member.                *)
LEMMA CircleForBarrier ==
  ASSUME LockInv, QueueInv, owners \subseteq Doc, NEW team \in SUBSET Backend, Stuck(team),
         NEW p \in team
  PROVE  want[p] \in {"Share", "Exclusive"}
  <1>1. \A q \in team : want[q] \in Request
    BY CircleQueues
  <1> DEFINE writers == {q \in team : want[q] = "Writer"}
  <1> SUFFICES ASSUME writers # {} PROVE FALSE
    BY <1>1 DEF Request
  <1>2. PICK q \in writers : after[q] \cap writers = {}
    BY FirstInQueue DEF QueueInv
  <1>3. PICK r \in team : r \in WaitsFor(q)
    BY <1>2 DEF Stuck
  <1>4. do[q] \notin {"remove", "gather"}
    BY <1>2 DEF LockInv, Requests
  <1>5. r \in after[q] \cup {writer} \cup guard
    BY <1>2, <1>3, <1>4 DEF WaitsFor, Blockers
  <1>6. r \notin after[q]
    BY <1>2 DEF QueueInv, Queues, Waiters
  <1>7. do[r] \in AtWriter \cup {"page"}
    BY <1>5, <1>6 DEF LockInv, Holders
  <1>8. want[r] = "None"
    BY <1>7 DEF LockInv, Requests, AtWriter
  <1> QED BY <1>1, <1>8 DEF Request

(* What a member of a circle waits for is another member in the queue for  *)
(* the barrier, or an upgrade whose share is in its way.                   *)
LEMMA CircleEdges ==
  ASSUME LockInv, QueueInv, owners \subseteq Doc, NEW team \in SUBSET Backend, Stuck(team),
         NEW p \in team
  PROVE  \E q \in team : /\ q # p
                         /\ \/ q \in after[p]
                            \/ want[p] = "Exclusive" /\ do[q] = "barrier" /\ q \in open
  <1>1. \A q \in team : want[q] \in {"Share", "Exclusive"}
    BY CircleForBarrier
  <1>2. PICK q \in team : q \in WaitsFor(p)
    BY DEF Stuck
  <1>3. do[p] \notin {"remove", "gather"}
    BY <1>1 DEF LockInv, Requests
  <1>4. q # p /\ (q \in after[p] \/ q = barrier \/ (want[p] = "Exclusive" /\ share[q] > 0))
    BY <1>1, <1>2, <1>3 DEF WaitsFor, Blockers, Sharers
  <1>5. q # barrier
    BY <1>1 DEF LockInv, Holders, Requests, AtBarrier
  <1>6. ASSUME share[q] > 0 PROVE do[q] = "barrier" /\ q \in open
    <2>1. do[q] \in {"scan", "barrier", "count"}
      BY <1>1 DEF LockInv, Requests
    <2>2. q \in open
      BY <1>6, <2>1 DEF LockInv, Shares, Sharing, Consuming
    <2>3. want[q] # "Share"
      BY <2>2 DEF QueueInv, Unshared
    <2> QED BY <1>1, <2>1, <2>2, <2>3 DEF LockInv, Requests
  <1> QED BY <1>4, <1>5, <1>6

(* An upgrade waits for every other one. *)
LEMMA UpgradesCollide ==
  ASSUME LockInv, NEW p \in Backend, NEW q \in Backend, p # q,
         do[p] = "barrier", p \in open, do[q] = "barrier", q \in open
  PROVE  q \in WaitsFor(p)
  <1>1. want[p] = "Exclusive" /\ share[q] > 0
    BY DEF LockInv, Requests, Shares
  <1>2. q # NoBackend
    BY BackendAssumption
  <1> QED BY <1>1, <1>2 DEF WaitsFor, Blockers, Sharers

(* A circle has an upgrade in it: the first of its members in the queue    *)
(* waits for one.  It has two, because an upgrade waits for shares that    *)
(* wait for no member, and for upgrades.  Two make a circle of their own.  *)
LEMMA InvNoCycles ==
  ASSUME LockInv, QueueInv, owners \subseteq Doc
  PROVE  DeadlockOnlyByUpgrade
  <1> SUFFICES ASSUME NEW team \in SUBSET Backend, Cycle(team)
               PROVE  \A p \in team : do[p] = "barrier" /\ p \in open
    BY DEF DeadlockOnlyByUpgrade
  <1>1. Stuck(team) /\ team # {}
    BY DEF Cycle, Stuck
  <1>2. PICK first \in team : after[first] \cap team = {}
    BY <1>1, FirstInQueue DEF QueueInv
  <1>3. PICK u \in team : do[u] = "barrier" /\ u \in open
    BY <1>1, <1>2, CircleEdges
  <1>4. PICK v \in team : v # u /\ (v \in after[u] \/ (do[v] = "barrier" /\ v \in open))
    BY <1>1, CircleEdges
  <1>5. \E w \in team : w # u /\ do[w] = "barrier" /\ w \in open
    <2>1. CASE do[v] = "barrier" /\ v \in open
      BY <1>4, <2>1
    <2>2. CASE v \in after[u] /\ ~(do[v] = "barrier" /\ v \in open)
      <3>1. v \in open \/ (want[v] = "Share" /\ after[v] = {})
        BY <1>3, <2>2 DEF QueueInv, Upgrades
      <3>2. PICK x \in team : /\ x # v
                              /\ \/ x \in after[v]
                                 \/ want[v] = "Exclusive" /\ do[x] = "barrier" /\ x \in open
        BY <1>1, CircleEdges
      <3>3. want[v] \in {"Share", "Exclusive"}
        BY <1>1, CircleForBarrier
      <3>4. want[v] = "Exclusive" => do[v] = "barrier"
        BY DEF LockInv, Requests
      <3>5. v \in open => want[v] # "Share"
        BY DEF QueueInv, Unshared
      <3> QED BY <2>2, <3>1, <3>2, <3>3, <3>4, <3>5
    <2> QED BY <1>4, <2>1, <2>2
  <1>6. PICK w \in team : w # u /\ do[w] = "barrier" /\ w \in open
    BY <1>5
  <1>7. w \in WaitsFor(u) /\ u \in WaitsFor(w)
    BY <1>3, <1>6, UpgradesCollide
  <1>8. Stuck({u, w})
    BY <1>7 DEF Stuck
  <1>9. team = {u, w}
    BY <1>8 DEF Cycle
  <1> QED BY <1>3, <1>6, <1>9

-----------------------------------------------------------------------------
(* What a count has counted *)

HeapState == {"absent", "inserting", "live", "deleted", "unused"}

TableTypes ==
  /\ heap \in [Doc -> HeapState]
  /\ vm \in [HeapBlock -> BOOLEAN]
  /\ owners \subseteq Doc /\ posted \subseteq Doc /\ dead \subseteq Doc
  /\ mine \in [Backend -> Doc \cup {NoDoc}]

(* Every insertion has a tuple of its own, and has published its owner     *)
(* before maintenance begins.                                              *)
Inserting ==
  \A p \in Backend :
    /\ do[p] \in {"insert", "inserting"} => mine[p] # NoDoc
    /\ mine[p] # NoDoc =>
         /\ do[p] \in {"insert", "inserting", "barrier", "interlock", "maintain"}
         /\ heap[mine[p]] = "inserting"
         /\ do[p] \in {"barrier", "interlock", "maintain"} => mine[p] \in owners \cap posted
         /\ \A q \in Backend : mine[q] = mine[p] => q = p

(* Owners, postings and tuples: a live tuple is in the index, an owner has *)
(* a tuple, and vacuum removes the owners of what it found dead before it  *)
(* frees the tuples.                                                       *)
Tuples ==
  /\ \A d \in owners : heap[d] \notin {"absent", "unused"}
  /\ \A d \in Doc : heap[d] = "live" => d \in owners \cap posted
  /\ \A d \in dead : heap[d] = "deleted"
  /\ \A p \in Backend : do[p] = "heap" => dead \cap owners = {}

(* The documents a count must find stay in the index and in the heap, and  *)
(* an all-visible bit holds for the snapshot of the count.                 *)
Snapshot ==
  /\ job.snap \subseteq (owners \cap posted) \ dead
  /\ \A d \in job.snap : heap[d] \in {"live", "deleted"}
  /\ \A b \in HeapBlock : vm[b] => AllVisible(b, heap)

TableInv == TableTypes /\ Inserting /\ Tuples /\ Snapshot

Part == [seen : Nat, blocks : SUBSET HeapBlock, pending : SUBSET Doc, incoming : SUBSET Doc,
         live : SUBSET Doc, fetch : SUBSET Doc, tally : Nat]

WorkTypes ==
  /\ part \in [Backend -> Part]
  /\ job.snap \subseteq Doc /\ job.work \in 1 .. Pages + 1 /\ job.total \in Nat

(* What a participant has claimed and not yet decided *)
Hand(p) == part[p].pending \cup part[p].fetch
             \cup (IF do[p] \in {"flush", "check"} THEN part[p].incoming ELSE {})

Participant(p) ==
  /\ do[p] \notin {"page", "claim", "try", "flush", "check", "accumulate"} => part[p] = NoPart
  /\ do[p] \notin {"try", "flush", "check"} => part[p].incoming = {}
  /\ do[p] # "check" => part[p].fetch = {}
  /\ do[p] = "flush" => part[p].pending # {}
  /\ do[p] = "accumulate" => part[p].pending = {}
  /\ do[p] \in {"accumulate", "gather"} => job.work > Pages
  /\ do[p] \in Consuming \cup {"capture"} => job.kind # "grouped"
  /\ do[p] \in {"protect", "page"} => job.kind = "grouped"

(* One owner page at a time is in hand, and behind it what was claimed     *)
(* after it.                                                               *)
Claims(p) ==
  /\ \A d, e \in part[p].pending : PageOf[d] = PageOf[e]
  /\ \A d, e \in part[p].incoming : PageOf[d] = PageOf[e]
  /\ part[p].pending \cap part[p].fetch = {}
  /\ part[p].incoming \cap (part[p].pending \cup part[p].fetch) = {}
  /\ \A d \in Hand(p) : PageOf[d] < job.work
  /\ do[p] = "try" =>
       /\ part[p].seen \in 1 .. Pages
       /\ \A d \in part[p].incoming : PageOf[d] = part[p].seen
       /\ \A d \in job.snap : PageOf[d] = part[p].seen => d \in part[p].incoming

(* Under its pin a participant knows the owners of the page. *)
Pinned(p) ==
  do[p] = "check" =>
    /\ part[p].live \subseteq owners
    /\ \A d \in part[p].live : PageOf[d] = pin[p]
    /\ part[p].pending \cap job.snap \subseteq part[p].live

Apart == \A p, q \in Backend : p # q => Hand(p) \cap Hand(q) = {}

(* The documents counted so far, and the account each was entered in: that *)
(* of a participant, or the total.                                         *)
Counted == {d \in job.snap : PageOf[d] < job.work /\ \A p \in Backend : d \notin Hand(p)}
Entered(by, p) == {d \in Counted : by[d] = p}

Books(by) ==
  /\ job.total = Cardinality(Entered(by, NoBackend))
  /\ \A p \in Backend : part[p].tally = Cardinality(Entered(by, p))

Accounts == job.kind # "grouped" => \E by \in [Doc -> Backend \cup {NoBackend}] : Books(by)

(* The grouped count goes through the heap blocks. *)
Grouped ==
  \A p \in Backend : do[p] = "page" =>
    part[p].tally = Cardinality({d \in job.snap : BlockOf[d] \notin part[p].blocks})

Participating == \A p \in Backend : Participant(p) /\ Claims(p) /\ Pinned(p)

WorkInv == WorkTypes /\ Participating /\ Apart /\ Accounts /\ Grouped /\ CountExact

-----------------------------------------------------------------------------
(* The tables *)

(* Steps that leave the tables and the snapshot alone, or end the count *)
LEMMA TablesKept ==
  ASSUME LockTypes, TableInv, UNCHANGED <<heap, vm, owners, posted, dead, mine>>,
         UNCHANGED <<job.leader, job.snap>> \/ job' = NoJob,
         \A q \in Backend : do'[q] # do[q] =>
           /\ do'[q] \in {"insert", "inserting"} => mine[q] # NoDoc
           /\ mine[q] # NoDoc =>
                /\ do'[q] \in {"insert", "inserting", "barrier", "interlock", "maintain"}
                /\ do'[q] \in {"barrier", "interlock", "maintain"} => mine[q] \in owners \cap posted
           /\ do'[q] = "heap" => dead \cap owners = {}
  PROVE  TableInv'
  <1>1. TableTypes'
    BY DEF TableInv, TableTypes
  <1>2. Inserting'
    BY DEF TableInv, Inserting
  <1>3. Tuples'
    BY DEF TableInv, Tuples
  <1>4. Snapshot'
    <2>1. CASE UNCHANGED <<job.leader, job.snap>>
      BY <2>1 DEF TableInv, Snapshot, AllVisible, Counting
    <2>2. CASE job' = NoJob
      <3>1. job'.snap = {} /\ ~Counting'
        BY <2>2 DEF NoJob, Counting
      <3> QED BY <3>1 DEF TableInv, Snapshot, AllVisible
    <2> QED BY <2>1, <2>2
  <1> QED BY <1>1, <1>2, <1>3, <1>4 DEF TableInv

(* A step of one backend that inserts and removes nothing *)
LEMMA TablesKeptBy ==
  ASSUME LockTypes, TableInv, UNCHANGED <<heap, vm, owners, posted, dead, mine>>,
         UNCHANGED <<job.leader, job.snap>> \/ job' = NoJob, NEW p \in Backend,
         NEW step, do' = [do EXCEPT ![p] = step],
         \/ /\ do[p] \notin {"insert", "inserting", "barrier", "interlock", "maintain"}
            /\ step \notin {"insert", "inserting", "heap"}
         \/ <<do[p], step>> \in {<<"insert", "inserting">>, <<"barrier", "interlock">>,
                                 <<"interlock", "maintain">>}
         \/ do[p] = "remove" /\ step = "heap" /\ dead \cap owners = {}
  PROVE  TableInv'
  <1>1. /\ \A q \in Backend : q # p => do'[q] = do[q]
        /\ do'[p] = step
    BY DEF LockTypes
  <1>2. \A q \in Backend : do'[q] # do[q] =>
           /\ do'[q] \in {"insert", "inserting"} => mine[q] # NoDoc
           /\ mine[q] # NoDoc =>
                /\ do'[q] \in {"insert", "inserting", "barrier", "interlock", "maintain"}
                /\ do'[q] \in {"barrier", "interlock", "maintain"} => mine[q] \in owners \cap posted
           /\ do'[q] = "heap" => dead \cap owners = {}
    BY <1>1 DEF TableInv, Inserting
  <1> QED BY <1>2, TablesKept

(* A deletion commits: the bit of its block is cleared. *)
LEMMA HeapDeleteTables ==
  ASSUME LockTypes, TableInv, NEW d \in Doc, HeapDelete(d)
  PROVE  TableInv'
  <1> USE DEF HeapDelete, lockVars, indexVars
  <1>1. /\ \A e \in Doc : heap'[e] = IF e = d THEN "deleted" ELSE heap[e]
        /\ \A b \in HeapBlock : vm'[b] = (IF b = BlockOf[d] THEN FALSE ELSE vm[b])
        /\ heap' \in [Doc -> HeapState] /\ vm' \in [HeapBlock -> BOOLEAN] /\ heap[d] = "live"
    BY DEF TableInv, TableTypes, HeapState
  <1>2. TableTypes'
    BY <1>1 DEF TableInv, TableTypes
  <1>3. Inserting'
    BY <1>1 DEF TableInv, TableTypes, Inserting
  <1>4. Tuples'
    BY <1>1 DEF TableInv, TableTypes, Tuples
  <1>5. Snapshot'
    <2>1. /\ job.snap \subseteq (owners \cap posted) \ dead
          /\ \A e \in job.snap : heap'[e] \in {"live", "deleted"}
      BY <1>1 DEF TableInv, TableTypes, Snapshot
    <2>2. \A b \in HeapBlock : vm'[b] => AllVisible(b, heap)'
      BY <1>1 DEF TableInv, Snapshot, AllVisible, Counting
    <2> QED BY <2>1, <2>2 DEF Snapshot
  <1> QED BY <1>2, <1>3, <1>4, <1>5 DEF TableInv

(* A tuple enters the heap: its block is no longer all-visible. *)
LEMMA InsertBeginTables ==
  ASSUME LockTypes, TableInv, NEW p \in Backend, NEW d \in Doc, InsertBegin(p, d)
  PROVE  TableInv'
  <1> USE DEF InsertBegin, indexVars
  <1>1. /\ \A e \in Doc : heap'[e] = IF e = d THEN "inserting" ELSE heap[e]
        /\ \A b \in HeapBlock : vm'[b] = (IF b = BlockOf[d] THEN FALSE ELSE vm[b])
        /\ heap' \in [Doc -> HeapState] /\ vm' \in [HeapBlock -> BOOLEAN] /\ heap[d] = "absent"
        /\ \A q \in Backend : mine'[q] = IF q = p THEN d ELSE mine[q]
        /\ \A q \in Backend : do'[q] = IF q = p THEN "insert" ELSE do[q]
        /\ mine' \in [Backend -> Doc \cup {NoDoc}] /\ d # NoDoc
    BY DocAssumption DEF LockTypes, TableInv, TableTypes, HeapState
  <1>2. TableTypes'
    BY <1>1 DEF TableInv, TableTypes
  <1>3. Inserting'
    <2>1. ASSUME NEW q \in Backend, q # p
          PROVE  mine'[q] = mine[q] /\ do'[q] = do[q] /\ mine[q] # d
      BY <1>1, <2>1, DocAssumption DEF TableInv, Inserting
    <2> QED BY <1>1, <2>1, DocAssumption DEF TableInv, TableTypes, Inserting
  <1>4. Tuples'
    BY <1>1 DEF TableInv, TableTypes, Tuples
  <1>5. Snapshot'
    <2>1. /\ job.snap \subseteq (owners \cap posted) \ dead
          /\ \A e \in job.snap : heap'[e] \in {"live", "deleted"}
      BY <1>1 DEF TableInv, TableTypes, Snapshot
    <2>2. \A b \in HeapBlock : vm'[b] => AllVisible(b, heap)'
      BY <1>1 DEF TableInv, Snapshot, AllVisible, Counting
    <2> QED BY <2>1, <2>2 DEF Snapshot
  <1> QED BY <1>2, <1>3, <1>4, <1>5 DEF TableInv

(* The owner is published, and the transaction may commit. *)
LEMMA InsertDoneTables ==
  ASSUME LockTypes, TableInv, NEW p \in Backend, NEW due \in BOOLEAN, InsertDone(p, due)
  PROVE  TableInv'
  <1> USE DEF InsertDone
  <1>1. PICK d \in Doc : d = mine[p] /\ d # NoDoc /\ heap[d] = "inserting"
    BY DocAssumption DEF TableInv, TableTypes, Inserting
  <1>2. /\ owners' = owners \cup {d} /\ posted' = posted \cup {d} /\ UNCHANGED <<dead, vm, job>>
        /\ \A q \in Backend : q # p => do'[q] = do[q] /\ mine'[q] = mine[q] /\ mine[q] # d
        /\ \A e \in Doc : e # d => heap'[e] = heap[e]
        /\ heap' \in [Doc -> HeapState] /\ mine' \in [Backend -> Doc \cup {NoDoc}]
        /\ \/ do'[p] = "barrier" /\ mine'[p] = d /\ heap'[d] = "inserting"
           \/ do'[p] = "idle" /\ mine'[p] = NoDoc /\ heap'[d] = "live"
    BY <1>1 DEF LockTypes, TableInv, TableTypes, Inserting, Committed, HeapState
  <1>3. TableTypes'
    BY <1>2 DEF TableInv, TableTypes
  <1>4. Inserting'
    <2>1. ASSUME NEW q \in Backend, q # p, mine[q] # NoDoc
          PROVE  mine[q] \in Doc /\ heap'[mine[q]] = heap[mine[q]]
      BY <1>2, <2>1 DEF TableInv, TableTypes
    <2> QED BY <1>1, <1>2, <2>1 DEF TableInv, Inserting
  <1>5. Tuples'
    BY <1>1, <1>2 DEF TableInv, TableTypes, Tuples
  <1>6. Snapshot'
    <2>1. /\ job.snap \subseteq (owners' \cap posted') \ dead
          /\ \A e \in job.snap : heap'[e] \in {"live", "deleted"}
      BY <1>1, <1>2 DEF TableInv, TableTypes, Snapshot
    <2>2. ~vm[BlockOf[d]] /\ BlockOf[d] \in HeapBlock
      BY <1>1 DEF TableInv, Snapshot, AllVisible, HeapBlock
    <2>3. \A b \in HeapBlock : vm'[b] => AllVisible(b, heap)'
      BY <1>1, <1>2, <2>2 DEF TableInv, Snapshot, AllVisible, Counting
    <2> QED BY <1>2, <2>1, <2>3 DEF Snapshot
  <1> QED BY <1>3, <1>4, <1>5, <1>6 DEF TableInv

(* Maintenance drops postings without an owner, and may commit. *)
LEMMA MaintainDoneTables ==
  ASSUME LockTypes, TableInv, NEW p \in Backend, MaintainDone(p)
  PROVE  TableInv'
  <1> USE DEF MaintainDone
  <1>1. /\ UNCHANGED <<dead, vm, job, owners>> /\ posted \cap owners \subseteq posted' /\ posted' \subseteq posted
        /\ \A q \in Backend : q # p => do'[q] = do[q] /\ mine'[q] = mine[q]
        /\ do'[p] = "idle" /\ mine'[p] = NoDoc
        /\ \A e \in Doc : heap'[e] = IF mine[p] # NoDoc /\ e = mine[p] THEN "live" ELSE heap[e]
        /\ heap' \in [Doc -> HeapState] /\ mine' \in [Backend -> Doc \cup {NoDoc}]
        /\ mine[p] # NoDoc => mine[p] \in owners \cap posted /\ heap[mine[p]] = "inserting"
    BY DEF LockTypes, TableInv, TableTypes, Inserting, Committed, HeapState
  <1>2. TableTypes'
    BY <1>1 DEF TableInv, TableTypes
  <1>3. Inserting'
    <2>1. ASSUME NEW q \in Backend, q # p, mine[q] # NoDoc
          PROVE  mine[q] \in Doc /\ heap'[mine[q]] = heap[mine[q]]
      BY <1>1, <2>1 DEF TableInv, TableTypes, Inserting
    <2> QED BY <1>1, <2>1 DEF TableInv, Inserting
  <1>4. Tuples'
    BY <1>1 DEF TableInv, TableTypes, Tuples
  <1>5. Snapshot'
    <2>1. /\ job.snap \subseteq (owners' \cap posted') \ dead
          /\ \A e \in job.snap : heap'[e] \in {"live", "deleted"}
      BY <1>1 DEF TableInv, TableTypes, Snapshot
    <2>2. mine[p] # NoDoc => ~vm[BlockOf[mine[p]]] /\ BlockOf[mine[p]] \in HeapBlock
      BY <1>1 DEF TableInv, TableTypes, Snapshot, AllVisible, HeapBlock
    <2>3. \A b \in HeapBlock : vm'[b] => AllVisible(b, heap)'
      BY <1>1, <2>2 DEF TableInv, Snapshot, AllVisible, Counting
    <2> QED BY <1>1, <2>1, <2>3 DEF Snapshot
  <1> QED BY <1>2, <1>3, <1>4, <1>5 DEF TableInv

(* Vacuum takes what no snapshot sees. *)
LEMMA VacuumBeginTables ==
  ASSUME LockTypes, TableInv, NEW p \in Backend, VacuumBegin(p)
  PROVE  TableInv'
  <1> USE DEF VacuumBegin, indexVars
  <1>1. /\ \A q \in Backend : q # p => do'[q] = do[q]
        /\ do'[p] = "vacuum" /\ mine[p] = NoDoc
        /\ \A q \in Backend : do[q] # "heap"
    BY DEF LockTypes, TableInv, Inserting, Vacuuming
  <1>2. TableTypes'
    BY DEF TableInv, TableTypes
  <1>3. Inserting'
    BY <1>1 DEF TableInv, Inserting
  <1>4. Tuples'
    BY <1>1 DEF TableInv, Tuples
  <1>5. Snapshot'
    BY DEF TableInv, Snapshot, AllVisible, Counting
  <1> QED BY <1>2, <1>3, <1>4, <1>5 DEF TableInv

(* Only dead owners go. *)
LEMMA RemoveOwnersTables ==
  ASSUME LockTypes, TableInv, NEW p \in Backend, NEW k \in 1 .. Pages, RemoveOwners(p, k)
  PROVE  TableInv'
  <1> USE DEF RemoveOwners, lockVars, tableVars
  <1>1. owners' \subseteq owners /\ owners \subseteq owners' \cup dead
    BY DEF Removable
  <1>2. TableTypes'
    BY <1>1 DEF TableInv, TableTypes
  <1>3. Inserting'
    BY <1>1 DEF TableInv, Inserting, Tuples
  <1>4. Tuples'
    BY <1>1 DEF TableInv, Tuples
  <1>5. Snapshot'
    BY <1>1 DEF TableInv, Snapshot, AllVisible, Counting
  <1> QED BY <1>2, <1>3, <1>4, <1>5 DEF TableInv

(* The tuples without an owner are freed; a bit is set where every tuple   *)
(* that is left is in the snapshot of the count.                           *)
LEMMA HeapCleanTables ==
  ASSUME LockTypes, TableInv, NEW p \in Backend, HeapClean(p)
  PROVE  TableInv'
  <1> USE DEF HeapClean, indexVars
  <1>1. /\ \A q \in Backend : q # p => do'[q] = do[q]
        /\ do'[p] = "barrier" /\ mine[p] = NoDoc /\ dead \cap owners = {} /\ dead' = {}
        /\ UNCHANGED <<owners, posted, job, mine>>
    BY DEF LockTypes, TableInv, Inserting, Tuples
  <1>2. /\ heap' = [d \in Doc |-> IF d \in dead THEN "unused" ELSE heap[d]]
        /\ heap' \in [Doc -> HeapState]
        /\ vm' = [b \in HeapBlock |-> vm[b] \/ AllVisible(b, heap')]
    BY DEF TableInv, TableTypes, HeapState
  <1>3. vm' \in [HeapBlock -> BOOLEAN]
    BY <1>2 DEF TableInv, TableTypes, AllVisible
  <1>4. TableTypes'
    BY <1>1, <1>2, <1>3 DEF TableInv, TableTypes
  <1>5. Inserting'
    <2>1. ASSUME NEW q \in Backend, mine[q] # NoDoc
          PROVE  mine[q] \in Doc /\ heap'[mine[q]] = heap[mine[q]]
      BY <1>2, <2>1 DEF TableInv, TableTypes, Inserting, Tuples
    <2> QED BY <1>1, <2>1 DEF TableInv, Inserting
  <1>6. Tuples'
    BY <1>1, <1>2 DEF TableInv, TableTypes, Tuples
  <1>7. Snapshot'
    <2>1. /\ job.snap \subseteq (owners \cap posted)
          /\ \A e \in job.snap : heap'[e] \in {"live", "deleted"}
      BY <1>2 DEF TableInv, TableTypes, Snapshot
    <2>2. ASSUME NEW b \in HeapBlock, vm'[b] PROVE AllVisible(b, heap')
      <3>1. CASE vm[b]
        BY <1>2, <3>1 DEF TableInv, Snapshot, AllVisible
      <3>2. CASE ~vm[b]
        BY <1>2, <2>2, <3>2
      <3> QED BY <3>1, <3>2
    <2>3. \A b \in HeapBlock : vm'[b] => AllVisible(b, heap)'
      BY <1>1, <2>2 DEF AllVisible, Counting
    <2> QED BY <1>1, <2>1, <2>3 DEF Snapshot
  <1> QED BY <1>4, <1>5, <1>6, <1>7 DEF TableInv

(* A count takes its snapshot. *)
LEMMA CountBeginTables ==
  ASSUME LockTypes, TableInv, NEW p \in Backend, NEW kind, CountBegin(p, kind)
  PROVE  TableInv'
  <1> USE DEF CountBegin, tableVars, indexVars
  <1>1. /\ \A q \in Backend : q # p => do'[q] = do[q]
        /\ do'[p] = "count" /\ mine[p] = NoDoc /\ ~Counting
        /\ job'.snap = {d \in Doc : heap[d] = "live"}
    BY DEF LockTypes, TableInv, Inserting, NoJob
  <1>2. TableTypes'
    BY DEF TableInv, TableTypes
  <1>3. Inserting'
    BY <1>1 DEF TableInv, Inserting
  <1>4. Tuples'
    BY <1>1 DEF TableInv, Tuples
  <1>5. Snapshot'
    BY <1>1 DEF TableInv, Tuples, Snapshot, AllVisible
  <1> QED BY <1>2, <1>3, <1>4, <1>5 DEF TableInv

(* An abort leaves the tuple it was inserting dead. *)
LEMMA AbortTables ==
  ASSUME LockInv, TableInv, NEW p \in Backend, Abort(p)
  PROVE  TableInv'
  <1>1. PICK gone : gone = Aborted(p)
    OBVIOUS
  <1>2. /\ gone \subseteq Backend /\ p \in gone
        /\ \A q \in gone : q # p => do[q] \in InCount
        /\ job' = job \/ job' = NoJob
    BY <1>1 DEF Abort, Aborted, Participants, Counting, LockInv, LockTypes, Teams
  <1>3. /\ \A q \in Backend : do'[q] = IF q \in gone THEN "idle" ELSE do[q]
        /\ \A q \in Backend : mine'[q] = IF q \in gone THEN NoDoc ELSE mine[q]
        /\ UNCHANGED <<vm, owners, posted>>
    BY <1>1 DEF Abort, indexVars
  <1>4. /\ heap' \in [Doc -> HeapState]
        /\ \A e \in Doc : heap'[e] = IF mine[p] # NoDoc /\ e = mine[p] THEN "deleted" ELSE heap[e]
        /\ mine' \in [Backend -> Doc \cup {NoDoc}] /\ dead' \subseteq dead
        /\ mine[p] # NoDoc => mine[p] \in Doc /\ heap[mine[p]] = "inserting"
    BY <1>1 DEF Abort, TableInv, TableTypes, Inserting, HeapState
  <1>5. TableTypes'
    BY <1>3, <1>4 DEF TableInv, TableTypes
  <1>6. Inserting'
    <2>1. ASSUME NEW q \in Backend, q \notin gone, mine[q] # NoDoc
          PROVE  mine[q] \in Doc /\ heap'[mine[q]] = heap[mine[q]]
      BY <1>2, <1>4, <2>1 DEF TableInv, TableTypes, Inserting
    <2> QED BY <1>3, <2>1 DEF TableInv, Inserting
  <1>7. Tuples'
    BY <1>3, <1>4 DEF TableInv, TableTypes, Tuples
  <1>8. Snapshot'
    <2>1. /\ job'.snap \subseteq job.snap
          /\ job.snap \subseteq (owners \cap posted) \ dead
          /\ \A e \in job.snap : heap'[e] \in {"live", "deleted"}
      BY <1>2, <1>4 DEF TableInv, TableTypes, Snapshot, NoJob
    <2>2. mine[p] # NoDoc => ~vm[BlockOf[mine[p]]] /\ BlockOf[mine[p]] \in HeapBlock
      BY <1>4 DEF TableInv, TableTypes, Snapshot, AllVisible, HeapBlock
    <2>3. Counting' => Counting /\ job' = job
      BY <1>2 DEF Counting, NoJob
    <2>4. \A b \in HeapBlock : vm'[b] => AllVisible(b, heap)'
      BY <1>3, <1>4, <2>2, <2>3 DEF TableInv, Snapshot, AllVisible
    <2> QED BY <1>3, <1>4, <2>1, <2>4 DEF Snapshot
  <1> QED BY <1>5, <1>6, <1>7, <1>8 DEF TableInv

-----------------------------------------------------------------------------
(* The books *)

(* A backend that takes, protects or reports a count is alone in it. *)
LEMMA AloneInCount ==
  ASSUME LockInv, NEW p \in Backend, NEW q \in Backend,
         do[p] \in {"protect", "capture", "page", "report"}, do[q] \in InCount
  PROVE  p = q
  BY DEF LockInv, LockTypes, Teams, InCount, Sharing, Consuming, Working

(* The documents counted are finitely many. *)
LEMMA CountedFinite ==
  ASSUME WorkTypes
  PROVE  \A S \in SUBSET job.snap : IsFiniteSet(S)
  BY DocAssumption, FS_Subset DEF WorkTypes

(* Nothing is counted and nothing given back. *)
LEMMA BooksStay ==
  ASSUME NEW by, Books(by), Counted' = Counted, UNCHANGED job.total,
         \A q \in Backend : part'[q].tally = part[q].tally
  PROVE  Books(by)'
  BY DEF Books, Entered

(* A document is counted by p. *)
LEMMA BooksEnter ==
  ASSUME LockTypes, WorkTypes, NEW by \in [Doc -> Backend \cup {NoBackend}], Books(by),
         NEW p \in Backend, NEW d \in Doc, d \notin Counted, Counted' = Counted \cup {d},
         UNCHANGED job.total, part'[p].tally = part[p].tally + 1,
         \A q \in Backend : q # p => part'[q].tally = part[q].tally
  PROVE  \E new \in [Doc -> Backend \cup {NoBackend}] : Books(new)'
  <1> DEFINE new == [by EXCEPT ![d] = p]
  <1>1. new \in [Doc -> Backend \cup {NoBackend}]
    OBVIOUS
  <1>2. p # NoBackend
    BY BackendAssumption
  <1>3. Counted \subseteq Doc
    BY DEF WorkTypes, Counted
  <1>4. ASSUME NEW q \in Backend \cup {NoBackend}, q # p
        PROVE  Entered(new, q)' = Entered(by, q)
    BY <1>3, <1>4 DEF Entered
  <1>5. Entered(new, p)' = Entered(by, p) \cup {d} /\ d \notin Entered(by, p)
    BY <1>3 DEF Entered
  <1>6. IsFiniteSet(Entered(by, p))
    BY CountedFinite DEF Entered, Counted
  <1>7. Cardinality(Entered(new, p)') = Cardinality(Entered(by, p)) + 1
    BY <1>5, <1>6, FS_AddElement
  <1> HIDE DEF new
  <1>8. Books(new)'
    BY <1>2, <1>4, <1>7 DEF Books
  <1> QED BY <1>1, <1>8

(* p adds its tally to the total. *)
LEMMA BooksMerge ==
  ASSUME LockTypes, WorkTypes, NEW by \in [Doc -> Backend \cup {NoBackend}], Books(by),
         NEW p \in Backend, Counted' = Counted,
         job'.total = job.total + part[p].tally, part'[p].tally = 0,
         \A q \in Backend : q # p => part'[q].tally = part[q].tally
  PROVE  \E new \in [Doc -> Backend \cup {NoBackend}] : Books(new)'
  <1> DEFINE new == [d \in Doc |-> IF by[d] = p THEN NoBackend ELSE by[d]]
  <1>1. new \in [Doc -> Backend \cup {NoBackend}]
    OBVIOUS
  <1>2. p # NoBackend
    BY BackendAssumption
  <1>3. Counted \subseteq Doc
    BY DEF WorkTypes, Counted
  <1>4. ASSUME NEW q \in Backend, q # p
        PROVE  Entered(new, q)' = Entered(by, q)
    BY <1>3, <1>4, BackendAssumption DEF Entered
  <1>5. Entered(new, p)' = {}
    BY <1>2, <1>3 DEF Entered
  <1>6. /\ Entered(new, NoBackend)' = Entered(by, NoBackend) \cup Entered(by, p)
        /\ Entered(by, NoBackend) \cap Entered(by, p) = {}
    BY <1>2, <1>3 DEF Entered
  <1>7. IsFiniteSet(Entered(by, p)) /\ IsFiniteSet(Entered(by, NoBackend))
    BY CountedFinite DEF Entered, Counted
  <1> HIDE DEF new
  <1>8. Cardinality(Entered(new, NoBackend)') =
          Cardinality(Entered(by, NoBackend)) + Cardinality(Entered(by, p))
    <2>1. /\ Cardinality(Entered(by, NoBackend) \cup Entered(by, p)) =
               Cardinality(Entered(by, NoBackend)) + Cardinality(Entered(by, p))
                 - Cardinality(Entered(by, NoBackend) \cap Entered(by, p))
          /\ Cardinality(Entered(by, NoBackend)) \in Nat /\ Cardinality(Entered(by, p)) \in Nat
      BY <1>7, FS_Union, FS_CardinalityType
    <2>2. Cardinality(Entered(by, NoBackend) \cap Entered(by, p)) = 0
      BY <1>6, FS_EmptySet
    <2> QED BY <1>6, <2>1, <2>2
  <1>9. Books(new)'
    <2>1. part'[p].tally = Cardinality(Entered(new, p)')
      BY <1>5, FS_EmptySet
    <2>2. job'.total = Cardinality(Entered(new, NoBackend)')
      BY <1>8 DEF Books
    <2> QED BY <1>4, <2>1, <2>2 DEF Books
  <1> QED BY <1>1, <1>9

(* Nothing is in hand and nothing counted. *)
LEMMA BooksEmpty ==
  ASSUME Counted' = {}, job'.total = 0, \A q \in Backend : part'[q].tally = 0
  PROVE  \E new \in [Doc -> Backend \cup {NoBackend}] : Books(new)'
  <1> DEFINE new == [d \in Doc |-> NoBackend]
  <1>1. \A q : Entered(new, q)' = {}
    BY DEF Entered
  <1>2. Books(new)'
    BY <1>1, FS_EmptySet DEF Books
  <1> QED BY <1>2

(* A step that moves nothing in or out of a hand *)
LEMMA HandsKept ==
  ASSUME Apart, Accounts, \A q \in Backend : Hand(q)' = Hand(q),
         UNCHANGED <<job.snap, job.work, job.total>>, job'.kind = "grouped" <=> job.kind = "grouped",
         \A q \in Backend : part'[q].tally = part[q].tally
  PROVE  Apart' /\ Accounts'
  <1>1. Apart'
    BY DEF Apart
  <1>2. Counted' = Counted
    BY DEF Counted
  <1>3. Accounts'
    BY <1>2, BooksStay DEF Accounts
  <1> QED BY <1>1, <1>3

(* What a participant knows stands while it does nothing and its snapshot  *)
(* and the owners under its pin stay.                                      *)
LEMMA OthersKeep ==
  ASSUME WorkTypes, NEW q \in Backend, Participant(q), Claims(q), Pinned(q),
         UNCHANGED <<do[q], part[q], pin[q], job.snap>>,
         job'.work \in Nat, job.work <= job'.work,
         job'.kind = "grouped" <=> job.kind = "grouped",
         do[q] = "check" => part[q].live \subseteq owners'
  PROVE  Participant(q)' /\ Claims(q)' /\ Pinned(q)'
  <1>0. job.work \in Nat /\ Pages \in Nat
    BY PageAssumption DEF WorkTypes
  <1>1. Participant(q)'
    BY <1>0 DEF Participant
  <1>2. Claims(q)'
    <2>1. ASSUME NEW d \in Hand(q)' PROVE PageOf[d] < job'.work
      <3>1. d \in Hand(q) /\ d \in Doc
        BY <2>1 DEF Hand, WorkTypes, Part
      <3>2. PageOf[d] < job.work /\ PageOf[d] \in Nat
        BY <3>1, PageAssumption DEF Claims
      <3> QED BY <1>0, <3>2
    <2> QED BY <2>1 DEF Claims
  <1>3. Pinned(q)'
    BY DEF Pinned
  <1> QED BY <1>1, <1>2, <1>3

(* Steps beside the count: of scans, insertions, vacuum and the host *)
LEMMA WorkAside ==
  ASSUME LockInv, WorkInv, UNCHANGED <<part, job>>,
         \A q \in Backend : do[q] = "check" => pin'[q] = pin[q],
         \A q \in Backend : do'[q] # do[q] => do[q] \notin InCount /\ do'[q] \notin InCount,
         \A q \in Backend : do[q] = "check" => part[q].live \subseteq owners'
  PROVE  WorkInv'
  <1>1. WorkTypes'
    BY DEF WorkInv, WorkTypes, Part
  <1>2. ASSUME NEW q \in Backend PROVE Participant(q)' /\ Claims(q)' /\ Pinned(q)' /\ Hand(q)' = Hand(q)
    <2>1. Participant(q) /\ Claims(q) /\ Pinned(q)
      BY DEF WorkInv, Participating
    <2>2. CASE do'[q] # do[q]
      <3>1. part[q] = NoPart /\ do'[q] \notin InCount /\ Hand(q) = {}
        BY <2>1, <2>2 DEF Participant, InCount, Sharing, Consuming, Hand, NoPart
      <3> QED BY <3>1 DEF NoPart, Participant, Claims, Pinned, Hand, InCount, Sharing, Consuming
    <2>3. CASE do'[q] = do[q]
      <3>1. Hand(q)' = Hand(q)
        BY <2>3 DEF Hand
      <3> QED BY <2>1, <2>3, <3>1 DEF Participant, Claims, Pinned
    <2> QED BY <2>2, <2>3
  <1>3. Apart' /\ Accounts'
    BY <1>2, HandsKept DEF WorkInv
  <1>4. Grouped' /\ CountExact'
    BY DEF WorkInv, Grouped, CountExact, InCount, Sharing
  <1> QED BY <1>1, <1>2, <1>3, <1>4 DEF WorkInv, Participating

(* The end of a count, and nobody at work *)
LEMMA WorkEnds ==
  ASSUME LockInv, WorkInv, job' = NoJob, part' = [q \in Backend |-> part'[q]],
         \A q \in Backend : do[q] \in InCount => part'[q] = NoPart /\ do'[q] \notin InCount,
         \A q \in Backend : do[q] \notin InCount => part'[q] \in {part[q], NoPart} /\ do'[q] \notin InCount
  PROVE  WorkInv'
  <1>1. ASSUME NEW q \in Backend
        PROVE  /\ part'[q] = NoPart /\ do'[q] \notin InCount
               /\ Participant(q)' /\ Claims(q)' /\ Pinned(q)' /\ Hand(q)' = {}
    <2>1. do[q] \notin InCount => part[q] = NoPart
      BY DEF WorkInv, Participating, Participant, InCount, Sharing, Consuming
    <2>2. part'[q] = NoPart /\ do'[q] \notin InCount
      BY <2>1
    <2> QED BY <2>2 DEF NoPart, Participant, Claims, Pinned, Hand, InCount, Sharing, Consuming
  <1>2. /\ job'.snap = {} /\ job'.work = 1 /\ job'.total = 0
    BY DEF NoJob
  <1>3. WorkTypes'
    <2>1. part' = [q \in Backend |-> NoPart]
      BY <1>1
    <2> QED BY <1>2, <2>1, PageAssumption DEF WorkTypes, Part, NoPart
  <1>4. Participating' /\ Apart' /\ Grouped' /\ CountExact'
    BY <1>1 DEF Participating, Apart, Grouped, CountExact, InCount, Sharing
  <1>5. Counted' = {}
    BY <1>2 DEF Counted
  <1>6. Accounts'
    BY <1>1, <1>2, <1>5, BooksEmpty DEF Accounts, NoPart
  <1> QED BY <1>3, <1>4, <1>6 DEF WorkInv
-----------------------------------------------------------------------------
(* The steps of a count *)

(* While a count is at work nobody reports one. *)
LEMMA NoReport ==
  ASSUME LockInv, NEW p \in Backend, do[p] \in Sharing \cup {"count"}
  PROVE  \A q \in Backend : do[q] # "report"
  BY AloneInCount DEF InCount, Sharing, Consuming

(* A step of participant p that moves nothing in or out of a hand, and is  *)
(* no grouped one                                                          *)
LEMMA StepKeeps ==
  ASSUME LockInv, WorkInv, NEW p \in Backend, WorkTypes',
         Participant(p)', Claims(p)', Pinned(p)', Hand(p)' = Hand(p),
         part'[p].tally = part[p].tally,
         \A q \in Backend : q # p => UNCHANGED <<do[q], part[q], pin[q]>>,
         UNCHANGED <<owners, job.snap, job.work, job.total>>,
         job'.kind = "grouped" <=> job.kind = "grouped",
         do[p] \in Sharing \cup {"count"}, do'[p] \notin {"page", "report"}
  PROVE  WorkInv'
  <1>1. ASSUME NEW q \in Backend, q # p
        PROVE  Participant(q)' /\ Claims(q)' /\ Pinned(q)' /\ Hand(q)' = Hand(q)
    <2>1. Participant(q) /\ Claims(q) /\ Pinned(q) /\ WorkTypes
      BY DEF WorkInv, Participating
    <2>2. job'.work \in Nat /\ job.work <= job'.work
      BY <2>1, PageAssumption DEF WorkTypes
    <2>3. do[q] = "check" => part[q].live \subseteq owners'
      BY <2>1 DEF Pinned
    <2>4. UNCHANGED <<do[q], part[q], pin[q]>>
      BY <1>1
    <2>5. Hand(q)' = Hand(q)
      BY <2>4 DEF Hand
    <2> QED BY <2>1, <2>2, <2>3, <2>4, <2>5, OthersKeep
  <1>2. Participating'
    BY <1>1 DEF Participating
  <1>3. \A q \in Backend : Hand(q)' = Hand(q) /\ part'[q].tally = part[q].tally
    BY <1>1
  <1>4. Apart' /\ Accounts'
    BY <1>3, HandsKept DEF WorkInv
  <1>5. CountExact'
    BY NoReport DEF CountExact
  <1>6. Grouped'
    BY DEF Grouped, WorkInv
  <1> QED BY <1>2, <1>4, <1>5, <1>6 DEF WorkInv

(* A count begins with empty hands. *)
LEMMA CountBeginWorks ==
  ASSUME LockInv, TableInv, WorkInv, NEW p \in Backend, NEW kind, CountBegin(p, kind)
  PROVE  WorkInv'
  <1> USE DEF CountBegin
  <1>1. job.leader = NoBackend /\ job.team = {}
    BY BackendAssumption DEF Counting, LockInv, LockTypes, Teams
  <1>2. \A q \in Backend : do[q] \notin InCount
    BY <1>1, BackendAssumption DEF LockInv, Teams
  <1>3. ASSUME NEW q \in Backend
        PROVE  /\ part[q] = NoPart /\ do'[q] \notin Consuming
               /\ do'[q] # "gather" /\ do'[q] # "report" /\ do'[q] # "page"
               /\ do'[q] # "capture" /\ do'[q] # "protect"
    BY <1>2 DEF WorkInv, Participating, Participant, InCount, Sharing, Consuming, LockInv, LockTypes
  <1>4. /\ job'.snap = {d \in Doc : heap[d] = "live"} /\ job'.work = 1 /\ job'.total = 0 /\ part' = part
    BY DEF NoJob
  <1>5. ASSUME NEW q \in Backend
        PROVE  Participant(q)' /\ Claims(q)' /\ Pinned(q)' /\ Hand(q)' = {} /\ part'[q].tally = 0
    <2>1. part[q] = NoPart
      BY <1>2 DEF WorkInv, Participating, Participant, InCount, Sharing, Consuming
    <2> QED BY <1>3, <1>4, <2>1
      DEF NoPart, Participant, Claims, Pinned, Hand, InCount, Sharing, Consuming
  <1>6. WorkTypes'
    BY <1>4, PageAssumption DEF WorkInv, WorkTypes, Part
  <1>7. Participating' /\ Apart'
    BY <1>5 DEF Participating, Apart
  <1>8. Grouped' /\ CountExact'
    BY <1>3 DEF Grouped, CountExact
  <1>9. Counted' = {}
    BY <1>4, PageAssumption DEF Counted
  <1>10. Accounts'
    BY <1>4, <1>5, <1>9, BooksEmpty DEF Accounts
  <1> QED BY <1>6, <1>7, <1>8, <1>10 DEF WorkInv

(* The shared barrier is granted to a participant. *)
LEMMA CountLockedWorks ==
  ASSUME LockInv, WorkInv, NEW p \in Backend, CountLocked(p)
  PROVE  WorkInv'
  <1> USE DEF CountLocked
  <1>1. /\ do[p] = "count" /\ part[p] = NoPart /\ part' = part /\ job' = job /\ owners' = owners /\ pin' = pin
        /\ \A q \in Backend : q # p => do'[q] = do[q]
        /\ \/ do'[p] = "protect" /\ job.kind = "grouped"
           \/ do'[p] \in {"capture", "claim"} /\ job.kind # "grouped"
    BY DEF WorkInv, Participating, Participant, LockInv, LockTypes, indexVars
  <1>2. WorkTypes'
    BY <1>1 DEF WorkInv, WorkTypes, Part
  <1>3. Participant(p)' /\ Claims(p)' /\ Pinned(p)' /\ Hand(p)' = Hand(p)
    BY <1>1 DEF NoPart, Participant, Claims, Pinned, Hand, Consuming
  <1> QED BY <1>1, <1>2, <1>3, StepKeeps DEF Sharing, Consuming

(* The grouped count *)
LEMMA ProtectWorks ==
  ASSUME LockInv, WorkInv, NEW p \in Backend, Protect(p)
  PROVE  WorkInv'
  <1> USE DEF Protect
  <1>1. /\ do[p] = "protect" /\ part[p] = NoPart /\ job' = job /\ owners' = owners /\ pin' = pin
        /\ \A q \in Backend : q # p => do'[q] = do[q] /\ part'[q] = part[q]
        /\ do'[p] = "page" /\ part'[p] = [NoPart EXCEPT !.blocks = HeapBlock]
        /\ job.kind = "grouped"
    BY DEF WorkInv, WorkTypes, Part, Participating, Participant, LockInv, LockTypes, indexVars
  <1>2. WorkTypes'
    BY <1>1 DEF WorkInv, WorkTypes, Part, NoPart
  <1>3. ASSUME NEW q \in Backend PROVE Participant(q)' /\ Claims(q)' /\ Pinned(q)' /\ Hand(q)' = Hand(q)
    <2>1. CASE q = p
      BY <1>1, <2>1 DEF NoPart, Participant, Claims, Pinned, Hand, Consuming
    <2>2. CASE q # p
      <3>1. UNCHANGED <<do[q], part[q]>>
        BY <1>1, <2>2
      <3>2. Hand(q)' = Hand(q)
        BY <3>1 DEF Hand
      <3>3. Participant(q) /\ Claims(q) /\ Pinned(q)
        BY DEF WorkInv, Participating
      <3> QED BY <1>1, <3>1, <3>2, <3>3 DEF Participant, Claims, Pinned
    <2> QED BY <2>1, <2>2
  <1>4. Apart'
    BY <1>3 DEF WorkInv, Apart
  <1>5. Accounts'
    BY <1>1 DEF Accounts
  <1>6. CountExact'
    BY <1>1, NoReport DEF CountExact, Sharing
  <1>7. Grouped'
    <2>1. {d \in job.snap : BlockOf[d] \notin HeapBlock} = {}
      BY DEF WorkInv, WorkTypes, HeapBlock
    <2>2. \A q \in Backend : do'[q] = "page" => q = p
      BY <1>1, AloneInCount DEF InCount, Sharing
    <2>3. part'[p].tally = 0 /\ part'[p].blocks = HeapBlock
      BY <1>1 DEF NoPart
    <2> QED BY <1>1, <2>1, <2>2, <2>3, FS_EmptySet DEF Grouped
  <1> QED BY <1>2, <1>3, <1>4, <1>5, <1>6, <1>7 DEF WorkInv, Participating

(* A block of the grouped count: its bit holds for the snapshot. *)
LEMMA GroupedPageWorks ==
  ASSUME LockInv, TableInv, WorkInv, NEW p \in Backend, NEW b \in HeapBlock, GroupedPage(p, b)
  PROVE  WorkInv'
  <1> DEFINE seen == {d \in job.snap : BlockOf[d] \notin part[p].blocks}
             found == {d \in job.snap : BlockOf[d] = b}
  <1>1. /\ do[p] = "page" /\ UNCHANGED <<do, job, owners, pin>> /\ b \in part[p].blocks
        /\ \A q \in Backend : q # p => part'[q] = part[q]
        /\ job.kind = "grouped"
    BY DEF GroupedPage, WorkInv, WorkTypes, Part, Participating, Participant, LockInv, LockTypes, indexVars, lockVars
  <1>2. LET roots == {d \in owners : BlockOf[d] = b} IN
          (IF vm[b] THEN roots ELSE roots \cap job.snap) = found
    <2>1. job.snap \subseteq owners /\ owners \subseteq Doc
      BY DEF TableInv, TableTypes, Snapshot
    <2>2. ASSUME vm[b], NEW d \in owners, BlockOf[d] = b PROVE d \in job.snap
      <3>1. AllVisible(b, heap) /\ heap[d] \notin {"absent", "unused"} /\ d \in Doc
        BY <2>1, <2>2 DEF TableInv, Tuples, Snapshot
      <3>2. Counting
        BY <1>1, BackendAssumption DEF LockInv, LockTypes, Teams, Counting, InCount, Sharing, Working, Consuming
      <3> QED BY <2>2, <3>1, <3>2 DEF AllVisible
    <2> QED BY <2>1, <2>2
  <1>3. /\ part'[p].blocks = part[p].blocks \ {b} /\ part'[p].blocks \in SUBSET HeapBlock
        /\ part'[p].tally = part[p].tally + Cardinality(found)
        /\ UNCHANGED <<part[p].pending, part[p].incoming, part[p].fetch, part[p].live, part[p].seen>>
        /\ part' = [part EXCEPT ![p] = [part[p] EXCEPT !.blocks = part'[p].blocks, !.tally = part'[p].tally]]
    BY <1>2 DEF GroupedPage, WorkInv, WorkTypes, Part
  <1>4. IsFiniteSet(seen) /\ IsFiniteSet(found)
    BY CountedFinite DEF WorkInv
  <1>5. part[p].tally = Cardinality(seen) /\ Cardinality(found) \in Nat /\ Cardinality(seen) \in Nat
    BY <1>1, <1>4, FS_CardinalityType DEF WorkInv, Grouped
  <1>6. seen \cap found = {}
    BY <1>1
  <1>7. Cardinality(seen \cup found) = Cardinality(seen) + Cardinality(found)
    <2>1. Cardinality(seen \cup found) = Cardinality(seen) + Cardinality(found) - Cardinality(seen \cap found)
      BY <1>4, FS_Union
    <2>2. Cardinality(seen \cap found) = 0
      BY <1>6, FS_EmptySet
    <2> QED BY <1>5, <2>1, <2>2
  <1>8. {d \in job'.snap : BlockOf[d] \notin part'[p].blocks} = seen \cup found
    BY <1>1, <1>3
  <1> HIDE DEF seen, found
  <1>9. part'[p].tally = Cardinality(seen \cup found) /\ part'[p].tally \in Nat
    BY <1>3, <1>5, <1>7 DEF WorkInv, WorkTypes, Part
  <1>10. WorkTypes'
    <2>1. [part[p] EXCEPT !.blocks = part'[p].blocks, !.tally = part'[p].tally] \in
            Part
      BY <1>3, <1>9 DEF WorkInv, WorkTypes, Part
    <2>2. part' = [part EXCEPT ![p] = [part[p] EXCEPT !.blocks = part'[p].blocks, !.tally = part'[p].tally]]
      BY <1>3
    <2>3. part' \in [Backend -> Part]
      BY <2>1, <2>2 DEF WorkInv, WorkTypes, Part
    <2> QED BY <1>1, <2>3 DEF WorkInv, WorkTypes, Part
  <1>11. ASSUME NEW q \in Backend PROVE Participant(q)' /\ Claims(q)' /\ Pinned(q)' /\ Hand(q)' = Hand(q)
    <2>1. Participant(q) /\ Claims(q) /\ Pinned(q)
      BY DEF WorkInv, Participating
    <2>2. CASE q = p
      <3>1. Hand(p)' = Hand(p)
        BY <1>1, <1>3 DEF Hand
      <3>2. Participant(p)'
        BY <1>1, <1>3, <2>1, <2>2 DEF Participant, Consuming
      <3>3. Claims(p)'
        BY <1>1, <1>3, <2>1, <2>2, <3>1 DEF Claims
      <3>4. Pinned(p)'
        BY <1>1 DEF Pinned
      <3> QED BY <2>2, <3>1, <3>2, <3>3, <3>4
    <2>3. CASE q # p
      <3>1. UNCHANGED <<do[q], part[q]>>
        BY <1>1, <2>3
      <3>2. Hand(q)' = Hand(q)
        BY <3>1 DEF Hand
      <3>3. do[q] # "check"
        BY <1>1, <2>3, AloneInCount DEF InCount, Sharing, Consuming
      <3> QED BY <1>1, <2>1, <3>1, <3>2, <3>3 DEF Participant, Claims, Pinned
    <2> QED BY <2>2, <2>3
  <1>12. Apart'
    BY <1>11 DEF WorkInv, Apart
  <1>13. Accounts'
    BY <1>1 DEF Accounts
  <1>14. CountExact'
    BY <1>1, NoReport DEF CountExact, Sharing
  <1>15. Grouped'
    <2>1. \A q \in Backend : do'[q] = "page" => q = p
      BY <1>1, AloneInCount DEF InCount, Sharing
    <2> QED BY <1>8, <1>9, <2>1 DEF Grouped
  <1> QED BY <1>10, <1>11, <1>12, <1>13, <1>14, <1>15 DEF WorkInv, Participating

(* Every block was visited: the tally is the size of the snapshot. *)
LEMMA GroupedDoneWorks ==
  ASSUME LockInv, WorkInv, NEW p \in Backend, GroupedDone(p)
  PROVE  WorkInv'
  <1> USE DEF GroupedDone
  <1>1. /\ do[p] = "page" /\ UNCHANGED <<owners, pin>> /\ part[p].blocks = {}
        /\ \A q \in Backend : q # p => part'[q] = part[q] /\ do'[q] = do[q]
        /\ do'[p] = "report" /\ part'[p] = NoPart
        /\ job'.total = part[p].tally /\ UNCHANGED <<job.snap, job.kind, job.work>>
        /\ job.kind = "grouped" /\ part[p].tally \in Nat
    BY DEF WorkInv, WorkTypes, Part, Participating, Participant, LockInv, LockTypes, indexVars
  <1>2. part[p].tally = Cardinality(job.snap)
    <2>1. {d \in job.snap : BlockOf[d] \notin part[p].blocks} = job.snap
      BY <1>1
    <2> QED BY <1>1, <2>1 DEF WorkInv, Grouped
  <1>3. WorkTypes'
    BY <1>1 DEF WorkInv, WorkTypes, Part, NoPart
  <1>4. ASSUME NEW q \in Backend
        PROVE  Participant(q)' /\ Claims(q)' /\ Pinned(q)' /\ Hand(q)' \subseteq Hand(q)
    <2>1. CASE q = p
      BY <1>1, <2>1 DEF NoPart, Participant, Claims, Pinned, Hand, Consuming
    <2>2. CASE q # p
      <3>1. UNCHANGED <<do[q], part[q]>>
        BY <1>1, <2>2
      <3>2. Hand(q)' = Hand(q)
        BY <3>1 DEF Hand
      <3>3. Participant(q) /\ Claims(q) /\ Pinned(q)
        BY DEF WorkInv, Participating
      <3> QED BY <1>1, <3>1, <3>2, <3>3 DEF Participant, Claims, Pinned
    <2> QED BY <2>1, <2>2
  <1>5. Apart'
    BY <1>4 DEF WorkInv, Apart
  <1>6. Accounts'
    BY <1>1 DEF Accounts
  <1>7. \A q \in Backend : q # p => do'[q] \notin InCount
    BY <1>1, AloneInCount
  <1>8. CountExact' /\ Grouped'
    BY <1>1, <1>2, <1>7 DEF CountExact, Grouped, InCount, Sharing
  <1> QED BY <1>3, <1>4, <1>5, <1>6, <1>8 DEF WorkInv, Participating

(* Unprotected, and the end of a report: the count is over. *)
LEMMA CountOverWorks ==
  ASSUME LockInv, WorkInv, NEW p \in Backend, Unprotected(p) \/ CountEnd(p)
  PROVE  WorkInv'
  <1>1. /\ job' = NoJob /\ part' = part /\ do' = [do EXCEPT ![p] = "idle"]
        /\ do[p] \in {"protect", "report"}
    BY DEF Unprotected, CountEnd
  <1>2. \A q \in Backend : q # p => do[q] \notin InCount /\ do'[q] = do[q]
    BY <1>1, AloneInCount DEF LockInv, LockTypes
  <1>3. do'[p] = "idle" /\ part[p] = NoPart /\ part' = [q \in Backend |-> part'[q]]
    BY <1>1 DEF LockInv, LockTypes, WorkInv, WorkTypes, Part, Participating, Participant
  <1>4. "idle" \notin InCount
    BY DEF InCount, Sharing, Consuming
  <1> QED BY <1>1, <1>2, <1>3, <1>4, WorkEnds

(* The workers start, or the count becomes a serial one. *)
LEMMA LaunchWorks ==
  ASSUME LockInv, WorkInv, NEW p \in Backend, NEW team \in SUBSET Backend, Launch(p, team)
  PROVE  WorkInv'
  <1>1. /\ do[p] = "capture" /\ UNCHANGED <<owners, pin, part, job.snap, job.work, job.total>>
        /\ job.kind # "grouped" /\ job'.kind # "grouped" /\ part[p] = NoPart
    BY DEF Launch, WorkInv, Participating, Participant, LockInv, LockTypes, indexVars
  <1>2. ASSUME NEW q \in Backend
        PROVE  \/ do'[q] = do[q] /\ q # p
               \/ do'[q] \in {"count", "claim"} /\ part[q] = NoPart
    <2>1. q \in team => do[q] = "idle"
      BY DEF Launch
    <2>2. do[q] = "idle" => part[q] = NoPart
      BY DEF WorkInv, Participating, Participant
    <2>3. CASE team = {}
      BY <1>1, <2>3 DEF Launch, LockInv, LockTypes
    <2>4. CASE team # {}
      BY <1>1, <2>1, <2>2, <2>4 DEF Launch, LockInv, LockTypes
    <2> QED BY <2>3, <2>4
  <1>3. WorkTypes'
    BY <1>1 DEF WorkInv, WorkTypes, Part
  <1>4. ASSUME NEW q \in Backend PROVE Participant(q)' /\ Claims(q)' /\ Pinned(q)' /\ Hand(q)' = Hand(q)
    <2>1. Participant(q) /\ Claims(q) /\ Pinned(q)
      BY DEF WorkInv, Participating
    <2>2. CASE do'[q] = do[q]
      <3>1. Hand(q)' = Hand(q)
        BY <1>1, <2>2 DEF Hand
      <3> QED BY <1>1, <2>1, <2>2, <3>1 DEF Participant, Claims, Pinned
    <2>3. CASE do'[q] \in {"count", "claim"} /\ part[q] = NoPart
      BY <1>1, <2>3 DEF NoPart, Participant, Claims, Pinned, Hand, Consuming
    <2> QED BY <1>2, <2>2, <2>3
  <1>5. Apart' /\ Accounts'
    BY <1>1, <1>4, HandsKept DEF WorkInv
  <1>6. CountExact' /\ Grouped'
    BY <1>1, <1>2, NoReport DEF CountExact, Grouped, WorkInv, Sharing
  <1> QED BY <1>3, <1>4, <1>5, <1>6 DEF WorkInv, Participating

(* A participant reads the postings of the next owner page, *)
LEMMA WorkSnapshotWorks ==
  ASSUME LockInv, TableInv, WorkInv, NEW p \in Backend, WorkSnapshot(p)
  PROVE  WorkInv'
  <1>1. /\ do[p] = "claim" /\ do'[p] = "try" /\ UNCHANGED <<owners, pin, job>> /\ job.work \in 1 .. Pages
        /\ \A q \in Backend : q # p => part'[q] = part[q] /\ do'[q] = do[q]
        /\ part' = [part EXCEPT ![p] = [part[p] EXCEPT !.seen = job.work,
                                          !.incoming = {d \in posted : PageOf[d] = job.work}]]
    <2>1. job.work \in 1 .. Pages /\ do[p] = "claim"
      BY PageAssumption DEF WorkSnapshot, WorkInv, WorkTypes
    <2>2. part' = [part EXCEPT ![p] = [part[p] EXCEPT !.seen = job.work,
                                          !.incoming = {d \in posted : PageOf[d] = job.work}]]
      BY DEF WorkSnapshot, WorkInv, WorkTypes, Part
    <2>3. do'[p] = "try" /\ UNCHANGED <<owners, pin, job>>
          /\ \A q \in Backend : q # p => part'[q] = part[q] /\ do'[q] = do[q]
      BY DEF WorkSnapshot, WorkInv, WorkTypes, LockInv, LockTypes, indexVars, lockVars
    <2> QED BY <2>1, <2>2, <2>3
  <1>2. /\ part'[p].pending = part[p].pending /\ part'[p].fetch = part[p].fetch
        /\ part'[p].live = part[p].live /\ part'[p].tally = part[p].tally
        /\ part'[p].seen = job.work /\ part'[p].incoming = {d \in posted : PageOf[d] = job.work}
    BY <1>1 DEF WorkInv, WorkTypes, Part
  <1>3. posted \subseteq Doc
    BY DEF TableInv, TableTypes
  <1>4. WorkTypes'
    <2>1. [part[p] EXCEPT !.seen = job.work, !.incoming = {d \in posted : PageOf[d] = job.work}] \in Part
      <3>1. part[p] \in Part
        BY DEF WorkInv, WorkTypes
      <3>2. job.work \in Nat /\ {d \in posted : PageOf[d] = job.work} \in SUBSET Doc
        BY <1>1, <1>3, PageAssumption
      <3> QED BY <3>1, <3>2 DEF Part
    <2>2. part' \in [Backend -> Part]
      BY <1>1, <2>1 DEF WorkInv, WorkTypes
    <2> QED BY <1>1, <2>2 DEF WorkInv, WorkTypes
  <1>5. Participant(p) /\ Claims(p) /\ Pinned(p)
    BY DEF WorkInv, Participating
  <1>6. Hand(p)' = Hand(p)
    BY <1>1, <1>2 DEF Hand
  <1>7. Participant(p)'
    BY <1>1, <1>2, <1>5 DEF Participant, Consuming
  <1>8. Claims(p)'
    <2>1. part[p].incoming = {} /\ part[p].fetch = {}
      BY <1>1, <1>5 DEF Participant
    <2>2. ASSUME NEW d \in Hand(p)' PROVE PageOf[d] < job'.work
      BY <1>1, <1>5, <1>6 DEF Claims
    <2>3. ASSUME NEW d \in part[p].pending PROVE d \notin part'[p].incoming
      <3>1. PageOf[d] < job.work /\ PageOf[d] \in Nat
        BY <1>5, PageAssumption DEF Claims, Hand, WorkInv, WorkTypes, Part
      <3> QED BY <1>1, <1>2, <3>1
    <2>4. \A d \in job.snap : PageOf[d] = job.work => d \in part'[p].incoming
      BY <1>2 DEF TableInv, Snapshot
    <2> QED BY <1>1, <1>2, <1>5, <2>1, <2>2, <2>3, <2>4 DEF Claims
  <1>9. Pinned(p)'
    BY <1>1 DEF Pinned
  <1> QED BY <1>1, <1>2, <1>4, <1>6, <1>7, <1>8, <1>9, StepKeeps DEF Sharing, Consuming

(* and claims it unless another one did: the new documents are in no hand. *)
LEMMA WorkClaimWorks ==
  ASSUME LockInv, TableInv, WorkInv, NEW p \in Backend, WorkClaim(p)
  PROVE  WorkInv'
  <1>1. /\ do[p] = "try" /\ UNCHANGED <<owners, pin, job.snap, job.total, job.kind>>
        /\ \A q \in Backend : q # p => part'[q] = part[q] /\ do'[q] = do[q]
    BY DEF WorkClaim, WorkInv, WorkTypes, Part, LockInv, LockTypes, indexVars, lockVars
  <1>2. Participant(p) /\ Claims(p) /\ Pinned(p) /\ part[p].fetch = {}
    BY <1>1 DEF WorkInv, Participating, Participant
  <1>3. CASE job.work # part[p].seen
    <2>1. /\ do'[p] = "claim" /\ job' = job
          /\ part' = [part EXCEPT ![p] = [part[p] EXCEPT !.incoming = {}]]
      BY <1>3 DEF WorkClaim, LockInv, LockTypes
    <2>2. /\ part'[p].pending = part[p].pending /\ part'[p].fetch = part[p].fetch
          /\ part'[p].live = part[p].live /\ part'[p].tally = part[p].tally
          /\ part'[p].seen = part[p].seen /\ part'[p].incoming = {}
      BY <2>1 DEF WorkInv, WorkTypes, Part
    <2>3. WorkTypes'
      BY <2>1 DEF WorkInv, WorkTypes, Part
    <2>4. Hand(p)' = Hand(p)
      BY <1>1, <2>1, <2>2 DEF Hand
    <2>5. Participant(p)' /\ Claims(p)' /\ Pinned(p)'
      BY <1>1, <1>2, <2>1, <2>2, <2>4 DEF Participant, Claims, Pinned, Consuming
    <2> QED BY <1>1, <2>1, <2>2, <2>3, <2>4, <2>5, StepKeeps DEF Sharing, Consuming
  <1>4. CASE job.work = part[p].seen
    <2> DEFINE new == part[p].incoming
    <2>1. /\ job'.work = job.work + 1
          /\ \/ do'[p] = "claim" /\ part' = [part EXCEPT ![p] =
                  [part[p] EXCEPT !.pending = part[p].pending \cup new, !.incoming = {}]]
                /\ (part[p].pending = {} \/ new = {})
             \/ do'[p] = "flush" /\ part' = part /\ part[p].pending # {}
      BY <1>4 DEF WorkClaim, LockInv, LockTypes, WorkInv, WorkTypes, Part
    <2>2. /\ part'[p].fetch = {} /\ part'[p].tally = part[p].tally
          /\ part[p].pending \cup new = part'[p].pending \cup part'[p].incoming
          /\ \/ do'[p] = "claim" /\ part'[p].incoming = {} /\ part'[p].pending \in {part[p].pending, new}
             \/ /\ do'[p] = "flush" /\ part'[p].incoming = new /\ part'[p].pending = part[p].pending
                /\ part[p].pending # {}
      <3>1. CASE do'[p] = "claim" /\ part' = [part EXCEPT ![p] =
                  [part[p] EXCEPT !.pending = part[p].pending \cup new, !.incoming = {}]]
                /\ (part[p].pending = {} \/ new = {})
        <4>1. part'[p] = [part[p] EXCEPT !.pending = part[p].pending \cup new, !.incoming = {}]
          BY <3>1 DEF WorkInv, WorkTypes
        <4>2. /\ part'[p].pending = part[p].pending \cup new /\ part'[p].incoming = {}
              /\ part'[p].fetch = part[p].fetch /\ part'[p].tally = part[p].tally
          BY <4>1 DEF WorkInv, WorkTypes, Part
        <4> QED BY <1>2, <3>1, <4>2
      <3>2. CASE do'[p] = "flush" /\ part' = part /\ part[p].pending # {}
        BY <1>2, <3>2
      <3> QED BY <2>1, <3>1, <3>2
    <2>3. WorkTypes'
      <3>1. job'.work \in 1 .. Pages + 1
        BY <1>1, <1>2, <1>4, <2>1, PageAssumption DEF Claims
      <3>2. part' \in [Backend -> Part]
        <4>1. [part[p] EXCEPT !.pending = part[p].pending \cup new, !.incoming = {}] \in Part
          BY DEF WorkInv, WorkTypes, Part
        <4> QED BY <2>1, <4>1 DEF WorkInv, WorkTypes
      <3> QED BY <1>1, <3>1, <3>2 DEF WorkInv, WorkTypes, Part
    <2>4. Hand(p)' = Hand(p) \cup new
      BY <1>1, <1>2, <2>2 DEF Hand
    <2>5. \A d \in new : d \in Doc /\ PageOf[d] = job.work
      BY <1>1, <1>2, <1>4 DEF Claims, WorkInv, WorkTypes, Part
    <2>6. job.work \in Nat /\ \A d \in Doc : PageOf[d] \in Nat
      BY PageAssumption DEF WorkInv, WorkTypes, Part
    <2>7. \A q \in Backend : \A d \in Hand(q) : PageOf[d] < job.work /\ d \in Doc
      BY DEF WorkInv, WorkTypes, Part, Participating, Claims, Hand
    <2>8. ASSUME NEW q \in Backend, q # p
          PROVE  Participant(q)' /\ Claims(q)' /\ Pinned(q)' /\ Hand(q)' = Hand(q)
      <3>1. Participant(q) /\ Claims(q) /\ Pinned(q) /\ WorkTypes
        BY DEF WorkInv, Participating
      <3>2. job'.work \in Nat /\ job.work <= job'.work
        BY <2>1, <2>6
      <3>3. UNCHANGED <<do[q], part[q], pin[q], job.snap>>
        BY <1>1, <2>8
      <3>4. do[q] = "check" => part[q].live \subseteq owners'
        BY <1>1, <3>1 DEF Pinned
      <3>5. Hand(q)' = Hand(q)
        BY <3>3 DEF Hand
      <3> QED BY <1>1, <3>1, <3>2, <3>3, <3>4, <3>5, OthersKeep
    <2>9. Participant(p)' /\ Pinned(p)'
      BY <1>1, <1>2, <2>2 DEF Participant, Pinned, Consuming
    <2>10. Claims(p)'
      <3>1. ASSUME NEW d \in Hand(p)' PROVE PageOf[d] < job'.work
        BY <2>1, <2>4, <2>5, <2>6, <2>7
      <3>2. part[p].pending \cap new = {}
        BY <1>2 DEF Claims
      <3> QED BY <1>2, <2>2, <3>1, <3>2 DEF Claims
    <2>11. Apart'
      <3>1. ASSUME NEW q \in Backend, q # p PROVE Hand(q) \cap (Hand(p) \cup new) = {}
        <4>1. Hand(q) \cap Hand(p) = {}
          BY <3>1 DEF WorkInv, Apart
        <4>2. \A d \in Hand(q) : d \notin new
          BY <2>5, <2>6, <2>7
        <4> QED BY <4>1, <4>2
      <3>2. ASSUME NEW q \in Backend, q # p, NEW r \in Backend, r # p, q # r PROVE Hand(q)' \cap Hand(r)' = {}
        BY <2>8, <3>2 DEF WorkInv, Apart
      <3> QED BY <2>4, <2>8, <3>1, <3>2 DEF Apart
    <2>12. Counted' = Counted
      <3>1. \A d \in job.snap : d \in Doc
        BY DEF WorkInv, WorkTypes, Part
      <3>2. ASSUME NEW d \in Counted PROVE d \in Counted'
        <4>1. PageOf[d] < job.work /\ d \in job.snap /\ PageOf[d] \in Nat
          BY <2>6, <3>1 DEF Counted
        <4>2. d \notin new
          BY <2>5, <2>6, <4>1
        <4> QED BY <1>1, <2>1, <2>4, <2>6, <2>8, <4>1, <4>2 DEF Counted
      <3>3. ASSUME NEW d \in Counted' PROVE d \in Counted
        <4>1. PageOf[d] < job.work + 1 /\ d \in job.snap /\ PageOf[d] \in Nat
              /\ \A q \in Backend : d \notin Hand(q)'
          BY <1>1, <2>1, <2>6, <3>1 DEF Counted
        <4>2. d \notin new /\ \A q \in Backend : d \notin Hand(q)
          BY <2>4, <2>8, <4>1
        <4>3. PageOf[d] # job.work
          BY <1>1, <1>2, <1>4, <4>1, <4>2 DEF Claims
        <4> QED BY <2>6, <4>1, <4>2, <4>3 DEF Counted
      <3> QED BY <3>2, <3>3
    <2>13. Accounts'
      <3>1. \A q \in Backend : part'[q].tally = part[q].tally
        BY <1>1, <2>2
      <3> QED BY <1>1, <2>12, <3>1, BooksStay DEF WorkInv, Accounts
    <2>14. CountExact' /\ Grouped'
      BY <1>1, <2>2, NoReport DEF CountExact, Grouped, WorkInv, Sharing, Consuming
    <2> QED BY <2>3, <2>8, <2>9, <2>10, <2>11, <2>13, <2>14 DEF WorkInv, Participating
  <1> QED BY <1>3, <1>4

(* No work is left to claim. *)
LEMMA WorkDoneWorks ==
  ASSUME LockInv, WorkInv, NEW p \in Backend, WorkDone(p)
  PROVE  WorkInv'
  <1>1. /\ do[p] = "claim" /\ UNCHANGED <<owners, pin, job, part>> /\ job.work > Pages
        /\ \A q \in Backend : q # p => do'[q] = do[q]
        /\ do'[p] = IF part[p].pending # {} THEN "flush" ELSE "accumulate"
    BY DEF WorkDone, LockInv, LockTypes, indexVars, lockVars
  <1>2. Participant(p) /\ Claims(p) /\ part[p].incoming = {}
    BY <1>1 DEF WorkInv, Participating, Participant
  <1>3. Hand(p)' = Hand(p)
    BY <1>1, <1>2 DEF Hand
  <1>4. Participant(p)' /\ Claims(p)' /\ Pinned(p)'
    BY <1>1, <1>2, <1>3 DEF Participant, Claims, Pinned, Consuming
  <1>5. WorkTypes'
    BY <1>1 DEF WorkInv, WorkTypes
  <1> QED BY <1>1, <1>3, <1>4, <1>5, StepKeeps DEF Sharing, Consuming

(* The pin is taken before the owners are read, and the documents of the   *)
(* snapshot are among them.                                                *)
LEMMA OwnerLockWorks ==
  ASSUME LockInv, TableInv, WorkInv, NEW p \in Backend, OwnerLock(p)
  PROVE  WorkInv'
  <1>1. /\ do[p] = "flush" /\ do'[p] = "check" /\ UNCHANGED <<owners, job>>
        /\ \A q \in Backend : q # p => do'[q] = do[q] /\ part'[q] = part[q]
    BY DEF OwnerLock, LockInv, LockTypes, WorkInv, WorkTypes, indexVars
  <1>2. part' = [part EXCEPT ![p] = [part[p] EXCEPT !.live = owners \cap part[p].pending]]
    BY DEF OwnerLock, WorkInv, WorkTypes, Part
  <1>3. /\ part'[p].pending = part[p].pending /\ part'[p].fetch = part[p].fetch
        /\ part'[p].live = owners \cap part[p].pending /\ part'[p].tally = part[p].tally
        /\ part'[p].seen = part[p].seen /\ part'[p].incoming = part[p].incoming
    BY <1>2 DEF WorkInv, WorkTypes, Part
  <1>4. Participant(p) /\ Claims(p) /\ part[p].pending # {}
    BY <1>1 DEF WorkInv, Participating, Participant
  <1>5. WorkTypes'
    <2>1. [part[p] EXCEPT !.live = owners \cap part[p].pending] \in Part
      BY DEF WorkInv, WorkTypes, Part
    <2>2. part' \in [Backend -> Part]
      BY <1>2, <2>1 DEF WorkInv, WorkTypes
    <2> QED BY <1>1, <2>2 DEF WorkInv, WorkTypes
  <1>6. Hand(p)' = Hand(p)
    BY <1>1, <1>3 DEF Hand
  <1>7. Participant(p)'
    BY <1>1, <1>3, <1>4 DEF Participant, Consuming
  <1>8. Claims(p)'
    BY <1>1, <1>3, <1>4, <1>6 DEF Claims
  <1>9. PICK d \in part[p].pending : pin'[p] = PageOf[d]
    <2>1. (CHOOSE d \in part[p].pending : TRUE) \in part[p].pending
      BY <1>4
    <2>2. pin'[p] = PageOf[CHOOSE d \in part[p].pending : TRUE]
      BY DEF OwnerLock, LockInv, LockTypes
    <2> QED BY <2>1, <2>2
  <1>10. \A q \in Backend : q # p => pin'[q] = pin[q]
    BY DEF OwnerLock, LockInv, LockTypes
  <1>11. Pinned(p)'
    BY <1>1, <1>3, <1>4, <1>9 DEF Pinned, Claims, TableInv, Snapshot
  <1> QED BY <1>1, <1>3, <1>5, <1>6, <1>7, <1>8, <1>10, <1>11, StepKeeps DEF Sharing, Consuming

(* A document leaves the hand: counted, or not in the snapshot. *)
LEMMA DocumentDecided ==
  ASSUME LockInv, WorkInv, NEW p \in Backend, NEW d \in Doc, do[p] = "check",
         UNCHANGED <<do, job, owners, pin>>, WorkTypes',
         \A q \in Backend : q # p => part'[q] = part[q],
         d \in Hand(p), Hand(p)' = Hand(p) \ {d},
         Participant(p)', Claims(p)', Pinned(p)',
         \/ d \in job.snap /\ part'[p].tally = part[p].tally + 1
         \/ d \notin job.snap /\ part'[p].tally = part[p].tally
  PROVE  WorkInv'
  <1>1. ASSUME NEW q \in Backend, q # p
        PROVE  Participant(q)' /\ Claims(q)' /\ Pinned(q)' /\ Hand(q)' = Hand(q) /\ d \notin Hand(q)
    <2>1. Participant(q) /\ Claims(q) /\ Pinned(q) /\ d \notin Hand(q)
      BY <1>1 DEF WorkInv, Participating, Apart
    <2>2. part'[q] = part[q]
      BY <1>1
    <2>3. Hand(q)' = Hand(q)
      BY <2>2 DEF Hand
    <2> QED BY <2>1, <2>2, <2>3 DEF Participant, Claims, Pinned
  <1>2. Participating'
    BY <1>1 DEF Participating
  <1>3. Apart'
    BY <1>1 DEF WorkInv, Apart
  <1>4. PageOf[d] < job.work /\ d \notin Counted
    BY DEF WorkInv, Participating, Claims, Counted
  <1>5. Counted' = IF d \in job.snap THEN Counted \cup {d} ELSE Counted
    <2>1. ASSUME NEW e PROVE (\A q \in Backend : e \notin Hand(q)') <=> (e = d \/ \A q \in Backend : e \notin Hand(q))
      BY <1>1
    <2> QED BY <1>4, <2>1 DEF Counted
  <1>6. Accounts'
    <2> SUFFICES ASSUME job.kind # "grouped"
                 PROVE  \E new \in [Doc -> Backend \cup {NoBackend}] : Books(new)'
      BY DEF Accounts
    <2>1. PICK by \in [Doc -> Backend \cup {NoBackend}] : Books(by)
      BY DEF WorkInv, Accounts
    <2>2. \A q \in Backend : q # p => part'[q].tally = part[q].tally
      OBVIOUS
    <2>3. CASE d \in job.snap /\ part'[p].tally = part[p].tally + 1
      <3>1. LockTypes /\ WorkTypes
        BY DEF LockInv, WorkInv
      <3> QED BY <1>4, <1>5, <2>1, <2>2, <2>3, <3>1, BooksEnter
    <2>4. CASE d \notin job.snap /\ part'[p].tally = part[p].tally
      BY <1>5, <2>1, <2>2, <2>4, BooksStay
    <2> QED BY <2>3, <2>4
  <1>7. CountExact'
    BY NoReport DEF CountExact, Sharing, Consuming
  <1>8. Grouped'
    BY DEF WorkInv, Grouped
  <1> QED BY <1>2, <1>3, <1>6, <1>7, <1>8 DEF WorkInv

(* The owner page decides: a removed owner is rejected, an all-visible one *)
(* counted, another one fetched.                                           *)
LEMMA CheckWorks ==
  ASSUME LockInv, TableInv, WorkInv, NEW p \in Backend, NEW d \in Doc, Check(p, d)
  PROVE  WorkInv'
  <1> DEFINE seen == d \in part[p].live /\ d \in sealed /\ vm[BlockOf[d]]
             fetched == d \in part[p].live /\ ~(d \in sealed /\ vm[BlockOf[d]])
             r == [part[p] EXCEPT !.pending = part[p].pending \ {d},
                     !.fetch = IF fetched THEN part[p].fetch \cup {d} ELSE part[p].fetch,
                     !.tally = IF seen THEN part[p].tally + 1 ELSE part[p].tally]
  <1>1. /\ do[p] = "check" /\ UNCHANGED <<do, job, owners, pin>> /\ d \in part[p].pending
        /\ \A q \in Backend : q # p => part'[q] = part[q]
    BY DEF Check, WorkInv, WorkTypes, indexVars, lockVars
  <1>2. part' = [part EXCEPT ![p] = r]
    BY DEF Check, WorkInv, WorkTypes, Part
  <1>3. /\ part'[p].pending = part[p].pending \ {d} /\ part'[p].incoming = part[p].incoming
        /\ part'[p].live = part[p].live /\ part'[p].seen = part[p].seen
        /\ part'[p].fetch = (IF fetched THEN part[p].fetch \cup {d} ELSE part[p].fetch)
        /\ part'[p].tally = (IF seen THEN part[p].tally + 1 ELSE part[p].tally)
    BY <1>2 DEF WorkInv, WorkTypes, Part
  <1>4. Participant(p) /\ Claims(p) /\ Pinned(p)
    BY DEF WorkInv, Participating
  <1>5. WorkTypes'
    <2>1. r \in Part
      <3>1. part[p] \in Part
        BY DEF WorkInv, WorkTypes
      <3>2. /\ part[p].pending \ {d} \in SUBSET Doc
            /\ (IF fetched THEN part[p].fetch \cup {d} ELSE part[p].fetch) \in SUBSET Doc
            /\ (IF seen THEN part[p].tally + 1 ELSE part[p].tally) \in Nat
        BY <3>1 DEF Part
      <3> HIDE DEF seen, fetched
      <3> QED BY <3>1, <3>2 DEF Part
    <2>2. part' \in [Backend -> Part]
      BY <1>2, <2>1 DEF WorkInv, WorkTypes
    <2> QED BY <1>1, <2>2 DEF WorkInv, WorkTypes
  <1>6. seen => d \in job.snap
    <2> SUFFICES ASSUME seen PROVE d \in job.snap
      OBVIOUS
    <2>1. d \in owners /\ BlockOf[d] \in HeapBlock
      BY <1>1, <1>4 DEF Pinned, HeapBlock
    <2>2. AllVisible(BlockOf[d], heap) /\ heap[d] \notin {"absent", "unused"}
      BY <2>1 DEF TableInv, Tuples, Snapshot
    <2>3. Counting
      BY <1>1, BackendAssumption DEF LockInv, LockTypes, Teams, Counting, InCount, Sharing, Working, Consuming
    <2> QED BY <2>2, <2>3 DEF AllVisible
  <1>7. d \in job.snap => d \in part[p].live
    BY <1>1, <1>4 DEF Pinned
  <1>8. ~(seen /\ fetched) /\ (d \in part[p].live => seen \/ fetched) /\ (seen \/ fetched => d \in part[p].live)
    OBVIOUS
  <1> HIDE DEF seen, fetched, r
  <1>9. Participant(p)' /\ Pinned(p)'
    BY <1>1, <1>3, <1>4 DEF Participant, Pinned, Consuming
  <1>10. Hand(p)' \subseteq Hand(p)
    BY <1>1, <1>3 DEF Hand
  <1>11. Claims(p)'
    BY <1>1, <1>3, <1>4, <1>10 DEF Claims
  <1>12. CASE fetched
    <2>1. Hand(p)' = Hand(p)
      BY <1>1, <1>3, <1>12 DEF Hand
    <2> QED BY <1>1, <1>3, <1>5, <1>8, <1>9, <1>11, <1>12, <2>1, StepKeeps DEF Sharing, Consuming
  <1>13. CASE ~fetched
    <2>1. Hand(p)' = Hand(p) \ {d} /\ d \in Hand(p)
      BY <1>1, <1>3, <1>4, <1>13 DEF Hand, Claims
    <2>2. \/ d \in job.snap /\ part'[p].tally = part[p].tally + 1
          \/ d \notin job.snap /\ part'[p].tally = part[p].tally
      BY <1>3, <1>6, <1>7, <1>8, <1>13
    <2> QED BY <1>1, <1>5, <1>9, <1>11, <2>1, <2>2, DocumentDecided
  <1> QED BY <1>12, <1>13

(* The heap decides under the snapshot. *)
LEMMA FetchWorks ==
  ASSUME LockInv, TableInv, WorkInv, NEW p \in Backend, NEW d \in Doc, Fetch(p, d)
  PROVE  WorkInv'
  <1> DEFINE seen == d \in job.snap /\ heap[d] # "unused"
             r == [part[p] EXCEPT !.fetch = part[p].fetch \ {d},
                     !.tally = IF seen THEN part[p].tally + 1 ELSE part[p].tally]
  <1>1. /\ do[p] = "check" /\ UNCHANGED <<do, job, owners, pin>> /\ d \in part[p].fetch
        /\ \A q \in Backend : q # p => part'[q] = part[q]
    BY DEF Fetch, WorkInv, WorkTypes, indexVars, lockVars
  <1>2. part' = [part EXCEPT ![p] = r]
    BY DEF Fetch, WorkInv, WorkTypes, Part
  <1>3. /\ part'[p].pending = part[p].pending /\ part'[p].incoming = part[p].incoming
        /\ part'[p].live = part[p].live /\ part'[p].seen = part[p].seen
        /\ part'[p].fetch = part[p].fetch \ {d}
        /\ part'[p].tally = (IF seen THEN part[p].tally + 1 ELSE part[p].tally)
    BY <1>2 DEF WorkInv, WorkTypes, Part
  <1>4. Participant(p) /\ Claims(p) /\ Pinned(p)
    BY DEF WorkInv, Participating
  <1>5. WorkTypes'
    <2>1. r \in Part
      <3>1. part[p] \in Part
        BY DEF WorkInv, WorkTypes
      <3>2. /\ part[p].fetch \ {d} \in SUBSET Doc
            /\ (IF seen THEN part[p].tally + 1 ELSE part[p].tally) \in Nat
        BY <3>1 DEF Part
      <3> HIDE DEF seen
      <3> QED BY <3>1, <3>2 DEF Part
    <2>2. part' \in [Backend -> Part]
      BY <1>2, <2>1 DEF WorkInv, WorkTypes
    <2> QED BY <1>1, <2>2 DEF WorkInv, WorkTypes
  <1>6. seen <=> d \in job.snap
    BY DEF TableInv, Snapshot
  <1> HIDE DEF seen, r
  <1>7. Participant(p)' /\ Pinned(p)'
    BY <1>1, <1>3, <1>4 DEF Participant, Pinned, Consuming
  <1>8. Hand(p)' = Hand(p) \ {d} /\ d \in Hand(p)
    BY <1>1, <1>3, <1>4 DEF Hand, Claims
  <1>9. Claims(p)'
    BY <1>1, <1>3, <1>4, <1>8 DEF Claims
  <1> QED BY <1>1, <1>3, <1>5, <1>6, <1>7, <1>8, <1>9, DocumentDecided

(* The page is done; what was claimed after it is next. *)
LEMMA OwnerUnlockWorks ==
  ASSUME LockInv, WorkInv, NEW p \in Backend, OwnerUnlock(p)
  PROVE  WorkInv'
  <1>1. /\ do[p] = "check" /\ do'[p] = "claim" /\ UNCHANGED <<owners, job>>
        /\ part[p].pending = {} /\ part[p].fetch = {}
        /\ \A q \in Backend : q # p => do'[q] = do[q] /\ part'[q] = part[q] /\ pin'[q] = pin[q]
    BY DEF OwnerUnlock, LockInv, LockTypes, WorkInv, WorkTypes, indexVars
  <1>2. part' = [part EXCEPT ![p] = [part[p] EXCEPT !.pending = part[p].incoming, !.incoming = {}, !.live = {}]]
    BY DEF OwnerUnlock, WorkInv, WorkTypes, Part
  <1>3. /\ part'[p].pending = part[p].incoming /\ part'[p].fetch = {} /\ part'[p].incoming = {}
        /\ part'[p].tally = part[p].tally /\ part'[p].seen = part[p].seen
    BY <1>1, <1>2 DEF WorkInv, WorkTypes, Part
  <1>4. Participant(p) /\ Claims(p)
    BY DEF WorkInv, Participating
  <1>5. WorkTypes'
    <2>1. [part[p] EXCEPT !.pending = part[p].incoming, !.incoming = {}, !.live = {}] \in Part
      BY DEF WorkInv, WorkTypes, Part
    <2>2. part' \in [Backend -> Part]
      BY <1>2, <2>1 DEF WorkInv, WorkTypes
    <2> QED BY <1>1, <2>2 DEF WorkInv, WorkTypes
  <1>6. Hand(p)' = Hand(p)
    BY <1>1, <1>3 DEF Hand
  <1>7. Participant(p)' /\ Claims(p)' /\ Pinned(p)'
    BY <1>1, <1>3, <1>4, <1>6 DEF Participant, Claims, Pinned, Consuming
  <1> QED BY <1>1, <1>3, <1>5, <1>6, <1>7, StepKeeps DEF Sharing, Consuming

(* A participant adds its tally; its hands are empty. *)
LEMMA AccumulateWorks ==
  ASSUME LockInv, WorkInv, NEW p \in Backend, Accumulate(p)
  PROVE  WorkInv'
  <1>1. /\ do[p] = "accumulate" /\ UNCHANGED <<owners, pin, job.snap, job.work, job.kind>>
        /\ job'.total = job.total + part[p].tally
        /\ part' = [part EXCEPT ![p] = NoPart] /\ part'[p] = NoPart /\ part'[p].tally = 0
        /\ \A q \in Backend : q # p => do'[q] = do[q] /\ part'[q] = part[q]
        /\ do'[p] = (IF p = job.leader THEN "gather" ELSE "idle")
    BY DEF Accumulate, NoPart, LockInv, LockTypes, WorkInv, WorkTypes, indexVars
  <1>2. Participant(p) /\ Claims(p)
    BY DEF WorkInv, Participating
  <1>3. Hand(p) = {} /\ Hand(p)' = {}
    BY <1>1, <1>2 DEF Hand, Participant, NoPart
  <1>4. Participant(p)' /\ Claims(p)' /\ Pinned(p)'
    BY <1>1, <1>2, <1>3 DEF Participant, Claims, Pinned, Consuming, NoPart
  <1>5. ASSUME NEW q \in Backend, q # p
        PROVE  Participant(q)' /\ Claims(q)' /\ Pinned(q)' /\ Hand(q)' = Hand(q)
    <2>1. Participant(q) /\ Claims(q) /\ Pinned(q)
      BY DEF WorkInv, Participating
    <2>2. part'[q] = part[q] /\ do'[q] = do[q]
      BY <1>1, <1>5
    <2>3. Hand(q)' = Hand(q)
      BY <2>2 DEF Hand
    <2> QED BY <1>1, <2>1, <2>2, <2>3 DEF Participant, Claims, Pinned
  <1>6. WorkTypes'
    <2>1. NoPart \in Part /\ job'.total \in Nat
      BY <1>1 DEF NoPart, Part, WorkInv, WorkTypes
    <2> QED BY <1>1, <2>1 DEF WorkInv, WorkTypes
  <1>7. Apart'
    BY <1>3, <1>5 DEF WorkInv, Apart
  <1>8. Counted' = Counted
    BY <1>1, <1>3, <1>5 DEF Counted
  <1>9. Accounts'
    <2> SUFFICES ASSUME job.kind # "grouped"
                 PROVE  \E new \in [Doc -> Backend \cup {NoBackend}] : Books(new)'
      BY <1>1 DEF Accounts
    <2>1. PICK by \in [Doc -> Backend \cup {NoBackend}] : Books(by)
      BY DEF WorkInv, Accounts
    <2>2. LockTypes /\ WorkTypes /\ \A q \in Backend : q # p => part'[q].tally = part[q].tally
      BY <1>1 DEF LockInv, WorkInv
    <2> QED BY <1>1, <1>8, <2>1, <2>2, BooksMerge
  <1>10. CountExact' /\ Grouped'
    BY <1>1, NoReport DEF CountExact, Grouped, WorkInv, Sharing, Consuming
  <1> QED BY <1>4, <1>5, <1>6, <1>7, <1>9, <1>10 DEF WorkInv, Participating

(* The whole team has accumulated: every document of the snapshot is in    *)
(* the total.                                                              *)
LEMMA GatherWorks ==
  ASSUME LockInv, WorkInv, NEW p \in Backend, Gather(p)
  PROVE  WorkInv'
  <1>1. /\ do[p] = "gather" /\ do'[p] = "report" /\ UNCHANGED <<owners, pin, job, part>> /\ job.team = {}
        /\ \A q \in Backend : q # p => do'[q] = do[q]
    BY DEF Gather, LockInv, LockTypes, indexVars
  <1>2. \A q \in Backend : q # p => do[q] \notin InCount
    BY <1>1 DEF LockInv, Teams, InCount, Sharing, Consuming
  <1>3. \A q \in Backend : part[q] = NoPart /\ Hand(q) = {}
    BY <1>1, <1>2 DEF WorkInv, Participating, Participant, InCount, Sharing, Consuming, Hand, NoPart
  <1>4. job.work > Pages /\ job.kind # "grouped"
    BY <1>1 DEF WorkInv, Participating, Participant, Consuming
  <1>5. ASSUME NEW q \in Backend
        PROVE  Participant(q)' /\ Claims(q)' /\ Pinned(q)' /\ Hand(q)' = Hand(q)
    BY <1>1, <1>2, <1>3 DEF NoPart, Participant, Claims, Pinned, Hand, InCount, Sharing, Consuming
  <1>6. Apart' /\ Accounts'
    BY <1>1, <1>5, HandsKept DEF WorkInv
  <1>7. Counted = job.snap
    BY <1>3, <1>4, PageAssumption DEF Counted, WorkInv, WorkTypes
  <1>8. job.total = Cardinality(job.snap)
    <2>1. PICK by \in [Doc -> Backend \cup {NoBackend}] : Books(by)
      BY <1>4 DEF WorkInv, Accounts
    <2>2. ASSUME NEW q \in Backend PROVE Entered(by, q) = {}
      <3>1. Cardinality(Entered(by, q)) = 0
        BY <1>3, <2>1 DEF Books, NoPart
      <3>2. IsFiniteSet(Entered(by, q))
        BY CountedFinite DEF Entered, Counted, WorkInv
      <3> QED BY <3>1, <3>2, FS_EmptySet
    <2>3. Entered(by, NoBackend) = Counted
      <3>1. ASSUME NEW d \in Counted PROVE by[d] = NoBackend
        <4>1. by[d] \in Backend \cup {NoBackend}
          BY <1>7 DEF WorkInv, WorkTypes
        <4> QED BY <2>2, <4>1 DEF Entered
      <3> QED BY <3>1 DEF Entered
    <2> QED BY <1>7, <2>1, <2>3 DEF Books
  <1>9. CountExact'
    BY <1>1, <1>2, <1>8 DEF CountExact, InCount
  <1>10. WorkTypes' /\ Grouped'
    BY <1>1, <1>2 DEF WorkInv, WorkTypes, Grouped
  <1> QED BY <1>5, <1>6, <1>9, <1>10 DEF WorkInv, Participating

(* An abort takes a count down as a whole, or a backend beside it. *)
LEMMA AbortWorks ==
  ASSUME LockInv, WorkInv, NEW p \in Backend, Abort(p)
  PROVE  WorkInv'
  <1>1. PICK gone : gone = Aborted(p)
    OBVIOUS
  <1>2. /\ \A q \in Backend : do'[q] = IF q \in gone THEN "idle" ELSE do[q]
        /\ \A q \in Backend : pin'[q] = IF q \in gone THEN 0 ELSE pin[q]
        /\ part' = [q \in Backend |-> IF q \in gone THEN NoPart ELSE part[q]]
        /\ owners' = owners
    BY <1>1 DEF Abort, indexVars
  <1>3. "idle" \notin InCount
    BY DEF InCount, Sharing, Consuming
  <1>4. CASE Counting /\ p \in Participants
    <2>1. job' = NoJob /\ gone = Participants
      BY <1>1, <1>4 DEF Abort, Aborted
    <2>2. \A q \in Backend : do[q] \in InCount => q \in gone
      BY <2>1 DEF Participants, LockInv, Teams
    <2>3. part' = [q \in Backend |-> part'[q]]
      BY <1>2
    <2> QED BY <1>2, <1>3, <2>1, <2>2, <2>3, WorkEnds
  <1>5. CASE ~(Counting /\ p \in Participants)
    <2>1. job' = job /\ gone = {p}
      BY <1>1, <1>5 DEF Abort, Aborted
    <2>2. do[p] \notin InCount
      BY <1>5, BackendAssumption DEF Participants, Counting, LockInv, LockTypes, Teams
    <2>3. part[p] = NoPart
      BY <2>2 DEF WorkInv, Participating, Participant, InCount, Sharing, Consuming
    <2>4. part' = part
      BY <1>2, <2>1, <2>3 DEF WorkInv, WorkTypes
    <2>5. \A q \in Backend : q # p => do'[q] = do[q] /\ pin'[q] = pin[q]
      BY <1>2, <2>1
    <2>6. do'[p] = "idle"
      BY <1>2, <2>1
    <2>7. do[p] # "check"
      BY <2>2 DEF InCount, Sharing, Consuming
    <2>8. \A q \in Backend : do[q] = "check" => part[q].live \subseteq owners
      BY DEF WorkInv, Participating, Pinned
    <2> QED BY <1>2, <1>3, <2>1, <2>2, <2>4, <2>5, <2>6, <2>7, <2>8, WorkAside
  <1> QED BY <1>4, <1>5

-----------------------------------------------------------------------------
(* Every step *)

(* Waiting for locks and taking them touches no table. *)
LEMMA LocksTables ==
  ASSUME LockTypes, TableInv, NEW p \in Backend,
         \/ ScanBegin(p) \/ ScanLocked(p) \/ ScanRescan(p) \/ ScanEnd(p) \/ InsertLocked(p)
         \/ BarrierLocked(p) \/ MaintainLocked(p) \/ VacuumLocked(p) \/ RemoveDone(p)
  PROVE  TableInv'
  <1>1. UNCHANGED <<heap, vm, owners, posted, dead, mine, job>>
    BY DEF ScanBegin, ScanLocked, ScanRescan, ScanEnd, InsertLocked, BarrierLocked, MaintainLocked,
           VacuumLocked, RemoveDone, tableVars, indexVars
  <1>2. CASE ScanEnd(p)
    BY <1>1, <1>2, TablesKept DEF ScanEnd
  <1>3. CASE ScanBegin(p) \/ ScanRescan(p)
    <2>1. do[p] = "idle" /\ do' = [do EXCEPT ![p] = "scan"]
      BY <1>3 DEF ScanBegin, ScanRescan
    <2> QED BY <1>1, <2>1, TablesKeptBy
  <1>4. CASE ScanLocked(p)
    <2>1. do[p] = "scan" /\ do' = [do EXCEPT ![p] = "idle"]
      BY <1>4 DEF ScanLocked
    <2> QED BY <1>1, <2>1, TablesKeptBy
  <1>5. CASE InsertLocked(p)
    <2>1. do[p] = "insert" /\ do' = [do EXCEPT ![p] = "inserting"]
      BY <1>5 DEF InsertLocked
    <2> QED BY <1>1, <2>1, TablesKeptBy
  <1>6. CASE BarrierLocked(p)
    <2>1. do[p] = "barrier" /\ do' = [do EXCEPT ![p] = "interlock"]
      BY <1>6 DEF BarrierLocked
    <2> QED BY <1>1, <2>1, TablesKeptBy
  <1>7. CASE MaintainLocked(p)
    <2>1. do[p] = "interlock" /\ do' = [do EXCEPT ![p] = "maintain"]
      BY <1>7 DEF MaintainLocked
    <2> QED BY <1>1, <2>1, TablesKeptBy
  <1>8. CASE VacuumLocked(p)
    <2>1. do[p] = "vacuum" /\ do' = [do EXCEPT ![p] = "remove"]
      BY <1>8 DEF VacuumLocked
    <2> QED BY <1>1, <2>1, TablesKeptBy
  <1>9. CASE RemoveDone(p)
    <2>1. do[p] = "remove" /\ do' = [do EXCEPT ![p] = "heap"] /\ dead \cap owners = {}
      BY <1>9 DEF RemoveDone
    <2> QED BY <1>1, <2>1, TablesKeptBy
  <1> QED BY <1>2, <1>3, <1>4, <1>5, <1>6, <1>7, <1>8, <1>9

(* Nor does a count. *)
LEMMA CountsTables ==
  ASSUME LockTypes, TableInv, NEW p \in Backend,
         \/ CountLocked(p) \/ Protect(p) \/ Unprotected(p) \/ GroupedDone(p)
         \/ \E b \in HeapBlock : GroupedPage(p, b)
         \/ \E team \in SUBSET Backend : Launch(p, team)
         \/ WorkSnapshot(p) \/ WorkClaim(p) \/ WorkDone(p) \/ OwnerLock(p) \/ OwnerUnlock(p)
         \/ \E d \in Doc : Check(p, d) \/ Fetch(p, d)
         \/ Accumulate(p) \/ Gather(p) \/ CountEnd(p)
  PROVE  TableInv'
  <1>1. UNCHANGED <<heap, vm, owners, posted, dead, mine>>
    BY DEF CountLocked, Protect, Unprotected, GroupedDone, GroupedPage, Launch, WorkSnapshot, WorkClaim,
           WorkDone, OwnerLock, OwnerUnlock, Check, Fetch, Accumulate, Gather, CountEnd, tableVars, indexVars
  <1>2. UNCHANGED <<job.leader, job.snap>> \/ job' = NoJob
    <2>1. CASE CountLocked(p) \/ Protect(p) \/ (\E b \in HeapBlock : GroupedPage(p, b)) \/ WorkSnapshot(p)
      BY <2>1 DEF CountLocked, Protect, GroupedPage, WorkSnapshot
    <2>2. CASE \/ WorkDone(p) \/ OwnerLock(p) \/ OwnerUnlock(p) \/ (\E d \in Doc : Check(p, d) \/ Fetch(p, d))
               \/ Gather(p)
      BY <2>2 DEF WorkDone, OwnerLock, OwnerUnlock, Check, Fetch, Gather
    <2>3. CASE Unprotected(p) \/ CountEnd(p)
      BY <2>3 DEF Unprotected, CountEnd
    <2>4. CASE GroupedDone(p)
      BY <2>4 DEF GroupedDone, LockTypes
    <2>5. CASE WorkClaim(p)
      BY <2>5 DEF WorkClaim, LockTypes
    <2>6. CASE Accumulate(p)
      BY <2>6 DEF Accumulate, LockTypes
    <2>7. CASE \E team \in SUBSET Backend : Launch(p, team)
      BY <2>7 DEF Launch, LockTypes
    <2> QED BY <2>1, <2>2, <2>3, <2>4, <2>5, <2>6, <2>7
  <1>3. ASSUME NEW q \in Backend, do'[q] # do[q]
        PROVE  /\ do'[q] \in InCount \cup {"idle"}
               /\ do[q] \in InCount \cup {"idle"}
    <2> USE <1>3 DEF LockTypes, InCount, Sharing, Consuming
    <2>1. CASE \E team \in SUBSET Backend : Launch(p, team)
      <3>1. PICK team \in SUBSET Backend : Launch(p, team)
        BY <2>1
      <3>2. CASE team = {}
        BY <3>1, <3>2 DEF Launch
      <3>3. CASE team # {}
        <4>1. do'[q] = (IF q = p THEN "claim" ELSE IF q \in team THEN "count" ELSE do[q])
          BY <3>1, <3>3 DEF Launch
        <4>2. q \in team => do[q] = "idle"
          BY <3>1 DEF Launch
        <4>3. do[p] = "capture"
          BY <3>1 DEF Launch
        <4> QED BY <4>1, <4>2, <4>3
      <3> QED BY <3>2, <3>3
    <2>2. CASE CountLocked(p) \/ Protect(p) \/ (\E b \in HeapBlock : GroupedPage(p, b)) \/ WorkSnapshot(p)
      BY <2>2 DEF CountLocked, Protect, GroupedPage, WorkSnapshot
    <2>3. CASE \/ WorkDone(p) \/ OwnerLock(p) \/ OwnerUnlock(p) \/ (\E d \in Doc : Check(p, d) \/ Fetch(p, d))
               \/ Gather(p)
      BY <2>3 DEF WorkDone, OwnerLock, OwnerUnlock, Check, Fetch, Gather
    <2>4. CASE Unprotected(p) \/ CountEnd(p) \/ GroupedDone(p)
      BY <2>4 DEF Unprotected, CountEnd, GroupedDone
    <2>5. CASE WorkClaim(p) \/ Accumulate(p)
      BY <2>5 DEF WorkClaim, Accumulate
    <2> QED BY <2>1, <2>2, <2>3, <2>4, <2>5
  <1>4. ASSUME NEW q \in Backend, do'[q] # do[q]
        PROVE  mine[q] = NoDoc /\ do'[q] \notin {"insert", "inserting", "heap"}
    BY <1>3, <1>4 DEF TableInv, Inserting, InCount, Sharing, Consuming
  <1> QED BY <1>1, <1>2, <1>4, TablesKept

(* So the tables agree in every step. *)
LEMMA NextTables == LockInv /\ TableInv /\ [Next]_vars => TableInv'
  <1> SUFFICES ASSUME LockInv, TableInv, [Next]_vars
               PROVE  TableInv'
    OBVIOUS
  <1>1. LockTypes
    BY DEF LockInv
  <1>2. CASE UNCHANGED vars
    <2>1. UNCHANGED <<do, heap, vm, owners, posted, dead, mine, job>>
      BY <1>2 DEF vars, tableVars, indexVars
    <2> QED BY <1>1, <2>1, TablesKept
  <1>3. ASSUME NEW d \in Doc, HeapDelete(d) PROVE TableInv'
    BY <1>1, <1>3, HeapDeleteTables
  <1>4. ASSUME NEW p \in Backend, Starts(p) PROVE TableInv'
    BY <1>1, <1>4, LocksTables, VacuumBeginTables, InsertBeginTables, CountBeginTables DEF Starts
  <1>5. ASSUME NEW p \in Backend, Progress(p) PROVE TableInv'
    BY <1>1, <1>5, LocksTables, CountsTables, MaintainDoneTables, InsertDoneTables, HeapCleanTables DEF Progress
  <1>6. ASSUME NEW p \in Backend, ScanEnd(p) \/ Cancel(p) \/ DeadlockAbort(p) PROVE TableInv'
    BY <1>1, <1>6, LocksTables, AbortTables DEF Cancel, DeadlockAbort
  <1>7. ASSUME NEW p \in Backend, NEW k \in 1 .. Pages, RemoveOwners(p, k) PROVE TableInv'
    BY <1>1, <1>7, RemoveOwnersTables
  <1> QED BY <1>2, <1>3, <1>4, <1>5, <1>6, <1>7 DEF Next

(* Scans, insertions and vacuum leave a count alone.                       *)
LEMMA AsideWorks ==
  ASSUME LockInv, WorkInv, NEW p \in Backend,
         \/ ScanBegin(p) \/ ScanLocked(p) \/ ScanRescan(p) \/ ScanEnd(p) \/ InsertLocked(p)
         \/ BarrierLocked(p) \/ MaintainLocked(p) \/ MaintainDone(p) \/ VacuumBegin(p) \/ VacuumLocked(p)
         \/ RemoveDone(p) \/ HeapClean(p)
         \/ \E d \in Doc : InsertBegin(p, d)
         \/ \E due \in BOOLEAN : InsertDone(p, due)
  PROVE  WorkInv'
  <1> USE DEF ScanBegin, ScanLocked, ScanRescan, ScanEnd, InsertLocked, BarrierLocked, MaintainLocked,
          MaintainDone, VacuumBegin, VacuumLocked, RemoveDone, HeapClean, InsertBegin, InsertDone
  <1>1. UNCHANGED <<part, job, pin>>
    BY DEF lockVars
  <1>2. owners \subseteq owners'
    BY DEF indexVars
  <1>3. \A q \in Backend : do'[q] # do[q] => do[q] \notin InCount /\ do'[q] \notin InCount
    BY DEF LockInv, LockTypes, InCount, Sharing, Consuming
  <1>4. \A q \in Backend : do[q] = "check" => part[q].live \subseteq owners'
    BY <1>2 DEF WorkInv, Participating, Pinned
  <1> QED BY <1>1, <1>3, <1>4, WorkAside

(* Owner removal waits for every pin on the page. *)
LEMMA RemoveOwnersWorks ==
  ASSUME LockInv, WorkInv, NEW p \in Backend, NEW k \in 1 .. Pages, RemoveOwners(p, k)
  PROVE  WorkInv'
  <1>1. UNCHANGED <<part, job, pin, do>>
    BY DEF RemoveOwners, lockVars
  <1>2. ASSUME NEW q \in Backend, do[q] = "check"
        PROVE  part[q].live \subseteq owners'
    <2>1. /\ part[q].live \subseteq owners
          /\ \A d \in part[q].live : PageOf[d] = pin[q]
      BY <1>2 DEF WorkInv, Participating, Pinned
    <2>2. pin[q] # k
      BY DEF RemoveOwners, Pinners
    <2> QED BY <2>1, <2>2 DEF RemoveOwners, Removable
  <1> QED BY <1>1, <1>2, WorkAside

(* So every count keeps its books. *)
LEMMA NextWorks == LockInv /\ TableInv /\ WorkInv /\ [Next]_vars => WorkInv'
  <1> SUFFICES ASSUME LockInv, TableInv, WorkInv, [Next]_vars
               PROVE  WorkInv'
    OBVIOUS
  <1>1. CASE UNCHANGED vars
    <2>1. UNCHANGED <<do, part, job, pin, owners>>
      BY <1>1 DEF vars, lockVars, indexVars
    <2>2. \A q \in Backend : do[q] = "check" => part[q].live \subseteq owners'
      BY <2>1 DEF WorkInv, Participating, Pinned
    <2> QED BY <2>1, <2>2, WorkAside
  <1>2. ASSUME NEW d \in Doc, HeapDelete(d) PROVE WorkInv'
    <2>1. UNCHANGED <<do, part, job, pin, owners>>
      BY <1>2 DEF HeapDelete, lockVars, indexVars
    <2>2. \A q \in Backend : do[q] = "check" => part[q].live \subseteq owners'
      BY <2>1 DEF WorkInv, Participating, Pinned
    <2> QED BY <2>1, <2>2, WorkAside
  <1>3. ASSUME NEW p \in Backend, Starts(p) PROVE WorkInv'
    BY <1>3, AsideWorks, CountBeginWorks DEF Starts
  <1>4. ASSUME NEW p \in Backend, Progress(p) PROVE WorkInv'
    <2>1. CASE \/ ScanLocked(p) \/ InsertLocked(p) \/ BarrierLocked(p) \/ MaintainLocked(p) \/ MaintainDone(p)
               \/ \E due \in BOOLEAN : InsertDone(p, due)
               \/ VacuumLocked(p) \/ RemoveDone(p) \/ HeapClean(p)
      BY <2>1, AsideWorks
    <2>2. CASE \/ CountLocked(p) \/ Protect(p) \/ Unprotected(p) \/ GroupedDone(p)
               \/ \E b \in HeapBlock : GroupedPage(p, b)
               \/ \E team \in SUBSET Backend : Launch(p, team)
      BY <2>2, CountLockedWorks, ProtectWorks, CountOverWorks, GroupedDoneWorks, GroupedPageWorks, LaunchWorks
    <2>3. CASE \/ WorkSnapshot(p) \/ WorkClaim(p) \/ WorkDone(p) \/ OwnerLock(p) \/ OwnerUnlock(p)
               \/ \E d \in Doc : Check(p, d) \/ Fetch(p, d)
               \/ Accumulate(p) \/ Gather(p) \/ CountEnd(p)
      BY <2>3, WorkSnapshotWorks, WorkClaimWorks, WorkDoneWorks, OwnerLockWorks, OwnerUnlockWorks, CheckWorks,
         FetchWorks, AccumulateWorks, GatherWorks, CountOverWorks
    <2> QED BY <1>4, <2>1, <2>2, <2>3 DEF Progress
  <1>5. ASSUME NEW p \in Backend, ScanEnd(p) \/ Cancel(p) \/ DeadlockAbort(p) PROVE WorkInv'
    BY <1>5, AsideWorks, AbortWorks DEF Cancel, DeadlockAbort
  <1>6. ASSUME NEW p \in Backend, NEW k \in 1 .. Pages, RemoveOwners(p, k) PROVE WorkInv'
    BY <1>6, RemoveOwnersWorks
  <1> QED BY <1>1, <1>2, <1>3, <1>4, <1>5, <1>6 DEF Next

(* At the beginning the tables are empty and nobody counts. *)
LEMMA InitCounts == Init => TableInv /\ WorkInv
  <1> SUFFICES ASSUME Init PROVE TableInv /\ WorkInv
    OBVIOUS
  <1>1. TableInv
    <2>1. TableTypes
      BY DEF Init, TableTypes, HeapState
    <2>2. Inserting
      BY DEF Init, Inserting
    <2>3. Tuples
      BY DEF Init, Tuples
    <2>4. Snapshot
      BY DEF Init, Snapshot, NoJob
    <2> QED BY <2>1, <2>2, <2>3, <2>4 DEF TableInv
  <1>2. WorkInv
    <2>1. /\ \A q \in Backend : do[q] = "idle" /\ part[q] = NoPart
          /\ part = [q \in Backend |-> NoPart] /\ job = NoJob
          /\ job.snap = {} /\ job.work = 1 /\ job.total = 0
      BY DEF Init, NoJob
    <2>2. WorkTypes
      BY <2>1, PageAssumption DEF WorkTypes, Part, NoPart
    <2>3. \A q \in Backend : Participant(q) /\ Claims(q) /\ Pinned(q) /\ Hand(q) = {}
      BY <2>1 DEF NoPart, Participant, Claims, Pinned, Hand, Consuming
    <2>4. Apart /\ Grouped /\ CountExact
      BY <2>1, <2>3 DEF Apart, Grouped, CountExact
    <2>5. Accounts
      <3> DEFINE by == [d \in Doc |-> NoBackend]
      <3>1. \A q : Entered(by, q) = {}
        BY <2>1 DEF Entered, Counted
      <3>2. Books(by)
        BY <2>1, <3>1, FS_EmptySet DEF Books, NoPart
      <3> QED BY <3>2 DEF Accounts
    <2> QED BY <2>2, <2>3, <2>4, <2>5 DEF WorkInv, Participating
  <1> QED BY <1>1, <1>2

(* In every behaviour of any number of backends a count that is reported   *)
(* is the number of documents of its snapshot, whatever is inserted,       *)
(* deleted, vacuumed, compacted or aborted beside it and however its team  *)
(* divides the owner pages.                                                *)
THEOREM CountAlwaysExact == Spec => []CountExact
  <1>1. Init => LockInv /\ TableInv /\ WorkInv
    BY InitHolds, InitCounts
  <1>2. LockInv /\ TableInv /\ WorkInv /\ [Next]_vars => (LockInv /\ TableInv /\ WorkInv)'
    BY NextKeeps, NextTables, NextWorks
  <1>3. WorkInv => CountExact
    BY DEF WorkInv
  <1> QED BY <1>1, <1>2, <1>3, PTL DEF Spec

(* In every behaviour of any number of backends, those that wait for one   *)
(* another in a circle are insertions with an open scan that ask for the   *)
(* exclusive barrier: no other order of the locks can deadlock.            *)
THEOREM DeadlocksAlwaysUpgrade == Spec => []DeadlockOnlyByUpgrade
  <1> DEFINE I == LockInv /\ QueueInv /\ TableInv
  <1>1. Init => I
    BY InitHolds, InitQueues, InitCounts
  <1>2. I /\ [Next]_vars => I'
    BY NextKeeps, NextQueues, NextTables
  <1>3. I => DeadlockOnlyByUpgrade
    BY InvNoCycles DEF TableInv, TableTypes
  <1> QED BY <1>1, <1>2, <1>3, PTL DEF Spec

=============================================================================
