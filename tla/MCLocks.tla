------------------------------ MODULE MCLocks -------------------------------
(* Small instances of Interlocks for TLC. *)
EXTENDS Interlocks, Sequences, TLC

CONSTANTS d1, d2

MCPageOf == d1 :> 1 @@ d2 :> 2
MCBlockOf == [d \in Doc |-> 1]

(* The documents that are in the index when a run begins are sealed and    *)
(* all-visible; the others may be inserted.                                *)
Prepared(workload, present) ==
  /\ runs = workload
  /\ do = [p \in Backend |-> "idle"]
  /\ open = {}
  /\ share = [p \in Backend |-> 0]
  /\ barrier = NoBackend
  /\ writer = NoBackend
  /\ guard = {}
  /\ want = [p \in Backend |-> "None"]
  /\ after = [p \in Backend |-> {}]
  /\ pin = [p \in Backend |-> 0]
  /\ mine = [p \in Backend |-> NoDoc]
  /\ dead = {}
  /\ heap = [d \in Doc |-> IF d \in present THEN "live" ELSE "absent"]
  /\ vm = [b \in HeapBlock |-> TRUE]
  /\ owners = present
  /\ posted = present
  /\ sealed = present \ Inline
  /\ job = NoJob
  /\ part = [p \in Backend |-> NoPart]

Team     == <<{"parallel"}, {"worker"}, {"vacuum"}>>
Counts   == <<{"grouped", "serial", "cancel"}, {"insert", "cancel"}, {"vacuum", "cancel"}>>
Upgrades == <<{"scan", "insert"}, {"scan", "insert", "cancel"}, {"vacuum"}>>
Mixed    == <<{"parallel"}, {"worker", "cancel"}, {"insert"}>>

MCInit == \/ Prepared(Team, {d1, d2})
          \/ Prepared(Counts, {d1})
          \/ Prepared(Upgrades, {})
          \/ Prepared(Mixed, {d1})

MCSpec == MCInit /\ [][Next]_vars /\ Fairness
=============================================================================
