------------------------------ MODULE MCGrouped -----------------------------
(* The grouped generations on small instances.  A run begins with an empty *)
(* index, with one delta above a generation, or with a full stack of two   *)
(* deltas: indexes that Init reaches, taken up midway.                     *)
EXTENDS GroupedStore

(* A generation of one record and one catalog page *)
Built(id, head, tail, after) ==
  [NewSnapshot(id, after) EXCEPT !.head = head, !.tail = tail, !.root = tail]

(* The generations and what each holds; the deltas' levels *)
Prepared(gens, docs, levels) ==
  LET newest == gens[Len(gens)] IN
  /\ inc = newest.id + 1
  /\ last = newest.after
  /\ published = UNION {docs[i] : i \in 1 .. Len(gens)}
  /\ live = published
  /\ dead = {}
  /\ size = 2 * Len(gens)
  /\ page = [b \in Block |->
       IF \E i \in 1 .. Len(gens) : b \in {gens[i].head, gens[i].tail}
       THEN LET i == CHOOSE i \in 1 .. Len(gens) : b \in {gens[i].head, gens[i].tail} IN
            IF b = gens[i].tail THEN NewPage("Node", gens[i].id, {})
            ELSE [NewPage("Record", gens[i].id, docs[i]) EXCEPT !.next = gens[i].tail]
       ELSE NoPage]
  /\ free = NoBlock
  /\ active = gens[1]
  /\ deltas = [i \in 1 .. (Len(gens) - 1) |->
       [snap |-> gens[i + 1], before |-> gens[i].after, level |-> levels[i]]]
  /\ journal = NoJournal
  /\ retired = <<>>
  /\ job = NoJob
  /\ budget = MaxNew - 1
  /\ due = 0
  /\ crashes = 0
  /\ abandoned = 0

OneDelta == Prepared(<<Built(2, 1, 2, 1), Built(4, 3, 4, 3)>>, <<{1}, {3}>>, <<0>>)

FullStack == Prepared(<<Built(2, 1, 2, 1), Built(6, 5, 6, 5), Built(8, 4, 3, 7)>>,
                      <<{1}, {3, 5}, {7}>>, <<1, 0>>)

MCInit == Init \/ OneDelta \/ FullStack

MCSpec == MCInit /\ [][Next]_vars /\ Fairness

=============================================================================
