------------------------------- MODULE Vacuum -------------------------------
(***************************************************************************)
(* vacuum() of crates/pin-core/src/mutable/vacuum.rs, the bulk deletion of *)
(* the access method.  The pass recovers an interrupted compaction (the    *)
(* recover() actions of Compact), removes or abandons owners page by page, *)
(* sweeps every block and reclaims the allocation orphans.                 *)
(***************************************************************************)
EXTENDS PageFile

NoVacuum == [dead |-> {}, at |-> NoBlock]

VacuumRecord == [dead : SUBSET Root, at : BlockOrNone]

(* The host has collected the roots that are dead to every snapshot; its   *)
(* callback answers from that collection during the whole pass.            *)
VacuumBegin ==
  /\ pc = "idle"
  /\ pc' = "recover"
  /\ vac' = [NoVacuum EXCEPT !.dead = {r \in Root : heap[r] = "dead"}]
  /\ cpt' = [cpt EXCEPT !.then = "vacuum"]
  /\ UNCHANGED <<page, size, meta, dict, owner, heap, crashes, m, blk, ins>>

(* Fault: the pass starts without recovering an interrupted compaction. *)
FaultRecoverEndVacuum ==
  /\ pc = "recover" /\ cpt.then = "vacuum"
  /\ m' = meta
  /\ cpt' = [cpt EXCEPT !.then = "none"]
  /\ IF meta.ownerHead # NoBlock
     THEN pc' = "owners" /\ vac' = [vac EXCEPT !.at = meta.ownerHead]
     ELSE pc' = "sweep" /\ vac' = [vac EXCEPT !.at = NoBlock]
  /\ UNCHANGED <<page, size, meta, dict, owner, heap, crashes, blk, ins>>

(* recover() has returned: load() of the metapage and the owner chain. *)
RecoverEndVacuum ==
  /\ pc = "recover" /\ meta.journal.phase = "None" /\ cpt.then = "vacuum"
  /\ m' = meta
  /\ cpt' = [cpt EXCEPT !.then = "none"]
  /\ IF meta.ownerHead # NoBlock
     THEN pc' = "owners" /\ vac' = [vac EXCEPT !.at = meta.ownerHead]
     ELSE pc' = "sweep" /\ vac' = [vac EXCEPT !.at = NoBlock]
  /\ UNCHANGED <<page, size, meta, dict, owner, heap, crashes, blk, ins>>

-----------------------------------------------------------------------------
(* The owner pass: one remove_owners() batch per owner page; load() and    *)
(* following() check each page of the chain.                               *)

Retired(o) ==
  IF owner[o].page # vac.at THEN owner[o]
  ELSE IF CanChange(o, "Remove") /\ owner[o].root \in vac.dead
    THEN Changed(o, "Remove", NoBlock)
  ELSE IF CanChange(o, "Abandon") THEN Changed(o, "Abandon", NoBlock)
  ELSE owner[o]

(* Fault: the pass ends one owner page early. *)
FaultRemoveOwners ==
  /\ pc = "owners"
  /\ vac.at # NoBlock /\ page[vac.at].kind = "Owners"
  /\ owner' = [o \in Owner |-> Retired(o)]
  /\ IF vac.at # m.ownerTail /\ page[vac.at].next # m.ownerTail
     THEN pc' = "owners" /\ vac' = [vac EXCEPT !.at = page[vac.at].next]
     ELSE pc' = "sweep" /\ vac' = [vac EXCEPT !.at = NoBlock]
  /\ UNCHANGED <<page, size, meta, dict, heap, crashes, m, blk, ins, cpt>>

RemoveOwners ==
  /\ pc = "owners"
  /\ vac.at # NoBlock /\ page[vac.at].kind = "Owners"
  /\ owner' = [o \in Owner |-> Retired(o)]
  /\ vac.at # m.ownerTail => page[vac.at].next \in (vac.at + 1) .. m.ownerTail
  /\ IF vac.at # m.ownerTail
     THEN pc' = "owners" /\ vac' = [vac EXCEPT !.at = page[vac.at].next]
     ELSE pc' = "sweep" /\ vac' = [vac EXCEPT !.at = NoBlock]
  /\ UNCHANGED <<page, size, meta, dict, heap, crashes, m, blk, ins, cpt>>

-----------------------------------------------------------------------------
(* The sweep visits every block in block order.  It changes a direct page  *)
(* with the coordinate of a removed owner and a fragment without a live    *)
(* owner, and what it has changed needs no second change, so the sweep is  *)
(* the sequence of its changes.                                            *)

(* Faults: a direct page whose every owner was removed is left to the next *)
(* compaction; fragments are reclaimed whatever the state of their owner.  *)
FaultStaleDirect(b) ==
  /\ page[b].kind = "Direct"
  /\ \E o \in page[b].roots : Live(o)
  /\ \E o \in page[b].roots : ~Live(o)
FaultDeadFragment(b) == page[b].kind = "Fragment"

StaleDirect(b) == page[b].kind = "Direct" /\ \E o \in page[b].roots : ~Live(o)
DeadFragment(b) == page[b].kind = "Fragment" /\ ~Live(page[b].owner)

SweepNext(b) ==
  /\ pc = "sweep"
  /\ \A c \in Block : StaleDirect(c) \/ DeadFragment(c) => b <= c

(* Copied coordinates of removed owners are cleared in one batch. *)
SweepDirect(b) ==
  /\ SweepNext(b) /\ StaleDirect(b)
  /\ page' = [page EXCEPT ![b].roots = {o \in page[b].roots : Live(o)}]
  /\ UNCHANGED <<size, meta, dict, owner, heap, crashes, pc, m, blk, ins, vac, cpt>>

(* reclaim() *)
Reclaim(b) ==
  /\ m' = [m EXCEPT !.free = b]
  /\ meta' = m'
  /\ page' = [page EXCEPT ![b] = FreePage(m.free)]
  /\ UNCHANGED <<size, dict, owner, heap, crashes, pc, blk, ins, vac, cpt>>

(* Fault: only the metapage of the batch is written. *)
FaultSweepFragment(b) ==
  /\ SweepNext(b) /\ DeadFragment(b)
  /\ m' = [m EXCEPT !.free = b]
  /\ meta' = m'
  /\ UNCHANGED <<page, size, dict, owner, heap, crashes, pc, blk, ins, vac, cpt>>

SweepFragment(b) == SweepNext(b) /\ DeadFragment(b) /\ Reclaim(b)

SweepEnd ==
  /\ pc = "sweep"
  /\ \A b \in Block : ~StaleDirect(b) /\ ~DeadFragment(b)
  /\ pc' = "zeros"
  /\ UNCHANGED <<page, size, meta, dict, owner, heap, crashes, m, blk, ins, vac, cpt>>

-----------------------------------------------------------------------------
(* check_unreferenced(): no chain, journal, entry or record names b. *)
Unreferenced(b) ==
  /\ \A c \in Block : page[c].kind # "Zero" => page[c].next # b
  /\ b \notin {meta.journal.head, meta.journal.tail, meta.ownerHead, meta.ownerTail,
               meta.free, meta.dictHead, meta.dictTail}
  /\ \A o \in Owner : b \notin {owner[o].head, owner[o].page}
  /\ \A t \in Term : b \notin {dict[t].head, dict[t].tail, dict[t].page}

(* Fault: no block is ever recognised as an allocation orphan. *)
FaultZeroBlocks == {b \in Block : page[b].kind = "None" /\ b <= size}

ZeroBlocks == {b \in Block : page[b].kind = "Zero"}

(* Zero blocks in block order, each checked and then reclaimed. *)
ReclaimZero(b) ==
  /\ pc = "zeros"
  /\ b \in ZeroBlocks /\ \A c \in ZeroBlocks : b <= c
  /\ Unreferenced(b)
  /\ Reclaim(b)

(* The pass returns; only now may the host recycle the collected roots. *)
VacuumEnd ==
  /\ pc = "zeros" /\ ZeroBlocks = {}
  /\ pc' = "idle"
  /\ heap' = [r \in Root |-> IF r \in vac.dead THEN "free" ELSE heap[r]]
  /\ vac' = NoVacuum
  /\ UNCHANGED <<page, size, meta, dict, owner, crashes, m, blk, ins, cpt>>

=============================================================================
