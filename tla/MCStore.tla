------------------------------ MODULE MCStore -------------------------------
(* Small instances of MutableStore for TLC. *)
EXTENDS MutableStore, TLC

CONSTANTS t1, t2, t3

(* Documents that fit their owner page, and documents with several terms or *)
(* several fragments, so that an insertion is interrupted between them.     *)
SmallDocument == {[frags |-> 0, terms |-> {t1}]}
MixedDocument == {[frags |-> 2, terms |-> {t1}], [frags |-> 0, terms |-> {t1, t2, t3}]}

RootSymmetry == Permutations(Root)
=============================================================================
