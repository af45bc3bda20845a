------------------------------ MODULE MCPhrase ------------------------------
(* Small instances of PhraseScan for TLC. *)
EXTENDS PhraseScan, TLC

CONSTANTS t1

LargeDocument == {[frags |-> 2, terms |-> {t1}], [frags |-> 0, terms |-> {t1}]}
=============================================================================
