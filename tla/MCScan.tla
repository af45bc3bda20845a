------------------------------- MODULE MCScan -------------------------------
(* Small instances of ScanWork for TLC. *)
EXTENDS ScanWork, TLC

CONSTANTS t1

SmallDocument == {[frags |-> 0, terms |-> {t1}]}
=============================================================================
