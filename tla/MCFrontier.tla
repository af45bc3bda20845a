----------------------------- MODULE MCFrontier -----------------------------
(* Small instances of FrontierScan for TLC. *)
EXTENDS FrontierScan

CONSTANTS t1, t2, r1, r2

(* (t1 or t2) and not t2; not t2 *)
Bounded == <<TermNode(t1), TermNode(t2), OrNode(1, 2), NotNode(2), AndNode(3, 4)>>
Unbounded == <<TermNode(t2), NotNode(1)>>

MCProgram == {Bounded, Unbounded}

(* Both instances begin with a generation of identity 5, with its anchors, *)
(* and one insertion beyond it, of either document, under incarnation 6.   *)
(* Slots of removed documents keep their place.                            *)
Slot(r, b, d, live) ==
  [pub |-> "Published", live |-> live, root |-> r, head |-> NoBlock, page |-> b, doc |-> d]

Old == [frags |-> 0, terms |-> {t1}]
Both == [frags |-> 1, terms |-> {t1, t2}]
FrontierDocument == {Old, Both}

(* A fragment of owner 6, if its document has one *)
Written(d, b) == IF d.frags = 0 THEN NoBlock ELSE b

Rest ==
  /\ crashes = 0
  /\ m = meta
  /\ blk = NoBlock
  /\ vac = NoVacuum
  /\ cpt = NoCompact
  /\ ReadInit

Generation(head, tail) ==
  [NoGeneration EXCEPT
     !.id = 5, !.after = 4, !.members = {4}, !.valid = TRUE,
     !.post = [t \in Term |-> IF t = t1 THEN {4} ELSE {}],
     !.anchors = [t \in Term |-> IF t = t1 THEN [head |-> head, tail |-> tail, last |-> 4]
                                 ELSE NoAnchor]]

(* The second owner of t1 is in the dictionary and the insertion has yet   *)
(* to link its terms.                                                      *)
InlineInstance(d) ==
  /\ size = 2 + d.frags
  /\ page = [b \in Block |->
       CASE b = 1 -> OwnersPage [] b = 2 -> DictionaryPage
         [] b = 3 /\ d.frags = 1 -> FragmentPage(6, 0, NoBlock) [] OTHER -> NoPage]
  /\ meta = [EmptyMeta EXCEPT !.inc = 7, !.ownerHead = 1, !.ownerTail = 1,
                              !.dictHead = 2, !.dictTail = 2]
  /\ dict = [t \in Term |-> IF t = t1 THEN WithSecond(NewEntry(2, 3), 4) ELSE NoEntry]
  /\ owner = [o \in Owner |->
       CASE o = 3 -> Slot(r2, 1, Old, FALSE) [] o = 4 -> Slot(r1, 1, Old, TRUE)
         [] o = 6 -> [pub |-> "FragmentsWritten", live |-> FALSE, root |-> r2,
                      head |-> Written(d, 3), page |-> 1, doc |-> d]
         [] OTHER -> UnusedSlot]
  /\ heap = [r \in Root |-> "used"]
  /\ pc = "link"
  /\ ins = [NoInsert EXCEPT !.root = r2, !.doc = d, !.owner = 6, !.head = Written(d, 3),
                            !.todo = d.terms]
  /\ gen = Generation(2, 2)
  /\ Rest

(* The second owner of t1 has moved to a chain of two pages, the insertion *)
(* has filled the second one and is over.                                  *)
ChainInstance(d) ==
  LET both == d.terms = {t1, t2} IN
  /\ size = 5 + d.frags
  /\ page = [b \in Block |->
       CASE b = 1 -> [OwnersPage EXCEPT !.next = 5] [] b = 2 -> DictionaryPage
         [] b = 3 -> [PostingsPage(t1, {2, 3}) EXCEPT !.next = 4]
         [] b = 4 -> PostingsPage(t1, {4, 6}) [] b = 5 -> OwnersPage
         [] b = 6 /\ d.frags = 1 -> FragmentPage(6, 0, NoBlock) [] OTHER -> NoPage]
  /\ meta = [EmptyMeta EXCEPT !.inc = 7, !.ownerHead = 1, !.ownerTail = 5,
                              !.dictHead = 2, !.dictTail = 2]
  /\ dict = [t \in Term |->
       IF t = t1 THEN WithChain(Promoted(WithSecond(NewEntry(2, 1), 2), 3), 3, 4)
       ELSE IF both THEN NewEntry(2, 6) ELSE NoEntry]
  /\ owner = [o \in Owner |->
       CASE o \in 1 .. 3 -> Slot(r2, 1, Old, FALSE) [] o = 4 -> Slot(r1, 5, Old, TRUE)
         [] o = 6 -> [Slot(r2, 5, d, TRUE) EXCEPT !.head = Written(d, 6)]
         [] OTHER -> UnusedSlot]
  /\ heap = [r \in Root |-> "used"]
  /\ pc = "idle"
  /\ ins = NoInsert
  /\ gen = Generation(3, 4)
  /\ Rest

MCInit == InlineInstance(Old) \/ ChainInstance(Both)

(* The reader is about to work on its own copies, or to close.  Such a     *)
(* step reads and writes nothing that another step writes or reads, so it  *)
(* is taken at once; a later one could not tell the difference.            *)
ReaderLocal ==
  \/ SeekReady /\ (Bound = 0 \/ ~UniverseBehind)
  \/ FilterReady /\ (~Hit \/ Universe(fr.prog) \/ Cached(fr.target))
  \/ fr.stage = "owners" /\ own.owner = NoOwner /\ (own.left # {} \/ own.at = NoBlock)
  \/ fr.stage \in {"done", "error"}

(* A crash of the server ends the scan, and a reader writes nothing, so    *)
(* what a crash leaves is the same without one.  The steps after it are    *)
(* those of the writers: recovery, rebuilds and seals.                     *)
ReaderBeforeCrash == crashes' = 0 \/ fr'.stage = "closed"

MCNext ==
  \/ ~ReaderLocal /\ FrontierNext /\ ReaderBeforeCrash
  \/ ReaderLocal /\ ReadStep /\ UNCHANGED <<vars, gen>>

MCSpec == MCInit /\ [][MCNext]_allVars
=============================================================================
