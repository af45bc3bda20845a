---------------------------- MODULE FrontierScan ----------------------------
(***************************************************************************)
(* The exact grouped reader beside the writers: scan_exact() of            *)
(* crates/pin-core/src/mutable/grouped/scan.rs over the sealed generations *)
(* and, beyond their fence, the cursors of frontier.rs over the canonical  *)
(* chains, or its owner pages.  The reader holds the shared side of the    *)
(* structural barrier, so compactions, rebuilds and seals wait for it;     *)
(* insertions and vacuum passes run beside it.                             *)
(*                                                                         *)
(* A rebuild or a seal is one step here: it holds both barriers, and       *)
(* GroupedStore has its commits.  Its pages are kept apart from the page   *)
(* file; gen is what they hold.  A page that the reader loads is a private *)
(* copy, taken in one step; what it then does with the copy needs no step  *)
(* of its own.                                                             *)
(***************************************************************************)
EXTENDS MutableStore, Sequences, FiniteSetsExt

CONSTANTS
  Program,    \* the compiled queries
  OwnerSpan   \* OWNER_FRONTIER_MIN_SPAN

ASSUME SpanAssumption == OwnerSpan \in Nat \ {0}

VARIABLES
  gen,      \* the grouped generations, as the metapage describes them
  fr,       \* the reader: its stage, query, target and captured metapage
  cur,      \* its cursor of every term
  own,      \* its walk over the owner pages
  img,      \* the owner page that resolve() keeps
  sealed,   \* the owners it emitted from the generations
  emitted,  \* the owners it emitted from the frontier
  known     \* the owners that were live when it opened

readVars == <<fr, cur, own, img, sealed, emitted, known>>
allVars == <<vars, gen, readVars>>

-----------------------------------------------------------------------------
(* The generations *)

NoAnchor == [head |-> NoBlock, tail |-> NoBlock, last |-> NoOwner]

(* after is the last owner slot the generations cover, id the incarnation  *)
(* of the newest one; post and members what they hold; valid and anchors   *)
(* belong to the active generation, and delta says it is not the newest.   *)
NoGeneration == [id |-> NoOwner, after |-> NoOwner, members |-> {}, valid |-> FALSE,
                 delta |-> FALSE, post |-> [t \in Term |-> {}],
                 anchors |-> [t \in Term |-> NoAnchor]]

LastSlot == Max({NoOwner} \cup {o \in Owner : owner[o].pub # "None"})

(* load_posting(): a dictionary page stands for its second owner. *)
PageRefs(t, b) == IF page[b].kind = "Dictionary" THEN {dict[t].second} ELSE page[b].refs

(* capture(): where the chain of a term ends *)
AnchorOf(t) ==
  LET e == dict[t] IN
  IF e.page = NoBlock THEN NoAnchor
  ELSE [head |-> e.head, tail |-> e.tail,
        last |-> IF e.head = NoBlock THEN e.first ELSE Max(PageRefs(t, e.tail))]

Writing == ~(pc = "idle")

(* Fault: the rebuild leaves the journal of an interrupted rewrite. *)
FaultRebuildGeneration ==
  /\ ~Writing /\ fr.stage = "closed"
  /\ meta.inc <= MaxOwners
  /\ gen.id = NoOwner \/ gen.delta \/ gen.after # LastSlot \/ ~gen.valid
  /\ gen' = [id |-> meta.inc, after |-> LastSlot,
             members |-> {o \in Owner : Live(o)}, valid |-> TRUE, delta |-> FALSE,
             post |-> [t \in Term |-> {o \in TermRefs(t) : Live(o)}],
             anchors |-> [t \in Term |-> AnchorOf(t)]]
  /\ meta' = [meta EXCEPT !.inc = meta.inc + 1]
  /\ UNCHANGED <<page, size, dict, owner, heap, crashes, pc, m, blk, ins, vac, cpt, readVars>>

(* rebuild(): a full generation with its anchors, when it is needed.  The  *)
(* recover() it starts with is that of Compact, under the same barriers;   *)
(* what remains of the rebuild begins where the journal is gone.           *)
RebuildGeneration ==
  /\ ~Writing /\ fr.stage = "closed"
  /\ meta.journal.phase = "None"
  /\ meta.inc <= MaxOwners
  /\ gen.id = NoOwner \/ gen.delta \/ gen.after # LastSlot \/ ~gen.valid
  /\ gen' = [id |-> meta.inc, after |-> LastSlot,
             members |-> {o \in Owner : Live(o)}, valid |-> TRUE, delta |-> FALSE,
             post |-> [t \in Term |-> {o \in TermRefs(t) : Live(o)}],
             anchors |-> [t \in Term |-> AnchorOf(t)]]
  /\ meta' = [meta EXCEPT !.inc = meta.inc + 1]
  /\ UNCHANGED <<page, size, dict, owner, heap, crashes, pc, m, blk, ins, vac, cpt, readVars>>

(* seal_delta(): the documents beyond the fence, from their owner slots *)
SealGeneration ==
  /\ ~Writing /\ fr.stage = "closed"
  /\ meta.inc <= MaxOwners
  /\ gen.id # NoOwner /\ gen.after < LastSlot
  /\ LET fresh == {o \in Owner : Live(o) /\ o > gen.after} IN
     gen' = [gen EXCEPT !.id = meta.inc, !.after = LastSlot, !.delta = TRUE,
               !.members = @ \cup fresh,
               !.post = [t \in Term |-> @[t] \cup {o \in fresh : t \in owner[o].doc.terms}]]
  /\ meta' = [meta EXCEPT !.inc = meta.inc + 1]
  /\ UNCHANGED <<page, size, dict, owner, heap, crashes, pc, m, blk, ins, vac, cpt, readVars>>

(* grouped::retire(): a vacuum pass clears the shared liveness before it   *)
(* touches an owner slot.                                                  *)
RetireNext == /\ pc = "recover" /\ meta.journal.phase = "None" /\ cpt.then = "vacuum"
              /\ \E o \in gen.members : owner[o].root \in vac.dead

RetireGeneration ==
  /\ RetireNext
  /\ gen' = [gen EXCEPT !.members = {o \in @ : owner[o].root \notin vac.dead}]
  /\ UNCHANGED <<vars, readVars>>

(* The three places that call invalidate(): a second owner about to leave  *)
(* the dictionary for a posting page, a dead one, and a chain about to be  *)
(* rewritten.                                                              *)
RewriteNext ==
  \/ pc = "link" /\ \E t \in ins.todo : dict[t].inline = 1
  \/ pc = "compact" /\ \E t \in cpt.todo :
       IF dict[t].inline = 1 THEN ~Live(dict[t].second)
       ELSE dict[t].head # NoBlock /\ NeedsRewrite(dict[t], cpt.mode)

InvalidateFrontier ==
  /\ gen.valid /\ RewriteNext
  /\ gen' = [gen EXCEPT !.valid = FALSE]
  /\ UNCHANGED <<vars, readVars>>

(* Fault: the promotion of a second owner leaves the anchors valid. *)
FaultRewrites == \E t \in Term : CompactInline(t) \/ RewriteBegin(t)

(* The steps that invalidate() precedes *)
Rewrites == \E t \in Term : LinkPromote(t) \/ CompactInline(t) \/ RewriteBegin(t)

-----------------------------------------------------------------------------
(* compile() and the algebra of a program: nodes refer to earlier nodes *)

TermNode(t) == [op |-> "Term", term |-> t, left |-> 0, right |-> 0]
AndNode(l, r) == [op |-> "And", term |-> NoTerm, left |-> l, right |-> r]
OrNode(l, r) == [op |-> "Or", term |-> NoTerm, left |-> l, right |-> r]
NotNode(c) == [op |-> "Not", term |-> NoTerm, left |-> c, right |-> 0]

(* validate_program(): a node is a term or applies to nodes before it. *)
WellFormed(p) ==
  /\ p # <<>>
  /\ \A i \in 1 .. Len(p) :
       \/ \E t \in Term : p[i] = TermNode(t)
       \/ \E l, r \in 1 .. (i - 1) : p[i] \in {AndNode(l, r), OrNode(l, r), NotNode(l)}

Node == [op : {"Term", "And", "Or", "Not"}, term : Term \cup {NoTerm}, left : Nat, right : Nat]

ASSUME ProgramAssumption == \A p \in Program : p \in Seq(Node) /\ WellFormed(p)

Names(p) == {p[i].term : i \in 1 .. Len(p)} \ {NoTerm}

(* The terms of a program are visited in the order they were named. *)
FirstNamed(p, terms) ==
  p[Min({i \in 1 .. Len(p) : p[i].term \in terms})].term

(* matches(): the program over the set of terms a document has *)
Matches(p, member) ==
  LET value[i \in 1 .. Len(p)] ==
        \/ p[i].op = "Term" /\ p[i].term \in member
        \/ p[i].op = "And"  /\ value[p[i].left] /\ value[p[i].right]
        \/ p[i].op = "Or"   /\ (value[p[i].left] \/ value[p[i].right])
        \/ p[i].op = "Not"  /\ ~value[p[i].left]
  IN  value[Len(p)]

(* Whether documents without any term of the program may match *)
Universe(p) ==
  LET all[i \in 1 .. Len(p)] ==
        \/ p[i].op = "And" /\ all[p[i].left] /\ all[p[i].right]
        \/ p[i].op = "Or"  /\ (all[p[i].left] \/ all[p[i].right])
        \/ p[i].op = "Not"
  IN  all[Len(p)]

(* seek_terms: the terms that are not below a negation *)
SeekTerms(p) ==
  LET below[i \in 1 .. Len(p)] ==
        IF p[i].op = "Term" THEN {p[i].term}
        ELSE IF p[i].op = "Not" THEN {}
        ELSE below[p[i].left] \cup below[p[i].right]
  IN  below[Len(p)]

(* Fault: an alternative is bounded by the later of its sides. *)
FaultLowerBound(p, current, target) ==
  LET bound[i \in 1 .. Len(p)] ==
        LET l == IF p[i].left = 0 THEN 0 ELSE bound[p[i].left]
            r == IF p[i].right = 0 THEN 0 ELSE bound[p[i].right]
        IN  IF p[i].op = "Term" THEN current[p[i].term]
            ELSE IF p[i].op = "Not" THEN target
            ELSE IF l = 0 \/ r = 0 THEN IF p[i].op = "And" THEN 0 ELSE l + r
            ELSE Max({l, r})
  IN  bound[Len(p)]

(* lower_bound(): no match lies between target and this owner; 0 is None.  *)
(* A conjunction has none without both sides, an alternative that of the   *)
(* side it has.                                                            *)
LowerBound(p, current, target) ==
  LET bound[i \in 1 .. Len(p)] ==
        LET l == IF p[i].left = 0 THEN 0 ELSE bound[p[i].left]
            r == IF p[i].right = 0 THEN 0 ELSE bound[p[i].right]
        IN  IF p[i].op = "Term" THEN current[p[i].term]
            ELSE IF p[i].op = "Not" THEN target
            ELSE IF l = 0 \/ r = 0 THEN IF p[i].op = "And" THEN 0 ELSE l + r
            ELSE IF p[i].op = "And" THEN Max({l, r}) ELSE Min({l, r})
  IN  bound[Len(p)]

-----------------------------------------------------------------------------
(* The reader captures the metapage, then the terms *)

(* refs are the owners of the page in hand, at the next block to load; an  *)
(* anchored cursor is about to look its anchor up.                         *)
NoCursor == [first |-> NoOwner, head |-> NoBlock, tail |-> NoBlock, shadow |-> FALSE,
             opened |-> FALSE, anchored |-> FALSE, refs |-> {}, last |-> NoOwner,
             at |-> NoBlock]

(* left are the owners of the page in hand; for the owner frontier, those  *)
(* with fragments to read, frag the next of them and out the matches.      *)
NoOwners == [at |-> NoBlock, left |-> {}, owner |-> NoOwner, frag |-> NoBlock,
             index |-> 0, out |-> {}]

NoCopy == [page |-> NoBlock, slots |-> {}, live |-> {}]

NoReader == [stage |-> "closed", prog |-> <<>>, todo |-> {}, target |-> NoOwner,
             id |-> NoOwner, after |-> NoOwner, valid |-> FALSE, next |-> NoOwner,
             ownerHead |-> NoBlock, ownerTail |-> NoBlock, dictTail |-> NoBlock]

ReadInit ==
  /\ fr = NoReader
  /\ cur = [t \in Term |-> NoCursor]
  /\ own = NoOwners
  /\ img = NoCopy
  /\ sealed = {}
  /\ emitted = {}
  /\ known = {}

FrontierInit == Init /\ gen = NoGeneration /\ ReadInit

CompactHolds == cpt.then = "compact"

(* scan_exact() under the shared barrier: the metapage and the newest      *)
(* snapshot.  An index without generations and a query of one term with at *)
(* most 64 postings on one page are scanned by the plain scan instead.     *)
FrontierOpen(p) ==
  /\ fr.stage = "closed" /\ ~CompactHolds
  /\ gen.id # NoOwner
  /\ fr' = [stage |-> "terms", prog |-> p, todo |-> Names(p), target |-> gen.id + 1,
            id |-> gen.id, after |-> gen.after, valid |-> gen.valid /\ ~gen.delta,
            next |-> meta.inc, ownerHead |-> meta.ownerHead, ownerTail |-> meta.ownerTail,
            dictTail |-> meta.dictTail]
  /\ known' = {o \in Owner : Live(o)}
  /\ UNCHANGED <<cur, own, img, sealed, emitted>>

(* find_term() and CapturedTerm::new() *)
CaptureTerm(t) ==
  LET e == dict[t] IN
  /\ fr.stage = "terms" /\ fr.todo # {} /\ t = FirstNamed(fr.prog, fr.todo)
  /\ fr' = [fr EXCEPT !.todo = @ \ {t}]
  /\ cur' = IF e.page # NoBlock /\ fr.dictTail # NoBlock /\ e.page <= fr.dictTail
            THEN [cur EXCEPT ![t] = [NoCursor EXCEPT
                    !.first = e.first, !.head = e.head, !.tail = e.tail,
                    !.shadow = e.inline = 2]]
            ELSE cur
  /\ UNCHANGED <<own, img, sealed, emitted, known>>

(* changed(): the term has an owner beyond the fence *)
TermChanged(t) ==
  /\ cur[t].first # NoOwner
  /\ \/ cur[t].first >= fr.target
     \/ cur[t].head # NoBlock /\ Max(PageRefs(t, cur[t].tail)) >= fr.target

Span == fr.next - fr.id - 1

(* owner_frontier_span() *)
OwnerFrontierUseful ==
  /\ Span >= OwnerSpan
  /\ Universe(fr.prog) \/ Cardinality({t \in Names(fr.prog) : TermChanged(t)}) >= 2

FirstOwnerPage == IF fr.after = NoOwner THEN fr.ownerHead ELSE owner[fr.after].page

(* scan_snapshot() of the generations: liveness and postings page by page, *)
(* here at once, since only liveness can change meanwhile.  Then the       *)
(* owners beyond the fence: none, or their owner pages where that is       *)
(* useful, enabled by the host and within the memory budget, or the        *)
(* cursors.                                                                *)
ScanGenerations(stage) ==
  /\ fr.stage = "terms" /\ fr.todo = {}
  /\ CASE stage = "done"   -> Span = 0
       [] stage = "owners" -> Span > 0 /\ OwnerFrontierUseful
       [] stage = "seek"   -> Span > 0
  /\ sealed' = {o \in gen.members :
                  Matches(fr.prog, {t \in Names(fr.prog) : cur[t].first # NoOwner /\ o \in gen.post[t]})}
  /\ fr' = [fr EXCEPT !.stage = stage, !.dictTail = NoBlock]
  /\ own' = [NoOwners EXCEPT !.at = FirstOwnerPage]
  /\ UNCHANGED <<cur, img, emitted, known>>

-----------------------------------------------------------------------------
(* Cursor: open(), open_anchor(), advance() and seek() *)

Pending(t) == {o \in cur[t].refs : o >= fr.target}
Current == [t \in Term |-> IF Pending(t) = {} THEN NoOwner ELSE Min(Pending(t))]

Sought == CASE fr.stage = "seek"   -> SeekTerms(fr.prog)
            [] fr.stage = "filter" -> Names(fr.prog)
            [] OTHER               -> {}

(* The cursors with a page to load before they can answer for the target *)
BehindTerms == {t \in Sought : \/ ~cur[t].opened
                               \/ cur[t].anchored
                               \/ Pending(t) = {} /\ cur[t].at # NoBlock}

Behind(t) == BehindTerms # {} /\ t = FirstNamed(fr.prog, BehindTerms)

(* What load_posting() and ordered() demand of a page *)
PostingFits(t, b) ==
  /\ b # NoBlock
  /\ IF page[b].kind = "Dictionary"
     THEN dict[t].page = b /\ dict[t].inline # 0 /\ (dict[t].inline = 1 => dict[t].head = b)
     ELSE page[b].kind \in PostingKind /\ page[b].term = t
  /\ \A o \in PageRefs(t, b) : cur[t].last < o

(* posting_next() *)
NextFits(t, b) == b # cur[t].tail => page[b].next # NoBlock
After(t, b) == IF b = cur[t].tail THEN NoBlock ELSE page[b].next

Holding(t, refs, at) ==
  [cur[t] EXCEPT !.opened = TRUE, !.anchored = FALSE, !.refs = refs, !.at = at,
                 !.last = Max({cur[t].last, cur[t].first} \cup refs)]

(* open(): an absent term, a first owner beyond the fence, an unchanged    *)
(* tail, a tail that begins before the target, an anchor, or the whole     *)
(* chain                                                                   *)
Opened(t) ==
  LET c == cur[t]
      tail == PageRefs(t, c.tail)
  IN  IF c.first = NoOwner THEN Holding(t, {}, NoBlock)
      ELSE IF c.first >= fr.target THEN Holding(t, {c.first}, c.head)
      ELSE IF c.head = NoBlock \/ Max(tail) < fr.target THEN Holding(t, {}, NoBlock)
      ELSE IF Min(tail) <= fr.target \/ c.head = c.tail THEN Holding(t, tail, NoBlock)
      ELSE IF fr.valid /\ c.first < fr.id THEN [Holding(t, {}, NoBlock) EXCEPT !.anchored = TRUE]
      ELSE Holding(t, {}, c.head)

OpenFits(t) ==
  LET c == cur[t] IN
  c.first = NoOwner \/ c.first >= fr.target \/ c.head = NoBlock \/ PostingFits(t, c.tail)

CursorOpen(t) ==
  /\ Behind(t) /\ ~cur[t].opened
  /\ OpenFits(t)
  /\ cur' = [cur EXCEPT ![t] = Opened(t)]
  /\ UNCHANGED <<fr, own, img, sealed, emitted, known>>

(* Fault: a second owner that has left the dictionary since the snapshot   *)
(* is not told from a rewritten chain.                                     *)
FaultWalkInstead(t) == gen.anchors[t].head = NoBlock

(* The chain was empty at the snapshot, or its second owner was in the     *)
(* dictionary and has moved to a posting page since.                       *)
WalkInstead(t) ==
  \/ gen.anchors[t].head = NoBlock
  \/ gen.anchors[t].head # cur[t].head /\ cur[t].shadow

AnchorFits(t) ==
  LET a == gen.anchors[t] IN
  /\ a.last # NoOwner /\ a.last < fr.id
  /\ IF WalkInstead(t) THEN a.head = NoBlock => a.last = cur[t].first
     ELSE /\ a.head = cur[t].head /\ a.last > cur[t].first
          /\ PostingFits(t, a.tail) /\ NextFits(t, a.tail)
          /\ a.last \in PageRefs(t, a.tail)

CursorAnchor(t) ==
  LET a == gen.anchors[t] IN
  /\ Behind(t) /\ cur[t].anchored
  /\ AnchorFits(t)
  /\ cur' = [cur EXCEPT ![t] =
       IF WalkInstead(t) THEN Holding(t, {}, cur[t].head)
       ELSE Holding(t, {o \in PageRefs(t, a.tail) : o > a.last}, After(t, a.tail))]
  /\ UNCHANGED <<fr, own, img, sealed, emitted, known>>

CursorLoad(t) ==
  LET b == cur[t].at IN
  /\ Behind(t) /\ cur[t].opened /\ ~cur[t].anchored
  /\ PostingFits(t, b) /\ NextFits(t, b)
  /\ cur' = [cur EXCEPT ![t] = Holding(t, PageRefs(t, b), After(t, b))]
  /\ UNCHANGED <<fr, own, img, sealed, emitted, known>>

CursorFails(t) ==
  /\ Behind(t)
  /\ IF ~cur[t].opened THEN ~OpenFits(t)
     ELSE IF cur[t].anchored THEN ~AnchorFits(t)
     ELSE ~(PostingFits(t, cur[t].at) /\ NextFits(t, cur[t].at))

-----------------------------------------------------------------------------
(* The owner pages beyond the fence *)

SlotsOf(b) == {o \in Owner : owner[o].page = b /\ o > fr.after}

(* load(), following() and the check of the slot the fence names *)
OwnersFit(b) ==
  /\ page[b].kind = "Owners"
  /\ \A o \in SlotsOf(b) : o > fr.id
  /\ b # fr.ownerTail => page[b].next \in (b + 1) .. fr.ownerTail

AfterOwners(b) == IF b = fr.ownerTail THEN NoBlock ELSE page[b].next

(* Owners::seek(): the first live owner from the lower bound on *)
Bound == LowerBound(fr.prog, Current, fr.target)
Beyond == {o \in own.left : o >= Bound}
UniverseBehind == Universe(fr.prog) /\ Beyond = {} /\ own.at # NoBlock

SeekReady == fr.stage = "seek" /\ BehindTerms = {}

UniverseLoad ==
  /\ SeekReady /\ Bound # 0 /\ UniverseBehind
  /\ OwnersFit(own.at)
  /\ own' = [own EXCEPT !.left = {o \in SlotsOf(own.at) : Live(o)}, !.at = AfterOwners(own.at)]
  /\ UNCHANGED <<fr, cur, img, sealed, emitted, known>>

(* The next owner that can match, or none *)
NextOwner ==
  IF Bound = 0 THEN NoOwner
  ELSE IF Universe(fr.prog) THEN IF Beyond = {} THEN NoOwner ELSE Min(Beyond)
  ELSE Bound

SeekDone ==
  /\ SeekReady /\ (Bound = 0 \/ ~UniverseBehind)
  /\ fr' = IF NextOwner = NoOwner THEN [fr EXCEPT !.stage = "done"]
           ELSE IF NextOwner = fr.target THEN [fr EXCEPT !.stage = "filter"]
           ELSE [fr EXCEPT !.target = NextOwner]
  /\ UNCHANGED <<cur, own, img, sealed, emitted, known>>

-----------------------------------------------------------------------------
(* Membership of the target, and resolve() *)

Member == {t \in Names(fr.prog) : Current[t] = fr.target}
Hit == Matches(fr.prog, Member)

FilterReady == fr.stage = "filter" /\ BehindTerms = {}

Cached(o) == img.page = owner[o].page /\ o \in img.slots

OwnerPage(o) ==
  LET slots == {q \in Owner : owner[q].page = owner[o].page} IN
  [page |-> owner[o].page, slots |-> slots, live |-> {q \in slots : Live(q)}]

Advanced == [fr EXCEPT !.target = @ + 1, !.stage = "seek"]

FilterMiss ==
  /\ FilterReady /\ ~Hit
  /\ fr' = Advanced
  /\ UNCHANGED <<cur, own, img, sealed, emitted, known>>

(* The walk over the owner pages already knows that the owner is live. *)
FilterUniverse ==
  /\ FilterReady /\ Hit /\ Universe(fr.prog)
  /\ emitted' = emitted \cup {fr.target}
  /\ fr' = Advanced
  /\ UNCHANGED <<cur, own, img, sealed, known>>

FilterResolve ==
  LET copy == IF Cached(fr.target) THEN img ELSE OwnerPage(fr.target) IN
  /\ FilterReady /\ Hit /\ ~Universe(fr.prog)
  /\ img' = copy
  /\ emitted' = IF fr.target \in copy.live THEN emitted \cup {fr.target} ELSE emitted
  /\ fr' = Advanced
  /\ UNCHANGED <<cur, own, sealed, known>>

-----------------------------------------------------------------------------
(* scan_owner_frontier(): every owner up to the captured allocation fence; *)
(* payloads inside the owner page are decided from the copy.               *)

OwnersReady == fr.stage = "owners" /\ own.owner = NoOwner /\ own.left = {}

OwnersLoad ==
  LET slots == {o \in SlotsOf(own.at) : o < fr.next /\ Live(o)} IN
  /\ OwnersReady /\ own.at # NoBlock
  /\ OwnersFit(own.at)
  /\ own' = [own EXCEPT
       !.left = {[owner |-> o, head |-> owner[o].head] : o \in {q \in slots : owner[q].doc.frags > 0}},
       !.out = @ \cup {o \in slots : owner[o].doc.frags = 0 /\ Matches(fr.prog, owner[o].doc.terms)},
       !.at = IF \E o \in SlotsOf(own.at) : o >= fr.next THEN NoBlock ELSE AfterOwners(own.at)]
  /\ UNCHANGED <<fr, cur, img, sealed, emitted, known>>

(* fragment_membership() of the next owner of the copy *)
FragmentsBegin ==
  /\ fr.stage = "owners" /\ own.owner = NoOwner
  /\ \E s \in own.left :
       /\ \A q \in own.left : s.owner <= q.owner
       /\ own' = [own EXCEPT !.left = @ \ {s}, !.owner = s.owner, !.frag = s.head, !.index = 0]
  /\ UNCHANGED <<fr, cur, img, sealed, emitted, known>>

FragmentFits ==
  /\ own.index < owner[own.owner].doc.frags
  /\ page[own.frag].kind = "Fragment"
  /\ page[own.frag].owner = own.owner /\ page[own.frag].index = own.index

FragmentRead ==
  /\ fr.stage = "owners" /\ own.owner # NoOwner /\ own.frag # NoBlock
  /\ FragmentFits
  /\ own' = [own EXCEPT !.index = @ + 1, !.frag = page[own.frag].next]
  /\ UNCHANGED <<fr, cur, img, sealed, emitted, known>>

FragmentsDone ==
  /\ fr.stage = "owners" /\ own.owner # NoOwner /\ own.frag = NoBlock
  /\ own.index = owner[own.owner].doc.frags
  /\ own' = [own EXCEPT !.owner = NoOwner, !.index = 0,
               !.out = IF Matches(fr.prog, owner[own.owner].doc.terms)
                       THEN @ \cup {own.owner} ELSE @]
  /\ UNCHANGED <<fr, cur, img, sealed, emitted, known>>

(* A payload beyond the scratch memory: the cursors start over. *)
OwnersFallBack ==
  /\ fr.stage = "owners" /\ own.owner # NoOwner /\ own.index = 0
  /\ fr' = [fr EXCEPT !.stage = "seek"]
  /\ own' = [NoOwners EXCEPT !.at = FirstOwnerPage]
  /\ UNCHANGED <<cur, img, sealed, emitted, known>>

OwnersEmit ==
  /\ OwnersReady /\ own.at = NoBlock
  /\ emitted' = own.out
  /\ fr' = [fr EXCEPT !.stage = "done"]
  /\ UNCHANGED <<cur, own, img, sealed, known>>

OwnersFail ==
  \/ OwnersReady /\ own.at # NoBlock /\ ~OwnersFit(own.at)
  \/ SeekReady /\ Bound # 0 /\ UniverseBehind /\ ~OwnersFit(own.at)
  \/ /\ fr.stage = "owners" /\ own.owner # NoOwner
     /\ IF own.frag = NoBlock THEN own.index # owner[own.owner].doc.frags ELSE ~FragmentFits

-----------------------------------------------------------------------------
(* InvalidState, from whatever check *)
FrontierFails ==
  /\ OwnersFail \/ \E t \in Term : CursorFails(t)
  /\ fr' = [fr EXCEPT !.stage = "error"]
  /\ UNCHANGED <<cur, own, img, sealed, emitted, known>>

FrontierClose ==
  /\ fr.stage \in {"done", "error"}
  /\ fr' = NoReader
  /\ cur' = [t \in Term |-> NoCursor]
  /\ own' = NoOwners
  /\ img' = NoCopy
  /\ sealed' = {} /\ emitted' = {} /\ known' = {}

ReadStep ==
  \/ \E p \in Program : FrontierOpen(p)
  \/ \E t \in Term : CaptureTerm(t) \/ CursorOpen(t) \/ CursorAnchor(t) \/ CursorLoad(t)
  \/ \E stage \in {"done", "owners", "seek"} : ScanGenerations(stage)
  \/ UniverseLoad \/ SeekDone \/ FilterMiss \/ FilterUniverse \/ FilterResolve
  \/ OwnersLoad \/ FragmentsBegin \/ FragmentRead \/ FragmentsDone \/ OwnersFallBack
  \/ OwnersEmit \/ FrontierFails \/ FrontierClose

(* The writers' steps: a compaction waits for the reader, a rewrite finds  *)
(* the anchors invalidated, an owner pass the shared liveness cleared, and *)
(* recover() refuses while the anchors are valid.                          *)
WriterStep ==
  \/ \E r \in Root, d \in Document : InsertBegin(r, d)
  \/ VacuumBegin
  \/ fr.stage = "closed" /\ \E mode \in CompactMode : CompactBegin(mode)
  \/ Step /\ (gen.valid => ~Rewrites /\ ~Recover) /\ (RetireNext => ~RecoverEndVacuum)
  \/ Interrupt
  \/ \E r \in Root : HeapDelete(r)

FrontierNext ==
  \/ WriterStep /\ UNCHANGED <<gen, readVars>>
  \/ RebuildGeneration \/ SealGeneration \/ RetireGeneration \/ InvalidateFrontier
  \/ ReadStep /\ UNCHANGED <<vars, gen>>

FrontierSpec == FrontierInit /\ [][FrontierNext]_allVars

-----------------------------------------------------------------------------
(* Properties *)

(* "source pointers are valid only until the first canonical chain         *)
(* rewrite": while the metapage says the anchors are valid, every one of   *)
(* them still leads into its term's chain, to the page with the last owner *)
(* of the snapshot, whatever was appended, removed or reclaimed since.     *)
AnchorsCurrent ==
  gen.valid => \A t \in Term :
    LET a == gen.anchors[t] IN
    a.head # NoBlock =>
      /\ a.head = dict[t].head
      /\ a.last \in PageRefs(t, a.tail)
      /\ dict[t].inline # 1 => a.tail \in Chain(dict[t].head, dict[t].tail)

(* recover() takes valid anchors for a sign of corruption, and if it ever  *)
(* refused a journal, so would every later vacuum pass and compaction.  It *)
(* accepts what an interrupted rewrite leaves at every moment, whatever    *)
(* was inserted, vacuumed, rebuilt or sealed since: the rewrite has        *)
(* invalidated the anchors, and none are made valid beside its journal.    *)
JournalRecoverable ==
  meta.journal.phase # "None" => ~gen.valid /\ RecoverAccepts

(* The reader's answer is exact: when it ends, every matching document     *)
(* that was live when it began, and that the host has not declared dead,   *)
(* has been emitted; what it emitted of the documents live when it began   *)
(* matches, negations included; and no document is counted both in a       *)
(* generation and beyond the fence.                                        *)
FrontierExact ==
  /\ fr.stage = "done" =>
       \A o \in known : Live(o) /\ heap[owner[o].root] = "used" /\ Matches(fr.prog, owner[o].doc.terms)
                          => o \in sealed \cup emitted
  /\ \A o \in known \cap (sealed \cup emitted) : Matches(fr.prog, owner[o].doc.terms)
  /\ sealed \cap emitted = {}

(* A scan of a sound index does not fail: neither a promoted second owner  *)
(* nor a page appended or an owner removed since the capture is taken for  *)
(* corruption.  One failure is possible: the owner frontier follows the    *)
(* fragments of a document that a vacuum pass has removed since its owner  *)
(* page was copied.                                                        *)
FrontierReadable ==
  fr.stage = "error" => own.owner # NoOwner /\ ~Live(own.owner)

=============================================================================
