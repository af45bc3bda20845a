--------------------------- MODULE DocumentIndex ----------------------------
(***************************************************************************)
(* What the index promises its readers, without pages: a set of postings.  *)
(* A document enters with all its terms at once, under an identity that is *)
(* never used again, and leaves with all of them at once, after the host   *)
(* has declared it dead.  There is no action for maintenance, and none for *)
(* a crash: neither changes what is in the index.                          *)
(***************************************************************************)
CONSTANTS Term, Owner

VARIABLES
  postings,   \* the live postings: pairs of a term and an owner
  published,  \* the documents ever published: pairs of an owner and its terms
  removable   \* the published documents whose root the host has declared dead

Init == postings = {} /\ published = {} /\ removable = {}

(* insert() *)
Publish(o, terms) ==
  /\ \A p \in published : p[1] # o
  /\ published' = published \cup {<<o, terms>>}
  /\ postings' = postings \cup (terms \X {o})
  /\ UNCHANGED removable

(* vacuum(): the removable documents of one owner page, each with all its  *)
(* postings                                                                *)
Remove ==
  LET kept == postings' IN
  /\ kept \subseteq postings
  /\ \A p \in postings \ kept : p[2] \in removable /\ \A q \in kept : p[2] # q[2]
  /\ UNCHANGED <<published, removable>>

(* The host's deletions and recycled roots *)
Host == removable' \in SUBSET Owner /\ UNCHANGED <<postings, published>>

Next ==
  \/ Host
  \/ Remove
  \/ \E o \in Owner, terms \in SUBSET Term : Publish(o, terms)

Spec == Init /\ [][Next]_<<postings, published, removable>>

=============================================================================
