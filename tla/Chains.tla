------------------------------- MODULE Chains -------------------------------
(***************************************************************************)
(* Facts about linked chains of blocks that the proofs of the stores share:*)
(* what a commit that appends, pops, pushes or leaves a chain alone does   *)
(* to it, and what a bounded traversal of it returns.  They rest on        *)
(* induction over the numbers, in the form the provers can use.            *)
(***************************************************************************)
EXTENDS Integers, FiniteSetTheorems, FunctionTheorems, WellFoundedInduction, TLAPS


(* Every nonempty set of numbers has a least element. *)
LEMMA LeastElement ==
  ASSUME NEW T, T \subseteq Nat, T # {}
  PROVE  \E x \in T : \A y \in T : x <= y
<1> DEFINE R == OpToRel(<, Nat)
<1>1. IsWellFoundedOn(R, Nat)
  BY NatLessThanWellFounded
<1>2. \A x, y \in Nat : <<x, y>> \in R <=> x < y
  BY DEF OpToRel
<1> HIDE DEF R
<1>3. PICK x \in T : \A y \in T : ~ (<<y, x>> \in R)
  BY <1>1, WFMin
<1>4. ASSUME NEW y \in T PROVE x <= y
  <2>1. ~(y < x)
    BY <1>2, <1>3
  <2> QED BY <2>1
<1> QED BY <1>4

(* Induction, stated of a set so that no operator is a parameter. *)
LEMMA SetInduction ==
  ASSUME NEW S, 0 \in S, \A n \in Nat : n \in S => n + 1 \in S
  PROVE  Nat \subseteq S
<1> DEFINE T == Nat \ S
<1> SUFFICES ASSUME T # {} PROVE FALSE
  OBVIOUS
<1>1. PICK x \in T : \A y \in T : x <= y
  BY LeastElement
<1>2. x # 0 /\ x - 1 \in Nat
  BY <1>1
<1>3. x - 1 \in S
  BY <1>1, <1>2
<1> QED BY <1>1, <1>2, <1>3

(* f is computed along 0 .. n from v0, one step at a time. *)
Runs(f, n, v0, step) ==
  /\ f[0] = v0
  /\ \A i \in 1 .. n : f[i] = step[<<i, f[i - 1]>>]

(* A function defined by recursion along 0 .. n exists. *)
LEMMA RecursionExists ==
  ASSUME NEW n \in Nat, NEW V, NEW v0 \in V, NEW step \in [(1 .. n) \X V -> V]
  PROVE  \E f \in [0 .. n -> V] : Runs(f, n, v0, step)
<1> DEFINE Good(k) == \E f \in [0 .. k -> V] : Runs(f, k, v0, step)
           S == {k \in Nat : k <= n => Good(k)}
<1>1. Good(0)
  <2> DEFINE f == [i \in 0 .. 0 |-> v0]
  <2>1. f \in [0 .. 0 -> V] /\ Runs(f, 0, v0, step)
    BY DEF Runs
  <2> QED BY <2>1
<1>2. ASSUME NEW k \in Nat, k + 1 <= n, Good(k) PROVE Good(k + 1)
  <2>1. PICK f \in [0 .. k -> V] : Runs(f, k, v0, step)
    BY <1>2
  <2>2. k + 1 \in 1 .. n /\ f[k] \in V
    BY <1>2, <2>1
  <2> DEFINE new == step[<<k + 1, f[k]>>]
             g == [i \in 0 .. (k + 1) |-> IF i = k + 1 THEN new ELSE f[i]]
  <2>3. new \in V
    BY <2>2
  <2>30. \A i \in 1 .. k : f[i] = step[<<i, f[i - 1]>>]
    BY <2>1 DEF Runs
  <2>31. g[k + 1] = step[<<k + 1, f[k]>>]
    OBVIOUS
  <2> HIDE DEF new
  <2>4. g \in [0 .. (k + 1) -> V]
    BY <2>3
  <2>5. g[0] = v0
    BY <2>1 DEF Runs
  <2>6. \A i \in 0 .. k : g[i] = f[i]
    OBVIOUS
  <2> HIDE DEF g
  <2>7. ASSUME NEW i \in 1 .. (k + 1) PROVE g[i] = step[<<i, g[i - 1]>>]
    <3>1. CASE i = k + 1
      <4>1. g[i - 1] = f[k]
        BY <2>6, <3>1
      <4> QED BY <2>31, <3>1, <4>1
    <3>2. CASE i \in 1 .. k
      <4>1. g[i] = f[i] /\ g[i - 1] = f[i - 1]
        BY <2>6, <3>2
      <4> QED BY <2>30, <3>2, <4>1
    <3> QED BY <3>1, <3>2
  <2> QED BY <2>4, <2>5, <2>7 DEF Runs
<1> HIDE DEF Good
<1>3. 0 \in S
  BY <1>1
<1>4. ASSUME NEW k \in Nat, k \in S PROVE k + 1 \in S
  BY <1>2, <1>4
<1>5. Nat \subseteq S
  <2> HIDE DEF S
  <2> QED BY <1>3, <1>4, SetInduction
<1>6. Good(n)
  BY <1>5
<1> QED BY <1>6 DEF Good

-----------------------------------------------------------------------------
(* Chains *)

(* The blocks of S, each once, in the order their links give; 0 ends the   *)
(* chain.                                                                  *)
Links(s, k, link, S) ==
  /\ \A b \in S : \E i \in 1 .. k : s[i] = b
  /\ \A i, j \in 1 .. k : s[i] = s[j] => i = j
  /\ \A i \in 1 .. k : link[s[i]] = IF i = k THEN 0 ELSE s[i + 1]

ChainIs(s, k, link, S, head, tail) ==
  /\ Links(s, k, link, S)
  /\ head = IF k = 0 THEN 0 ELSE s[1]
  /\ tail = IF k = 0 THEN 0 ELSE s[k]

(* The blocks of S form one chain from head to tail. *)
Chained(link, S, head, tail) ==
  \E k \in Nat : \E s \in [1 .. k -> S] : ChainIs(s, k, link, S, head, tail)

(* No block, no chain. *)
LEMMA ChainedEmpty ==
  ASSUME NEW link
  PROVE  Chained(link, {}, 0, 0)
<1> DEFINE s == [i \in 1 .. 0 |-> 0]
<1>1. s \in [1 .. 0 -> {}]
  OBVIOUS
<1>2. Links(s, 0, link, {})
  BY DEF Links
<1> QED BY <1>1, <1>2 DEF Chained, ChainIs

(* The ends of a chain and the links between them. *)
LEMMA ChainedFacts ==
  ASSUME NEW link, NEW S, NEW head, NEW tail, 0 \notin S, Chained(link, S, head, tail)
  PROVE  /\ (head = 0) = (tail = 0)
         /\ (head = 0) = (S = {})
         /\ head # 0 => head \in S /\ tail \in S /\ link[tail] = 0
         /\ \A b \in S : b # tail => link[b] \in S
         /\ \A b \in S : link[b] # head
         /\ \A b, c \in S : link[b] = link[c] /\ link[b] # 0 => b = c
<1>0. PICK k \in Nat : \E s \in [1 .. k -> S] : ChainIs(s, k, link, S, head, tail)
  BY DEF Chained
<1>1. PICK s \in [1 .. k -> S] : ChainIs(s, k, link, S, head, tail)
  BY <1>0
<1> USE DEF ChainIs
<1>2. CASE k = 0
  <2>1. S = {}
    BY <1>1, <1>2 DEF Links
  <2> QED BY <1>1, <1>2, <2>1
<1>3. CASE k # 0
  <2>1. head = s[1] /\ tail = s[k] /\ head \in S /\ tail \in S
    BY <1>1, <1>3
  <2>2. link[tail] = 0
    BY <1>1, <1>3, <2>1 DEF Links
  <2>3. ASSUME NEW b \in S, b # tail PROVE link[b] \in S
    <3>1. PICK i \in 1 .. k : s[i] = b
      BY <1>1 DEF Links
    <3>2. i # k /\ i + 1 \in 1 .. k
      BY <2>1, <2>3, <3>1
    <3> QED BY <1>1, <3>1, <3>2 DEF Links
  <2>4. ASSUME NEW b \in S PROVE link[b] # head
    <3>1. PICK i \in 1 .. k : s[i] = b
      BY <1>1 DEF Links
    <3>2. CASE i = k
      BY <1>1, <2>1, <3>1, <3>2 DEF Links
    <3>3. CASE i # k
      <4>1. i + 1 \in 1 .. k /\ 1 \in 1 .. k /\ i + 1 # 1
        BY <3>3
      <4>2. link[b] = s[i + 1]
        BY <1>1, <3>1, <3>3 DEF Links
      <4> QED BY <1>1, <2>1, <4>1, <4>2 DEF Links
    <3> QED BY <3>2, <3>3
  <2>5. ASSUME NEW b \in S, NEW c \in S, link[b] = link[c], link[b] # 0 PROVE b = c
    <3>1. PICK i \in 1 .. k : s[i] = b
      BY <1>1 DEF Links
    <3>2. PICK j \in 1 .. k : s[j] = c
      BY <1>1 DEF Links
    <3>3. i # k /\ j # k
      BY <1>1, <2>5, <3>1, <3>2 DEF Links
    <3>4. link[b] = s[i + 1] /\ link[c] = s[j + 1] /\ i + 1 \in 1 .. k /\ j + 1 \in 1 .. k
      BY <1>1, <3>1, <3>2, <3>3 DEF Links
    <3>5. i + 1 = j + 1
      BY <1>1, <2>5, <3>4 DEF Links
    <3> QED BY <3>1, <3>2, <3>5
  <2> QED BY <2>1, <2>2, <2>3, <2>4, <2>5
<1> QED BY <1>2, <1>3

(* A chain whose own links stay the same stays the same chain. *)
LEMMA ChainedSame ==
  ASSUME NEW link, NEW new, NEW S, NEW head, NEW tail,
         Chained(link, S, head, tail), \A b \in S : new[b] = link[b]
  PROVE  Chained(new, S, head, tail)
<1>0. PICK k \in Nat : \E s \in [1 .. k -> S] : ChainIs(s, k, link, S, head, tail)
  BY DEF Chained
<1>1. PICK s \in [1 .. k -> S] : ChainIs(s, k, link, S, head, tail)
  BY <1>0
<1> USE DEF ChainIs
<1>2. Links(s, k, new, S)
  BY <1>1 DEF Links
<1> QED BY <1>1, <1>2 DEF Chained

(* A block is linked behind the tail. *)
LEMMA ChainedAppend ==
  ASSUME NEW link, NEW new, NEW S, NEW head, NEW tail, NEW b,
         0 \notin S, b \notin S, b # 0, Chained(link, S, head, tail),
         new[b] = 0, tail # 0 => new[tail] = b,
         \A c \in S : c # tail => new[c] = link[c]
  PROVE  Chained(new, S \cup {b}, IF head = 0 THEN b ELSE head, b)
<1>0. PICK k \in Nat : \E s \in [1 .. k -> S] : ChainIs(s, k, link, S, head, tail)
  BY DEF Chained
<1>1. PICK s \in [1 .. k -> S] : ChainIs(s, k, link, S, head, tail)
  BY <1>0
<1> USE DEF ChainIs
<1> DEFINE t == [i \in 1 .. (k + 1) |-> IF i = k + 1 THEN b ELSE s[i]]
<1>2. t \in [1 .. (k + 1) -> S \cup {b}] /\ k + 1 \in Nat /\ k + 1 # 0
  BY <1>1
<1>3. t[k + 1] = b /\ \A i \in 1 .. k : t[i] = s[i]
  OBVIOUS
<1> HIDE DEF t
<1>4. \A c \in S \cup {b} : \E i \in 1 .. (k + 1) : t[i] = c
  <2>1. \A i \in 1 .. k : i \in 1 .. (k + 1)
    OBVIOUS
  <2> QED BY <1>1, <1>3, <2>1 DEF Links
<1>5. ASSUME NEW i \in 1 .. (k + 1), NEW j \in 1 .. (k + 1), t[i] = t[j] PROVE i = j
  <2>1. \A l \in 1 .. (k + 1) : l = k + 1 \/ l \in 1 .. k
    OBVIOUS
  <2>2. CASE i = k + 1 \/ j = k + 1
    BY <1>1, <1>3, <1>5, <2>1, <2>2
  <2>3. CASE i \in 1 .. k /\ j \in 1 .. k
    BY <1>1, <1>3, <1>5, <2>3 DEF Links
  <2> QED BY <2>1, <2>2, <2>3
<1>6. ASSUME NEW i \in 1 .. (k + 1)
      PROVE  new[t[i]] = IF i = k + 1 THEN 0 ELSE t[i + 1]
  <2>1. CASE i = k + 1
    BY <1>3, <2>1
  <2>2. CASE i = k
    <3>1. k # 0 /\ tail = s[k] /\ tail \in S /\ tail # 0
      BY <1>1, <2>2
    <3> QED BY <1>3, <2>2, <3>1
  <2>3. CASE i < k
    <3>1. i \in 1 .. k /\ k \in 1 .. k /\ i + 1 \in 1 .. k
      BY <2>3
    <3>2. tail = s[k] /\ s[i] \in S /\ s[i] # tail
      BY <1>1, <2>3, <3>1 DEF Links
    <3>3. new[s[i]] = link[s[i]] /\ link[s[i]] = s[i + 1]
      BY <1>1, <2>3, <3>1, <3>2 DEF Links
    <3>4. i # k + 1
      BY <2>3
    <3> QED BY <1>3, <3>1, <3>3, <3>4
  <2> QED BY <2>1, <2>2, <2>3
<1>7. Links(t, k + 1, new, S \cup {b})
  BY <1>4, <1>5, <1>6 DEF Links
<1>8. (IF head = 0 THEN b ELSE head) = t[1]
  <2>1. CASE k = 0
    BY <1>1, <1>3, <2>1
  <2>2. CASE k # 0
    <3>1. 1 \in 1 .. k
      BY <2>2
    <3> QED BY <1>1, <1>3, <2>2, <3>1
  <2> QED BY <2>1, <2>2
<1> QED BY <1>2, <1>3, <1>7, <1>8 DEF Chained

(* The head leaves the chain. *)
LEMMA ChainedPop ==
  ASSUME NEW link, NEW new, NEW S, NEW head, NEW tail,
         0 \notin S, head # 0, Chained(link, S, head, tail),
         \A c \in S : c # head => new[c] = link[c]
  PROVE  /\ head = tail => S \ {head} = {} /\ link[head] = 0
         /\ Chained(new, S \ {head}, link[head], IF head = tail THEN 0 ELSE tail)
<1>0. PICK k \in Nat : \E s \in [1 .. k -> S] : ChainIs(s, k, link, S, head, tail)
  BY DEF Chained
<1>1. PICK s \in [1 .. k -> S] : ChainIs(s, k, link, S, head, tail)
  BY <1>0
<1> USE DEF ChainIs
<1>2. k # 0 /\ head = s[1] /\ tail = s[k] /\ k - 1 \in Nat /\ 1 \in 1 .. k /\ k \in 1 .. k
  BY <1>1
<1> DEFINE t == [i \in 1 .. (k - 1) |-> s[i + 1]]
<1>3. \A i \in 1 .. (k - 1) : t[i] = s[i + 1] /\ i + 1 \in 1 .. k
  BY <1>2
<1>4. t \in [1 .. (k - 1) -> S \ {head}]
  <2>1. \A i \in 1 .. (k - 1) : i + 1 \in 1 .. k /\ i + 1 # 1 /\ s[i + 1] \in S
    BY <1>1, <1>2
  <2>2. \A i \in 1 .. (k - 1) : s[i + 1] # s[1]
    BY <1>1, <1>2, <2>1 DEF Links
  <2> QED BY <1>2, <2>1, <2>2
<1> HIDE DEF t
<1>5. ASSUME NEW c \in S \ {head} PROVE \E i \in 1 .. (k - 1) : t[i] = c
  <2>1. PICK i \in 1 .. k : s[i] = c
    BY <1>1 DEF Links
  <2>2. i # 1 /\ i - 1 \in 1 .. (k - 1) /\ (i - 1) + 1 = i
    BY <1>2, <1>5, <2>1
  <2> QED BY <1>3, <2>1, <2>2
<1>6. ASSUME NEW i \in 1 .. (k - 1), NEW j \in 1 .. (k - 1), t[i] = t[j] PROVE i = j
  <2>1. i + 1 = j + 1
    BY <1>1, <1>3, <1>6 DEF Links
  <2> QED BY <2>1
<1>7. ASSUME NEW i \in 1 .. (k - 1)
      PROVE  new[t[i]] = IF i = k - 1 THEN 0 ELSE t[i + 1]
  <2>1. t[i] = s[i + 1] /\ i + 1 \in 1 .. k /\ t[i] \in S /\ t[i] # head
    BY <1>3, <1>4
  <2>2. new[t[i]] = link[s[i + 1]]
    BY <2>1
  <2>3. CASE i = k - 1
    <3>1. i + 1 = k
      BY <2>3
    <3> QED BY <1>1, <2>1, <2>2, <2>3, <3>1 DEF Links
  <2>4. CASE i # k - 1
    <3>1. i + 1 \in 1 .. (k - 1) /\ i + 1 # k
      BY <2>4
    <3>2. t[i + 1] = s[(i + 1) + 1]
      BY <1>3, <3>1
    <3> QED BY <1>1, <2>1, <2>2, <2>4, <3>1, <3>2 DEF Links
  <2> QED BY <2>3, <2>4
<1>8. Links(t, k - 1, new, S \ {head})
  BY <1>5, <1>6, <1>7 DEF Links
<1>9. CASE k = 1
  <2>1. head = tail /\ link[head] = 0
    BY <1>1, <1>2, <1>9 DEF Links
  <2>2. S \ {head} = {}
    BY <1>5, <1>9
  <2>3. k - 1 = 0
    BY <1>9
  <2>4. ChainIs(t, k - 1, new, S \ {head}, 0, 0)
    BY <1>8, <2>3
  <2>5. Chained(new, S \ {head}, 0, 0)
    BY <1>2, <1>4, <2>4 DEF Chained
  <2> QED BY <2>1, <2>2, <2>5
<1>10. CASE k # 1
  <2>1. head # tail
    BY <1>1, <1>2, <1>10 DEF Links
  <2>2. k - 1 # 0 /\ k - 1 \in 1 .. (k - 1) /\ 1 \in 1 .. (k - 1) /\ (k - 1) + 1 = k /\ 1 + 1 = 2
    BY <1>2, <1>10
  <2>3. link[head] = s[2]
    BY <1>1, <1>2, <1>10 DEF Links
  <2>4. t[1] = s[2] /\ t[k - 1] = s[k]
    BY <1>3, <2>2
  <2> QED BY <1>2, <1>4, <1>8, <2>1, <2>2, <2>3, <2>4 DEF Chained
<1> QED BY <1>9, <1>10

(* A block is put before the head. *)
LEMMA ChainedPush ==
  ASSUME NEW link, NEW new, NEW S, NEW head, NEW tail, NEW b,
         0 \notin S, b \notin S, b # 0, Chained(link, S, head, tail),
         new[b] = head, \A c \in S : new[c] = link[c]
  PROVE  Chained(new, S \cup {b}, b, IF tail = 0 THEN b ELSE tail)
<1>0. PICK k \in Nat : \E s \in [1 .. k -> S] : ChainIs(s, k, link, S, head, tail)
  BY DEF Chained
<1>1. PICK s \in [1 .. k -> S] : ChainIs(s, k, link, S, head, tail)
  BY <1>0
<1> USE DEF ChainIs
<1> DEFINE t == [i \in 1 .. (k + 1) |-> IF i = 1 THEN b ELSE s[i - 1]]
<1>2. t \in [1 .. (k + 1) -> S \cup {b}] /\ k + 1 \in Nat /\ k + 1 # 0
  BY <1>1
<1>3. t[1] = b /\ \A i \in 1 .. k : t[i + 1] = s[i] /\ i + 1 \in 1 .. (k + 1)
  OBVIOUS
<1>30. \A i \in 1 .. (k + 1) : i = 1 \/ (i - 1 \in 1 .. k /\ (i - 1) + 1 = i /\ t[i] = s[i - 1])
  OBVIOUS
<1> HIDE DEF t
<1>4. \A c \in S \cup {b} : \E i \in 1 .. (k + 1) : t[i] = c
  <2>1. 1 \in 1 .. (k + 1)
    OBVIOUS
  <2> QED BY <1>1, <1>3, <2>1 DEF Links
<1>5. ASSUME NEW i \in 1 .. (k + 1), NEW j \in 1 .. (k + 1), t[i] = t[j] PROVE i = j
  <2>1. CASE i = 1 \/ j = 1
    BY <1>1, <1>3, <1>30, <1>5, <2>1
  <2>2. CASE i # 1 /\ j # 1
    <3>1. i - 1 = j - 1
      BY <1>1, <1>30, <1>5, <2>2 DEF Links
    <3> QED BY <3>1
  <2> QED BY <2>1, <2>2
<1>6. ASSUME NEW i \in 1 .. (k + 1)
      PROVE  new[t[i]] = IF i = k + 1 THEN 0 ELSE t[i + 1]
  <2>1. CASE i = 1
    <3>1. CASE k = 0
      BY <1>1, <1>3, <2>1, <3>1
    <3>2. CASE k # 0
      <4>1. 1 \in 1 .. k /\ 1 + 1 = 2 /\ 1 # k + 1
        BY <3>2
      <4> QED BY <1>1, <1>3, <2>1, <3>2, <4>1
    <3> QED BY <3>1, <3>2
  <2>2. CASE i # 1
    <3>1. i - 1 \in 1 .. k /\ t[i] = s[i - 1] /\ s[i - 1] \in S
      BY <1>1, <1>30, <2>2
    <3>2. new[t[i]] = link[s[i - 1]]
      BY <3>1
    <3>3. CASE i = k + 1
      <4>1. i - 1 = k
        BY <3>3
      <4> QED BY <1>1, <3>1, <3>2, <3>3, <4>1 DEF Links
    <3>4. CASE i # k + 1
      <4>1. i \in 1 .. k /\ i - 1 # k /\ (i - 1) + 1 = i
        BY <3>4
      <4> QED BY <1>1, <1>3, <3>1, <3>2, <3>4, <4>1 DEF Links
    <3> QED BY <3>3, <3>4
  <2> QED BY <2>1, <2>2
<1>7. Links(t, k + 1, new, S \cup {b})
  BY <1>4, <1>5, <1>6 DEF Links
<1>8. (IF tail = 0 THEN b ELSE tail) = t[k + 1]
  <2>1. CASE k = 0
    BY <1>1, <1>3, <2>1
  <2>2. CASE k # 0
    <3>1. k \in 1 .. k
      BY <2>2
    <3> QED BY <1>1, <1>3, <2>2, <3>1
  <2> QED BY <2>1, <2>2
<1> QED BY <1>2, <1>3, <1>7, <1>8 DEF Chained

-----------------------------------------------------------------------------
(* Bounded traversals *)

Rows(r, M, base, step) == r[0] = base /\ \A n \in 1 .. M : r[n] = step[r[n - 1]]

(* A traversal with a counter, which a step turns from one row of answers  *)
(* into the next, exists.                                                  *)
LEMMA RowsExist ==
  ASSUME NEW M \in Nat, NEW V, NEW base \in V, NEW step \in [V -> V]
  PROVE  \E r \in [0 .. M -> V] : Rows(r, M, base, step)
<1> DEFINE two == [p \in (1 .. M) \X V |-> step[p[2]]]
<1>1. two \in [(1 .. M) \X V -> V]
  OBVIOUS
<1>2. \A n \in 1 .. M, v \in V : two[<<n, v>>] = step[v]
  OBVIOUS
<1> HIDE DEF two
<1>3. PICK r \in [0 .. M -> V] : Runs(r, M, base, two)
  BY <1>1, RecursionExists
<1>4. ASSUME NEW n \in 1 .. M PROVE r[n] = step[r[n - 1]]
  <2>1. r[n - 1] \in V
    BY <1>3
  <2>2. r[n] = two[<<n, r[n - 1]>>]
    BY <1>3 DEF Runs
  <2> QED BY <1>2, <2>1, <2>2
<1>5. r[0] = base
  BY <1>3 DEF Runs
<1> QED BY <1>4, <1>5 DEF Rows

(* The blocks that a traversal along link meets before it is past stop. *)
IsWalk(f, M, link, stop) ==
  f = [n \in 0 .. M |-> [b \in 0 .. M |->
         IF n = 0 \/ b = 0 THEN {}
         ELSE {b} \cup (IF b = stop THEN {} ELSE f[n - 1][link[b]])]]

(* The traversal is well defined. *)
LEMMA WalkExists ==
  ASSUME NEW M \in Nat, NEW link \in [1 .. M -> 0 .. M], NEW stop
  PROVE  \E f : IsWalk(f, M, link, stop)
<1> DEFINE B == 0 .. M
           V == [B -> SUBSET B]
           Row(v) == [b \in B |-> IF b = 0 THEN {}
                                  ELSE {b} \cup (IF b = stop THEN {} ELSE v[link[b]])]
           base == [b \in B |-> {}]
           step == [v \in V |-> Row(v)]
<1>1. base \in V
  OBVIOUS
<1>2. ASSUME NEW v \in V PROVE Row(v) \in V
  <2>1. ASSUME NEW b \in B
        PROVE  (IF b = 0 THEN {} ELSE {b} \cup (IF b = stop THEN {} ELSE v[link[b]])) \in SUBSET B
    <3>1. CASE b = 0
      BY <3>1
    <3>2. CASE b # 0
      <4>1. link[b] \in B
        BY <3>2
      <4>2. v[link[b]] \in SUBSET B
        BY <4>1
      <4> QED BY <3>2, <4>2
    <3> QED BY <3>1, <3>2
  <2> QED BY <2>1
<1>3. step \in [V -> V]
  BY <1>2
<1>4. \A v \in V : step[v] = Row(v)
  OBVIOUS
<1> HIDE DEF base, step, V
<1>50. PICK r \in [0 .. M -> V] : Rows(r, M, base, step)
  BY <1>1, <1>3, RowsExist
<1>5. r \in [0 .. M -> V] /\ r[0] = base /\ \A n \in 1 .. M : r[n] = step[r[n - 1]]
  BY <1>50 DEF Rows
<1> DEFINE f == [n \in 0 .. M |-> [b \in B |-> r[n][b]]]
<1>6. ASSUME NEW n \in 0 .. M, NEW b \in B
      PROVE  r[n][b] = IF n = 0 \/ b = 0 THEN {}
                       ELSE {b} \cup (IF b = stop THEN {} ELSE f[n - 1][link[b]])
  <2>1. CASE n = 0
    BY <1>5, <2>1 DEF base
  <2>2. CASE n # 0
    <3>1. n \in 1 .. M /\ n - 1 \in 0 .. M /\ r[n - 1] \in V
      BY <1>5, <2>2
    <3>2. r[n] = Row(r[n - 1])
      BY <1>4, <1>5, <3>1
    <3>3. CASE b = 0
      BY <3>2, <3>3
    <3>4. CASE b # 0
      <4>1. link[b] \in B
        BY <3>4
      <4>2. f[n - 1][link[b]] = r[n - 1][link[b]]
        BY <3>1, <4>1
      <4> QED BY <2>2, <3>2, <3>4, <4>2
    <3> QED BY <3>3, <3>4
  <2> QED BY <2>1, <2>2
<1>7. f = [n \in 0 .. M |-> [b \in B |->
             IF n = 0 \/ b = 0 THEN {}
             ELSE {b} \cup (IF b = stop THEN {} ELSE f[n - 1][link[b]])]]
  BY ZenonT(40), <1>6
<1> HIDE DEF f
<1> QED BY <1>7 DEF IsWalk

(* A chain is no longer than there are blocks. *)
LEMMA ChainBounded ==
  ASSUME NEW M \in Nat, NEW S \in SUBSET (1 .. M), NEW k \in Nat, NEW s \in [1 .. k -> S],
         \A i, j \in 1 .. k : s[i] = s[j] => i = j
  PROVE  k <= M
<1>1. s \in [1 .. k -> 1 .. M]
  OBVIOUS
<1>2. s \in Injection(1 .. k, 1 .. M)
  BY <1>1, Fun_IsInj
<1>3. /\ IsFiniteSet(1 .. M)
      /\ Cardinality(1 .. M) = M
  BY FS_Interval
<1>4. Cardinality(1 .. k) = k
  BY FS_Interval
<1>5. Cardinality(1 .. k) <= Cardinality(1 .. M)
  BY <1>2, <1>3, FS_Injection
<1> QED BY <1>3, <1>4, <1>5

FindsFrom(f, M, s, p) ==
  \A j \in Nat : j < p =>
    \A n \in 0 .. M : n > j => f[n][s[p - j]] = {s[i] : i \in (p - j) .. p}

(* What a traversal finds between two places of a chain. *)
LEMMA WalkRun ==
  ASSUME NEW M \in Nat, NEW link, NEW stop, NEW f, IsWalk(f, M, link, stop),
         NEW S \in SUBSET (1 .. M), NEW k \in Nat, NEW s \in [1 .. k -> S],
         Links(s, k, link, S), NEW p \in 1 .. k,
         stop = s[p] \/ (stop = 0 /\ p = k)
  PROVE  FindsFrom(f, M, s, p)
<1> DEFINE Found(j) == \A n \in 0 .. M : n > j => f[n][s[p - j]] = {s[i] : i \in (p - j) .. p}
           T == {j \in Nat : j < p => Found(j)}
<1>1. ASSUME NEW n \in 0 .. M, NEW b \in 1 .. M, n > 0
      PROVE  f[n][b] = {b} \cup (IF b = stop THEN {} ELSE f[n - 1][link[b]])
  <2>1. f[n] = [c \in 0 .. M |->
                 IF n = 0 \/ c = 0 THEN {}
                 ELSE {c} \cup (IF c = stop THEN {} ELSE f[n - 1][link[c]])]
    BY DEF IsWalk
  <2> QED BY <1>1, <2>1
<1>2. ASSUME NEW i \in 1 .. k PROVE s[i] \in 1 .. M /\ s[i] # 0
  <2>1. s[i] \in S
    OBVIOUS
  <2>2. s[i] \in 1 .. M
    BY <2>1
  <2> QED BY <2>2
<1>4. f[0][0] = {} /\ \A n \in 0 .. M : f[n][0] = {}
  BY DEF IsWalk
<1>5. Found(0)
  <2> SUFFICES ASSUME NEW n \in 0 .. M, n > 0 PROVE f[n][s[p - 0]] = {s[i] : i \in (p - 0) .. p}
    OBVIOUS
  <2>1. p - 0 = p /\ {s[i] : i \in p .. p} = {s[p]}
    OBVIOUS
  <2>2. f[n][s[p]] = {s[p]} \cup (IF s[p] = stop THEN {} ELSE f[n - 1][link[s[p]]])
    BY <1>1, <1>2
  <2>3. CASE stop = s[p]
    BY <2>1, <2>2, <2>3
  <2>4. CASE stop = 0 /\ p = k
    <3>1. link[s[p]] = 0 /\ n - 1 \in 0 .. M
      BY <2>4 DEF Links
    <3>2. f[n - 1][link[s[p]]] = {}
      BY <1>4, <3>1
    <3> QED BY <2>1, <2>2, <3>2
  <2> QED BY <2>3, <2>4
<1>6. ASSUME NEW j \in Nat, j + 1 < p, Found(j) PROVE Found(j + 1)
  <2> SUFFICES ASSUME NEW n \in 0 .. M, n > j + 1
               PROVE  f[n][s[p - (j + 1)]] = {s[i] : i \in (p - (j + 1)) .. p}
    OBVIOUS
  <2> DEFINE a == p - (j + 1)
  <2>1. a \in 1 .. k /\ a # p /\ a # k /\ a + 1 = p - j /\ a + 1 \in 1 .. k /\ a < p
    BY <1>6
  <2>2. s[a] # stop
    BY <1>2, <2>1 DEF Links
  <2>3. f[n][s[a]] = {s[a]} \cup f[n - 1][link[s[a]]]
    BY <1>1, <1>2, <2>1, <2>2
  <2>4. link[s[a]] = s[p - j]
    BY <2>1 DEF Links
  <2>5. f[n - 1][s[p - j]] = {s[i] : i \in (p - j) .. p}
    BY <1>6
  <2>6. {s[i] : i \in a .. p} = {s[a]} \cup {s[i] : i \in (a + 1) .. p}
    <3>1. a .. p = {a} \cup ((a + 1) .. p)
      BY <2>1
    <3> QED BY <3>1
  <2> QED BY <2>1, <2>3, <2>4, <2>5, <2>6
<1> HIDE DEF Found
<1>7. 0 \in T
  BY <1>5
<1>8. ASSUME NEW j \in Nat, j \in T PROVE j + 1 \in T
  BY <1>6, <1>8
<1>9. Nat \subseteq T
  <2> HIDE DEF T
  <2> QED BY <1>7, <1>8, SetInduction
<1> QED BY <1>9 DEF Found, FindsFrom

(* A traversal of a chain from its head finds the chain. *)
LEMMA WalkChain ==
  ASSUME NEW M \in Nat, NEW link, NEW stop, NEW f, IsWalk(f, M, link, stop),
         NEW S \in SUBSET (1 .. M), NEW head, NEW tail, Chained(link, S, head, tail),
         stop = tail \/ stop = 0
  PROVE  f[M][head] = S
<1>0. PICK k \in Nat : \E s \in [1 .. k -> S] : ChainIs(s, k, link, S, head, tail)
  BY DEF Chained
<1>1. PICK s \in [1 .. k -> S] : ChainIs(s, k, link, S, head, tail)
  BY <1>0
<1> USE DEF ChainIs
<1>2. CASE k = 0
  <2>1. head = 0 /\ S = {}
    BY <1>1, <1>2 DEF Links
  <2>2. f[M][0] = {}
    BY DEF IsWalk
  <2> QED BY <2>1, <2>2
<1>3. CASE k # 0
  <2>1. k \in 1 .. k /\ k - 1 \in Nat /\ k - 1 < k /\ k - (k - 1) = 1 /\ head = s[1] /\ tail = s[k]
    BY <1>1, <1>3
  <2>2. k <= M
    BY <1>1, ChainBounded DEF Links
  <2>3. M \in 0 .. M /\ M > k - 1
    BY <2>2
  <2>4. stop = s[k] \/ (stop = 0 /\ k = k)
    BY <2>1
  <2>5. FindsFrom(f, M, s, k)
    <3>1. Links(s, k, link, S)
      BY <1>1
    <3> HIDE DEF ChainIs
    <3> QED BY <2>1, <2>4, <3>1, WalkRun
  <2>6. f[M][s[k - (k - 1)]] = {s[i] : i \in (k - (k - 1)) .. k}
    BY <2>1, <2>3, <2>5 DEF FindsFrom
  <2>7. f[M][head] = {s[i] : i \in 1 .. k}
    BY <2>1, <2>6
  <2>8. {s[i] : i \in 1 .. k} = S
    <3>1. \A b \in S : \E i \in 1 .. k : s[i] = b
      BY <1>1 DEF Links
    <3>2. \A i \in 1 .. k : s[i] \in S
      OBVIOUS
    <3> QED BY <3>1, <3>2
  <2> QED BY <2>7, <2>8
<1> QED BY <1>2, <1>3

(* Whether a traversal along link reaches stop, the last block of the      *)
(* chain, over blocks of G only.                                           *)
IsCheck(f, M, link, G, stop) ==
  f = [n \in 0 .. M |-> [b \in 0 .. M |->
         /\ n > 0 /\ b \in G
         /\ IF b = stop THEN link[b] = 0 ELSE f[n - 1][link[b]]]]

(* The check is well defined. *)
LEMMA CheckExists ==
  ASSUME NEW M \in Nat, NEW G \in SUBSET (1 .. M), NEW link \in [1 .. M -> 0 .. M], NEW stop
  PROVE  \E f : IsCheck(f, M, link, G, stop)
<1> DEFINE B == 0 .. M
           V == [B -> BOOLEAN]
           Row(v) == [b \in B |-> b \in G /\ IF b = stop THEN link[b] = 0 ELSE v[link[b]]]
           base == [b \in B |-> FALSE]
           step == [v \in V |-> Row(v)]
<1>1. base \in V
  OBVIOUS
<1>2. ASSUME NEW v \in V PROVE Row(v) \in V
  <2>1. \A b \in B : (b \in G /\ IF b = stop THEN link[b] = 0 ELSE v[link[b]]) \in BOOLEAN
    OBVIOUS
  <2> QED BY <2>1
<1>3. step \in [V -> V]
  BY <1>2
<1>4. \A v \in V : step[v] = Row(v)
  OBVIOUS
<1> HIDE DEF base, step, V
<1>5. PICK r \in [0 .. M -> V] : Rows(r, M, base, step)
  BY <1>1, <1>3, RowsExist
<1>6. r[0] = base /\ \A n \in 1 .. M : r[n] = step[r[n - 1]]
  BY <1>5 DEF Rows
<1> DEFINE f == [n \in 0 .. M |-> [b \in B |-> r[n][b]]]
<1>7. ASSUME NEW n \in 0 .. M, NEW b \in B
      PROVE  r[n][b] = (/\ n > 0 /\ b \in G
                        /\ IF b = stop THEN link[b] = 0 ELSE f[n - 1][link[b]])
  <2>1. CASE n = 0
    <3>1. r[n][b] = FALSE
      BY <1>6, <2>1 DEF base
    <3>2. ~(n > 0)
      BY <2>1
    <3> QED BY <3>1, <3>2, Zenon
  <2>2. CASE n # 0
    <3>1. n \in 1 .. M /\ n - 1 \in 0 .. M /\ r[n - 1] \in V
      BY <2>2
    <3>0. n > 0
      BY <2>2
    <3>2. r[n] = Row(r[n - 1])
      BY <1>4, <1>6, <3>1
    <3>3. r[n][b] = (b \in G /\ IF b = stop THEN link[b] = 0 ELSE r[n - 1][link[b]])
      BY <3>2
    <3>4. b \in G => f[n - 1][link[b]] = r[n - 1][link[b]]
      <4> SUFFICES ASSUME b \in G PROVE f[n - 1][link[b]] = r[n - 1][link[b]]
        OBVIOUS
      <4>1. link[b] \in B
        OBVIOUS
      <4> QED BY <3>1, <4>1
    <3> HIDE DEF f
    <3> QED BY <3>0, <3>3, <3>4, Zenon
  <2> QED BY <2>1, <2>2
<1>8. f = [n \in 0 .. M |-> [b \in B |->
             /\ n > 0 /\ b \in G
             /\ IF b = stop THEN link[b] = 0 ELSE f[n - 1][link[b]]]]
  BY <1>7
<1> HIDE DEF f
<1> QED BY <1>8 DEF IsCheck

AdmitsFrom(f, M, s, k) ==
  \A j \in Nat : j < k => \A n \in 0 .. M : n > j => f[n][s[k - j]]

(* A chain within G passes the check, from every place of it. *)
LEMMA CheckRun ==
  ASSUME NEW M \in Nat, NEW link, NEW G, NEW f,
         NEW S \in SUBSET (1 .. M), S \subseteq G, NEW k \in Nat, NEW s \in [1 .. k -> S],
         k # 0, Links(s, k, link, S), IsCheck(f, M, link, G, s[k])
  PROVE  AdmitsFrom(f, M, s, k)
<1> DEFINE Good(j) == \A n \in 0 .. M : n > j => f[n][s[k - j]]
           T == {j \in Nat : j < k => Good(j)}
<1>1. ASSUME NEW n \in 0 .. M, NEW b \in S, n > 0,
             IF b = s[k] THEN link[b] = 0 ELSE f[n - 1][link[b]]
      PROVE  f[n][b]
  <2>1. f[n] = [c \in 0 .. M |->
                 /\ n > 0 /\ c \in G
                 /\ IF c = s[k] THEN link[c] = 0 ELSE f[n - 1][link[c]]]
    BY DEF IsCheck
  <2>2. b \in 0 .. M /\ b \in G
    OBVIOUS
  <2>3. f[n][b] = (/\ n > 0 /\ b \in G
                   /\ IF b = s[k] THEN link[b] = 0 ELSE f[n - 1][link[b]])
    BY <2>1, <2>2
  <2> QED BY <1>1, <2>2, <2>3
<1>2. \A i \in 1 .. k : s[i] \in S
  OBVIOUS
<1>3. Good(0)
  <2> SUFFICES ASSUME NEW n \in 0 .. M, n > 0 PROVE f[n][s[k - 0]]
    OBVIOUS
  <2>1. k \in 1 .. k /\ k - 0 = k
    OBVIOUS
  <2>2. link[s[k]] = 0
    BY <2>1 DEF Links
  <2>3. s[k] \in S
    BY <1>2, <2>1
  <2> QED BY <1>1, <2>1, <2>2, <2>3
<1>4. ASSUME NEW j \in Nat, j + 1 < k, Good(j) PROVE Good(j + 1)
  <2> SUFFICES ASSUME NEW n \in 0 .. M, n > j + 1 PROVE f[n][s[k - (j + 1)]]
    OBVIOUS
  <2> DEFINE a == k - (j + 1)
  <2>1. a \in 1 .. k /\ a # k /\ a + 1 = k - j /\ k \in 1 .. k
    BY <1>4
  <2>2. link[s[a]] = s[k - j] /\ s[a] # s[k]
    BY <2>1 DEF Links
  <2>3. n - 1 \in 0 .. M /\ n - 1 > j /\ n > 0
    OBVIOUS
  <2>4. f[n - 1][s[k - j]]
    BY <1>4, <2>3
  <2>5. s[a] \in S
    BY <1>2, <2>1
  <2> HIDE DEF a
  <2>6. f[n][s[a]]
    BY <1>1, <2>2, <2>3, <2>4, <2>5
  <2> QED BY <2>6 DEF a
<1> HIDE DEF Good
<1>5. 0 \in T
  BY <1>3
<1>6. ASSUME NEW j \in Nat, j \in T PROVE j + 1 \in T
  BY <1>4, <1>6
<1>7. Nat \subseteq T
  <2> HIDE DEF T
  <2> QED BY <1>5, <1>6, SetInduction
<1> QED BY <1>7 DEF Good, AdmitsFrom

(* The check admits a chain that lies in G. *)
LEMMA CheckChain ==
  ASSUME NEW M \in Nat, NEW link, NEW G, NEW f, NEW S \in SUBSET (1 .. M), S \subseteq G,
         NEW head, NEW tail, head # 0, Chained(link, S, head, tail),
         IsCheck(f, M, link, G, tail)
  PROVE  f[M][head]
<1>0. PICK k \in Nat : \E s \in [1 .. k -> S] : ChainIs(s, k, link, S, head, tail)
  BY DEF Chained
<1>1. PICK s \in [1 .. k -> S] : ChainIs(s, k, link, S, head, tail)
  BY <1>0
<1>2. k # 0 /\ head = s[1] /\ tail = s[k] /\ Links(s, k, link, S)
  BY <1>1 DEF ChainIs
<1>3. AdmitsFrom(f, M, s, k)
  BY <1>2, CheckRun
<1>4. k <= M
  BY <1>2, ChainBounded DEF Links
<1>5. k - 1 \in Nat /\ k - 1 < k /\ k - (k - 1) = 1 /\ M \in 0 .. M /\ M > k - 1
  BY <1>2, <1>4
<1>6. f[M][s[k - (k - 1)]]
  BY <1>3, <1>5 DEF AdmitsFrom
<1> QED BY <1>2, <1>5, <1>6

-----------------------------------------------------------------------------
(* Cutting and joining *)

(* The sets of numbers R[b] rise along the links of S. *)
Ascends(link, S, R) ==
  \A b \in S : /\ R[b] \subseteq Nat /\ R[b] # {}
               /\ link[b] # 0 => \A o \in R[b], p \in R[link[b]] : o < p

Below(R, b, c) == \A o \in R[b], p \in R[c] : o < p

(* Then they rise from any block to any later one. *)
LEMMA AscendsFar ==
  ASSUME NEW link, NEW S, 0 \notin S, NEW R, Ascends(link, S, R), NEW k \in Nat,
         NEW s \in [1 .. k -> S], Links(s, k, link, S), NEW i \in 1 .. k, NEW j \in 1 .. k, i < j
  PROVE  Below(R, s[i], s[j])
<1> DEFINE T == {n \in Nat : i + n + 1 <= k => Below(R, s[i], s[i + n + 1])}
<1>1. ASSUME NEW n \in 1 .. k, n < k
      PROVE  Below(R, s[n], s[n + 1])
  <2>1. n + 1 \in 1 .. k /\ link[s[n]] = s[n + 1] /\ s[n + 1] \in S /\ s[n] \in S
    BY <1>1 DEF Links
  <2> QED BY <2>1 DEF Ascends, Below
<1>2. 0 \in T
  BY <1>1
<1>3. ASSUME NEW n \in Nat, n \in T PROVE n + 1 \in T
  <2> SUFFICES ASSUME i + (n + 1) + 1 <= k PROVE Below(R, s[i], s[i + (n + 1) + 1])
    OBVIOUS
  <2> DEFINE a == i + n + 1
  <2>1. a \in 1 .. k /\ a < k /\ a + 1 = i + (n + 1) + 1 /\ a + 1 \in 1 .. k
    OBVIOUS
  <2>2. Below(R, s[i], s[a])
    BY <1>3, <2>1
  <2>3. Below(R, s[a], s[a + 1])
    BY <1>1, <2>1
  <2>4. /\ s[i] \in S /\ s[a] \in S /\ s[a + 1] \in S
    BY <2>1
  <2>5. R[s[a]] # {} /\ R[s[i]] \subseteq Nat /\ R[s[a]] \subseteq Nat /\ R[s[a + 1]] \subseteq Nat
    BY <2>4 DEF Ascends
  <2>6. \A o \in R[s[i]], p \in R[s[a + 1]] : o < p
    <3> SUFFICES ASSUME NEW o \in R[s[i]], NEW p \in R[s[a + 1]] PROVE o < p
      OBVIOUS
    <3>1. PICK q \in R[s[a]] : TRUE
      BY <2>5
    <3>2. o < q /\ q < p /\ o \in Nat /\ p \in Nat /\ q \in Nat
      BY <2>2, <2>3, <2>5, <3>1 DEF Below
    <3> QED BY <3>2
  <2> QED BY <2>1, <2>6 DEF Below
<1>4. Nat \subseteq T
  BY <1>2, <1>3, SetInduction
<1>5. j - i - 1 \in Nat /\ i + (j - i - 1) + 1 = j
  OBVIOUS
<1> HIDE DEF T
<1>6. j - i - 1 \in T
  BY <1>4, <1>5
<1> QED BY <1>5, <1>6 DEF T

(* U is the part of a chain up to b and V the part behind it. *)
Split(link, S, head, tail, b, U, V) ==
  /\ U \cup V = S /\ U \cap V = {} /\ b \in U /\ link[b] \in V
  /\ Chained(link, V, link[b], tail)
  /\ \A cut : cut[b] = 0 /\ (\A c \in U : c # b => cut[c] = link[c]) => Chained(cut, U, head, b)
  /\ \A R : Ascends(link, S, R) => \A c \in U, d \in V : Below(R, c, d)

(* Every chain splits at a block that is not the last. *)
LEMMA ChainedSplit ==
  ASSUME NEW link, NEW S, NEW head, NEW tail, 0 \notin S, Chained(link, S, head, tail),
         NEW b \in S, link[b] # 0
  PROVE  \E U, V \in SUBSET S : Split(link, S, head, tail, b, U, V)
<1>0. PICK k \in Nat : \E s \in [1 .. k -> S] : ChainIs(s, k, link, S, head, tail)
  BY DEF Chained
<1>1. PICK s \in [1 .. k -> S] : ChainIs(s, k, link, S, head, tail)
  BY <1>0
<1>2. Links(s, k, link, S) /\ (k # 0 => head = s[1] /\ tail = s[k])
  BY <1>1 DEF ChainIs
<1>3. PICK p \in 1 .. k : s[p] = b
  BY <1>2 DEF Links
<1>4. p < k /\ link[b] = s[p + 1] /\ p + 1 \in 1 .. k /\ k # 0 /\ head = s[1] /\ tail = s[k]
  BY <1>2, <1>3 DEF Links
<1> DEFINE U == {s[i] : i \in 1 .. p}
           V == {s[i] : i \in (p + 1) .. k}
           n == k - p
           v == [i \in 1 .. n |-> s[p + i]]
           u == [i \in 1 .. p |-> s[i]]
<1>5. /\ n \in Nat /\ n # 0 /\ p \in Nat /\ p # 0
      /\ \A i \in 1 .. n : p + i \in (p + 1) .. k /\ p + i \in 1 .. k
      /\ \A i \in (p + 1) .. k : i - p \in 1 .. n /\ p + (i - p) = i /\ i \in 1 .. k
      /\ \A i \in 1 .. p : i \in 1 .. k
      /\ \A i \in 1 .. k : i \in 1 .. p \/ i \in (p + 1) .. k
  BY <1>4
<1>6. U \cup V = S /\ U \cap V = {} /\ b \in U /\ link[b] \in V
  <2>1. U \subseteq S /\ V \subseteq S
    BY <1>5
  <2>2. ASSUME NEW c \in S PROVE c \in U \/ c \in V
    BY <1>2, <1>5 DEF Links
  <2>3. ASSUME NEW c \in U, c \in V PROVE FALSE
    <3>1. PICK i \in 1 .. p : c = s[i]
      BY <2>3
    <3>2. PICK j \in (p + 1) .. k : c = s[j]
      BY <2>3
    <3>3. i = j
      BY <1>2, <1>5, <3>1, <3>2 DEF Links
    <3> QED BY <3>3
  <2>4. b \in U /\ link[b] \in V
    <3>1. p \in 1 .. p /\ p + 1 \in (p + 1) .. k
      BY <1>4
    <3> QED BY <1>3, <1>4, <3>1
  <2> QED BY <2>1, <2>2, <2>3, <2>4
<1>7. Chained(link, V, link[b], tail)
  <2>1. v \in [1 .. n -> V] /\ \A i \in 1 .. n : v[i] = s[p + i]
    BY <1>5
  <2>2. \A c \in V : \E i \in 1 .. n : v[i] = c
    <3> SUFFICES ASSUME NEW j \in (p + 1) .. k PROVE \E i \in 1 .. n : v[i] = s[j]
      OBVIOUS
    <3>1. j - p \in 1 .. n /\ v[j - p] = s[j]
      BY <1>5, <2>1
    <3> QED BY <3>1
  <2>3. \A i, j \in 1 .. n : v[i] = v[j] => i = j
    <3> SUFFICES ASSUME NEW i \in 1 .. n, NEW j \in 1 .. n, v[i] = v[j] PROVE i = j
      OBVIOUS
    <3>1. p + i = p + j
      BY <1>2, <1>5, <2>1 DEF Links
    <3> QED BY <3>1
  <2>4. \A i \in 1 .. n : link[v[i]] = IF i = n THEN 0 ELSE v[i + 1]
    <3> SUFFICES ASSUME NEW i \in 1 .. n PROVE link[v[i]] = IF i = n THEN 0 ELSE v[i + 1]
      OBVIOUS
    <3>1. link[s[p + i]] = IF p + i = k THEN 0 ELSE s[p + i + 1]
      BY <1>2, <1>5 DEF Links
    <3>2. (p + i = k) = (i = n) /\ (i # n => i + 1 \in 1 .. n) /\ p + i + 1 = p + (i + 1)
      BY <1>5
    <3> QED BY <2>1, <3>1, <3>2
  <2> HIDE DEF v
  <2>5. Links(v, n, link, V)
    BY <2>2, <2>3, <2>4 DEF Links
  <2>6. v[1] = link[b] /\ v[n] = tail
    <3>1. 1 \in 1 .. n /\ n \in 1 .. n /\ p + n = k
      BY <1>5
    <3> QED BY <1>4, <2>1, <3>1
  <2> QED BY <1>5, <2>1, <2>5, <2>6 DEF Chained, ChainIs
<1>8. ASSUME NEW cut, cut[b] = 0, \A c \in U : c # b => cut[c] = link[c]
      PROVE  Chained(cut, U, head, b)
  <2>1. u \in [1 .. p -> U] /\ \A i \in 1 .. p : u[i] = s[i]
    OBVIOUS
  <2>2. \A c \in U : \E i \in 1 .. p : u[i] = c
    BY <2>1
  <2>3. \A i, j \in 1 .. p : u[i] = u[j] => i = j
    BY <1>2, <1>5, <2>1 DEF Links
  <2>4. \A i \in 1 .. p : cut[u[i]] = IF i = p THEN 0 ELSE u[i + 1]
    <3> SUFFICES ASSUME NEW i \in 1 .. p PROVE cut[u[i]] = IF i = p THEN 0 ELSE u[i + 1]
      OBVIOUS
    <3>1. CASE i = p
      BY <1>3, <1>8, <2>1, <3>1
    <3>2. CASE i # p
      <4>1. i \in 1 .. k /\ i # k /\ i + 1 \in 1 .. p /\ s[i] \in U
        BY <1>4, <3>2
      <4>2. link[s[i]] = s[i + 1]
        BY <1>2, <4>1 DEF Links
      <4>3. s[i] # b
        BY <1>2, <1>3, <3>2, <4>1 DEF Links
      <4> QED BY <1>8, <2>1, <3>2, <4>1, <4>2, <4>3
    <3> QED BY <3>1, <3>2
  <2> HIDE DEF u
  <2>5. Links(u, p, cut, U)
    BY <2>2, <2>3, <2>4 DEF Links
  <2>6. u[1] = head /\ u[p] = b
    <3>1. 1 \in 1 .. p /\ p \in 1 .. p
      OBVIOUS
    <3> QED BY <1>3, <1>4, <2>1, <3>1
  <2> QED BY <1>5, <2>1, <2>5, <2>6 DEF Chained, ChainIs
<1>9. ASSUME NEW R, Ascends(link, S, R), NEW c \in U, NEW d \in V PROVE Below(R, c, d)
  <2>1. PICK i \in 1 .. p : c = s[i]
    OBVIOUS
  <2>2. PICK j \in (p + 1) .. k : d = s[j]
    OBVIOUS
  <2>3. i \in 1 .. k /\ j \in 1 .. k /\ i < j
    BY <1>5
  <2> QED BY <1>2, <1>9, <2>1, <2>2, <2>3, AscendsFar
<1> HIDE DEF U, V
<1>10. Split(link, S, head, tail, b, U, V)
  BY <1>6, <1>7, <1>8, <1>9 DEF Split
<1> QED BY <1>6, <1>10

(* Under new, the tail b of the chain U is linked to the chain V. *)
Joins(link, new, U, V, head, b, first, tail) ==
  /\ 0 \notin U /\ 0 \notin V /\ U \cap V = {} /\ b # 0
  /\ Chained(link, U, head, b) /\ Chained(new, V, first, tail) /\ new[b] = first
  /\ \A c \in U : c # b => new[c] = link[c]

(* The two are then one chain. *)
LEMMA ChainedJoin ==
  ASSUME NEW link, NEW new, NEW U, NEW V, NEW head, NEW b, NEW first, NEW tail,
         Joins(link, new, U, V, head, b, first, tail)
  PROVE  Chained(new, U \cup V, head, IF first = 0 THEN b ELSE tail)
<1> USE DEF Joins
<1>0. PICK k \in Nat : \E s \in [1 .. k -> U] : ChainIs(s, k, link, U, head, b)
  BY DEF Chained
<1>1. PICK s \in [1 .. k -> U] : ChainIs(s, k, link, U, head, b)
  BY <1>0
<1>2. PICK l \in Nat : \E t \in [1 .. l -> V] : ChainIs(t, l, new, V, first, tail)
  BY DEF Chained
<1>3. PICK t \in [1 .. l -> V] : ChainIs(t, l, new, V, first, tail)
  BY <1>2
<1>4. Links(s, k, link, U) /\ k # 0 /\ head = s[1] /\ b = s[k]
  BY <1>1 DEF ChainIs
<1>5. /\ Links(t, l, new, V) /\ first = (IF l = 0 THEN 0 ELSE t[1])
      /\ tail = (IF l = 0 THEN 0 ELSE t[l])
  BY <1>3 DEF ChainIs
<1>6. (first = 0) = (l = 0)
  <2>1. l # 0 => t[1] \in V
    OBVIOUS
  <2> QED BY <1>5, <2>1
<1> DEFINE n == k + l
           w == [i \in 1 .. n |-> IF i <= k THEN s[i] ELSE t[i - k]]
<1>7. /\ n \in Nat /\ n # 0
      /\ \A i \in 1 .. k : i \in 1 .. n /\ w[i] = s[i] /\ s[i] \in U
      /\ \A i \in 1 .. l : k + i \in 1 .. n /\ w[k + i] = t[i] /\ t[i] \in V
      /\ \A i \in 1 .. n : i \in 1 .. k \/ (i - k \in 1 .. l /\ i = k + (i - k))
  BY <1>4
<1>8. w \in [1 .. n -> U \cup V]
  BY <1>7
<1> HIDE DEF w
<1>9. ASSUME NEW c \in U \cup V PROVE \E i \in 1 .. n : w[i] = c
  <2>1. CASE c \in U
    <3>1. PICK i \in 1 .. k : s[i] = c
      BY <1>4, <2>1 DEF Links
    <3> QED BY <1>7, <3>1
  <2>2. CASE c \in V
    <3>1. PICK i \in 1 .. l : t[i] = c
      BY <1>5, <2>2 DEF Links
    <3>2. k + i \in 1 .. n /\ w[k + i] = c
      BY <1>7, <3>1
    <3> QED BY <3>2
  <2> QED BY <2>1, <2>2
<1>10. ASSUME NEW i \in 1 .. n, NEW j \in 1 .. n, w[i] = w[j] PROVE i = j
  <2>1. CASE i \in 1 .. k /\ j \in 1 .. k
    BY <1>4, <1>7, <1>10, <2>1 DEF Links
  <2>2. CASE i - k \in 1 .. l /\ i = k + (i - k) /\ j - k \in 1 .. l /\ j = k + (j - k)
    <3>0. w[i] = t[i - k] /\ w[j] = t[j - k]
      BY <1>7, <2>2
    <3>1. i - k = j - k
      BY <1>5, <1>10, <2>2, <3>0 DEF Links
    <3> QED BY <3>1
  <2>3. CASE i \in 1 .. k /\ j - k \in 1 .. l /\ j = k + (j - k)
    BY <1>7, <1>10, <2>3
  <2>4. CASE j \in 1 .. k /\ i - k \in 1 .. l /\ i = k + (i - k)
    BY <1>7, <1>10, <2>4
  <2> QED BY <1>7, <2>1, <2>2, <2>3, <2>4
<1>11. ASSUME NEW i \in 1 .. n PROVE new[w[i]] = IF i = n THEN 0 ELSE w[i + 1]
  <2>1. CASE i \in 1 .. k /\ i # k
    <3>1. i + 1 \in 1 .. k /\ i # n
      BY <1>7, <2>1
    <3>2. link[s[i]] = s[i + 1]
      BY <1>4, <2>1 DEF Links
    <3>3. s[i] # b
      <4>1. k \in 1 .. k
        BY <1>4
      <4> QED BY <1>4, <2>1, <4>1 DEF Links
    <3> QED BY <1>7, <2>1, <3>1, <3>2, <3>3
  <2>2. CASE i = k
    <3>1. k \in 1 .. k /\ w[i] = b
      BY <1>4, <1>7, <2>2
    <3>2. CASE l = 0
      BY <1>6, <2>2, <3>1, <3>2
    <3>3. CASE l # 0
      <4>1. 1 \in 1 .. l /\ i # n
        BY <2>2, <3>3
      <4>2. w[k + 1] = t[1]
        BY <1>7, <4>1
      <4> QED BY <1>5, <2>2, <3>1, <3>3, <4>1, <4>2
    <3> QED BY <3>2, <3>3
  <2>3. CASE i - k \in 1 .. l /\ i = k + (i - k)
    <3> DEFINE j == i - k
    <3>1. j \in 1 .. l /\ w[i] = t[j]
      BY <1>7, <2>3
    <3>2. new[t[j]] = IF j = l THEN 0 ELSE t[j + 1]
      BY <1>5, <3>1 DEF Links
    <3>3. (j = l) = (i = n)
      OBVIOUS
    <3>4. j # l => j + 1 \in 1 .. l /\ k + (j + 1) = i + 1
      BY <3>1
    <3>5. j # l => w[i + 1] = t[j + 1]
      BY <1>7, <3>4
    <3> QED BY <3>1, <3>2, <3>3, <3>5
  <2> QED BY <1>7, <2>1, <2>2, <2>3
<1>12. Links(w, n, new, U \cup V)
  BY <1>9, <1>10, <1>11 DEF Links
<1>13. w[1] = head /\ w[n] = IF first = 0 THEN b ELSE tail
  <2>1. 1 \in 1 .. k /\ k \in 1 .. k
    BY <1>4
  <2>2. CASE l = 0
    BY <1>4, <1>6, <1>7, <2>1, <2>2
  <2>3. CASE l # 0
    <3>1. l \in 1 .. l
      BY <2>3
    <3> QED BY <1>4, <1>5, <1>6, <1>7, <2>1, <2>3, <3>1
  <2> QED BY <2>2, <2>3
<1>14. ChainIs(w, n, new, U \cup V, head, IF first = 0 THEN b ELSE tail)
  BY ONLY <1>7, <1>12, <1>13 DEF ChainIs
<1>15. n \in Nat
  BY <1>7
<1> HIDE DEF n
<1> QED BY ONLY <1>8, <1>14, <1>15 DEF Chained

(* A chain is determined by its ends. *)
LEMMA ChainedUnique ==
  ASSUME NEW M \in Nat, NEW link \in [1 .. M -> 0 .. M], NEW S \in SUBSET (1 .. M),
         NEW T \in SUBSET (1 .. M), NEW head, NEW tail,
         Chained(link, S, head, tail), Chained(link, T, head, tail)
  PROVE  S = T
<1>1. PICK f : IsWalk(f, M, link, 0)
  BY WalkExists
<1> QED BY <1>1, WalkChain

=============================================================================
