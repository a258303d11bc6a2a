------------------------------ MODULE ListProofs ------------------------------
(***************************************************************************)
(* Lemmas about induction over the natural numbers, about recursive        *)
(* functions over them, and about the walks that After makes through the   *)
(* lists of IntrusiveList.                                                 *)
(*                                                                         *)
(* Induction is stated with a set in place of a predicate: a proof by      *)
(* induction of P for every n takes {n \in Nat : P(n)}.                    *)
(***************************************************************************)
EXTENDS IntrusiveList, Sequences, FiniteSetTheorems, TLAPS

\* Every set of natural numbers has a least element.
LEMMA LeastNat ==
    ASSUME NEW T \in SUBSET Nat, T # {}
    PROVE  \E x \in T : \A y \in T : x <= y
<1>1. IsWellFoundedOn(OpToRel(<, Nat), Nat)
  BY NatLessThanWellFounded
<1>2. PICK x \in T : \A y \in T : ~ (<<y, x>> \in OpToRel(<, Nat))
  BY <1>1, WFMin
<1>3. \A y \in T : ~ (y < x)
  BY <1>2 DEF OpToRel
<1>. QED BY <1>3

\* Induction: a set of natural numbers with 0 and every successor has all.
LEMMA NatInd ==
    ASSUME NEW T \in SUBSET Nat, 0 \in T, \A n \in T : n + 1 \in T
    PROVE  \A n \in Nat : n \in T
<1>. SUFFICES ASSUME Nat \ T # {} PROVE FALSE
  OBVIOUS
<1>1. PICK x \in Nat \ T : \A y \in Nat \ T : x <= y
  BY LeastNat
<1>2. x - 1 \in T
  BY <1>1
<1>. QED BY <1>1, <1>2

----------------------------------------------------------------------------
\* f is where size steps along the pointers g lead to, from n.
Steps(f, Node, g, n, size) ==
    /\ f \in [0 .. size -> Node]
    /\ f[0] = n
    /\ \A k \in 1 .. size : f[k] = g[f[k - 1]]

\* A pointer field can be followed any number of times.
LEMMA StepsExist ==
    ASSUME NEW Node, NEW g \in [Node -> Node], NEW n \in Node, NEW size \in Nat
    PROVE  \E f : Steps(f, Node, g, n, size)
<1>. DEFINE T == {m \in Nat : \E f : Steps(f, Node, g, n, m)}
<1>1. 0 \in T
  <2>. DEFINE f == [k \in 0 .. 0 |-> n]
  <2>1. Steps(f, Node, g, n, 0)
    BY DEF Steps
  <2>. QED BY <2>1
<1>2. ASSUME NEW m \in T PROVE m + 1 \in T
  <2>1. PICK f : Steps(f, Node, g, n, m)
    BY <1>2
  <2>. DEFINE h == [k \in 0 .. m + 1 |-> IF k = m + 1 THEN g[f[m]] ELSE f[k]]
  <2>2. m \in Nat
    BY <1>2
  <2>3. h \in [0 .. m + 1 -> Node]
    BY <2>1, <2>2 DEF Steps
  <2>4. h[0] = n
    BY <2>1, <2>2 DEF Steps
  <2>5. ASSUME NEW k \in 1 .. m + 1 PROVE h[k] = g[h[k - 1]]
    BY <2>1, <2>2 DEF Steps
  <2>. HIDE DEF h
  <2>6. Steps(h, Node, g, n, m + 1)
    BY <2>3, <2>4, <2>5 DEF Steps
  <2>. QED BY <2>2, <2>6
<1>. HIDE DEF T
<1>3. T \in SUBSET Nat
  BY DEF T
<1>4. size \in T
  BY <1>1, <1>2, <1>3, NatInd
<1>. QED BY <1>4 DEF T

\* After lists the first len nodes of w, which leads from n along l_next.
WalkedBy(l, Node, n, w, len) ==
    /\ Steps(w, Node, l.l_next, n, Cardinality(Node))
    /\ len \in 0 .. Cardinality(Node)
    /\ \A k \in 1 .. len : w[k] # n
    /\ len < Cardinality(Node) => w[len + 1] = n
    /\ After(l, Node, n) = [k \in 1 .. len |-> w[k]]

\* After lists the nodes met on the way from n, up to the return to n or, if
\* there is none, for as many steps as there are nodes.
LEMMA AfterDef ==
    ASSUME NEW Node, IsFiniteSet(Node), NEW l, l.l_next \in [Node -> Node],
           NEW n \in Node
    PROVE  \E w, len : WalkedBy(l, Node, n, w, len)
<1>. DEFINE size == Cardinality(Node)
            Eq(f) == f = [k \in 0 .. size |->
                            IF k = 0 THEN n ELSE l.l_next[f[k - 1]]]
            w == CHOOSE f : Eq(f)
            back == {k \in 1 .. size : w[k] = n}
            len == IF back = {} THEN size
                   ELSE (CHOOSE k \in back : \A j \in back : k <= j) - 1
<1>1. size \in Nat
  BY FS_CardinalityType
<1>2. \E f : Eq(f)
  <2>. DEFINE g == l.l_next
  <2>1. g \in [Node -> Node]
    OBVIOUS
  <2>. HIDE DEF g, size
  <2>2. PICK f : Steps(f, Node, g, n, size)
    BY <1>1, <2>1, StepsExist
  <2>3. Eq(f)
    BY <1>1, <2>2 DEF g, Steps
  <2>. QED BY <2>3
<1>3. Eq(w)
  <2>. HIDE DEF Eq
  <2>. QED BY <1>2
<1>4. After(l, Node, n) = [k \in 1 .. len |-> w[k]]
  BY DEF After
<1>. HIDE DEF w, size
<1>5. w[0] = n /\ \A k \in 1 .. size : w[k] = l.l_next[w[k - 1]]
  BY <1>1, <1>3
<1>6. w \in [0 .. size -> Node]
  <2>. DEFINE T == {k \in Nat : k <= size => w[k] \in Node}
  <2>1. 0 \in T
    BY <1>5
  <2>2. ASSUME NEW k \in T PROVE k + 1 \in T
    BY <1>1, <1>5
  <2>. HIDE DEF T
  <2>3. \A k \in Nat : k \in T
    BY <2>1, <2>2, NatInd DEF T
  <2>4. \A k \in 0 .. size : w[k] \in Node
    BY <1>1, <2>3 DEF T
  <2>. QED BY <1>3, <2>4
<1>7. /\ len \in 0 .. size
      /\ \A k \in 1 .. len : w[k] # n
      /\ len < size => w[len + 1] = n
  <2>1. CASE back = {}
    BY <1>1, <2>1
  <2>2. CASE back # {}
    <3>0. back \in SUBSET Nat
      BY <1>1
    <3>1. \E k \in back : \A j \in back : k <= j
      <4>. HIDE DEF back
      <4>. QED BY <2>2, <3>0, LeastNat
    <3>. DEFINE k == CHOOSE i \in back : \A j \in back : i <= j
    <3>2. k \in back /\ \A j \in back : k <= j
      BY <3>1
    <3>3. len = k - 1
      BY <2>2
    <3>. HIDE DEF k, len
    <3>. QED BY <1>1, <3>2, <3>3
  <2>. QED BY <2>1, <2>2
<1>. HIDE DEF len
<1>8. WalkedBy(l, Node, n, w, len)
  BY <1>4, <1>5, <1>6, <1>7 DEF size, WalkedBy, Steps
<1>. QED BY <1>8

(***************************************************************************)
(* a is what a walk from n along l_next meets before it is at n again.     *)
(***************************************************************************)
IsWalk(l, a, n) ==
    /\ \A k \in DOMAIN a : a[k] = l.l_next[IF k = 1 THEN n ELSE a[k - 1]]
    /\ l.l_next[IF Len(a) = 0 THEN n ELSE a[Len(a)]] = n
    /\ \A k \in DOMAIN a : a[k] # n
    /\ \A j, k \in DOMAIN a : a[j] = a[k] => j = k

\* Where no two pointers lead to the same node, After is the walk, and it
\* leaves out at least n itself.
LEMMA AfterIsWalk ==
    ASSUME NEW Node, IsFiniteSet(Node), NEW l, l.l_next \in [Node -> Node],
           NEW C \in SUBSET Node, NEW n \in C,
           \A x \in C : l.l_next[x] \in C,
           \A x, y \in C : l.l_next[x] = l.l_next[y] => x = y
    PROVE  /\ After(l, Node, n) \in Seq(C)
           /\ Len(After(l, Node, n)) < Cardinality(Node)
           /\ IsWalk(l, After(l, Node, n), n)
<1>. DEFINE size == Cardinality(Node)
<1>0. PICK w, len : WalkedBy(l, Node, n, w, len)
  BY AfterDef
<1>1. /\ w \in [0 .. size -> Node] /\ len \in 0 .. size
      /\ w[0] = n
      /\ \A k \in 1 .. size : w[k] = l.l_next[w[k - 1]]
      /\ \A k \in 1 .. len : w[k] # n
      /\ len < size => w[len + 1] = n
      /\ After(l, Node, n) = [k \in 1 .. len |-> w[k]]
  BY <1>0 DEF WalkedBy, Steps
<1>2. size \in Nat
  BY FS_CardinalityType
<1>. HIDE DEF size
<1>3. \A k \in 0 .. size : w[k] \in C
  <2>. DEFINE T == {k \in Nat : k <= size => w[k] \in C}
  <2>1. 0 \in T
    BY <1>1
  <2>2. ASSUME NEW k \in T PROVE k + 1 \in T
    BY <1>1, <1>2
  <2>. HIDE DEF T
  <2>3. \A k \in Nat : k \in T
    BY <2>1, <2>2, NatInd DEF T
  <2>. QED BY <1>2, <2>3 DEF T
<1>4. \A i, j \in 0 .. len : w[i] = w[j] => i = j
  <2>. DEFINE T == {i \in Nat : i < len /\ \E j \in i + 1 .. len : w[i] = w[j]}
  <2>. SUFFICES ASSUME T # {} PROVE FALSE
    <3>1. ASSUME NEW i \in 0 .. len, NEW j \in 0 .. len, w[i] = w[j], i < j
          PROVE  i \in T
      BY <1>1, <1>2, <3>1
    <3>2. T = {} => \A i, j \in 0 .. len : w[i] = w[j] => i = j
      <4>. HIDE DEF T
      <4>. QED BY <1>1, <1>2, <3>1
    <3>. QED BY <3>2
  <2>1. PICK i \in T : \A k \in T : i <= k
    BY LeastNat
  <2>2. PICK j \in i + 1 .. len : w[i] = w[j]
    OBVIOUS
  <2>3. CASE i = 0
    BY <1>1, <1>2, <2>2, <2>3
  <2>4. CASE i > 0
    <3>1. i - 1 \in 0 .. size /\ j - 1 \in 0 .. size /\ i \in 1 .. size /\ j \in 1 .. size
      BY <1>1, <1>2, <2>2, <2>4
    <3>2. w[i - 1] = w[j - 1]
      BY <1>1, <1>3, <2>2, <3>1
    <3>3. i - 1 \in T
      BY <1>1, <1>2, <2>2, <2>4, <3>1, <3>2
    <3>. QED BY <2>1, <2>4, <3>3
  <2>. QED BY <2>3, <2>4
<1>5. len < size
  <2>. SUFFICES ASSUME len = size PROVE FALSE
    BY <1>1, <1>2
  <2>1. IsFiniteSet(0 .. size) /\ Cardinality(0 .. size) = size + 1
    BY <1>2, FS_Interval
  <2>2. Cardinality(Node) < Cardinality(0 .. size)
    BY <1>2, <2>1 DEF size
  <2>3. w \in [0 .. size -> Node]
    BY <1>1
  <2>4. \E x, y \in 0 .. size : x # y /\ w[x] = w[y]
    BY ONLY IsFiniteSet(Node), <2>1, <2>2, <2>3, FS_PigeonHole, Zenon
  <2>. QED BY <1>4, <2>4
<1>. DEFINE a == [k \in 1 .. len |-> w[k]]
<1>6. len \in Nat
  BY <1>1, <1>2
<1>7. a \in Seq(C) /\ Len(a) = len /\ DOMAIN a = 1 .. len
  <2>1. a \in [1 .. len -> C]
    BY <1>1, <1>2, <1>3, <1>6
  <2>. QED BY <1>6, <2>1
<1>8. IsWalk(l, a, n)
  <2>1. \A k \in 1 .. len : a[k] = w[k]
    OBVIOUS
  <2>. HIDE DEF a
  <2>2. ASSUME NEW k \in 1 .. len
        PROVE  a[k] = l.l_next[IF k = 1 THEN n ELSE a[k - 1]]
    BY <1>1, <1>2, <1>6, <2>1
  <2>3. l.l_next[IF len = 0 THEN n ELSE a[len]] = n
    <3>1. w[len + 1] = l.l_next[w[len]] /\ w[len + 1] = n
      <4>1. len + 1 \in 1 .. size /\ (len + 1) - 1 = len
        BY <1>2, <1>5, <1>6
      <4>. QED BY <1>1, <1>5, <4>1
    <3>2. w[len] = IF len = 0 THEN n ELSE a[len]
      BY <1>1, <1>6, <2>1
    <3>. QED BY <3>1, <3>2
  <2>4. \A k \in 1 .. len : a[k] # n
    BY <1>1, <2>1
  <2>5. \A j, k \in 1 .. len : a[j] = a[k] => j = k
    BY <1>4, <1>6, <2>1
  <2>. QED BY <1>7, <2>2, <2>3, <2>4, <2>5 DEF IsWalk
<1>. QED BY <1>1, <1>5, <1>7, <1>8 DEF size

\* Everything a walk meets is in every set that n is in and that no pointer
\* leaves.
LEMMA WalkLeast ==
    ASSUME NEW S, NEW a \in Seq(S), NEW l, NEW n, IsWalk(l, a, n),
           NEW Z, n \in Z, \A x \in Z : l.l_next[x] \in Z
    PROVE  \A k \in DOMAIN a : a[k] \in Z
<1>. DEFINE T == {k \in Nat : k \in 1 .. Len(a) => a[k] \in Z}
<1>1. 0 \in T
  OBVIOUS
<1>2. ASSUME NEW k \in T PROVE k + 1 \in T
  <2>. SUFFICES ASSUME k + 1 \in 1 .. Len(a) PROVE a[k + 1] \in Z
    OBVIOUS
  <2>1. a[k + 1] = l.l_next[IF k = 0 THEN n ELSE a[k]]
    <3>1. k + 1 \in DOMAIN a /\ (k + 1) - 1 = k /\ (k + 1 = 1 <=> k = 0)
      OBVIOUS
    <3>. QED BY <3>1 DEF IsWalk
  <2>2. k # 0 => k \in 1 .. Len(a)
    OBVIOUS
  <2>. QED BY <2>1, <2>2
<1>. HIDE DEF T
<1>3. \A k \in Nat : k \in T
  BY <1>1, <1>2, NatInd DEF T
<1>. QED BY <1>3 DEF T

\* The walk with its start is such a set.
LEMMA WalkClosed ==
    ASSUME NEW S, NEW a \in Seq(S), NEW l, NEW n, IsWalk(l, a, n),
           NEW x \in {n} \cup {a[k] : k \in DOMAIN a}
    PROVE  l.l_next[x] \in {n} \cup {a[k] : k \in DOMAIN a}
<1>0. Len(a) \in Nat /\ DOMAIN a = 1 .. Len(a)
  OBVIOUS
<1>1. CASE x = n
  <2>1. CASE Len(a) = 0
    BY <1>1, <2>1 DEF IsWalk
  <2>2. CASE Len(a) # 0
    <3>1. 1 \in DOMAIN a
      BY <1>0, <2>2
    <3>2. a[1] = l.l_next[n]
      BY <3>1 DEF IsWalk
    <3>. QED BY <1>1, <3>1, <3>2
  <2>. QED BY <2>1, <2>2
<1>2. ASSUME NEW k \in DOMAIN a, x = a[k]
      PROVE  l.l_next[x] \in {n} \cup {a[j] : j \in DOMAIN a}
  <2>1. CASE k = Len(a)
    BY <1>0, <1>2, <2>1 DEF IsWalk
  <2>2. CASE k # Len(a)
    <3>1. k + 1 \in DOMAIN a /\ k + 1 # 1 /\ (k + 1) - 1 = k
      BY <1>0, <2>2
    <3>2. a[k + 1] = l.l_next[a[k]]
      BY <3>1 DEF IsWalk
    <3>. QED BY <1>2, <3>1, <3>2
  <2>. QED BY <2>1, <2>2
<1>. QED BY <1>1, <1>2

\* There is only one walk from n.
LEMMA WalkUnique ==
    ASSUME NEW S, NEW a \in Seq(S), NEW b \in Seq(S), NEW l, NEW n,
           IsWalk(l, a, n), IsWalk(l, b, n)
    PROVE  a = b
<1>. DEFINE T == {k \in Nat : k \in 1 .. Len(a) /\ k \in 1 .. Len(b) => a[k] = b[k]}
<1>0. /\ Len(a) \in Nat /\ DOMAIN a = 1 .. Len(a)
      /\ Len(b) \in Nat /\ DOMAIN b = 1 .. Len(b)
  OBVIOUS
<1>1. 0 \in T
  OBVIOUS
<1>2. ASSUME NEW k \in T PROVE k + 1 \in T
  <2>. SUFFICES ASSUME k + 1 \in 1 .. Len(a), k + 1 \in 1 .. Len(b)
                PROVE  a[k + 1] = b[k + 1]
    OBVIOUS
  <2>1. /\ k + 1 \in DOMAIN a /\ k + 1 \in DOMAIN b
        /\ (k + 1) - 1 = k /\ (k + 1 = 1 <=> k = 0)
    BY <1>0
  <2>2. a[k + 1] = l.l_next[IF k = 0 THEN n ELSE a[k]]
    BY <2>1 DEF IsWalk
  <2>3. b[k + 1] = l.l_next[IF k = 0 THEN n ELSE b[k]]
    BY <2>1 DEF IsWalk
  <2>4. k # 0 => k \in 1 .. Len(a) /\ k \in 1 .. Len(b)
    BY <1>0
  <2>. QED BY <2>2, <2>3, <2>4
<1>. HIDE DEF T
<1>3. \A k \in Nat : k \in T
  BY <1>1, <1>2, NatInd DEF T
<1>4. \A k \in 1 .. Len(a) : k \in 1 .. Len(b) => a[k] = b[k]
  BY <1>0, <1>3 DEF T
<1>5. ~(Len(a) < Len(b))
  <2>. SUFFICES ASSUME Len(a) < Len(b) PROVE FALSE
    OBVIOUS
  <2>1. Len(a) + 1 \in DOMAIN b /\ (Len(a) + 1) - 1 = Len(a)
    BY <1>0
  <2>2. b[Len(a) + 1] = l.l_next[IF Len(a) = 0 THEN n ELSE b[Len(a)]]
    <3>1. Len(a) + 1 = 1 <=> Len(a) = 0
      BY <1>0
    <3>. QED BY <2>1, <3>1 DEF IsWalk
  <2>3. Len(a) # 0 => a[Len(a)] = b[Len(a)]
    BY <1>0, <1>4
  <2>4. b[Len(a) + 1] = n
    BY <2>2, <2>3 DEF IsWalk
  <2>. QED BY <2>1, <2>4 DEF IsWalk
<1>6. ~(Len(b) < Len(a))
  <2>. SUFFICES ASSUME Len(b) < Len(a) PROVE FALSE
    OBVIOUS
  <2>1. Len(b) + 1 \in DOMAIN a /\ (Len(b) + 1) - 1 = Len(b)
    BY <1>0
  <2>2. a[Len(b) + 1] = l.l_next[IF Len(b) = 0 THEN n ELSE a[Len(b)]]
    <3>1. Len(b) + 1 = 1 <=> Len(b) = 0
      BY <1>0
    <3>. QED BY <2>1, <3>1 DEF IsWalk
  <2>3. Len(b) # 0 => a[Len(b)] = b[Len(b)]
    BY <1>0, <1>4
  <2>4. a[Len(b) + 1] = n
    BY <2>2, <2>3 DEF IsWalk
  <2>. QED BY <2>1, <2>4 DEF IsWalk
<1>7. Len(a) = Len(b)
  <2>1. \A i, j \in Nat : ~(i < j) /\ ~(j < i) => i = j
    OBVIOUS
  <2>. QED BY <1>0, <1>5, <1>6, <2>1
<1>. QED BY <1>0, <1>4, <1>7

----------------------------------------------------------------------------
\* A walk is a walk in every heap with the same pointers along it.
LEMMA WalkSame ==
    ASSUME NEW S, NEW a \in Seq(S), NEW l, NEW n, IsWalk(l, a, n), NEW l2,
           \A x \in {n} \cup {a[k] : k \in DOMAIN a} :
                l2.l_next[x] = l.l_next[x]
    PROVE  IsWalk(l2, a, n)
<1>0. Len(a) \in Nat /\ DOMAIN a = 1 .. Len(a)
  OBVIOUS
<1>1. ASSUME NEW k \in DOMAIN a
      PROVE  a[k] = l2.l_next[IF k = 1 THEN n ELSE a[k - 1]]
  <2>1. a[k] = l.l_next[IF k = 1 THEN n ELSE a[k - 1]]
    BY DEF IsWalk
  <2>2. k # 1 => k - 1 \in DOMAIN a
    BY <1>0
  <2>. QED BY <2>1, <2>2
<1>2. l2.l_next[IF Len(a) = 0 THEN n ELSE a[Len(a)]] = n
  <2>1. Len(a) # 0 => Len(a) \in DOMAIN a
    BY <1>0
  <2>. QED BY <2>1 DEF IsWalk
<1>. QED BY <1>1, <1>2 DEF IsWalk

\* A node put between the last node and the start is met last.
LEMMA WalkAppend ==
    ASSUME NEW S, NEW a \in Seq(S), NEW l, NEW n, IsWalk(l, a, n), NEW l2,
           NEW t \in S, t # n, \A k \in DOMAIN a : a[k] # t,
           NEW p, p = IF Len(a) = 0 THEN n ELSE a[Len(a)],
           l2.l_next[p] = t, l2.l_next[t] = n,
           \A x \in {n} \cup {a[k] : k \in DOMAIN a} :
                x # p => l2.l_next[x] = l.l_next[x]
    PROVE  IsWalk(l2, Append(a, t), n)
<1>. DEFINE b == Append(a, t)
<1>0. Len(a) \in Nat /\ DOMAIN a = 1 .. Len(a)
  OBVIOUS
<1>1. /\ Len(b) = Len(a) + 1 /\ DOMAIN b = 1 .. Len(a) + 1
      /\ b[Len(a) + 1] = t /\ \A k \in 1 .. Len(a) : b[k] = a[k]
  BY <1>0
<1>. HIDE DEF b
<1>2. ASSUME NEW k \in DOMAIN b
      PROVE  b[k] = l2.l_next[IF k = 1 THEN n ELSE b[k - 1]]
  <2>1. CASE k = Len(a) + 1
    <3>1. (IF k = 1 THEN n ELSE b[k - 1]) = p
      BY <1>0, <1>1, <2>1
    <3>. QED BY <1>1, <2>1, <3>1
  <2>2. CASE k # Len(a) + 1
    <3>1. k \in 1 .. Len(a) /\ k - 1 # Len(a)
      BY <1>0, <1>1, <2>2
    <3>2. b[k] = l.l_next[IF k = 1 THEN n ELSE a[k - 1]]
      BY <1>0, <1>1, <3>1 DEF IsWalk
    <3>3. CASE k = 1
      BY <1>0, <3>1, <3>2, <3>3 DEF IsWalk
    <3>4. CASE k # 1
      <4>1. k - 1 \in 1 .. Len(a) /\ Len(a) \in 1 .. Len(a)
        BY <1>0, <3>1, <3>4
      <4>2. a[k - 1] # a[Len(a)]
        BY <1>0, <3>1, <4>1 DEF IsWalk
      <4>3. a[k - 1] # p
        BY <4>1, <4>2
      <4>. QED BY <1>0, <1>1, <3>2, <3>4, <4>1, <4>3
    <3>. QED BY <3>3, <3>4
  <2>. QED BY <2>1, <2>2
<1>3. l2.l_next[IF Len(b) = 0 THEN n ELSE b[Len(b)]] = n
  BY <1>0, <1>1
<1>4. \A k \in DOMAIN b : b[k] # n
  BY <1>0, <1>1 DEF IsWalk
<1>5. \A j, k \in DOMAIN b : b[j] = b[k] => j = k
  BY <1>0, <1>1 DEF IsWalk
<1>. QED BY <1>2, <1>3, <1>4, <1>5 DEF IsWalk, b

\* Without its first node a walk goes on as before.
LEMMA WalkTail ==
    ASSUME NEW S, NEW a \in Seq(S), NEW l, NEW n, IsWalk(l, a, n), NEW l2,
           a # <<>>, l2.l_next[n] = l.l_next[a[1]],
           \A x \in {a[k] : k \in DOMAIN a} :
                x # a[1] => l2.l_next[x] = l.l_next[x]
    PROVE  IsWalk(l2, Tail(a), n)
<1>. DEFINE b == Tail(a)
<1>0. Len(a) \in Nat \ {0} /\ DOMAIN a = 1 .. Len(a)
  OBVIOUS
<1>1. /\ Len(b) = Len(a) - 1 /\ DOMAIN b = 1 .. Len(a) - 1
      /\ \A k \in 1 .. Len(a) - 1 : b[k] = a[k + 1]
  BY <1>0
<1>. HIDE DEF b
<1>2. ASSUME NEW k \in DOMAIN b
      PROVE  b[k] = l2.l_next[IF k = 1 THEN n ELSE b[k - 1]]
  <2>1. /\ k \in 1 .. Len(a) /\ k + 1 \in 1 .. Len(a) /\ k + 1 # 1
        /\ (k + 1) - 1 = k
    BY <1>0, <1>1
  <2>2. b[k] = l.l_next[a[k]]
    BY <1>0, <1>1, <2>1 DEF IsWalk
  <2>3. CASE k = 1
    BY <2>2, <2>3
  <2>4. CASE k # 1
    <3>1. b[k - 1] = a[k]
      <4>1. k - 1 \in 1 .. Len(a) - 1 /\ (k - 1) + 1 = k
        BY <1>0, <1>1, <2>4
      <4>. QED BY <1>1, <4>1
    <3>2. a[k] # a[1]
      BY <1>0, <2>1, <2>4 DEF IsWalk
    <3>. QED BY <1>0, <2>1, <2>2, <2>4, <3>1, <3>2
  <2>. QED BY <2>3, <2>4
<1>3. l2.l_next[IF Len(b) = 0 THEN n ELSE b[Len(b)]] = n
  <2>0. l.l_next[a[Len(a)]] = n
    BY <1>0 DEF IsWalk
  <2>1. CASE Len(a) = 1
    BY <1>0, <1>1, <2>0, <2>1
  <2>2. CASE Len(a) # 1
    <3>1. Len(b) \in 1 .. Len(a) - 1 /\ Len(b) + 1 = Len(a) /\ Len(b) # 0
      BY <1>0, <1>1, <2>2
    <3>2. b[Len(b)] = a[Len(a)]
      BY <1>1, <3>1
    <3>3. a[Len(a)] # a[1]
      BY <1>0, <2>2 DEF IsWalk
    <3>4. Len(a) \in DOMAIN a
      BY <1>0
    <3>. QED BY <2>0, <3>1, <3>2, <3>3, <3>4
  <2>. QED BY <2>1, <2>2
<1>4. \A k \in DOMAIN b : b[k] # n
  BY <1>0, <1>1 DEF IsWalk
<1>5. ASSUME NEW j \in DOMAIN b, NEW k \in DOMAIN b, b[j] = b[k] PROVE j = k
  <2>1. j + 1 \in 1 .. Len(a) /\ k + 1 \in 1 .. Len(a)
    BY <1>0, <1>1
  <2>2. j + 1 = k + 1
    BY <1>0, <1>1, <1>5, <2>1 DEF IsWalk
  <2>. QED BY <1>1, <2>2
<1>. QED BY <1>2, <1>3, <1>4, <1>5 DEF IsWalk, b

----------------------------------------------------------------------------
\* From h, the pointers lead to x: x is in every set of nodes that h is in and
\* that no pointer leaves.
Reaches(l, Node, h, x) ==
    \A Z \in SUBSET Node :
        h \in Z /\ (\A y \in Z : l.l_next[y] \in Z) => x \in Z

\* A walk meets what can be reached, and nothing else.
LEMMA WalkReaches ==
    ASSUME NEW Node, NEW a \in Seq(Node), NEW l, NEW n \in Node,
           IsWalk(l, a, n), NEW x
    PROVE  Reaches(l, Node, n, x) <=> x \in {n} \cup {a[k] : k \in DOMAIN a}
<1>. DEFINE W == {n} \cup {a[k] : k \in DOMAIN a}
<1>1. W \in SUBSET Node /\ n \in W
  OBVIOUS
<1>2. \A y \in W : l.l_next[y] \in W
  BY WalkClosed
<1>3. Reaches(l, Node, n, x) => x \in W
  <2>. HIDE DEF W
  <2>. QED BY <1>1, <1>2 DEF Reaches
<1>4. ASSUME x \in W PROVE Reaches(l, Node, n, x)
  <2>. SUFFICES ASSUME NEW Z \in SUBSET Node, n \in Z,
                       \A y \in Z : l.l_next[y] \in Z
                PROVE  x \in Z
    BY DEF Reaches
  <2>1. \A k \in DOMAIN a : a[k] \in Z
    BY WalkLeast
  <2>. QED BY <1>4, <2>1
<1>. QED BY <1>3, <1>4

\* In a well linked heap After is a walk.
LEMMA LinkedWalk ==
    ASSUME NEW Node, IsFiniteSet(Node), NEW l \in Heap(Node),
           Linked(l, Node), NEW n \in Node
    PROVE  After(l, Node, n) \in Seq(Node) /\ IsWalk(l, After(l, Node, n), n)
<1>1. /\ l.l_next \in [Node -> Node]
      /\ \A x \in Node : l.l_next[x] \in Node
      /\ \A x, y \in Node : l.l_next[x] = l.l_next[y] => x = y
  BY DEF Heap, Linked
<1>2. Node \in SUBSET Node
  OBVIOUS
<1>. QED BY <1>1, <1>2, AfterIsWalk

\* A lonely node put behind self can be reached from where self can, and
\* nothing becomes unreachable.
LEMMA InsertReaches ==
    ASSUME NEW Node, NEW l \in Heap(Node), Linked(l, Node),
           NEW self \in Node, NEW t \in Node, lonely(l, t), self # t,
           NEW h \in Node, h # t, NEW x \in Node, Reaches(l, Node, h, x)
    PROVE  /\ Reaches(add_after_self(l, self, t), Node, h, x)
           /\ x = self => Reaches(add_after_self(l, self, t), Node, h, t)
<1>. DEFINE m == add_after_self(l, self, t)
<1>1. /\ m.l_next[self] = t /\ m.l_next[t] = l.l_next[self]
      /\ \A y \in Node : y \notin {self, t} => m.l_next[y] = l.l_next[y]
      /\ \A y \in Node : y # t => l.l_next[y] # t
      /\ \A y \in Node : l.l_next[y] \in Node
  BY DEF add_after_self, Heap, Linked, lonely
<1>. HIDE DEF m
<1>2. ASSUME NEW Z \in SUBSET Node, h \in Z, \A y \in Z : m.l_next[y] \in Z
      PROVE  x \in Z /\ (x = self => t \in Z)
  <2>. DEFINE Y == Z \ {t}
  <2>1. Y \in SUBSET Node /\ h \in Y
    BY <1>2
  <2>2. ASSUME NEW y \in Y PROVE l.l_next[y] \in Y
    BY <1>1, <1>2
  <2>. HIDE DEF Y
  <2>3. x \in Y
    BY <2>1, <2>2 DEF Reaches
  <2>. QED BY <1>1, <1>2, <2>3 DEF Y
<1>. QED BY <1>2 DEF Reaches, m

\* When a node is unlinked the others can still be reached.
LEMMA UnlinkReaches ==
    ASSUME NEW Node, NEW l \in Heap(Node), Linked(l, Node),
           NEW t \in Node, NEW h \in Node, h # t,
           NEW x \in Node, x # t, Reaches(l, Node, h, x)
    PROVE  Reaches(unlink(l, t), Node, h, x)
<1>. DEFINE m == unlink(l, t)
            p == l.l_prev[t]
<1>1. /\ p \in Node /\ l.l_next[p] = t
      /\ \A y \in Node : l.l_next[y] = t => y = p
      /\ m.l_next[t] = t
      /\ p # t => m.l_next[p] = l.l_next[t]
      /\ \A y \in Node : y \notin {p, t} => m.l_next[y] = l.l_next[y]
      /\ \A y \in Node : l.l_next[y] \in Node
  BY DEF unlink, Heap, Linked
<1>. HIDE DEF m, p
<1>2. ASSUME NEW Z \in SUBSET Node, h \in Z, \A y \in Z : m.l_next[y] \in Z
      PROVE  x \in Z
  <2>1. CASE p \in Z /\ p # t
    <3>. DEFINE Y == Z \cup {t}
    <3>1. Y \in SUBSET Node /\ h \in Y
      BY <1>2
    <3>2. \A y \in Y : l.l_next[y] \in Y
      BY <1>1, <1>2, <2>1
    <3>. HIDE DEF Y
    <3>3. x \in Y
      BY <3>1, <3>2 DEF Reaches
    <3>. QED BY <3>3 DEF Y
  <2>2. CASE p \notin Z \/ p = t
    <3>. DEFINE Y == Z \ {t}
    <3>1. Y \in SUBSET Node /\ h \in Y
      BY <1>2
    <3>2. \A y \in Y : l.l_next[y] \in Y
      BY <1>1, <1>2, <2>2
    <3>. HIDE DEF Y
    <3>3. x \in Y
      BY <3>1, <3>2 DEF Reaches
    <3>. QED BY <3>3 DEF Y
  <2>. QED BY <2>1, <2>2
<1>. QED BY <1>2 DEF Reaches, m

(***************************************************************************)
(* Lists that end with nil.  first is the head, g the next of every node.  *)
(***************************************************************************)

\* f is where size steps from the head lead to, and the end stays the end.
NilSteps(f, g, nil, first, size) ==
    f = [k \in 0 .. size |->
            IF k = 0 THEN first
            ELSE IF f[k - 1] = nil THEN nil ELSE g[f[k - 1]]]

\* The list is made of the nodes of R: it starts there, stays there, meets
\* nobody twice, and no part of R can be left out of it.
NilList(R, g, nil, first) ==
    /\ nil \notin R
    /\ first \in R \cup {nil}
    /\ \A x \in R : g[x] \in R \cup {nil}
    /\ \A x \in R : g[x] # nil => g[x] # first
    /\ \A x, y \in R : g[x] = g[y] /\ g[x] # nil => x = y
    /\ \A Z \in SUBSET R :
            /\ first \in Z \cup {nil}
            /\ \A x \in Z : g[x] \in Z \cup {nil}
            => Z = R

\* A list can be followed any number of times.
LEMMA NilStepsExist ==
    ASSUME NEW R, NEW g, NEW nil, NEW first, NilList(R, g, nil, first),
           NEW size \in Nat
    PROVE  \E f : NilSteps(f, g, nil, first, size)
<1>. DEFINE Node == R \cup {nil}
            h == [x \in Node |-> IF x = nil THEN nil ELSE g[x]]
<1>1. h \in [Node -> Node] /\ first \in Node
  BY DEF NilList
<1>. HIDE DEF Node, h
<1>2. PICK f : Steps(f, Node, h, first, size)
  BY <1>1, StepsExist
<1>3. /\ f \in [0 .. size -> Node] /\ f[0] = first
      /\ \A k \in 1 .. size : f[k] = h[f[k - 1]]
  BY <1>2 DEF Steps
<1>4. ASSUME NEW k \in 1 .. size
      PROVE  f[k] = IF f[k - 1] = nil THEN nil ELSE g[f[k - 1]]
  <2>1. f[k - 1] \in Node
    BY <1>3
  <2>. QED BY <1>3, <2>1 DEF h
<1>5. \A k \in 0 .. size :
        f[k] = IF k = 0 THEN first
               ELSE IF f[k - 1] = nil THEN nil ELSE g[f[k - 1]]
  BY <1>3, <1>4
<1>6. NilSteps(f, g, nil, first, size)
  BY <1>3, <1>5 DEF NilSteps
<1>. QED BY <1>6

\* Followed as often as it has nodes, a list has been at all of them, and at
\* none twice.
LEMMA NilListExact ==
    ASSUME NEW R, IsFiniteSet(R), NEW g, NEW nil, NEW first,
           NilList(R, g, nil, first),
           NEW size \in Nat, Cardinality(R) <= size,
           NEW f, NilSteps(f, g, nil, first, size)
    PROVE  /\ {f[k] : k \in 0 .. size} \ {nil} = R
           /\ \A j, k \in 0 .. size : f[j] = f[k] /\ f[j] # nil => j = k
<1>1. /\ f[0] = first
      /\ \A k \in 1 .. size :
            f[k] = IF f[k - 1] = nil THEN nil ELSE g[f[k - 1]]
  BY DEF NilSteps
<1>2. \A k \in 0 .. size : f[k] \in R \cup {nil}
  <2>. DEFINE T == {k \in Nat : k <= size => f[k] \in R \cup {nil}}
  <2>1. 0 \in T
    BY <1>1 DEF NilList
  <2>2. ASSUME NEW k \in T PROVE k + 1 \in T
    <3>. SUFFICES ASSUME k + 1 <= size PROVE f[k + 1] \in R \cup {nil}
      OBVIOUS
    <3>1. k + 1 \in 1 .. size /\ (k + 1) - 1 = k /\ f[k] \in R \cup {nil}
      BY <2>2
    <3>2. f[k + 1] = IF f[k] = nil THEN nil ELSE g[f[k]]
      BY <1>1, <3>1
    <3>. QED BY <3>1, <3>2 DEF NilList
  <2>. HIDE DEF T
  <2>3. \A k \in Nat : k \in T
    BY <2>1, <2>2, NatInd DEF T
  <2>. QED BY <2>3 DEF T
<1>3. \A j, k \in 0 .. size : f[j] = f[k] /\ f[j] # nil => j = k
  <2>. DEFINE T == {i \in Nat : /\ i < size /\ f[i] # nil
                                /\ \E j \in i + 1 .. size : f[i] = f[j]}
  <2>. SUFFICES ASSUME T # {} PROVE FALSE
    <3>1. ASSUME NEW i \in 0 .. size, NEW j \in 0 .. size,
                 f[i] = f[j], f[i] # nil, i < j
          PROVE  i \in T
      BY <3>1
    <3>2. T = {} => \A i, j \in 0 .. size : f[i] = f[j] /\ f[i] # nil => i = j
      <4>. HIDE DEF T
      <4>. QED BY <3>1
    <3>. QED BY <3>2
  <2>1. PICK i \in T : \A k \in T : i <= k
    <3>1. T \in SUBSET Nat
      OBVIOUS
    <3>. HIDE DEF T
    <3>. QED BY <3>1, LeastNat
  <2>2. PICK j \in i + 1 .. size : f[i] = f[j]
    OBVIOUS
  <2>3. /\ i \in Nat /\ i < size /\ j \in 1 .. size /\ j - 1 \in 0 .. size
        /\ i < j /\ f[j] # nil
    BY <2>2
  <2>4. f[j - 1] # nil /\ f[j] = g[f[j - 1]] /\ f[j - 1] \in R
    BY <1>1, <1>2, <2>3
  <2>5. CASE i = 0
    BY <1>1, <2>2, <2>3, <2>4, <2>5 DEF NilList
  <2>6. CASE i > 0
    <3>1. i - 1 \in Nat /\ i - 1 < size /\ i \in 1 .. size
          /\ i - 1 \in 0 .. size /\ j - 1 \in (i - 1) + 1 .. size
      BY <2>3, <2>6
    <3>2. f[i - 1] # nil /\ f[i] = g[f[i - 1]] /\ f[i - 1] \in R
      BY <1>1, <1>2, <2>2, <2>3, <3>1
    <3>3. f[i - 1] = f[j - 1]
      BY <2>2, <2>3, <2>4, <3>2 DEF NilList
    <3>4. i - 1 \in T
      BY <3>1, <3>2, <3>3
    <3>. QED BY <2>1, <2>3, <3>4
  <2>. QED BY <2>3, <2>5, <2>6
<1>4. f[size] = nil
  <2>. SUFFICES ASSUME f[size] # nil PROVE FALSE
    OBVIOUS
  <2>. DEFINE T == {i \in Nat : i <= size => f[size - i] \in R}
  <2>1. 0 \in T
    BY <1>2
  <2>2. ASSUME NEW i \in T PROVE i + 1 \in T
    <3>. SUFFICES ASSUME i + 1 <= size PROVE f[size - (i + 1)] \in R
      OBVIOUS
    <3>1. /\ i \in Nat /\ size - i \in 1 .. size
          /\ size - (i + 1) = (size - i) - 1
          /\ size - (i + 1) \in 0 .. size /\ f[size - i] \in R
      BY <2>2
    <3>2. f[size - (i + 1)] # nil
      BY <1>1, <3>1 DEF NilList
    <3>. QED BY <1>2, <3>1, <3>2
  <2>. HIDE DEF T
  <2>3. \A i \in Nat : i \in T
    BY <2>1, <2>2, NatInd DEF T
  <2>4. ASSUME NEW k \in 0 .. size PROVE f[k] \in R
    <3>1. size - k \in Nat /\ size - k <= size /\ size - (size - k) = k
      OBVIOUS
    <3>. QED BY <2>3, <3>1 DEF T
  <2>5. f \in [0 .. size -> R]
    BY <2>4 DEF NilSteps
  <2>6. IsFiniteSet(0 .. size) /\ Cardinality(0 .. size) = size + 1
    BY FS_Interval
  <2>7. Cardinality(R) \in Nat
    BY FS_CardinalityType
  <2>8. Cardinality(R) < Cardinality(0 .. size)
    BY <2>6, <2>7
  <2>9. \E x, y \in 0 .. size : x # y /\ f[x] = f[y]
    BY ONLY IsFiniteSet(R), <2>5, <2>6, <2>8, FS_PigeonHole, Zenon
  <2>. QED BY <1>3, <2>4, <2>9 DEF NilList
<1>. DEFINE Z == {f[k] : k \in 0 .. size} \ {nil}
<1>5. Z \in SUBSET R
  BY <1>2
<1>6. first \in Z \cup {nil}
  BY <1>1
<1>7. ASSUME NEW x \in Z PROVE g[x] \in Z \cup {nil}
  <2>1. PICK k \in 0 .. size : x = f[k]
    OBVIOUS
  <2>2. k < size
    BY <1>4, <2>1
  <2>3. k + 1 \in 1 .. size /\ (k + 1) - 1 = k /\ f[k] # nil
    BY <2>1, <2>2
  <2>4. f[k + 1] = g[x]
    BY <1>1, <2>1, <2>3
  <2>5. k + 1 \in 0 .. size
    BY <2>3
  <2>. QED BY <2>4, <2>5
<1>8. Z = R
  <2>. HIDE DEF Z
  <2>. QED BY <1>5, <1>6, <1>7 DEF NilList
<1>. QED BY <1>3, <1>8

(***************************************************************************)
(* Searching a circular list: f says for every node which node of M a loop *)
(* from there finds first, before it is back at n.                         *)
(***************************************************************************)
Search(f, l, Node, n, M, nil) ==
    f = [x \in Node |-> IF x \in M THEN x
                        ELSE IF l.l_next[x] = n THEN nil ELSE f[l.l_next[x]]]

\* Where the list of n has at most one node of M, and no other list with one
\* has a second node, the loop finds it or there is none.
LEMMA SearchFinds ==
    ASSUME NEW Node, IsFiniteSet(Node), NEW l \in Heap(Node), Linked(l, Node),
           NEW n \in Node, NEW nil, NEW M, NEW W,
           W = {x \in Node : Reaches(l, Node, n, x)},
           \A x, y \in W : x \in M /\ y \in M => x = y,
           \A x \in Node \ W : x \notin M => l.l_next[x] \notin M
    PROVE  /\ \E f : Search(f, l, Node, n, M, nil)
           /\ \A f : Search(f, l, Node, n, M, nil) =>
                IF W \cap M = {} THEN f[n] = nil ELSE f[n] \in W \cap M
<1>. DEFINE a == After(l, Node, n)
            b == [i \in 0 .. Len(a) |-> IF i = 0 THEN n ELSE a[i]]
<1>1. a \in Seq(Node) /\ IsWalk(l, a, n)
  BY LinkedWalk
<1>. HIDE DEF a
<1>. DEFINE len == Len(a)
<1>2. len \in Nat /\ DOMAIN a = 1 .. len
  BY <1>1
<1>3. W = {n} \cup {a[k] : k \in DOMAIN a}
  BY <1>1, WalkReaches
<1>4. W = {b[i] : i \in 0 .. len} /\ W \in SUBSET Node
  BY <1>1, <1>2, <1>3
<1>5. \A i, j \in 0 .. len : b[i] = b[j] => i = j
  BY <1>1, <1>2 DEF IsWalk
<1>6. /\ b[0] = n /\ l.l_next[b[len]] = n
      /\ \A i \in 0 .. len - 1 : l.l_next[b[i]] = b[i + 1]
  <2>1. l.l_next[b[len]] = n
    BY <1>1, <1>2 DEF IsWalk
  <2>2. ASSUME NEW i \in 0 .. len - 1 PROVE l.l_next[b[i]] = b[i + 1]
    <3>1. /\ i + 1 \in DOMAIN a /\ i + 1 # 0 /\ (i + 1) - 1 = i
          /\ i + 1 \in 0 .. len /\ i \in 0 .. len
          /\ (i + 1 = 1 <=> i = 0)
      BY <1>2
    <3>2. a[i + 1] = l.l_next[IF i + 1 = 1 THEN n ELSE a[(i + 1) - 1]]
      BY <1>1, <3>1 DEF IsWalk
    <3>. QED BY <3>1, <3>2
  <2>. QED BY <2>1, <2>2
<1>7. \A i \in 0 .. len : i < len <=> l.l_next[b[i]] # n
  <2>1. ASSUME NEW i \in 0 .. len, i < len PROVE l.l_next[b[i]] # n
    <3>1. i \in 0 .. len - 1 /\ i + 1 \in 0 .. len /\ i + 1 # 0 /\ 0 \in 0 .. len
      BY <1>2, <2>1
    <3>. QED BY <1>5, <1>6, <3>1
  <2>. QED BY <1>2, <1>6, <2>1
<1>. HIDE DEF b, len
<1>8. PICK p \in 0 .. len : IF W \cap M = {} THEN p = len ELSE b[p] \in M
  BY <1>2, <1>4
<1>9. \A i \in 0 .. len : i # p => b[i] \notin M
  BY <1>4, <1>5, <1>8
<1>10. ASSUME NEW x \in Node \ W PROVE l.l_next[x] \in Node \ W
  <2>1. /\ l.l_next[x] \in Node /\ l.l_prev[l.l_next[x]] = x
        /\ \A i \in 0 .. len : l.l_prev[l.l_next[b[i]]] = b[i]
    BY <1>4 DEF Heap, Linked
  <2>2. ASSUME NEW j \in 0 .. len, l.l_next[x] = b[j] PROVE FALSE
    <3>1. CASE j = 0
      <4>1. l.l_next[b[len]] = l.l_next[x] /\ len \in 0 .. len
        BY <1>2, <1>6, <2>2, <3>1
      <4>. QED BY <1>4, <2>1, <4>1
    <3>2. CASE j > 0
      <4>1. j - 1 \in 0 .. len - 1 /\ j - 1 \in 0 .. len /\ (j - 1) + 1 = j
        BY <1>2, <3>2
      <4>2. l.l_next[b[j - 1]] = l.l_next[x]
        BY <1>6, <2>2, <4>1
      <4>. QED BY <1>4, <2>1, <4>1, <4>2
    <3>. QED BY <1>2, <3>1, <3>2
  <2>. QED BY <1>4, <2>1, <2>2
<1>11. \E f : Search(f, l, Node, n, M, nil)
  <2>. DEFINE V == {b[i] : i \in 0 .. p}
              f == [x \in Node |->
                      IF x \notin W THEN IF x \in M THEN x ELSE nil
                      ELSE IF W \cap M # {} /\ x \in V THEN b[p] ELSE nil]
              r(x) == IF x \in M THEN x
                      ELSE IF l.l_next[x] = n THEN nil ELSE f[l.l_next[x]]
  <2>1. ASSUME NEW x \in Node \ W PROVE f[x] = r(x)
    BY <1>10
  <2>2. ASSUME NEW x \in W PROVE f[x] = r(x)
    <3>1. PICK i \in 0 .. len : x = b[i]
      BY <1>4
    <3>2. x \in V <=> i <= p
      BY <1>2, <1>5, <1>8, <3>1
    <3>3. CASE i = len
      <4>1. l.l_next[x] = n
        BY <1>6, <3>1, <3>3
      <4>2. CASE W \cap M = {}
        BY <4>1, <4>2, <1>4
      <4>3. CASE W \cap M # {} /\ i = p
        BY <4>1, <4>3, <1>4, <1>8, <3>1, <3>2
      <4>4. CASE W \cap M # {} /\ i # p
        BY <4>1, <4>4, <1>2, <1>4, <1>8, <1>9, <3>1, <3>2, <3>3
      <4>. QED BY <4>2, <4>3, <4>4
    <3>4. CASE i < len
      <4>1. i + 1 \in 0 .. len /\ i \in 0 .. len - 1
        BY <1>2, <3>4
      <4>2. l.l_next[x] = b[i + 1] /\ b[i + 1] \in W /\ l.l_next[x] # n
        BY <1>4, <1>6, <1>7, <3>1, <3>4, <4>1
      <4>3. b[i + 1] \in V <=> i + 1 <= p
        BY <1>2, <1>5, <1>8, <4>1
      <4>4. CASE W \cap M = {}
        BY <1>4, <4>2, <4>4
      <4>5. CASE W \cap M # {} /\ i = p
        BY <4>5, <1>4, <1>8, <3>1, <3>2
      <4>6. CASE W \cap M # {} /\ i # p
        <5>1. x \notin M
          BY <1>9, <3>1, <4>6
        <5>2. i <= p <=> i + 1 <= p
          BY <1>2, <1>8, <4>6
        <5>3. x \in Node /\ b[i + 1] \in Node
          BY <1>4, <4>2
        <5>. HIDE DEF V
        <5>. QED BY <5>1, <5>2, <5>3, <3>2, <4>2, <4>3, <4>6
      <4>. QED BY <4>4, <4>5, <4>6
    <3>. QED BY <1>2, <3>3, <3>4
  <2>3. f = [x \in Node |-> r(x)]
    <3>1. \A x \in Node : f[x] = r(x)
      BY <2>1, <2>2
    <3>2. f = [x \in Node |-> f[x]]
      OBVIOUS
    <3>. HIDE DEF f, r
    <3>. QED BY <3>1, <3>2
  <2>4. Search(f, l, Node, n, M, nil)
    BY <2>3 DEF Search
  <2>. QED BY <2>4
<1>12. ASSUME NEW f, Search(f, l, Node, n, M, nil)
       PROVE  IF W \cap M = {} THEN f[n] = nil ELSE f[n] \in W \cap M
  <2>1. \A x \in Node : f[x] = IF x \in M THEN x
                               ELSE IF l.l_next[x] = n THEN nil
                                    ELSE f[l.l_next[x]]
    BY <1>12 DEF Search
  <2>. DEFINE T == {i \in Nat : i <= p => f[b[i]] = f[n]}
  <2>2. 0 \in T
    BY <1>6
  <2>3. ASSUME NEW i \in T PROVE i + 1 \in T
    <3>. SUFFICES ASSUME i + 1 <= p PROVE f[b[i + 1]] = f[n]
      OBVIOUS
    <3>1. /\ i \in 0 .. len /\ i < len /\ i # p /\ i \in 0 .. len - 1
          /\ f[b[i]] = f[n]
      BY <1>2, <1>8, <2>3
    <3>2. b[i] \notin M /\ b[i] \in Node
      BY <1>4, <1>9, <3>1
    <3>3. l.l_next[b[i]] # n /\ l.l_next[b[i]] = b[i + 1]
      BY <1>6, <1>7, <3>1
    <3>. QED BY <2>1, <3>1, <3>2, <3>3
  <2>4. f[b[p]] = f[n]
    <3>. HIDE DEF T
    <3>1. \A i \in Nat : i \in T
      BY <2>2, <2>3, NatInd DEF T
    <3>. QED BY <1>2, <3>1 DEF T
  <2>5. CASE W \cap M = {}
    BY <1>2, <1>4, <1>6, <1>8, <2>1, <2>4, <2>5
  <2>6. CASE W \cap M # {}
    BY <1>4, <1>8, <2>1, <2>4, <2>6
  <2>. QED BY <2>5, <2>6
<1>. QED BY <1>11, <1>12
=============================================================================
