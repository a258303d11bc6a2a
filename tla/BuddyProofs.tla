----------------------------- MODULE BuddyProofs -----------------------------
(***************************************************************************)
(* Proofs about the buddy allocator: the bitmaps of all levels are exact,  *)
(* so no memory is given out twice, and with one buddy so are the lists.   *)
(***************************************************************************)
EXTENDS BuddyAllocator, ListProofs

----------------------------------------------------------------------------
(***************************************************************************)
(* The tree of blocks.                                                     *)
(***************************************************************************)

\* Size is the recursive function that its definition describes.
LEMMA SizeDef ==
    /\ Size[0] = 1
    /\ \A n \in Levels : Size[n] \in Nat /\ Size[n] > 0
    /\ \A n \in Levels : n # 0 => Size[n] = 2 * Size[n - 1]
<1>. DEFINE Eq(f) == f = [n \in Levels |-> IF n = 0 THEN 1 ELSE 2 * f[n - 1]]
            g == [x \in Nat |-> 2 * x]
<1>1. \E f : Eq(f)
  <2>1. g \in [Nat -> Nat] /\ 1 \in Nat
    OBVIOUS
  <2>. HIDE DEF g
  <2>2. PICK f : Steps(f, Nat, g, 1, MaxLevel)
    BY <2>1, LevelAssumption, StepsExist
  <2>3. /\ f \in [0 .. MaxLevel -> Nat] /\ f[0] = 1
        /\ \A k \in 1 .. MaxLevel : f[k] = g[f[k - 1]]
    BY <2>2 DEF Steps
  <2>4. ASSUME NEW k \in 1 .. MaxLevel PROVE f[k] = 2 * f[k - 1]
    <3>1. f[k - 1] \in Nat
      BY <2>3, LevelAssumption
    <3>. QED BY <2>3, <3>1 DEF g
  <2>5. \A k \in 0 .. MaxLevel : f[k] = IF k = 0 THEN 1 ELSE 2 * f[k - 1]
    BY <2>3, <2>4, LevelAssumption
  <2>6. Eq(f)
    BY <2>3, <2>5 DEF Levels
  <2>. QED BY <2>6
<1>2. Eq(CHOOSE f : Eq(f))
  <2>. HIDE DEF Eq
  <2>. QED BY <1>1
<1>3. Size = [n \in Levels |-> IF n = 0 THEN 1 ELSE 2 * Size[n - 1]]
  BY <1>2 DEF Size
<1>4. Size[0] = 1 /\ \A n \in Levels : n # 0 => Size[n] = 2 * Size[n - 1]
  <2>. DEFINE S == Size
  <2>1. S = [n \in Levels |-> IF n = 0 THEN 1 ELSE 2 * S[n - 1]]
    BY <1>3
  <2>. HIDE DEF S
  <2>2. S[0] = 1 /\ \A n \in Levels : n # 0 => S[n] = 2 * S[n - 1]
    BY <2>1, LevelAssumption DEF Levels
  <2>. QED BY <2>2 DEF S
<1>5. ASSUME NEW m \in Levels PROVE Size[m] \in Nat /\ Size[m] > 0
  <2>. DEFINE T == {n \in Nat : n \in Levels => Size[n] \in Nat /\ Size[n] > 0}
  <2>1. 0 \in T
    BY <1>4
  <2>2. ASSUME NEW n \in T PROVE n + 1 \in T
    <3>. SUFFICES ASSUME n + 1 \in Levels
                  PROVE  Size[n + 1] \in Nat /\ Size[n + 1] > 0
      OBVIOUS
    <3>1. n \in Levels /\ n + 1 # 0 /\ (n + 1) - 1 = n
      BY <2>2, LevelAssumption DEF Levels
    <3>2. Size[n + 1] = 2 * Size[n]
      BY <1>4, <3>1
    <3>. QED BY <2>2, <3>1, <3>2
  <2>. HIDE DEF T
  <2>3. \A n \in Nat : n \in T
    BY <2>1, <2>2, NatInd DEF T
  <2>. QED BY <2>3, LevelAssumption DEF T, Levels
<1>. QED BY <1>4, <1>5

\* Sizes multiply.
LEMMA SizeAdd ==
    ASSUME NEW m \in Levels, NEW n \in Levels, m + n \in Levels
    PROVE  Size[m + n] = Size[m] * Size[n]
<1>. DEFINE T == {k \in Nat : m + k \in Levels => Size[m + k] = Size[m] * Size[k]}
<1>0. m \in Nat /\ n \in Nat /\ Size[m] \in Nat
  BY SizeDef, LevelAssumption DEF Levels
<1>1. 0 \in T
  <2>1. m + 0 = m /\ Size[m] * 1 = Size[m]
    BY <1>0
  <2>. QED BY <2>1, SizeDef
<1>2. ASSUME NEW k \in T PROVE k + 1 \in T
  <2>. SUFFICES ASSUME m + (k + 1) \in Levels
                PROVE  Size[m + (k + 1)] = Size[m] * Size[k + 1]
    OBVIOUS
  <2>1. /\ k \in Nat /\ m + k \in Levels /\ k \in Levels /\ k + 1 \in Levels
        /\ m + (k + 1) # 0 /\ (m + (k + 1)) - 1 = m + k
        /\ k + 1 # 0 /\ (k + 1) - 1 = k
    BY <1>0, <1>2, LevelAssumption DEF Levels
  <2>2. Size[m + (k + 1)] = 2 * Size[m + k] /\ Size[k + 1] = 2 * Size[k]
    BY <2>1, SizeDef
  <2>3. Size[m + k] = Size[m] * Size[k]
    BY <1>2, <2>1
  <2>4. Size[k] \in Nat
    BY <2>1, SizeDef
  <2>5. \A a, b \in Nat : 2 * (a * b) = a * (2 * b)
    OBVIOUS
  <2>. QED BY <1>0, <2>2, <2>3, <2>4, <2>5
<1>. HIDE DEF T
<1>3. \A k \in Nat : k \in T
  BY <1>1, <1>2, NatInd DEF T
<1>. QED BY <1>0, <1>3 DEF T

\* Blocks are numbered from 0; an ancestor is a block of its level.
LEMMA BlockFacts ==
    ASSUME NEW l \in Levels, NEW i \in Blocks(l)
    PROVE  /\ i \in Nat
           /\ Ancestor(i, 0) = i
           /\ \A n \in Levels : l + n \in Levels => Ancestor(i, n) \in Blocks(l + n)
<1>1. /\ MaxLevel - l \in Levels /\ Size[MaxLevel - l] \in Nat /\ l \in Nat
  BY SizeDef, LevelAssumption DEF Levels
<1>2. Tops * Size[MaxLevel - l] \in Nat
  BY <1>1, TopsAssumption
<1>3. i \in Nat /\ i < Tops * Size[MaxLevel - l]
  BY <1>2 DEF Blocks
<1>4. Ancestor(i, 0) = i
  BY <1>3, SizeDef DEF Ancestor
<1>5. ASSUME NEW n \in Levels, l + n \in Levels
      PROVE  Ancestor(i, n) \in Blocks(l + n)
  <2>. DEFINE r == MaxLevel - (l + n)
              k == Tops * Size[r]
  <2>1. r \in Levels /\ MaxLevel - l = r + n /\ r + n \in Levels /\ n \in Nat
    BY <1>5, <1>1, LevelAssumption DEF Levels
  <2>2. Size[r] \in Nat /\ Size[n] \in Nat /\ Size[n] > 0
    BY <2>1, SizeDef
  <2>3. Size[MaxLevel - l] = Size[r] * Size[n]
    BY <2>1, SizeAdd
  <2>. HIDE DEF r
  <2>4. k \in Nat
    BY <2>2, TopsAssumption
  <2>5. \A a, b, c \in Nat : a * (b * c) = (a * b) * c
    OBVIOUS
  <2>6. i < k * Size[n]
    BY <1>3, <2>2, <2>3, <2>5, TopsAssumption
  <2>. HIDE DEF k
  <2>7. \A x, y, z \in Nat : z > 0 /\ x < y * z =>
            x \div z \in Nat /\ x \div z < y
    OBVIOUS
  <2>8. Ancestor(i, n) \in Nat /\ Ancestor(i, n) < k
    BY <1>3, <2>2, <2>4, <2>6, <2>7 DEF Ancestor
  <2>9. Ancestor(i, n) \in 0 .. k - 1
    BY <2>4, <2>8
  <2>. QED BY <2>9 DEF Blocks, k, r
<1>. QED BY <1>3, <1>4, <1>5

\* The ancestor of an ancestor is an ancestor.
LEMMA AncestorAdd ==
    ASSUME NEW i \in Nat, NEW m \in Levels, NEW n \in Levels, m + n \in Levels
    PROVE  Ancestor(Ancestor(i, m), n) = Ancestor(i, m + n)
<1>1. /\ Size[m] \in Nat /\ Size[m] > 0 /\ Size[n] \in Nat /\ Size[n] > 0
      /\ Size[m + n] = Size[m] * Size[n]
  BY SizeDef, SizeAdd
<1>2. \A a, b, c \in Nat : b > 0 /\ c > 0 => (a \div b) \div c = a \div (b * c)
  OBVIOUS
<1>. QED BY <1>1, <1>2 DEF Ancestor

\* Every block has a page.
LEMMA BlockPage ==
    ASSUME NEW l \in Levels, NEW i \in Blocks(l)
    PROVE  \E q \in Blocks(0) : Ancestor(q, l) = i
<1>. DEFINE q == i * Size[l]
            r == MaxLevel - l
            k == Tops * Size[r]
<1>1. /\ r \in Levels /\ Size[r] \in Nat /\ Size[l] \in Nat /\ Size[l] > 0
      /\ l \in Nat /\ r + l = MaxLevel /\ MaxLevel \in Levels /\ MaxLevel - 0 = MaxLevel
  BY SizeDef, LevelAssumption DEF Levels
<1>2. Size[MaxLevel] = Size[r] * Size[l]
  BY <1>1, SizeAdd
<1>3. k \in Nat
  BY <1>1, TopsAssumption
<1>4. i \in Nat /\ i < k
  BY <1>3 DEF Blocks
<1>. HIDE DEF r
<1>5. \A a, b, c \in Nat : a * (b * c) = (a * b) * c
  OBVIOUS
<1>6. Tops * Size[MaxLevel] = k * Size[l]
  BY <1>1, <1>2, <1>5, TopsAssumption
<1>. HIDE DEF k
<1>7. \A a, b, c \in Nat : a < b /\ c > 0 =>
        a * c \in Nat /\ a * c < b * c /\ (a * c) \div c = a
  OBVIOUS
<1>8. q \in Nat /\ q < Tops * Size[MaxLevel] /\ q \div Size[l] = i
  BY <1>1, <1>3, <1>4, <1>6, <1>7
<1>9. Tops * Size[MaxLevel] \in Nat
  BY <1>1, <1>3, <1>6
<1>10. q \in Blocks(0)
  BY <1>1, <1>8, <1>9 DEF Blocks
<1>. QED BY <1>8, <1>10 DEF Ancestor

\* Two blocks are the halves of one exactly if each is the other's sibling.
LEMMA Siblings ==
    ASSUME NEW i \in Nat, 1 \in Levels
    PROVE  /\ Sibling(i) \in Nat /\ Sibling(i) # i
           /\ Ancestor(Sibling(i), 1) = Ancestor(i, 1)
           /\ \A j \in Nat : Ancestor(j, 1) = Ancestor(i, 1) /\ j # i
                                => j = Sibling(i)
           /\ \A l \in Levels : l + 1 \in Levels /\ i \in Blocks(l)
                                => Sibling(i) \in Blocks(l)
<1>1. Size[1] = 2
  BY SizeDef
<1>2. /\ Sibling(i) \in Nat /\ Sibling(i) # i
      /\ Sibling(i) \div 2 = i \div 2
      /\ \A j \in Nat : j \div 2 = i \div 2 /\ j # i => j = Sibling(i)
      /\ \A k \in Nat : i < 2 * k => Sibling(i) < 2 * k
  BY DEF Sibling
<1>3. ASSUME NEW l \in Levels, l + 1 \in Levels, i \in Blocks(l)
      PROVE  Sibling(i) \in Blocks(l)
  <2>. DEFINE r == MaxLevel - l
              s == Size[r - 1]
  <2>1. r \in Levels /\ r # 0 /\ r - 1 \in Levels
    BY <1>3, LevelAssumption DEF Levels
  <2>2. Size[r] = 2 * s /\ s \in Nat
    BY <2>1, SizeDef
  <2>. HIDE DEF s, r
  <2>3. Tops * s \in Nat /\ Tops * Size[r] = 2 * (Tops * s)
    BY <2>2, TopsAssumption
  <2>4. i \in 0 .. Tops * Size[r] - 1
    BY <1>3 DEF Blocks, r
  <2>. DEFINE k == Tops * s
  <2>5. k \in Nat /\ i < 2 * k
    BY <2>3, <2>4
  <2>6. Sibling(i) < 2 * k
    BY <1>2, <2>5
  <2>. HIDE DEF k
  <2>7. Sibling(i) \in 0 .. 2 * k - 1
    BY <1>2, <2>5, <2>6
  <2>. QED BY <2>3, <2>7 DEF k, r, Blocks
<1>. QED BY <1>1, <1>2, <1>3 DEF Ancestor

\* The pages of a block.
LEMMA PagesOf ==
    ASSUME NEW l \in Levels, NEW i
    PROVE  \A q : q \in Inside(i, l, 0) <=> q \in Blocks(0) /\ Ancestor(q, l) = i
<1>1. l - 0 = l
  BY LevelAssumption DEF Levels
<1>. QED BY <1>1 DEF Inside

\* A block and a smaller one: it is inside, or they have no page in common.
LEMMA Nested ==
    ASSUME NEW l \in Levels, NEW n \in Levels, l <= n,
           NEW j \in Blocks(l), NEW i
    PROVE  /\ Inside(j, l, 0) # {}
           /\ Ancestor(j, n - l) = i => Inside(j, l, 0) \subseteq Inside(i, n, 0)
           /\ Ancestor(j, n - l) # i => Inside(j, l, 0) \cap Inside(i, n, 0) = {}
<1>1. l \in Nat /\ n - l \in Levels /\ l + (n - l) = n /\ 0 \in Levels
  BY LevelAssumption DEF Levels
<1>2. ASSUME NEW q \in Inside(j, l, 0)
      PROVE  q \in Blocks(0) /\ Ancestor(q, n) = Ancestor(j, n - l)
  <2>1. q \in Blocks(0) /\ Ancestor(q, l) = j
    BY PagesOf
  <2>2. q \in Nat
    BY <1>1, <2>1, BlockFacts
  <2>3. Ancestor(Ancestor(q, l), n - l) = Ancestor(q, l + (n - l))
    BY <1>1, <2>2, AncestorAdd
  <2>. QED BY <1>1, <2>1, <2>3
<1>3. Inside(j, l, 0) # {}
  BY BlockPage, PagesOf
<1>. QED BY <1>2, <1>3, PagesOf

\* The blocks of level l without a page of P: what a bitmap should hold when
\* P is in use.
FreeIn(P, l) == {i \in Blocks(l) : Inside(i, l, 0) \cap P = {}}

\* The bitmaps of a buddy are those for the pages P in use.
Exact(bits, P) == \A l \in Levels : bits[l] = FreeIn(P, l)

AllocExact(F, P, n, i) ==
    \A l \in Levels : FreeIn(P \cup Inside(i, n, 0), l) = F[l] \ AllocMarks(F, n, i)[l]

\* alloc marks what the pages it gives out make unavailable, and no more.
LEMMA AllocMarksExact ==
    ASSUME NEW P, NEW n \in Levels, NEW i \in FreeIn(P, n),
           NEW F, Exact(F, P)
    PROVE  AllocExact(F, P, n, i)
<1>. SUFFICES ASSUME NEW l \in Levels
              PROVE  FreeIn(P \cup Inside(i, n, 0), l) = F[l] \ AllocMarks(F, n, i)[l]
  BY DEF AllocExact
<1>. DEFINE Q == P \cup Inside(i, n, 0)
            M == AllocMarks(F, n, i)
<1>. USE DEF Exact
<1>0. /\ l \in Nat /\ n \in Nat /\ i \in Blocks(n)
  BY LevelAssumption DEF Levels, FreeIn
<1>1. CASE l <= n
  <2>1. M[l] = Inside(i, n, l)
    BY <1>1 DEF AllocMarks
  <2>2. ASSUME NEW j \in Blocks(l)
        PROVE  j \in FreeIn(Q, l) <=> j \in FreeIn(P, l) /\ j \notin M[l]
    <3>1. j \in M[l] <=> Ancestor(j, n - l) = i
      BY <2>1 DEF Inside
    <3>2. /\ Inside(j, l, 0) # {}
          /\ Ancestor(j, n - l) = i => Inside(j, l, 0) \subseteq Inside(i, n, 0)
          /\ Ancestor(j, n - l) # i => Inside(j, l, 0) \cap Inside(i, n, 0) = {}
      BY <1>1, Nested
    <3>. HIDE DEF M
    <3>. QED BY <3>1, <3>2 DEF FreeIn
  <2>. HIDE DEF M, Q
  <2>3. FreeIn(Q, l) = FreeIn(P, l) \ M[l]
    BY <2>2 DEF FreeIn
  <2>. QED BY <2>3 DEF M, Q
<1>2. CASE l > n
  <2>. DEFINE a == Ancestor(i, l - n)
  <2>1. l - n \in Levels /\ n + (l - n) = l /\ n <= l
    BY <1>0, <1>2, LevelAssumption DEF Levels
  <2>2. a \in Blocks(l)
    BY <1>0, <2>1, BlockFacts
  <2>3. M[l] = {j \in {a} : \A m \in n + 1 .. l - 1 : Ancestor(i, m - n) \in F[m]}
    BY <1>0, <1>2 DEF AllocMarks
  <2>4. /\ Inside(i, n, 0) # {} /\ Inside(i, n, 0) \subseteq Inside(a, l, 0)
        /\ \A j : j # a => Inside(i, n, 0) \cap Inside(j, l, 0) = {}
    BY <1>0, <2>1, Nested
  <2>5. FreeIn(Q, l) = FreeIn(P, l) \ {a}
    BY <2>4 DEF FreeIn
  <2>6. ASSUME NEW m \in n + 1 .. l - 1, Ancestor(i, m - n) \notin F[m]
        PROVE  a \notin FreeIn(P, l)
    <3>. DEFINE b == Ancestor(i, m - n)
    <3>1. /\ m \in Levels /\ m - n \in Levels /\ n + (m - n) = m /\ m <= l
          /\ l - m \in Levels /\ (m - n) + (l - m) = l - n /\ l - n \in Levels
      BY <1>0, <1>2, LevelAssumption DEF Levels
    <3>2. b \in Blocks(m)
      BY <1>0, <3>1, BlockFacts
    <3>3. i \in Nat
      BY <1>0, BlockFacts
    <3>4. Ancestor(b, l - m) = a
      <4>1. Ancestor(Ancestor(i, m - n), l - m) = Ancestor(i, (m - n) + (l - m))
        BY <3>1, <3>3, AncestorAdd
      <4>. QED BY <3>1, <4>1
    <3>5. Inside(b, m, 0) \subseteq Inside(a, l, 0)
      BY <3>1, <3>2, <3>4, Nested
    <3>6. b \notin FreeIn(P, m)
      BY <2>6, <3>1
    <3>. QED BY <3>2, <3>5, <3>6 DEF FreeIn
  <2>. HIDE DEF a, M, Q
  <2>7. FreeIn(P, l) \ {a} = FreeIn(P, l) \ M[l]
    BY <2>3, <2>6
  <2>. QED BY <2>5, <2>7 DEF M, Q
<1>. QED BY <1>0, <1>1, <1>2

FreeExact(F, P, n, i) ==
    \A l \in Levels : FreeIn(P \ Inside(i, n, 0), l) = F[l] \cup FreeMarks(F, n, i)[l]

\* free marks what becomes free with the pages it takes back, and no more:
\* free_up stops where the sibling is not free, and the larger blocks above
\* could not be free either.
LEMMA FreeMarksExact ==
    ASSUME NEW P, NEW n \in Levels, NEW i \in Blocks(n),
           Inside(i, n, 0) \subseteq P,
           NEW F, Exact(F, P)
    PROVE  FreeExact(F, P, n, i)
<1>. SUFFICES ASSUME NEW l \in Levels
              PROVE  FreeIn(P \ Inside(i, n, 0), l) = F[l] \cup FreeMarks(F, n, i)[l]
  BY DEF FreeExact
<1>. DEFINE Q == P \ Inside(i, n, 0)
            M == FreeMarks(F, n, i)
<1>. USE DEF Exact
<1>0. /\ l \in Nat /\ n \in Nat
  BY LevelAssumption DEF Levels
<1>1. CASE l <= n
  <2>1. M[l] = Inside(i, n, l)
    BY <1>1 DEF FreeMarks
  <2>2. ASSUME NEW j \in Blocks(l)
        PROVE  j \in FreeIn(Q, l) <=> j \in FreeIn(P, l) \/ j \in M[l]
    <3>1. j \in M[l] <=> Ancestor(j, n - l) = i
      BY <2>1 DEF Inside
    <3>2. /\ Ancestor(j, n - l) = i => Inside(j, l, 0) \subseteq Inside(i, n, 0)
          /\ Ancestor(j, n - l) # i => Inside(j, l, 0) \cap Inside(i, n, 0) = {}
      BY <1>1, Nested
    <3>. HIDE DEF M
    <3>. QED BY <3>1, <3>2 DEF FreeIn
  <2>3. M[l] \subseteq Blocks(l)
    BY <2>1 DEF Inside
  <2>. HIDE DEF M, Q
  <2>4. FreeIn(Q, l) = FreeIn(P, l) \cup M[l]
    BY <2>2, <2>3 DEF FreeIn
  <2>. QED BY <2>4 DEF M, Q
<1>2. CASE l > n
  <2>. DEFINE a(m) == Ancestor(i, m - n)
              All == \A m \in n .. l - 1 : Sibling(a(m)) \in F[m]
  <2>0. i \in Nat
    BY BlockFacts
  <2>1. ASSUME NEW m \in n .. l
        PROVE  /\ m \in Levels /\ m \in Nat /\ m - n \in Levels /\ n + (m - n) = m
               /\ n <= m /\ l - m \in Levels /\ a(m) \in Blocks(m) /\ a(m) \in Nat
    <3>1. /\ m \in Levels /\ m \in Nat /\ m - n \in Levels /\ n + (m - n) = m
          /\ n <= m /\ l - m \in Levels
      BY <1>0, <1>2, LevelAssumption DEF Levels
    <3>2. a(m) \in Blocks(m)
      BY <3>1, BlockFacts
    <3>. QED BY <3>1, <3>2, BlockFacts
  <2>2. M[l] = {j \in {a(l)} : All}
    BY <1>0, <1>2 DEF FreeMarks
  <2>3. l \in n .. l /\ a(l) \in Blocks(l)
    BY <1>0, <1>2, <2>1
  <2>4. /\ Inside(i, n, 0) # {} /\ Inside(i, n, 0) \subseteq Inside(a(l), l, 0)
        /\ \A j : j # a(l) => Inside(i, n, 0) \cap Inside(j, l, 0) = {}
    BY <1>0, <1>2, <2>1, <2>3, Nested
  <2>5. ASSUME NEW m \in n .. l - 1
        PROVE  /\ m + 1 \in n .. l /\ m \in n .. l /\ 1 \in Levels
               /\ m + 1 \in Levels
               /\ Ancestor(a(m), 1) = a(m + 1)
    <3>1. /\ m + 1 \in n .. l /\ m \in n .. l /\ 1 \in Levels
          /\ m + 1 \in Levels
          /\ m - n \in Levels /\ (m - n) + 1 = (m + 1) - n
          /\ (m - n) + 1 \in Levels
      BY <1>0, <1>2, LevelAssumption DEF Levels
    <3>2. Ancestor(Ancestor(i, m - n), 1) = Ancestor(i, (m - n) + 1)
      BY <2>0, <3>1, AncestorAdd
    <3>. QED BY <3>1, <3>2
  <2>6. ASSUME a(l) \in FreeIn(Q, l), NEW m \in n .. l - 1
        PROVE  Sibling(a(m)) \in F[m]
    <3>. DEFINE s == Sibling(a(m))
    <3>1. /\ m \in n .. l /\ 1 \in Levels /\ m + 1 \in Levels /\ m \in Levels
          /\ a(m) \in Nat /\ a(m) \in Blocks(m) /\ Ancestor(a(m), 1) = a(m + 1)
      BY <2>1, <2>5
    <3>2. s \in Blocks(m) /\ s # a(m) /\ Ancestor(s, 1) = a(m + 1) /\ s \in Nat
      BY <3>1, Siblings
    <3>3. Ancestor(s, l - m) = a(l)
      <4>1. /\ l - (m + 1) \in Levels /\ 1 + (l - (m + 1)) = l - m
            /\ l - m \in Levels /\ (m + 1) - n \in Levels
            /\ ((m + 1) - n) + (l - (m + 1)) = l - n /\ l - n \in Levels
        BY <1>0, <1>2, LevelAssumption DEF Levels
      <4>2. Ancestor(Ancestor(s, 1), l - (m + 1)) = Ancestor(s, 1 + (l - (m + 1)))
        BY <3>1, <3>2, <4>1, AncestorAdd
      <4>3. Ancestor(a(m + 1), l - (m + 1)) = Ancestor(i, ((m + 1) - n) + (l - (m + 1)))
        BY <2>0, <4>1, AncestorAdd
      <4>. QED BY <3>2, <4>1, <4>2, <4>3
    <3>4. m <= l
      BY <1>0
    <3>5. Inside(s, m, 0) \subseteq Inside(a(l), l, 0)
      BY <3>1, <3>2, <3>3, <3>4, Nested
    <3>6. Inside(i, n, 0) \cap Inside(s, m, 0) = {}
      BY <2>1, <3>1, <3>2, Nested
    <3>. HIDE DEF s
    <3>7. Inside(s, m, 0) \cap P = {}
      BY <2>6, <3>5, <3>6 DEF FreeIn
    <3>8. s \in FreeIn(P, m)
      BY <3>2, <3>7 DEF FreeIn
    <3>. QED BY <3>1, <3>8 DEF s
  <2>7. ASSUME All PROVE a(l) \in FreeIn(Q, l)
    <3>. SUFFICES ASSUME NEW q \in Inside(a(l), l, 0), q \in Q PROVE FALSE
      BY <2>3 DEF FreeIn
    <3>1. q \in Blocks(0) /\ Ancestor(q, l) = a(l)
      BY PagesOf
    <3>2. q \in Nat /\ 0 \in Levels
      BY <3>1, BlockFacts, LevelAssumption DEF Levels
    <3>3. a(n) = i /\ n \in n .. l
      <4>1. n - n = 0 /\ n \in n .. l
        BY <1>0, <1>2
      <4>. QED BY <4>1, BlockFacts
    <3>4. Ancestor(q, n) # a(n)
      BY <3>1, <3>3, PagesOf
    <3>. DEFINE T == {m \in Nat : m \in n .. l /\ Ancestor(q, m) = a(m)}
    <3>5. T \in SUBSET Nat /\ T # {}
      BY <1>0, <2>3, <3>1
    <3>6. PICK m \in T : \A k \in T : m <= k
      <4>. HIDE DEF T
      <4>. QED BY <3>5, LeastNat
    <3>7. m \in n .. l /\ Ancestor(q, m) = a(m) /\ m # n
      BY <3>4
    <3>8. m - 1 \in n .. l - 1 /\ (m - 1) + 1 = m /\ m - 1 \in Nat
          /\ m - 1 \in n .. l
      BY <1>0, <3>7
    <3>9. Ancestor(q, m - 1) # a(m - 1)
      <4>1. m - 1 \notin T
        BY <3>6, <3>7, <1>0
      <4>. QED BY <3>8, <4>1
    <3>. DEFINE p == Ancestor(q, m - 1)
    <3>10. /\ 1 \in Levels /\ m - 1 \in Levels /\ a(m - 1) \in Nat
           /\ Ancestor(a(m - 1), 1) = a(m) /\ m \in Levels
      BY <2>1, <2>5, <3>7, <3>8
    <3>11. p \in Nat /\ Ancestor(p, 1) = a(m)
      <4>0. 0 + (m - 1) = m - 1
        BY <3>8
      <4>1. p \in Blocks(m - 1)
        BY <3>1, <3>2, <3>10, <4>0, BlockFacts
      <4>2. Ancestor(Ancestor(q, m - 1), 1) = Ancestor(q, (m - 1) + 1)
        BY <3>2, <3>8, <3>10, AncestorAdd
      <4>. QED BY <3>7, <3>8, <3>10, <4>1, <4>2, BlockFacts
    <3>12. p = Sibling(a(m - 1))
      BY <3>9, <3>10, <3>11, Siblings
    <3>13. p \in FreeIn(P, m - 1)
      BY <2>7, <3>8, <3>10, <3>12
    <3>14. q \in Inside(p, m - 1, 0)
      BY <3>1, <3>10, PagesOf
    <3>. QED BY <3>13, <3>14 DEF FreeIn
  <2>8. ASSUME NEW j \in Blocks(l), j # a(l)
        PROVE  j \in FreeIn(Q, l) <=> j \in FreeIn(P, l)
    BY <2>4, <2>8 DEF FreeIn
  <2>9. a(l) \notin FreeIn(P, l)
    BY <2>4 DEF FreeIn
  <2>10. FreeIn(Q, l) \subseteq Blocks(l) /\ FreeIn(P, l) \subseteq Blocks(l)
    BY DEF FreeIn
  <2>. HIDE DEF a, M, Q, All
  <2>11. a(l) \in FreeIn(Q, l) <=> All
    BY <2>6, <2>7 DEF All
  <2>12. FreeIn(Q, l) = FreeIn(P, l) \cup M[l]
    BY <2>2, <2>3, <2>8, <2>9, <2>10, <2>11
  <2>. QED BY <2>12 DEF M, Q
<1>. QED BY <1>0, <1>1, <1>2

----------------------------------------------------------------------------
(***************************************************************************)
(* The bitmaps and lists after alloc and free, with pos buddies in use and *)
(* the blocks U given out.                                                 *)
(***************************************************************************)
Upto(pos) == {b \in Buddies : b <= pos}

PagesIn(U, b) == UNION {Pages(u) : u \in {w \in U : w.b = b}}

\* The next fields lead to buddies in D.
Leads(k, D) ==
    \A l \in Levels : \A x \in {Allocator} \cup Buddies :
        k.next[l][x] \in {NULL} \cup D

\* The bitmaps are exact, and the lists lead to buddies in use.
KmemOK(k, pos, U) ==
    /\ k \in Kmem
    /\ Leads(k, Upto(pos))
    /\ \A b \in Upto(pos) : Exact(k.bits[b], PagesIn(U, b))

\* The blocks given out are blocks of buddies in use, and do not overlap.
UsedOK(pos, U) ==
    /\ U \subseteq [b : Buddies, l : Levels, i : Blocks(0)]
    /\ \A u \in U : u.b \in Upto(pos) /\ u.i \in Blocks(u.l)
    /\ \A u, v \in U : u # v /\ u.b = v.b => Pages(u) \cap Pages(v) = {}

\* With one buddy, a list is that buddy if it has a free block, or empty.
OneOK(k) ==
    \A l \in Levels :
        /\ k.next[l][Allocator] = IF k.bits[1][l] = {} THEN NULL ELSE 1
        /\ k.prev[l][1] = IF k.bits[1][l] = {} THEN NULL ELSE Allocator
        /\ k.next[l][1] = NULL

\* The parts of kmem.
LEMMA KmemParts ==
    ASSUME NEW k \in Kmem, NEW l \in Levels
    PROVE  /\ k.bits \in [Buddies -> [Levels -> SUBSET Blocks(0)]]
           /\ k.next[l] \in [{Allocator} \cup Buddies -> {NULL} \cup Buddies]
           /\ k.prev[l] \in [Buddies -> {NULL, Allocator} \cup Buddies]
           /\ k.next \in [Levels -> [{Allocator} \cup Buddies -> {NULL} \cup Buddies]]
           /\ k.prev \in [Levels -> [Buddies -> {NULL, Allocator} \cup Buddies]]
  BY DEF Kmem

\* The list of level l after Unlink and after Link of buddy b.
UnlinkNext(k, l, b) ==
    [Set(k.next[l], k.prev[l][b], k.next[l][b]) EXCEPT ![b] = NULL]

UnlinkPrev(k, l, b) ==
    [Set(k.prev[l], k.next[l][b], k.prev[l][b]) EXCEPT ![b] = NULL]

LinkNext(k, l, b) ==
    [k.next[l] EXCEPT ![b] = k.next[l][Allocator], ![Allocator] = b]

LinkPrev(k, l, b) ==
    [Set(k.prev[l], k.next[l][Allocator], b) EXCEPT ![b] = Allocator]

\* What Unlink and Link do to the list of the level.
LEMMA Surgery ==
    ASSUME NEW k \in Kmem, NEW l \in Levels, NEW b
    PROVE  /\ Unlink(k, l, b).next[l] = UnlinkNext(k, l, b)
           /\ Unlink(k, l, b).prev[l] = UnlinkPrev(k, l, b)
           /\ Link(k, l, b).next[l] = LinkNext(k, l, b)
           /\ Link(k, l, b).prev[l] = LinkPrev(k, l, b)
<1>1. ASSUME NEW x, NEW y
      PROVE  /\ [k EXCEPT !.next[l] = x, !.prev[l] = y].next[l] = x
             /\ [k EXCEPT !.next[l] = x, !.prev[l] = y].prev[l] = y
  BY DEF Kmem
<1>2. Unlink(k, l, b) = [k EXCEPT !.next[l] = UnlinkNext(k, l, b),
                                  !.prev[l] = UnlinkPrev(k, l, b)]
  BY Zenon DEF Unlink, UnlinkNext, UnlinkPrev
<1>3. Link(k, l, b) = [k EXCEPT !.next[l] = LinkNext(k, l, b),
                                !.prev[l] = LinkPrev(k, l, b)]
  BY Zenon DEF Link, LinkNext, LinkPrev
<1>. QED BY <1>1, <1>2, <1>3

NextIn(D) == [{Allocator} \cup Buddies -> {NULL} \cup D]

PrevType == [Buddies -> {NULL, Allocator} \cup Buddies]

\* Both keep the types, and next leads to buddies in use.
LEMMA SurgeryTypes ==
    ASSUME NEW k \in Kmem, NEW l \in Levels, NEW D \in SUBSET Buddies,
           NEW b \in D, Leads(k, D)
    PROVE  /\ UnlinkNext(k, l, b) \in NextIn(D)
           /\ UnlinkPrev(k, l, b) \in PrevType
           /\ LinkNext(k, l, b) \in NextIn(D)
           /\ LinkPrev(k, l, b) \in PrevType
<1>. DEFINE p == k.prev[l][b]
            n == k.next[l][b]
            h == k.next[l][Allocator]
            N == {Allocator} \cup Buddies
<1>1. /\ k.next[l] \in [N -> {NULL} \cup D]
      /\ k.prev[l] \in PrevType
      /\ b \in Buddies
  BY KmemParts DEF PrevType, Leads
<1>2. /\ p \in {NULL, Allocator} \cup Buddies /\ n \in {NULL} \cup D
      /\ h \in {NULL} \cup D
  BY <1>1 DEF PrevType
<1>4. /\ UnlinkNext(k, l, b) = [Set(k.next[l], p, n) EXCEPT ![b] = NULL]
      /\ UnlinkPrev(k, l, b) = [Set(k.prev[l], n, p) EXCEPT ![b] = NULL]
      /\ LinkNext(k, l, b) = [k.next[l] EXCEPT ![b] = h, ![Allocator] = b]
      /\ LinkPrev(k, l, b) = [Set(k.prev[l], h, b) EXCEPT ![b] = Allocator]
  BY DEF UnlinkNext, UnlinkPrev, LinkNext, LinkPrev
<1>. HIDE DEF p, n, h
<1>3. /\ Set(k.next[l], p, n) \in [N -> {NULL} \cup D]
      /\ Set(k.prev[l], n, p) \in PrevType
      /\ Set(k.prev[l], h, b) \in PrevType
  BY <1>1, <1>2 DEF Set, PrevType
<1>. HIDE DEF N
<1>5. /\ UnlinkNext(k, l, b) \in [N -> {NULL} \cup D]
      /\ UnlinkPrev(k, l, b) \in PrevType
      /\ LinkNext(k, l, b) \in [N -> {NULL} \cup D]
      /\ LinkPrev(k, l, b) \in PrevType
  BY <1>1, <1>2, <1>3, <1>4 DEF N, PrevType
<1>. QED BY <1>5 DEF N, NextIn

Fields(next, prev, D) ==
    \A l \in Levels : next[l] \in NextIn(D) /\ prev[l] \in PrevType

\* Level by level, a new record of kmem, with new bits for buddy b.
Built(k, b, bits, prev, next) ==
    [bits |-> [k.bits EXCEPT ![b] = bits],
     prev |-> [l \in Levels |-> prev[l]],
     next |-> [l \in Levels |-> next[l]]]

\* Its parts.
IsBuilt(r, k, D, b, bits, prev, next) ==
    /\ r \in Kmem
    /\ r.bits[b] = bits /\ \A c \in Buddies : c # b => r.bits[c] = k.bits[c]
    /\ \A l \in Levels : r.next[l] = next[l] /\ r.prev[l] = prev[l]
    /\ Leads(r, D)

LEMMA KmemBuilt ==
    ASSUME NEW k \in Kmem, NEW D \in SUBSET Buddies, NEW b \in D, NEW bits,
           bits \in [Levels -> SUBSET Blocks(0)],
           NEW next, NEW prev, Fields(next, prev, D)
    PROVE  IsBuilt(Built(k, b, bits, prev, next), k, D, b, bits, prev, next)
<1>. DEFINE r == Built(k, b, bits, prev, next)
<1>1. k.bits \in [Buddies -> [Levels -> SUBSET Blocks(0)]] /\ b \in Buddies
  BY DEF Kmem
<1>2. [k.bits EXCEPT ![b] = bits] \in [Buddies -> [Levels -> SUBSET Blocks(0)]]
  BY <1>1
<1>3. [l \in Levels |-> prev[l]]
        \in [Levels -> PrevType]
  BY DEF PrevType, Fields
<1>4. \A l \in Levels : next[l] \in [{Allocator} \cup Buddies -> {NULL} \cup Buddies]
  BY DEF NextIn, Fields
<1>5. [l \in Levels |-> next[l]]
        \in [Levels -> [{Allocator} \cup Buddies -> {NULL} \cup Buddies]]
  BY <1>4
<1>6. r \in Kmem
  BY <1>2, <1>3, <1>5 DEF Kmem, Built, PrevType
<1>7. r.bits = [k.bits EXCEPT ![b] = bits]
      /\ \A l \in Levels : r.next[l] = next[l] /\ r.prev[l] = prev[l]
  BY DEF Built
<1>8. Leads(r, D)
  <2>. HIDE DEF r
  <2>. QED BY <1>7 DEF NextIn, Leads, Fields
<1>. QED BY <1>1, <1>6, <1>7, <1>8 DEF IsBuilt

\* mark_alloc clears the bits of M in buddy b, and keeps the lists leading to
\* buddies in use.
LEMMA MarkAlloc ==
    ASSUME NEW k \in Kmem, NEW D \in SUBSET Buddies, NEW b \in D,
           Leads(k, D),
           NEW M, NEW r, r = mark_alloc(k, b, M)
    PROVE  /\ r \in Kmem
           /\ \A l \in Levels : r.bits[b][l] = k.bits[b][l] \ M[l]
           /\ \A c \in Buddies : c # b => r.bits[c] = k.bits[c]
           /\ Leads(r, D)
           /\ \A l \in Levels :
                IF M[l] # {} /\ r.bits[b][l] = {}
                THEN r.next[l] = UnlinkNext(k, l, b) /\ r.prev[l] = UnlinkPrev(k, l, b)
                ELSE r.next[l] = k.next[l] /\ r.prev[l] = k.prev[l]
<1>. DEFINE left == [l \in Levels |-> k.bits[b][l] \ M[l]]
            out(l) == M[l] # {} /\ left[l] = {}
            u == [l \in Levels |-> IF out(l) THEN Unlink(k, l, b) ELSE k]
            next == [l \in Levels |-> u[l].next[l]]
            prev == [l \in Levels |-> u[l].prev[l]]
<1>1. r = [bits |-> [k.bits EXCEPT ![b] = left],
           prev |-> [l \in Levels |-> u[l].prev[l]],
           next |-> [l \in Levels |-> u[l].next[l]]]
  BY DEF mark_alloc
<1>2. left \in [Levels -> SUBSET Blocks(0)]
  BY DEF Kmem
<1>3. \A l \in Levels :
        IF out(l)
        THEN next[l] = UnlinkNext(k, l, b) /\ prev[l] = UnlinkPrev(k, l, b)
        ELSE next[l] = k.next[l] /\ prev[l] = k.prev[l]
  <2>. SUFFICES ASSUME NEW l \in Levels
                PROVE  IF out(l)
                       THEN next[l] = UnlinkNext(k, l, b) /\ prev[l] = UnlinkPrev(k, l, b)
                       ELSE next[l] = k.next[l] /\ prev[l] = k.prev[l]
    OBVIOUS
  <2>1. next[l] = u[l].next[l] /\ prev[l] = u[l].prev[l]
        /\ u[l] = IF out(l) THEN Unlink(k, l, b) ELSE k
    OBVIOUS
  <2>. HIDE DEF u, next, prev, out
  <2>. QED BY <2>1, Surgery
<1>4. Fields(next, prev, D)
  <2>. SUFFICES ASSUME NEW l \in Levels
                PROVE  next[l] \in NextIn(D) /\ prev[l] \in PrevType
    BY DEF Fields
  <2>. HIDE DEF next, prev, out
  <2>1. /\ k.next[l] \in NextIn(D)
        /\ k.prev[l] \in PrevType
    BY KmemParts DEF NextIn, PrevType, Leads
  <2>2. /\ UnlinkNext(k, l, b) \in NextIn(D)
        /\ UnlinkPrev(k, l, b) \in PrevType
    BY SurgeryTypes
  <2>. QED BY <1>3, <2>1, <2>2
<1>5. r = Built(k, b, left, prev, next)
  BY <1>1 DEF Built
<1>6. \A l \in Levels : left[l] = k.bits[b][l] \ M[l]
  OBVIOUS
<1>. HIDE DEF next, prev, u, left
<1>built. IsBuilt(r, k, D, b, left, prev, next)
  BY <1>2, <1>4, <1>5, KmemBuilt
<1>7. /\ r \in Kmem
      /\ r.bits[b] = left /\ \A c \in Buddies : c # b => r.bits[c] = k.bits[c]
      /\ \A l \in Levels : r.next[l] = next[l] /\ r.prev[l] = prev[l]
      /\ Leads(r, D)
  BY <1>built DEF IsBuilt
<1>. QED BY <1>3, <1>6, <1>7

Marked(M) == \A l \in Levels : M[l] \subseteq Blocks(0)

\* mark_free sets the bits of M.
LEMMA MarkFree ==
    ASSUME NEW k \in Kmem, NEW D \in SUBSET Buddies, NEW b \in D,
           Leads(k, D),
           NEW M, Marked(M),
           NEW r, r = mark_free(k, b, M)
    PROVE  /\ r \in Kmem
           /\ \A l \in Levels : r.bits[b][l] = k.bits[b][l] \cup M[l]
           /\ \A c \in Buddies : c # b => r.bits[c] = k.bits[c]
           /\ Leads(r, D)
           /\ \A l \in Levels :
                IF M[l] # {} /\ k.prev[l][b] = NULL /\ k.bits[b][l] = {}
                THEN r.next[l] = LinkNext(k, l, b) /\ r.prev[l] = LinkPrev(k, l, b)
                ELSE r.next[l] = k.next[l] /\ r.prev[l] = k.prev[l]
<1>. DEFINE set == [l \in Levels |-> k.bits[b][l] \cup M[l]]
            in(l) == M[l] # {} /\ k.prev[l][b] = NULL /\ k.bits[b][l] = {}
            u == [l \in Levels |-> IF in(l) THEN Link(k, l, b) ELSE k]
            next == [l \in Levels |-> u[l].next[l]]
            prev == [l \in Levels |-> u[l].prev[l]]
<1>1. r = [bits |-> [k.bits EXCEPT ![b] = set],
           prev |-> [l \in Levels |-> u[l].prev[l]],
           next |-> [l \in Levels |-> u[l].next[l]]]
  BY DEF mark_free
<1>2. set \in [Levels -> SUBSET Blocks(0)]
  BY DEF Kmem, Marked
<1>3. \A l \in Levels :
        IF in(l)
        THEN next[l] = LinkNext(k, l, b) /\ prev[l] = LinkPrev(k, l, b)
        ELSE next[l] = k.next[l] /\ prev[l] = k.prev[l]
  <2>. SUFFICES ASSUME NEW l \in Levels
                PROVE  IF in(l)
                       THEN next[l] = LinkNext(k, l, b) /\ prev[l] = LinkPrev(k, l, b)
                       ELSE next[l] = k.next[l] /\ prev[l] = k.prev[l]
    OBVIOUS
  <2>1. next[l] = u[l].next[l] /\ prev[l] = u[l].prev[l]
        /\ u[l] = IF in(l) THEN Link(k, l, b) ELSE k
    OBVIOUS
  <2>. HIDE DEF u, next, prev, in
  <2>. QED BY <2>1, Surgery
<1>4. Fields(next, prev, D)
  <2>. SUFFICES ASSUME NEW l \in Levels
                PROVE  next[l] \in NextIn(D) /\ prev[l] \in PrevType
    BY DEF Fields
  <2>. HIDE DEF next, prev, in
  <2>1. /\ k.next[l] \in NextIn(D)
        /\ k.prev[l] \in PrevType
    BY KmemParts DEF NextIn, PrevType, Leads
  <2>2. /\ LinkNext(k, l, b) \in NextIn(D)
        /\ LinkPrev(k, l, b) \in PrevType
    BY SurgeryTypes
  <2>. QED BY <1>3, <2>1, <2>2
<1>5. r = Built(k, b, set, prev, next)
  BY <1>1 DEF Built
<1>6. \A l \in Levels : set[l] = k.bits[b][l] \cup M[l]
  OBVIOUS
<1>. HIDE DEF next, prev, u, set
<1>built. IsBuilt(r, k, D, b, set, prev, next)
  BY <1>2, <1>4, <1>5, KmemBuilt
<1>7. /\ r \in Kmem
      /\ r.bits[b] = set /\ \A c \in Buddies : c # b => r.bits[c] = k.bits[c]
      /\ \A l \in Levels : r.next[l] = next[l] /\ r.prev[l] = prev[l]
      /\ Leads(r, D)
  BY <1>built DEF IsBuilt
<1>. QED BY <1>3, <1>6, <1>7

\* A block number is also the number of a page.
LEMMA BlockNumber ==
    ASSUME NEW l \in Levels, NEW i \in Blocks(l)
    PROVE  i \in Blocks(0)
<1>. DEFINE r == MaxLevel - l
            s == Tops * Size[r]
<1>1. /\ r \in Levels /\ Size[r] \in Nat /\ Size[l] \in Nat /\ Size[l] > 0
      /\ l \in Nat /\ r + l = MaxLevel /\ MaxLevel \in Levels /\ MaxLevel - 0 = MaxLevel
  BY SizeDef, LevelAssumption DEF Levels
<1>2. Size[MaxLevel] = Size[r] * Size[l]
  BY <1>1, SizeAdd
<1>3. s \in Nat
  BY <1>1, TopsAssumption
<1>4. i \in Nat /\ i < s
  BY <1>3 DEF Blocks
<1>. HIDE DEF r
<1>5. \A a, b, c \in Nat : a * (b * c) = (a * b) * c
  OBVIOUS
<1>6. Tops * Size[MaxLevel] = s * Size[l]
  BY <1>1, <1>2, <1>5, TopsAssumption
<1>. HIDE DEF s
<1>7. \A a, b, c \in Nat : a < b /\ c > 0 => b * c \in Nat /\ a < b * c
  OBVIOUS
<1>8. i < Tops * Size[MaxLevel] /\ Tops * Size[MaxLevel] \in Nat
  BY <1>1, <1>3, <1>4, <1>6, <1>7
<1>. QED BY <1>1, <1>4, <1>8 DEF Blocks

\* The pages in use when a block is given out, and when it is taken back.
Grows(U, u) ==
    /\ PagesIn(U \cup {u}, u.b) = PagesIn(U, u.b) \cup Pages(u)
    /\ \A c : c # u.b => PagesIn(U \cup {u}, c) = PagesIn(U, c)

Apart(U, u) == \A v \in U : u # v /\ u.b = v.b => Pages(u) \cap Pages(v) = {}

Shrinks(U, u) ==
    /\ PagesIn(U \ {u}, u.b) = PagesIn(U, u.b) \ Pages(u)
    /\ \A c : c # u.b => PagesIn(U \ {u}, c) = PagesIn(U, c)
    /\ Pages(u) \subseteq PagesIn(U, u.b)

LEMMA PagesInUse ==
    ASSUME NEW U, NEW u
    PROVE  Grows(U, u) /\ (u \in U /\ Apart(U, u) => Shrinks(U, u))
<1>1. \A V, c, q : q \in PagesIn(V, c) <=> \E w \in V : w.b = c /\ q \in Pages(w)
  BY DEF PagesIn
<1>2. PagesIn(U \cup {u}, u.b) = PagesIn(U, u.b) \cup Pages(u)
  BY <1>1
<1>3. ASSUME NEW c, c # u.b PROVE PagesIn(U \cup {u}, c) = PagesIn(U, c)
  <2>1. \A w : w \in U \cup {u} /\ w.b = c <=> w \in U /\ w.b = c
    BY <1>3
  <2>2. \A q : q \in PagesIn(U \cup {u}, c) <=> q \in PagesIn(U, c)
    BY <1>1, <2>1
  <2>. QED BY <2>2
<1>4. ASSUME NEW c, c # u.b PROVE PagesIn(U \ {u}, c) = PagesIn(U, c)
  <2>1. \A w : w \in U \ {u} /\ w.b = c <=> w \in U /\ w.b = c
    BY <1>4
  <2>2. \A q : q \in PagesIn(U \ {u}, c) <=> q \in PagesIn(U, c)
    BY <1>1, <2>1
  <2>. QED BY <2>2
<1>5. ASSUME u \in U, Apart(U, u)
      PROVE  PagesIn(U \ {u}, u.b) = PagesIn(U, u.b) \ Pages(u)
  BY <1>1, <1>5 DEF Apart
<1>6. ASSUME u \in U PROVE Pages(u) \subseteq PagesIn(U, u.b)
  BY <1>1, <1>6
<1>7. Grows(U, u)
  BY <1>2, <1>3 DEF Grows
<1>8. ASSUME u \in U, Apart(U, u) PROVE Shrinks(U, u)
  BY <1>4, <1>5, <1>6, <1>8 DEF Shrinks
<1>. QED BY <1>7, <1>8

\* The marks of a block are blocks of their level.
LEMMA MarksTyped ==
    ASSUME NEW F, NEW n \in Levels, NEW i \in Blocks(n), NEW l \in Levels
    PROVE  FreeMarks(F, n, i)[l] \subseteq Blocks(0)
<1>1. CASE l <= n
  <2>1. FreeMarks(F, n, i)[l] \subseteq Blocks(l)
    BY <1>1 DEF FreeMarks, Inside
  <2>. QED BY <2>1, BlockNumber
<1>2. CASE ~ (l <= n)
  <2>1. l - n \in Levels /\ n + (l - n) = l
    BY <1>2, LevelAssumption DEF Levels
  <2>2. Ancestor(i, l - n) \in Blocks(l)
    BY <2>1, BlockFacts
  <2>3. FreeMarks(F, n, i)[l] \subseteq {Ancestor(i, l - n)}
    BY <1>2 DEF FreeMarks
  <2>. QED BY <2>2, <2>3, BlockNumber
<1>. QED BY <1>1, <1>2

\* buddy::alloc of a free block keeps the bitmaps exact, and the block it
\* gives out overlaps no other.
LEMMA AllocStep ==
    ASSUME NEW pos, NEW U, NEW k, KmemOK(k, pos, U), UsedOK(pos, U),
           NEW n \in Levels, NEW b \in Upto(pos), NEW i \in k.bits[b][n],
           NEW u, u = [b |-> b, l |-> n, i |-> i],
           NEW r, r = alloc(k, b, n, i)
    PROVE  KmemOK(r, pos, U \cup {u}) /\ UsedOK(pos, U \cup {u})
<1>. DEFINE P == PagesIn(U, b)
            M == AllocMarks(k.bits[b], n, i)
<1>1. /\ k \in Kmem /\ b \in Buddies /\ Upto(pos) \in SUBSET Buddies
      /\ Leads(k, Upto(pos))
      /\ \A c \in Upto(pos) : Exact(k.bits[c], PagesIn(U, c))
  BY DEF KmemOK, Upto
<1>2. /\ u.b = b /\ u.l = n /\ u.i = i /\ Pages(u) = Inside(i, n, 0)
  BY DEF Pages
<1>3. i \in FreeIn(P, n) /\ i \in Blocks(n)
  BY <1>1 DEF FreeIn, Exact
<1>4. r = mark_alloc(k, b, M)
  BY DEF alloc
<1>5. ASSUME NEW l \in Levels
      PROVE  FreeIn(P \cup Inside(i, n, 0), l) = k.bits[b][l] \ M[l]
  <2>. DEFINE F == k.bits[b]
  <2>1. Exact(F, P)
    BY <1>1
  <2>. HIDE DEF F, P
  <2>2. AllocExact(F, P, n, i)
    BY <1>3, <2>1, AllocMarksExact
  <2>. QED BY <2>2 DEF F, AllocExact
<1>. HIDE DEF M
<1>6. /\ r \in Kmem
      /\ \A l \in Levels : r.bits[b][l] = k.bits[b][l] \ M[l]
      /\ \A c \in Buddies : c # b => r.bits[c] = k.bits[c]
      /\ Leads(r, Upto(pos))
  BY <1>1, <1>4, MarkAlloc
<1>7. /\ PagesIn(U \cup {u}, b) = P \cup Inside(i, n, 0)
      /\ \A c : c # b => PagesIn(U \cup {u}, c) = PagesIn(U, c)
  <2>1. /\ PagesIn(U \cup {u}, u.b) = PagesIn(U, u.b) \cup Pages(u)
        /\ \A c : c # u.b => PagesIn(U \cup {u}, c) = PagesIn(U, c)
    BY PagesInUse DEF Grows
  <2>. QED BY <1>2, <2>1, Zenon
<1>. HIDE DEF P
<1>8. ASSUME NEW c \in Upto(pos), NEW l \in Levels
      PROVE  r.bits[c][l] = FreeIn(PagesIn(U \cup {u}, c), l)
  <2>. USE DEF Exact
  <2>1. CASE c = b
    BY <1>5, <1>6, <1>7, <2>1
  <2>2. CASE c # b
    BY <1>1, <1>6, <1>7, <2>2
  <2>. QED BY <2>1, <2>2
<1>9. KmemOK(r, pos, U \cup {u})
  BY <1>6, <1>8 DEF KmemOK, Exact
<1>10. /\ u \in [b : Buddies, l : Levels, i : Blocks(0)]
       /\ u.b \in Upto(pos) /\ u.i \in Blocks(u.l)
  BY <1>1, <1>2, <1>3, BlockNumber
<1>11. ASSUME NEW v \in U, v.b = b PROVE Pages(v) \cap Pages(u) = {}
  <2>1. Pages(v) \subseteq P
    BY <1>11 DEF P, PagesIn
  <2>. QED BY <1>2, <1>3, <2>1 DEF FreeIn
<1>12. UsedOK(pos, U \cup {u})
  BY <1>2, <1>10, <1>11 DEF UsedOK
<1>. QED BY <1>9, <1>12

\* buddy::free of pages of a used block keeps the bitmaps exact, for blocks V
\* that hold these pages no more, and nothing else changed.
LEMMA FreeStep ==
    ASSUME NEW pos, NEW U, NEW k, KmemOK(k, pos, U),
           NEW n \in Levels, NEW b \in Upto(pos), NEW i \in Blocks(n),
           Inside(i, n, 0) \subseteq PagesIn(U, b),
           NEW V, PagesIn(V, b) = PagesIn(U, b) \ Inside(i, n, 0),
           \A c \in Upto(pos) : c # b => PagesIn(V, c) = PagesIn(U, c),
           NEW r, r = free(k, b, n, i)
    PROVE  KmemOK(r, pos, V)
<1>. DEFINE P == PagesIn(U, b)
            M == FreeMarks(k.bits[b], n, i)
<1>1. /\ k \in Kmem /\ b \in Buddies /\ Upto(pos) \in SUBSET Buddies
      /\ Leads(k, Upto(pos))
      /\ \A c \in Upto(pos) : Exact(k.bits[c], PagesIn(U, c))
  BY DEF KmemOK, Upto
<1>2. r = mark_free(k, b, M) /\ Marked(M)
  BY MarksTyped DEF free, Marked
<1>3. ASSUME NEW l \in Levels
      PROVE  FreeIn(P \ Inside(i, n, 0), l) = k.bits[b][l] \cup M[l]
  <2>. DEFINE F == k.bits[b]
  <2>1. Exact(F, P) /\ Inside(i, n, 0) \subseteq P
    BY <1>1
  <2>. HIDE DEF F, P
  <2>2. FreeExact(F, P, n, i)
    BY <2>1, FreeMarksExact
  <2>. QED BY <2>2 DEF F, FreeExact
<1>. HIDE DEF M
<1>4. /\ r \in Kmem
      /\ \A l \in Levels : r.bits[b][l] = k.bits[b][l] \cup M[l]
      /\ \A c \in Buddies : c # b => r.bits[c] = k.bits[c]
      /\ Leads(r, Upto(pos))
  BY <1>1, <1>2, MarkFree
<1>5. PagesIn(V, b) = P \ Inside(i, n, 0)
  OBVIOUS
<1>. HIDE DEF P
<1>6. ASSUME NEW c \in Upto(pos), NEW l \in Levels
      PROVE  r.bits[c][l] = FreeIn(PagesIn(V, c), l)
  <2>. USE DEF Exact
  <2>1. CASE c = b
    BY <1>3, <1>4, <1>5, <2>1
  <2>2. CASE c # b
    <3>1. PagesIn(V, c) = PagesIn(U, c)
      BY <2>2
    <3>. QED BY <1>1, <1>4, <2>2, <3>1
  <2>. QED BY <2>1, <2>2
<1>. QED BY <1>4, <1>6 DEF KmemOK, Exact

\* With one buddy, alloc and free keep the lists exact.
LEMMA OneStep ==
    ASSUME NEW k, NEW pos, NEW U, KmemOK(k, pos, U), OneOK(k), 1 \in Upto(pos),
           NEW n \in Levels, NEW i
    PROVE  /\ OneOK(alloc(k, 1, n, i))
           /\ i \in Blocks(n) => OneOK(free(k, 1, n, i))
<1>1. /\ k \in Kmem /\ 1 \in Buddies /\ Upto(pos) \in SUBSET Buddies
      /\ Leads(k, Upto(pos))
      /\ Allocator # 1 /\ Allocator # NULL /\ 1 # NULL
  BY NULLAssumption DEF KmemOK, Upto, Allocator
<1>2. ASSUME NEW l \in Levels
      PROVE  /\ k.next[l] \in [{Allocator} \cup Buddies -> {NULL} \cup Buddies]
             /\ k.prev[l] \in [Buddies -> {NULL, Allocator} \cup Buddies]
             /\ k.next[l][Allocator] = IF k.bits[1][l] = {} THEN NULL ELSE 1
             /\ k.prev[l][1] = IF k.bits[1][l] = {} THEN NULL ELSE Allocator
             /\ k.next[l][1] = NULL
  BY <1>1, KmemParts DEF OneOK
<1>3. OneOK(alloc(k, 1, n, i))
  <2>. DEFINE M == AllocMarks(k.bits[1], n, i)
              r == alloc(k, 1, n, i)
  <2>1. r = mark_alloc(k, 1, M)
    BY DEF alloc
  <2>. HIDE DEF M, r
  <2>2. /\ \A l \in Levels : r.bits[1][l] = k.bits[1][l] \ M[l]
        /\ \A l \in Levels :
                IF M[l] # {} /\ r.bits[1][l] = {}
                THEN r.next[l] = UnlinkNext(k, l, 1) /\ r.prev[l] = UnlinkPrev(k, l, 1)
                ELSE r.next[l] = k.next[l] /\ r.prev[l] = k.prev[l]
    BY <1>1, <2>1, MarkAlloc
  <2>3. ASSUME NEW l \in Levels
        PROVE  /\ r.next[l][Allocator] = IF r.bits[1][l] = {} THEN NULL ELSE 1
               /\ r.prev[l][1] = IF r.bits[1][l] = {} THEN NULL ELSE Allocator
               /\ r.next[l][1] = NULL
    <3>1. CASE M[l] # {} /\ r.bits[1][l] = {} /\ k.bits[1][l] = {}
      BY <1>1, <1>2, <2>2, <3>1 DEF UnlinkNext, UnlinkPrev, Set
    <3>2. CASE M[l] # {} /\ r.bits[1][l] = {} /\ k.bits[1][l] # {}
      BY <1>1, <1>2, <2>2, <3>2 DEF UnlinkNext, UnlinkPrev, Set
    <3>3. CASE ~ (M[l] # {} /\ r.bits[1][l] = {})
      BY <1>1, <1>2, <2>2, <3>3
    <3>. QED BY <3>1, <3>2, <3>3
  <2>4. OneOK(r)
    BY <2>3 DEF OneOK
  <2>. QED BY <2>4 DEF r
<1>4. ASSUME i \in Blocks(n) PROVE OneOK(free(k, 1, n, i))
  <2>. DEFINE M == FreeMarks(k.bits[1], n, i)
              r == free(k, 1, n, i)
  <2>1. r = mark_free(k, 1, M) /\ Marked(M)
    BY <1>4, MarksTyped DEF free, Marked
  <2>. HIDE DEF M, r
  <2>2. /\ \A l \in Levels : r.bits[1][l] = k.bits[1][l] \cup M[l]
        /\ \A l \in Levels :
                IF M[l] # {} /\ k.prev[l][1] = NULL /\ k.bits[1][l] = {}
                THEN r.next[l] = LinkNext(k, l, 1) /\ r.prev[l] = LinkPrev(k, l, 1)
                ELSE r.next[l] = k.next[l] /\ r.prev[l] = k.prev[l]
    BY <1>1, <2>1, MarkFree
  <2>3. ASSUME NEW l \in Levels
        PROVE  /\ r.next[l][Allocator] = IF r.bits[1][l] = {} THEN NULL ELSE 1
               /\ r.prev[l][1] = IF r.bits[1][l] = {} THEN NULL ELSE Allocator
               /\ r.next[l][1] = NULL
    <3>1. CASE M[l] # {} /\ k.prev[l][1] = NULL /\ k.bits[1][l] = {}
      <4>1. r.bits[1][l] # {} /\ r.next[l] = LinkNext(k, l, 1)
            /\ r.prev[l] = LinkPrev(k, l, 1)
        BY <2>2, <3>1
      <4>2. /\ LinkNext(k, l, 1) = [k.next[l] EXCEPT ![1] = NULL, ![Allocator] = 1]
            /\ LinkPrev(k, l, 1) = [k.prev[l] EXCEPT ![1] = Allocator]
        BY <1>2, <3>1 DEF LinkNext, LinkPrev, Set
      <4>. QED BY <1>1, <1>2, <4>1, <4>2
    <3>2. CASE ~ (M[l] # {} /\ k.prev[l][1] = NULL /\ k.bits[1][l] = {})
      BY <1>1, <1>2, <2>2, <3>2
    <3>. QED BY <3>1, <3>2
  <2>4. OneOK(r)
    BY <2>3 DEF OneOK
  <2>. QED BY <2>4 DEF r
<1>. QED BY <1>3, <1>4

\* A new buddy is entirely free, and first in every list.
LEMMA NewBuddy ==
    ASSUME NEW k, NEW pos \in Nat, NEW U, KmemOK(k, pos, U), UsedOK(pos, U),
           NEW b \in Buddies, b = pos + 1, NEW r, r = kmem_buddy_new(k, b)
    PROVE  /\ KmemOK(r, pos + 1, U) /\ UsedOK(pos + 1, U) /\ b \in Upto(pos + 1)
           /\ \A l \in Levels : r.next[l][Allocator] = b /\ r.bits[b][l] = Blocks(l)
<1>. DEFINE D == Upto(pos + 1)
            bits == [l \in Levels |-> Blocks(l)]
            next == [l \in Levels |-> LinkNext(k, l, b)]
            prev == [l \in Levels |-> [k.prev[l] EXCEPT ![b] = Allocator]]
<1>1. /\ k \in Kmem /\ b \in D /\ D \in SUBSET Buddies /\ Upto(pos) \subseteq D
      /\ Leads(k, D)
      /\ \A c \in Upto(pos) : Exact(k.bits[c], PagesIn(U, c))
      /\ \A c \in D : c # b => c \in Upto(pos)
      /\ b \notin Upto(pos)
  BY BuddiesAssumption DEF KmemOK, Upto, Buddies, Leads
<1>2. bits \in [Levels -> SUBSET Blocks(0)]
  BY BlockNumber
<1>3. r = Built(k, b, bits, prev, next)
  BY DEF kmem_buddy_new, Built, LinkNext
<1>4. ASSUME NEW l \in Levels
      PROVE  /\ next[l] \in NextIn(D) /\ prev[l] \in PrevType
             /\ next[l][Allocator] = b
  <2>1. k.next[l] \in [{Allocator} \cup Buddies -> {NULL} \cup Buddies]
        /\ k.prev[l] \in PrevType
    BY <1>1, KmemParts DEF PrevType
  <2>2. next[l] = LinkNext(k, l, b) /\ prev[l] = [k.prev[l] EXCEPT ![b] = Allocator]
    OBVIOUS
  <2>. HIDE DEF next, prev, D
  <2>3. next[l] \in NextIn(D)
    BY <1>1, <2>2, SurgeryTypes
  <2>4. next[l][Allocator] = b
    BY <2>1, <2>2 DEF LinkNext
  <2>. QED BY <2>1, <2>2, <2>3, <2>4 DEF PrevType
<1>5. (\A l \in Levels : bits[l] = Blocks(l)) /\ Fields(next, prev, D)
  BY <1>4 DEF Fields
<1>. HIDE DEF next, prev, D, bits
<1>built. IsBuilt(r, k, D, b, bits, prev, next)
  BY <1>1, <1>2, <1>3, <1>5, KmemBuilt
<1>6. /\ r \in Kmem
      /\ r.bits[b] = bits /\ \A c \in Buddies : c # b => r.bits[c] = k.bits[c]
      /\ \A l \in Levels : r.next[l] = next[l] /\ r.prev[l] = prev[l]
      /\ Leads(r, D)
  BY <1>built DEF IsBuilt
<1>7. PagesIn(U, b) = {}
  BY <1>1 DEF UsedOK, PagesIn
<1>8. ASSUME NEW c \in D, NEW l \in Levels
      PROVE  r.bits[c][l] = FreeIn(PagesIn(U, c), l)
  <2>. USE DEF Exact
  <2>1. CASE c = b
    BY <1>5, <1>6, <1>7, <2>1 DEF FreeIn
  <2>2. CASE c # b
    BY <1>1, <1>6, <2>2
  <2>. QED BY <2>1, <2>2
<1>9. KmemOK(r, pos + 1, U)
  BY <1>6, <1>8 DEF KmemOK, Exact, D
<1>10. UsedOK(pos + 1, U)
  BY <1>1 DEF UsedOK, D
<1>. QED BY <1>1, <1>4, <1>5, <1>6, <1>9, <1>10 DEF D

----------------------------------------------------------------------------
(***************************************************************************)
(* The inductive invariant: the bitmaps of the buddies in use say exactly  *)
(* which blocks have no page in use, next fields lead to these buddies,    *)
(* the blocks given out do not overlap, and the lists of a single buddy    *)
(* hold it exactly if it has a free block.                                 *)
(***************************************************************************)
BInv ==
    /\ TypeOK
    /\ buddy_array_pos >= 1
    /\ panic = "no" => buddy_array_pos <= MaxBuddies
    /\ KmemOK(kmem, buddy_array_pos, used)
    /\ UsedOK(buddy_array_pos, used)
    /\ buddy_array_pos = 1 => OneOK(kmem)

\* The lowest block is one of the blocks.
LEMMA FirstIn ==
    ASSUME NEW S \in SUBSET Nat, S # {}
    PROVE  First(S) \in S
<1>1. \E x \in S : \A y \in S : x <= y
  BY LeastNat
<1>. QED BY <1>1 DEF First

\* A level has at least one block.
LEMMA BlocksNat ==
    ASSUME NEW l \in Levels
    PROVE  Blocks(l) \in SUBSET Nat /\ 0 \in Blocks(l)
<1>1. MaxLevel - l \in Levels
  BY LevelAssumption DEF Levels
<1>2. Size[MaxLevel - l] \in Nat /\ Size[MaxLevel - l] > 0
  BY <1>1, SizeDef
<1>3. \A a, b \in Nat : a > 0 /\ b > 0 => a * b \in Nat /\ a * b > 0
  OBVIOUS
<1>4. Tops * Size[MaxLevel - l] \in Nat /\ Tops * Size[MaxLevel - l] > 0
  BY <1>2, <1>3, TopsAssumption
<1>. QED BY <1>4 DEF Blocks

\* buddy_alloc from a kmem that is in order.
LEMMA AllocFrom ==
    ASSUME NEW k, NEW pos, KmemOK(k, pos, used), UsedOK(pos, used),
           NEW n \in Levels, NEW b \in Upto(pos), b = k.next[n][Allocator],
           k.bits[b][n] # {}, buddy_alloc(k, n)
    PROVE  /\ KmemOK(kmem', pos, used') /\ UsedOK(pos, used')
           /\ used \subseteq used' /\ panic' = panic
           /\ \E i : kmem' = alloc(k, b, n, i)
<1>. DEFINE i == First(k.bits[b][n])
            u == [b |-> b, l |-> n, i |-> i]
            r == alloc(k, b, n, i)
<1>1. k.bits[b][n] \subseteq Blocks(n)
  BY DEF KmemOK, Exact, FreeIn
<1>2. k.bits[b][n] \in SUBSET Nat
  BY <1>1, BlocksNat
<1>3. i \in k.bits[b][n]
  BY <1>2, FirstIn
<1>4. kmem' = r /\ used' = used \cup {u} /\ panic' = panic
  BY DEF buddy_alloc
<1>5. KmemOK(r, pos, used \cup {u}) /\ UsedOK(pos, used \cup {u})
  <2>. HIDE DEF i
  <2>. QED BY <1>3, AllocStep
<1>. QED BY <1>4, <1>5

\* The buddies in use after the counter passed the end of buddy_array.
LEMMA Overrun ==
    ASSUME NEW k, NEW U, NEW pos \in Nat, pos = MaxBuddies,
           KmemOK(k, pos, U), UsedOK(pos, U)
    PROVE  KmemOK(k, pos + 1, U) /\ UsedOK(pos + 1, U)
<1>1. Upto(pos + 1) = Upto(pos)
  BY BuddiesAssumption DEF Upto, Buddies
<1>. QED BY <1>1 DEF KmemOK, UsedOK

\* What the parts of the invariant say about types.
LEMMA PartsTyped ==
    ASSUME NEW k, NEW pos, NEW U, KmemOK(k, pos, U), UsedOK(pos, U)
    PROVE  k \in Kmem /\ U \subseteq [b : Buddies, l : Levels, i : Blocks(0)]
  BY DEF KmemOK, UsedOK

\* kmem_alloc keeps the invariant.
LEMMA AllocInv ==
    ASSUME BInv, NEW n \in Levels, kmem_alloc(n)
    PROVE  BInv'
<1>. DEFINE pos == buddy_array_pos
            b == kmem.next[n][Allocator]
<1>1. /\ KmemOK(kmem, pos, used) /\ UsedOK(pos, used) /\ pos \in Nat /\ pos >= 1
      /\ panic = "no" /\ pos <= MaxBuddies /\ lost \subseteq used /\ lost' = lost
      /\ pos = 1 => OneOK(kmem)
      /\ panic \in {"no", "no free block", "buddy_array"}
  BY DEF BInv, TypeOK, kmem_alloc
<1>2. CASE /\ b # NULL
           /\ buddy_alloc(kmem, n)
           /\ UNCHANGED buddy_array_pos
  <2>1. b \in Upto(pos)
    BY <1>1, <1>2 DEF KmemOK, Leads
  <2>2. CASE kmem.bits[b][n] = {}
    <3>1. panic' = "no free block" /\ UNCHANGED <<kmem, used>>
      BY <2>2 , <1>2 DEF buddy_alloc
    <3>. QED BY <1>1, <1>2, <3>1 DEF BInv, TypeOK
  <2>3. CASE kmem.bits[b][n] # {}
    <3>1. /\ KmemOK(kmem', pos, used') /\ UsedOK(pos, used')
          /\ used \subseteq used' /\ panic' = panic
          /\ \E i : kmem' = alloc(kmem, b, n, i)
      BY <1>1, <1>2, <2>1, <2>3, AllocFrom
    <3>2. pos = 1 => OneOK(kmem')
      <4>. SUFFICES ASSUME pos = 1 PROVE OneOK(kmem')
        OBVIOUS
      <4>1. b = 1 /\ 1 \in Upto(pos)
        BY <2>1 DEF Upto, Buddies
      <4>2. PICK i : kmem' = alloc(kmem, 1, n, i)
        BY <3>1, <4>1
      <4>3. OneOK(alloc(kmem, 1, n, i))
        BY <1>1, <4>1, OneStep
      <4>. QED BY <4>2, <4>3
    <3>3. kmem' \in Kmem /\ used' \subseteq [b : Buddies, l : Levels, i : Blocks(0)]
      BY <3>1, PartsTyped
    <3>. QED BY <1>1, <1>2, <3>1, <3>2, <3>3 DEF BInv, TypeOK
  <2>. QED BY <2>2, <2>3
<1>3. CASE /\ b = NULL
           /\ pos < MaxBuddies
           /\ buddy_alloc(kmem_buddy_new(kmem, pos + 1), n)
           /\ buddy_array_pos' = pos + 1
  <2>. DEFINE c == pos + 1
              k == kmem_buddy_new(kmem, c)
  <2>1. c \in Buddies /\ c # 1
    BY <1>1, <1>3, BuddiesAssumption DEF Buddies
  <2>2. /\ KmemOK(k, c, used) /\ UsedOK(c, used) /\ c \in Upto(c)
        /\ \A l \in Levels : k.next[l][Allocator] = c /\ k.bits[c][l] = Blocks(l)
    BY <1>1, <2>1, NewBuddy
  <2>3. buddy_alloc(k, n)
    BY <1>3
  <2>. HIDE DEF k
  <2>4. k.bits[c][n] # {} /\ k.next[n][Allocator] = c
    BY <2>2, BlocksNat
  <2>5. /\ KmemOK(kmem', c, used') /\ UsedOK(c, used')
        /\ used \subseteq used' /\ panic' = panic
    <3>. HIDE DEF c
    <3>. QED BY <2>2, <2>3, <2>4, AllocFrom
  <2>6. kmem' \in Kmem /\ used' \subseteq [b : Buddies, l : Levels, i : Blocks(0)]
    BY <2>5, PartsTyped
  <2>7. c \in Nat /\ c >= 1 /\ c <= MaxBuddies /\ buddy_array_pos' = c
    BY <1>1, <1>3, BuddiesAssumption
  <2>. HIDE DEF c
  <2>. QED BY <1>1, <2>1, <2>5, <2>6, <2>7 DEF BInv, TypeOK
<1>4. CASE /\ b = NULL
           /\ pos = MaxBuddies
           /\ buddy_array_pos' = pos + 1
           /\ panic' = "buddy_array"
           /\ UNCHANGED <<kmem, used>>
  <2>1. KmemOK(kmem, pos + 1, used) /\ UsedOK(pos + 1, used)
    BY <1>1, <1>4, Overrun
  <2>2. kmem \in Kmem /\ used \subseteq [b : Buddies, l : Levels, i : Blocks(0)]
    BY DEF BInv, TypeOK
  <2>3. pos + 1 \in Nat /\ pos + 1 >= 1 /\ pos + 1 # 1
    BY <1>1
  <2>. QED BY <1>1, <1>4, <2>1, <2>2, <2>3 DEF BInv, TypeOK
<1>. QED BY <1>2, <1>3, <1>4 DEF kmem_alloc

\* A block that was given out.
LEMMA UsedBlock ==
    ASSUME NEW U, NEW pos, UsedOK(pos, U), NEW u \in U
    PROVE  /\ u.b \in Upto(pos) /\ u.b \in Buddies /\ u.l \in Levels
           /\ u.i \in Blocks(u.l) /\ Apart(U, u) /\ UsedOK(pos, U \ {u})
<1>1. u.b \in Upto(pos) /\ u.b \in Buddies /\ u.l \in Levels /\ u.i \in Blocks(u.l)
  BY DEF UsedOK
<1>2. Apart(U, u)
  BY DEF UsedOK, Apart
<1>3. UsedOK(pos, U \ {u})
  BY DEF UsedOK
<1>. QED BY <1>1, <1>2, <1>3

\* kmem_free keeps the invariant.
LEMMA FreeInv ==
    ASSUME BInv, NEW n \in Levels, kmem_free(n)
    PROVE  BInv'
<1>. DEFINE pos == buddy_array_pos
<1>1. /\ KmemOK(kmem, pos, used) /\ UsedOK(pos, used) /\ pos \in Nat /\ pos >= 1
      /\ panic = "no" /\ pos <= MaxBuddies /\ lost \subseteq used
      /\ pos = 1 => OneOK(kmem)
      /\ panic \in {"no", "no free block", "buddy_array"}
      /\ UNCHANGED <<buddy_array_pos, lost, panic>>
  BY DEF BInv, TypeOK, kmem_free
<1>2. PICK u \in used \ lost : /\ u.l = n /\ kmem' = free(kmem, u.b, n, u.i)
                               /\ used' = used \ {u}
  BY DEF kmem_free
<1>3. /\ u.b \in Upto(pos) /\ u.b \in Buddies /\ u.l \in Levels
      /\ u.i \in Blocks(u.l) /\ Apart(used, u) /\ UsedOK(pos, used \ {u})
  BY <1>1, UsedBlock
<1>4. Shrinks(used, u) /\ Pages(u) = Inside(u.i, n, 0)
  BY <1>2, <1>3, PagesInUse DEF Pages
<1>5. /\ Inside(u.i, n, 0) \subseteq PagesIn(used, u.b)
      /\ PagesIn(used \ {u}, u.b) = PagesIn(used, u.b) \ Inside(u.i, n, 0)
      /\ \A c \in Upto(pos) : c # u.b => PagesIn(used \ {u}, c) = PagesIn(used, c)
  BY <1>4 DEF Shrinks
<1>6. KmemOK(kmem', pos, used')
  <2>. DEFINE V == used \ {u}
              i == u.i
              b == u.b
  <2>1. b \in Upto(pos) /\ i \in Blocks(n) /\ kmem' = free(kmem, b, n, i)
    BY <1>2, <1>3
  <2>2. /\ Inside(i, n, 0) \subseteq PagesIn(used, b)
        /\ PagesIn(V, b) = PagesIn(used, b) \ Inside(i, n, 0)
        /\ \A c \in Upto(pos) : c # b => PagesIn(V, c) = PagesIn(used, c)
    BY <1>5
  <2>. HIDE DEF V, i, b
  <2>3. KmemOK(kmem', pos, V)
    BY <1>1, <2>1, <2>2, FreeStep
  <2>. QED BY <1>2, <2>3 DEF V
<1>7. pos = 1 => OneOK(kmem')
  <2>. SUFFICES ASSUME pos = 1 PROVE OneOK(kmem')
    OBVIOUS
  <2>1. u.b = 1 /\ 1 \in Upto(pos)
    BY <1>3 DEF Upto, Buddies
  <2>2. OneOK(free(kmem, 1, n, u.i))
    BY <1>1, <1>2, <1>3, <2>1, OneStep
  <2>. QED BY <1>2, <2>1, <2>2
<1>8. kmem' \in Kmem /\ used' \subseteq [b : Buddies, l : Levels, i : Blocks(0)]
  BY <1>2, <1>3, <1>6, PartsTyped
<1>9. lost' \subseteq used'
  BY <1>1, <1>2
<1>10. UsedOK(pos, used')
  BY <1>2, <1>3
<1>. QED BY <1>1, <1>6, <1>7, <1>8, <1>9, <1>10 DEF BInv, TypeOK

\* The two pages of an 8k block.
LEMMA TwoPages ==
    ASSUME 1 \in Levels, NEW i \in Blocks(1)
    PROVE  /\ 2 * i \in Blocks(0) /\ 2 * i + 1 \in Blocks(0)
           /\ Inside(i, 1, 0) = {2 * i, 2 * i + 1}
           /\ Inside(2 * i, 0, 0) = {2 * i}
           /\ Inside(2 * i + 1, 0, 0) = {2 * i + 1}
<1>1. i \in Nat /\ 0 \in Levels /\ 0 + 1 \in Levels /\ Size[1] = 2 /\ Size[0] = 1
  BY BlockFacts, SizeDef, LevelAssumption DEF Levels
<1>2. PICK q \in Blocks(0) : Ancestor(q, 1) = i
  BY BlockPage
<1>3. Blocks(0) \in SUBSET Nat
  BY <1>1, BlocksNat
<1>4. Sibling(q) \in Blocks(0)
  BY <1>1, <1>3, Siblings
<1>5. q \in Nat /\ q \div 2 = i
  BY <1>1, <1>2, <1>3 DEF Ancestor
<1>6. \A x, y \in Nat : x \div 2 = y <=> x = 2 * y \/ x = 2 * y + 1
  OBVIOUS
<1>7. \/ q = 2 * i /\ Sibling(q) = 2 * i + 1
      \/ q = 2 * i + 1 /\ Sibling(q) = 2 * i
  BY <1>1, <1>5, <1>6 DEF Sibling
<1>8. 2 * i \in Blocks(0) /\ 2 * i + 1 \in Blocks(0)
  BY <1>4, <1>7
<1>9. \A p \in Blocks(0) : Ancestor(p, 1) = p \div 2 /\ Ancestor(p, 0) = p
  BY <1>1, <1>3, BlockFacts DEF Ancestor
<1>10. /\ \A p : p \in Inside(i, 1, 0) <=> p \in Blocks(0) /\ Ancestor(p, 1) = i
       /\ \A p : p \in Inside(2 * i, 0, 0) <=> p \in Blocks(0) /\ Ancestor(p, 0) = 2 * i
       /\ \A p : p \in Inside(2 * i + 1, 0, 0)
                    <=> p \in Blocks(0) /\ Ancestor(p, 0) = 2 * i + 1
  BY <1>1, PagesOf
<1>11. Inside(i, 1, 0) = {2 * i, 2 * i + 1}
  <2>1. \A p : p \in Inside(i, 1, 0) <=> p = 2 * i \/ p = 2 * i + 1
    BY <1>1, <1>3, <1>6, <1>8, <1>9, <1>10
  <2>. QED BY <2>1
<1>. QED BY <1>8, <1>9, <1>10, <1>11

\* free_stack keeps the invariant: the other half stays in use.
LEMMA StackInv ==
    ASSUME BInv, free_stack
    PROVE  BInv'
<1>. DEFINE pos == buddy_array_pos
            half(w) == [b |-> w.b, l |-> 0, i |-> 2 * w.i + 1]
<1>1. /\ KmemOK(kmem, pos, used) /\ UsedOK(pos, used) /\ pos \in Nat /\ pos >= 1
      /\ panic = "no" /\ pos <= MaxBuddies /\ lost \subseteq used
      /\ pos = 1 => OneOK(kmem)
      /\ panic \in {"no", "no free block", "buddy_array"}
      /\ UNCHANGED <<buddy_array_pos, panic>>
  BY DEF BInv, TypeOK, free_stack
<1>2. PICK u \in used \ lost : /\ u.l = 1 /\ kmem' = free(kmem, u.b, 0, 2 * u.i)
                               /\ used' = (used \ {u}) \cup {half(u)}
                               /\ lost' = lost \cup {half(u)}
  BY DEF free_stack
<1>3. /\ u.b \in Upto(pos) /\ u.b \in Buddies /\ 1 \in Levels
      /\ u.i \in Blocks(1) /\ Apart(used, u) /\ UsedOK(pos, used \ {u})
  BY <1>1, <1>2, UsedBlock
<1>. DEFINE b == u.b
            i == 2 * u.i
            h == half(u)
            W == used \ {u}
            V == W \cup {h}
<1>4. /\ i \in Blocks(0) /\ i + 1 \in Blocks(0) /\ i # i + 1 /\ 0 \in Levels
      /\ Pages(u) = {i, i + 1} /\ Inside(i, 0, 0) = {i} /\ Pages(h) = {i + 1}
  <2>1. /\ 2 * u.i \in Blocks(0) /\ 2 * u.i + 1 \in Blocks(0)
        /\ Inside(u.i, 1, 0) = {2 * u.i, 2 * u.i + 1}
        /\ Inside(2 * u.i, 0, 0) = {2 * u.i}
        /\ Inside(2 * u.i + 1, 0, 0) = {2 * u.i + 1}
    BY <1>3, TwoPages
  <2>2. 0 \in Levels
    BY LevelAssumption DEF Levels
  <2>3. Blocks(0) \in SUBSET Nat
    BY <2>2, BlocksNat
  <2>4. Pages(u) = Inside(u.i, 1, 0) /\ Pages(h) = Inside(2 * u.i + 1, 0, 0)
    BY <1>2 DEF Pages
  <2>5. i # i + 1
    BY <2>1, <2>3
  <2>. QED BY <2>1, <2>2, <2>4, <2>5
<1>5. h.b = b /\ h.l = 0 /\ h.i = i + 1
      /\ h \in [b : Buddies, l : Levels, i : Blocks(0)]
  BY <1>3, <1>4
<1>6. used' = V /\ lost' = lost \cup {h} /\ kmem' = free(kmem, b, 0, i)
      /\ lost \subseteq W
  BY <1>1, <1>2
<1>7. Shrinks(used, u) /\ Grows(W, h)
  BY <1>3, PagesInUse
<1>. HIDE DEF h, i, half
<1>8. /\ Inside(i, 0, 0) \subseteq PagesIn(used, b)
      /\ PagesIn(V, b) = PagesIn(used, b) \ Inside(i, 0, 0)
      /\ \A c \in Upto(pos) : c # b => PagesIn(V, c) = PagesIn(used, c)
  <2>1. /\ PagesIn(W, b) = PagesIn(used, b) \ Pages(u)
        /\ \A c : c # b => PagesIn(W, c) = PagesIn(used, c)
        /\ Pages(u) \subseteq PagesIn(used, b)
    BY <1>7 DEF Shrinks
  <2>2. /\ PagesIn(V, b) = PagesIn(W, b) \cup Pages(h)
        /\ \A c : c # b => PagesIn(V, c) = PagesIn(W, c)
    BY <1>5, <1>7 DEF Grows
  <2>. HIDE DEF V, W, b
  <2>. QED BY <1>4, <2>1, <2>2
<1>9. KmemOK(kmem', pos, V)
  <2>. HIDE DEF V, W
  <2>. QED BY <1>1, <1>3, <1>4, <1>6, <1>8, FreeStep
<1>10. UsedOK(pos, V)
  <2>1. UsedOK(pos, W) /\ h.b \in Upto(pos) /\ h.i \in Blocks(h.l)
    BY <1>3, <1>4, <1>5
  <2>2. ASSUME NEW v \in W, v.b = h.b PROVE Pages(v) \cap Pages(h) = {}
    <3>1. Pages(u) \cap Pages(v) = {}
      BY <1>3, <1>5, <2>2 DEF Apart
    <3>. QED BY <1>4, <3>1
  <2>. HIDE DEF W
  <2>. QED BY <1>5, <2>1, <2>2 DEF UsedOK
<1>11. pos = 1 => OneOK(kmem')
  <2>. SUFFICES ASSUME pos = 1 PROVE OneOK(kmem')
    OBVIOUS
  <2>1. b = 1 /\ 1 \in Upto(pos)
    BY <1>3 DEF Upto, Buddies
  <2>2. OneOK(free(kmem, 1, 0, i))
    BY <1>1, <1>4, <2>1, OneStep
  <2>. QED BY <1>6, <2>1, <2>2
<1>12. kmem' \in Kmem /\ used' \subseteq [b : Buddies, l : Levels, i : Blocks(0)]
  BY <1>6, <1>9, <1>10, PartsTyped
<1>13. lost' \subseteq used'
  BY <1>6
<1>. HIDE DEF V
<1>. QED BY <1>1, <1>6, <1>9, <1>10, <1>11, <1>12, <1>13 DEF BInv, TypeOK

\* After init_page_allocator the one buddy is entirely free.
LEMMA InitInv ==
    ASSUME Init
    PROVE  BInv
<1>. DEFINE C == Cleared
<1>1. C \in Kmem
  BY DEF Cleared, Kmem
<1>2. Upto(0) = {} /\ 1 \in Buddies /\ 1 = 0 + 1
  BY BuddiesAssumption DEF Upto, Buddies
<1>3. \A l \in Levels : \A x \in {Allocator} \cup Buddies : C.next[l][x] = NULL
  BY DEF Cleared
<1>4. KmemOK(C, 0, {}) /\ UsedOK(0, {})
  <2>. HIDE DEF C
  <2>. QED BY <1>1, <1>2, <1>3 DEF KmemOK, UsedOK, Leads
<1>. DEFINE k == kmem_buddy_new(C, 1)
<1>5. k.next = [l \in Levels |-> [C.next[l] EXCEPT ![1] = C.next[l][Allocator],
                                                  ![Allocator] = 1]]
      /\ k.prev = [l \in Levels |-> [C.prev[l] EXCEPT ![1] = Allocator]]
  BY DEF kmem_buddy_new
<1>6. kmem = k /\ buddy_array_pos = 1 /\ used = {} /\ lost = {} /\ panic = "no"
  BY DEF Init
<1>. HIDE DEF C
<1>7. /\ KmemOK(k, 1, {}) /\ UsedOK(1, {})
      /\ \A l \in Levels : k.next[l][Allocator] = 1 /\ k.bits[1][l] = Blocks(l)
  <2>1. 0 \in Nat /\ k = kmem_buddy_new(C, 1)
    OBVIOUS
  <2>. HIDE DEF k
  <2>2. /\ KmemOK(k, 0 + 1, {}) /\ UsedOK(0 + 1, {})
        /\ \A l \in Levels : k.next[l][Allocator] = 1 /\ k.bits[1][l] = Blocks(l)
    BY <1>2, <1>4, <2>1, NewBuddy
  <2>. QED BY <1>2, <2>2
<1>. HIDE DEF k
<1>8. ASSUME NEW l \in Levels
      PROVE  k.prev[l][1] = Allocator /\ k.next[l][1] = NULL /\ k.bits[1][l] # {}
  <2>1. /\ C.next[l] \in [{Allocator} \cup Buddies -> {NULL} \cup Buddies]
        /\ C.prev[l] \in [Buddies -> {NULL, Allocator} \cup Buddies]
    BY <1>1, KmemParts
  <2>2. k.bits[1][l] # {}
    BY <1>7, BlocksNat
  <2>3. Allocator # 1
    BY DEF Allocator
  <2>4. k.prev[l][1] = Allocator /\ k.next[l][1] = NULL
    BY <1>2, <1>3, <1>5, <2>1, <2>3
  <2>. QED BY <2>2, <2>4
<1>9. OneOK(k)
  BY <1>7, <1>8 DEF OneOK
<1>10. k \in Kmem
  BY <1>7, PartsTyped
<1>. QED BY <1>6, <1>7, <1>9, <1>10, BuddiesAssumption DEF BInv, TypeOK

\* Every step keeps the invariant.
LEMMA NextInv ==
    ASSUME BInv, [Next]_vars
    PROVE  BInv'
<1>1. CASE \E n \in Levels : kmem_alloc(n) \/ kmem_free(n)
  BY <1>1, AllocInv, FreeInv
<1>2. CASE free_stack
  BY <1>2, StackInv
<1>3. CASE UNCHANGED vars
  BY <1>3 DEF vars, BInv, TypeOK
<1>. QED BY <1>1, <1>2, <1>3 DEF Next, Halt

\* The invariant holds in every reachable state.
THEOREM BuddyInv == Spec => []BInv
  BY InitInv, NextInv, PTL DEF Spec

\* The variables of the buddy allocator keep their types.
THEOREM KmemTypeOK == Spec => []TypeOK
<1>1. BInv => TypeOK
  BY DEF BInv
<1>. QED BY <1>1, BuddyInv, PTL

\* buddy::alloc never gives out memory in use: two blocks held at the same
\* time have no page in common, whatever the number of levels and buddies.
THEOREM NothingGivenTwice == Spec => []NoOverlap
<1>1. BInv => NoOverlap
  BY DEF BInv, UsedOK, NoOverlap
<1>. QED BY <1>1, BuddyInv, PTL

\* The bit of a block is set exactly if no page of it is in use, at every
\* level of every buddy: alloc and free keep the levels in agreement.
THEOREM BitmapsStayExact == Spec => []BitmapsExact
<1>1. ASSUME BInv PROVE BitmapsExact
  <2>. SUFFICES ASSUME NEW b \in InUse, NEW l \in Levels
                PROVE  kmem.bits[b][l] =
                         {i \in Blocks(l) : \A u \in used :
                            u.b = b => Pages(u) \cap Inside(i, l, 0) = {}}
    BY DEF BitmapsExact
  <2>1. b \in Upto(buddy_array_pos)
    BY DEF InUse, Upto
  <2>2. kmem.bits[b][l] = FreeIn(PagesIn(used, b), l)
    BY <1>1, <2>1 DEF BInv, KmemOK, Exact
  <2>3. ASSUME NEW i \in Blocks(l)
        PROVE  Inside(i, l, 0) \cap PagesIn(used, b) = {}
                <=> \A u \in used : u.b = b => Pages(u) \cap Inside(i, l, 0) = {}
    BY DEF PagesIn
  <2>. QED BY <2>2, <2>3 DEF FreeIn
<1>. QED BY <1>1, BuddyInv, PTL

\* The list of a level, for a single buddy.
LEMMA OneList ==
    ASSUME BInv, buddy_array_pos = 1, NEW l \in Levels
    PROVE  List(l) = {kmem.next[l][Allocator]} \ {NULL}
<1>. DEFINE Node == {Allocator} \cup Buddies \cup {NULL}
            g == [x \in Node |-> IF x = NULL THEN NULL ELSE kmem.next[l][x]]
            size == MaxBuddies + 1
            Eq(f) == f = [k \in 0 .. MaxBuddies + 1 |->
                            IF k = 0 THEN Allocator
                            ELSE IF f[k - 1] = NULL THEN NULL ELSE kmem.next[l][f[k - 1]]]
            at == CHOOSE f : Eq(f)
<1>0. kmem \in Kmem
  BY DEF BInv, TypeOK
<1>1. kmem.next[l] \in [{Allocator} \cup Buddies -> {NULL} \cup Buddies]
  BY <1>0, KmemParts
<1>2. g \in [Node -> Node] /\ Allocator \in Node /\ size \in Nat
  BY <1>1, BuddiesAssumption
<1>3. \E f : Eq(f)
  <2>. HIDE DEF g, Node
  <2>1. PICK f : Steps(f, Node, g, Allocator, size)
    BY <1>2, StepsExist
  <2>2. /\ f \in [0 .. MaxBuddies + 1 -> Node] /\ f[0] = Allocator
        /\ \A k \in 1 .. MaxBuddies + 1 : f[k] = g[f[k - 1]]
    BY <2>1 DEF Steps
  <2>3. ASSUME NEW k \in 1 .. MaxBuddies + 1
        PROVE  f[k] = IF f[k - 1] = NULL THEN NULL ELSE kmem.next[l][f[k - 1]]
    <3>1. f[k - 1] \in Node
      BY <2>2, BuddiesAssumption
    <3>2. \A x \in Node : g[x] = IF x = NULL THEN NULL ELSE kmem.next[l][x]
      BY DEF g
    <3>. QED BY <2>2, <3>1, <3>2
  <2>4. \A k \in 0 .. MaxBuddies + 1 :
            f[k] = IF k = 0 THEN Allocator
                   ELSE IF f[k - 1] = NULL THEN NULL ELSE kmem.next[l][f[k - 1]]
    BY <2>2, <2>3, BuddiesAssumption
  <2>5. Eq(f)
    BY <2>2, <2>4
  <2>. QED BY <2>5
<1>4. Eq(at)
  <2>. HIDE DEF Eq
  <2>. QED BY <1>3
<1>5. List(l) = {at[k] : k \in 1 .. MaxBuddies + 1} \ {NULL}
  BY DEF List
<1>6. \A k \in 0 .. MaxBuddies + 1 :
        at[k] = IF k = 0 THEN Allocator
                ELSE IF at[k - 1] = NULL THEN NULL ELSE kmem.next[l][at[k - 1]]
  <2>. HIDE DEF at
  <2>. QED BY <1>4
<1>. HIDE DEF at, Eq, g, Node
<1>7. at[0] = Allocator /\ at[1] = kmem.next[l][Allocator]
  BY <1>6, NULLAssumption, BuddiesAssumption
<1>8. at[1] \in {NULL, 1} /\ kmem.next[l][1] = NULL
  BY <1>7 DEF BInv, OneOK
<1>9. \A k \in 2 .. MaxBuddies + 1 : at[k] = NULL
  <2>. DEFINE T == {k \in Nat : k + 2 <= MaxBuddies + 1 => at[k + 2] = NULL}
  <2>1. 0 \in T
    BY <1>6, <1>8, BuddiesAssumption
  <2>2. ASSUME NEW k \in T PROVE k + 1 \in T
    <3>. SUFFICES ASSUME (k + 1) + 2 <= MaxBuddies + 1
                  PROVE  at[(k + 1) + 2] = NULL
      BY <2>2
    <3>1. /\ k \in Nat /\ k + 2 <= MaxBuddies + 1 /\ ((k + 1) + 2) - 1 = k + 2
          /\ (k + 1) + 2 \in 0 .. MaxBuddies + 1 /\ (k + 1) + 2 # 0
      BY <2>2, BuddiesAssumption
    <3>2. at[k + 2] = NULL
      BY <2>2, <3>1
    <3>. QED BY <1>6, <3>1, <3>2
  <2>. HIDE DEF T
  <2>3. \A k \in Nat : k \in T
    BY <2>1, <2>2, NatInd DEF T
  <2>4. ASSUME NEW k \in 2 .. MaxBuddies + 1 PROVE at[k] = NULL
    <3>1. k - 2 \in Nat /\ (k - 2) + 2 = k /\ k <= MaxBuddies + 1
      BY BuddiesAssumption
    <3>. QED BY <2>3, <3>1 DEF T
  <2>. QED BY <2>4
<1>10. \A k \in 1 .. MaxBuddies + 1 : k = 1 \/ k \in 2 .. MaxBuddies + 1
  BY BuddiesAssumption
<1>11. 1 \in 1 .. MaxBuddies + 1
  BY BuddiesAssumption
<1>. QED BY <1>5, <1>7, <1>9, <1>10, <1>11

\* With one buddy, it is in the list of a level exactly if it has a free
\* block there: what mark_alloc unlinks and mark_free links.
THEOREM ListsStayExact == Spec => []ListsExact
<1>1. ASSUME BInv, buddy_array_pos = 1, NEW l \in Levels
      PROVE  List(l) = {b \in InUse : kmem.bits[b][l] # {}}
  <2>1. List(l) = {kmem.next[l][Allocator]} \ {NULL}
    BY <1>1, OneList
  <2>2. kmem.next[l][Allocator] = IF kmem.bits[1][l] = {} THEN NULL ELSE 1
    BY <1>1 DEF BInv, OneOK
  <2>3. InUse = {1} /\ 1 # NULL
    BY <1>1, BuddiesAssumption, NULLAssumption DEF InUse, Buddies
  <2>. QED BY <2>1, <2>2, <2>3
<1>2. BInv => ListsExact
  BY <1>1 DEF ListsExact
<1>. QED BY <1>2, BuddyInv, PTL
=============================================================================
