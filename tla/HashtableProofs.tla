--------------------------- MODULE HashtableProofs ---------------------------
(***************************************************************************)
(* Proofs about the slab allocator and the hash table on top of it: no     *)
(* object is given out twice or lost, the chains are exact, and the table  *)
(* implements a map.                                                       *)
(***************************************************************************)
EXTENDS Hashtable, ListProofs

----------------------------------------------------------------------------
(***************************************************************************)
(* The slab allocator.                                                     *)
(***************************************************************************)

\* The slabs with a free object.
Room == {s \in Slabs : m_bits[s] # {}}

\* The list starts in Room, stays there and ends, meets nobody twice, and no
\* part of Room can be left out of it.
ListOK ==
    /\ m_free_list \in Room \cup {NULL}
    /\ \A s \in Room : m_next[s] \in Room \cup {NULL}
    /\ \A s \in Room : m_next[s] # NULL => m_next[s] # m_free_list
    /\ \A s, r \in Room : m_next[s] = m_next[r] /\ m_next[s] # NULL => s = r
    /\ \A Z \in SUBSET Room :
            /\ m_free_list \in Z \cup {NULL}
            /\ \A x \in Z : m_next[x] \in Z \cup {NULL}
            => Z = Room

SlabInv ==
    /\ SlabTypeOK
    /\ ObjectsConserved
    /\ \A s \in Slabs : s > pages =>
            m_bits[s] = {} /\ \A i \in Objects : <<s, i>> \notin used
    /\ ListOK

\* find_bit returns a free object.
LEMMA FindBit ==
    ASSUME NEW bits \in SUBSET Objects, bits # {}
    PROVE  find_bit(bits) \in bits
<1>1. bits \in SUBSET Nat
  BY ObjectsAssumption DEF Objects
<1>2. \E i \in bits : \A j \in bits : i <= j
  BY <1>1, LeastNat
<1>. QED BY <1>2 DEF find_bit

\* No slab at all: nothing to find.
LEMMA SlabInitInv == SlabInit => SlabInv
<1>. SUFFICES ASSUME SlabInit PROVE SlabInv
  OBVIOUS
<1>. USE DEF SlabInit
<1>1. SlabTypeOK
  BY SlabsAssumption DEF SlabTypeOK
<1>2. Room = {}
  BY DEF Room
<1>3. ListOK
  BY <1>2 DEF ListOK
<1>4. ObjectsConserved
  BY SlabsAssumption DEF ObjectsConserved, Slabs
<1>. QED BY <1>1, <1>3, <1>4 DEF SlabInv

\* allocate returns an object that is not in use.
LEMMA AllocateSlab ==
    ASSUME SlabInv, NEW o, allocate(o)
    PROVE  SlabInv' /\ o \in Cells \ used /\ used' = used \cup {o}
<1>0. /\ m_free_list \in Slabs \cup {NULL}
      /\ m_next \in [Slabs -> Slabs \cup {NULL}]
      /\ m_bits \in [Slabs -> SUBSET Objects]
      /\ pages \in 0 .. MaxSlabs
      /\ used \subseteq Slabs \X Objects
  BY DEF SlabInv, SlabTypeOK
<1>1. CASE m_free_list # NULL
  <2>. DEFINE s == m_free_list
              i == find_bit(m_bits[s])
              left == m_bits[s] \ {i}
  <2>1. /\ s \in Slabs /\ s \in Room /\ m_bits[s] # {} /\ i \in m_bits[s]
        /\ i \in Objects
    BY <1>0, <1>1, FindBit DEF SlabInv, ListOK, Room
  <2>2. /\ o = <<s, i>>
        /\ m_bits' = [m_bits EXCEPT ![s] = left]
        /\ m_free_list' = IF left = {} THEN m_next[s] ELSE s
        /\ used' = used \cup {o} /\ m_next' = m_next /\ pages' = pages
    BY <1>1 DEF allocate, Take
  <2>3. s <= pages
    BY <1>0, <2>1 DEF SlabInv, Slabs
  <2>. HIDE DEF i, left
  <2>4. o \in Cells \ used
    BY <2>1, <2>2, <2>3 DEF SlabInv, ObjectsConserved, Cells
  <2>5. SlabTypeOK'
    BY <1>0, <2>1, <2>2 DEF SlabTypeOK, left
  <2>6. ObjectsConserved'
    BY <1>0, <2>1, <2>2, <2>3 DEF SlabInv, ObjectsConserved, left
  <2>7. \A r \in Slabs : r > pages' =>
            m_bits'[r] = {} /\ \A j \in Objects : <<r, j>> \notin used'
    BY <1>0, <2>1, <2>2, <2>3 DEF SlabInv, Slabs
  <2>8. ListOK'
    <3>1. CASE left # {}
      <4>1. Room' = Room
        BY <1>0, <2>1, <2>2, <3>1 DEF Room
      <4>2. m_free_list' = m_free_list
        BY <2>2, <3>1
      <4>. QED BY <2>2, <4>1, <4>2 DEF SlabInv, ListOK
    <3>2. CASE left = {}
      <4>1. Room' = Room \ {s} /\ m_free_list' = m_next[s] /\ m_next' = m_next
        BY <1>0, <2>1, <2>2, <3>2 DEF Room
      <4>2. ASSUME NEW Z \in SUBSET Room', m_next[s] \in Z \cup {NULL},
                   \A x \in Z : m_next[x] \in Z \cup {NULL}
            PROVE  Z = Room'
        <5>. DEFINE Y == Z \cup {s}
        <5>1. /\ Y \in SUBSET Room /\ m_free_list \in Y
              /\ \A x \in Y : m_next[x] \in Y \cup {NULL}
          BY <2>1, <4>1, <4>2
        <5>2. Y = Room
          BY <5>1 DEF SlabInv, ListOK
        <5>. QED BY <4>1, <4>2, <5>2
      <4>3. ListOK => /\ \A x \in Room : m_next[x] \in Room \cup {NULL}
                      /\ \A x \in Room : m_next[x] # NULL => m_next[x] # s
                      /\ \A x, r \in Room : m_next[x] = m_next[r] /\ m_next[x] # NULL => x = r
        BY DEF ListOK
      <4>. QED BY <2>1, <4>1, <4>2, <4>3 DEF SlabInv, ListOK
    <3>. QED BY <3>1, <3>2
  <2>. QED BY <2>2, <2>4, <2>5, <2>6, <2>7, <2>8 DEF SlabInv
<1>2. CASE m_free_list = NULL
  <2>. DEFINE s == pages + 1
              i == find_bit(Objects)
              left == Objects \ {i}
  <2>1. /\ o = <<s, i>>
        /\ m_bits' = [m_bits EXCEPT ![s] = left]
        /\ m_free_list' = IF left = {} THEN NULL ELSE s
        /\ used' = used \cup {o} /\ m_next' = [m_next EXCEPT ![s] = NULL]
        /\ pages' = s /\ pages < MaxSlabs
    BY <1>2 DEF allocate, Take
  <2>2. Objects # {} /\ i \in Objects
    <3>1. 0 \in Objects
      BY ObjectsAssumption DEF Objects
    <3>. QED BY <3>1, FindBit
  <2>3. s \in Slabs /\ s \in 0 .. MaxSlabs /\ s > pages
    BY <1>0, <2>1, SlabsAssumption DEF Slabs
  <2>4. Room = {}
    BY <1>2 DEF SlabInv, ListOK
  <2>. HIDE DEF i, left
  <2>5. \A j \in Objects : <<s, j>> \notin used
    BY <2>3 DEF SlabInv
  <2>6. o \in Cells \ used
    BY <2>1, <2>2, <2>3, <2>5 DEF Cells
  <2>7. SlabTypeOK'
    BY <1>0, <2>1, <2>2, <2>3 DEF SlabTypeOK, left
  <2>8. ObjectsConserved'
    <3>. SUFFICES ASSUME NEW r \in Slabs, NEW j \in Objects, r <= pages'
                  PROVE  <<r, j>> \in used' <=> j \notin m_bits'[r]
      BY DEF ObjectsConserved
    <3>1. CASE r = s
      BY <1>0, <2>1, <2>2, <2>3, <2>5, <3>1 DEF left
    <3>2. CASE r # s
      <4>1. r <= pages
        BY <1>0, <2>1, <3>2 DEF Slabs
      <4>2. m_bits'[r] = m_bits[r] /\ (<<r, j>> \in used' <=> <<r, j>> \in used)
        BY <1>0, <2>1, <3>2
      <4>. QED BY <4>1, <4>2 DEF SlabInv, ObjectsConserved
    <3>. QED BY <3>1, <3>2
  <2>9. \A r \in Slabs : r > pages' =>
            m_bits'[r] = {} /\ \A j \in Objects : <<r, j>> \notin used'
    <3>. SUFFICES ASSUME NEW r \in Slabs, r > pages'
                  PROVE  m_bits'[r] = {} /\ \A j \in Objects : <<r, j>> \notin used'
      OBVIOUS
    <3>1. r # s /\ r > pages
      BY <1>0, <2>1, <2>3 DEF Slabs
    <3>. QED BY <1>0, <2>1, <3>1 DEF SlabInv
  <2>10. ListOK'
    <3>1. Room' = IF left = {} THEN {} ELSE {s}
      BY <1>0, <2>1, <2>3, <2>4 DEF Room
    <3>2. m_next'[s] = NULL
      BY <1>0, <2>1, <2>3
    <3>3. CASE left = {}
      BY <2>1, <3>1, <3>3 DEF ListOK
    <3>4. CASE left # {}
      <4>1. s # NULL
        BY <2>3, NULLAssumption
      <4>. QED BY <2>1, <3>1, <3>2, <3>4, <4>1 DEF ListOK
    <3>. QED BY <3>3, <3>4
  <2>. QED BY <2>1, <2>6, <2>7, <2>8, <2>9, <2>10 DEF SlabInv
<1>. QED BY <1>1, <1>2

\* free of an object in use makes it free and nothing else.
LEMMA FreeSlab ==
    ASSUME SlabInv, NEW o \in used, free(o)
    PROVE  SlabInv' /\ used' = used \ {o}
<1>. DEFINE s == o[1]
            i == o[2]
<1>0. /\ m_free_list \in Slabs \cup {NULL}
      /\ m_next \in [Slabs -> Slabs \cup {NULL}]
      /\ m_bits \in [Slabs -> SUBSET Objects]
      /\ pages \in 0 .. MaxSlabs
      /\ used \subseteq Slabs \X Objects
  BY DEF SlabInv, SlabTypeOK
<1>1. o = <<s, i>> /\ s \in Slabs /\ i \in Objects
  BY <1>0
<1>2. /\ m_next' = IF m_bits[s] = {} THEN [m_next EXCEPT ![s] = m_free_list]
                   ELSE m_next
      /\ m_free_list' = IF m_bits[s] = {} THEN s ELSE m_free_list
      /\ m_bits' = [m_bits EXCEPT ![s] = m_bits[s] \cup {i}]
      /\ used' = used \ {o} /\ pages' = pages
  BY DEF free
<1>3. s <= pages
  BY <1>0, <1>1 DEF SlabInv, Slabs
<1>. HIDE DEF s, i
<1>4. SlabTypeOK'
  BY <1>0, <1>1, <1>2 DEF SlabTypeOK
<1>5. ObjectsConserved'
  <2>. SUFFICES ASSUME NEW r \in Slabs, NEW j \in Objects, r <= pages'
                PROVE  <<r, j>> \in used' <=> j \notin m_bits'[r]
    BY DEF ObjectsConserved
  <2>1. <<r, j>> \in used <=> j \notin m_bits[r]
    BY <1>2 DEF SlabInv, ObjectsConserved
  <2>2. CASE r = s
    BY <1>0, <1>1, <1>2, <2>1, <2>2
  <2>3. CASE r # s
    BY <1>0, <1>1, <1>2, <2>1, <2>3
  <2>. QED BY <2>2, <2>3
<1>6. \A r \in Slabs : r > pages' =>
            m_bits'[r] = {} /\ \A j \in Objects : <<r, j>> \notin used'
  <2>1. \A r \in Slabs : r > pages => r # s
    BY <1>0, <1>1, <1>3 DEF Slabs
  <2>. QED BY <1>0, <1>1, <1>2, <2>1 DEF SlabInv
<1>7. ListOK'
  <2>1. CASE m_bits[s] # {}
    <3>1. Room' = Room
      BY <1>0, <1>1, <1>2, <2>1 DEF Room
    <3>. QED BY <1>2, <2>1, <3>1 DEF SlabInv, ListOK
  <2>2. CASE m_bits[s] = {}
    <3>1. /\ Room' = Room \cup {s} /\ s \notin Room /\ m_free_list' = s
          /\ m_next'[s] = m_free_list /\ s # NULL
          /\ \A r \in Room : m_next'[r] = m_next[r]
      BY <1>0, <1>1, <1>2, <2>2, NULLAssumption DEF Room
    <3>2. /\ m_free_list \in Room \cup {NULL}
          /\ \A r \in Room : m_next[r] \in Room \cup {NULL}
          /\ \A r \in Room : m_next[r] # NULL => m_next[r] # m_free_list
          /\ \A q, r \in Room : m_next[q] = m_next[r] /\ m_next[q] # NULL => q = r
      BY DEF SlabInv, ListOK
    <3>3. ASSUME NEW Z \in SUBSET Room', s \in Z \cup {NULL},
                 \A x \in Z : m_next'[x] \in Z \cup {NULL}
          PROVE  Z = Room'
      <4>. DEFINE Y == Z \ {s}
      <4>1. /\ Y \in SUBSET Room /\ m_free_list \in Y \cup {NULL}
            /\ \A x \in Y : m_next[x] \in Y \cup {NULL}
        BY <3>1, <3>2, <3>3
      <4>2. Y = Room
        BY <4>1 DEF SlabInv, ListOK
      <4>. QED BY <3>1, <3>3, <4>2
    <3>. QED BY <3>1, <3>2, <3>3 DEF ListOK
  <2>. QED BY <2>1, <2>2
<1>. QED BY <1>2, <1>4, <1>5, <1>6, <1>7 DEF SlabInv

\* The list is what FreeListExact says: following m_next finds every slab with
\* a free object, and none twice.
LEMMA SlabList ==
    ASSUME SlabInv
    PROVE  FreeListExact
<1>. DEFINE Eq(f) == f = [k \in 0 .. MaxSlabs |->
                            IF k = 0 THEN m_free_list
                            ELSE IF f[k - 1] = NULL THEN NULL
                                 ELSE m_next[f[k - 1]]]
            at == CHOOSE f : Eq(f)
            len == {k \in 0 .. MaxSlabs : at[k] # NULL}
<1>1. NilList(Room, m_next, NULL, m_free_list)
  BY NULLAssumption DEF SlabInv, ListOK, NilList, Room
<1>2. \E f : Eq(f)
  <2>1. PICK f : NilSteps(f, m_next, NULL, m_free_list, MaxSlabs)
    BY <1>1, SlabsAssumption, NilStepsExist
  <2>. QED BY <2>1 DEF NilSteps
<1>3. Eq(at)
  <2>. HIDE DEF Eq
  <2>. QED BY <1>2
<1>4. ListFrom = [k \in {j + 1 : j \in len} |-> at[k - 1]]
  BY DEF ListFrom
<1>. HIDE DEF at
<1>5. IsFiniteSet(Room) /\ Cardinality(Room) <= MaxSlabs
  <2>1. IsFiniteSet(Slabs) /\ Cardinality(Slabs) = MaxSlabs
    BY SlabsAssumption, FS_Interval DEF Slabs
  <2>2. Room \in SUBSET Slabs
    BY DEF Room
  <2>. QED BY <2>1, <2>2, FS_Subset
<1>6. /\ {at[k] : k \in 0 .. MaxSlabs} \ {NULL} = Room
      /\ \A j, k \in 0 .. MaxSlabs : at[j] = at[k] /\ at[j] # NULL => j = k
  <2>1. NilSteps(at, m_next, NULL, m_free_list, MaxSlabs)
    BY <1>3 DEF NilSteps
  <2>2. MaxSlabs \in Nat
    BY SlabsAssumption
  <2>. QED BY ONLY <1>1, <1>5, <2>1, <2>2, NilListExact
<1>7. /\ DOMAIN ListFrom = {j + 1 : j \in len}
      /\ \A j \in len : ListFrom[j + 1] = at[j]
  BY <1>4, SlabsAssumption
<1>8. {ListFrom[k] : k \in DOMAIN ListFrom} = Room
  <2>1. ASSUME NEW s \in Room PROVE s \in {ListFrom[k] : k \in DOMAIN ListFrom}
    <3>1. PICK j \in 0 .. MaxSlabs : s = at[j] /\ s # NULL
      BY <1>6
    <3>2. j \in len /\ j + 1 \in DOMAIN ListFrom
      BY <1>7, <3>1
    <3>. QED BY <1>7, <3>1, <3>2
  <2>2. ASSUME NEW k \in DOMAIN ListFrom PROVE ListFrom[k] \in Room
    <3>1. PICK j \in len : k = j + 1
      BY <1>7
    <3>2. ListFrom[k] = at[j] /\ j \in 0 .. MaxSlabs /\ at[j] # NULL
      BY <1>7, <3>1
    <3>. QED BY <1>6, <3>2
  <2>. QED BY <2>1, <2>2
<1>9. ASSUME NEW j \in DOMAIN ListFrom, NEW k \in DOMAIN ListFrom,
             ListFrom[j] = ListFrom[k]
      PROVE  j = k
  <2>1. PICK a \in len, b \in len : j = a + 1 /\ k = b + 1
    BY <1>7
  <2>2. at[a] = at[b] /\ at[a] # NULL /\ a \in 0 .. MaxSlabs /\ b \in 0 .. MaxSlabs
    BY <1>7, <1>9, <2>1
  <2>. QED BY <1>6, <2>1, <2>2
<1>. QED BY <1>8, <1>9 DEF FreeListExact, Room

----------------------------------------------------------------------------
(***************************************************************************)
(* The hash table.                                                         *)
(***************************************************************************)

\* The bucket in whose chain a link has to be; a free cell is by itself.
Home(l) == IF l \in used THEN hash(key[l]) ELSE l

\* The links that hold an entry.
Live == used \cup {h \in Buckets : obj[h] # NULL}

\* A bucket holds a key of its own, or nothing and then has no chain.
BucketsOK ==
    \A h \in Buckets :
        IF obj[h] = NULL THEN lonely(list, h) ELSE hash(key[h]) = h

\* A cell in use has an entry and is in the chain of its bucket.
CellsOK ==
    \A c \in used :
        obj[c] # NULL /\ Reaches(list, Link, hash(key[c]), c)

\* The inductive invariant: no pointer leads from one chain to another, and
\* no key has two entries.
HInv ==
    /\ TypeOK
    /\ SlabInv
    /\ Linked(list, Link)
    /\ \A l \in Link : Home(list.l_next[l]) = Home(l)
    /\ BucketsOK
    /\ CellsOK
    /\ \A l, m \in Live : key[l] = key[m] => l = m

\* Two kinds of links, and finitely many; a key's bucket is a bucket.
LEMMA LinkFacts ==
    /\ Buckets \cap Cells = {}
    /\ IsFiniteSet(Link)
    /\ NULL \notin Link
    /\ \A k \in Nat : hash(k) \in Buckets
<1>1. Buckets \cap Cells = {}
  BY DEF Buckets, Cells, Slabs
<1>2. IsFiniteSet(Link)
  <2>1. IsFiniteSet({0}) /\ IsFiniteSet(0 .. N - 1)
    <3>1. 0 \in Int /\ N - 1 \in Int
      BY NAssumption
    <3>. QED BY <3>1, FS_Singleton, FS_Interval
  <2>2. IsFiniteSet(Slabs) /\ IsFiniteSet(Objects)
    BY FS_Interval, SlabsAssumption, ObjectsAssumption DEF Slabs, Objects
  <2>3. IsFiniteSet(Buckets) /\ IsFiniteSet(Cells)
    BY <2>1, <2>2, FS_Product DEF Buckets, Cells
  <2>. QED BY <2>3, FS_Union DEF Link
<1>4. ASSUME NEW k \in Nat PROVE hash(k) \in Buckets
  <2>1. 1640531527 % N \in Nat
    BY NAssumption
  <2>2. k * (1640531527 % N) \in Nat
    BY <2>1
  <2>3. (k * (1640531527 % N)) % N \in 0 .. N - 1
    BY <2>2, NAssumption
  <2>. QED BY <2>3 DEF hash, Buckets
<1>. QED BY <1>1, <1>2, <1>4, ValuesAssumption

\* The facts of the invariant that speak about where pointers lead.
LEMMA ChainFacts ==
    ASSUME HInv
    PROVE  /\ list \in Heap(Link)
           /\ used \in SUBSET Cells
           /\ \A l \in Link : list.l_next[l] \in Link /\ list.l_prev[l] \in Link
           /\ \A l \in Link : key[l] \in Nat /\ hash(key[l]) \in Buckets
           /\ \A l \in Link : Home(l) \in Link
           /\ \A h \in Buckets : Home(h) = h
           /\ \A c \in Cells \ used : lonely(list, c)
<1>1. list \in Heap(Link) /\ used \in SUBSET Cells
  BY DEF HInv, TypeOK, SlabInv, SlabTypeOK, Cells
<1>2. \A l \in Link : list.l_next[l] \in Link /\ list.l_prev[l] \in Link
  BY <1>1 DEF Heap
<1>3. \A l \in Link : key[l] \in Nat /\ hash(key[l]) \in Buckets
  BY LinkFacts DEF HInv, TypeOK
<1>4. \A l \in Link : Home(l) \in Link
  BY <1>3 DEF Home, Link
<1>5. \A h \in Buckets : Home(h) = h
  BY <1>1, LinkFacts DEF Home
<1>6. ASSUME NEW c \in Cells \ used PROVE lonely(list, c)
  <2>1. Home(list.l_next[c]) = c /\ list.l_next[c] \in Link
    BY <1>2 DEF HInv, Home, Link
  <2>2. list.l_next[c] \notin used
    BY <2>1, <1>1, <1>3, LinkFacts DEF Home
  <2>. QED BY <2>1, <2>2 DEF Home, lonely
<1>. QED BY <1>1, <1>2, <1>3, <1>4, <1>5, <1>6

\* What can be reached from a bucket is what belongs there.
LEMMA ChainOf ==
    ASSUME HInv, NEW h \in Buckets, NEW x \in Link
    PROVE  Reaches(list, Link, h, x) <=> Home(x) = h
<1>1. ASSUME Reaches(list, Link, h, x) PROVE Home(x) = h
  <2>. DEFINE Z == {y \in Link : Home(y) = h}
  <2>1. Z \in SUBSET Link /\ h \in Z
    BY ChainFacts DEF Link
  <2>2. \A y \in Z : list.l_next[y] \in Z
    BY ChainFacts DEF HInv
  <2>3. x \in Z
    <3>. HIDE DEF Z
    <3>. QED BY <1>1, <2>1, <2>2 DEF Reaches
  <2>. QED BY <2>3
<1>2. ASSUME Home(x) = h PROVE Reaches(list, Link, h, x)
  <2>1. CASE x \in used
    BY <1>2, <2>1 DEF HInv, CellsOK, Home
  <2>2. CASE x \notin used
    <3>1. x = h
      BY <1>2, <2>2 DEF Home
    <3>. QED BY <3>1 DEF Reaches
  <2>. QED BY <2>1, <2>2
<1>. QED BY <1>1, <1>2

\* The invariant says what ChainsExact says.
LEMMA Chains ==
    ASSUME HInv
    PROVE  ChainsExact
<1>1. ASSUME NEW h \in Buckets
      PROVE  LET chain == After(list, Link, h) IN
             /\ \A i \in DOMAIN chain :
                    /\ chain[i] \in used
                    /\ obj[chain[i]] # NULL
                    /\ hash(key[chain[i]]) = h
             /\ \A c \in used : hash(key[c]) = h =>
                    \E i \in DOMAIN chain : chain[i] = c
             /\ IF obj[h] = NULL THEN chain = <<>> ELSE hash(key[h]) = h
  <2>. DEFINE a == After(list, Link, h)
  <2>1. a \in Seq(Link) /\ IsWalk(list, a, h)
    BY ChainFacts, LinkFacts, LinkedWalk DEF HInv, Link
  <2>. HIDE DEF a
  <2>2. ASSUME NEW i \in DOMAIN a
        PROVE  a[i] \in used /\ obj[a[i]] # NULL /\ hash(key[a[i]]) = h
    <3>1. a[i] \in Link /\ a[i] # h
      BY <2>1 DEF IsWalk
    <3>2. Reaches(list, Link, h, a[i])
      BY <2>1, WalkReaches DEF Link
    <3>3. Home(a[i]) = h
      BY <3>1, <3>2, ChainOf
    <3>4. a[i] \in used
      BY <3>1, <3>3 DEF Home
    <3>. QED BY <3>3, <3>4 DEF Home, HInv, CellsOK
  <2>3. ASSUME obj[h] = NULL PROVE a = <<>>
    <3>1. list.l_next[h] = h
      BY <2>3 DEF HInv, BucketsOK, lonely
    <3>2. 1 \notin DOMAIN a
      BY <2>1, <3>1 DEF IsWalk
    <3>. QED BY <2>1, <3>2
  <2>4. ASSUME NEW c \in used, hash(key[c]) = h
        PROVE  \E i \in DOMAIN a : a[i] = c
    <3>1. Reaches(list, Link, h, c)
      BY <2>4 DEF HInv, CellsOK
    <3>2. c # h
      BY ChainFacts, LinkFacts
    <3>3. c \in {h} \cup {a[i] : i \in DOMAIN a}
      BY <2>1, <3>1, WalkReaches DEF Link
    <3>. QED BY <3>2, <3>3
  <2>5. obj[h] # NULL => hash(key[h]) = h
    BY DEF HInv, BucketsOK
  <2>. QED BY <2>2, <2>3, <2>4, <2>5 DEF a
<1>. QED BY <1>1, ChainFacts DEF ChainsExact, HInv

\* What the loop of lookup_internal finds in the bucket of k: the only link
\* with key k, if there is one, also the key an emptied bucket was left with.
LEMMA LookupInternal ==
    ASSUME HInv, NEW k \in Nat, NEW x, x = lookup_internal(k, hash(k))
    PROVE  /\ x # NULL => x \in Link /\ Home(x) = hash(k) /\ key[x] = k
           /\ x = NULL => \A l \in Link : Home(l) = hash(k) => key[l] # k
<1>. DEFINE h == hash(k)
            M == {l \in Link : key[l] = k}
            W == {l \in Link : Reaches(list, Link, h, l)}
            Eq(f) == f = [l \in Link |->
                            IF key[l] = k THEN l
                            ELSE IF list.l_next[l] = h THEN NULL
                                 ELSE f[list.l_next[l]]]
            from == CHOOSE f : Eq(f)
<1>1. h \in Buckets /\ h \in Link
  BY LinkFacts DEF Link
<1>. HIDE DEF h
<1>2. W = {l \in Link : Home(l) = h}
  BY <1>1, ChainOf
<1>3. \A f : Search(f, list, Link, h, M, NULL) <=> Eq(f)
  BY DEF Search
<1>4. ASSUME NEW l \in W, NEW m \in W, l \in M, m \in M PROVE l = m
  <2>1. CASE obj[h] = NULL
    <3>1. ASSUME NEW y \in W PROVE y = h
      <4>. DEFINE Z == {h}
      <4>1. Z \in SUBSET Link /\ \A z \in Z : list.l_next[z] \in Z
        BY <1>1, <2>1 DEF HInv, BucketsOK, lonely
      <4>. QED BY <4>1, <3>1 DEF Reaches
    <3>. QED BY <3>1
  <2>2. CASE obj[h] # NULL
    <3>1. \A y \in W : y \in Live
      BY <1>1, <1>2, <2>2 DEF Live, Home
    <3>. QED BY <1>4, <3>1 DEF HInv
  <2>. QED BY <2>1, <2>2
<1>5. ASSUME NEW l \in Link \ W, l \notin M PROVE list.l_next[l] \notin M
  <2>. DEFINE m == list.l_next[l]
  <2>1. m \in Link /\ Home(m) = Home(l) /\ Home(l) # h
    BY <1>2, ChainFacts DEF HInv
  <2>2. CASE m = l
    BY <2>2, <1>5
  <2>3. CASE m # l
    <3>1. ASSUME m \notin used PROVE obj[m] # NULL /\ m \in Buckets
      <4>1. Home(m) = m
        BY <3>1 DEF Home
      <4>2. l \in used
        BY <2>1, <2>3, <4>1 DEF Home
      <4>3. m \in Buckets
        BY <4>1, <4>2, <2>1, ChainFacts DEF Home, Link
      <4>4. list.l_prev[m] = l
        BY <2>1 DEF HInv, Linked
      <4>5. ~ lonely(list, m)
        BY <2>1, <2>3, <4>4 DEF lonely, HInv, Linked
      <4>. QED BY <4>3, <4>5 DEF HInv, BucketsOK
    <3>2. Home(m) = hash(key[m])
      BY <3>1, ChainFacts DEF Home, HInv, BucketsOK
    <3>. QED BY <2>1, <3>2 DEF h
  <2>. QED BY <2>2, <2>3
<1>6. /\ \E f : Search(f, list, Link, h, M, NULL)
      /\ \A f : Search(f, list, Link, h, M, NULL) =>
            IF W \cap M = {} THEN f[h] = NULL ELSE f[h] \in W \cap M
  <2>1. W = {l \in Link : Reaches(list, Link, h, l)}
    OBVIOUS
  <2>2. list \in Heap(Link) /\ Linked(list, Link) /\ IsFiniteSet(Link)
    BY ChainFacts, LinkFacts DEF HInv
  <2>. HIDE DEF W, M
  <2>. QED BY <1>1, <1>4, <1>5, <2>1, <2>2, SearchFinds
<1>7. Eq(from)
  <2>1. \E f : Eq(f)
    BY <1>3, <1>6
  <2>. HIDE DEF Eq
  <2>. QED BY <2>1
<1>8. x = from[h]
  BY DEF lookup_internal, h
<1>9. IF W \cap M = {} THEN x = NULL ELSE x \in W \cap M
  <2>1. Search(from, list, Link, h, M, NULL)
    BY <1>3, <1>7
  <2>. HIDE DEF from, W, M
  <2>. QED BY <1>6, <1>8, <2>1
<1>. QED BY <1>2, <1>9, LinkFacts DEF h

\* The entries of the table.
Entries == {<<key[l], obj[l]>> : l \in Live}

\* lookup tells what the entries say.
LEMMA LookupExact ==
    ASSUME HInv, NEW k \in Nat
    PROVE  /\ \A v : <<k, v>> \in Entries => lookup(k) = v
           /\ (\A v : <<k, v>> \notin Entries) => lookup(k) = NULL
           /\ lookup(k) # NULL => <<k, lookup(k)>> \in Entries
<1>. DEFINE x == lookup_internal(k, hash(k))
<1>1. /\ x # NULL => x \in Link /\ Home(x) = hash(k) /\ key[x] = k
      /\ x = NULL => \A l \in Link : Home(l) = hash(k) => key[l] # k
  BY LookupInternal
<1>2. lookup(k) = IF x = NULL THEN NULL ELSE obj[x]
  BY DEF lookup
<1>. HIDE DEF x
<1>3. \A l \in Live : l \in Link /\ obj[l] # NULL /\ Home(l) = hash(key[l])
  BY ChainFacts DEF Live, HInv, CellsOK, BucketsOK, Home, Link
<1>4. x # NULL /\ x \notin Live => obj[x] = NULL
  BY <1>1, LinkFacts, ChainFacts DEF Live, Home, Link
<1>5. x = NULL => \A l \in Live : key[l] # k
  BY <1>1, <1>3
<1>6. ASSUME NEW l \in Live, key[l] = k PROVE x = l
  <2>1. x # NULL /\ x \in Link /\ Home(x) = hash(k) /\ key[x] = k
    BY <1>1, <1>5, <1>6
  <2>2. CASE x \in Live
    BY <1>6, <2>1, <2>2 DEF HInv
  <2>3. CASE x \notin Live
    <3>1. x \notin used /\ x = hash(k) /\ x \in Buckets
      BY <2>1, <2>3, LinkFacts DEF Live, Home
    <3>2. lonely(list, x)
      BY <3>1, <2>3 DEF Live, HInv, BucketsOK
    <3>3. Reaches(list, Link, x, l)
      BY <1>3, <1>6, <3>1, ChainOf
    <3>4. {x} \in SUBSET Link /\ \A y \in {x} : list.l_next[y] \in {x}
      BY <2>1, <3>2 DEF lonely
    <3>. QED BY <3>3, <3>4 DEF Reaches
  <2>. QED BY <2>2, <2>3
<1>7. ASSUME NEW v, <<k, v>> \in Entries PROVE lookup(k) = v
  <2>1. PICK l \in Live : <<k, v>> = <<key[l], obj[l]>>
    BY <1>7 DEF Entries
  <2>2. key[l] = k /\ obj[l] = v
    BY <2>1
  <2>3. x = l /\ l \in Link
    BY <1>3, <1>6, <2>2
  <2>. QED BY <1>2, <2>2, <2>3, LinkFacts
<1>8. ASSUME lookup(k) # NULL PROVE <<k, lookup(k)>> \in Entries
  <2>1. x # NULL /\ x \in Live /\ key[x] = k /\ lookup(k) = obj[x]
    BY <1>1, <1>2, <1>4, <1>8
  <2>. QED BY <2>1 DEF Entries
<1>. QED BY <1>7, <1>8

\* The pointer surgery stays in the heap and keeps both directions agreeing.
LEMMA SurgeryLinked ==
    ASSUME NEW Node, NEW l \in Heap(Node), Linked(l, Node), NEW t \in Node
    PROVE  /\ unlink(l, t) \in Heap(Node)
           /\ Linked(unlink(l, t), Node)
           /\ \A x \in Node : x # t =>
                unlink(l, t).l_next[x] = IF l.l_next[x] = t THEN l.l_next[t]
                                         ELSE l.l_next[x]
           /\ unlink(l, t).l_next[t] = t
           /\ \A self \in Node : self # t /\ lonely(l, t) =>
                /\ add_after_self(l, self, t) \in Heap(Node)
                /\ Linked(add_after_self(l, self, t), Node)
                /\ add_after_self(l, self, t).l_next[self] = t
                /\ add_after_self(l, self, t).l_next[t] = l.l_next[self]
                /\ \A x \in Node \ {self, t} :
                        add_after_self(l, self, t).l_next[x] = l.l_next[x]
<1>0. /\ l.l_next \in [Node -> Node] /\ l.l_prev \in [Node -> Node]
      /\ \A x \in Node : l.l_prev[l.l_next[x]] = x /\ l.l_next[l.l_prev[x]] = x
  BY DEF Heap, Linked
<1>1. unlink(l, t) \in Heap(Node)
  BY <1>0 DEF Heap, unlink
<1>2. Linked(unlink(l, t), Node)
  BY <1>0 DEF unlink, Linked
<1>3. /\ \A x \in Node : x # t =>
                unlink(l, t).l_next[x] = IF l.l_next[x] = t THEN l.l_next[t]
                                         ELSE l.l_next[x]
      /\ unlink(l, t).l_next[t] = t
  BY <1>0 DEF unlink
<1>4. ASSUME NEW self \in Node, self # t, lonely(l, t)
      PROVE  /\ add_after_self(l, self, t) \in Heap(Node)
             /\ Linked(add_after_self(l, self, t), Node)
             /\ add_after_self(l, self, t).l_next[self] = t
             /\ add_after_self(l, self, t).l_next[t] = l.l_next[self]
             /\ \A x \in Node \ {self, t} :
                     add_after_self(l, self, t).l_next[x] = l.l_next[x]
  <2>1. l.l_next[t] = t /\ l.l_prev[t] = t
    BY <1>0, <1>4 DEF lonely
  <2>2. add_after_self(l, self, t) \in Heap(Node)
    BY <1>0 DEF Heap, add_after_self
  <2>3. Linked(add_after_self(l, self, t), Node)
    BY <1>0, <1>4, <2>1 DEF Linked, add_after_self
  <2>. QED BY <1>0, <1>4, <2>1, <2>2, <2>3 DEF add_after_self
<1>. QED BY <1>1, <1>2, <1>3, <1>4

\* A bucket with a chain is not empty.
LEMMA ChainedBucket ==
    ASSUME HInv, NEW c \in used
    PROVE  /\ hash(key[c]) \in Buckets /\ hash(key[c]) # c /\ c \in Link
           /\ obj[hash(key[c])] # NULL
<1>. DEFINE h == hash(key[c])
<1>1. h \in Buckets /\ h # c /\ c \in Link /\ h \in Link
  BY ChainFacts, LinkFacts DEF Link
<1>2. Reaches(list, Link, h, c)
  BY DEF HInv, CellsOK
<1>. HIDE DEF h
<1>3. ASSUME lonely(list, h) PROVE FALSE
  <2>1. {h} \in SUBSET Link /\ \A y \in {h} : list.l_next[y] \in {h}
    BY <1>1, <1>3 DEF lonely
  <2>. QED BY <1>1, <1>2, <2>1 DEF Reaches
<1>4. obj[h] # NULL
  BY <1>1, <1>3 DEF HInv, BucketsOK
<1>. QED BY <1>1, <1>4 DEF h

\* Where the allocator is not called nothing of it changes.
LEMMA SlabUnchanged ==
    ASSUME SlabInv, UNCHANGED slab_vars
    PROVE  SlabInv'
<1>1. /\ m_free_list' = m_free_list /\ m_next' = m_next /\ m_bits' = m_bits
      /\ pages' = pages /\ used' = used
  BY DEF slab_vars
<1>2. SlabTypeOK'
  BY <1>1 DEF SlabInv, SlabTypeOK
<1>3. ObjectsConserved'
  BY <1>1 DEF SlabInv, ObjectsConserved
<1>4. ListOK'
  <2>1. Room' = Room
    BY <1>1 DEF Room
  <2>. QED BY <1>1, <2>1 DEF SlabInv, ListOK
<1>. QED BY <1>1, <1>2, <1>3, <1>4 DEF SlabInv

\* insert into an empty bucket.
LEMMA InsertBucket ==
    ASSUME HInv, NEW k \in Nat, NEW v \in Values, NEW h, h = hash(k),
           \A l \in Live : key[l] # k,
           obj[h] = NULL,
           key' = [key EXCEPT ![h] = k],
           obj' = [obj EXCEPT ![h] = v],
           UNCHANGED <<list, slab_vars>>
    PROVE  HInv' /\ Entries' = Entries \cup {<<k, v>>}
<1>1. /\ h \in Buckets /\ h \in Link /\ v # NULL /\ h \notin used
      /\ h \notin Live
  BY LinkFacts, ChainFacts, ValuesAssumption DEF Link, Live
<1>2. /\ list' = list /\ used' = used /\ SlabInv' /\ SlabTypeOK'
      /\ list \in Heap(Link)
      /\ key \in [Link -> Nat] /\ obj \in [Link -> Values \cup {NULL}]
  BY SlabUnchanged DEF HInv, TypeOK, slab_vars, SlabInv
<1>3. /\ key'[h] = k /\ obj'[h] = v
      /\ \A l \in Link : l # h => key'[l] = key[l] /\ obj'[l] = obj[l]
      /\ key' \in [Link -> Nat] /\ obj' \in [Link -> Values \cup {NULL}]
  BY <1>1, <1>2
<1>4. \A l \in Link : Home(l)' = Home(l)
  BY <1>1, <1>2, <1>3 DEF Home
<1>5. TypeOK'
  BY <1>2, <1>3 DEF TypeOK
<1>6. Linked(list, Link)'
  BY <1>2 DEF HInv
<1>7. \A l \in Link : Home(list.l_next[l])' = Home(l)'
  BY <1>2, <1>4, ChainFacts DEF HInv
<1>8. BucketsOK'
  BY <1>1, <1>2, <1>3 DEF HInv, BucketsOK, Link, hash
<1>9. CellsOK'
  <2>. SUFFICES ASSUME NEW c \in used
                PROVE  obj'[c] # NULL /\ Reaches(list, Link, hash(key'[c]), c)
    BY <1>2 DEF CellsOK, hash
  <2>1. c # h /\ c \in Link
    BY <1>1, ChainFacts DEF Link
  <2>. QED BY <1>3, <2>1 DEF HInv, CellsOK
<1>10. Live' = Live \cup {h}
  BY <1>1, <1>2, <1>3 DEF Live, Link
<1>11. \A l \in Live : l \in Link /\ l # h
  BY <1>1, ChainFacts DEF Live, Link
<1>12. \A l, m \in Live' : key'[l] = key'[m] => l = m
  BY <1>3, <1>10, <1>11 DEF HInv
<1>13. Entries' = Entries \cup {<<k, v>>}
  BY <1>3, <1>10, <1>11 DEF Entries
<1>. QED BY <1>2, <1>5, <1>6, <1>7, <1>8, <1>9, <1>12, <1>13 DEF HInv

\* insert with a new cell.
LEMMA InsertCell ==
    ASSUME HInv, NEW k \in Nat, NEW v \in Values, NEW h, h = hash(k),
           \A l \in Live : key[l] # k,
           obj[h] # NULL, NEW c \in Cells, allocate(c),
           key' = [key EXCEPT ![c] = k],
           obj' = [obj EXCEPT ![c] = v],
           list' = add_after_self(list, h, c)
    PROVE  HInv' /\ Entries' = Entries \cup {<<k, v>>}
<1>1. /\ SlabInv' /\ c \in Cells \ used /\ used' = used \cup {c}
      /\ SlabTypeOK'
  BY AllocateSlab DEF HInv, SlabInv
<1>2. /\ h \in Buckets /\ h \in Link /\ v # NULL /\ c \in Link /\ c # h
      /\ c \notin Buckets /\ lonely(list, c) /\ c \notin Live
  BY <1>1, LinkFacts, ChainFacts, ValuesAssumption DEF Link, Live
<1>3. /\ list \in Heap(Link) /\ Linked(list, Link)
      /\ key \in [Link -> Nat] /\ obj \in [Link -> Values \cup {NULL}]
  BY DEF HInv, TypeOK
<1>4. /\ key'[c] = k /\ obj'[c] = v
      /\ \A l \in Link : l # c => key'[l] = key[l] /\ obj'[l] = obj[l]
      /\ key' \in [Link -> Nat] /\ obj' \in [Link -> Values \cup {NULL}]
  BY <1>2, <1>3
<1>5. /\ list' \in Heap(Link) /\ Linked(list', Link)
      /\ list'.l_next[h] = c /\ list'.l_next[c] = list.l_next[h]
      /\ \A x \in Link \ {h, c} : list'.l_next[x] = list.l_next[x]
  BY <1>2, <1>3, SurgeryLinked
<1>6. Home(c)' = h /\ \A l \in Link : l # c => Home(l)' = Home(l)
  BY <1>1, <1>4 DEF Home, hash
<1>7. \A l \in Link : l # c => list.l_next[l] # c /\ list.l_next[l] \in Link
  BY <1>2, <1>3, ChainFacts DEF lonely, Linked
<1>8. ASSUME NEW l \in Link PROVE Home(list.l_next[l])' = Home(l)'
  <2>0. \A x \in Link : Home(list.l_next[x]) = Home(x)
    BY DEF HInv
  <2>1. CASE l = h
    <3>1. Home(h) = h
      BY <1>2, ChainFacts
    <3>. QED BY <1>2, <1>5, <1>6, <2>1, <3>1
  <2>2. CASE l = c
    <3>1. Home(h) = h
      BY <1>2, ChainFacts
    <3>2. list'.l_next[l] = list.l_next[h] /\ list.l_next[h] # c
          /\ list.l_next[h] \in Link
      BY <1>2, <1>5, <1>7, <2>2
    <3>3. Home(list.l_next[h])' = Home(list.l_next[h])
      <4>. DEFINE y == list.l_next[h]
      <4>1. y \in Link /\ y # c
        BY <3>2
      <4>2. y \in used' <=> y \in used
        BY <1>1, <4>1
      <4>3. list'.l_next[c] = y
        BY <1>5
      <4>. QED BY <2>0, <1>2, <1>4, <1>5, <1>6, <2>2, <3>1, <3>2, <4>1, <4>2 DEF Home
    <3>. QED BY <1>2, <1>5, <1>6, <2>0, <2>2, <3>1, <3>2, <3>3
  <2>3. CASE l # h /\ l # c
    <3>1. list'.l_next[l] = list.l_next[l] /\ list.l_next[l] # c
          /\ list.l_next[l] \in Link
      BY <1>5, <1>7, <2>3
    <3>. QED BY <1>6, <2>0, <2>3, <3>1
  <2>. QED BY <2>1, <2>2, <2>3
<1>9. TypeOK'
  BY <1>1, <1>4, <1>5 DEF TypeOK
<1>10. BucketsOK'
  <2>. SUFFICES ASSUME NEW b \in Buckets
                PROVE  IF obj'[b] = NULL THEN list'.l_next[b] = b
                       ELSE hash(key'[b]) = b
    BY DEF BucketsOK, lonely, hash
  <2>1. b \in Link /\ b # c /\ obj'[b] = obj[b] /\ key'[b] = key[b]
    BY <1>2, <1>4 DEF Link
  <2>. QED BY <1>5, <2>1 DEF HInv, BucketsOK, lonely
<1>11. CellsOK'
  <2>. SUFFICES ASSUME NEW d \in used \cup {c}
                PROVE  obj'[d] # NULL /\ Reaches(list', Link, hash(key'[d]), d)
    BY <1>1 DEF CellsOK, hash
  <2>1. CASE d = c
    <3>1. Reaches(list, Link, h, h)
      BY DEF Reaches
    <3>2. Reaches(list', Link, h, c)
      BY <1>2, <1>3, <3>1, InsertReaches
    <3>. QED BY <1>2, <1>4, <2>1, <3>2
  <2>2. CASE d # c
    <3>1. d \in used /\ d \in Link /\ hash(key[d]) \in Buckets
      BY <2>2, ChainFacts DEF Link
    <3>2. Reaches(list, Link, hash(key[d]), d) /\ obj[d] # NULL
      BY <3>1 DEF HInv, CellsOK
    <3>3. hash(key[d]) \in Link /\ hash(key[d]) # c
      BY <1>2, <3>1 DEF Link
    <3>4. Reaches(list', Link, hash(key[d]), d)
      BY <1>2, <1>3, <3>1, <3>2, <3>3, InsertReaches
    <3>. QED BY <1>4, <2>2, <3>1, <3>2, <3>4
  <2>. QED BY <2>1, <2>2
<1>12. Live' = Live \cup {c}
  BY <1>1, <1>2, <1>4 DEF Live, Link
<1>13. \A l \in Live : l \in Link /\ l # c
  BY <1>2, ChainFacts DEF Live, Link
<1>14. \A l, m \in Live' : key'[l] = key'[m] => l = m
  BY <1>4, <1>12, <1>13 DEF HInv
<1>15. Entries' = Entries \cup {<<k, v>>}
  BY <1>4, <1>12, <1>13 DEF Entries
<1>. QED BY <1>1, <1>5, <1>8, <1>9, <1>10, <1>11, <1>14, <1>15 DEF HInv

\* A cell leaves its chain and is given back, and either its own entry is the
\* one removed, or it moves into the bucket.
LEMMA RemoveCell ==
    ASSUME HInv, NEW c \in used, NEW h, h = hash(key[c]), Drop(c),
           key' \in [Link -> Nat], obj' \in [Link -> Values \cup {NULL}],
           \A l \in Link \ {c, h} : key'[l] = key[l] /\ obj'[l] = obj[l],
           NEW x \in {c, h},
           key'[h] = key[IF x = c THEN h ELSE c],
           obj'[h] = obj[IF x = c THEN h ELSE c]
    PROVE  HInv' /\ Entries' = {e \in Entries : e[1] # key[x]}
<1>1. SlabInv' /\ SlabTypeOK' /\ used' = used \ {c}
  BY FreeSlab DEF HInv, Drop, SlabInv
<1>2. /\ h \in Buckets /\ h \in Link /\ c \in Link /\ c # h
      /\ obj[h] # NULL /\ obj[c] # NULL /\ c \notin Buckets /\ h \notin used
      /\ c \in Live /\ h \in Live /\ used \in SUBSET Cells
  BY ChainedBucket, ChainFacts, LinkFacts DEF HInv, CellsOK, Live, Link
<1>3. /\ list \in Heap(Link) /\ Linked(list, Link)
      /\ key \in [Link -> Nat] /\ obj \in [Link -> Values \cup {NULL}]
  BY DEF HInv, TypeOK
<1>4. list' = unlink(list, c)
  BY DEF Drop
<1>5. /\ list' \in Heap(Link) /\ Linked(list', Link) /\ list'.l_next[c] = c
      /\ \A l \in Link : l # c =>
            list'.l_next[l] = IF list.l_next[l] = c THEN list.l_next[c]
                              ELSE list.l_next[l]
  BY <1>2, <1>3, <1>4, SurgeryLinked
<1>6. hash(key'[h]) = h /\ obj'[h] # NULL
  BY <1>2 DEF HInv, BucketsOK
<1>7. Home(c)' = c /\ \A l \in Link : l # c => Home(l)' = Home(l)
  BY <1>1, <1>2 DEF Home, hash
<1>8. ASSUME NEW l \in Link PROVE Home(list.l_next[l])' = Home(l)'
  <2>0. \A y \in Link : /\ Home(list.l_next[y]) = Home(y)
                         /\ list.l_next[y] \in Link
    BY ChainFacts DEF HInv
  <2>1. CASE l = c
    BY <1>5, <2>1
  <2>2. CASE l # c
    <3>1. list.l_next[l] = c => list.l_next[c] # c
      BY <1>2, <1>3, <2>2 DEF Linked
    <3>2. /\ list'.l_next[l] # c /\ list'.l_next[l] \in Link
          /\ Home(list'.l_next[l]) = Home(l)
      BY <1>2, <1>5, <2>0, <2>2, <3>1
    <3>. QED BY <1>7, <2>2, <3>2
  <2>. QED BY <2>1, <2>2
<1>9. TypeOK'
  BY <1>1, <1>5 DEF TypeOK
<1>10. BucketsOK'
  <2>. SUFFICES ASSUME NEW b \in Buckets, b # h
                PROVE  IF obj'[b] = NULL THEN list'.l_next[b] = b
                       ELSE hash(key'[b]) = b
    BY <1>6 DEF BucketsOK, lonely, hash
  <2>1. b \in Link /\ b # c /\ obj'[b] = obj[b] /\ key'[b] = key[b]
    BY <1>2 DEF Link
  <2>. QED BY <1>5, <2>1 DEF HInv, BucketsOK, lonely
<1>11. CellsOK'
  <2>. SUFFICES ASSUME NEW d \in used \ {c}
                PROVE  obj'[d] # NULL /\ Reaches(list', Link, hash(key'[d]), d)
    BY <1>1 DEF CellsOK, hash
  <2>1. d \in Link /\ d # h /\ hash(key[d]) \in Buckets
    BY <1>2, ChainFacts DEF Link
  <2>2. Reaches(list, Link, hash(key[d]), d) /\ obj[d] # NULL
    BY DEF HInv, CellsOK
  <2>3. hash(key[d]) \in Link /\ hash(key[d]) # c
    BY <1>2, <2>1 DEF Link
  <2>4. Reaches(list', Link, hash(key[d]), d)
    BY <1>2, <1>3, <1>4, <2>1, <2>2, <2>3, UnlinkReaches
  <2>. QED BY <2>1, <2>2, <2>4
<1>12. Live' = Live \ {c}
  <2>1. \A b \in Buckets : obj'[b] # NULL <=> obj[b] # NULL
    BY <1>2, <1>6 DEF Link
  <2>. QED BY <1>1, <1>2, <2>1, LinkFacts DEF Live
<1>13. \A l \in Live : l \in Link
  BY <1>2 DEF Live, Link
<1>14. \A l, m \in Live : key[l] = key[m] => l = m
  BY DEF HInv
<1>15. \A l, m \in Live' : key'[l] = key'[m] => l = m
  BY <1>2, <1>12, <1>13, <1>14
<1>16. Entries' = {e \in Entries : e[1] # key[x]}
  <2>1. ASSUME NEW l \in Live \ {c}
        PROVE  <<key'[l], obj'[l]>> \in {e \in Entries : e[1] # key[x]}
    <3>1. CASE l # h
      <4>1. key'[l] = key[l] /\ obj'[l] = obj[l] /\ key[l] # key[x]
        BY <1>2, <1>13, <1>14, <3>1
      <4>. QED BY <4>1 DEF Entries
    <3>2. CASE l = h
      <4>. DEFINE y == IF x = c THEN h ELSE c
      <4>1. key'[l] = key[y] /\ obj'[l] = obj[y] /\ key[y] # key[x] /\ y \in Live
        BY <1>2, <1>14, <3>2
      <4>. HIDE DEF y
      <4>. QED BY <4>1 DEF Entries
    <3>. QED BY <3>1, <3>2
  <2>2. ASSUME NEW l \in Live, key[l] # key[x]
        PROVE  \E m \in Live \ {c} : <<key'[m], obj'[m]>> = <<key[l], obj[l]>>
    <3>1. CASE l = c
      <4>1. x = h /\ key'[h] = key[c] /\ obj'[h] = obj[c]
        BY <1>2, <2>2, <3>1
      <4>. QED BY <1>2, <3>1, <4>1
    <3>2. CASE l = h
      <4>1. x = c /\ key'[h] = key[h] /\ obj'[h] = obj[h]
        BY <1>2, <2>2, <3>2
      <4>. QED BY <1>2, <3>2, <4>1
    <3>3. CASE l # c /\ l # h
      BY <1>13, <3>3
    <3>. QED BY <3>1, <3>2, <3>3
  <2>3. Entries' = {<<key'[l], obj'[l]>> : l \in Live \ {c}}
    BY <1>12 DEF Entries
  <2>4. ASSUME NEW e \in Entries, e[1] # key[x] PROVE e \in Entries'
    <3>1. PICK l \in Live : e = <<key[l], obj[l]>>
      BY DEF Entries
    <3>. QED BY <2>2, <2>3, <2>4, <3>1
  <2>. QED BY <2>1, <2>3, <2>4
<1>. QED BY <1>1, <1>5, <1>8, <1>9, <1>10, <1>11, <1>15, <1>16 DEF HInv

\* The only entry of a bucket is removed.
LEMMA RemoveBucket ==
    ASSUME HInv, NEW h \in Buckets, list.l_next[h] = h,
           obj' = [obj EXCEPT ![h] = NULL],
           UNCHANGED <<list, key, slab_vars>>
    PROVE  /\ HInv'
           /\ Entries' = {e \in Entries : obj[h] # NULL => e[1] # key[h]}
<1>1. h \in Link /\ h \notin used
  BY LinkFacts, ChainFacts DEF Link
<1>2. /\ list' = list /\ key' = key /\ used' = used /\ SlabInv' /\ SlabTypeOK'
      /\ list \in Heap(Link)
      /\ key \in [Link -> Nat] /\ obj \in [Link -> Values \cup {NULL}]
  BY SlabUnchanged DEF HInv, TypeOK, slab_vars, SlabInv
<1>3. /\ obj'[h] = NULL
      /\ \A l \in Link : l # h => obj'[l] = obj[l]
      /\ obj' \in [Link -> Values \cup {NULL}]
  BY <1>1, <1>2
<1>4. \A l \in Link : Home(l)' = Home(l)
  BY <1>2 DEF Home
<1>5. TypeOK'
  BY <1>2, <1>3 DEF TypeOK
<1>6. Linked(list, Link)'
  BY <1>2 DEF HInv
<1>7. \A l \in Link : Home(list.l_next[l])' = Home(l)'
  BY <1>2, <1>4, ChainFacts DEF HInv
<1>8. BucketsOK'
  BY <1>1, <1>2, <1>3 DEF HInv, BucketsOK, Link, lonely
<1>9. CellsOK'
  <2>. SUFFICES ASSUME NEW c \in used
                PROVE  obj'[c] # NULL /\ Reaches(list, Link, hash(key[c]), c)
    BY <1>2 DEF CellsOK
  <2>1. c # h /\ c \in Link
    BY <1>1, ChainFacts DEF Link
  <2>. QED BY <1>3, <2>1 DEF HInv, CellsOK
<1>10. Live' = Live \ {h}
  BY <1>1, <1>2, <1>3 DEF Live, Link
<1>11. \A l \in Live : l \in Link
  BY ChainFacts DEF Live, Link
<1>12. \A l, m \in Live : key[l] = key[m] => l = m
  BY DEF HInv
<1>13. h \in Live <=> obj[h] # NULL
  BY <1>1 DEF Live
<1>14. Entries' = {e \in Entries : obj[h] # NULL => e[1] # key[h]}
  <2>1. Entries' = {<<key[l], obj'[l]>> : l \in Live \ {h}}
    BY <1>2, <1>10 DEF Entries
  <2>2. Entries' = {<<key[l], obj[l]>> : l \in Live \ {h}}
    BY <1>3, <1>11, <2>1
  <2>3. \A l \in Live : l # h /\ obj[h] # NULL => key[l] # key[h]
    BY <1>12, <1>13
  <2>. QED BY <1>13, <2>2, <2>3 DEF Entries
<1>. QED BY <1>2, <1>5, <1>6, <1>7, <1>8, <1>9, <1>10, <1>12, <1>14 DEF HInv

\* insert adds the entry it was called with.
LEMMA InsertStep ==
    ASSUME HInv, NEW k \in Keys, NEW v \in Values, insert(k, v)
    PROVE  /\ HInv' /\ Entries' = Entries \cup {<<k, v>>}
           /\ \A w : <<k, w>> \notin Entries
<1>1. k \in Nat /\ lookup(k) = NULL
  BY KeysAssumption DEF insert
<1>2. \A l \in Live : obj[l] # NULL
  BY DEF Live, HInv, CellsOK
<1>3. \A w : <<k, w>> \in Entries => w = NULL
  BY <1>1, LookupExact
<1>4. \A l \in Live : key[l] # k
  BY <1>2, <1>3 DEF Entries
<1>5. \A w : <<k, w>> \notin Entries
  BY <1>4 DEF Entries
<1>. DEFINE h == hash(k)
<1>6. CASE /\ obj[h] = NULL
           /\ key' = [key EXCEPT ![h] = k]
           /\ obj' = [obj EXCEPT ![h] = v]
           /\ UNCHANGED <<list, slab_vars>>
  <2>. HIDE DEF h
  <2>1. h = hash(k)
    BY DEF h
  <2>. QED BY <1>1, <1>4, <1>5, <1>6, <2>1, InsertBucket
<1>7. CASE /\ obj[h] # NULL
           /\ \E c \in Cells :
                /\ allocate(c)
                /\ key' = [key EXCEPT ![c] = k]
                /\ obj' = [obj EXCEPT ![c] = v]
                /\ list' = add_after_self(list, h, c)
  <2>. HIDE DEF h
  <2>1. h = hash(k)
    BY DEF h
  <2>2. PICK c \in Cells : /\ allocate(c)
                           /\ key' = [key EXCEPT ![c] = k]
                           /\ obj' = [obj EXCEPT ![c] = v]
                           /\ list' = add_after_self(list, h, c)
    BY <1>7
  <2>. QED BY <1>1, <1>4, <1>5, <1>7, <2>1, <2>2, InsertCell
<1>. QED BY <1>6, <1>7 DEF insert

\* A step that changes no variable.
LEMMA TableStutter ==
    ASSUME HInv, UNCHANGED vars
    PROVE  HInv' /\ Entries' = Entries
<1>1. list' = list /\ key' = key /\ obj' = obj /\ UNCHANGED slab_vars
  BY DEF vars
<1>2. SlabInv' /\ used' = used
  BY <1>1, SlabUnchanged DEF HInv, slab_vars
<1>3. Live' = Live /\ Entries' = Entries
  BY <1>1, <1>2 DEF Live, Entries
<1>4. \A l : Home(l)' = Home(l)
  BY <1>1, <1>2 DEF Home
<1>5. TypeOK' /\ BucketsOK' /\ CellsOK'
  BY <1>1, <1>2 DEF HInv, TypeOK, BucketsOK, CellsOK, SlabInv, hash
<1>. QED BY <1>1, <1>2, <1>3, <1>4, <1>5 DEF HInv

\* remove leaves the entries of the other keys.
LEMMA RemoveStep ==
    ASSUME HInv, NEW k \in Keys, remove(k)
    PROVE  HInv' /\ Entries' = {e \in Entries : e[1] # k}
<1>. DEFINE h == hash(k)
            link == lookup_internal(k, h)
            next == list.l_next[h]
<1>1. k \in Nat /\ h \in Buckets /\ h \in Link /\ h \notin used
  BY KeysAssumption, LinkFacts, ChainFacts DEF Link
<1>2. /\ link # NULL => link \in Link /\ Home(link) = h /\ key[link] = k
      /\ link = NULL => \A l \in Link : Home(l) = h => key[l] # k
  BY <1>1, LookupInternal
<1>3. \A l \in Live : l \in Link /\ Home(l) = hash(key[l])
  BY ChainFacts DEF Live, HInv, BucketsOK, Home, Link
<1>4. /\ list \in Heap(Link) /\ Linked(list, Link)
      /\ key \in [Link -> Nat] /\ obj \in [Link -> Values \cup {NULL}]
  BY DEF HInv, TypeOK
<1>5. CASE link = NULL /\ UNCHANGED vars
  <2>1. \A l \in Live : key[l] # k
    BY <1>2, <1>3, <1>5
  <2>2. Entries = {e \in Entries : e[1] # k}
    BY <2>1 DEF Entries
  <2>. QED BY <1>5, <2>2, TableStutter
<1>6. CASE /\ link = h
           /\ next = h
           /\ obj' = [obj EXCEPT ![h] = NULL]
           /\ UNCHANGED <<list, key, slab_vars>>
  <2>1. key[h] = k
    BY <1>1, <1>2, <1>6, LinkFacts
  <2>2. HInv' /\ Entries' = {e \in Entries : obj[h] # NULL => e[1] # k}
    <3>. HIDE DEF h, link
    <3>. QED BY <1>1, <1>6, <2>1, RemoveBucket
  <2>3. ASSUME obj[h] = NULL, NEW l \in Live PROVE key[l] # k
    <3>1. SUFFICES ASSUME key[l] = k PROVE FALSE
      OBVIOUS
    <3>2. l \in Link /\ Home(l) = h /\ l # h
      BY <1>1, <1>3, <2>3, <3>1 DEF Live
    <3>3. l \in used
      BY <3>2 DEF Home
    <3>. QED BY <2>3, <3>1, <3>3, ChainedBucket
  <2>4. obj[h] = NULL => \A e \in Entries : e[1] # k
    BY <2>3 DEF Entries
  <2>. QED BY <2>2, <2>4
<1>7. CASE /\ link = h
           /\ next # h
           /\ key' = [key EXCEPT ![h] = key[next], ![next] = 0]
           /\ obj' = [obj EXCEPT ![h] = obj[next], ![next] = NULL]
           /\ Drop(next)
  <2>1. key[h] = k
    BY <1>1, <1>2, <1>7, LinkFacts
  <2>2. next \in Link /\ Home(next) = h /\ next \in used
    BY <1>1, <1>7, ChainFacts DEF HInv, Home
  <2>3. h = hash(key[next]) /\ key[next] \in Nat
        /\ obj[next] \in Values \cup {NULL}
    BY <1>4, <2>2 DEF Home
  <2>. HIDE DEF h, next, link
  <2>4. /\ key' \in [Link -> Nat] /\ obj' \in [Link -> Values \cup {NULL}]
        /\ \A l \in Link \ {next, h} : key'[l] = key[l] /\ obj'[l] = obj[l]
        /\ key'[h] = key[next] /\ obj'[h] = obj[next]
    BY <1>1, <1>4, <1>7, <2>2, <2>3
  <2>5. /\ h \in {next, h}
        /\ key'[h] = key[IF h = next THEN h ELSE next]
        /\ obj'[h] = obj[IF h = next THEN h ELSE next]
    BY <1>7, <2>4
  <2>6. HInv' /\ Entries' = {e \in Entries : e[1] # key[h]}
    BY <1>7, <2>2, <2>3, <2>4, <2>5, RemoveCell
  <2>. QED BY <2>1, <2>6
<1>8. CASE /\ link \notin {h, NULL}
           /\ key' = [key EXCEPT ![link] = 0]
           /\ obj' = [obj EXCEPT ![link] = NULL]
           /\ Drop(link)
  <2>1. link \in used /\ link \in Link /\ key[link] = k
    BY <1>2, <1>8 DEF Home
  <2>2. h = hash(key[link]) /\ link # h
    BY <1>8, <2>1
  <2>. HIDE DEF h, link
  <2>3. /\ key' \in [Link -> Nat] /\ obj' \in [Link -> Values \cup {NULL}]
        /\ \A l \in Link \ {link, h} : key'[l] = key[l] /\ obj'[l] = obj[l]
        /\ key'[h] = key[h] /\ obj'[h] = obj[h]
    BY <1>1, <1>4, <1>8, <2>1, <2>2
  <2>4. /\ link \in {link, h}
        /\ key'[h] = key[IF link = link THEN h ELSE link]
        /\ obj'[h] = obj[IF link = link THEN h ELSE link]
    BY <2>3
  <2>5. HInv' /\ Entries' = {e \in Entries : e[1] # key[link]}
    BY <1>8, <2>1, <2>2, <2>3, <2>4, RemoveCell
  <2>. QED BY <2>1, <2>5
<1>. QED BY <1>5, <1>6, <1>7, <1>8 DEF remove

\* The empty table: every link is alone.
LEMMA TableInit == Init => HInv /\ Entries = {}
<1>. SUFFICES ASSUME Init PROVE HInv /\ Entries = {}
  OBVIOUS
<1>1. /\ list = Fresh(Link) /\ key = [l \in Link |-> 0]
      /\ obj = [l \in Link |-> NULL] /\ SlabInit /\ used = {}
  BY DEF Init, SlabInit
<1>2. SlabInv
  BY <1>1, SlabInitInv
<1>3. /\ list \in Heap(Link) /\ Linked(list, Link)
      /\ \A l \in Link : list.l_next[l] = l
  BY <1>1 DEF Fresh, Heap, Linked
<1>4. TypeOK
  BY <1>1, <1>2, <1>3 DEF TypeOK, SlabInv
<1>5. Live = {}
  BY <1>1 DEF Live, Link
<1>6. BucketsOK /\ CellsOK
  BY <1>1, <1>3 DEF BucketsOK, CellsOK, lonely, Link
<1>. QED BY <1>2, <1>3, <1>4, <1>5, <1>6 DEF HInv, Entries

\* HInv is an invariant of the table.
LEMMA TableInvariance == Spec => []HInv
<1>1. HInv /\ [Next]_vars => HInv'
  <2>. SUFFICES ASSUME HInv, [Next]_vars PROVE HInv'
    OBVIOUS
  <2>1. CASE Next
    BY <2>1, InsertStep, RemoveStep DEF Next
  <2>2. CASE UNCHANGED vars
    BY <2>2, TableStutter
  <2>. QED BY <2>1, <2>2
<1>. QED BY <1>1, TableInit, PTL DEF Spec

\* Whatever is inserted and removed, an object of a slab is in use or has its
\* bit set, never both: allocate gives out nothing twice and free loses nothing.
THEOREM ObjectsStayConserved == Spec => []ObjectsConserved
<1>1. HInv => ObjectsConserved
  BY DEF HInv, SlabInv
<1>. QED BY <1>1, TableInvariance, PTL

\* The allocator's list has exactly the slabs with a free object, once each.
THEOREM SlabListStaysExact == Spec => []FreeListExact
<1>1. HInv => FreeListExact
  BY SlabList DEF HInv
<1>. QED BY <1>1, TableInvariance, PTL

\* Every chain holds exactly the cells in use whose key belongs to its bucket,
\* linked both ways: remove leaves no cell behind that is in use and in no
\* chain, and gives back none that is still in one.
THEOREM ChainsStayExact == Spec => []ChainsExact
<1>1. HInv => ChainsExact
  BY Chains
<1>. QED BY <1>1, TableInvariance, PTL

\* The variables keep their types.
THEOREM TableTypeOK == Spec => []TypeOK
<1>1. HInv => TypeOK
  BY DEF HInv
<1>. QED BY <1>1, TableInvariance, PTL

\* What lookup answers about every key.
LookupOK ==
    \A k \in Keys :
        /\ \A v : <<k, v>> \in Entries => lookup(k) = v
        /\ (\A v : <<k, v>> \notin Entries) => lookup(k) = NULL

\* A step that changes the entries of one key is a step of MapSpec.
LEMMA StepMaps ==
    ASSUME HInv, LookupOK, LookupOK', [Next]_vars
    PROVE  [Map!Next]_[k \in Keys |-> lookup(k)]
<1>. DEFINE map == [k \in Keys |-> lookup(k)]
<1>0. \A j \in Keys : map[j] = lookup(j) /\ map'[j] = lookup(j)'
  OBVIOUS
<1>1. ASSUME NEW k \in Keys, NEW v \in Values, insert(k, v)
      PROVE  Map!Insert(k)
  <2>1. /\ Entries' = Entries \cup {<<k, v>>}
        /\ \A w : <<k, w>> \notin Entries
    BY <1>1, InsertStep
  <2>2. lookup(k) = NULL /\ lookup(k)' = v
    BY <2>1 DEF LookupOK
  <2>3. ASSUME NEW j \in Keys \ {k} PROVE lookup(j)' = lookup(j)
    <3>1. \A w : <<j, w>> \in Entries' <=> <<j, w>> \in Entries
      BY <2>1
    <3>. QED BY <3>1 DEF LookupOK
  <2>. QED BY <1>0, <2>2, <2>3 DEF Map!Insert, Map!Only
<1>2. ASSUME NEW k \in Keys, remove(k) PROVE Map!Remove(k)
  <2>1. Entries' = {e \in Entries : e[1] # k}
    BY <1>2, RemoveStep
  <2>2. \A w : <<k, w>> \notin Entries'
    BY <2>1
  <2>3. lookup(k)' = NULL
    BY <2>2 DEF LookupOK
  <2>4. ASSUME NEW j \in Keys \ {k} PROVE lookup(j)' = lookup(j)
    <3>1. \A w : <<j, w>> \in Entries' <=> <<j, w>> \in Entries
      BY <2>1
    <3>. QED BY <3>1 DEF LookupOK
  <2>. QED BY <1>0, <2>3, <2>4 DEF Map!Remove, Map!Only
<1>3. CASE UNCHANGED vars
  <2>1. Entries' = Entries
    BY <1>3, TableStutter
  <2>2. \A k \in Keys : lookup(k)' = lookup(k)
    BY <2>1 DEF LookupOK
  <2>3. map' = map
    BY <2>2
  <2>. QED BY <2>3
<1>. QED BY <1>1, <1>2, <1>3 DEF Next, Map!Next

\* The table implements a map: lookup tells what insert and remove did, and
\* nothing happens to the other keys, whatever bucket they share.
THEOREM TableIsMap == Spec => ImplementsMap
<1>1. HInv => LookupOK
  BY LookupExact, KeysAssumption DEF LookupOK
<1>2. Init => Map!Init
  <2>. SUFFICES ASSUME Init PROVE Map!Init
    OBVIOUS
  <2>1. HInv /\ Entries = {}
    BY TableInit
  <2>2. \A k \in Keys : lookup(k) = NULL
    BY <2>1, <1>1 DEF LookupOK
  <2>. QED BY <2>2 DEF Map!Init
<1>3. HInv /\ LookupOK /\ LookupOK' /\ [Next]_vars
        => [Map!Next]_[k \in Keys |-> lookup(k)]
  BY StepMaps
<1>. QED BY <1>1, <1>2, <1>3, TableInvariance, PTL
         DEF Spec, ImplementsMap, Map!Spec
=============================================================================
