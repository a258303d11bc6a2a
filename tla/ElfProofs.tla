------------------------------ MODULE ElfProofs ------------------------------
(***************************************************************************)
(* Proofs about physical memory, page tables and the loader: the list of   *)
(* free pages is exact, kmem is at its address in every directory, and     *)
(* user pages belong to one address of one task.                           *)
(***************************************************************************)
EXTENDS ElfLoader, ListProofs

NextFree == [p \in Pages |-> word(p)]

\* The list of free pages has these and nothing else.
ListOK ==
    /\ given \subseteq hmem_phys_end .. RamEnd - 1
    /\ NilList(FreePages, NextFree, 0, hmem_phys_list)

----------------------------------------------------------------------------
\* Page directories and tables.
IsMM(m) ==
    /\ m = [dir |-> m.dir, tab |-> m.tab, n |-> m.n]
    /\ m.n \in Nat
    /\ m.dir \in [Directories -> [0 .. TOP -> 0 .. m.n]]
    /\ m.tab \in [1 .. m.n -> [0 .. TableSize - 1 -> Nat]]

\* Translate, in the page tables m.
PhysIn(m, d, v) ==
    IF m.dir[d][dir_index(v)] = 0 THEN 0
    ELSE m.tab[m.dir[d][dir_index(v)]][tab_index(v)]

\* The first directory has the page tables of kmem and no other, the tasks
\* that were created (C) have these too, and any other page table is in one
\* place of one directory.
DirsOK(m, C) ==
    /\ \A t \in Tasks \ C : \A i \in 0 .. TOP : m.dir[t][i] = 0
    /\ \A i \in 0 .. TOP : m.dir[first_page_directory][i] = 0 <=> i \notin kmem_tables
    /\ \A t \in C : \A i \in kmem_tables :
            m.dir[t][i] = m.dir[first_page_directory][i]
    /\ \A d, e \in Directories : \A i, j \in 0 .. TOP :
            m.dir[d][i] # 0 /\ m.dir[d][i] = m.dir[e][j] =>
                i = j /\ (d = e \/ i \in kmem_tables)

\* The pages of kmem below end are mapped.
KmemMapped(m, end) ==
    \A p \in 1 .. end - 1 : PhysIn(m, first_page_directory, KernelBase + p) = p

----------------------------------------------------------------------------
\* Points inside the loop over the program headers, and inside a segment.
InSegment == {"alloc", "map", "read", "zero"}

InFile == InSegment \cup {"phdr"}

LoaderPoints == InFile \cup {"none", "new", "run", "ok", "invalid"}

LoaderType == [pc : LoaderPoints, file : DOMAIN Files \cup {0}, i : Nat, idx : Nat,
               page : Pages \cup {0}, pos : Int]

Headers(l) == Files[l.file].phdrs

Start(l) == Headers(l)[l.i].p_vaddr \div PageSize

\* The page that the loader is at.
VirtOf(l) == Start(l) + l.idx \div PageSize

\* Where the loader is in the file.
PlaceOK(l) ==
    /\ l.pc \in InFile =>
            l.file \in DOMAIN Files /\ Files[l.file].supported /\ l.i >= 1
    /\ l.pc \in InSegment =>
            /\ l.i \in DOMAIN Headers(l)
            /\ Headers(l)[l.i].load
            /\ l.idx < Headers(l)[l.i].p_memsz
            /\ \E k \in 0 .. l.idx : l.idx = k * PageSize

\* The loader has been at page v.
Visited(l, v) ==
    /\ l.pc \notin {"none", "new", "run"}
    /\ l.pc \in InFile =>
        \/ \E j \in DOMAIN Headers(l) : j < l.i /\ v \in SegmentPages(Headers(l)[j])
        \/ /\ l.pc \in InSegment
           /\ \E k \in 0 .. l.idx : /\ v = Start(l) + k
                             /\ \/ k * PageSize < l.idx
                                \/ k * PageSize = l.idx /\ l.pc \in {"read", "zero"}

\* A task whose load has allocated the pages S: they are mapped at different
\* addresses, all of which the loader has been at, but for the one that it is
\* about to map.
TaskOK(t, l, S, m) ==
    /\ l \in LoaderType
    /\ PlaceOK(l)
    /\ l.page # 0 <=> l.pc = "map"
    /\ l.pc \notin {"none", "new"} => m.dir[t][TOP] # 0
    /\ S = ({PhysIn(m, t, v) : v \in UserPages} \cup {l.page}) \ {0}
    /\ \A v \in UserPages :
            PhysIn(m, t, v) # 0 => PhysIn(m, t, v) # l.page /\ Visited(l, v)
    /\ \A v, w \in UserPages :
            PhysIn(m, t, v) # 0 /\ PhysIn(m, t, v) = PhysIn(m, t, w) => v = w
    /\ l.pc \in {"read", "zero"} => PhysIn(m, t, VirtOf(l)) # 0

Created == {t \in Tasks : loader[t].pc # "none"}

\* What holds even after a panic.
Shape ==
    /\ PhysTypeOK
    /\ panic \in {"no", "kmem_region_end", "hmem_phys_end", "e_phentsize", "e_phnum"}
    /\ loader \in [Tasks -> LoaderType]
    /\ loaded \in [Tasks -> SUBSET Pages]
    /\ IsMM(mm)

\* The pages of a load are given out, and are those of no other load.
LoadsApart ==
    /\ \A t \in Tasks : loaded[t] \subseteq given
    /\ \A t, u \in Tasks : t # u => loaded[t] \cap loaded[u] = {}

Sound ==
    /\ KmemStart <= kmem_phys_end /\ kmem_phys_end <= RegionEnd
    /\ ListOK
    /\ DirsOK(mm, Created)
    /\ KmemMapped(mm, kmem_phys_end)
    /\ \A t \in Tasks : TaskOK(t, loader[t], loaded[t], mm)
    /\ LoadsApart

ElfInv == Shape /\ (Runs => Sound)

----------------------------------------------------------------------------
(***************************************************************************)
(* Indices.                                                                *)
(***************************************************************************)

\* A virtual page number is its directory index and its table index.
LEMMA Index ==
    ASSUME NEW v \in Nat
    PROVE  /\ dir_index(v) \in Nat /\ tab_index(v) \in 0 .. TableSize - 1
           /\ v = TableSize * dir_index(v) + tab_index(v)
<1>1. \A a, b \in Nat : b > 0 => a \div b \in Nat
  OBVIOUS
<1>2. \A a, b \in Nat : b > 0 => (a % b) \in 0 .. b - 1
  OBVIOUS
<1>3. \A a, b \in Nat : b > 0 => a = b * (a \div b) + (a % b)
  OBVIOUS
<1>. QED BY <1>1, <1>2, <1>3, TablesAssumption DEF dir_index, tab_index

LEMMA IndexMonotone ==
    ASSUME NEW v \in Nat, NEW w \in Nat, v <= w
    PROVE  dir_index(v) <= dir_index(w)
<1>1. \A a, b, c \in Nat : c > 0 /\ a <= b => a \div c <= b \div c
  OBVIOUS
<1>. QED BY <1>1, TablesAssumption DEF dir_index

LEMMA IndexInjective ==
    ASSUME NEW v \in Nat, NEW w \in Nat,
           dir_index(v) = dir_index(w), tab_index(v) = tab_index(w)
    PROVE  v = w
  BY Index

\* User pages, kmem and temporary mappings are in different entries.
LEMMA Regions ==
    /\ KernelBase \in Nat /\ TOP \in Nat
    /\ UserPages \subseteq Nat
    /\ \A v \in UserPages : dir_index(v) < UserTables /\ dir_index(v) \in 0 .. TOP
    /\ UserTables < TOP /\ UserTables \in Nat
    /\ kmem_tables \subseteq UserTables .. TOP - 1
    /\ \A p \in 0 .. RegionEnd + BuddyPages :
            KernelBase + p \in Nat /\ dir_index(KernelBase + p) \in UserTables .. TOP - 1
    /\ \A p \in 0 .. RegionEnd - 1 : dir_index(KernelBase + p) \in kmem_tables
<1>1. KernelBase \in Nat /\ UserPages \subseteq Nat
  BY TablesAssumption DEF KernelBase, UserPages
<1>2. RegionEnd \in Nat /\ BuddyPages \in Nat /\ RegionEnd >= 1
  BY BuddyAssumption, RamAssumption
<1>3. dir_index(KernelBase) = UserTables
  <2>1. \A a, b \in Nat : b > 0 => (a * b) \div b = a
    OBVIOUS
  <2>. QED BY <2>1, TablesAssumption DEF dir_index, KernelBase
<1>4. ASSUME NEW p \in 0 .. RegionEnd + BuddyPages
      PROVE  /\ KernelBase + p \in Nat
             /\ dir_index(KernelBase + p) \in UserTables .. TOP - 1
  <2>1. /\ KernelBase + p \in Nat /\ KernelBase <= KernelBase + p
        /\ KernelBase + RegionEnd + BuddyPages \in Nat
        /\ KernelBase + p <= KernelBase + RegionEnd + BuddyPages
    BY <1>1, <1>2
  <2>2. dir_index(KernelBase) <= dir_index(KernelBase + p)
        /\ dir_index(KernelBase + p) <= dir_index(KernelBase + RegionEnd + BuddyPages)
    BY <1>1, <2>1, IndexMonotone
  <2>3. dir_index(KernelBase + p) \in Nat
        /\ dir_index(KernelBase + RegionEnd + BuddyPages) \in Nat
    BY <2>1, Index
  <2>. QED BY <1>3, <2>1, <2>2, <2>3, TablesAssumption DEF TOP
<1>5. UserTables < TOP /\ TOP \in Nat /\ UserTables \in Nat
  <2>1. 0 \in 0 .. RegionEnd + BuddyPages
    BY <1>2
  <2>2. KernelBase + RegionEnd + BuddyPages \in Nat
    BY <1>1, <1>2
  <2>3. TOP \in Nat
    BY <2>2, Index DEF TOP
  <2>. QED BY <1>4, <2>1, <2>3, TablesAssumption
<1>6. ASSUME NEW v \in UserPages PROVE dir_index(v) < UserTables
  <2>1. v \in Nat /\ v < UserTables * TableSize
    BY <1>1, TablesAssumption DEF UserPages, KernelBase
  <2>2. \A a, b, c \in Nat : c > 0 /\ a < b * c => a \div c < b
    OBVIOUS
  <2>. QED BY <2>1, <2>2, TablesAssumption DEF dir_index
<1>7. ASSUME NEW p \in 0 .. RegionEnd - 1 PROVE dir_index(KernelBase + p) \in kmem_tables
  <2>1. /\ KernelBase + p \in Nat /\ KernelBase + RegionEnd - 1 \in Nat
        /\ KernelBase + p <= KernelBase + RegionEnd - 1
    BY <1>1, <1>2
  <2>2. dir_index(KernelBase + p) <= dir_index(KernelBase + RegionEnd - 1)
    BY <2>1, IndexMonotone
  <2>3. dir_index(KernelBase + p) >= UserTables /\ dir_index(KernelBase + p) \in Nat
    BY <1>2, <1>4, <1>5
  <2>4. dir_index(KernelBase + RegionEnd - 1) \in Nat
    BY <2>1, Index
  <2>. QED BY <1>5, <2>2, <2>3, <2>4 DEF kmem_tables
<1>8. kmem_tables \subseteq UserTables .. TOP - 1
  <2>1. RegionEnd - 1 \in 0 .. RegionEnd + BuddyPages
        /\ KernelBase + (RegionEnd - 1) = KernelBase + RegionEnd - 1
    BY <1>1, <1>2
  <2>2. dir_index(KernelBase + RegionEnd - 1) \in UserTables .. TOP - 1
    BY <1>4, <2>1
  <2>. QED BY <1>5, <2>2 DEF kmem_tables
<1>9. \A v \in UserPages : dir_index(v) \in 0 .. TOP
  BY <1>1, <1>5, <1>6, Index
<1>. QED BY <1>1, <1>4, <1>5, <1>6, <1>7, <1>8, <1>9

----------------------------------------------------------------------------
(***************************************************************************)
(* Page tables.                                                            *)
(***************************************************************************)

\* r is m with a new page table, which maps nothing, in entry i of directory d.
HasNew(r, m, d, i) ==
    /\ IsMM(r) /\ r.n = m.n + 1
    /\ r.dir[d][i] = m.n + 1
    /\ \A e \in Directories : \A j \in 0 .. TOP :
            ~ (e = d /\ j = i) => r.dir[e][j] = m.dir[e][j]
    /\ r.tab[m.n + 1] = Empty
    /\ \A k \in 1 .. m.n : r.tab[k] = m.tab[k]

LEMMA NewTable ==
    ASSUME NEW m, IsMM(m), NEW d \in Directories, NEW i \in 0 .. TOP,
           NEW r, r = new_table(m, d, i)
    PROVE  HasNew(r, m, d, i)
<1>1. /\ m.n \in Nat /\ m.dir \in [Directories -> [0 .. TOP -> 0 .. m.n]]
      /\ m.tab \in [1 .. m.n -> [0 .. TableSize - 1 -> Nat]]
  BY DEF IsMM
<1>2. /\ r = [dir |-> r.dir, tab |-> r.tab, n |-> r.n]
      /\ r.n = m.n + 1 /\ r.dir = [m.dir EXCEPT ![d][i] = m.n + 1]
      /\ r.tab = [k \in 1 .. m.n + 1 |-> IF k <= m.n THEN m.tab[k] ELSE Empty]
  BY DEF new_table
<1>3. Empty \in [0 .. TableSize - 1 -> Nat]
  BY DEF Empty
<1>4. /\ r.tab[m.n + 1] = Empty /\ \A k \in 1 .. m.n : r.tab[k] = m.tab[k]
      /\ r.tab \in [1 .. r.n -> [0 .. TableSize - 1 -> Nat]]
  BY <1>1, <1>2, <1>3
<1>5. /\ r.dir[d][i] = m.n + 1
      /\ \A e \in Directories : \A j \in 0 .. TOP :
                    ~ (e = d /\ j = i) => r.dir[e][j] = m.dir[e][j]
      /\ r.dir \in [Directories -> [0 .. TOP -> 0 .. r.n]]
  <2>1. /\ m.dir[d] \in [0 .. TOP -> 0 .. m.n] /\ r.dir[d] = [m.dir[d] EXCEPT ![i] = m.n + 1]
        /\ DOMAIN r.dir = Directories
        /\ \A e \in Directories : e # d => r.dir[e] = m.dir[e]
    BY <1>1, <1>2
  <2>2. /\ r.dir[d] \in [0 .. TOP -> 0 .. r.n] /\ r.dir[d][i] = m.n + 1
        /\ \A j \in 0 .. TOP : j # i => r.dir[d][j] = m.dir[d][j]
    <3>1. m.dir[d] \in [0 .. TOP -> 0 .. r.n] /\ m.n + 1 \in 0 .. r.n
      <4>1. 0 .. m.n \subseteq 0 .. r.n /\ m.n + 1 \in 0 .. r.n
        BY <1>1, <1>2
      <4>. QED BY <2>1, <4>1
    <3>. QED BY <2>1, <3>1
  <2>3. ASSUME NEW e \in Directories PROVE r.dir[e] \in [0 .. TOP -> 0 .. r.n]
    <3>1. m.dir[e] \in [0 .. TOP -> 0 .. m.n]
      BY <1>1
    <3>2. m.dir[e] \in [0 .. TOP -> 0 .. r.n]
      BY <1>1, <1>2, <3>1
    <3>. QED BY <2>1, <2>2, <3>2
  <2>4. r.dir = [e \in Directories |-> r.dir[e]]
    BY <1>1, <1>2
  <2>5. r.dir \in [Directories -> [0 .. TOP -> 0 .. r.n]]
    BY <2>3, <2>4
  <2>. QED BY <2>1, <2>2, <2>5
<1>. QED BY <1>1, <1>2, <1>4, <1>5 DEF IsMM, HasNew

\* The page tables m with page p in entry j of page table k.
Stored(m, k, j, p) == [m EXCEPT !.tab[k][j] = p]

HasStored(r, m, k, j, p) ==
    /\ IsMM(r) /\ r.n = m.n /\ r.dir = m.dir
    /\ r.tab[k][j] = p
    /\ \A l \in 1 .. m.n : \A i \in 0 .. TableSize - 1 :
            ~ (l = k /\ i = j) => r.tab[l][i] = m.tab[l][i]

LEMMA Store ==
    ASSUME NEW m, IsMM(m), NEW k \in 1 .. m.n, NEW j \in 0 .. TableSize - 1,
           NEW p \in Nat, NEW r, r = Stored(m, k, j, p)
    PROVE  HasStored(r, m, k, j, p)
<1>1. /\ m = [dir |-> m.dir, tab |-> m.tab, n |-> m.n]
      /\ m.n \in Nat /\ m.dir \in [Directories -> [0 .. TOP -> 0 .. m.n]]
      /\ m.tab \in [1 .. m.n -> [0 .. TableSize - 1 -> Nat]]
  BY DEF IsMM
<1>2. r = [dir |-> m.dir, tab |-> [m.tab EXCEPT ![k][j] = p], n |-> m.n]
  BY <1>1 DEF Stored
<1>3. /\ r = [dir |-> r.dir, tab |-> r.tab, n |-> r.n]
      /\ r.n = m.n /\ r.dir = m.dir /\ r.tab = [m.tab EXCEPT ![k][j] = p]
  BY <1>2
<1>4. /\ r.tab[k][j] = p
      /\ \A l \in 1 .. m.n : \A i \in 0 .. TableSize - 1 :
                    ~ (l = k /\ i = j) => r.tab[l][i] = m.tab[l][i]
      /\ r.tab \in [1 .. m.n -> [0 .. TableSize - 1 -> Nat]]
  <2>1. /\ m.tab[k] \in [0 .. TableSize - 1 -> Nat]
        /\ r.tab[k] = [m.tab[k] EXCEPT ![j] = p]
        /\ \A l \in 1 .. m.n : l # k => r.tab[l] = m.tab[l]
    BY <1>1, <1>3
  <2>2. /\ r.tab[k] \in [0 .. TableSize - 1 -> Nat] /\ r.tab[k][j] = p
        /\ \A i \in 0 .. TableSize - 1 : i # j => r.tab[k][i] = m.tab[k][i]
    BY <2>1
  <2>3. \A l \in 1 .. m.n : r.tab[l] \in [0 .. TableSize - 1 -> Nat]
    BY <1>1, <2>1, <2>2
  <2>4. r.tab = [l \in 1 .. m.n |-> r.tab[l]]
    BY <1>1, <1>3
  <2>5. r.tab \in [1 .. m.n -> [0 .. TableSize - 1 -> Nat]]
    BY <2>3, <2>4
  <2>. QED BY <2>1, <2>2, <2>5
<1>. QED BY <1>1, <1>3, <1>4 DEF IsMM, HasStored

\* What map_page does to the page tables.
Maps(r, m, d, v, p) ==
    LET i == dir_index(v)
        j == tab_index(v)
    IN  /\ IsMM(r) /\ r.n >= m.n
        /\ \A e \in Directories : \A k \in 0 .. TOP :
                ~ (e = d /\ k = i) => r.dir[e][k] = m.dir[e][k]
        /\ m.dir[d][i] # 0 => r.dir = m.dir /\ r.n = m.n
        /\ m.dir[d][i] = 0 => /\ r.dir[d][i] = m.n + 1
                              /\ \A h \in 0 .. TableSize - 1 :
                                    h # j => r.tab[m.n + 1][h] = 0
        /\ r.dir[d][i] # 0 /\ r.tab[r.dir[d][i]][j] = p
        /\ \A k \in 1 .. m.n : \A h \in 0 .. TableSize - 1 :
                ~ (k = r.dir[d][i] /\ h = j) => r.tab[k][h] = m.tab[k][h]

LEMMA MapPage ==
    ASSUME NEW m, IsMM(m), NEW d \in Directories, NEW v \in Nat,
           dir_index(v) \in 0 .. TOP, NEW p \in Nat, NEW r, r = map_page(m, d, v, p)
    PROVE  Maps(r, m, d, v, p)
<1>. DEFINE i == dir_index(v)
            j == tab_index(v)
<1>1. j \in 0 .. TableSize - 1
  BY Index
<1>2. m.n \in Nat /\ m.dir[d][i] \in 0 .. m.n
  BY DEF IsMM
<1>3. CASE m.dir[d][i] # 0
  <2>1. PICK k : k = m.dir[d][i]
    OBVIOUS
  <2>2. r = Stored(m, k, j, p)
    BY <1>3, <2>1 DEF map_page, Stored
  <2>3. k \in 1 .. m.n
    BY <1>2, <1>3, <2>1
  <2>. HIDE DEF i, j
  <2>4. HasStored(r, m, k, j, p)
    BY <1>1, <2>2, <2>3, Store
  <2>5. /\ IsMM(r) /\ r.n = m.n /\ r.dir = m.dir /\ r.dir[d][i] = k /\ k # 0
        /\ r.tab[k][j] = p
        /\ \A l \in 1 .. m.n : \A h \in 0 .. TableSize - 1 :
                    ~ (l = k /\ h = j) => r.tab[l][h] = m.tab[l][h]
    BY <1>3, <2>1, <2>4 DEF HasStored
  <2>. QED BY <1>2, <1>3, <2>1, <2>5 DEF Maps, i, j
<1>4. CASE m.dir[d][i] = 0
  <2>1. PICK s : s = new_table(m, d, i)
    OBVIOUS
  <2>. HIDE DEF i, j
  <2>2. HasNew(s, m, d, i)
    BY <2>1, NewTable DEF i
  <2>3. r = Stored(s, m.n + 1, j, p)
    <3>1. s.dir[d][i] = m.n + 1
      BY <2>2 DEF HasNew
    <3>. QED BY <1>4, <2>1, <3>1 DEF map_page, Stored, i, j
  <2>4. PICK k : k = m.n + 1
    OBVIOUS
  <2>5. k \in 1 .. s.n /\ IsMM(s)
    BY <1>2, <2>2, <2>4 DEF HasNew
  <2>6. HasStored(r, s, k, j, p)
    BY <1>1, <2>3, <2>4, <2>5, Store
  <2>7. /\ IsMM(r) /\ r.n = m.n + 1 /\ r.dir = s.dir /\ r.tab[k][j] = p
        /\ \A l \in 1 .. s.n : \A h \in 0 .. TableSize - 1 :
                    ~ (l = k /\ h = j) => r.tab[l][h] = s.tab[l][h]
        /\ s.n = m.n + 1 /\ s.dir[d][i] = k /\ s.tab[k] = Empty
        /\ \A l \in 1 .. m.n : s.tab[l] = m.tab[l]
        /\ \A e \in Directories : \A h \in 0 .. TOP :
                ~ (e = d /\ h = i) => s.dir[e][h] = m.dir[e][h]
    BY <2>2, <2>4, <2>6 DEF HasNew, HasStored
  <2>8. \A h \in 0 .. TableSize - 1 : h # j => r.tab[k][h] = 0
    BY <2>5, <2>7 DEF Empty
  <2>9. \A l \in 1 .. m.n : l \in 1 .. s.n /\ l # k
    BY <1>2, <2>4, <2>7
  <2>10. \A l \in 1 .. m.n : \A h \in 0 .. TableSize - 1 : r.tab[l][h] = m.tab[l][h]
    BY <2>7, <2>9
  <2>11. r.n >= m.n /\ k # 0
    BY <1>2, <2>4, <2>7
  <2>. QED BY <1>2, <1>4, <2>4, <2>7, <2>8, <2>10, <2>11 DEF Maps, i, j
<1>. QED BY <1>3, <1>4

----------------------------------------------------------------------------
\* f[q] is m with the pages from .. q of kmem mapped.
Mapping(f, m, from, to) ==
    f = [p \in from - 1 .. to |->
            IF p < from THEN m
            ELSE map_page(f[p - 1], first_page_directory, KernelBase + p, p)]

LEMMA MappingExists ==
    ASSUME NEW m, NEW from \in Nat \ {0}, NEW n \in Nat
    PROVE  \E f : Mapping(f, m, from, from - 1 + n)
<1>. DEFINE T == {k \in Nat : \E f : Mapping(f, m, from, from - 1 + k)}
<1>1. 0 \in T
  <2>. DEFINE f == [p \in from - 1 .. from - 1 + 0 |-> m]
  <2>1. Mapping(f, m, from, from - 1 + 0)
    BY DEF Mapping
  <2>. QED BY <2>1
<1>2. ASSUME NEW k \in T PROVE k + 1 \in T
  <2>1. k \in Nat /\ from - 1 + (k + 1) = from + k
    BY <1>2
  <2>2. PICK f : Mapping(f, m, from, from - 1 + k)
    BY <1>2
  <2>. DEFINE h == [p \in from - 1 .. from + k |->
                        IF p = from + k
                        THEN map_page(f[p - 1], first_page_directory, KernelBase + p, p)
                        ELSE f[p]]
  <2>3. ASSUME NEW p \in from - 1 .. from + k
        PROVE  h[p] = IF p < from THEN m
                      ELSE map_page(h[p - 1], first_page_directory, KernelBase + p, p)
    <3>1. CASE p = from + k
      <4>1. p - 1 \in from - 1 .. from + k /\ p - 1 # from + k /\ ~ (p < from)
        BY <2>1, <3>1
      <4>2. h[p - 1] = f[p - 1]
        BY <4>1
      <4>. QED BY <3>1, <4>1, <4>2
    <3>2. CASE p # from + k
      <4>1. p \in from - 1 .. from - 1 + k
        BY <2>1, <3>2
      <4>2. f[p] = IF p < from THEN m
                   ELSE map_page(f[p - 1], first_page_directory, KernelBase + p, p)
        BY <2>2, <4>1 DEF Mapping
      <4>3. CASE p < from
        BY <3>2, <4>2, <4>3
      <4>4. CASE ~ (p < from)
        <5>1. p - 1 \in from - 1 .. from + k /\ p - 1 # from + k
          BY <2>1, <3>2, <4>4
        <5>. QED BY <3>2, <4>2, <4>4, <5>1
      <4>. QED BY <4>3, <4>4
    <3>. QED BY <3>1, <3>2
  <2>4. h = [p \in from - 1 .. from + k |-> h[p]]
    OBVIOUS
  <2>. HIDE DEF h
  <2>5. Mapping(h, m, from, from + k)
    BY <2>3, <2>4 DEF Mapping
  <2>. QED BY <2>1, <2>5
<1>. HIDE DEF T
<1>3. T \in SUBSET Nat
  BY DEF T
<1>4. n \in T
  BY <1>1, <1>2, <1>3, NatInd
<1>. QED BY <1>4 DEF T

\* map_kmem maps one page after the other.
LEMMA MapKmemSteps ==
    ASSUME NEW m, NEW from \in Nat \ {0}, NEW to \in Nat, from <= to + 1
    PROVE  \E f : /\ f[from - 1] = m /\ f[to] = map_kmem(m, from, to)
                  /\ \A p \in from .. to :
                        f[p] = map_page(f[p - 1], first_page_directory, KernelBase + p, p)
<1>. DEFINE f == CHOOSE f : Mapping(f, m, from, to)
<1>1. to + 1 - from \in Nat /\ from - 1 + (to + 1 - from) = to
  OBVIOUS
<1>2. \E g : Mapping(g, m, from, to)
  BY <1>1, MappingExists
<1>3. Mapping(f, m, from, to)
  BY <1>2
<1>4. f[to] = map_kmem(m, from, to)
  BY DEF map_kmem, Mapping
<1>. HIDE DEF f
<1>5. f[from - 1] = m
  <2>1. from - 1 \in from - 1 .. to /\ from - 1 < from
    OBVIOUS
  <2>. QED BY <1>3, <2>1 DEF Mapping
<1>6. ASSUME NEW p \in from .. to
      PROVE  f[p] = map_page(f[p - 1], first_page_directory, KernelBase + p, p)
  <2>1. p \in from - 1 .. to /\ ~ (p < from)
    OBVIOUS
  <2>. QED BY <1>3, <2>1 DEF Mapping
<1>. QED BY <1>4, <1>5, <1>6

----------------------------------------------------------------------------
\* What map_page changes and what not.
LEMMA MapHere ==
    ASSUME NEW m, NEW r, NEW d \in Directories, NEW v \in Nat, NEW p \in Nat,
           Maps(r, m, d, v, p)
    PROVE  PhysIn(r, d, v) = p
  BY DEF Maps, PhysIn

LEMMA MapElsewhere ==
    ASSUME NEW m, IsMM(m), NEW r, NEW d \in Directories, NEW e \in Directories,
           NEW v \in Nat, NEW w \in Nat, NEW p \in Nat,
           dir_index(v) \in 0 .. TOP, dir_index(w) \in 0 .. TOP,
           Maps(r, m, d, v, p),
           m.dir[d][dir_index(v)] # 0 =>
                \/ m.dir[e][dir_index(w)] # m.dir[d][dir_index(v)]
                \/ tab_index(w) # tab_index(v),
           ~ (e = d /\ v = w)
    PROVE  PhysIn(r, e, w) = PhysIn(m, e, w)
<1>1. PICK i, j, g, h : /\ i = dir_index(v) /\ j = tab_index(v)
                        /\ g = dir_index(w) /\ h = tab_index(w)
  OBVIOUS
<1>2. /\ i \in 0 .. TOP /\ g \in 0 .. TOP
      /\ j \in 0 .. TableSize - 1 /\ h \in 0 .. TableSize - 1
  BY <1>1, Index
<1>3. m.n \in Nat /\ m.dir[d][i] \in 0 .. m.n /\ m.dir[e][g] \in 0 .. m.n
  BY <1>2 DEF IsMM
<1>4. PICK k : k = m.dir[e][g]
  OBVIOUS
<1>5. CASE m.dir[d][i] # 0
  <2>1. r.dir = m.dir /\ \A l \in 1 .. m.n : \A x \in 0 .. TableSize - 1 :
            ~ (l = m.dir[d][i] /\ x = j) => r.tab[l][x] = m.tab[l][x]
    BY <1>1, <1>5 DEF Maps
  <2>2. k # m.dir[d][i] \/ h # j
    BY <1>1, <1>4, <1>5
  <2>3. CASE k = 0
    BY <1>1, <1>4, <2>1, <2>3 DEF PhysIn
  <2>4. CASE k # 0
    <3>1. k \in 1 .. m.n
      BY <1>3, <1>4, <2>4
    <3>2. r.tab[k][h] = m.tab[k][h]
      BY <1>2, <2>1, <2>2, <3>1
    <3>. QED BY <1>1, <1>4, <2>1, <2>4, <3>2 DEF PhysIn
  <2>. QED BY <2>3, <2>4
<1>6. CASE m.dir[d][i] = 0
  <2>1. /\ r.dir[d][i] = m.n + 1
        /\ \A x \in 0 .. TableSize - 1 : x # j => r.tab[m.n + 1][x] = 0
        /\ \A x \in Directories : \A y \in 0 .. TOP :
                ~ (x = d /\ y = i) => r.dir[x][y] = m.dir[x][y]
        /\ \A l \in 1 .. m.n : \A x \in 0 .. TableSize - 1 :
                ~ (l = m.n + 1 /\ x = j) => r.tab[l][x] = m.tab[l][x]
    BY <1>1, <1>6 DEF Maps
  <2>2. CASE e = d /\ g = i
    <3>1. h # j
      BY <1>1, <2>2, IndexInjective
    <3>2. r.tab[m.n + 1][h] = 0 /\ r.dir[e][g] = m.n + 1
      BY <1>2, <2>1, <2>2, <3>1
    <3>3. PhysIn(r, e, w) = 0
      BY <1>1, <3>2 DEF PhysIn
    <3>4. PhysIn(m, e, w) = 0
      BY <1>1, <1>6, <2>2 DEF PhysIn
    <3>. QED BY <3>3, <3>4
  <2>3. CASE ~ (e = d /\ g = i)
    <3>1. r.dir[e][g] = k
      BY <1>2, <1>4, <2>1, <2>3
    <3>2. CASE k = 0
      BY <1>1, <1>4, <3>1, <3>2 DEF PhysIn
    <3>3. CASE k # 0
      <4>1. k \in 1 .. m.n /\ k # m.n + 1
        BY <1>3, <1>4, <3>3
      <4>2. r.tab[k][h] = m.tab[k][h]
        BY <1>2, <2>1, <4>1
      <4>. QED BY <1>1, <1>4, <3>1, <3>3, <4>2 DEF PhysIn
    <3>. QED BY <3>2, <3>3
  <2>. QED BY <2>2, <2>3
<1>. QED BY <1>5, <1>6

\* map_kmem keeps the form of page tables.
LEMMA MapKmemTyped ==
    ASSUME NEW m, IsMM(m), NEW from \in Nat \ {0}, NEW to \in Nat, from <= to + 1,
           to <= RegionEnd + BuddyPages
    PROVE  IsMM(map_kmem(m, from, to))
<1>1. PICK f : /\ f[from - 1] = m /\ f[to] = map_kmem(m, from, to)
               /\ \A p \in from .. to :
                    f[p] = map_page(f[p - 1], first_page_directory, KernelBase + p, p)
  BY MapKmemSteps
<1>. DEFINE T == {k \in Nat : from - 1 + k <= to => IsMM(f[from - 1 + k])}
<1>2. 0 \in T
  BY <1>1
<1>3. ASSUME NEW k \in T PROVE k + 1 \in T
  <2>1. SUFFICES ASSUME from - 1 + (k + 1) <= to
                 PROVE  IsMM(f[from - 1 + (k + 1)])
    OBVIOUS
  <2>2. PICK p : p = from - 1 + (k + 1)
    OBVIOUS
  <2>3. p \in from .. to /\ p \in Nat /\ p - 1 = from - 1 + k /\ from - 1 + k <= to
    BY <2>1, <2>2
  <2>4. PICK s : s = f[p - 1]
    OBVIOUS
  <2>5. IsMM(s)
    BY <2>3, <2>4
  <2>6. f[p] = map_page(s, first_page_directory, KernelBase + p, p)
    BY <1>1, <2>3, <2>4
  <2>7. p \in 0 .. RegionEnd + BuddyPages
    BY <2>3, BuddyAssumption
  <2>8. KernelBase + p \in Nat /\ dir_index(KernelBase + p) \in 0 .. TOP
    BY <2>7, Regions
  <2>9. first_page_directory \in Directories
    BY DEF Directories
  <2>10. PICK v : v = KernelBase + p
    OBVIOUS
  <2>11. Maps(f[p], s, first_page_directory, v, p)
    BY <2>3, <2>5, <2>6, <2>8, <2>9, <2>10, MapPage
  <2>. QED BY <2>2, <2>11 DEF Maps
<1>. HIDE DEF T
<1>4. T \in SUBSET Nat
  BY DEF T
<1>5. \A k \in Nat : k \in T
  BY <1>2, <1>3, <1>4, NatInd
<1>6. to + 1 - from \in Nat /\ from - 1 + (to + 1 - from) = to
  OBVIOUS
<1>7. to + 1 - from \in T
  BY <1>5, <1>6
<1>. QED BY <1>1, <1>6, <1>7 DEF T

\* r is m with pages of kmem up to q mapped.
KmemTo(r, m, q) ==
    /\ IsMM(r) /\ r.dir = m.dir /\ r.n = m.n
    /\ KmemMapped(r, q + 1)
    /\ \A d \in Directories : \A v \in UserPages : PhysIn(r, d, v) = PhysIn(m, d, v)

\* Page tables of kmem are in the kmem entries of the first directory only.
KmemDirs(m) ==
    /\ \A i \in kmem_tables : m.dir[first_page_directory][i] # 0
    /\ \A d \in Directories : \A i, j \in 0 .. TOP :
            m.dir[first_page_directory][i] # 0
                /\ m.dir[d][j] = m.dir[first_page_directory][i] => i = j

LEMMA KmemToNext ==
    ASSUME NEW m, IsMM(m), KmemDirs(m), NEW s, NEW r, NEW p \in 1 .. RegionEnd - 1,
           KmemTo(s, m, p - 1),
           r = map_page(s, first_page_directory, KernelBase + p, p)
    PROVE  KmemTo(r, m, p)
<1>1. PICK v, d : v = KernelBase + p /\ d = first_page_directory
  OBVIOUS
<1>2. p \in 0 .. RegionEnd + BuddyPages /\ p \in 0 .. RegionEnd - 1 /\ p \in Nat
  BY BuddyAssumption
<1>3. v \in Nat /\ dir_index(v) \in kmem_tables /\ dir_index(v) \in 0 .. TOP
      /\ dir_index(v) >= UserTables
  BY <1>1, <1>2, Regions
<1>4. d \in Directories
  BY <1>1 DEF Directories
<1>5. IsMM(s) /\ s.dir = m.dir /\ s.n = m.n
  BY DEF KmemTo
<1>6. Maps(r, s, d, v, p)
  BY <1>1, <1>2, <1>3, <1>4, <1>5, MapPage
<1>7. s.dir[d][dir_index(v)] # 0
  BY <1>1, <1>3, <1>5 DEF KmemDirs
<1>8. IsMM(r) /\ r.dir = m.dir /\ r.n = m.n
  BY <1>5, <1>6, <1>7 DEF Maps
<1>9. ASSUME NEW q \in 1 .. p PROVE PhysIn(r, d, KernelBase + q) = q
  <2>1. CASE q = p
    BY <1>1, <1>2, <1>3, <1>4, <1>6, <2>1, MapHere
  <2>2. CASE q # p
    <3>1. PICK w : w = KernelBase + q
      OBVIOUS
    <3>2. q \in 1 .. p - 1 + 1 - 1 /\ q \in 0 .. RegionEnd + BuddyPages /\ w # v
      <4>1. KernelBase \in Nat
        BY Regions
      <4>. QED BY <1>1, <1>2, <2>2, <3>1, <4>1, BuddyAssumption
    <3>3. w \in Nat /\ dir_index(w) \in 0 .. TOP
      BY <3>1, <3>2, Regions
    <3>4. \/ s.dir[d][dir_index(w)] # s.dir[d][dir_index(v)]
          \/ tab_index(w) # tab_index(v)
      <4>1. s.dir[d][dir_index(w)] = s.dir[d][dir_index(v)] => dir_index(w) = dir_index(v)
        BY <1>1, <1>3, <1>4, <1>5, <1>7, <3>3 DEF KmemDirs
      <4>. QED BY <1>3, <3>2, <3>3, <4>1, IndexInjective
    <3>5. PhysIn(r, d, w) = PhysIn(s, d, w)
      BY <1>2, <1>3, <1>4, <1>5, <1>6, <3>2, <3>3, <3>4, MapElsewhere
    <3>6. PhysIn(s, d, w) = q
      BY <1>1, <3>1, <3>2 DEF KmemTo, KmemMapped
    <3>. QED BY <3>1, <3>5, <3>6
  <2>. QED BY <2>1, <2>2
<1>10. ASSUME NEW e \in Directories, NEW w \in UserPages
       PROVE  PhysIn(r, e, w) = PhysIn(m, e, w)
  <2>1. w \in Nat /\ dir_index(w) \in 0 .. TOP /\ dir_index(w) < UserTables
    BY Regions
  <2>2. dir_index(w) # dir_index(v) /\ w # v
    BY <1>3, <2>1, Regions
  <2>3. s.dir[e][dir_index(w)] # s.dir[d][dir_index(v)]
    BY <1>1, <1>3, <1>4, <1>5, <1>7, <2>1, <2>2 DEF KmemDirs
  <2>4. PhysIn(r, e, w) = PhysIn(s, e, w)
    BY <1>2, <1>3, <1>4, <1>5, <1>6, <2>1, <2>2, <2>3, MapElsewhere
  <2>. QED BY <2>4 DEF KmemTo
<1>11. KmemMapped(r, p + 1)
  <2>1. 1 .. p + 1 - 1 = 1 .. p
    BY <1>2
  <2>. QED BY <1>1, <1>9, <2>1 DEF KmemMapped
<1>. QED BY <1>8, <1>10, <1>11 DEF KmemTo

LEMMA MapKmem ==
    ASSUME NEW m, IsMM(m), KmemDirs(m), NEW from \in Nat \ {0}, NEW to \in Nat,
           from <= to + 1, to <= RegionEnd - 1, KmemMapped(m, from)
    PROVE  KmemTo(map_kmem(m, from, to), m, to)
<1>1. PICK f : /\ f[from - 1] = m /\ f[to] = map_kmem(m, from, to)
               /\ \A p \in from .. to :
                    f[p] = map_page(f[p - 1], first_page_directory, KernelBase + p, p)
  BY MapKmemSteps
<1>. DEFINE T == {k \in Nat : from - 1 + k <= to =>
                                KmemTo(f[from - 1 + k], m, from - 1 + k)}
<1>2. 0 \in T
  <2>1. from - 1 + 0 = from - 1 /\ from - 1 + 1 = from
    OBVIOUS
  <2>2. KmemTo(m, m, from - 1)
    BY <2>1 DEF KmemTo
  <2>. QED BY <1>1, <2>1, <2>2
<1>3. ASSUME NEW k \in T PROVE k + 1 \in T
  <2>1. SUFFICES ASSUME from - 1 + (k + 1) <= to
                 PROVE  KmemTo(f[from - 1 + (k + 1)], m, from - 1 + (k + 1))
    OBVIOUS
  <2>2. PICK p : p = from - 1 + (k + 1)
    OBVIOUS
  <2>3. p \in from .. to /\ p \in Nat /\ p - 1 = from - 1 + k /\ from - 1 + k <= to
        /\ p \in 1 .. RegionEnd - 1
    BY <2>1, <2>2, BuddyAssumption
  <2>4. PICK s : s = f[p - 1]
    OBVIOUS
  <2>5. KmemTo(s, m, p - 1)
    BY <2>3, <2>4
  <2>6. PICK r : r = f[p]
    OBVIOUS
  <2>7. r = map_page(s, first_page_directory, KernelBase + p, p)
    BY <1>1, <2>3, <2>4, <2>6
  <2>8. KmemTo(r, m, p)
    BY <2>3, <2>5, <2>7, KmemToNext
  <2>. QED BY <2>2, <2>6, <2>8
<1>. HIDE DEF T
<1>4. T \in SUBSET Nat
  BY DEF T
<1>5. \A k \in Nat : k \in T
  BY <1>2, <1>3, <1>4, NatInd
<1>6. to + 1 - from \in Nat /\ from - 1 + (to + 1 - from) = to
  OBVIOUS
<1>7. to + 1 - from \in T
  BY <1>5, <1>6
<1>. QED BY <1>1, <1>6, <1>7 DEF T

----------------------------------------------------------------------------
(***************************************************************************)
(* What the operations do to the directories.                              *)
(***************************************************************************)
LEMMA KmemOwn ==
    ASSUME NEW m, NEW C, DirsOK(m, C)
    PROVE  KmemDirs(m)
<1>1. first_page_directory \in Directories
  BY DEF Directories
<1>2. kmem_tables \subseteq 0 .. TOP
  BY Regions
<1>3. \A i \in kmem_tables : m.dir[first_page_directory][i] # 0
  BY <1>2 DEF DirsOK
<1>4. \A d \in Directories : \A i, j \in 0 .. TOP :
            m.dir[first_page_directory][i] # 0
                /\ m.dir[d][j] = m.dir[first_page_directory][i] => i = j
  BY <1>1 DEF DirsOK
<1>. QED BY <1>3, <1>4 DEF KmemDirs

\* DirsOK is about the directories only.
LEMMA DirsSame ==
    ASSUME NEW m, NEW r, NEW C, DirsOK(m, C), r.dir = m.dir
    PROVE  DirsOK(r, C)
  BY DEF DirsOK

\* A created task has kmem where the first directory has it.
LEMMA KmemEverywhere ==
    ASSUME NEW m, NEW C \in SUBSET Tasks, DirsOK(m, C), NEW end \in Nat,
           end <= RegionEnd, KmemMapped(m, end),
           NEW d \in C \cup {first_page_directory}, NEW p \in 1 .. end - 1
    PROVE  PhysIn(m, d, KernelBase + p) = p
<1>1. PhysIn(m, first_page_directory, KernelBase + p) = p
  BY DEF KmemMapped
<1>2. CASE d = first_page_directory
  BY <1>1, <1>2
<1>3. CASE d \in C
  <2>1. p \in 0 .. RegionEnd - 1
    BY BuddyAssumption
  <2>2. dir_index(KernelBase + p) \in kmem_tables
    BY <2>1, Regions
  <2>3. m.dir[d][dir_index(KernelBase + p)]
            = m.dir[first_page_directory][dir_index(KernelBase + p)]
    BY <1>3, <2>2 DEF DirsOK
  <2>. QED BY <1>1, <2>3 DEF PhysIn
<1>. QED BY <1>2, <1>3

\* A new page table in one entry of a created task.
LEMMA DirsNew ==
    ASSUME NEW m, IsMM(m), NEW C \in SUBSET Tasks, DirsOK(m, C), NEW d \in C,
           NEW i \in (0 .. TOP) \ kmem_tables, NEW r,
           r.dir[d][i] = m.n + 1,
           \A e \in Directories : \A j \in 0 .. TOP :
                ~ (e = d /\ j = i) => r.dir[e][j] = m.dir[e][j]
    PROVE  DirsOK(r, C)
<1>1. d \in Directories /\ d # first_page_directory
      /\ first_page_directory \in Directories /\ Tasks \subseteq Directories
  BY DirectoryAssumption DEF Directories
<1>2. kmem_tables \subseteq 0 .. TOP
  BY Regions
<1>3. m.n \in Nat /\ \A e \in Directories : \A j \in 0 .. TOP : m.dir[e][j] \in 0 .. m.n
  BY DEF IsMM
<1>4. \A e \in Directories : \A j \in 0 .. TOP : m.dir[e][j] # m.n + 1
  BY <1>3
<1>5. \A t \in Tasks \ C : \A j \in 0 .. TOP : r.dir[t][j] = 0
  <2>1. \A t \in Tasks \ C : \A j \in 0 .. TOP : m.dir[t][j] = 0
    BY DEF DirsOK
  <2>. QED BY <1>1, <2>1
<1>6. \A j \in 0 .. TOP : r.dir[first_page_directory][j] = m.dir[first_page_directory][j]
  BY <1>1
<1>7. \A j \in 0 .. TOP : r.dir[first_page_directory][j] = 0 <=> j \notin kmem_tables
  <2>1. \A j \in 0 .. TOP : m.dir[first_page_directory][j] = 0 <=> j \notin kmem_tables
    BY DEF DirsOK
  <2>. QED BY <1>6, <2>1
<1>8. \A t \in C : \A j \in kmem_tables : r.dir[t][j] = r.dir[first_page_directory][j]
  <2>1. \A t \in C : \A j \in kmem_tables : m.dir[t][j] = m.dir[first_page_directory][j]
    BY DEF DirsOK
  <2>2. \A t \in C : \A j \in kmem_tables : r.dir[t][j] = m.dir[t][j]
    BY <1>1, <1>2
  <2>3. ASSUME NEW t \in C, NEW j \in kmem_tables
        PROVE  r.dir[t][j] = r.dir[first_page_directory][j]
    <3>1. j \in 0 .. TOP
      BY <1>2
    <3>2. r.dir[first_page_directory][j] = m.dir[first_page_directory][j]
      BY <1>6, <3>1
    <3>3. r.dir[t][j] = m.dir[t][j] /\ m.dir[t][j] = m.dir[first_page_directory][j]
      BY <2>1, <2>2
    <3>. QED BY <3>2, <3>3
  <2>. QED BY <2>3
<1>9. ASSUME NEW a \in Directories, NEW b \in Directories,
             NEW j \in 0 .. TOP, NEW k \in 0 .. TOP,
             r.dir[a][j] # 0, r.dir[a][j] = r.dir[b][k]
      PROVE  j = k /\ (a = b \/ j \in kmem_tables)
  <2>1. \A x, y \in Directories : \A p, q \in 0 .. TOP :
            m.dir[x][p] # 0 /\ m.dir[x][p] = m.dir[y][q] =>
                p = q /\ (x = y \/ p \in kmem_tables)
    BY DEF DirsOK
  <2>2. CASE a = d /\ j = i
    <3>1. b = d /\ k = i
      BY <1>4, <1>9, <2>2
    <3>. QED BY <2>2, <3>1
  <2>3. CASE b = d /\ k = i
    <3>1. a = d /\ j = i
      BY <1>4, <1>9, <2>3
    <3>. QED BY <2>3, <3>1
  <2>4. CASE ~ (a = d /\ j = i) /\ ~ (b = d /\ k = i)
    <3>1. r.dir[a][j] = m.dir[a][j] /\ r.dir[b][k] = m.dir[b][k]
      BY <2>4
    <3>2. m.dir[a][j] # 0 /\ m.dir[a][j] = m.dir[b][k]
      BY <1>9, <3>1
    <3>. QED BY <2>1, <3>2
  <2>. QED BY <2>2, <2>3, <2>4
<1>. QED BY <1>5, <1>7, <1>8, <1>9 DEF DirsOK

\* User pages are not those of kmem, in any directory.
SameElsewhere(r, m, t, v) ==
    \A e \in Directories : \A w \in UserPages :
        ~ (e = t /\ w = v) => PhysIn(r, e, w) = PhysIn(m, e, w)

SameTop(r, m) == \A e \in Directories : r.dir[e][TOP] = m.dir[e][TOP]

\* map_user_page changes one user page of one task.
LEMMA MapUser ==
    ASSUME NEW m, IsMM(m), NEW C \in SUBSET Tasks, DirsOK(m, C), NEW t \in C,
           NEW v \in UserPages, NEW p \in Nat, NEW end \in Nat, end <= RegionEnd,
           KmemMapped(m, end), NEW r, r = map_page(m, t, v, p)
    PROVE  /\ IsMM(r) /\ DirsOK(r, C) /\ KmemMapped(r, end)
           /\ PhysIn(r, t, v) = p
           /\ SameElsewhere(r, m, t, v)
           /\ SameTop(r, m)
<1>1. t \in Directories /\ first_page_directory \in Directories
  BY DEF Directories
<1>2. v \in Nat /\ dir_index(v) \in 0 .. TOP /\ dir_index(v) < UserTables
      /\ UserTables \in Nat /\ TOP \in Nat /\ UserTables < TOP
  BY Regions
<1>3. Maps(r, m, t, v, p)
  BY <1>1, <1>2, MapPage
<1>4. dir_index(v) \notin kmem_tables /\ dir_index(v) # TOP
  BY <1>2, Regions
<1>5. IsMM(r)
  BY <1>3 DEF Maps
<1>6. DirsOK(r, C)
  <2>1. CASE m.dir[t][dir_index(v)] # 0
    <3>1. r.dir = m.dir
      BY <1>3, <2>1 DEF Maps
    <3>. QED BY <3>1, DirsSame
  <2>2. CASE m.dir[t][dir_index(v)] = 0
    <3>1. PICK i : i = dir_index(v)
      OBVIOUS
    <3>2. /\ r.dir[t][i] = m.n + 1
          /\ \A e \in Directories : \A j \in 0 .. TOP :
                ~ (e = t /\ j = i) => r.dir[e][j] = m.dir[e][j]
      BY <1>3, <2>2, <3>1 DEF Maps
    <3>3. i \in (0 .. TOP) \ kmem_tables
      BY <1>2, <1>4, <3>1
    <3>. QED BY <3>2, <3>3, DirsNew
  <2>. QED BY <2>1, <2>2
<1>7. ASSUME NEW e \in Directories, NEW w \in Nat, dir_index(w) \in 0 .. TOP,
             ~ (e = t /\ w = v)
      PROVE  PhysIn(r, e, w) = PhysIn(m, e, w)
  <2>1. m.dir[t][dir_index(v)] # 0 =>
                \/ m.dir[e][dir_index(w)] # m.dir[t][dir_index(v)]
                \/ tab_index(w) # tab_index(v)
    <3>1. SUFFICES ASSUME m.dir[t][dir_index(v)] # 0,
                          m.dir[e][dir_index(w)] = m.dir[t][dir_index(v)],
                          tab_index(w) = tab_index(v)
                   PROVE  FALSE
      OBVIOUS
    <3>2. dir_index(v) = dir_index(w) /\ (t = e \/ dir_index(v) \in kmem_tables)
      BY <1>1, <1>2, <1>7, <3>1 DEF DirsOK
    <3>3. t = e /\ v = w
      BY <1>2, <1>4, <3>1, <3>2, IndexInjective
    <3>. QED BY <1>7, <3>3
  <2>. QED BY <1>1, <1>2, <1>3, <1>7, <2>1, MapElsewhere
<1>8. SameElsewhere(r, m, t, v)
  <2>1. \A w \in UserPages : w \in Nat /\ dir_index(w) \in 0 .. TOP
    BY Regions
  <2>. QED BY <1>7, <2>1 DEF SameElsewhere
<1>9. KmemMapped(r, end)
  <2>1. ASSUME NEW q \in 1 .. end - 1
        PROVE  PhysIn(r, first_page_directory, KernelBase + q) = q
    <3>1. q \in 0 .. RegionEnd + BuddyPages
      BY BuddyAssumption
    <3>2. KernelBase + q \in Nat /\ dir_index(KernelBase + q) \in 0 .. TOP
      BY <3>1, Regions
    <3>3. t # first_page_directory
      BY DirectoryAssumption
    <3>4. PhysIn(m, first_page_directory, KernelBase + q) = q
      BY DEF KmemMapped
    <3>. QED BY <1>1, <1>7, <3>2, <3>3, <3>4
  <2>. QED BY <2>1 DEF KmemMapped
<1>10. PhysIn(r, t, v) = p
  BY <1>1, <1>2, <1>3, MapHere
<1>11. SameTop(r, m)
  BY <1>2, <1>3, <1>4 DEF Maps, SameTop
<1>. QED BY <1>5, <1>6, <1>8, <1>9, <1>10, <1>11

\* Nothing that is below the temporary mappings changes.
SamePages(r, m) ==
    /\ \A e \in Directories : \A w \in UserPages : PhysIn(r, e, w) = PhysIn(m, e, w)
    /\ \A p \in 0 .. RegionEnd :
            PhysIn(r, first_page_directory, KernelBase + p)
                = PhysIn(m, first_page_directory, KernelBase + p)

OtherTops(r, m, t) == \A e \in Directories : e # t => r.dir[e][TOP] = m.dir[e][TOP]

\* The page table for temporary mappings.
LEMMA MapTop ==
    ASSUME NEW m, IsMM(m), NEW C \in SUBSET Tasks, DirsOK(m, C), NEW t \in C,
           NEW r, r = new_table(m, t, TOP)
    PROVE  /\ IsMM(r) /\ DirsOK(r, C)
           /\ SamePages(r, m)
           /\ r.dir[t][TOP] # 0
           /\ OtherTops(r, m, t)
<1>1. t \in Directories /\ first_page_directory \in Directories
  BY DEF Directories
<1>2. TOP \in (0 .. TOP) \ kmem_tables /\ TOP \in 0 .. TOP
  BY Regions
<1>3. HasNew(r, m, t, TOP)
  BY <1>1, <1>2, NewTable
<1>4. m.n \in Nat /\ \A e \in Directories : \A j \in 0 .. TOP : m.dir[e][j] \in 0 .. m.n
  BY DEF IsMM
<1>5. DirsOK(r, C)
  <2>1. /\ r.dir[t][TOP] = m.n + 1
        /\ \A e \in Directories : \A j \in 0 .. TOP :
                ~ (e = t /\ j = TOP) => r.dir[e][j] = m.dir[e][j]
    BY <1>3 DEF HasNew
  <2>. QED BY <1>2, <2>1, DirsNew
<1>6. ASSUME NEW e \in Directories, NEW w, dir_index(w) \in 0 .. TOP, dir_index(w) # TOP
      PROVE  PhysIn(r, e, w) = PhysIn(m, e, w)
  <2>1. PICK k : k = m.dir[e][dir_index(w)]
    OBVIOUS
  <2>2. r.dir[e][dir_index(w)] = k
    BY <1>3, <1>6, <2>1 DEF HasNew
  <2>3. CASE k = 0
    BY <2>1, <2>2, <2>3 DEF PhysIn
  <2>4. CASE k # 0
    <3>1. k \in 1 .. m.n
      BY <1>4, <1>6, <2>1, <2>4
    <3>2. r.tab[k] = m.tab[k]
      BY <1>3, <3>1 DEF HasNew
    <3>. QED BY <2>1, <2>2, <2>4, <3>2 DEF PhysIn
  <2>. QED BY <2>3, <2>4
<1>7. SamePages(r, m)
  <2>1. \A w \in UserPages : dir_index(w) \in 0 .. TOP /\ dir_index(w) # TOP
    BY Regions
  <2>2. \A p \in 0 .. RegionEnd : p \in 0 .. RegionEnd + BuddyPages
    BY BuddyAssumption
  <2>3. \A p \in 0 .. RegionEnd : dir_index(KernelBase + p) \in 0 .. TOP
                                /\ dir_index(KernelBase + p) # TOP
    BY <2>2, Regions
  <2>. QED BY <1>1, <1>6, <2>1, <2>3 DEF SamePages
<1>8. r.dir[t][TOP] # 0
  BY <1>3, <1>4 DEF HasNew
<1>9. \A e \in Directories : e # t => r.dir[e][TOP] = m.dir[e][TOP]
  BY <1>2, <1>3 DEF HasNew
<1>10. IsMM(r)
  BY <1>3 DEF HasNew
<1>. QED BY <1>5, <1>7, <1>8, <1>9, <1>10 DEF OtherTops

LEMMA KmemSame ==
    ASSUME NEW m, NEW r, SamePages(r, m), NEW end \in Nat, end <= RegionEnd,
           KmemMapped(m, end)
    PROVE  KmemMapped(r, end)
<1>1. \A p \in 1 .. end - 1 : p \in 0 .. RegionEnd
  BY BuddyAssumption
<1>. QED BY <1>1 DEF SamePages, KmemMapped

\* The directory of a new task: kmem and nothing else.
LEMMA NewDirectory ==
    ASSUME NEW m, IsMM(m), NEW C \in SUBSET Tasks, DirsOK(m, C), NEW t \in Tasks \ C,
           NEW r, r = [m EXCEPT !.dir[t] = m.dir[first_page_directory]]
    PROVE  /\ IsMM(r) /\ DirsOK(r, C \cup {t})
           /\ SamePages(r, m)
           /\ OtherTops(r, m, t)
<1>1. /\ t \in Directories /\ first_page_directory \in Directories
      /\ t # first_page_directory /\ Tasks \subseteq Directories
  BY DirectoryAssumption DEF Directories
<1>2. /\ m = [dir |-> m.dir, tab |-> m.tab, n |-> m.n]
      /\ m.n \in Nat /\ m.dir \in [Directories -> [0 .. TOP -> 0 .. m.n]]
      /\ m.tab \in [1 .. m.n -> [0 .. TableSize - 1 -> Nat]]
  BY DEF IsMM
<1>3. r = [dir |-> [m.dir EXCEPT ![t] = m.dir[first_page_directory]],
           tab |-> m.tab, n |-> m.n]
  BY <1>2
<1>4. /\ r = [dir |-> r.dir, tab |-> r.tab, n |-> r.n]
      /\ r.n = m.n /\ r.tab = m.tab
      /\ r.dir = [m.dir EXCEPT ![t] = m.dir[first_page_directory]]
  BY <1>3
<1>5. /\ r.dir[t] = m.dir[first_page_directory]
      /\ \A e \in Directories : e # t => r.dir[e] = m.dir[e]
      /\ r.dir \in [Directories -> [0 .. TOP -> 0 .. m.n]]
  BY <1>1, <1>2, <1>4
<1>6. IsMM(r)
  BY <1>2, <1>4, <1>5 DEF IsMM
<1>7. TOP \in Nat /\ kmem_tables \subseteq 0 .. TOP
      /\ \A v \in UserPages : dir_index(v) \in (0 .. TOP) \ kmem_tables
  BY Regions
<1>8. /\ \A u \in Tasks \ C : \A i \in 0 .. TOP : m.dir[u][i] = 0
      /\ \A i \in 0 .. TOP : m.dir[first_page_directory][i] = 0 <=> i \notin kmem_tables
      /\ \A u \in C : \A i \in kmem_tables :
            m.dir[u][i] = m.dir[first_page_directory][i]
      /\ \A d, e \in Directories : \A i, j \in 0 .. TOP :
            m.dir[d][i] # 0 /\ m.dir[d][i] = m.dir[e][j] =>
                i = j /\ (d = e \/ i \in kmem_tables)
  BY DEF DirsOK
<1>9. DirsOK(r, C \cup {t})
  <2>1. \A u \in Tasks \ (C \cup {t}) : \A i \in 0 .. TOP : r.dir[u][i] = 0
    BY <1>1, <1>5, <1>8
  <2>2. \A i \in 0 .. TOP : r.dir[first_page_directory][i] = 0 <=> i \notin kmem_tables
    BY <1>1, <1>5, <1>8
  <2>3. \A u \in C \cup {t} : \A i \in kmem_tables :
            r.dir[u][i] = r.dir[first_page_directory][i]
    BY <1>1, <1>5, <1>8
  <2>4. ASSUME NEW a \in Directories, NEW b \in Directories,
               NEW i \in 0 .. TOP, NEW j \in 0 .. TOP,
               r.dir[a][i] # 0, r.dir[a][i] = r.dir[b][j]
        PROVE  i = j /\ (a = b \/ i \in kmem_tables)
    <3>1. PICK x \in Directories : r.dir[a] = m.dir[x] /\ (a = t => x = first_page_directory)
                                        /\ (a # t => x = a)
      BY <1>1, <1>5
    <3>2. PICK y \in Directories : r.dir[b] = m.dir[y] /\ (b = t => y = first_page_directory)
                                        /\ (b # t => y = b)
      BY <1>1, <1>5
    <3>3. i = j /\ (x = y \/ i \in kmem_tables)
      BY <1>8, <2>4, <3>1, <3>2
    <3>4. x = first_page_directory => i \in kmem_tables
      BY <1>8, <2>4, <3>1
    <3>. QED BY <3>1, <3>2, <3>3, <3>4
  <2>. QED BY <2>1, <2>2, <2>3, <2>4 DEF DirsOK
<1>10. SamePages(r, m)
  <2>1. ASSUME NEW e \in Directories, NEW w \in UserPages
        PROVE  PhysIn(r, e, w) = PhysIn(m, e, w)
    <3>1. CASE e = t
      <4>1. m.dir[t][dir_index(w)] = 0 /\ r.dir[t][dir_index(w)] = 0
        BY <1>5, <1>7, <1>8
      <4>. QED BY <3>1, <4>1 DEF PhysIn
    <3>2. CASE e # t
      BY <1>4, <1>5, <3>2 DEF PhysIn
    <3>. QED BY <3>1, <3>2
  <2>2. r.dir[first_page_directory] = m.dir[first_page_directory]
    BY <1>1, <1>5
  <2>. QED BY <1>4, <2>1, <2>2 DEF SamePages, PhysIn
<1>11. \A e \in Directories : e # t => r.dir[e][TOP] = m.dir[e][TOP]
  BY <1>5
<1>. QED BY <1>6, <1>9, <1>10, <1>11 DEF OtherTops

----------------------------------------------------------------------------
(***************************************************************************)
(* The list of free pages.                                                 *)
(***************************************************************************)
LEMMA NilPop ==
    ASSUME NEW R, NEW g, NEW nil, NEW first, NilList(R, g, nil, first), first # nil,
           NEW h, \A x \in R : h[x] = g[x]
    PROVE  NilList(R \ {first}, h, nil, g[first])
<1>1. /\ nil \notin R /\ first \in R
      /\ \A x \in R : g[x] \in R \cup {nil}
      /\ \A x \in R : g[x] # nil => g[x] # first
      /\ \A x, y \in R : g[x] = g[y] /\ g[x] # nil => x = y
  BY DEF NilList
<1>2. ASSUME NEW Z \in SUBSET (R \ {first}), g[first] \in Z \cup {nil},
             \A x \in Z : h[x] \in Z \cup {nil}
      PROVE  Z = R \ {first}
  <2>. DEFINE Y == Z \cup {first}
  <2>1. Y \in SUBSET R /\ first \in Y \cup {nil}
    BY <1>1
  <2>2. \A x \in Y : g[x] \in Y \cup {nil}
    BY <1>1, <1>2
  <2>. HIDE DEF Y
  <2>3. Y = R
    BY <2>1, <2>2 DEF NilList
  <2>. QED BY <2>3 DEF Y
<1>. QED BY <1>1, <1>2 DEF NilList

LEMMA NilPush ==
    ASSUME NEW R, NEW g, NEW nil, NEW first, NilList(R, g, nil, first),
           NEW new, new \notin R, new # nil,
           NEW h, h[new] = first, \A x \in R : h[x] = g[x]
    PROVE  NilList(R \cup {new}, h, nil, new)
<1>1. /\ nil \notin R /\ first \in R \cup {nil}
      /\ \A x \in R : g[x] \in R \cup {nil}
      /\ \A x \in R : g[x] # nil => g[x] # first
      /\ \A x, y \in R : g[x] = g[y] /\ g[x] # nil => x = y
  BY DEF NilList
<1>2. ASSUME NEW Z \in SUBSET (R \cup {new}), new \in Z \cup {nil},
             \A x \in Z : h[x] \in Z \cup {nil}
      PROVE  Z = R \cup {new}
  <2>. DEFINE Y == Z \ {new}
  <2>1. new \in Z /\ Y \in SUBSET R
    BY <1>2
  <2>2. first \in Y \cup {nil}
    BY <1>1, <1>2, <2>1
  <2>3. \A x \in Y : g[x] \in Y \cup {nil}
    BY <1>1, <1>2, <2>1
  <2>. HIDE DEF Y
  <2>4. Y = R
    BY <2>1, <2>2, <2>3 DEF NilList
  <2>. QED BY <2>1, <2>4 DEF Y
<1>3. /\ nil \notin R \cup {new}
      /\ \A x \in R \cup {new} : h[x] \in R \cup {new} \cup {nil}
      /\ \A x \in R \cup {new} : h[x] # nil => h[x] # new
      /\ \A x, y \in R \cup {new} : h[x] = h[y] /\ h[x] # nil => x = y
  BY <1>1
<1>. QED BY <1>2, <1>3 DEF NilList

LEMMA NilSame ==
    ASSUME NEW R, NEW g, NEW nil, NEW first, NilList(R, g, nil, first),
           NEW h, \A x \in R : h[x] = g[x]
    PROVE  NilList(R, h, nil, first)
<1>1. ASSUME NEW Z \in SUBSET R, first \in Z \cup {nil},
             \A x \in Z : h[x] \in Z \cup {nil}
      PROVE  Z = R
  <2>1. \A x \in Z : g[x] \in Z \cup {nil}
    BY <1>1
  <2>. QED BY <1>1, <2>1 DEF NilList
<1>. QED BY <1>1 DEF NilList

\* hmem_alloc_page keeps the list exact and returns a page that nobody has.
LEMMA AllocPage ==
    ASSUME PhysTypeOK, ListOK, panic = "no", NEW p \in Pages, hmem_alloc_page(p)
    PROVE  /\ PhysTypeOK' /\ panic' \in {"no", "hmem_phys_end"}
           /\ kmem_phys_end' = kmem_phys_end /\ ram' = ram /\ stray' = stray
           /\ panic' = "no" => ListOK' /\ given' = given \cup {p} /\ p \notin given
<1>1. /\ kmem_phys_end \in Nat /\ hmem_phys_end \in 1 .. RamEnd
      /\ given \subseteq hmem_phys_end .. RamEnd - 1
      /\ RamEnd \in Nat /\ p \in 1 .. RamEnd - 1
      /\ NilList(FreePages, NextFree, 0, hmem_phys_list)
  BY RamAssumption DEF PhysTypeOK, ListOK, Pages
<1>2. FreePages \subseteq Pages
  BY <1>1 DEF FreePages, Pages
<1>3. CASE hmem_alloc_new(p)
  <2>1. /\ hmem_phys_list' = hmem_phys_list /\ ram' = ram
        /\ kmem_phys_end' = kmem_phys_end /\ hmem_phys_end' = p
        /\ p = hmem_phys_end - 1 /\ stray' = stray
    BY <1>3 DEF hmem_alloc_new
  <2>2. /\ panic' \in {"no", "hmem_phys_end"}
        /\ given' = given \/ given' = given \cup {p}
        /\ panic' = "no" => given' = given \cup {p}
    BY <1>3 DEF hmem_alloc_new
  <2>3. p \notin given
    BY <1>1, <2>1
  <2>4. PhysTypeOK'
    <3>1. given' \subseteq Pages /\ hmem_phys_end' \in 1 .. RamEnd
      <4>1. given \subseteq Pages /\ p \in Pages
        BY DEF PhysTypeOK
      <4>2. p \in 1 .. RamEnd
        BY <1>1
      <4>. QED BY <2>1, <2>2, <4>1, <4>2
    <3>. QED BY <2>1, <3>1 DEF PhysTypeOK
  <2>5. ASSUME panic' = "no" PROVE ListOK'
    <3>1. given' \subseteq hmem_phys_end' .. RamEnd - 1
      <4>1. p \in p .. RamEnd - 1 /\ hmem_phys_end .. RamEnd - 1 \subseteq p .. RamEnd - 1
        BY <1>1, <2>1
      <4>. QED BY <1>1, <2>1, <2>2, <2>5, <4>1
    <3>2. FreePages' = FreePages
      BY <1>1, <2>1, <2>2, <2>5 DEF FreePages
    <3>3. NextFree' = NextFree
      BY <2>1 DEF NextFree, word
    <3>. QED BY <1>1, <2>1, <3>1, <3>2, <3>3 DEF ListOK
  <2>. QED BY <2>1, <2>2, <2>3, <2>4, <2>5
<1>4. CASE hmem_alloc_listed(p)
  <2>1. /\ hmem_phys_list # 0 /\ p = hmem_phys_list
        /\ given' = given \cup {p} /\ hmem_phys_list' = word(p)
        /\ ram' = ram /\ kmem_phys_end' = kmem_phys_end
        /\ hmem_phys_end' = hmem_phys_end /\ panic' = panic /\ stray' = stray
    BY <1>4 DEF hmem_alloc_listed
  <2>2. p \in FreePages
    BY <1>1, <2>1 DEF NilList
  <2>3. p \notin given /\ p \in hmem_phys_end .. RamEnd - 1
    BY <2>2 DEF FreePages
  <2>4. NilList(FreePages \ {p}, NextFree, 0, NextFree[p])
    BY <1>1, <2>1, NilPop
  <2>5. NextFree[p] = word(p) /\ NextFree' = NextFree
    BY <2>1 DEF NextFree, word
  <2>6. FreePages' = FreePages \ {p}
    BY <2>1 DEF FreePages
  <2>7. ListOK'
    BY <1>1, <2>1, <2>3, <2>4, <2>5, <2>6 DEF ListOK
  <2>8. word(p) \in Pages \cup {0}
    BY <1>1, <1>2, <2>2, <2>5 DEF NilList
  <2>9. PhysTypeOK'
    BY <1>1, <2>1, <2>8 DEF PhysTypeOK
  <2>. QED BY <2>1, <2>3, <2>7, <2>9
<1>. QED BY <1>3, <1>4 DEF hmem_alloc_page

\* hmem_free_page keeps the list exact, unless the page goes into the empty
\* list with something in its first word.
LEMMA FreePage ==
    ASSUME PhysTypeOK, ListOK, NEW p \in given, NEW w \in Nat, hmem_free_page(p, w)
    PROVE  /\ PhysTypeOK' /\ (~stray' => ListOK')
           /\ kmem_phys_end' = kmem_phys_end /\ given' = given \ {p} /\ panic' = panic
<1>1. /\ kmem_phys_end \in Nat /\ hmem_phys_end \in 1 .. RamEnd
      /\ given \subseteq hmem_phys_end .. RamEnd - 1 /\ given \subseteq Pages
      /\ hmem_phys_list \in Pages \cup {0}
      /\ ram \in [Pages -> [Cells -> Nat]]
      /\ RamEnd \in Nat
      /\ NilList(FreePages, NextFree, 0, hmem_phys_list)
  BY RamAssumption DEF PhysTypeOK, ListOK
<1>2. FreePages \subseteq Pages /\ p \in Pages /\ p \notin FreePages /\ p # 0
      /\ Pages \subseteq Nat /\ p \in hmem_phys_end .. RamEnd - 1
  BY <1>1 DEF FreePages, Pages
<1>3. /\ given' = given \ {p} /\ hmem_phys_list' = p
      /\ ram' = [ram EXCEPT ![p][0] = IF hmem_phys_list = 0 THEN w ELSE hmem_phys_list]
      /\ kmem_phys_end' = kmem_phys_end /\ hmem_phys_end' = hmem_phys_end
      /\ panic' = panic /\ stray' = (stray \/ (hmem_phys_list = 0 /\ w # 0))
  BY DEF hmem_free_page
<1>4. 0 \in Cells
  BY PageAssumption DEF Cells
<1>6. PICK x0 \in Nat : /\ x0 = IF hmem_phys_list = 0 THEN w ELSE hmem_phys_list
                        /\ ~stray' => x0 = hmem_phys_list
  BY <1>1, <1>2, <1>3
<1>5. /\ ram[p] \in [Cells -> Nat]
      /\ ram'[p] = [ram[p] EXCEPT ![0] = x0]
      /\ \A x \in Pages : x # p => ram'[x] = ram[x]
  BY <1>1, <1>2, <1>3, <1>6
<1>7. ram'[p][0] = x0 /\ ram'[p] \in [Cells -> Nat]
  BY <1>4, <1>5, <1>6
<1>8. ram' \in [Pages -> [Cells -> Nat]]
  <2>1. ram' = [x \in Pages |-> ram'[x]]
    BY <1>1, <1>3
  <2>. QED BY <1>1, <1>5, <1>7, <2>1
<1>9. PhysTypeOK'
  BY <1>1, <1>2, <1>3, <1>8 DEF PhysTypeOK
<1>15. SUFFICES ASSUME ~stray' PROVE ListOK'
  BY <1>3, <1>9
<1>10. FreePages' = FreePages \cup {p}
  BY <1>1, <1>2, <1>3 DEF FreePages
<1>11. NextFree'[p] = hmem_phys_list /\ \A x \in FreePages : NextFree'[x] = NextFree[x]
  BY <1>2, <1>5, <1>6, <1>7, <1>15 DEF NextFree, word
<1>12. PICK R, g, h : R = FreePages /\ g = NextFree /\ h = NextFree'
  OBVIOUS
<1>13. NilList(R \cup {p}, h, 0, p)
  BY <1>1, <1>2, <1>11, <1>12, NilPush
<1>14. ListOK'
  BY <1>1, <1>3, <1>10, <1>12, <1>13 DEF ListOK
<1>. QED BY <1>14

\* Writing to a page that is not free.
LEMMA WritePage ==
    ASSUME PhysTypeOK, ListOK, NEW q \in given,
           ram' \in [Pages -> [Cells -> Nat]], \A x \in Pages : x # q => ram'[x] = ram[x],
           UNCHANGED <<kmem_phys_end, hmem_phys_end, hmem_phys_list, given, stray>>
    PROVE  PhysTypeOK' /\ ListOK'
<1>1. PhysTypeOK'
  BY DEF PhysTypeOK
<1>2. /\ hmem_phys_end \in 1 .. RamEnd /\ RamEnd \in Nat
      /\ NilList(FreePages, NextFree, 0, hmem_phys_list)
  BY RamAssumption DEF PhysTypeOK, ListOK
<1>3. FreePages' = FreePages /\ FreePages \subseteq Pages /\ q \notin FreePages
  BY <1>2 DEF FreePages, Pages
<1>4. \A x \in FreePages : NextFree'[x] = NextFree[x]
  BY <1>3 DEF NextFree, word
<1>5. PICK R, g, h : R = FreePages /\ g = NextFree /\ h = NextFree'
  OBVIOUS
<1>6. NilList(R, h, 0, hmem_phys_list)
  BY <1>2, <1>4, <1>5, NilSame
<1>7. given' \subseteq hmem_phys_end' .. RamEnd - 1
  BY DEF ListOK
<1>8. NilList(FreePages', NextFree', 0, hmem_phys_list')
  BY <1>3, <1>5, <1>6
<1>. QED BY <1>1, <1>7, <1>8 DEF ListOK

\* FreeList is what the list has.
LEMMA FreeListIs ==
    ASSUME PhysTypeOK, ListOK
    PROVE  FreeList = FreePages
<1>1. RamEnd \in Nat /\ hmem_phys_end \in 1 .. RamEnd
      /\ NilList(FreePages, NextFree, 0, hmem_phys_list)
  BY RamAssumption DEF PhysTypeOK, ListOK
<1>2. FreePages \in SUBSET (1 .. RamEnd - 1) /\ FreePages \subseteq Pages
  BY <1>1 DEF FreePages, Pages
<1>3. IsFiniteSet(1 .. RamEnd - 1) /\ Cardinality(1 .. RamEnd - 1) <= RamEnd
  <2>1. 1 \in Int /\ RamEnd - 1 \in Int
    BY <1>1
  <2>2. /\ IsFiniteSet(1 .. RamEnd - 1)
        /\ Cardinality(1 .. RamEnd - 1)
            = IF 1 > RamEnd - 1 THEN 0 ELSE RamEnd - 1 - 1 + 1
    BY <2>1, FS_Interval
  <2>. QED BY <1>1, <2>2
<1>4. IsFiniteSet(FreePages) /\ Cardinality(FreePages) <= RamEnd
  <2>1. /\ IsFiniteSet(FreePages)
        /\ Cardinality(FreePages) <= Cardinality(1 .. RamEnd - 1)
    BY <1>2, <1>3, FS_Subset
  <2>2. Cardinality(FreePages) \in Nat /\ Cardinality(1 .. RamEnd - 1) \in Nat
    BY <1>3, <2>1, FS_CardinalityType
  <2>. QED BY <1>1, <1>3, <2>1, <2>2
<1>. DEFINE Eq(f) == f = [k \in 0 .. RamEnd |->
                            IF k = 0 THEN hmem_phys_list
                            ELSE IF f[k - 1] = 0 THEN 0 ELSE word(f[k - 1])]
            at == CHOOSE f : Eq(f)
<1>5. \A x \in FreePages : NextFree[x] = word(x) /\ word(x) \in FreePages \cup {0}
  BY <1>1, <1>2 DEF NextFree, NilList
<1>6. hmem_phys_list \in FreePages \cup {0} /\ 0 \notin FreePages
  BY <1>1 DEF NilList
<1>7. \E f : Eq(f)
  <2>1. PICK f : NilSteps(f, NextFree, 0, hmem_phys_list, RamEnd)
    BY <1>1, NilStepsExist
  <2>2. {f[k] : k \in 0 .. RamEnd} \ {0} = FreePages
    BY <1>1, <1>4, <2>1, NilListExact
  <2>3. \A k \in 0 .. RamEnd : f[k] \in FreePages \cup {0}
    BY <2>2
  <2>4. f = [k \in 0 .. RamEnd |->
                IF k = 0 THEN hmem_phys_list
                ELSE IF f[k - 1] = 0 THEN 0 ELSE NextFree[f[k - 1]]]
    BY <2>1 DEF NilSteps
  <2>5. ASSUME NEW k \in 0 .. RamEnd
        PROVE  f[k] = IF k = 0 THEN hmem_phys_list
                      ELSE IF f[k - 1] = 0 THEN 0 ELSE word(f[k - 1])
    <3>1. k # 0 => k - 1 \in 0 .. RamEnd
      BY <1>1
    <3>2. k # 0 => f[k - 1] \in FreePages \cup {0}
      BY <2>3, <3>1
    <3>. QED BY <1>5, <2>4, <3>2
  <2>6. DOMAIN f = 0 .. RamEnd /\ f = [k \in 0 .. RamEnd |-> f[k]]
    BY <2>4
  <2>. QED BY <2>5, <2>6
<1>8. Eq(at)
  <2>. HIDE DEF Eq
  <2>. QED BY <1>7
<1>9. FreeList = {at[k] : k \in 0 .. RamEnd} \ {0}
  BY DEF FreeList
<1>. HIDE DEF at
<1>10. /\ at[0] = hmem_phys_list
       /\ \A k \in 1 .. RamEnd : at[k] = IF at[k - 1] = 0 THEN 0 ELSE word(at[k - 1])
  BY <1>1, <1>8
<1>11. \A k \in 0 .. RamEnd : at[k] \in FreePages \cup {0}
  <2>. DEFINE T == {k \in Nat : k <= RamEnd => at[k] \in FreePages \cup {0}}
  <2>1. 0 \in T
    BY <1>6, <1>10
  <2>2. ASSUME NEW k \in T PROVE k + 1 \in T
    <3>1. SUFFICES ASSUME k + 1 <= RamEnd PROVE at[k + 1] \in FreePages \cup {0}
      OBVIOUS
    <3>2. k + 1 \in 1 .. RamEnd /\ k + 1 - 1 = k /\ k <= RamEnd
      BY <1>1, <3>1
    <3>3. at[k] \in FreePages \cup {0}
      BY <3>2
    <3>. QED BY <1>5, <1>10, <3>2, <3>3
  <2>. HIDE DEF T
  <2>3. T \in SUBSET Nat
    BY DEF T
  <2>4. \A k \in Nat : k \in T
    BY <2>1, <2>2, <2>3, NatInd
  <2>. QED BY <2>4 DEF T
<1>12. NilSteps(at, NextFree, 0, hmem_phys_list, RamEnd)
  <2>1. ASSUME NEW k \in 0 .. RamEnd
        PROVE  at[k] = IF k = 0 THEN hmem_phys_list
                       ELSE IF at[k - 1] = 0 THEN 0 ELSE NextFree[at[k - 1]]
    <3>1. CASE k = 0
      BY <1>10, <3>1
    <3>2. CASE k # 0
      <4>1. k \in 1 .. RamEnd /\ k - 1 \in 0 .. RamEnd
        BY <1>1, <3>2
      <4>. QED BY <1>5, <1>10, <1>11, <3>2, <4>1
    <3>. QED BY <3>1, <3>2
  <2>2. at = [k \in 0 .. RamEnd |-> at[k]]
    BY <1>8
  <2>. QED BY <2>1, <2>2 DEF NilSteps
<1>13. {at[k] : k \in 0 .. RamEnd} \ {0} = FreePages
  BY <1>1, <1>4, <1>12, NilListExact
<1>. QED BY <1>9, <1>13

----------------------------------------------------------------------------
(***************************************************************************)
(* Files and loaders.                                                      *)
(***************************************************************************)

\* What FilesFit says of a program header.
HeaderOK(h) ==
    /\ h.load \in BOOLEAN /\ h.p_vaddr \in Nat /\ h.p_offset \in Nat
    /\ h.p_filesz \in Nat /\ h.p_memsz \in Nat
    /\ SegmentPages(h) \subseteq UserPages

LEMMA FileHeaders ==
    ASSUME FilesFit, NEW f \in DOMAIN Files, Files[f].supported
    PROVE  /\ Files[f].len \in Nat
           /\ Len(Files[f].phdrs) \in Nat
           /\ DOMAIN Files[f].phdrs = 1 .. Len(Files[f].phdrs)
           /\ \A i \in DOMAIN Files[f].phdrs : HeaderOK(Files[f].phdrs[i])
           /\ \A i, j \in DOMAIN Files[f].phdrs : i # j =>
                    SegmentPages(Files[f].phdrs[i]) \cap SegmentPages(Files[f].phdrs[j]) = {}
<1>1. PICK headers : headers = Files[f].phdrs
  OBVIOUS
<1>2. /\ Files[f].len \in Nat
      /\ headers \in Seq([load : BOOLEAN, p_vaddr : Nat, p_offset : Nat,
                          p_filesz : Nat, p_memsz : Nat])
      /\ \A i \in DOMAIN headers : SegmentPages(headers[i]) \subseteq UserPages
      /\ \A i, j \in DOMAIN headers : i # j =>
              SegmentPages(headers[i]) \cap SegmentPages(headers[j]) = {}
  BY <1>1 DEF FilesFit
<1>3. Len(headers) \in Nat /\ DOMAIN headers = 1 .. Len(headers)
  BY <1>2
<1>4. ASSUME NEW i \in DOMAIN headers
      PROVE  headers[i] \in [load : BOOLEAN, p_vaddr : Nat, p_offset : Nat,
                             p_filesz : Nat, p_memsz : Nat]
  <2>1. PICK R : R = [load : BOOLEAN, p_vaddr : Nat, p_offset : Nat,
                      p_filesz : Nat, p_memsz : Nat]
    OBVIOUS
  <2>2. headers \in Seq(R) /\ i \in 1 .. Len(headers)
    BY <1>2, <1>3, <2>1
  <2>3. headers[i] \in R
    BY <2>2
  <2>. QED BY <2>1, <2>3
<1>5. \A i \in DOMAIN headers : HeaderOK(headers[i])
  BY <1>2, <1>4 DEF HeaderOK
<1>. QED BY <1>1, <1>2, <1>3, <1>5

\* The page that the loader is at: it is one of its segment.
LEMMA VirtUser ==
    ASSUME FilesFit, NEW l \in LoaderType, PlaceOK(l), l.pc \in InSegment
    PROVE  /\ l.file \in DOMAIN Files /\ Files[l.file].supported
           /\ l.i \in DOMAIN Headers(l) /\ HeaderOK(Headers(l)[l.i])
           /\ Start(l) \in Nat
           /\ VirtOf(l) \in SegmentPages(Headers(l)[l.i])
           /\ VirtOf(l) \in UserPages
           /\ \E k \in 0 .. l.idx : /\ l.idx = k * PageSize /\ l.idx \div PageSize = k
                                    /\ VirtOf(l) = Start(l) + k
<1>1. /\ l.file \in DOMAIN Files /\ Files[l.file].supported
      /\ l.i \in DOMAIN Headers(l) /\ Headers(l)[l.i].load
      /\ l.idx < Headers(l)[l.i].p_memsz
      /\ \E k \in 0 .. l.idx : l.idx = k * PageSize
  BY DEF PlaceOK, InFile
<1>2. HeaderOK(Headers(l)[l.i])
  BY <1>1, FileHeaders DEF Headers
<1>3. PICK h : h = Headers(l)[l.i]
  OBVIOUS
<1>4. h.p_vaddr \in Nat /\ h.p_memsz \in Nat /\ h.load /\ l.idx < h.p_memsz
      /\ SegmentPages(h) \subseteq UserPages
  BY <1>1, <1>2, <1>3 DEF HeaderOK
<1>5. l.idx \in Nat
  BY DEF LoaderType
<1>6. PICK k \in 0 .. l.idx : l.idx = k * PageSize
  BY <1>1
<1>7. l.idx \div PageSize = k /\ k \in Nat
  <2>1. \A a, b \in Nat : b > 0 => (a * b) \div b = a
    OBVIOUS
  <2>2. k \in Nat
    BY <1>5
  <2>. QED BY <1>6, <2>1, <2>2, PageAssumption
<1>8. Start(l) \in Nat
  <2>1. \A a, b \in Nat : b > 0 => a \div b \in Nat
    OBVIOUS
  <2>. QED BY <1>3, <1>4, <2>1, PageAssumption DEF Start
<1>9. VirtOf(l) = Start(l) + k
  BY <1>7 DEF VirtOf
<1>10. VirtOf(l) \in SegmentPages(h)
  <2>1. k \in 0 .. h.p_memsz /\ k * PageSize < h.p_memsz
    BY <1>4, <1>5, <1>6
  <2>. QED BY <1>3, <1>4, <1>9, <2>1 DEF SegmentPages, PageNumbers, Start
<1>. QED BY <1>1, <1>2, <1>3, <1>4, <1>6, <1>7, <1>8, <1>9, <1>10

\* The page tables r have the user pages of t that m has.
SameUser(r, m, t) == \A v \in UserPages : PhysIn(r, t, v) = PhysIn(m, t, v)

\* The pages that t has in its user half.
LEMMA TaskMove ==
    ASSUME FilesFit, NEW t \in Tasks, NEW m, NEW r, NEW l, NEW S, TaskOK(t, l, S, m),
           SameUser(r, m, t), NEW k \in LoaderType, PlaceOK(k), k.page = l.page,
           k.pc = "map" <=> l.pc = "map",
           k.pc \notin {"none", "new"} => r.dir[t][TOP] # 0,
           \A v \in UserPages : Visited(l, v) => Visited(k, v),
           k.pc \in {"read", "zero"} => PhysIn(m, t, VirtOf(k)) # 0
    PROVE  TaskOK(t, k, S, r)
<1>1. /\ l.page # 0 <=> l.pc = "map"
      /\ S = ({PhysIn(m, t, v) : v \in UserPages} \cup {l.page}) \ {0}
      /\ \A v \in UserPages :
            PhysIn(m, t, v) # 0 => PhysIn(m, t, v) # l.page /\ Visited(l, v)
      /\ \A v, w \in UserPages :
            PhysIn(m, t, v) # 0 /\ PhysIn(m, t, v) = PhysIn(m, t, w) => v = w
  BY DEF TaskOK
<1>2. \A v \in UserPages : PhysIn(r, t, v) = PhysIn(m, t, v)
  BY DEF SameUser
<1>3. S = ({PhysIn(r, t, v) : v \in UserPages} \cup {k.page}) \ {0}
  BY <1>1, <1>2
<1>4. \A v \in UserPages :
            PhysIn(r, t, v) # 0 => PhysIn(r, t, v) # k.page /\ Visited(k, v)
  BY <1>1, <1>2
<1>5. \A v, w \in UserPages :
            PhysIn(r, t, v) # 0 /\ PhysIn(r, t, v) = PhysIn(r, t, w) => v = w
  BY <1>1, <1>2
<1>6. k.pc \in {"read", "zero"} => PhysIn(r, t, VirtOf(k)) # 0
  <2>1. SUFFICES ASSUME k.pc \in {"read", "zero"} PROVE PhysIn(r, t, VirtOf(k)) # 0
    OBVIOUS
  <2>2. VirtOf(k) \in UserPages
    BY <2>1, VirtUser DEF InSegment
  <2>. QED BY <1>2, <2>1, <2>2
<1>7. k.page # 0 <=> k.pc = "map"
  BY <1>1
<1>. QED BY <1>3, <1>4, <1>5, <1>6, <1>7 DEF TaskOK

LEMMA TaskSame ==
    ASSUME FilesFit, NEW t \in Tasks, NEW m, NEW r, NEW l, NEW S, TaskOK(t, l, S, m),
           SameUser(r, m, t), r.dir[t][TOP] = m.dir[t][TOP]
    PROVE  TaskOK(t, l, S, r)
<1>1. /\ l \in LoaderType /\ PlaceOK(l)
      /\ l.pc \notin {"none", "new"} => r.dir[t][TOP] # 0
      /\ l.pc \in {"read", "zero"} => PhysIn(m, t, VirtOf(l)) # 0
  BY DEF TaskOK
<1>. QED BY <1>1, TaskMove

\* load_alloc: a page that the load does not have yet.
LEMMA TaskAlloc ==
    ASSUME NEW t \in Tasks, NEW m, NEW l, NEW S, TaskOK(t, l, S, m),
           l.pc = "alloc", NEW p \in Pages, p \notin S,
           NEW k, k = [l EXCEPT !.pc = "map", !.page = p]
    PROVE  TaskOK(t, k, S \cup {p}, m)
<1>1. /\ l \in LoaderType /\ PlaceOK(l) /\ l.page = 0 /\ m.dir[t][TOP] # 0
      /\ S = ({PhysIn(m, t, v) : v \in UserPages} \cup {l.page}) \ {0}
      /\ \A v \in UserPages : PhysIn(m, t, v) # 0 => Visited(l, v)
      /\ \A v, w \in UserPages :
            PhysIn(m, t, v) # 0 /\ PhysIn(m, t, v) = PhysIn(m, t, w) => v = w
  BY DEF TaskOK
<1>2. p # 0
  BY DEF Pages
<1>3. /\ k \in LoaderType /\ k.pc = "map" /\ k.page = p /\ k.file = l.file /\ k.i = l.i
      /\ k.idx = l.idx
  BY <1>1 DEF LoaderType, LoaderPoints, InFile, InSegment
<1>4. PlaceOK(k)
  BY <1>1, <1>3 DEF PlaceOK, InFile, InSegment, Headers
<1>5. \A v \in UserPages : Visited(l, v) => Visited(k, v)
  BY <1>3 DEF Visited, InFile, InSegment, Headers, Start
<1>6. \A v \in UserPages : PhysIn(m, t, v) # 0 => PhysIn(m, t, v) \in S
  BY <1>1
<1>7. S \cup {p} = ({PhysIn(m, t, v) : v \in UserPages} \cup {k.page}) \ {0}
  BY <1>1, <1>2, <1>3
<1>8. \A v \in UserPages :
            PhysIn(m, t, v) # 0 => PhysIn(m, t, v) # k.page /\ Visited(k, v)
  BY <1>1, <1>3, <1>5, <1>6
<1>. QED BY <1>1, <1>2, <1>3, <1>4, <1>7, <1>8 DEF TaskOK

\* A loader, by its parts.
LoaderAt(c, f, i, idx, page, pos) ==
    [pc |-> c, file |-> f, i |-> i, idx |-> idx, page |-> page, pos |-> pos]

IsAt(k, c, f, i, idx, page, pos) ==
    /\ k \in LoaderType /\ k.pc = c /\ k.file = f /\ k.i = i /\ k.idx = idx
    /\ k.page = page /\ k.pos = pos

LEMMA LoaderParts ==
    ASSUME NEW c \in LoaderPoints, NEW f \in DOMAIN Files \cup {0}, NEW i \in Nat,
           NEW idx \in Nat, NEW page \in Pages \cup {0}, NEW pos \in Int,
           NEW k, k = LoaderAt(c, f, i, idx, page, pos)
    PROVE  IsAt(k, c, f, i, idx, page, pos)
  BY DEF LoaderType, LoaderAt, IsAt

\* The page tables r have the user pages of t that m has, but for x.
SameBut(r, m, t, x) ==
    \A v \in UserPages : v # x => PhysIn(r, t, v) = PhysIn(m, t, v)

\* load_map: the page is at an address that had none.
LEMMA TaskMap ==
    ASSUME FilesFit, NEW t \in Tasks, NEW m, NEW r, NEW l, NEW S, TaskOK(t, l, S, m),
           l.pc = "map", PhysIn(r, t, VirtOf(l)) = l.page,
           SameBut(r, m, t, VirtOf(l)),
           r.dir[t][TOP] = m.dir[t][TOP],
           NEW c \in {"read", "zero"},
           NEW k, k = [l EXCEPT !.page = 0, !.pos = 0, !.pc = c]
    PROVE  TaskOK(t, k, S, r)
<1>1. /\ l \in LoaderType /\ PlaceOK(l) /\ l.page # 0 /\ m.dir[t][TOP] # 0
      /\ S = ({PhysIn(m, t, v) : v \in UserPages} \cup {l.page}) \ {0}
      /\ \A v \in UserPages :
            PhysIn(m, t, v) # 0 => PhysIn(m, t, v) # l.page /\ Visited(l, v)
      /\ \A v, w \in UserPages :
            PhysIn(m, t, v) # 0 /\ PhysIn(m, t, v) = PhysIn(m, t, w) => v = w
  BY DEF TaskOK
<1>2. PICK x : x = VirtOf(l)
  OBVIOUS
<1>3. /\ l.file \in DOMAIN Files /\ Files[l.file].supported
      /\ l.i \in DOMAIN Headers(l)
      /\ Start(l) \in Nat
      /\ x \in SegmentPages(Headers(l)[l.i])
      /\ x \in UserPages
      /\ \E n \in 0 .. l.idx : l.idx = n * PageSize /\ x = Start(l) + n
  BY <1>1, <1>2, VirtUser DEF InSegment
<1>4. PICK n \in 0 .. l.idx : l.idx = n * PageSize /\ x = Start(l) + n
  BY <1>3
<1>5. l.idx \in Nat /\ PageSize \in Nat /\ n \in Nat
  BY <1>1, PageAssumption DEF LoaderType
<1>6. PhysIn(m, t, x) = 0
  <2>1. SUFFICES ASSUME Visited(l, x) PROVE FALSE
    BY <1>1, <1>3
  <2>2. \/ \E j \in DOMAIN Headers(l) : j < l.i /\ x \in SegmentPages(Headers(l)[j])
        \/ \E i \in 0 .. l.idx : x = Start(l) + i /\ i * PageSize < l.idx
    BY <2>1 DEF Visited, InFile, InSegment
  <2>3. CASE \E j \in DOMAIN Headers(l) : j < l.i /\ x \in SegmentPages(Headers(l)[j])
    <3>1. PICK j \in DOMAIN Headers(l) : j < l.i /\ x \in SegmentPages(Headers(l)[j])
      BY <2>3
    <3>2. l.i \in Nat /\ j # l.i
      BY <1>1, <3>1 DEF LoaderType
    <3>3. SegmentPages(Headers(l)[j]) \cap SegmentPages(Headers(l)[l.i]) = {}
      BY <1>3, <3>2, FileHeaders DEF Headers
    <3>. QED BY <1>3, <3>1, <3>3
  <2>4. CASE \E i \in 0 .. l.idx : x = Start(l) + i /\ i * PageSize < l.idx
    <3>1. PICK i \in 0 .. l.idx : x = Start(l) + i /\ i * PageSize < l.idx
      BY <2>4
    <3>2. i = n
      BY <1>3, <1>4, <1>5, <3>1
    <3>. QED BY <1>4, <1>5, <3>1, <3>2
  <2>. QED BY <2>2, <2>3, <2>4
<1>7. /\ PhysIn(r, t, x) = l.page
      /\ \A v \in UserPages : v # x => PhysIn(r, t, v) = PhysIn(m, t, v)
  BY <1>2 DEF SameBut
<1>8. /\ k \in LoaderType /\ k.pc = c /\ k.page = 0 /\ k.file = l.file /\ k.i = l.i
      /\ k.idx = l.idx
  <2>1. PICK f, i, idx, zero : f = l.file /\ i = l.i /\ idx = l.idx /\ zero = 0
    OBVIOUS
  <2>2. k = LoaderAt(c, f, i, idx, zero, zero)
    BY <1>1, <2>1 DEF LoaderType, LoaderAt
  <2>3. c \in LoaderPoints /\ f \in DOMAIN Files \cup {0} /\ i \in Nat /\ idx \in Nat
        /\ zero \in Int /\ zero \in Pages \cup {0}
    BY <1>1, <2>1 DEF LoaderType, LoaderPoints, InFile, InSegment
  <2>4. /\ k \in LoaderType /\ k.pc = c /\ k.file = f /\ k.i = i /\ k.idx = idx
        /\ k.page = zero /\ k.pos = zero
    <3>1. IsAt(k, c, f, i, idx, zero, zero)
      BY ONLY <2>2, <2>3, LoaderParts
    <3>. QED BY <3>1 DEF IsAt
  <2>. QED BY <2>1, <2>4
<1>9. PlaceOK(k)
  BY <1>1, <1>8 DEF PlaceOK, InFile, InSegment, Headers
<1>10. \A v \in UserPages : Visited(l, v) => Visited(k, v)
  BY <1>8 DEF Visited, InFile, InSegment, Headers, Start
<1>11. Visited(k, x)
  <2>1. k.pc \in InSegment /\ k.pc \in {"read", "zero"} /\ k.pc \in InFile
    BY <1>8 DEF InFile, InSegment
  <2>2. Start(k) = Start(l)
    BY <1>8 DEF Start, Headers
  <2>3. k.pc \notin {"none", "new", "run"}
    BY <2>1
  <2>. QED BY <1>4, <1>8, <2>1, <2>2, <2>3 DEF Visited
<1>12. S = ({PhysIn(r, t, v) : v \in UserPages} \cup {k.page}) \ {0}
  <2>1. ASSUME NEW y \in S PROVE y \in {PhysIn(r, t, v) : v \in UserPages} /\ y # 0
    <3>1. CASE y = l.page
      BY <1>1, <1>3, <1>7, <3>1
    <3>2. CASE y # l.page
      <4>1. PICK v \in UserPages : y = PhysIn(m, t, v) /\ y # 0
        BY <1>1, <3>2
      <4>2. v # x
        BY <1>6, <4>1
      <4>. QED BY <1>7, <4>1, <4>2
    <3>. QED BY <3>1, <3>2
  <2>2. ASSUME NEW v \in UserPages, PhysIn(r, t, v) # 0 PROVE PhysIn(r, t, v) \in S
    BY <1>1, <1>7, <2>2
  <2>. QED BY <1>8, <2>1, <2>2
<1>13. \A v \in UserPages :
            PhysIn(r, t, v) # 0 => PhysIn(r, t, v) # k.page /\ Visited(k, v)
  <2>1. ASSUME NEW v \in UserPages, PhysIn(r, t, v) # 0
        PROVE  PhysIn(r, t, v) # k.page /\ Visited(k, v)
    <3>1. CASE v = x
      BY <1>8, <1>11, <2>1, <3>1
    <3>2. CASE v # x
      BY <1>1, <1>7, <1>8, <1>10, <2>1, <3>2
    <3>. QED BY <3>1, <3>2
  <2>. QED BY <2>1
<1>14. ASSUME NEW v \in UserPages, NEW w \in UserPages,
              PhysIn(r, t, v) # 0, PhysIn(r, t, v) = PhysIn(r, t, w)
       PROVE  v = w
  <2>1. CASE v = x
    <3>1. CASE w = x
      BY <2>1, <3>1
    <3>2. CASE w # x
      BY <1>1, <1>7, <1>14, <2>1, <3>2
    <3>. QED BY <3>1, <3>2
  <2>2. CASE v # x
    <3>1. CASE w = x
      BY <1>1, <1>7, <1>14, <2>2, <3>1
    <3>2. CASE w # x
      BY <1>1, <1>7, <1>14, <2>2, <3>2
    <3>. QED BY <3>1, <3>2
  <2>. QED BY <2>1, <2>2
<1>15. VirtOf(k) = x
  BY <1>2, <1>8 DEF VirtOf, Start, Headers
<1>16. PhysIn(r, t, VirtOf(k)) # 0
  BY <1>1, <1>7, <1>15
<1>17. (k.page # 0 <=> k.pc = "map") /\ r.dir[t][TOP] # 0
  BY <1>1, <1>8
<1>. QED BY <1>8, <1>9, <1>12, <1>13, <1>14, <1>16, <1>17 DEF TaskOK

----------------------------------------------------------------------------
(***************************************************************************)
(* The invariant: one lemma for what all steps of a task have in common,   *)
(* and one for each action.                                                *)
(***************************************************************************)

\* The other tasks keep their pages.
OthersSame(r, m, t) ==
    \A u \in Tasks : u # t => SameUser(r, m, u) /\ r.dir[u][TOP] = m.dir[u][TOP]

LEMMA TaskStep ==
    ASSUME FilesFit, Shape, Sound, PhysTypeOK', ListOK', panic' = "no",
           kmem_phys_end' = kmem_phys_end,
           NEW t \in Tasks, NEW k, NEW S \in SUBSET Pages,
           loader' = [loader EXCEPT ![t] = k], loaded' = [loaded EXCEPT ![t] = S],
           given \subseteq given', S \subseteq given',
           S \cap given \subseteq loaded[t],
           IsMM(mm'), DirsOK(mm', Created'), KmemMapped(mm', kmem_phys_end),
           OthersSame(mm', mm, t), TaskOK(t, k, S, mm')
    PROVE  ElfInv'
<1>1. /\ loader \in [Tasks -> LoaderType] /\ loaded \in [Tasks -> SUBSET Pages]
  BY DEF Shape
<1>2. k \in LoaderType
  BY DEF TaskOK
<1>3. /\ loader' \in [Tasks -> LoaderType] /\ loader'[t] = k
      /\ \A u \in Tasks : u # t => loader'[u] = loader[u]
  BY <1>1, <1>2
<1>4. /\ loaded' \in [Tasks -> SUBSET Pages] /\ loaded'[t] = S
      /\ \A u \in Tasks : u # t => loaded'[u] = loaded[u]
  BY <1>1
<1>5. Shape'
  BY <1>3, <1>4 DEF Shape
<1>6. ASSUME NEW u \in Tasks PROVE TaskOK(u, loader'[u], loaded'[u], mm')
  <2>1. CASE u = t
    BY <1>3, <1>4, <2>1
  <2>2. CASE u # t
    <3>1. PICK l, L, r, m : l = loader[u] /\ L = loaded[u] /\ r = mm' /\ m = mm
      OBVIOUS
    <3>2. TaskOK(u, l, L, m)
      BY <3>1 DEF Sound
    <3>3. SameUser(r, m, u) /\ r.dir[u][TOP] = m.dir[u][TOP]
      BY <2>2, <3>1 DEF OthersSame
    <3>4. TaskOK(u, l, L, r)
      BY <3>2, <3>3, TaskSame
    <3>5. loader'[u] = l /\ loaded'[u] = L
      BY <1>3, <1>4, <2>2, <3>1
    <3>. QED BY <3>1, <3>4, <3>5
  <2>. QED BY <2>1, <2>2
<1>7. LoadsApart'
  <2>1. /\ \A u \in Tasks : loaded[u] \subseteq given
        /\ \A u, w \in Tasks : u # w => loaded[u] \cap loaded[w] = {}
    BY DEF Sound, LoadsApart
  <2>2. \A u \in Tasks : loaded'[u] \subseteq given'
    BY <1>4, <2>1
  <2>3. \A u \in Tasks : u # t => loaded[u] \cap S = {}
    BY <2>1
  <2>4. \A u, w \in Tasks : u # w => loaded'[u] \cap loaded'[w] = {}
    BY <1>4, <2>1, <2>3
  <2>. QED BY <2>2, <2>4 DEF LoadsApart
<1>8. KmemStart <= kmem_phys_end' /\ kmem_phys_end' <= RegionEnd
  BY DEF Sound
<1>9. KmemMapped(mm', kmem_phys_end')
  OBVIOUS
<1>. QED BY <1>5, <1>6, <1>7, <1>8, <1>9 DEF ElfInv, Sound

\* What the lemmas about actions know of task t.
LEMMA TaskNow ==
    ASSUME Shape, Sound, NEW t \in Tasks, NEW l, l = loader[t]
    PROVE  /\ TaskOK(t, l, loaded[t], mm)
           /\ l \in LoaderType /\ PlaceOK(l)
           /\ l.pc # "map" => l.page = 0
           /\ l.pc \notin {"none", "new"} => mm.dir[t][TOP] # 0
           /\ loaded[t] \in SUBSET Pages /\ loaded[t] \subseteq given
           /\ loaded = [loaded EXCEPT ![t] = loaded[t]]
           /\ Created \in SUBSET Tasks /\ (l.pc # "none" <=> t \in Created)
           /\ loader \in [Tasks -> LoaderType]
           /\ IsMM(mm) /\ DirsOK(mm, Created) /\ KmemMapped(mm, kmem_phys_end)
           /\ kmem_phys_end \in Nat /\ kmem_phys_end <= RegionEnd
           /\ PhysTypeOK /\ ListOK
<1>1. TaskOK(t, l, loaded[t], mm)
  BY DEF Sound
<1>2. /\ l \in LoaderType /\ PlaceOK(l) /\ (l.pc # "map" => l.page = 0)
      /\ l.pc \notin {"none", "new"} => mm.dir[t][TOP] # 0
  BY <1>1 DEF TaskOK
<1>3. loaded \in [Tasks -> SUBSET Pages] /\ loader \in [Tasks -> LoaderType]
      /\ IsMM(mm) /\ PhysTypeOK
  BY DEF Shape
<1>4. /\ kmem_phys_end \in Nat /\ kmem_phys_end <= RegionEnd /\ ListOK
      /\ DirsOK(mm, Created) /\ KmemMapped(mm, kmem_phys_end)
      /\ loaded[t] \subseteq given
  BY <1>3 DEF Sound, PhysTypeOK, LoadsApart
<1>5. Created \in SUBSET Tasks /\ (l.pc # "none" <=> t \in Created)
  BY DEF Created
<1>6. loaded = [loaded EXCEPT ![t] = loaded[t]] /\ loaded[t] \in SUBSET Pages
  BY <1>3
<1>. QED BY <1>1, <1>2, <1>3, <1>4, <1>5, <1>6

LEMMA PhysStutter ==
    ASSUME PhysTypeOK, ListOK, UNCHANGED phys_vars
    PROVE  PhysTypeOK' /\ ListOK' /\ kmem_phys_end' = kmem_phys_end /\ given' = given
<1>1. FreePages' = FreePages /\ NextFree' = NextFree
  BY DEF phys_vars, FreePages, NextFree, word
<1>. QED BY <1>1 DEF phys_vars, PhysTypeOK, ListOK

Further(l, k) == \A v \in UserPages : Visited(l, v) => Visited(k, v)

\* Steps of a load that leave the page tables alone.
LEMMA LoaderStep ==
    ASSUME FilesFit, Shape, Sound, PhysTypeOK', ListOK', panic' = "no",
           kmem_phys_end' = kmem_phys_end, given' = given, mm' = mm, loaded' = loaded,
           NEW t \in Tasks, NEW l, l = loader[t], NEW k \in LoaderType,
           loader' = [loader EXCEPT ![t] = k],
           l.pc \notin {"none", "new", "map"}, k.pc \notin {"none", "new", "map"},
           k.page = 0, PlaceOK(k), Further(l, k),
           k.pc \in {"read", "zero"} => PhysIn(mm, t, VirtOf(k)) # 0
    PROVE  ElfInv'
<1>1. PICK m, S : m = mm /\ S = loaded[t]
  OBVIOUS
<1>2. /\ TaskOK(t, l, S, m) /\ l.page = 0 /\ m.dir[t][TOP] # 0
      /\ S \in SUBSET Pages /\ S \subseteq given
      /\ loaded' = [loaded EXCEPT ![t] = S]
      /\ IsMM(mm') /\ DirsOK(mm', Created) /\ KmemMapped(mm', kmem_phys_end)
      /\ loader \in [Tasks -> LoaderType]
  BY <1>1, TaskNow
<1>3. SameUser(m, m, t)
  BY DEF SameUser
<1>4. TaskOK(t, k, S, m)
  BY <1>1, <1>2, <1>3, TaskMove DEF Further
<1>5. Created' = Created
  <2>1. /\ loader'[t] = k
        /\ \A u \in Tasks : u # t => loader'[u] = loader[u]
    BY <1>2
  <2>. QED BY <2>1 DEF Created
<1>6. OthersSame(mm', mm, t)
  BY DEF OthersSame, SameUser
<1>7. TaskOK(t, k, S, mm')
  BY <1>1, <1>4
<1>. QED BY <1>1, <1>2, <1>5, <1>6, <1>7, TaskStep

----------------------------------------------------------------------------
LEMMA AllocateStep ==
    ASSUME FilesFit, Shape, Sound, NEW t \in Tasks, allocate(t)
    PROVE  ElfInv'
<1>1. PICK l, m, r, S : l = loader[t] /\ m = mm /\ r = mm' /\ S = loaded[t]
  OBVIOUS
<1>2. /\ l.pc = "none" /\ panic' = "no" /\ UNCHANGED phys_vars /\ loaded' = loaded
      /\ r = [m EXCEPT !.dir[t] = m.dir[first_page_directory]]
      /\ loader' = [loader EXCEPT ![t] = [NoLoad EXCEPT !.pc = "new"]]
  BY <1>1 DEF allocate, At, Runs, Goto, new_page_directory
<1>3. /\ TaskOK(t, l, S, m) /\ l.page = 0
      /\ S \in SUBSET Pages /\ S \subseteq given /\ loaded' = [loaded EXCEPT ![t] = S]
      /\ Created \in SUBSET Tasks /\ t \in Tasks \ Created
      /\ loader \in [Tasks -> LoaderType]
      /\ IsMM(m) /\ DirsOK(m, Created) /\ KmemMapped(m, kmem_phys_end)
      /\ kmem_phys_end \in Nat /\ kmem_phys_end <= RegionEnd
      /\ PhysTypeOK /\ ListOK
  BY <1>1, <1>2, TaskNow
<1>4. PhysTypeOK' /\ ListOK' /\ kmem_phys_end' = kmem_phys_end /\ given' = given
  BY <1>2, <1>3, PhysStutter
<1>5. PICK k, C : k = [NoLoad EXCEPT !.pc = "new"] /\ C = Created
  OBVIOUS
<1>6. k \in LoaderType /\ k.pc = "new" /\ k.page = 0
  BY <1>5 DEF NoLoad, LoaderType, LoaderPoints
<1>7. IsMM(r) /\ DirsOK(r, C \cup {t}) /\ SamePages(r, m) /\ OtherTops(r, m, t)
  <2>1. C \in SUBSET Tasks /\ t \in Tasks \ C /\ DirsOK(m, C) /\ IsMM(m)
        /\ r = [m EXCEPT !.dir[t] = m.dir[first_page_directory]]
    BY <1>2, <1>3, <1>5
  <2>. QED BY ONLY <2>1, NewDirectory
<1>8. Created' = C \cup {t}
  <2>1. /\ loader'[t] = k
        /\ \A u \in Tasks : u # t => loader'[u] = loader[u]
    BY <1>2, <1>3, <1>5
  <2>. QED BY <1>5, <1>6, <2>1 DEF Created
<1>9. KmemMapped(r, kmem_phys_end)
  BY <1>3, <1>7, KmemSame
<1>10. \A u \in Tasks : SameUser(r, m, u)
  BY <1>7 DEF SamePages, SameUser, Directories
<1>11. OthersSame(r, m, t)
  BY <1>7, <1>10 DEF OthersSame, OtherTops, Directories
<1>12. PlaceOK(k)
  BY <1>6 DEF PlaceOK, InFile, InSegment
<1>13. \A v \in UserPages : Visited(l, v) => Visited(k, v)
  BY <1>2 DEF Visited
<1>14. TaskOK(t, k, S, r)
  BY <1>2, <1>3, <1>6, <1>10, <1>12, <1>13, TaskMove
<1>15. loader' = [loader EXCEPT ![t] = k] /\ S \cap given \subseteq loaded[t]
  BY <1>1, <1>2, <1>5
<1>16. IsMM(mm') /\ DirsOK(mm', Created') /\ KmemMapped(mm', kmem_phys_end)
       /\ OthersSame(mm', mm, t) /\ TaskOK(t, k, S, mm')
  BY <1>1, <1>7, <1>8, <1>9, <1>11, <1>14
<1>. QED BY <1>2, <1>3, <1>4, <1>15, <1>16, TaskStep

LEMMA WrapperStep ==
    ASSUME FilesFit, Shape, Sound, NEW t \in Tasks, task_wrapper(t)
    PROVE  ElfInv'
<1>1. PICK l, m, r, S, C : /\ l = loader[t] /\ m = mm /\ r = mm' /\ S = loaded[t]
                           /\ C = Created
  OBVIOUS
<1>2. /\ l.pc = "new" /\ panic' = "no" /\ UNCHANGED phys_vars /\ loaded' = loaded
      /\ r = new_table(m, t, TOP)
      /\ loader' = [loader EXCEPT ![t] = [NoLoad EXCEPT !.pc = "run"]]
  BY <1>1 DEF task_wrapper, At, Runs, Goto, map_top
<1>3. /\ TaskOK(t, l, S, m) /\ l.page = 0
      /\ S \in SUBSET Pages /\ S \subseteq given /\ loaded' = [loaded EXCEPT ![t] = S]
      /\ C \in SUBSET Tasks /\ t \in C
      /\ loader \in [Tasks -> LoaderType]
      /\ IsMM(m) /\ DirsOK(m, C) /\ KmemMapped(m, kmem_phys_end)
      /\ kmem_phys_end \in Nat /\ kmem_phys_end <= RegionEnd
      /\ PhysTypeOK /\ ListOK
  BY <1>1, <1>2, TaskNow
<1>4. PhysTypeOK' /\ ListOK' /\ kmem_phys_end' = kmem_phys_end /\ given' = given
  BY <1>2, <1>3, PhysStutter
<1>5. PICK k : k = [NoLoad EXCEPT !.pc = "run"]
  OBVIOUS
<1>6. k \in LoaderType /\ k.pc = "run" /\ k.page = 0
  BY <1>5 DEF NoLoad, LoaderType, LoaderPoints
<1>7. /\ IsMM(r) /\ DirsOK(r, C) /\ SamePages(r, m)
      /\ r.dir[t][TOP] # 0 /\ OtherTops(r, m, t)
  BY <1>2, <1>3, MapTop
<1>8. Created' = C
  <2>1. /\ loader'[t] = k
        /\ \A u \in Tasks : u # t => loader'[u] = loader[u]
    BY <1>2, <1>3, <1>5
  <2>. QED BY <1>1, <1>2, <1>6, <2>1 DEF Created
<1>9. KmemMapped(r, kmem_phys_end)
  BY <1>3, <1>7, KmemSame
<1>10. \A u \in Tasks : SameUser(r, m, u)
  BY <1>7 DEF SamePages, SameUser, Directories
<1>11. OthersSame(r, m, t)
  BY <1>7, <1>10 DEF OthersSame, OtherTops, Directories
<1>12. PlaceOK(k)
  BY <1>6 DEF PlaceOK, InFile, InSegment
<1>13. \A v \in UserPages : Visited(l, v) => Visited(k, v)
  BY <1>2 DEF Visited
<1>14. TaskOK(t, k, S, r)
  BY <1>2, <1>3, <1>6, <1>7, <1>10, <1>12, <1>13, TaskMove
<1>15. loader' = [loader EXCEPT ![t] = k] /\ S \cap given \subseteq loaded[t]
  BY <1>1, <1>2, <1>5
<1>16. IsMM(mm') /\ DirsOK(mm', Created') /\ KmemMapped(mm', kmem_phys_end)
       /\ OthersSame(mm', mm, t) /\ TaskOK(t, k, S, mm')
  BY <1>1, <1>7, <1>8, <1>9, <1>11, <1>14
<1>. QED BY <1>2, <1>3, <1>4, <1>15, <1>16, TaskStep

----------------------------------------------------------------------------
\* load_elf has returned: every page may have been visited.
LEMMA ReturnStep ==
    ASSUME FilesFit, Shape, Sound, PhysTypeOK', ListOK', panic' = "no",
           kmem_phys_end' = kmem_phys_end, given' = given, mm' = mm, loaded' = loaded,
           NEW t \in Tasks, loader[t].pc \notin {"none", "new", "map"},
           NEW c \in {"ok", "invalid"}, NEW f \in DOMAIN Files \cup {0},
           loader' = [loader EXCEPT ![t] = LoaderAt(c, f, 0, 0, 0, 0)]
    PROVE  ElfInv'
<1>1. PICK l, k, zero : l = loader[t] /\ k = LoaderAt(c, f, 0, 0, 0, 0) /\ zero = 0
  OBVIOUS
<1>2. k = LoaderAt(c, f, zero, zero, zero, zero)
  BY <1>1
<1>3. c \in LoaderPoints /\ zero \in Nat /\ zero \in Pages \cup {0} /\ zero \in Int
  BY <1>1 DEF LoaderPoints
<1>4. k \in LoaderType /\ k.pc = c /\ k.page = zero
  <2>1. IsAt(k, c, f, zero, zero, zero, zero)
    BY ONLY <1>2, <1>3, f \in DOMAIN Files \cup {0}, LoaderParts
  <2>. QED BY <2>1 DEF IsAt
<1>5. PlaceOK(k) /\ k.pc \notin {"none", "new", "map", "read", "zero"}
  BY <1>4 DEF PlaceOK, InFile, InSegment
<1>6. Further(l, k)
  BY <1>4 DEF Further, Visited, InFile, InSegment
<1>. QED BY <1>1, <1>4, <1>5, <1>6, LoaderStep

LEMMA LoadElfStep ==
    ASSUME FilesFit, Shape, Sound, NEW t \in Tasks, load_elf(t)
    PROVE  ElfInv'
<1>1. PICK l : l = loader[t]
  OBVIOUS
<1>2. /\ l.pc = "run" /\ panic = "no" /\ UNCHANGED phys_vars
      /\ mm' = mm /\ loaded' = loaded
  BY <1>1 DEF load_elf, At, Runs
<1>3. PICK f \in DOMAIN Files :
        \/ ~Files[f].supported /\ invalid(t) /\ panic' = panic
        \/ /\ Files[f].supported
           /\ panic' = header_assert(Files[f])
           /\ IF panic' = "no"
              THEN Goto(t, [NoLoad EXCEPT !.pc = "phdr", !.file = f, !.i = 1])
              ELSE UNCHANGED loader
  BY DEF load_elf
<1>4. PhysTypeOK /\ ListOK
  BY <1>1, TaskNow
<1>5. PhysTypeOK' /\ ListOK' /\ kmem_phys_end' = kmem_phys_end /\ given' = given
  BY <1>2, <1>4, PhysStutter
<1>6. CASE Files[f].supported /\ panic' = "no"
  <2>1. PICK k, c, one, zero : /\ k = [NoLoad EXCEPT !.pc = "phdr", !.file = f, !.i = 1]
                               /\ c = "phdr" /\ one = 1 /\ zero = 0
    OBVIOUS
  <2>2. k = LoaderAt(c, f, one, zero, zero, zero)
    BY <2>1 DEF NoLoad, LoaderAt
  <2>3. /\ c \in LoaderPoints /\ zero \in Nat /\ zero \in Pages \cup {0} /\ zero \in Int
        /\ one \in Nat /\ f \in DOMAIN Files \cup {0}
    BY <2>1 DEF LoaderPoints, InFile
  <2>4. k \in LoaderType /\ k.pc = c /\ k.page = zero /\ k.file = f /\ k.i = one
    <3>1. IsAt(k, c, f, one, zero, zero, zero)
      BY ONLY <2>2, <2>3, LoaderParts
    <3>. QED BY <3>1 DEF IsAt
  <2>5. PlaceOK(k) /\ k.pc \notin {"none", "new", "map", "read", "zero"}
    BY <1>6, <2>1, <2>4 DEF PlaceOK, InFile, InSegment
  <2>6. Further(l, k)
    BY <1>2 DEF Further, Visited
  <2>7. loader' = [loader EXCEPT ![t] = k]
    BY <1>3, <1>6, <2>1 DEF Goto
  <2>. QED BY <1>1, <1>2, <1>5, <1>6, <2>1, <2>4, <2>5, <2>6, <2>7, LoaderStep
<1>7. CASE ~ Files[f].supported
  <2>1. PICK c, g : c = "invalid" /\ g = 0
    OBVIOUS
  <2>2. loader' = [loader EXCEPT ![t] = LoaderAt(c, g, 0, 0, 0, 0)]
    <3>1. [NoLoad EXCEPT !.pc = "invalid"] = LoaderAt("invalid", 0, 0, 0, 0, 0)
      BY DEF NoLoad, LoaderAt
    <3>. QED BY <1>3, <1>7, <2>1, <3>1 DEF invalid, Goto
  <2>3. c \in {"ok", "invalid"} /\ g \in DOMAIN Files \cup {0}
        /\ loader[t].pc \notin {"none", "new", "map"}
    BY <1>1, <1>2, <2>1
  <2>. QED BY <1>2, <1>3, <1>5, <1>7, <2>2, <2>3, ReturnStep
<1>8. CASE Files[f].supported /\ panic' # "no"
  <2>1. loader' = loader /\ panic' \in {"e_phentsize", "e_phnum"}
    BY <1>3, <1>8 DEF header_assert
  <2>2. Shape'
    BY <1>2, <1>5, <2>1 DEF Shape
  <2>. QED BY <1>8, <2>2 DEF ElfInv, Runs
<1>. QED BY <1>6, <1>7, <1>8

LEMMA NextPhdrStep ==
    ASSUME FilesFit, Shape, Sound, NEW t \in Tasks, next_phdr(t)
    PROVE  ElfInv'
<1>1. PICK l : l = loader[t]
  OBVIOUS
<1>2. /\ l.pc = "phdr" /\ panic' = "no" /\ UNCHANGED phys_vars
      /\ mm' = mm /\ loaded' = loaded
  BY <1>1 DEF next_phdr, At, Runs
<1>3. PhysTypeOK /\ ListOK /\ l \in LoaderType /\ PlaceOK(l) /\ l.page = 0
  BY <1>1, <1>2, TaskNow
<1>4. PhysTypeOK' /\ ListOK' /\ kmem_phys_end' = kmem_phys_end /\ given' = given
  BY <1>2, <1>3, PhysStutter
<1>5. /\ l.file \in DOMAIN Files /\ Files[l.file].supported
      /\ l.i >= 1 /\ l.i \in Nat /\ l.idx \in Nat /\ l.pos \in Int
  BY <1>2, <1>3 DEF PlaceOK, InFile, LoaderType
<1>6. \/ loader' = [loader EXCEPT ![t] = [NoLoad EXCEPT !.pc = "ok", !.file = l.file]]
      \/ invalid(t)
      \/ /\ l.i <= Len(Headers(l)) /\ Headers(l)[l.i].load /\ Headers(l)[l.i].p_memsz > 0
         /\ loader' = [loader EXCEPT ![t] = [l EXCEPT !.pc = "alloc", !.idx = 0]]
      \/ /\ l.i <= Len(Headers(l))
         /\ loader' = [loader EXCEPT ![t] = [l EXCEPT !.i = @ + 1]]
  BY <1>1 DEF next_phdr, Goto, File, phdr, Headers
<1>7. CASE loader' = [loader EXCEPT ![t] = [NoLoad EXCEPT !.pc = "ok", !.file = l.file]]
  <2>1. PICK c, g : c = "ok" /\ g = l.file
    OBVIOUS
  <2>2. loader' = [loader EXCEPT ![t] = LoaderAt(c, g, 0, 0, 0, 0)]
    <3>1. PICK k : k = [NoLoad EXCEPT !.pc = "ok", !.file = l.file]
      OBVIOUS
    <3>2. k = LoaderAt(c, g, 0, 0, 0, 0)
      BY <2>1, <3>1 DEF NoLoad, LoaderAt
    <3>. QED BY <1>7, <3>1, <3>2
  <2>3. c \in {"ok", "invalid"} /\ g \in DOMAIN Files \cup {0}
        /\ loader[t].pc \notin {"none", "new", "map"}
    BY <1>1, <1>2, <1>5, <2>1
  <2>. QED BY <1>2, <1>4, <2>2, <2>3, ReturnStep
<1>8. CASE invalid(t)
  <2>1. PICK c, g : c = "invalid" /\ g = 0
    OBVIOUS
  <2>2. loader' = [loader EXCEPT ![t] = LoaderAt(c, g, 0, 0, 0, 0)]
    <3>1. [NoLoad EXCEPT !.pc = "invalid"] = LoaderAt("invalid", 0, 0, 0, 0, 0)
      BY DEF NoLoad, LoaderAt
    <3>. QED BY <1>8, <2>1, <3>1 DEF invalid, Goto
  <2>3. c \in {"ok", "invalid"} /\ g \in DOMAIN Files \cup {0}
        /\ loader[t].pc \notin {"none", "new", "map"}
    BY <1>1, <1>2, <2>1
  <2>. QED BY <1>2, <1>4, <2>2, <2>3, ReturnStep
<1>9. CASE /\ l.i <= Len(Headers(l)) /\ Headers(l)[l.i].load /\ Headers(l)[l.i].p_memsz > 0
           /\ loader' = [loader EXCEPT ![t] = [l EXCEPT !.pc = "alloc", !.idx = 0]]
  <2>1. PICK k, c, f, i, zero, pos : /\ k = [l EXCEPT !.pc = "alloc", !.idx = 0]
                                     /\ c = "alloc" /\ f = l.file /\ i = l.i /\ zero = 0
                                     /\ pos = l.pos
    OBVIOUS
  <2>2. k = LoaderAt(c, f, i, zero, zero, pos)
    BY <1>3, <2>1 DEF LoaderType, LoaderAt
  <2>3. /\ c \in LoaderPoints /\ zero \in Nat /\ zero \in Pages \cup {0} /\ pos \in Int
        /\ i \in Nat /\ f \in DOMAIN Files \cup {0}
    BY <1>5, <2>1 DEF LoaderPoints, InFile, InSegment
  <2>4. /\ k \in LoaderType /\ k.pc = c /\ k.page = zero /\ k.file = f /\ k.i = i
        /\ k.idx = zero
    <3>1. IsAt(k, c, f, i, zero, zero, pos)
      BY ONLY <2>2, <2>3, LoaderParts
    <3>. QED BY <3>1 DEF IsAt
  <2>5. l.i \in DOMAIN Headers(l)
    BY <1>5, <1>9, FileHeaders DEF Headers
  <2>6. 0 \in 0 .. 0 /\ 0 = 0 * PageSize
    BY PageAssumption
  <2>7. Headers(k) = Headers(l)
    BY <2>1, <2>4 DEF Headers
  <2>8. \E n \in 0 .. k.idx : k.idx = n * PageSize
    BY <2>1, <2>4, <2>6
  <2>9. PlaceOK(k) /\ k.pc \notin {"none", "new", "map", "read", "zero"}
    BY <1>5, <1>9, <2>1, <2>4, <2>5, <2>7, <2>8 DEF PlaceOK, InFile, InSegment
  <2>10. Further(l, k)
    BY <1>2, <2>1, <2>4, <2>7 DEF Further, Visited, InFile, InSegment
  <2>11. loader' = [loader EXCEPT ![t] = k]
    BY <1>9, <2>1
  <2>. QED BY <1>1, <1>2, <1>4, <2>1, <2>4, <2>9, <2>10, <2>11, LoaderStep
<1>10. CASE /\ l.i <= Len(Headers(l))
            /\ loader' = [loader EXCEPT ![t] = [l EXCEPT !.i = @ + 1]]
  <2>1. PICK k, c, f, i, idx, zero, pos : /\ k = [l EXCEPT !.i = @ + 1]
                                     /\ c = "phdr" /\ f = l.file /\ i = l.i + 1 /\ zero = 0
                                     /\ pos = l.pos /\ idx = l.idx
    OBVIOUS
  <2>2. k = LoaderAt(c, f, i, idx, zero, pos)
    BY <1>2, <1>3, <2>1 DEF LoaderType, LoaderAt
  <2>3. /\ c \in LoaderPoints /\ zero \in Pages \cup {0} /\ pos \in Int /\ idx \in Nat
        /\ i \in Nat /\ f \in DOMAIN Files \cup {0}
    BY <1>5, <2>1 DEF LoaderPoints, InFile
  <2>4. /\ k \in LoaderType /\ k.pc = c /\ k.file = f /\ k.i = i /\ k.idx = idx
        /\ k.page = zero /\ k.pos = pos
    <3>1. IsAt(k, c, f, i, idx, zero, pos)
      BY ONLY <2>2, <2>3, LoaderParts
    <3>. QED BY <3>1 DEF IsAt
  <2>5. Headers(k) = Headers(l)
    BY <2>1, <2>4 DEF Headers
  <2>6. PlaceOK(k) /\ k.pc \notin {"none", "new", "map", "read", "zero"}
    BY <1>5, <2>1, <2>4 DEF PlaceOK, InFile, InSegment
  <2>7. DOMAIN Headers(l) \subseteq Nat
    BY <1>5, FileHeaders DEF Headers
  <2>8. \A j \in DOMAIN Headers(l) : j < l.i => j < k.i
    BY <1>5, <2>1, <2>4, <2>7
  <2>9. Further(l, k)
    BY <1>2, <2>1, <2>4, <2>5, <2>8 DEF Further, Visited, InFile, InSegment
  <2>10. loader' = [loader EXCEPT ![t] = k]
    BY <1>10, <2>1
  <2>. QED BY <1>1, <1>2, <1>4, <2>1, <2>4, <2>6, <2>9, <2>10, LoaderStep
<1>. QED BY <1>6, <1>7, <1>8, <1>9, <1>10

LEMMA LoadAllocStep ==
    ASSUME FilesFit, Shape, Sound, NEW t \in Tasks, load_alloc(t)
    PROVE  ElfInv'
<1>1. PICK l, S, m : l = loader[t] /\ S = loaded[t] /\ m = mm
  OBVIOUS
<1>2. l.pc = "alloc" /\ panic = "no" /\ mm' = mm
  BY <1>1 DEF load_alloc, At, Runs
<1>3. /\ TaskOK(t, l, S, m) /\ m.dir[t][TOP] # 0 /\ l \in LoaderType
      /\ S \in SUBSET Pages /\ S \subseteq given
      /\ loader \in [Tasks -> LoaderType]
      /\ IsMM(m) /\ DirsOK(m, Created) /\ KmemMapped(m, kmem_phys_end)
      /\ PhysTypeOK /\ ListOK
  BY <1>1, <1>2, TaskNow
<1>4. PICK p \in Pages :
            /\ hmem_alloc_page(p)
            /\ loaded' = [loaded EXCEPT ![t] = @ \cup {p}]
            /\ Goto(t, [loader[t] EXCEPT !.pc = "map", !.page = p])
  BY <1>1, <1>3 DEF load_alloc, can_map_hmem
<1>5. PICK k : k = [l EXCEPT !.pc = "map", !.page = p]
  OBVIOUS
<1>6. loader' = [loader EXCEPT ![t] = k] /\ loaded' = [loaded EXCEPT ![t] = S \cup {p}]
  BY <1>1, <1>4, <1>5 DEF Goto
<1>7. /\ PhysTypeOK' /\ panic' \in {"no", "hmem_phys_end"}
      /\ kmem_phys_end' = kmem_phys_end
      /\ panic' = "no" => ListOK' /\ given' = given \cup {p} /\ p \notin given
  BY <1>2, <1>3, <1>4, AllocPage
<1>8. CASE panic' = "no"
  <2>1. ListOK' /\ given' = given \cup {p} /\ p \notin given
    BY <1>7, <1>8
  <2>2. p \notin S
    BY <1>3, <2>1
  <2>3. TaskOK(t, k, S \cup {p}, m)
    BY <1>2, <1>3, <1>5, <2>2, TaskAlloc
  <2>4. PICK Q : Q = S \cup {p}
    OBVIOUS
  <2>5. /\ Q \in SUBSET Pages /\ given \subseteq given' /\ Q \subseteq given'
        /\ Q \cap given \subseteq loaded[t]
    BY <1>1, <1>3, <2>1, <2>4
  <2>6. k.pc # "none"
    BY <1>3, <1>5 DEF LoaderType
  <2>7. Created' = Created
    <3>1. /\ loader'[t] = k
          /\ \A u \in Tasks : u # t => loader'[u] = loader[u]
      BY <1>3, <1>6
    <3>. QED BY <1>1, <1>2, <2>6, <3>1 DEF Created
  <2>8. OthersSame(mm', mm, t)
    BY <1>2 DEF OthersSame, SameUser
  <2>9. /\ IsMM(mm') /\ DirsOK(mm', Created') /\ KmemMapped(mm', kmem_phys_end)
        /\ TaskOK(t, k, Q, mm') /\ loaded' = [loaded EXCEPT ![t] = Q]
    BY <1>1, <1>2, <1>3, <1>6, <2>3, <2>4, <2>7
  <2>. QED BY <1>6, <1>7, <1>8, <2>1, <2>5, <2>8, <2>9, TaskStep
<1>9. CASE panic' # "no"
  <2>1. k \in LoaderType
    BY <1>3, <1>5 DEF LoaderType, LoaderPoints, InFile, InSegment
  <2>2. loaded \in [Tasks -> SUBSET Pages]
    BY DEF Shape
  <2>3. loader' \in [Tasks -> LoaderType] /\ loaded' \in [Tasks -> SUBSET Pages]
    BY <1>3, <1>6, <2>1, <2>2
  <2>4. IsMM(mm')
    BY <1>1, <1>2, <1>3
  <2>. QED BY <1>7, <1>9, <2>3, <2>4 DEF ElfInv, Shape, Runs
<1>. QED BY <1>8, <1>9

LEMMA LoadMapStep ==
    ASSUME FilesFit, Shape, Sound, NEW t \in Tasks, load_map(t)
    PROVE  ElfInv'
<1>1. PICK l, S, m, r, C, v, p :
            /\ l = loader[t] /\ S = loaded[t] /\ m = mm /\ r = mm' /\ C = Created
            /\ v = VirtOf(l) /\ p = l.page
  OBVIOUS
<1>2. /\ l.pc = "map" /\ panic' = "no" /\ UNCHANGED phys_vars /\ loaded' = loaded
  BY <1>1 DEF load_map, At, Runs
<1>3. virt(t) = v
  BY <1>1 DEF virt, addr_start, phdr, File, VirtOf, Start, Headers
<1>4. r = map_page(m, t, v, p)
  BY <1>1, <1>3 DEF load_map, map_user_page
<1>5. PICK c \in {"read", "zero"} :
            loader' = [loader EXCEPT ![t] = [l EXCEPT !.page = 0, !.pos = 0, !.pc = c]]
  BY <1>1 DEF load_map, Goto
<1>6. PICK k : k = [l EXCEPT !.page = 0, !.pos = 0, !.pc = c]
  OBVIOUS
<1>7. /\ TaskOK(t, l, S, m) /\ l \in LoaderType /\ PlaceOK(l)
      /\ S \in SUBSET Pages /\ S \subseteq given /\ loaded' = [loaded EXCEPT ![t] = S]
      /\ C \in SUBSET Tasks /\ t \in C
      /\ loader \in [Tasks -> LoaderType]
      /\ IsMM(m) /\ DirsOK(m, C) /\ KmemMapped(m, kmem_phys_end)
      /\ kmem_phys_end \in Nat /\ kmem_phys_end <= RegionEnd
      /\ PhysTypeOK /\ ListOK
  BY <1>1, <1>2, TaskNow
<1>8. PhysTypeOK' /\ ListOK' /\ kmem_phys_end' = kmem_phys_end /\ given' = given
  BY <1>2, <1>7, PhysStutter
<1>9. v \in UserPages
  BY <1>1, <1>2, <1>7, VirtUser DEF InSegment
<1>10. p \in Nat
  BY <1>1, <1>7 DEF LoaderType, Pages
<1>11. PICK end : end = kmem_phys_end
  OBVIOUS
<1>12. /\ IsMM(r) /\ DirsOK(r, C) /\ KmemMapped(r, end) /\ PhysIn(r, t, v) = p
       /\ SameElsewhere(r, m, t, v) /\ SameTop(r, m)
  BY <1>4, <1>7, <1>9, <1>10, <1>11, MapUser
<1>13. t \in Directories /\ Tasks \subseteq Directories
  BY DEF Directories
<1>14. SameBut(r, m, t, v) /\ r.dir[t][TOP] = m.dir[t][TOP]
  BY <1>12, <1>13 DEF SameElsewhere, SameTop, SameBut
<1>15. TaskOK(t, k, S, r)
  BY <1>1, <1>2, <1>6, <1>7, <1>12, <1>14, TaskMap
<1>16. OthersSame(r, m, t)
  BY <1>12, <1>13 DEF OthersSame, SameElsewhere, SameTop, SameUser
<1>17. Created' = C
  <2>1. k.pc # "none"
    BY <1>6, <1>7 DEF LoaderType
  <2>2. /\ loader'[t] = k
        /\ \A u \in Tasks : u # t => loader'[u] = loader[u]
    BY <1>5, <1>6, <1>7
  <2>. QED BY <1>1, <1>2, <2>1, <2>2 DEF Created
<1>18. /\ loader' = [loader EXCEPT ![t] = k] /\ S \cap given \subseteq loaded[t]
       /\ given \subseteq given' /\ S \subseteq given'
  BY <1>1, <1>5, <1>6, <1>7, <1>8
<1>19. IsMM(mm') /\ DirsOK(mm', Created') /\ KmemMapped(mm', kmem_phys_end)
       /\ OthersSame(mm', mm, t) /\ TaskOK(t, k, S, mm')
  BY <1>1, <1>11, <1>12, <1>15, <1>16, <1>17
<1>. QED BY <1>2, <1>7, <1>8, <1>18, <1>19, TaskStep

----------------------------------------------------------------------------
\* The page that load_read and load_zero write to is one of the task.
LEMMA WriteTarget ==
    ASSUME FilesFit, Shape, Sound, NEW t \in Tasks, loader[t].pc \in {"read", "zero"}
    PROVE  Translate(t, virt(t)) \in given /\ Translate(t, virt(t)) \in Pages
           /\ PhysIn(mm, t, VirtOf(loader[t])) # 0
<1>1. PICK l, m, S : l = loader[t] /\ m = mm /\ S = loaded[t]
  OBVIOUS
<1>2. /\ TaskOK(t, l, S, m) /\ l \in LoaderType /\ PlaceOK(l)
      /\ S \in SUBSET Pages /\ S \subseteq given
  BY <1>1, TaskNow
<1>3. VirtOf(l) \in UserPages
  BY <1>1, <1>2, VirtUser DEF InSegment
<1>4. /\ PhysIn(m, t, VirtOf(l)) # 0
      /\ S = ({PhysIn(m, t, v) : v \in UserPages} \cup {l.page}) \ {0}
  BY <1>1, <1>2 DEF TaskOK
<1>5. PhysIn(m, t, VirtOf(l)) \in S
  BY <1>3, <1>4
<1>6. virt(t) = VirtOf(l)
  BY <1>1 DEF virt, addr_start, phdr, File, VirtOf, Start, Headers
<1>7. Translate(t, virt(t)) = PhysIn(m, t, VirtOf(l))
  BY <1>1, <1>6 DEF Translate, PhysIn
<1>. QED BY <1>1, <1>2, <1>4, <1>5, <1>7

LEMMA WriteWords ==
    ASSUME PhysTypeOK, ListOK, NEW q \in given, q \in Pages, NEW f \in [Cells -> Nat],
           ram' = [ram EXCEPT ![q] = f],
           UNCHANGED <<kmem_phys_end, hmem_phys_end, hmem_phys_list, given, stray>>
    PROVE  PhysTypeOK' /\ ListOK'
<1>1. ram \in [Pages -> [Cells -> Nat]]
  BY DEF PhysTypeOK
<1>2. ram' \in [Pages -> [Cells -> Nat]] /\ \A x \in Pages : x # q => ram'[x] = ram[x]
  BY <1>1
<1>. QED BY <1>2, WritePage

LEMMA LoadReadStep ==
    ASSUME FilesFit, Shape, Sound, NEW t \in Tasks, load_read(t)
    PROVE  ElfInv'
<1>1. PICK l, m : l = loader[t] /\ m = mm
  OBVIOUS
<1>2. /\ l.pc = "read" /\ panic' = "no" /\ loaded' = loaded /\ mm' = mm
      /\ UNCHANGED <<kmem_phys_end, hmem_phys_end, hmem_phys_list, given, stray>>
  BY <1>1 DEF load_read, At, Runs
<1>3. PICK off, n :
        /\ off = phdr(t).p_offset + l.idx
        /\ n = tar_read(File(t).len, read_cnt(t) - l.pos, off + l.pos)
  OBVIOUS
<1>4. \/ n = 0 /\ invalid(t) /\ UNCHANGED ram
      \/ /\ n > 0
         /\ ram' = Written(t, l.pos, n, LAMBDA w : Data(off + w))
         /\ Goto(t, [l EXCEPT !.pos = @ + n,
                            !.pc = IF l.pos + n < read_cnt(t) THEN "read"
                                   ELSE "zero"])
  BY <1>1, <1>3 DEF load_read
<1>5. PhysTypeOK /\ ListOK /\ l \in LoaderType /\ PlaceOK(l) /\ l.page = 0
  BY <1>1, <1>2, TaskNow
<1>6. /\ l.file \in DOMAIN Files /\ Files[l.file].supported
      /\ l.i \in DOMAIN Headers(l) /\ HeaderOK(Headers(l)[l.i])
  BY <1>2, <1>5, VirtUser DEF InSegment
<1>7. Files[l.file].len \in Nat
  BY <1>6, FileHeaders
<1>8. phdr(t) = Headers(l)[l.i] /\ File(t) = Files[l.file]
  BY <1>1 DEF phdr, File, Headers
<1>9. /\ phdr(t).p_offset \in Nat /\ phdr(t).p_filesz \in Nat /\ File(t).len \in Nat
      /\ l.idx \in Nat /\ l.pos \in Int /\ l.i \in Nat
  BY <1>5, <1>6, <1>7, <1>8 DEF HeaderOK, LoaderType
<1>10. off \in Nat /\ read_cnt(t) \in Int /\ n \in Int
  <2>1. off \in Nat
    BY <1>3, <1>9
  <2>2. read_cnt(t) \in Int
    BY <1>1, <1>9, PageAssumption DEF read_cnt, Left
  <2>. QED BY <1>3, <1>9, <2>1, <2>2 DEF tar_read
<1>11. CASE n = 0 /\ invalid(t) /\ UNCHANGED ram
  <2>1. PICK c, g : c = "invalid" /\ g = 0
    OBVIOUS
  <2>2. loader' = [loader EXCEPT ![t] = LoaderAt(c, g, 0, 0, 0, 0)]
    <3>1. [NoLoad EXCEPT !.pc = "invalid"] = LoaderAt("invalid", 0, 0, 0, 0, 0)
      BY DEF NoLoad, LoaderAt
    <3>. QED BY <1>11, <2>1, <3>1 DEF invalid, Goto
  <2>3. c \in {"ok", "invalid"} /\ g \in DOMAIN Files \cup {0}
        /\ loader[t].pc \notin {"none", "new", "map"}
    BY <1>1, <1>2, <2>1
  <2>4. UNCHANGED phys_vars
    BY <1>2, <1>11 DEF phys_vars
  <2>5. PhysTypeOK' /\ ListOK' /\ kmem_phys_end' = kmem_phys_end /\ given' = given
    BY <1>5, <2>4, PhysStutter
  <2>. QED BY <1>2, <2>2, <2>3, <2>5, ReturnStep
<1>12. CASE /\ ram' = Written(t, l.pos, n, LAMBDA w : Data(off + w))
            /\ Goto(t, [l EXCEPT !.pos = @ + n,
                            !.pc = IF l.pos + n < read_cnt(t) THEN "read"
                                   ELSE "zero"])
  <2>1. PICK c \in {"read", "zero"} :
            loader' = [loader EXCEPT ![t] = [l EXCEPT !.pos = @ + n, !.pc = c]]
    BY <1>12 DEF Goto
  <2>2. PICK k, f, i, idx, zero, pos :
            /\ k = [l EXCEPT !.pos = @ + n, !.pc = c] /\ f = l.file /\ i = l.i
            /\ idx = l.idx /\ zero = 0 /\ pos = l.pos + n
    OBVIOUS
  <2>3. k = LoaderAt(c, f, i, idx, zero, pos)
    BY <1>5, <2>2 DEF LoaderType, LoaderAt
  <2>4. /\ c \in LoaderPoints /\ f \in DOMAIN Files \cup {0} /\ i \in Nat /\ idx \in Nat
        /\ zero \in Pages \cup {0} /\ pos \in Int
    BY <1>6, <1>9, <1>10, <2>2 DEF LoaderPoints, InFile, InSegment
  <2>5. IsAt(k, c, f, i, idx, zero, pos)
    BY ONLY <2>3, <2>4, LoaderParts
  <2>6. /\ k \in LoaderType /\ k.pc = c /\ k.file = l.file /\ k.i = l.i
        /\ k.idx = l.idx /\ k.page = 0
    BY <2>2, <2>5 DEF IsAt
  <2>7. Headers(k) = Headers(l) /\ Start(k) = Start(l) /\ VirtOf(k) = VirtOf(l)
    BY <2>6 DEF Headers, Start, VirtOf
  <2>8. PlaceOK(k)
    BY <1>2, <1>5, <2>6, <2>7 DEF PlaceOK, InFile, InSegment
  <2>9. Further(l, k)
    BY <1>2, <2>6, <2>7 DEF Further, Visited, InFile, InSegment
  <2>10. PICK q : q = Translate(t, virt(t))
    OBVIOUS
  <2>11. q \in given /\ q \in Pages /\ PhysIn(mm, t, VirtOf(l)) # 0
    BY <1>1, <1>2, <2>10, WriteTarget
  <2>12. PICK g : g = [w \in Cells |-> IF w \in l.pos .. l.pos + n - 1
                                       THEN Data(off + w) ELSE ram[q][w]]
    OBVIOUS
  <2>13. ram \in [Pages -> [Cells -> Nat]]
    BY <1>5 DEF PhysTypeOK
  <2>14. ram' = [ram EXCEPT ![q] = g]
    BY <1>12, <2>10, <2>11, <2>12, <2>13 DEF Written
  <2>15. g \in [Cells -> Nat]
    <3>1. \A w \in Cells : ram[q][w] \in Nat
      BY <2>11, <2>13
    <3>2. \A w \in Cells : Data(off + w) \in Nat
      BY <1>10, RamAssumption, PageAssumption DEF Data, Cells
    <3>. QED BY <2>12, <3>1, <3>2
  <2>16. PhysTypeOK' /\ ListOK'
    BY <1>2, <1>5, <2>11, <2>14, <2>15, WriteWords
  <2>17. loader' = [loader EXCEPT ![t] = k]
    BY <2>1, <2>2
  <2>18. l.pc \notin {"none", "new", "map"} /\ k.pc \notin {"none", "new", "map"}
    BY <1>2, <2>6
  <2>19. kmem_phys_end' = kmem_phys_end /\ given' = given
    BY <1>2
  <2>. QED BY <1>1, <1>2, <2>6, <2>7, <2>8, <2>9, <2>11, <2>16, <2>17, <2>18, <2>19, LoaderStep
<1>. QED BY <1>4, <1>11, <1>12

LEMMA LoadZeroStep ==
    ASSUME FilesFit, Shape, Sound, NEW t \in Tasks, load_zero(t)
    PROVE  ElfInv'
<1>1. PICK l, h, at, next :
            /\ l = loader[t] /\ h = Headers(l)[l.i] /\ at = memset_at(t)
            /\ next = l.idx + PageSize
  OBVIOUS
<1>2. /\ l.pc = "zero" /\ panic' = "no" /\ loaded' = loaded /\ mm' = mm
      /\ UNCHANGED <<kmem_phys_end, hmem_phys_end, hmem_phys_list, given, stray>>
      /\ ram' = Written(t, at, PageSize - at, LAMBDA w : 0)
  BY <1>1 DEF load_zero, At, Runs
<1>3. phdr(t) = h
  BY <1>1 DEF phdr, File, Headers
<1>4. \/ /\ next < h.p_memsz
         /\ loader' = [loader EXCEPT ![t] = [l EXCEPT !.pc = "alloc", !.idx = next,
                                                      !.pos = 0]]
      \/ loader' = [loader EXCEPT ![t] = [NoLoad EXCEPT !.pc = "phdr", !.file = l.file,
                                                        !.i = l.i + 1]]
  BY <1>1, <1>3 DEF load_zero, Goto
<1>5. PhysTypeOK /\ ListOK /\ l \in LoaderType /\ PlaceOK(l) /\ l.page = 0
  BY <1>1, <1>2, TaskNow
<1>6. /\ l.file \in DOMAIN Files /\ Files[l.file].supported
      /\ l.i \in DOMAIN Headers(l) /\ HeaderOK(h)
      /\ \E n \in 0 .. l.idx : l.idx = n * PageSize
  BY <1>1, <1>2, <1>5, VirtUser DEF InSegment
<1>7. /\ l.idx \in Nat /\ l.i \in Nat /\ PageSize \in Nat /\ PageSize > 0
      /\ h.p_memsz \in Nat /\ l.idx < h.p_memsz /\ h.load
      /\ h.p_vaddr \in Nat /\ h.p_filesz \in Nat
      /\ l.i >= 1
  <2>1. l.idx \in Nat /\ l.i \in Nat
    BY <1>5 DEF LoaderType
  <2>2. h.p_memsz \in Nat /\ h.p_vaddr \in Nat /\ h.p_filesz \in Nat
    BY <1>6 DEF HeaderOK
  <2>3. l.idx < h.p_memsz /\ h.load /\ l.i >= 1
    BY <1>1, <1>2, <1>5 DEF PlaceOK, InFile, InSegment
  <2>. QED BY <2>1, <2>2, <2>3, PageAssumption
<1>8. PhysTypeOK' /\ ListOK'
  <2>1. PICK q : q = Translate(t, virt(t))
    OBVIOUS
  <2>2. q \in given /\ q \in Pages
    BY <1>1, <1>2, <2>1, WriteTarget
  <2>3. PICK g : g = [w \in Cells |-> IF w \in at .. at + (PageSize - at) - 1
                                       THEN 0 ELSE ram[q][w]]
    OBVIOUS
  <2>4. ram \in [Pages -> [Cells -> Nat]]
    BY <1>5 DEF PhysTypeOK
  <2>5. ram' = [ram EXCEPT ![q] = g]
    BY <1>2, <2>1, <2>2, <2>3, <2>4 DEF Written
  <2>6. g \in [Cells -> Nat]
    <3>1. \A w \in Cells : ram[q][w] \in Nat
      BY <2>2, <2>4
    <3>. QED BY <2>3, <3>1
  <2>. QED BY <1>2, <1>5, <2>2, <2>5, <2>6, WriteWords
<1>9. kmem_phys_end' = kmem_phys_end /\ given' = given
  BY <1>2
<1>10. \A v \in UserPages : Visited(l, v) =>
            \/ \E j \in DOMAIN Headers(l) : j < l.i /\ v \in SegmentPages(Headers(l)[j])
            \/ \E n \in 0 .. l.idx : v = Start(l) + n /\ n * PageSize <= l.idx
  <2>1. \A n \in 0 .. l.idx :
            n * PageSize < l.idx \/ n * PageSize = l.idx => n * PageSize <= l.idx
    BY <1>7
  <2>. QED BY <1>2, <2>1 DEF Visited, InFile, InSegment
<1>11. CASE /\ next < h.p_memsz
            /\ loader' = [loader EXCEPT ![t] = [l EXCEPT !.pc = "alloc", !.idx = next,
                                                      !.pos = 0]]
  <2>1. PICK k, c, f, i, zero : /\ k = [l EXCEPT !.pc = "alloc", !.idx = next, !.pos = 0]
                                /\ c = "alloc" /\ f = l.file /\ i = l.i /\ zero = 0
    OBVIOUS
  <2>2. k = LoaderAt(c, f, i, next, zero, zero)
    BY <1>5, <2>1 DEF LoaderType, LoaderAt
  <2>3. /\ c \in LoaderPoints /\ f \in DOMAIN Files \cup {0} /\ i \in Nat /\ next \in Nat
        /\ zero \in Pages \cup {0} /\ zero \in Int
    BY <1>1, <1>6, <1>7, <2>1 DEF LoaderPoints, InFile, InSegment
  <2>4. IsAt(k, c, f, i, next, zero, zero)
    BY ONLY <2>2, <2>3, LoaderParts
  <2>5. /\ k \in LoaderType /\ k.pc = "alloc" /\ k.file = l.file /\ k.i = l.i
        /\ k.idx = next /\ k.page = 0
    BY <2>1, <2>4 DEF IsAt
  <2>6. Headers(k) = Headers(l) /\ Start(k) = Start(l)
    BY <2>5 DEF Headers, Start
  <2>7. \E n \in 0 .. k.idx : k.idx = n * PageSize
    <3>1. PICK n \in 0 .. l.idx : l.idx = n * PageSize
      BY <1>6
    <3>2. (n + 1) * PageSize = n * PageSize + PageSize
      BY <1>7
    <3>3. n + 1 \in 0 .. next /\ next = (n + 1) * PageSize
      BY <1>1, <1>7, <3>1, <3>2
    <3>. QED BY <2>5, <3>3
  <2>8. k.idx < h.p_memsz
    BY <1>11, <2>5
  <2>9. PlaceOK(k) /\ k.pc \notin {"none", "new", "map", "read", "zero"}
    BY <1>1, <1>6, <1>7, <2>5, <2>6, <2>7, <2>8 DEF PlaceOK, InFile, InSegment
  <2>10. \A n \in 0 .. l.idx : n \in 0 .. k.idx
    BY <1>1, <1>7, <2>5
  <2>11. \A n \in 0 .. l.idx : n * PageSize <= l.idx => n * PageSize < k.idx
    <3>1. \A x \in Nat : x <= l.idx => x < k.idx
      BY <1>1, <1>7, <2>5
    <3>2. \A n \in 0 .. l.idx : n * PageSize \in Nat
      BY <1>7
    <3>. QED BY <3>1, <3>2
  <2>12. Further(l, k)
    <3>1. ASSUME NEW v \in UserPages, Visited(l, v) PROVE Visited(k, v)
      <4>1. k.pc \notin {"none", "new", "run"} /\ k.pc \in InSegment /\ k.pc \in InFile
        BY <2>5 DEF InFile, InSegment
      <4>2. \/ \E j \in DOMAIN Headers(l) : j < l.i /\ v \in SegmentPages(Headers(l)[j])
            \/ \E n \in 0 .. l.idx : v = Start(l) + n /\ n * PageSize <= l.idx
        BY <1>10, <3>1
      <4>. QED BY <2>5, <2>6, <2>10, <2>11, <4>1, <4>2 DEF Visited
    <3>. QED BY <3>1 DEF Further
  <2>13. loader' = [loader EXCEPT ![t] = k]
    BY <1>11, <2>1
  <2>14. l.pc \notin {"none", "new", "map"}
    BY <1>2
  <2>. QED BY <1>1, <1>2, <1>8, <1>9, <2>5, <2>9, <2>12, <2>13, <2>14, LoaderStep
<1>12. CASE loader' = [loader EXCEPT ![t] = [NoLoad EXCEPT !.pc = "phdr", !.file = l.file,
                                                        !.i = l.i + 1]]
  <2>1. PICK k, c, f, i, zero :
            /\ k = [NoLoad EXCEPT !.pc = "phdr", !.file = l.file, !.i = l.i + 1]
            /\ c = "phdr" /\ f = l.file /\ i = l.i + 1 /\ zero = 0
    OBVIOUS
  <2>2. k = LoaderAt(c, f, i, zero, zero, zero)
    BY <2>1 DEF NoLoad, LoaderAt
  <2>3. /\ c \in LoaderPoints /\ f \in DOMAIN Files \cup {0} /\ i \in Nat /\ zero \in Nat
        /\ zero \in Pages \cup {0} /\ zero \in Int
    BY <1>6, <1>7, <2>1 DEF LoaderPoints, InFile
  <2>4. IsAt(k, c, f, i, zero, zero, zero)
    BY ONLY <2>2, <2>3, LoaderParts
  <2>5. /\ k \in LoaderType /\ k.pc = "phdr" /\ k.file = l.file /\ k.i = l.i + 1
        /\ k.page = 0
    BY <2>1, <2>4 DEF IsAt
  <2>6. Headers(k) = Headers(l)
    BY <2>5 DEF Headers
  <2>7. PlaceOK(k) /\ k.pc \notin {"none", "new", "map", "read", "zero"}
    BY <1>6, <1>7, <2>5 DEF PlaceOK, InFile, InSegment
  <2>8. l.i < k.i /\ \A j \in DOMAIN Headers(l) : j < l.i => j < k.i
    <3>1. DOMAIN Headers(l) \subseteq Nat
      BY <1>6, FileHeaders DEF Headers
    <3>. QED BY <1>7, <2>5, <3>1
  <2>9. ASSUME NEW n \in 0 .. l.idx, n * PageSize <= l.idx
        PROVE  Start(l) + n \in SegmentPages(h)
    <3>1. n * PageSize \in Nat
      BY <1>7
    <3>2. n \in 0 .. h.p_memsz /\ n * PageSize < h.p_memsz
      BY <1>7, <2>9, <3>1
    <3>. QED BY <1>1, <1>7, <3>2 DEF SegmentPages, PageNumbers, Start
  <2>10. Further(l, k)
    <3>1. ASSUME NEW v \in UserPages, Visited(l, v) PROVE Visited(k, v)
      <4>1. k.pc \notin {"none", "new", "run"}
        BY <2>5
      <4>2. \/ \E j \in DOMAIN Headers(l) : j < l.i /\ v \in SegmentPages(Headers(l)[j])
            \/ \E n \in 0 .. l.idx : v = Start(l) + n /\ n * PageSize <= l.idx
        BY <1>10, <3>1
      <4>3. \E j \in DOMAIN Headers(k) : j < k.i /\ v \in SegmentPages(Headers(k)[j])
        BY <1>1, <1>6, <2>6, <2>8, <2>9, <4>2
      <4>. QED BY <4>1, <4>3 DEF Visited
    <3>. QED BY <3>1 DEF Further
  <2>11. loader' = [loader EXCEPT ![t] = k]
    BY <1>12, <2>1
  <2>12. l.pc \notin {"none", "new", "map"}
    BY <1>2
  <2>. QED BY <1>1, <1>2, <1>8, <1>9, <2>5, <2>7, <2>10, <2>11, <2>12, LoaderStep
<1>. QED BY <1>4, <1>11, <1>12

----------------------------------------------------------------------------
\* The user pages of all tasks stay.
AllSame(r, m) ==
    \A t \in Tasks : SameUser(r, m, t) /\ r.dir[t][TOP] = m.dir[t][TOP]

\* What steps of other users of memory have in common.
LEMMA OtherStep ==
    ASSUME FilesFit, Shape, Sound, PhysTypeOK', ListOK', panic' = "no",
           KmemStart <= kmem_phys_end', kmem_phys_end' <= RegionEnd,
           IsMM(mm'), DirsOK(mm', Created), KmemMapped(mm', kmem_phys_end'),
           AllSame(mm', mm), loader' = loader, loaded' = loaded,
           \A t \in Tasks : loaded[t] \subseteq given'
    PROVE  ElfInv'
<1>1. Shape'
  BY DEF Shape
<1>2. Created' = Created
  BY DEF Created
<1>3. ASSUME NEW u \in Tasks PROVE TaskOK(u, loader'[u], loaded'[u], mm')
  <2>1. PICK l, L, r, m : l = loader[u] /\ L = loaded[u] /\ r = mm' /\ m = mm
    OBVIOUS
  <2>2. TaskOK(u, l, L, m)
    BY <2>1 DEF Sound
  <2>3. SameUser(r, m, u) /\ r.dir[u][TOP] = m.dir[u][TOP]
    BY <2>1 DEF AllSame
  <2>4. TaskOK(u, l, L, r)
    BY <2>2, <2>3, TaskSame
  <2>. QED BY <2>1, <2>4
<1>4. LoadsApart'
  BY DEF Sound, LoadsApart
<1>. QED BY <1>1, <1>2, <1>3, <1>4 DEF ElfInv, Sound

LEMMA KmemGrowsStep ==
    ASSUME FilesFit, Shape, Sound, kmem_grows
    PROVE  ElfInv'
<1>1. PICK m, r, end, C : m = mm /\ r = mm' /\ end = kmem_phys_end /\ C = Created
  OBVIOUS
<1>2. /\ kmem_phys_end' = end + BuddyPages
      /\ panic' = IF end + BuddyPages < RegionEnd THEN "no" ELSE "kmem_region_end"
      /\ UNCHANGED <<hmem_phys_end, hmem_phys_list, ram, given, stray, loader, loaded>>
      /\ r = map_kmem(m, end, end + BuddyPages - 1)
  BY <1>1 DEF kmem_grows, grow_kmem, kmem_buddy_new
<1>3. /\ end \in Nat /\ KmemStart <= end /\ end <= RegionEnd
      /\ DirsOK(m, C) /\ KmemMapped(m, end) /\ IsMM(m) /\ ListOK /\ PhysTypeOK
  BY <1>1 DEF Shape, Sound, PhysTypeOK
<1>4. /\ BuddyPages \in Nat \ {0} /\ RegionEnd \in Nat /\ KmemStart \in Nat \ {0}
      /\ end \in Nat \ {0} /\ end + BuddyPages - 1 \in Nat
      /\ end <= end + BuddyPages - 1 + 1 /\ end + BuddyPages \in Nat
      /\ end + BuddyPages - 1 <= RegionEnd + BuddyPages
  BY <1>3, BuddyAssumption, RamAssumption
<1>5. PhysTypeOK'
  BY <1>2, <1>3, <1>4 DEF PhysTypeOK
<1>6. IsMM(mm')
  BY <1>1, <1>2, <1>3, <1>4, MapKmemTyped
<1>7. CASE end + BuddyPages < RegionEnd
  <2>1. PICK to : to = end + BuddyPages - 1
    OBVIOUS
  <2>2. to \in Nat /\ end <= to + 1 /\ to <= RegionEnd - 1 /\ to + 1 = end + BuddyPages
    BY <1>4, <1>7, <2>1
  <2>3. KmemDirs(m)
    BY <1>3, KmemOwn
  <2>4. r = map_kmem(m, end, to)
    BY <1>2, <2>1
  <2>5. KmemTo(map_kmem(m, end, to), m, to)
    BY <1>3, <1>4, <2>2, <2>3, MapKmem
  <2>6. /\ r.dir = m.dir /\ KmemMapped(r, to + 1)
        /\ \A d \in Directories : \A v \in UserPages : PhysIn(r, d, v) = PhysIn(m, d, v)
    BY <2>4, <2>5 DEF KmemTo
  <2>7. DirsOK(r, C)
    BY <1>3, <2>6, DirsSame
  <2>8. AllSame(r, m)
    BY <2>6 DEF AllSame, SameUser, Directories
  <2>9. FreePages' = FreePages /\ NextFree' = NextFree
    BY <1>2 DEF FreePages, NextFree, word
  <2>10. ListOK'
    BY <1>2, <1>3, <2>9 DEF ListOK
  <2>11. KmemStart <= kmem_phys_end' /\ kmem_phys_end' <= RegionEnd
    BY <1>2, <1>3, <1>4, <1>7
  <2>12. DirsOK(mm', Created) /\ KmemMapped(mm', kmem_phys_end') /\ AllSame(mm', mm)
    BY <1>1, <1>2, <2>2, <2>6, <2>7, <2>8
  <2>13. \A t \in Tasks : loaded[t] \subseteq given'
    BY <1>2 DEF Sound, LoadsApart
  <2>14. panic' = "no" /\ loader' = loader /\ loaded' = loaded
    BY <1>2, <1>7
  <2>. QED BY <1>5, <1>6, <2>10, <2>11, <2>12, <2>13, <2>14, OtherStep
<1>8. CASE ~ (end + BuddyPages < RegionEnd)
  <2>1. panic' = "kmem_region_end"
    BY <1>2, <1>8
  <2>. QED BY <1>2, <1>5, <1>6, <2>1 DEF ElfInv, Shape, Runs
<1>. QED BY <1>7, <1>8

LEMMA SameMemory ==
    ASSUME Shape, Sound, mm' = mm
    PROVE  IsMM(mm') /\ DirsOK(mm', Created) /\ KmemMapped(mm', kmem_phys_end)
           /\ AllSame(mm', mm)
  BY DEF Shape, Sound, AllSame, SameUser

LEMMA OtherAllocStep ==
    ASSUME FilesFit, Shape, Sound, other_alloc
    PROVE  ElfInv'
<1>1. PICK p \in Pages : hmem_alloc_page(p)
  BY DEF other_alloc, Runs
<1>2. panic = "no" /\ mm' = mm /\ loader' = loader /\ loaded' = loaded
  BY DEF other_alloc, Runs
<1>3. PhysTypeOK /\ ListOK
  BY DEF Shape, Sound
<1>4. /\ PhysTypeOK' /\ panic' \in {"no", "hmem_phys_end"}
      /\ kmem_phys_end' = kmem_phys_end
      /\ panic' = "no" => ListOK' /\ given' = given \cup {p} /\ p \notin given
  BY <1>1, <1>2, <1>3, AllocPage
<1>5. IsMM(mm') /\ DirsOK(mm', Created) /\ KmemMapped(mm', kmem_phys_end)
      /\ AllSame(mm', mm)
  BY <1>2, SameMemory
<1>6. CASE panic' = "no"
  <2>1. \A t \in Tasks : loaded[t] \subseteq given'
    BY <1>4, <1>6 DEF Sound, LoadsApart
  <2>2. /\ KmemStart <= kmem_phys_end' /\ kmem_phys_end' <= RegionEnd
        /\ KmemMapped(mm', kmem_phys_end') /\ ListOK'
    BY <1>4, <1>5, <1>6 DEF Sound
  <2>. QED BY <1>2, <1>4, <1>5, <1>6, <2>1, <2>2, OtherStep
<1>7. CASE panic' # "no"
  BY <1>2, <1>4, <1>5, <1>7 DEF ElfInv, Shape, Runs
<1>. QED BY <1>6, <1>7

LEMMA OtherFreeStep ==
    ASSUME FilesFit, Shape, Sound, other_free
    PROVE  ElfInv'
<1>0. PICK p \in Others : \E w \in {0, word(p)} \cup Words : hmem_free_page(p, w)
  BY DEF other_free
<1>1. PICK w \in {0, word(p)} \cup Words : hmem_free_page(p, w)
  BY <1>0
<1>2. panic = "no" /\ mm' = mm /\ loader' = loader /\ loaded' = loaded
  BY DEF other_free, Runs
<1>3. PhysTypeOK /\ ListOK
  BY DEF Shape, Sound
<1>4. p \in given /\ \A t \in Tasks : p \notin loaded[t]
  BY DEF Others
<1>5. w \in Nat
  <2>1. p \in Pages /\ ram \in [Pages -> [Cells -> Nat]] /\ 0 \in Cells
    BY <1>3, <1>4, PageAssumption DEF PhysTypeOK, Cells
  <2>2. word(p) \in Nat
    BY <2>1 DEF word
  <2>. QED BY <2>2, WordsAssumption DEF Pages
<1>6. /\ PhysTypeOK' /\ (~stray' => ListOK')
      /\ kmem_phys_end' = kmem_phys_end /\ given' = given \ {p} /\ panic' = panic
  BY <1>1, <1>3, <1>4, <1>5, FreePage
<1>7. IsMM(mm') /\ DirsOK(mm', Created) /\ KmemMapped(mm', kmem_phys_end)
      /\ AllSame(mm', mm)
  BY <1>2, SameMemory
<1>8. \A t \in Tasks : loaded[t] \subseteq given'
  BY <1>4, <1>6 DEF Sound, LoadsApart
<1>9. /\ KmemStart <= kmem_phys_end' /\ kmem_phys_end' <= RegionEnd
      /\ KmemMapped(mm', kmem_phys_end') /\ panic' = "no"
  BY <1>2, <1>6, <1>7 DEF Sound
<1>10. CASE ~stray'
  BY <1>2, <1>6, <1>7, <1>8, <1>9, <1>10, OtherStep
<1>11. CASE stray'
  BY <1>2, <1>6, <1>7, <1>11 DEF ElfInv, Shape, Runs
<1>. QED BY <1>10, <1>11

LEMMA ElfStutter ==
    ASSUME ElfInv, UNCHANGED vars
    PROVE  ElfInv'
<1>1. FreePages' = FreePages /\ NextFree' = NextFree /\ Created' = Created
  BY DEF vars, phys_vars, FreePages, NextFree, word, Created
<1>2. PhysTypeOK' <=> PhysTypeOK
  BY DEF vars, phys_vars, PhysTypeOK
<1>3. Shape'
  BY <1>2 DEF vars, ElfInv, Shape
<1>4. ListOK' <=> ListOK
  BY <1>1 DEF vars, phys_vars, ListOK
<1>5. LoadsApart' <=> LoadsApart
  BY DEF vars, phys_vars, LoadsApart
<1>6. Runs' => Sound'
  BY <1>1, <1>4, <1>5 DEF vars, phys_vars, ElfInv, Sound, Runs
<1>. QED BY <1>3, <1>6 DEF ElfInv

----------------------------------------------------------------------------
\* The first page tables.
LEMMA FirstTables ==
    ASSUME NEW m,
           m = [dir |-> [d \in Directories |->
                            IF d = first_page_directory
                            THEN [i \in 0 .. TOP |->
                                    IF i \in kmem_tables THEN i - UserTables + 1 ELSE 0]
                            ELSE None],
                tab |-> [k \in 1 .. Cardinality(kmem_tables) |-> Empty],
                n   |-> Cardinality(kmem_tables)]
    PROVE  IsMM(m) /\ DirsOK(m, {}) /\ KmemMapped(m, 1)
<1>1. PICK d, e : d = first_page_directory /\ e = dir_index(KernelBase + RegionEnd - 1)
  OBVIOUS
<1>2. UserTables \in Nat /\ TOP \in Nat /\ kmem_tables = UserTables .. e
  BY <1>1, Regions DEF kmem_tables
<1>3. e \in Nat /\ UserTables <= e /\ kmem_tables \subseteq 0 .. TOP
  <2>1. RegionEnd - 1 \in 0 .. RegionEnd - 1 /\ RegionEnd - 1 \in 0 .. RegionEnd + BuddyPages
        /\ KernelBase + (RegionEnd - 1) = KernelBase + RegionEnd - 1
    BY Regions, BuddyAssumption, RamAssumption
  <2>2. e \in kmem_tables
    BY <1>1, <2>1, Regions
  <2>3. kmem_tables \subseteq UserTables .. TOP - 1
    BY Regions
  <2>. QED BY <1>2, <2>2, <2>3
<1>4. PICK N : N = Cardinality(kmem_tables)
  OBVIOUS
<1>5. N = e - UserTables + 1 /\ N \in Nat
  BY <1>2, <1>3, <1>4, FS_Interval
<1>6. /\ m.n = N /\ m.tab = [k \in 1 .. N |-> Empty]
      /\ m.dir = [c \in Directories |->
                    IF c = d THEN [i \in 0 .. TOP |->
                                    IF i \in kmem_tables THEN i - UserTables + 1 ELSE 0]
                    ELSE None]
      /\ m = [dir |-> m.dir, tab |-> m.tab, n |-> m.n]
  BY <1>1, <1>4
<1>7. d \in Directories /\ d \notin Tasks /\ Tasks \subseteq Directories
  BY <1>1, DirectoryAssumption DEF Directories
<1>8. \A i \in 0 .. TOP : m.dir[d][i] = IF i \in kmem_tables THEN i - UserTables + 1 ELSE 0
  <2>1. m.dir[d] = [i \in 0 .. TOP |->
                        IF i \in kmem_tables THEN i - UserTables + 1 ELSE 0]
    BY <1>6, <1>7
  <2>. QED BY ONLY <2>1
<1>9. \A c \in Directories : c # d => \A i \in 0 .. TOP : m.dir[c][i] = 0
  BY <1>6 DEF None
<1>10. \A i \in kmem_tables : i - UserTables + 1 \in 1 .. N
  BY <1>2, <1>3, <1>5
<1>11. m.dir \in [Directories -> [0 .. TOP -> 0 .. N]]
  <2>1. ASSUME NEW c \in Directories PROVE m.dir[c] \in [0 .. TOP -> 0 .. N]
    <3>1. CASE c = d
      <4>1. m.dir[d] = [i \in 0 .. TOP |->
                            IF i \in kmem_tables THEN i - UserTables + 1 ELSE 0]
        BY <1>6, <1>7
      <4>2. \A i \in 0 .. TOP :
                (IF i \in kmem_tables THEN i - UserTables + 1 ELSE 0) \in 0 .. N
        BY <1>5, <1>10
      <4>. QED BY <3>1, <4>1, <4>2
    <3>2. CASE c # d
      <4>1. m.dir[c] = [i \in 0 .. TOP |-> 0] /\ 0 \in 0 .. N
        BY <1>5, <1>6, <3>2 DEF None
      <4>. QED BY <4>1
    <3>. QED BY <3>1, <3>2
  <2>2. m.dir = [c \in Directories |-> m.dir[c]]
    BY <1>6
  <2>. QED BY <2>1, <2>2
<1>12. m.tab \in [1 .. N -> [0 .. TableSize - 1 -> Nat]]
  BY <1>6 DEF Empty
<1>13. IsMM(m)
  BY <1>5, <1>6, <1>11, <1>12 DEF IsMM
<1>14. \A i \in 0 .. TOP : m.dir[d][i] = 0 <=> i \notin kmem_tables
  <2>1. \A i \in kmem_tables : i - UserTables + 1 # 0
    BY <1>10
  <2>. QED BY <1>8, <2>1
<1>15. ASSUME NEW a \in Directories, NEW b \in Directories,
              NEW i \in 0 .. TOP, NEW j \in 0 .. TOP,
              m.dir[a][i] # 0, m.dir[a][i] = m.dir[b][j]
       PROVE  i = j /\ (a = b \/ i \in kmem_tables)
  <2>1. a = d /\ b = d
    BY <1>9, <1>15
  <2>2. i \in kmem_tables /\ j \in kmem_tables
    BY <1>14, <1>15, <2>1
  <2>3. i - UserTables + 1 = j - UserTables + 1
    BY <1>8, <1>15, <2>1, <2>2
  <2>. QED BY <1>2, <2>1, <2>3
<1>16. DirsOK(m, {})
  BY <1>1, <1>7, <1>9, <1>14, <1>15 DEF DirsOK
<1>17. KmemMapped(m, 1)
  BY DEF KmemMapped
<1>. QED BY <1>13, <1>16, <1>17

LEMMA ElfInit ==
    ASSUME Init
    PROVE  ElfInv
<1>1. PICK m : m = [dir |-> [d \in Directories |->
                            IF d = first_page_directory
                            THEN [i \in 0 .. TOP |->
                                    IF i \in kmem_tables THEN i - UserTables + 1 ELSE 0]
                            ELSE None],
                    tab |-> [k \in 1 .. Cardinality(kmem_tables) |-> Empty],
                    n   |-> Cardinality(kmem_tables)]
  OBVIOUS
<1>2. /\ mm = map_kmem(m, 1, KmemStart - 1)
      /\ loader = [t \in Tasks |-> NoLoad] /\ loaded = [t \in Tasks |-> {}]
      /\ kmem_phys_end = KmemStart /\ hmem_phys_end = RamEnd /\ hmem_phys_list = 0
      /\ given = {} /\ panic = "no" /\ stray = FALSE
      /\ ram \in {[p \in Pages |-> [c \in Cells |-> w]] : w \in Words}
  BY <1>1 DEF Init, AddressInit, PhysInit
<1>3. /\ KmemStart \in Nat \ {0} /\ RamEnd \in Nat /\ KmemStart < RamEnd
      /\ KmemStart <= RegionEnd /\ RegionEnd \in Nat
      /\ KmemStart - 1 \in Nat /\ 1 <= KmemStart - 1 + 1 /\ KmemStart - 1 <= RegionEnd - 1
      /\ KmemStart - 1 + 1 = KmemStart
  BY RamAssumption, BuddyAssumption, WordsAssumption
<1>4. PhysTypeOK
  <2>1. PICK w \in Words : ram = [p \in Pages |-> [c \in Cells |-> w]]
    BY <1>2
  <2>2. w \in Nat
    BY WordsAssumption DEF Pages
  <2>3. ram \in [Pages -> [Cells -> Nat]]
    BY <2>1, <2>2
  <2>4. hmem_phys_end \in 1 .. RamEnd
    BY <1>2, <1>3
  <2>. QED BY <1>2, <1>3, <2>3, <2>4 DEF PhysTypeOK
<1>5. ListOK
  <2>1. FreePages = {}
    BY <1>2, <1>3 DEF FreePages
  <2>2. NilList({}, NextFree, 0, 0)
    BY DEF NilList
  <2>. QED BY <1>2, <2>1, <2>2 DEF ListOK
<1>6. IsMM(m) /\ DirsOK(m, {}) /\ KmemMapped(m, 1)
  BY <1>1, FirstTables
<1>7. KmemDirs(m)
  BY <1>6, KmemOwn
<1>8. PICK to, one : to = KmemStart - 1 /\ one = 1
  OBVIOUS
<1>9. KmemTo(map_kmem(m, one, to), m, to)
  <2>1. /\ one \in Nat \ {0} /\ to \in Nat /\ one <= to + 1 /\ to <= RegionEnd - 1
        /\ KmemMapped(m, one)
    BY <1>3, <1>6, <1>8
  <2>. QED BY <1>6, <1>7, <2>1, MapKmem
<1>10. PICK r : r = mm
  OBVIOUS
<1>11. /\ IsMM(r) /\ r.dir = m.dir /\ KmemMapped(r, KmemStart)
       /\ \A d \in Directories : \A v \in UserPages : PhysIn(r, d, v) = PhysIn(m, d, v)
  BY <1>2, <1>3, <1>8, <1>9, <1>10 DEF KmemTo
<1>12. NoLoad \in LoaderType /\ NoLoad.pc = "none" /\ NoLoad.page = 0
  BY DEF NoLoad, LoaderType, LoaderPoints
<1>13. Created = {}
  BY <1>2, <1>12 DEF Created
<1>14. DirsOK(mm, Created)
  BY <1>6, <1>10, <1>11, <1>13, DirsSame
<1>15. ASSUME NEW t \in Tasks PROVE TaskOK(t, NoLoad, {}, r)
  <2>1. \A v \in UserPages : dir_index(v) \in 0 .. TOP
    BY Regions
  <2>2. \A i \in 0 .. TOP : m.dir[t][i] = 0
    BY <1>6 DEF DirsOK
  <2>3. \A v \in UserPages : PhysIn(m, t, v) = 0
    BY <2>1, <2>2 DEF PhysIn
  <2>4. \A v \in UserPages : PhysIn(r, t, v) = 0
    BY <1>11, <2>3 DEF Directories
  <2>5. PlaceOK(NoLoad)
    BY <1>12 DEF PlaceOK, InFile, InSegment
  <2>. QED BY <1>12, <2>4, <2>5 DEF TaskOK
<1>16. Shape
  <2>1. loader \in [Tasks -> LoaderType] /\ loaded \in [Tasks -> SUBSET Pages]
    BY <1>2, <1>12
  <2>. QED BY <1>2, <1>4, <1>10, <1>11, <2>1 DEF Shape
<1>17. \A t \in Tasks : TaskOK(t, loader[t], loaded[t], mm)
  BY <1>2, <1>10, <1>15
<1>18. LoadsApart
  BY <1>2 DEF LoadsApart
<1>19. KmemStart <= kmem_phys_end /\ kmem_phys_end <= RegionEnd
       /\ KmemMapped(mm, kmem_phys_end)
  BY <1>2, <1>3, <1>10, <1>11
<1>. QED BY <1>5, <1>14, <1>16, <1>17, <1>18, <1>19 DEF ElfInv, Sound

LEMMA ElfNext ==
    ASSUME FilesFit, ElfInv, [Next]_vars
    PROVE  ElfInv'
<1>1. Shape
  BY DEF ElfInv
<1>2. Runs => Sound
  BY DEF ElfInv
<1>3. ASSUME NEW t \in Tasks, allocate(t) PROVE ElfInv'
  BY <1>1, <1>2, <1>3, AllocateStep DEF allocate, At
<1>4. ASSUME NEW t \in Tasks, task_wrapper(t) PROVE ElfInv'
  BY <1>1, <1>2, <1>4, WrapperStep DEF task_wrapper, At
<1>5. ASSUME NEW t \in Tasks, load_elf(t) PROVE ElfInv'
  BY <1>1, <1>2, <1>5, LoadElfStep DEF load_elf, At
<1>6. ASSUME NEW t \in Tasks, next_phdr(t) PROVE ElfInv'
  BY <1>1, <1>2, <1>6, NextPhdrStep DEF next_phdr, At
<1>7. ASSUME NEW t \in Tasks, load_alloc(t) PROVE ElfInv'
  BY <1>1, <1>2, <1>7, LoadAllocStep DEF load_alloc, At
<1>8. ASSUME NEW t \in Tasks, load_map(t) PROVE ElfInv'
  BY <1>1, <1>2, <1>8, LoadMapStep DEF load_map, At
<1>9. ASSUME NEW t \in Tasks, load_read(t) PROVE ElfInv'
  BY <1>1, <1>2, <1>9, LoadReadStep DEF load_read, At
<1>10. ASSUME NEW t \in Tasks, load_zero(t) PROVE ElfInv'
  BY <1>1, <1>2, <1>10, LoadZeroStep DEF load_zero, At
<1>11. CASE kmem_grows
  BY <1>1, <1>2, <1>11, KmemGrowsStep DEF kmem_grows
<1>12. CASE other_alloc
  BY <1>1, <1>2, <1>12, OtherAllocStep DEF other_alloc
<1>13. CASE other_free
  BY <1>1, <1>2, <1>13, OtherFreeStep DEF other_free
<1>14. CASE Halt
  BY <1>14, ElfStutter DEF Halt
<1>15. CASE UNCHANGED vars
  BY <1>15, ElfStutter
<1>. QED
  BY <1>3, <1>4, <1>5, <1>6, <1>7, <1>8, <1>9, <1>10, <1>11, <1>12, <1>13, <1>14,
     <1>15 DEF Next

LEMMA ElfInvariance ==
    ASSUME FilesFit
    PROVE  Spec => []ElfInv
<1>1. Init => ElfInv
  BY ElfInit
<1>2. ElfInv /\ [Next]_vars => ElfInv'
  BY ElfNext
<1>. QED BY <1>1, <1>2, PTL DEF Spec

----------------------------------------------------------------------------
(***************************************************************************)
(* What load_elf does to memory, for all files that fit, any number of     *)
(* tasks and any size of memory, up to the first free that leaves the list *)
(* stray.                                                                  *)
(***************************************************************************)

\* The variables have their types, and load_elf stops the kernel for a bad
\* header or for want of memory: as long as no list is stray, the kassert of
\* scoped_hmem_mapping holds wherever hmem_alloc_page is called.
THEOREM LoaderTypeOK ==
    ASSUME FilesFit
    PROVE  Spec => []TypeOK
<1>1. ElfInv => TypeOK
  <2>1. SUFFICES ASSUME ElfInv PROVE TypeOK
    OBVIOUS
  <2>2. Shape
    BY <2>1 DEF ElfInv
  <2>3. AddressTypeOK
    BY <2>2 DEF Shape, AddressTypeOK, IsMM
  <2>4. ASSUME NEW t \in Tasks
        PROVE  /\ loader[t].pc \in {"none", "new", "run", "phdr", "alloc", "map",
                                    "read", "zero", "ok", "invalid"}
               /\ loader[t].page \in Pages \cup {0}
               /\ loaded[t] \subseteq Pages
    <3>1. loader[t] \in LoaderType /\ loaded[t] \in SUBSET Pages
      BY <2>2 DEF Shape
    <3>. QED BY <3>1 DEF LoaderType, LoaderPoints, InFile, InSegment
  <2>. QED BY <2>2, <2>3, <2>4 DEF TypeOK, Shape
<1>. QED BY <1>1, ElfInvariance, PTL

\* hmem_alloc_page and hmem_free_page keep the list of free pages exact, for
\* as long as each page freed into the empty list has 0 in its first word: a
\* page is given to one owner at a time and none is lost.
THEOREM FreePagesStayListed ==
    ASSUME FilesFit
    PROVE  Spec => []FreeListExact
<1>1. ElfInv => FreeListExact
  <2>1. SUFFICES ASSUME ElfInv, Runs PROVE FreeList = FreePages
    BY DEF FreeListExact, Apart
  <2>2. PhysTypeOK /\ ListOK
    BY <2>1 DEF ElfInv, Shape, Sound
  <2>. QED BY <2>2, FreeListIs
<1>. QED BY <1>1, ElfInvariance, PTL

\* kmem is at its address in every directory, although kmem_buddy_new maps
\* new pages in the first directory only, after other directories were
\* copied from it.
THEOREM KmemStaysReachable ==
    ASSUME FilesFit
    PROVE  Spec => []KmemReachable
<1>1. ElfInv => KmemReachable
  <2>1. SUFFICES ASSUME ElfInv, Runs,
                        NEW d \in Created \cup {first_page_directory},
                        NEW p \in 1 .. kmem_phys_end - 1
                 PROVE  Translate(d, KernelBase + p) = p
    BY DEF KmemReachable, Apart, Created
  <2>2. PICK m, C, end : m = mm /\ C = Created /\ end = kmem_phys_end
    OBVIOUS
  <2>3. /\ end \in Nat /\ end <= RegionEnd /\ DirsOK(m, C) /\ KmemMapped(m, end)
    BY <2>1, <2>2 DEF ElfInv, Shape, Sound, PhysTypeOK
  <2>4. C \in SUBSET Tasks
    BY <2>2 DEF Created
  <2>5. PhysIn(m, d, KernelBase + p) = p
    BY <2>1, <2>2, <2>3, <2>4, KmemEverywhere
  <2>. QED BY <2>2, <2>5 DEF Translate, PhysIn
<1>. QED BY <1>1, ElfInvariance, PTL

\* A page of memory is at one user address of one task.
THEOREM UserPagesStayPrivate ==
    ASSUME FilesFit
    PROVE  Spec => []UserPrivate
<1>1. ElfInv => UserPrivate
  <2>1. SUFFICES ASSUME ElfInv, Runs, NEW t \in Tasks, NEW u \in Tasks,
                        NEW v \in UserPages, NEW w \in UserPages,
                        Translate(t, v) # 0, Translate(t, v) = Translate(u, w)
                 PROVE  t = u /\ v = w
    BY DEF UserPrivate, Apart
  <2>2. Sound
    BY <2>1 DEF ElfInv
  <2>3. \A d, x : Translate(d, x) = PhysIn(mm, d, x)
    BY DEF Translate, PhysIn
  <2>4. \A x \in Tasks : \A y \in UserPages :
            PhysIn(mm, x, y) # 0 => PhysIn(mm, x, y) \in loaded[x]
    <3>1. ASSUME NEW x \in Tasks, NEW y \in UserPages, PhysIn(mm, x, y) # 0
          PROVE  PhysIn(mm, x, y) \in loaded[x]
      <4>1. loaded[x] = ({PhysIn(mm, x, z) : z \in UserPages} \cup {loader[x].page}) \ {0}
        BY <2>2 DEF Sound, TaskOK
      <4>. QED BY <3>1, <4>1
    <3>. QED BY <3>1
  <2>5. Translate(t, v) \in loaded[t] /\ Translate(t, v) \in loaded[u]
    BY <2>1, <2>3, <2>4
  <2>6. t = u
    BY <2>2, <2>5 DEF Sound, LoadsApart
  <2>7. \A x, y \in UserPages :
            PhysIn(mm, t, x) # 0 /\ PhysIn(mm, t, x) = PhysIn(mm, t, y) => x = y
    BY <2>2 DEF Sound, TaskOK
  <2>. QED BY <2>1, <2>3, <2>6, <2>7
<1>. QED BY <1>1, ElfInvariance, PTL

\* Wherever load_elf is or has stopped, the pages that it allocated are in
\* the address space of its task, and no other page is.
THEOREM PagesStayAccounted ==
    ASSUME FilesFit
    PROVE  Spec => []PagesAccounted
<1>1. ElfInv => PagesAccounted
  <2>1. SUFFICES ASSUME ElfInv, Runs, NEW t \in Tasks
                 PROVE  /\ loaded[t] = Mapped(t) \cup ({loader[t].page} \ {0})
                        /\ loaded[t] \subseteq given
    BY DEF PagesAccounted, Apart
  <2>2. Sound
    BY <2>1 DEF ElfInv
  <2>3. loaded[t] \subseteq given
    BY <2>2 DEF Sound, LoadsApart
  <2>4. loaded[t] = ({PhysIn(mm, t, v) : v \in UserPages} \cup {loader[t].page}) \ {0}
    BY <2>2 DEF Sound, TaskOK
  <2>5. \A v \in UserPages : Translate(t, v) = PhysIn(mm, t, v)
    BY DEF Translate, PhysIn
  <2>6. Mapped(t) = {PhysIn(mm, t, v) : v \in UserPages} \ {0}
    BY <2>5 DEF Mapped
  <2>. QED BY <2>3, <2>4, <2>6
<1>. QED BY <1>1, ElfInvariance, PTL

----------------------------------------------------------------------------
(***************************************************************************)
(* What is in the pages of a load.  ContentsInv says how far each load is: *)
(* the segments and pages that are done are clean, and the page at hand has*)
(* the words that were read.                                               *)
(***************************************************************************)

\* Page k of a segment is clean in memory r, at its address in the tables m.
Filled(t, r, m, h, k) ==
    LET p == PhysIn(m, t, h.p_vaddr \div PageSize + k)
    IN  p # 0 /\ \A w \in Cells : CleanWord(h, k, w, r[p][w])

\* The segments that the loader is done with.
Before(t, r, m, l) ==
    \A j \in DOMAIN Headers(l) : l.pc = "ok" \/ j < l.i =>
        \A k \in PageNumbers(Headers(l)[j]) : Filled(t, r, m, Headers(l)[j], k)

\* The pages of its segment that it is done with.
Within(t, r, m, l) ==
    \A k \in 0 .. l.idx : k < l.idx \div PageSize => Filled(t, r, m, Headers(l)[l.i], k)

\* The first words of the page that it is at.
ReadTo(t, r, m, l, n) ==
    \A w \in Cells : w < n =>
        r[PhysIn(m, t, VirtOf(l))][w] = Data(Headers(l)[l.i].p_offset + l.idx + w)

\* How many words load_elf reads for the page that the loader is at.
CountOf(l) ==
    LET left == Headers(l)[l.i].p_filesz - l.idx
    IN  IF left > PageSize THEN PageSize ELSE left

\* What a load has put in memory.
TextOK(t, r, m, l) ==
    /\ l.pc = "ok" => l.file \in DOMAIN Files /\ Files[l.file].supported
    /\ l.pc \in InFile \cup {"ok"} => Before(t, r, m, l)
    /\ l.pc \in InSegment => Within(t, r, m, l)
    /\ l.pc = "read" =>
        /\ l.idx < Headers(l)[l.i].p_filesz /\ l.pos \in Nat /\ l.pos < CountOf(l)
        /\ ReadTo(t, r, m, l, l.pos)
    /\ l.pc = "zero" /\ l.idx < Headers(l)[l.i].p_filesz =>
        ReadTo(t, r, m, l, CountOf(l))

\* What every load has put in memory.
Contents == \A t \in Tasks : TextOK(t, ram, mm, loader[t])

\* The invariant behind LoadedClean, on top of ElfInv.
ContentsInv == Runs => Contents

----------------------------------------------------------------------------
\* The pages of t, but for those at X, are the same and have the same words.
Keeps(t, r2, m2, r, m, X) ==
    \A v \in UserPages \ X : PhysIn(m, t, v) # 0 =>
        /\ PhysIn(m2, t, v) = PhysIn(m, t, v)
        /\ r2[PhysIn(m, t, v)] = r[PhysIn(m, t, v)]

\* A page that is kept is still as the file says.
LEMMA FilledKept ==
    ASSUME NEW t, NEW r, NEW m, NEW r2, NEW m2, NEW X, Keeps(t, r2, m2, r, m, X),
           NEW h, NEW k, h.p_vaddr \div PageSize + k \in UserPages \ X,
           Filled(t, r, m, h, k)
    PROVE  Filled(t, r2, m2, h, k)
  BY DEF Filled, Keeps

\* Pages of a segment.
LEMMA NumberedPage ==
    ASSUME NEW h, HeaderOK(h), NEW k \in PageNumbers(h)
    PROVE  /\ h.p_vaddr \div PageSize + k \in SegmentPages(h)
           /\ h.p_vaddr \div PageSize + k \in UserPages
<1>1. h.p_vaddr \div PageSize + k \in SegmentPages(h)
  BY DEF SegmentPages, PageNumbers
<1>. QED BY <1>1 DEF HeaderOK

\* The pages of a segment before the one that the loader is at.
LEMMA EarlierPage ==
    ASSUME FilesFit, NEW l \in LoaderType, PlaceOK(l), l.pc \in InSegment,
           NEW k \in 0 .. l.idx, k < l.idx \div PageSize
    PROVE  k \in PageNumbers(Headers(l)[l.i]) /\ Start(l) + k # VirtOf(l)
<1>1. PICK h : h = Headers(l)[l.i]
  OBVIOUS
<1>2. HeaderOK(h) /\ Start(l) \in Nat
  BY <1>1, VirtUser
<1>3. PICK n \in 0 .. l.idx : /\ l.idx = n * PageSize /\ l.idx \div PageSize = n
                              /\ VirtOf(l) = Start(l) + n
  BY VirtUser
<1>4. h.load /\ l.idx < h.p_memsz
  BY <1>1 DEF PlaceOK
<1>5. l.idx \in Nat /\ h.p_memsz \in Nat /\ PageSize \in Nat /\ k \in Nat /\ n \in Nat
  BY <1>2, PageAssumption DEF LoaderType, HeaderOK
<1>6. k < n
  BY <1>3
<1>7. k * PageSize <= n * PageSize /\ k * PageSize \in Nat
  <2>1. \A a, b, c \in Nat : a < b => a * c <= b * c /\ a * c \in Nat
    OBVIOUS
  <2>. QED BY <1>5, <1>6, <2>1
<1>8. k \in 0 .. h.p_memsz /\ k * PageSize < h.p_memsz
  BY <1>3, <1>4, <1>5, <1>7
<1>9. Start(l) + k # VirtOf(l)
  BY <1>2, <1>3, <1>5, <1>6
<1>. QED BY <1>1, <1>4, <1>8, <1>9 DEF PageNumbers

\* So are the segments that the loader is done with.
LEMMA BeforeKept ==
    ASSUME FilesFit, NEW t, NEW r, NEW m, NEW r2, NEW m2, NEW X,
           Keeps(t, r2, m2, r, m, X), NEW l, l.file \in DOMAIN Files,
           Files[l.file].supported, Before(t, r, m, l),
           \A j \in DOMAIN Headers(l) : l.pc = "ok" \/ j < l.i =>
                X \cap SegmentPages(Headers(l)[j]) = {}
    PROVE  Before(t, r2, m2, l)
<1>1. ASSUME NEW j \in DOMAIN Headers(l), l.pc = "ok" \/ j < l.i,
             NEW k \in PageNumbers(Headers(l)[j])
      PROVE  Filled(t, r2, m2, Headers(l)[j], k)
  <2>1. PICK h : h = Headers(l)[j]
    OBVIOUS
  <2>2. HeaderOK(h)
    BY <2>1, FileHeaders DEF Headers
  <2>3. h.p_vaddr \div PageSize + k \in UserPages \ X
    BY <1>1, <2>1, <2>2, NumberedPage
  <2>4. Filled(t, r, m, h, k)
    BY <1>1, <2>1 DEF Before
  <2>5. Filled(t, r2, m2, h, k)
    BY <2>3, <2>4, FilledKept
  <2>. QED BY <2>1, <2>5
<1>. QED BY <1>1 DEF Before

\* What is done is not touched by what is done at the page that the loader is
\* at.
LEMMA DoneKept ==
    ASSUME FilesFit, NEW t, NEW r, NEW m, NEW r2, NEW m2, NEW l \in LoaderType,
           PlaceOK(l), l.pc \in InSegment, Before(t, r, m, l), Within(t, r, m, l),
           Keeps(t, r2, m2, r, m, {VirtOf(l)})
    PROVE  Before(t, r2, m2, l) /\ Within(t, r2, m2, l)
<1>1. /\ l.file \in DOMAIN Files /\ Files[l.file].supported
      /\ l.i \in DOMAIN Headers(l) /\ HeaderOK(Headers(l)[l.i])
      /\ VirtOf(l) \in SegmentPages(Headers(l)[l.i])
  BY VirtUser
<1>2. ASSUME NEW j \in DOMAIN Headers(l), l.pc = "ok" \/ j < l.i
      PROVE  {VirtOf(l)} \cap SegmentPages(Headers(l)[j]) = {}
  <2>1. DOMAIN Headers(l) \subseteq Nat
    BY <1>1, FileHeaders DEF Headers
  <2>2. j # l.i
    BY <1>1, <1>2, <2>1 DEF InSegment
  <2>3. SegmentPages(Headers(l)[j]) \cap SegmentPages(Headers(l)[l.i]) = {}
    BY <1>1, <2>2, FileHeaders DEF Headers
  <2>. QED BY <1>1, <2>3
<1>3. Before(t, r2, m2, l)
  BY <1>1, <1>2, BeforeKept
<1>4. ASSUME NEW k \in 0 .. l.idx, k < l.idx \div PageSize
      PROVE  Filled(t, r2, m2, Headers(l)[l.i], k)
  <2>1. PICK h : h = Headers(l)[l.i]
    OBVIOUS
  <2>2. k \in PageNumbers(h) /\ h.p_vaddr \div PageSize + k # VirtOf(l) /\ HeaderOK(h)
    BY <1>1, <1>4, <2>1, EarlierPage DEF Start
  <2>3. h.p_vaddr \div PageSize + k \in UserPages \ {VirtOf(l)}
    BY <2>2, NumberedPage
  <2>4. Filled(t, r, m, h, k)
    BY <1>4, <2>1 DEF Within
  <2>5. Filled(t, r2, m2, h, k)
    BY <2>3, <2>4, FilledKept
  <2>. QED BY <2>1, <2>5
<1>. QED BY <1>3, <1>4 DEF Within

\* Nothing that t has changes.
LEMMA TextKept ==
    ASSUME FilesFit, NEW t, NEW r, NEW m, NEW r2, NEW m2, NEW l \in LoaderType,
           PlaceOK(l), TextOK(t, r, m, l), Keeps(t, r2, m2, r, m, {}),
           l.pc \in {"read", "zero"} => PhysIn(m, t, VirtOf(l)) # 0
    PROVE  TextOK(t, r2, m2, l)
<1>1. l.pc \in InFile \cup {"ok"} => Before(t, r2, m2, l)
  <2>1. SUFFICES ASSUME l.pc \in InFile \cup {"ok"} PROVE Before(t, r2, m2, l)
    OBVIOUS
  <2>2. l.file \in DOMAIN Files /\ Files[l.file].supported /\ Before(t, r, m, l)
    BY <2>1 DEF TextOK, PlaceOK
  <2>3. \A j \in DOMAIN Headers(l) : {} \cap SegmentPages(Headers(l)[j]) = {}
    OBVIOUS
  <2>. QED BY <2>2, <2>3, BeforeKept
<1>2. l.pc \in InSegment => Within(t, r2, m2, l)
  <2>1. SUFFICES ASSUME l.pc \in InSegment PROVE Within(t, r2, m2, l)
    OBVIOUS
  <2>2. Before(t, r, m, l) /\ Within(t, r, m, l)
    BY <2>1 DEF TextOK, InFile
  <2>3. Keeps(t, r2, m2, r, m, {VirtOf(l)})
    BY DEF Keeps
  <2>. QED BY <2>1, <2>2, <2>3, DoneKept
<1>3. ASSUME l.pc \in {"read", "zero"}, NEW n, ReadTo(t, r, m, l, n)
      PROVE  ReadTo(t, r2, m2, l, n)
  <2>1. VirtOf(l) \in UserPages
    BY <1>3, VirtUser DEF InSegment
  <2>2. PICK p : p = PhysIn(m, t, VirtOf(l))
    OBVIOUS
  <2>3. PhysIn(m2, t, VirtOf(l)) = p /\ r2[p] = r[p]
    BY <1>3, <2>1, <2>2 DEF Keeps
  <2>. QED BY <1>3, <2>2, <2>3 DEF ReadTo
<1>. QED BY <1>1, <1>2, <1>3 DEF TextOK

----------------------------------------------------------------------------
\* Task u keeps its pages and what is in them.
KeepsOwn(u) ==
    SameUser(mm', mm, u) /\ \A p \in loaded[u] : ram'[p] = ram[p]

\* A page in the address space of a task is one that its load allocated.
LEMMA MappedLoaded ==
    ASSUME Sound, NEW u \in Tasks, NEW v \in UserPages, PhysIn(mm, u, v) # 0
    PROVE  PhysIn(mm, u, v) \in loaded[u]
<1>1. loaded[u] = ({PhysIn(mm, u, z) : z \in UserPages} \cup {loader[u].page}) \ {0}
  BY DEF Sound, TaskOK
<1>. QED BY <1>1

\* A step that leaves the pages of a task alone leaves its load as it is.
LEMMA OwnText ==
    ASSUME FilesFit, Shape, Sound, NEW u \in Tasks, TextOK(u, ram, mm, loader[u]),
           KeepsOwn(u)
    PROVE  TextOK(u, ram', mm', loader[u])
<1>1. PICK l, r, m, r2, m2 : /\ l = loader[u] /\ r = ram /\ m = mm /\ r2 = ram'
                             /\ m2 = mm'
  OBVIOUS
<1>2. l \in LoaderType /\ PlaceOK(l) /\ TaskOK(u, l, loaded[u], m)
  BY <1>1, TaskNow
<1>3. l.pc \in {"read", "zero"} => PhysIn(m, u, VirtOf(l)) # 0
  BY <1>2 DEF TaskOK
<1>4. Keeps(u, r2, m2, r, m, {})
  BY <1>1, MappedLoaded DEF Keeps, KeepsOwn, SameUser
<1>5. TextOK(u, r2, m2, l)
  BY <1>1, <1>2, <1>3, <1>4, TextKept
<1>. QED BY <1>1, <1>5

\* A step outside load_elf.
LEMMA AllText ==
    ASSUME FilesFit, Shape, Sound, Contents, loader' = loader,
           \A u \in Tasks : KeepsOwn(u)
    PROVE  Contents'
  BY OwnText DEF Contents

\* A step of one load.
LEMMA OneText ==
    ASSUME FilesFit, Shape, Sound, Contents, NEW t \in Tasks, NEW k,
           loader' = [loader EXCEPT ![t] = k],
           \A u \in Tasks : u # t => KeepsOwn(u),
           TextOK(t, ram', mm', k)
    PROVE  Contents'
<1>1. loader \in [Tasks -> LoaderType]
  BY DEF Shape
<1>2. loader'[t] = k /\ \A u \in Tasks : u # t => loader'[u] = loader[u]
  BY <1>1
<1>3. ASSUME NEW u \in Tasks PROVE TextOK(u, ram', mm', loader'[u])
  <2>1. CASE u = t
    BY <1>2, <2>1
  <2>2. CASE u # t
    <3>1. TextOK(u, ram', mm', loader[u])
      BY <2>2, OwnText DEF Contents
    <3>. QED BY <1>2, <2>2, <3>1
  <2>. QED BY <2>1, <2>2
<1>. QED BY <1>3 DEF Contents

\* Points at which nothing is said of memory.
LEMMA NoText ==
    ASSUME NEW t, NEW r, NEW m, NEW l, l.pc \in {"none", "new", "run", "invalid"}
    PROVE  TextOK(t, r, m, l)
  BY DEF TextOK, InFile, InSegment

\* What is done depends on where the loader is, not on the rest of its record.
LEMMA SamePlace ==
    ASSUME NEW t, NEW r, NEW m, NEW l, NEW k, k.file = l.file, k.i = l.i,
           k.idx = l.idx, k.pc # "ok", l.pc # "ok"
    PROVE  /\ Headers(k) = Headers(l) /\ VirtOf(k) = VirtOf(l)
           /\ Before(t, r, m, l) => Before(t, r, m, k)
           /\ Within(t, r, m, l) => Within(t, r, m, k)
           /\ CountOf(k) = CountOf(l)
           /\ \A n : ReadTo(t, r, m, l, n) => ReadTo(t, r, m, k, n)
<1>1. Headers(k) = Headers(l)
  BY DEF Headers
<1>2. VirtOf(k) = VirtOf(l)
  BY <1>1 DEF VirtOf, Start
<1>3. Before(t, r, m, l) => Before(t, r, m, k)
  BY <1>1 DEF Before
<1>4. Within(t, r, m, l) => Within(t, r, m, k)
  BY <1>1 DEF Within
<1>5. \A n : ReadTo(t, r, m, l, n) => ReadTo(t, r, m, k, n)
  BY <1>1, <1>2 DEF ReadTo
<1>6. CountOf(k) = CountOf(l)
  BY <1>1 DEF CountOf
<1>. QED BY <1>1, <1>2, <1>3, <1>4, <1>5, <1>6

----------------------------------------------------------------------------
\* Steps that leave the user pages and what is in memory alone.
LEMMA AllocateText ==
    ASSUME FilesFit, Shape, Sound, Contents, NEW t \in Tasks, allocate(t)
    PROVE  Contents'
<1>1. PICK l, m, r2, C : l = loader[t] /\ m = mm /\ r2 = mm' /\ C = Created
  OBVIOUS
<1>2. /\ l.pc = "none" /\ ram' = ram
      /\ r2 = [m EXCEPT !.dir[t] = m.dir[first_page_directory]]
      /\ loader' = [loader EXCEPT ![t] = [NoLoad EXCEPT !.pc = "new"]]
  BY <1>1 DEF allocate, At, Runs, Goto, new_page_directory, phys_vars
<1>3. C \in SUBSET Tasks /\ t \in Tasks \ C /\ IsMM(m) /\ DirsOK(m, C)
  BY <1>1, <1>2, TaskNow
<1>4. SamePages(r2, m)
  BY <1>2, <1>3, NewDirectory
<1>5. \A u \in Tasks : KeepsOwn(u)
  BY <1>1, <1>2, <1>4 DEF KeepsOwn, SamePages, SameUser, Directories
<1>6. PICK k : k = [NoLoad EXCEPT !.pc = "new"]
  OBVIOUS
<1>7. k.pc = "new"
  BY <1>6 DEF NoLoad
<1>8. TextOK(t, ram', mm', k)
  BY <1>7, NoText
<1>. QED BY <1>2, <1>5, <1>6, <1>8, OneText

\* task_wrapper maps no user page.
LEMMA WrapperText ==
    ASSUME FilesFit, Shape, Sound, Contents, NEW t \in Tasks, task_wrapper(t)
    PROVE  Contents'
<1>1. PICK l, m, r2, C : l = loader[t] /\ m = mm /\ r2 = mm' /\ C = Created
  OBVIOUS
<1>2. /\ l.pc = "new" /\ ram' = ram /\ r2 = new_table(m, t, TOP)
      /\ loader' = [loader EXCEPT ![t] = [NoLoad EXCEPT !.pc = "run"]]
  BY <1>1 DEF task_wrapper, At, Runs, Goto, map_top, phys_vars
<1>3. C \in SUBSET Tasks /\ t \in C /\ IsMM(m) /\ DirsOK(m, C)
  BY <1>1, <1>2, TaskNow
<1>4. SamePages(r2, m)
  BY <1>2, <1>3, MapTop
<1>5. \A u \in Tasks : KeepsOwn(u)
  BY <1>1, <1>2, <1>4 DEF KeepsOwn, SamePages, SameUser, Directories
<1>6. PICK k : k = [NoLoad EXCEPT !.pc = "run"]
  OBVIOUS
<1>7. k.pc = "run"
  BY <1>6 DEF NoLoad
<1>8. TextOK(t, ram', mm', k)
  BY <1>7, NoText
<1>. QED BY <1>2, <1>5, <1>6, <1>8, OneText

\* kmem_buddy_new maps pages of kmem only.
LEMMA KmemGrowsText ==
    ASSUME FilesFit, Shape, Sound, Contents, kmem_grows, panic' = "no"
    PROVE  Contents'
<1>1. PICK m, r2, end, to, C : /\ m = mm /\ r2 = mm' /\ end = kmem_phys_end
                               /\ to = end + BuddyPages - 1 /\ C = Created
  OBVIOUS
<1>2. /\ end + BuddyPages < RegionEnd /\ ram' = ram /\ loader' = loader
      /\ r2 = map_kmem(m, end, to)
  BY <1>1 DEF kmem_grows, grow_kmem, kmem_buddy_new
<1>3. /\ end \in Nat /\ KmemStart <= end /\ end <= RegionEnd
      /\ DirsOK(m, C) /\ KmemMapped(m, end) /\ IsMM(m)
  BY <1>1 DEF Shape, Sound, PhysTypeOK
<1>4. end \in Nat \ {0} /\ to \in Nat /\ end <= to + 1 /\ to <= RegionEnd - 1
  BY <1>1, <1>2, <1>3, BuddyAssumption, RamAssumption
<1>5. KmemDirs(m)
  BY <1>3, KmemOwn
<1>6. KmemTo(map_kmem(m, end, to), m, to)
  BY <1>3, <1>4, <1>5, MapKmem
<1>7. \A d \in Directories : \A v \in UserPages : PhysIn(r2, d, v) = PhysIn(m, d, v)
  BY <1>2, <1>6 DEF KmemTo
<1>8. \A u \in Tasks : KeepsOwn(u)
  BY <1>1, <1>2, <1>7 DEF KeepsOwn, SameUser, Directories
<1>. QED BY <1>2, <1>8, AllText

\* hmem_alloc_page writes nothing to the page.
LEMMA OtherAllocText ==
    ASSUME FilesFit, Shape, Sound, Contents, other_alloc
    PROVE  Contents'
<1>1. mm' = mm /\ loader' = loader /\ ram' = ram
  BY DEF other_alloc, hmem_alloc_page, hmem_alloc_new, hmem_alloc_listed
<1>2. \A u \in Tasks : KeepsOwn(u)
  BY <1>1 DEF KeepsOwn, SameUser
<1>. QED BY <1>1, <1>2, AllText

\* A page that is freed is not one of a load.
LEMMA OtherFreeText ==
    ASSUME FilesFit, Shape, Sound, Contents, other_free
    PROVE  Contents'
<1>1. PICK p \in Others : \E w : hmem_free_page(p, w)
  BY DEF other_free, Runs
<1>2. mm' = mm /\ loader' = loader
  BY DEF other_free, Runs
<1>3. \A u \in Tasks : p \notin loaded[u]
  BY DEF Others
<1>4. ram \in [Pages -> [Cells -> Nat]] /\ \A u \in Tasks : loaded[u] \in SUBSET Pages
  BY DEF Shape, PhysTypeOK
<1>5. PICK x : ram' = [ram EXCEPT ![p][0] = x]
  BY <1>1 DEF hmem_free_page
<1>6. \A q \in Pages : q # p => ram'[q] = ram[q]
  BY <1>4, <1>5
<1>7. \A u \in Tasks : KeepsOwn(u)
  BY <1>2, <1>3, <1>4, <1>6 DEF KeepsOwn, SameUser
<1>. QED BY <1>2, <1>7, AllText

----------------------------------------------------------------------------
\* Steps from header to header.
LEMMA LoadElfText ==
    ASSUME FilesFit, Shape, Sound, Contents, NEW t \in Tasks, load_elf(t),
           panic' = "no"
    PROVE  Contents'
<1>1. mm' = mm /\ ram' = ram
  BY DEF load_elf, phys_vars
<1>2. \A u \in Tasks : u # t => KeepsOwn(u)
  BY <1>1 DEF KeepsOwn, SameUser
<1>3. PICK f \in DOMAIN Files :
        \/ ~Files[f].supported /\ invalid(t)
        \/ /\ Files[f].supported
           /\ Goto(t, [NoLoad EXCEPT !.pc = "phdr", !.file = f, !.i = 1])
  BY DEF load_elf
<1>4. CASE Files[f].supported
  <2>1. PICK k : k = [NoLoad EXCEPT !.pc = "phdr", !.file = f, !.i = 1]
    OBVIOUS
  <2>2. k.pc = "phdr" /\ k.file = f /\ k.i = 1
    BY <2>1 DEF NoLoad
  <2>3. DOMAIN Headers(k) = 1 .. Len(Headers(k)) /\ Len(Headers(k)) \in Nat
    BY <1>4, <2>2, FileHeaders DEF Headers
  <2>4. \A j \in DOMAIN Headers(k) : ~ (j < k.i)
    BY <2>2, <2>3
  <2>5. TextOK(t, ram', mm', k)
    BY <2>2, <2>4 DEF TextOK, Before, InSegment
  <2>. QED BY <1>2, <1>3, <1>4, <2>1, <2>5, OneText DEF Goto
<1>5. CASE ~ Files[f].supported
  <2>1. PICK k : k = [NoLoad EXCEPT !.pc = "invalid"]
    OBVIOUS
  <2>2. k.pc = "invalid"
    BY <2>1 DEF NoLoad
  <2>3. TextOK(t, ram', mm', k)
    BY <2>2, NoText
  <2>. QED BY <1>2, <1>3, <1>5, <2>1, <2>3, OneText DEF invalid, Goto
<1>. QED BY <1>4, <1>5

\* Segments that are skipped have no pages.
LEMMA NextPhdrText ==
    ASSUME FilesFit, Shape, Sound, Contents, NEW t \in Tasks, next_phdr(t)
    PROVE  Contents'
<1>0. PICK l, r, m : l = loader[t] /\ r = ram /\ m = mm
  OBVIOUS
<1>1. l.pc = "phdr" /\ mm' = mm /\ ram' = ram
  BY <1>0 DEF next_phdr, At, Runs, phys_vars
<1>2. \A u \in Tasks : u # t => KeepsOwn(u)
  BY <1>1 DEF KeepsOwn, SameUser
<1>3. l \in LoaderType /\ PlaceOK(l) /\ TextOK(t, r, m, l)
  BY <1>0, TaskNow DEF Contents
<1>4. /\ l.file \in DOMAIN Files /\ Files[l.file].supported /\ l.i \in Nat
      /\ Before(t, r, m, l)
  BY <1>1, <1>3 DEF PlaceOK, TextOK, InFile, LoaderType
<1>5. /\ Len(Headers(l)) \in Nat /\ DOMAIN Headers(l) = 1 .. Len(Headers(l))
      /\ \A i \in DOMAIN Headers(l) : HeaderOK(Headers(l)[i])
  BY <1>4, FileHeaders DEF Headers
<1>6. \/ /\ l.i > Len(Headers(l))
         /\ loader' = [loader EXCEPT ![t] = [NoLoad EXCEPT !.pc = "ok", !.file = l.file]]
      \/ loader' = [loader EXCEPT ![t] = [NoLoad EXCEPT !.pc = "invalid"]]
      \/ loader' = [loader EXCEPT ![t] = [l EXCEPT !.pc = "alloc", !.idx = 0]]
      \/ /\ ~ (Headers(l)[l.i].load /\ Headers(l)[l.i].p_memsz > 0)
         /\ loader' = [loader EXCEPT ![t] = [l EXCEPT !.i = @ + 1]]
  BY <1>0 DEF next_phdr, Goto, File, phdr, Headers, invalid
<1>7. CASE /\ l.i > Len(Headers(l))
           /\ loader' = [loader EXCEPT ![t] = [NoLoad EXCEPT !.pc = "ok", !.file = l.file]]
  <2>1. PICK k : k = [NoLoad EXCEPT !.pc = "ok", !.file = l.file]
    OBVIOUS
  <2>2. k.pc = "ok" /\ k.file = l.file
    BY <2>1 DEF NoLoad
  <2>3. Headers(k) = Headers(l)
    BY <2>2 DEF Headers
  <2>4. \A j \in DOMAIN Headers(l) : j < l.i
    BY <1>4, <1>5, <1>7
  <2>5. Before(t, r, m, k)
    BY <1>4, <2>3, <2>4 DEF Before
  <2>6. TextOK(t, r, m, k)
    BY <1>4, <2>2, <2>5 DEF TextOK, InSegment
  <2>7. TextOK(t, ram', mm', k)
    BY <1>0, <1>1, <2>6
  <2>. QED BY <1>2, <1>7, <2>1, <2>7, OneText
<1>8. CASE loader' = [loader EXCEPT ![t] = [NoLoad EXCEPT !.pc = "invalid"]]
  <2>1. PICK k : k = [NoLoad EXCEPT !.pc = "invalid"]
    OBVIOUS
  <2>2. k.pc = "invalid"
    BY <2>1 DEF NoLoad
  <2>3. TextOK(t, ram', mm', k)
    BY <2>2, NoText
  <2>. QED BY <1>2, <1>8, <2>1, <2>3, OneText
<1>9. CASE loader' = [loader EXCEPT ![t] = [l EXCEPT !.pc = "alloc", !.idx = 0]]
  <2>1. PICK k : k = [l EXCEPT !.pc = "alloc", !.idx = 0]
    OBVIOUS
  <2>2. k.pc = "alloc" /\ k.file = l.file /\ k.i = l.i /\ k.idx = 0
    BY <1>3, <2>1 DEF LoaderType
  <2>3. Headers(k) = Headers(l)
    BY <2>2 DEF Headers
  <2>4. Before(t, r, m, k)
    BY <1>1, <1>4, <2>2, <2>3 DEF Before
  <2>5. k.idx \div PageSize = 0
    BY <2>2, PageAssumption
  <2>6. Within(t, r, m, k)
    BY <2>2, <2>5 DEF Within
  <2>7. TextOK(t, r, m, k)
    BY <2>2, <2>4, <2>6 DEF TextOK
  <2>8. TextOK(t, ram', mm', k)
    BY <1>0, <1>1, <2>7
  <2>. QED BY <1>2, <1>9, <2>1, <2>8, OneText
<1>10. CASE /\ ~ (Headers(l)[l.i].load /\ Headers(l)[l.i].p_memsz > 0)
            /\ loader' = [loader EXCEPT ![t] = [l EXCEPT !.i = @ + 1]]
  <2>1. PICK k : k = [l EXCEPT !.i = @ + 1]
    OBVIOUS
  <2>2. k.pc = "phdr" /\ k.file = l.file /\ k.i = l.i + 1
    BY <1>1, <1>3, <2>1 DEF LoaderType
  <2>3. Headers(k) = Headers(l)
    BY <2>2 DEF Headers
  <2>4. ASSUME l.i \in DOMAIN Headers(l) PROVE PageNumbers(Headers(l)[l.i]) = {}
    <3>1. PICK h : h = Headers(l)[l.i]
      OBVIOUS
    <3>2. h.p_memsz \in Nat /\ h.load \in BOOLEAN
      BY <1>5, <2>4, <3>1 DEF HeaderOK
    <3>3. ~ h.load \/ h.p_memsz = 0
      BY <1>10, <3>1, <3>2
    <3>4. \A n \in 0 .. 0 : ~ (n * PageSize < 0)
      BY PageAssumption
    <3>. QED BY <3>1, <3>3, <3>4 DEF PageNumbers
  <2>5. \A j \in DOMAIN Headers(l) : j < k.i => j < l.i \/ j = l.i
    BY <1>4, <1>5, <2>2
  <2>6. Before(t, r, m, k)
    BY <1>1, <1>4, <2>2, <2>3, <2>4, <2>5 DEF Before
  <2>7. TextOK(t, r, m, k)
    BY <2>2, <2>6 DEF TextOK, InSegment
  <2>8. TextOK(t, ram', mm', k)
    BY <1>0, <1>1, <2>7
  <2>. QED BY <1>2, <1>10, <2>1, <2>8, OneText
<1>. QED BY <1>6, <1>7, <1>8, <1>9, <1>10

----------------------------------------------------------------------------
\* Steps at a page.
LEMMA LoadAllocText ==
    ASSUME FilesFit, Shape, Sound, Contents, NEW t \in Tasks, load_alloc(t),
           panic' = "no"
    PROVE  Contents'
<1>0. PICK l, r, m : l = loader[t] /\ r = ram /\ m = mm
  OBVIOUS
<1>1. l.pc = "alloc" /\ mm' = mm
  BY <1>0 DEF load_alloc, At, Runs
<1>2. PICK p \in Pages : /\ hmem_alloc_page(p)
                         /\ Goto(t, [l EXCEPT !.pc = "map", !.page = p])
  BY <1>0 DEF load_alloc
<1>3. ram' = ram
  BY <1>2 DEF hmem_alloc_page, hmem_alloc_new, hmem_alloc_listed
<1>4. \A u \in Tasks : u # t => KeepsOwn(u)
  BY <1>1, <1>3 DEF KeepsOwn, SameUser
<1>5. l \in LoaderType /\ TextOK(t, r, m, l)
  BY <1>0, TaskNow DEF Contents
<1>6. PICK k : k = [l EXCEPT !.pc = "map", !.page = p]
  OBVIOUS
<1>7. k.pc = "map" /\ k.file = l.file /\ k.i = l.i /\ k.idx = l.idx
  BY <1>5, <1>6 DEF LoaderType
<1>8. Before(t, r, m, l) /\ Within(t, r, m, l)
  BY <1>1, <1>5 DEF TextOK, InFile, InSegment
<1>9. Before(t, r, m, k) /\ Within(t, r, m, k)
  BY <1>1, <1>7, <1>8, SamePlace
<1>10. TextOK(t, r, m, k)
  BY <1>7, <1>9 DEF TextOK
<1>11. TextOK(t, ram', mm', k)
  BY <1>0, <1>1, <1>3, <1>10
<1>. QED BY <1>2, <1>4, <1>6, <1>11, OneText DEF Goto

\* The numbers that count the words of a segment.
LEMMA Sizes ==
    ASSUME FilesFit, NEW l \in LoaderType, PlaceOK(l), l.pc \in InSegment,
           NEW h, h = Headers(l)[l.i]
    PROVE  /\ h.p_filesz \in Nat /\ h.p_offset \in Nat /\ l.idx \in Nat
           /\ PageSize \in Nat /\ PageSize > 0
           /\ CountOf(l) = IF h.p_filesz - l.idx > PageSize THEN PageSize
                           ELSE h.p_filesz - l.idx
<1>1. HeaderOK(h)
  BY VirtUser
<1>. QED BY <1>1, PageAssumption DEF HeaderOK, LoaderType, CountOf

\* map_user_page adds the page at hand and moves no other.
LEMMA LoadMapText ==
    ASSUME FilesFit, Shape, Sound, Contents, NEW t \in Tasks, load_map(t)
    PROVE  Contents'
<1>1. PICK l, m, m2, r, C, v, p, h :
            /\ l = loader[t] /\ m = mm /\ m2 = mm' /\ r = ram /\ C = Created
            /\ v = VirtOf(l) /\ p = l.page /\ h = Headers(l)[l.i]
  OBVIOUS
<1>2. l.pc = "map" /\ ram' = ram
  BY <1>1 DEF load_map, At, Runs, phys_vars
<1>3. virt(t) = v /\ phdr(t) = h
  BY <1>1 DEF virt, addr_start, phdr, File, VirtOf, Start, Headers
<1>4. m2 = map_page(m, t, v, p)
  BY <1>1, <1>3 DEF load_map, map_user_page
<1>5. PICK c : /\ c = IF l.idx < h.p_filesz THEN "read" ELSE "zero"
               /\ loader' = [loader EXCEPT ![t] = [l EXCEPT !.page = 0, !.pos = 0, !.pc = c]]
  BY <1>1, <1>3 DEF load_map, Goto
<1>6. /\ l \in LoaderType /\ PlaceOK(l) /\ C \in SUBSET Tasks /\ t \in C
      /\ IsMM(m) /\ DirsOK(m, C) /\ KmemMapped(m, kmem_phys_end)
      /\ kmem_phys_end \in Nat /\ kmem_phys_end <= RegionEnd /\ TextOK(t, r, m, l)
  BY <1>1, <1>2, TaskNow DEF Contents
<1>7. v \in UserPages /\ p \in Nat
  BY <1>1, <1>2, <1>6, VirtUser DEF InSegment, LoaderType, Pages
<1>8. PICK end : end = kmem_phys_end
  OBVIOUS
<1>9. SameElsewhere(m2, m, t, v)
  BY <1>4, <1>6, <1>7, <1>8, MapUser
<1>10. t \in Directories /\ Tasks \subseteq Directories
  BY DEF Directories
<1>11. \A u \in Tasks : u # t => KeepsOwn(u)
  BY <1>1, <1>2, <1>9, <1>10 DEF KeepsOwn, SameUser, SameElsewhere
<1>12. Keeps(t, r, m2, r, m, {v})
  BY <1>9, <1>10 DEF Keeps, SameElsewhere
<1>13. Before(t, r, m2, l) /\ Within(t, r, m2, l)
  <2>1. Before(t, r, m, l) /\ Within(t, r, m, l) /\ l.pc \in InSegment
    BY <1>2, <1>6 DEF TextOK, InFile, InSegment
  <2>. QED BY <1>1, <1>6, <1>12, <2>1, DoneKept
<1>14. PICK k : k = [l EXCEPT !.page = 0, !.pos = 0, !.pc = c]
  OBVIOUS
<1>15. k.pc = c /\ k.file = l.file /\ k.i = l.i /\ k.idx = l.idx /\ k.pos = 0
  BY <1>6, <1>14 DEF LoaderType
<1>16. Before(t, r, m2, k) /\ Within(t, r, m2, k) /\ Headers(k)[k.i] = h
  <2>1. k.pc # "ok" /\ l.pc # "ok"
    BY <1>2, <1>5, <1>15
  <2>. QED BY <1>1, <1>13, <1>15, <2>1, SamePlace
<1>17. /\ h.p_filesz \in Nat /\ l.idx \in Nat /\ PageSize \in Nat /\ PageSize > 0
       /\ CountOf(l) = IF h.p_filesz - l.idx > PageSize THEN PageSize
                       ELSE h.p_filesz - l.idx
  BY <1>1, <1>2, <1>6, Sizes DEF InSegment
<1>18. ReadTo(t, r, m2, k, 0)
  <2>1. \A w \in Cells : ~ (w < 0)
    BY PageAssumption DEF Cells
  <2>. QED BY <2>1 DEF ReadTo
<1>19. TextOK(t, r, m2, k)
  <2>1. CASE c = "read"
    <3>1. l.idx < h.p_filesz /\ 0 < CountOf(l)
      BY <1>5, <1>17, <2>1
    <3>2. CountOf(k) = CountOf(l)
      BY <1>2, <1>5, <1>15, SamePlace
    <3>3. ReadTo(t, r, m2, k, k.pos) /\ k.pos \in Nat /\ k.pos < CountOf(k)
      BY <1>15, <1>18, <3>1, <3>2
    <3>. QED BY <1>15, <1>16, <2>1, <3>1, <3>3 DEF TextOK
  <2>2. CASE c = "zero"
    <3>1. ~ (k.idx < h.p_filesz)
      BY <1>5, <1>15, <1>17, <2>2
    <3>. QED BY <1>15, <1>16, <2>2, <3>1 DEF TextOK
  <2>. QED BY <1>5, <2>1, <2>2
<1>20. TextOK(t, ram', mm', k)
  BY <1>1, <1>2, <1>19
<1>. QED BY <1>5, <1>11, <1>14, <1>20, OneText

\* A page that is written is at one address of one task.
LEMMA WriteKeeps ==
    ASSUME FilesFit, Shape, Sound, NEW t \in Tasks, loader[t].pc \in {"read", "zero"},
           NEW q, q = PhysIn(mm, t, VirtOf(loader[t])), NEW g,
           ram' = [ram EXCEPT ![q] = g], mm' = mm
    PROVE  /\ q \in Pages /\ q # 0 /\ ram'[q] = g
           /\ Keeps(t, ram', mm', ram, mm, {VirtOf(loader[t])})
           /\ \A u \in Tasks : u # t => KeepsOwn(u)
<1>1. PICK l : l = loader[t]
  OBVIOUS
<1>2. l \in LoaderType /\ PlaceOK(l) /\ TaskOK(t, l, loaded[t], mm)
  BY <1>1, TaskNow
<1>3. VirtOf(l) \in UserPages
  BY <1>1, <1>2, VirtUser DEF InSegment
<1>4. q # 0
  BY <1>1, <1>2 DEF TaskOK
<1>5. q \in loaded[t]
  BY <1>1, <1>3, <1>4, MappedLoaded
<1>6. ram \in [Pages -> [Cells -> Nat]] /\ \A u \in Tasks : loaded[u] \in SUBSET Pages
  BY DEF Shape, PhysTypeOK
<1>7. q \in Pages /\ ram'[q] = g /\ \A p \in Pages : p # q => ram'[p] = ram[p]
  BY <1>5, <1>6
<1>8. ASSUME NEW u \in Tasks, u # t PROVE KeepsOwn(u)
  <2>1. q \notin loaded[u]
    BY <1>5, <1>8 DEF Sound, LoadsApart
  <2>. QED BY <1>6, <1>7, <2>1 DEF KeepsOwn, SameUser
<1>9. ASSUME NEW v \in UserPages \ {VirtOf(l)}, PhysIn(mm, t, v) # 0
      PROVE  ram'[PhysIn(mm, t, v)] = ram[PhysIn(mm, t, v)]
  <2>1. PhysIn(mm, t, v) # q
    BY <1>1, <1>2, <1>3, <1>9 DEF TaskOK
  <2>2. PhysIn(mm, t, v) \in Pages
    BY <1>6, <1>9, MappedLoaded
  <2>. QED BY <1>7, <2>1, <2>2
<1>10. Keeps(t, ram', mm', ram, mm, {VirtOf(l)})
  BY <1>9 DEF Keeps
<1>. QED BY <1>1, <1>4, <1>7, <1>8, <1>10

\* pread adds words of the file after the ones that were read.
LEMMA LoadReadText ==
    ASSUME FilesFit, Shape, Sound, Contents, NEW t \in Tasks, load_read(t)
    PROVE  Contents'
<1>1. PICK l, m, r, h, q, r2 :
            /\ l = loader[t] /\ m = mm /\ r = ram /\ h = Headers(l)[l.i]
            /\ q = PhysIn(m, t, VirtOf(l)) /\ r2 = ram'
  OBVIOUS
<1>2. l.pc = "read" /\ mm' = mm
  BY <1>1 DEF load_read, At, Runs
<1>3. virt(t) = VirtOf(l) /\ phdr(t) = h /\ File(t) = Files[l.file]
  BY <1>1 DEF virt, addr_start, phdr, File, VirtOf, Start, Headers
<1>4. l \in LoaderType /\ PlaceOK(l) /\ TextOK(t, r, m, l)
  BY <1>1, TaskNow DEF Contents
<1>5. /\ l.file \in DOMAIN Files /\ Files[l.file].supported /\ HeaderOK(h)
  BY <1>1, <1>2, <1>4, VirtUser DEF InSegment
<1>6. PICK cnt : cnt = CountOf(l)
  OBVIOUS
<1>7. /\ h.p_offset \in Nat /\ h.p_filesz \in Nat /\ l.idx \in Nat
      /\ Files[l.file].len \in Nat /\ PageSize \in Nat /\ PageSize > 0
      /\ l.idx < h.p_filesz /\ cnt \in Nat /\ l.pos \in Nat /\ l.pos < cnt
      /\ ReadTo(t, r, m, l, l.pos) /\ read_cnt(t) = cnt
  <2>1. Files[l.file].len \in Nat
    BY <1>5, FileHeaders
  <2>2. /\ h.p_filesz \in Nat /\ h.p_offset \in Nat /\ l.idx \in Nat
        /\ PageSize \in Nat /\ PageSize > 0
        /\ cnt = IF h.p_filesz - l.idx > PageSize THEN PageSize ELSE h.p_filesz - l.idx
    BY <1>1, <1>2, <1>4, <1>6, Sizes DEF InSegment
  <2>3. l.idx < h.p_filesz /\ l.pos \in Nat /\ l.pos < cnt /\ ReadTo(t, r, m, l, l.pos)
    BY <1>1, <1>2, <1>4, <1>6 DEF TextOK
  <2>4. read_cnt(t) = cnt
    BY <1>1, <1>3, <2>2 DEF read_cnt, Left
  <2>5. cnt \in Nat
    BY <2>2, <2>3
  <2>. QED BY <2>1, <2>2, <2>3, <2>4, <2>5
<1>8. PICK off, n : /\ off = h.p_offset + l.idx
                    /\ n = tar_read(Files[l.file].len, cnt - l.pos, off + l.pos)
  OBVIOUS
<1>9. \/ n = 0 /\ invalid(t) /\ UNCHANGED ram
      \/ /\ n > 0
         /\ ram' = Written(t, l.pos, n, LAMBDA w : Data(off + w))
         /\ Goto(t, [l EXCEPT !.pos = @ + n,
                            !.pc = IF l.pos + n < cnt THEN "read" ELSE "zero"])
  BY <1>1, <1>3, <1>7, <1>8 DEF load_read
<1>10. off \in Nat /\ n \in Nat /\ n <= cnt - l.pos
  BY <1>7, <1>8 DEF tar_read
<1>11. CASE n = 0 /\ invalid(t) /\ UNCHANGED ram
  <2>1. PICK k : k = [NoLoad EXCEPT !.pc = "invalid"]
    OBVIOUS
  <2>2. k.pc = "invalid"
    BY <2>1 DEF NoLoad
  <2>3. TextOK(t, ram', mm', k)
    BY <2>2, NoText
  <2>4. \A u \in Tasks : u # t => KeepsOwn(u)
    BY <1>2, <1>11 DEF KeepsOwn, SameUser
  <2>. QED BY <1>11, <2>1, <2>3, <2>4, OneText DEF invalid, Goto
<1>12. CASE /\ n > 0
            /\ ram' = Written(t, l.pos, n, LAMBDA w : Data(off + w))
            /\ Goto(t, [l EXCEPT !.pos = @ + n,
                            !.pc = IF l.pos + n < cnt THEN "read" ELSE "zero"])
  <2>1. PICK g : g = [w \in Cells |-> IF w \in l.pos .. l.pos + n - 1
                                       THEN Data(off + w) ELSE ram[q][w]]
    OBVIOUS
  <2>2. Translate(t, virt(t)) = q
    BY <1>1, <1>3 DEF Translate, PhysIn
  <2>3. ram \in [Pages -> [Cells -> Nat]]
    BY DEF Shape, PhysTypeOK
  <2>4. q \in Pages
    BY <1>1, <1>2, <2>2, WriteTarget
  <2>5. ram' = [ram EXCEPT ![q] = g]
    BY <1>12, <2>1, <2>2, <2>3, <2>4 DEF Written
  <2>6. /\ r2[q] = g /\ Keeps(t, r2, m, r, m, {VirtOf(l)})
        /\ \A u \in Tasks : u # t => KeepsOwn(u)
    BY <1>1, <1>2, <2>5, WriteKeeps
  <2>7. Before(t, r2, m, l) /\ Within(t, r2, m, l)
    <3>1. Before(t, r, m, l) /\ Within(t, r, m, l) /\ l.pc \in InSegment
      BY <1>2, <1>4 DEF TextOK, InFile, InSegment
    <3>. QED BY <1>4, <2>6, <3>1, DoneKept
  <2>8. ReadTo(t, r2, m, l, l.pos + n)
    <3>1. ASSUME NEW w \in Cells, w < l.pos + n
          PROVE  r2[q][w] = Data(off + w)
      <4>1. w \in Nat
        BY <1>7 DEF Cells
      <4>2. CASE w < l.pos
        <5>1. r2[q][w] = ram[q][w]
          BY <1>7, <1>10, <2>1, <2>6, <4>1, <4>2
        <5>2. ram[q][w] = Data(off + w)
          BY <1>1, <1>7, <1>8, <4>2 DEF ReadTo
        <5>. QED BY <5>1, <5>2
      <4>3. CASE ~ (w < l.pos)
        <5>1. w \in l.pos .. l.pos + n - 1
          BY <1>7, <1>10, <3>1, <4>1, <4>3
        <5>. QED BY <2>1, <2>6, <5>1
      <4>. QED BY <4>2, <4>3
    <3>. QED BY <1>1, <1>8, <3>1 DEF ReadTo
  <2>9. PICK k, c : /\ c = IF l.pos + n < cnt THEN "read" ELSE "zero"
                    /\ k = [l EXCEPT !.pos = @ + n, !.pc = c]
    OBVIOUS
  <2>10. /\ k.pc = c /\ k.file = l.file /\ k.i = l.i /\ k.idx = l.idx
         /\ k.pos = l.pos + n
    BY <1>4, <2>9 DEF LoaderType
  <2>11. /\ Before(t, r2, m, k) /\ Within(t, r2, m, k) /\ Headers(k)[k.i] = h
         /\ ReadTo(t, r2, m, k, l.pos + n) /\ CountOf(k) = cnt
    <3>1. k.pc # "ok" /\ l.pc # "ok"
      BY <1>2, <2>9, <2>10
    <3>. QED BY <1>1, <1>6, <2>7, <2>8, <2>10, <3>1, SamePlace
  <2>12. TextOK(t, r2, m, k)
    <3>1. CASE c = "read"
      <4>1. k.pos \in Nat /\ k.pos < cnt /\ k.idx < h.p_filesz
        BY <1>7, <1>10, <2>9, <2>10, <3>1
      <4>. QED BY <2>10, <2>11, <3>1, <4>1 DEF TextOK
    <3>2. CASE c = "zero"
      <4>1. l.pos + n = cnt
        BY <1>7, <1>10, <2>9, <3>2
      <4>. QED BY <2>10, <2>11, <3>2, <4>1 DEF TextOK
    <3>. QED BY <2>9, <3>1, <3>2
  <2>13. TextOK(t, ram', mm', k)
    BY <1>1, <1>2, <2>12
  <2>14. loader' = [loader EXCEPT ![t] = k]
    BY <1>12, <2>9 DEF Goto
  <2>. QED BY <2>6, <2>13, <2>14, OneText
<1>. QED BY <1>9, <1>11, <1>12

\* memset begins where the data of the file ends, or at 0 if the page is all in
\* the file or behind it, so that no word of the former owner is left.
LEMMA LoadZeroText ==
    ASSUME FilesFit, Shape, Sound, Contents, NEW t \in Tasks, load_zero(t)
    PROVE  Contents'
<1>1. PICK l, m, r, h, q, r2, at :
            /\ l = loader[t] /\ m = mm /\ r = ram /\ h = Headers(l)[l.i]
            /\ q = PhysIn(m, t, VirtOf(l)) /\ r2 = ram' /\ at = memset_at(t)
  OBVIOUS
<1>2. l.pc = "zero" /\ mm' = mm /\ ram' = Written(t, at, PageSize - at, LAMBDA w : 0)
  BY <1>1 DEF load_zero, At, Runs
<1>3. virt(t) = VirtOf(l) /\ phdr(t) = h
  BY <1>1 DEF virt, addr_start, phdr, File, VirtOf, Start, Headers
<1>4. l \in LoaderType /\ PlaceOK(l) /\ TextOK(t, r, m, l)
  BY <1>1, TaskNow DEF Contents
<1>5. /\ l.file \in DOMAIN Files /\ Files[l.file].supported /\ HeaderOK(h)
      /\ l.i \in DOMAIN Headers(l) /\ Start(l) \in Nat
  BY <1>1, <1>2, <1>4, VirtUser DEF InSegment
<1>6. PICK n \in 0 .. l.idx : /\ l.idx = n * PageSize /\ l.idx \div PageSize = n
                              /\ VirtOf(l) = Start(l) + n
  BY <1>2, <1>4, VirtUser DEF InSegment
<1>7. /\ h.p_filesz \in Nat /\ h.p_offset \in Nat /\ l.idx \in Nat
      /\ CountOf(l) = IF h.p_filesz - l.idx > PageSize THEN PageSize
                      ELSE h.p_filesz - l.idx
  BY <1>1, <1>2, <1>4, Sizes DEF InSegment
<1>8. /\ PageSize \in Nat /\ PageSize > 0 /\ n \in Nat /\ h.p_memsz \in Nat
      /\ h.load /\ l.idx < h.p_memsz /\ l.i \in Nat
  <2>1. h.load /\ l.idx < h.p_memsz
    BY <1>1, <1>2, <1>4 DEF PlaceOK, InSegment
  <2>. QED BY <1>4, <1>5, <1>7, <2>1, PageAssumption DEF HeaderOK, LoaderType
<1>9. at = IF l.idx >= h.p_filesz \/ h.p_filesz - l.idx > PageSize THEN 0
           ELSE h.p_filesz - l.idx
  BY <1>1, <1>3, <1>7, <1>8 DEF memset_at, read_cnt, Left
<1>10. PICK g : g = [w \in Cells |-> IF w \in at .. at + (PageSize - at) - 1
                                     THEN 0 ELSE ram[q][w]]
  OBVIOUS
<1>11. Translate(t, virt(t)) = q
  BY <1>1, <1>3 DEF Translate, PhysIn
<1>12. q \in Pages
  BY <1>1, <1>2, <1>11, WriteTarget
<1>13. ram' = [ram EXCEPT ![q] = g]
  <2>1. ram \in [Pages -> [Cells -> Nat]]
    BY DEF Shape, PhysTypeOK
  <2>. QED BY <1>2, <1>10, <1>11, <1>12, <2>1 DEF Written
<1>14. /\ r2[q] = g /\ q # 0 /\ Keeps(t, r2, m, r, m, {VirtOf(l)})
       /\ \A u \in Tasks : u # t => KeepsOwn(u)
  BY <1>1, <1>2, <1>13, WriteKeeps
<1>15. Before(t, r2, m, l) /\ Within(t, r2, m, l)
  <2>1. Before(t, r, m, l) /\ Within(t, r, m, l) /\ l.pc \in InSegment
    BY <1>2, <1>4 DEF TextOK, InFile, InSegment
  <2>. QED BY <1>4, <1>14, <2>1, DoneKept
<1>16. l.idx + PageSize = (n + 1) * PageSize /\ n * PageSize = l.idx
  BY <1>6, <1>8
<1>17. Filled(t, r2, m, h, n)
  <2>1. ASSUME NEW w \in Cells PROVE CleanWord(h, n, w, r2[q][w])
    <3>1. w \in Nat /\ w < PageSize
      BY <1>8 DEF Cells
    <3>2. at \in Nat /\ at <= PageSize
      BY <1>7, <1>8, <1>9
    <3>3. r2[q][w] = IF at <= w THEN 0 ELSE ram[q][w]
      BY <1>8, <1>10, <1>14, <3>1, <3>2
    <3>4. PICK x, o, top : x = r2[q][w] /\ o = l.idx + w /\ top = (n + 1) * PageSize
      OBVIOUS
    <3>5. /\ x \in {0, Data(h.p_offset + o)}
          /\ o >= h.p_filesz => x = 0
          /\ o < h.p_filesz /\ h.p_filesz <= top => x = Data(h.p_offset + o)
      <4>1. CASE at <= w
        <5>1. x = 0
          BY <3>3, <3>4, <4>1
        <5>2. ~ (o < h.p_filesz /\ h.p_filesz <= top)
          BY <1>7, <1>8, <1>9, <1>16, <3>1, <3>4, <4>1
        <5>. QED BY <5>1, <5>2
      <4>2. CASE ~ (at <= w)
        <5>1. l.idx < h.p_filesz /\ at = CountOf(l) /\ w < at /\ o < h.p_filesz
          BY <1>7, <1>8, <1>9, <3>1, <3>2, <3>4, <4>2
        <5>2. ram[q][w] = Data(h.p_offset + l.idx + w)
          BY <1>1, <1>2, <1>4, <5>1 DEF TextOK, ReadTo
        <5>3. h.p_offset + l.idx + w = h.p_offset + o
          BY <1>7, <3>1, <3>4
        <5>4. x = Data(h.p_offset + o)
          BY <3>3, <3>4, <4>2, <5>2, <5>3
        <5>5. ~ (o >= h.p_filesz)
          BY <1>7, <3>1, <3>4, <5>1
        <5>. QED BY <5>4, <5>5
      <4>. QED BY <4>1, <4>2
    <3>. QED BY <1>16, <3>4, <3>5 DEF CleanWord
  <2>2. PhysIn(m, t, h.p_vaddr \div PageSize + n) = q
    BY <1>1, <1>6 DEF Start
  <2>. QED BY <1>14, <2>1, <2>2 DEF Filled
<1>18. \A k \in 0 .. l.idx : k <= n => Filled(t, r2, m, h, k)
  <2>1. \A k \in 0 .. l.idx : k < n => Filled(t, r2, m, h, k)
    BY <1>1, <1>6, <1>15 DEF Within
  <2>. QED BY <1>8, <1>17, <2>1
<1>19. \/ /\ l.idx + PageSize < h.p_memsz
          /\ loader' = [loader EXCEPT ![t] = [l EXCEPT !.pc = "alloc",
                                            !.idx = l.idx + PageSize, !.pos = 0]]
       \/ /\ ~ (l.idx + PageSize < h.p_memsz)
          /\ loader' = [loader EXCEPT ![t] = [NoLoad EXCEPT !.pc = "phdr",
                                            !.file = l.file, !.i = l.i + 1]]
  BY <1>1, <1>3 DEF load_zero, Goto
<1>20. l.idx + PageSize = (n + 1) * PageSize /\ n <= l.idx
  BY <1>6, <1>16
<1>21. CASE loader' = [loader EXCEPT ![t] = [l EXCEPT !.pc = "alloc",
                                            !.idx = l.idx + PageSize, !.pos = 0]]
  <2>1. PICK k : k = [l EXCEPT !.pc = "alloc", !.idx = l.idx + PageSize, !.pos = 0]
    OBVIOUS
  <2>2. k.pc = "alloc" /\ k.file = l.file /\ k.i = l.i /\ k.idx = l.idx + PageSize
    BY <1>4, <2>1 DEF LoaderType
  <2>3. Headers(k) = Headers(l)
    BY <2>2 DEF Headers
  <2>4. Before(t, r2, m, k)
    BY <1>2, <1>15, <2>2, <2>3 DEF Before
  <2>5. k.idx \div PageSize = n + 1
    <3>1. \A a, b \in Nat : b > 0 => (a * b) \div b = a
      OBVIOUS
    <3>2. n + 1 \in Nat
      BY <1>8
    <3>3. ((n + 1) * PageSize) \div PageSize = n + 1
      BY <1>8, <3>1, <3>2
    <3>. QED BY <1>20, <2>2, <3>3
  <2>6. \A j \in 0 .. k.idx : j < n + 1 => j \in 0 .. l.idx /\ j <= n
    BY <1>7, <1>8, <1>20, <2>2
  <2>7. Within(t, r2, m, k)
    BY <1>1, <1>18, <2>2, <2>3, <2>5, <2>6 DEF Within
  <2>8. TextOK(t, r2, m, k)
    BY <2>2, <2>4, <2>7 DEF TextOK
  <2>9. TextOK(t, ram', mm', k)
    BY <1>1, <1>2, <2>8
  <2>. QED BY <1>14, <1>21, <2>1, <2>9, OneText
<1>22. CASE /\ ~ (l.idx + PageSize < h.p_memsz)
            /\ loader' = [loader EXCEPT ![t] = [NoLoad EXCEPT !.pc = "phdr",
                                            !.file = l.file, !.i = l.i + 1]]
  <2>1. PICK k : k = [NoLoad EXCEPT !.pc = "phdr", !.file = l.file, !.i = l.i + 1]
    OBVIOUS
  <2>2. k.pc = "phdr" /\ k.file = l.file /\ k.i = l.i + 1
    BY <2>1 DEF NoLoad
  <2>3. Headers(k) = Headers(l)
    BY <2>2 DEF Headers
  <2>4. ASSUME NEW j \in PageNumbers(h) PROVE Filled(t, r2, m, h, j)
    <3>1. j \in Nat /\ j * PageSize < (n + 1) * PageSize
      <4>1. j \in Nat /\ j * PageSize < h.p_memsz
        BY <1>8 DEF PageNumbers
      <4>2. j * PageSize \in Nat
        BY <1>8, <4>1
      <4>. QED BY <1>8, <1>20, <1>22, <4>1, <4>2
    <3>2. j < n + 1
      <4>1. \A a, b, c \in Nat : a * c < b * c => a < b
        OBVIOUS
      <4>2. n + 1 \in Nat
        BY <1>8
      <4>. QED BY <1>8, <3>1, <4>1, <4>2
    <3>3. j \in 0 .. l.idx /\ j <= n
      BY <1>7, <1>8, <1>20, <3>1, <3>2
    <3>. QED BY <1>18, <3>3
  <2>5. \A j \in DOMAIN Headers(l) : j < k.i => j < l.i \/ j = l.i
    <3>1. DOMAIN Headers(l) \subseteq Nat
      BY <1>5, FileHeaders DEF Headers
    <3>. QED BY <1>8, <2>2, <3>1
  <2>6. Before(t, r2, m, k)
    BY <1>1, <1>15, <2>2, <2>3, <2>4, <2>5 DEF Before
  <2>7. TextOK(t, r2, m, k)
    BY <2>2, <2>6 DEF TextOK, InSegment
  <2>8. TextOK(t, ram', mm', k)
    BY <1>1, <1>2, <2>7
  <2>. QED BY <1>14, <1>22, <2>1, <2>8, OneText
<1>. QED BY <1>19, <1>21, <1>22

----------------------------------------------------------------------------
\* Nothing is loaded at first.
LEMMA ContentsInit ==
    ASSUME Init
    PROVE  ContentsInv
<1>1. ASSUME NEW t \in Tasks PROVE TextOK(t, ram, mm, loader[t])
  <2>1. PICK l : l = loader[t]
    OBVIOUS
  <2>2. l.pc = "none"
    BY <2>1 DEF Init, NoLoad
  <2>. QED BY <2>1, <2>2, NoText
<1>. QED BY <1>1 DEF ContentsInv, Contents

\* Every step of every task and owner of pages keeps what was loaded.
LEMMA ContentsNext ==
    ASSUME FilesFit, ElfInv, ContentsInv, [Next]_vars
    PROVE  ContentsInv'
<1>. SUFFICES ASSUME Runs' PROVE Contents'
  BY DEF ContentsInv
<1>0. panic' = "no"
  BY DEF Runs
<1>1. Shape /\ (Runs => Sound /\ Contents)
  BY DEF ElfInv, ContentsInv
<1>2. ASSUME NEW t \in Tasks, allocate(t) PROVE Contents'
  BY <1>1, <1>2, AllocateText DEF allocate, At
<1>3. ASSUME NEW t \in Tasks, task_wrapper(t) PROVE Contents'
  BY <1>1, <1>3, WrapperText DEF task_wrapper, At
<1>4. ASSUME NEW t \in Tasks, load_elf(t) PROVE Contents'
  BY <1>0, <1>1, <1>4, LoadElfText DEF load_elf, At
<1>5. ASSUME NEW t \in Tasks, next_phdr(t) PROVE Contents'
  BY <1>1, <1>5, NextPhdrText DEF next_phdr, At
<1>6. ASSUME NEW t \in Tasks, load_alloc(t) PROVE Contents'
  BY <1>0, <1>1, <1>6, LoadAllocText DEF load_alloc, At
<1>7. ASSUME NEW t \in Tasks, load_map(t) PROVE Contents'
  BY <1>1, <1>7, LoadMapText DEF load_map, At
<1>8. ASSUME NEW t \in Tasks, load_read(t) PROVE Contents'
  BY <1>1, <1>8, LoadReadText DEF load_read, At
<1>9. ASSUME NEW t \in Tasks, load_zero(t) PROVE Contents'
  BY <1>1, <1>9, LoadZeroText DEF load_zero, At
<1>10. CASE kmem_grows
  BY <1>0, <1>1, <1>10, KmemGrowsText DEF kmem_grows
<1>11. CASE other_alloc
  BY <1>1, <1>11, OtherAllocText DEF other_alloc
<1>12. CASE other_free
  BY <1>1, <1>12, OtherFreeText DEF other_free
<1>13. CASE UNCHANGED vars
  <2>1. UNCHANGED <<panic, stray, loader, ram, mm>> /\ (Runs' <=> Runs)
    BY <1>13 DEF vars, phys_vars, Runs
  <2>. QED BY <1>1, <2>1 DEF Contents
<1>14. CASE Halt
  <2>1. (Runs' <=> Runs) /\ ~Runs
    BY <1>14 DEF Halt, vars, phys_vars, Runs
  <2>. QED BY <2>1
<1>. QED
  BY <1>2, <1>3, <1>4, <1>5, <1>6, <1>7, <1>8, <1>9, <1>10, <1>11, <1>12, <1>13, <1>14
  DEF Next

\* When load_elf has returned ok, the pages of every segment are clean.
LEMMA ContentsClean ==
    ASSUME ContentsInv
    PROVE  LoadedClean
<1>1. SUFFICES ASSUME Runs, NEW t \in Tasks, loader[t].pc = "ok",
                      NEW i \in DOMAIN File(t).phdrs, NEW h, h = File(t).phdrs[i],
                      NEW k \in PageNumbers(h)
               PROVE  LET p == Translate(t, h.p_vaddr \div PageSize + k) IN
                      p # 0 /\ \A w \in Cells : CleanWord(h, k, w, ram[p][w])
  BY DEF LoadedClean, Apart
<1>2. PICK l, r, m : l = loader[t] /\ r = ram /\ m = mm
  OBVIOUS
<1>3. TextOK(t, r, m, l) /\ l.pc = "ok"
  BY <1>1, <1>2 DEF ContentsInv, Contents
<1>4. i \in DOMAIN Headers(l) /\ h = Headers(l)[i]
  BY <1>1, <1>2 DEF File, Headers
<1>5. Filled(t, r, m, h, k)
  BY <1>1, <1>3, <1>4 DEF TextOK, Before
<1>6. Translate(t, h.p_vaddr \div PageSize + k) =
            PhysIn(m, t, h.p_vaddr \div PageSize + k)
  BY <1>2 DEF Translate, PhysIn
<1>. QED BY <1>2, <1>5, <1>6 DEF Filled

\* The pages of a program are clean once load_elf has returned ok, whatever
\* other tasks and other owners of pages do meanwhile and after, while memory
\* is Apart: no word of a former owner is left in them, and what the file's
\* last page of a segment has is there, with zeros behind it.
THEOREM LoadsStayClean ==
    ASSUME FilesFit
    PROVE  Spec => []LoadedClean
<1>1. Init => ContentsInv
  BY ContentsInit
<1>2. ElfInv /\ ContentsInv /\ [Next]_vars => ContentsInv'
  BY ContentsNext
<1>3. ContentsInv => LoadedClean
  BY ContentsClean
<1>. QED BY <1>1, <1>2, <1>3, ElfInvariance, PTL DEF Spec
=============================================================================
