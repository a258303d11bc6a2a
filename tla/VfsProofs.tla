------------------------------ MODULE VfsProofs ------------------------------
(***************************************************************************)
(* Proofs about the file system, for any number of tasks, mount points,    *)
(* archives, paths, inodes and files: reference counts, the tables of      *)
(* inodes, who may still reach a struct that is freed, which kasserts can  *)
(* fail, and what a path leads to.                                         *)
(***************************************************************************)
EXTENDS Vfs, ListProofs, SequenceTheorems

----------------------------------------------------------------------------
(***************************************************************************)
(* Archives: names, numbers, and back.                                     *)
(***************************************************************************)

\* from numbers the entries of archive up to size.
Numbering(f, archive, size) ==
    f = [j \in 1 .. size |->
            IF j = 1 THEN 3 ELSE f[j - 1] + slashes(archive[j - 1]) + 1]

\* The parts of an entry of an archive.
LEMMA EntryFacts ==
    ASSUME NEW a \in Seq(Entry), NEW i \in DOMAIN a
    PROVE  /\ Len(a) \in Nat /\ DOMAIN a = 1 .. Len(a)
           /\ a[i].name \in Seq(STRING)
           /\ Len(a[i].name) \in 1 .. NameMax
           /\ slashes(a[i]) \in Nat
           /\ slashes(a[i]) + 1 >= Len(a[i].name)
           /\ slashes(a[i]) <= NameMax
           /\ a[i].size \in Nat
<1>1. a[i] \in Entry /\ Len(a) \in Nat /\ DOMAIN a = 1 .. Len(a)
  OBVIOUS
<1>2. a[i].name \in Seq(STRING) /\ Len(a[i].name) \in 1 .. NameMax /\ a[i].dir \in BOOLEAN
      /\ a[i].size \in Nat
  BY <1>1 DEF Entry
<1>. QED BY <1>1, <1>2, NameAssumption DEF slashes

\* The numbering exists, and has what every step of the loops adds.
LEMMA NumberingExists ==
    ASSUME NEW a \in Seq(Entry), NEW size \in Nat, size <= Len(a)
    PROVE  \E f : Numbering(f, a, size)
<1>. DEFINE T == {m \in Nat : m <= Len(a) => \E f : Numbering(f, a, m)}
<1>0. Len(a) \in Nat
  OBVIOUS
<1>1. 0 \in T
  <2>1. Numbering([j \in 1 .. 0 |-> 3], a, 0)
    BY DEF Numbering
  <2>. QED BY <2>1
<1>2. ASSUME NEW m \in T PROVE m + 1 \in T
  <2>. SUFFICES ASSUME m + 1 <= Len(a) PROVE \E f : Numbering(f, a, m + 1)
    OBVIOUS
  <2>1. m \in Nat /\ m <= Len(a)
    BY <1>0
  <2>2. PICK f : Numbering(f, a, m)
    BY <1>2, <2>1
  <2>. DEFINE h == [j \in 1 .. m + 1 |->
                      IF j = 1 THEN 3
                      ELSE IF j = m + 1 THEN f[m] + slashes(a[m]) + 1 ELSE f[j]]
  <2>3. \A j \in 1 .. m : f[j] = IF j = 1 THEN 3 ELSE f[j - 1] + slashes(a[j - 1]) + 1
    BY <2>2 DEF Numbering
  <2>4. \A j \in 1 .. m : h[j] = f[j]
    BY <2>1, <2>3
  <2>5. ASSUME NEW j \in 1 .. m + 1
        PROVE  h[j] = IF j = 1 THEN 3 ELSE h[j - 1] + slashes(a[j - 1]) + 1
    <3>1. CASE j = 1
      BY <3>1
    <3>2. CASE j # 1 /\ j = m + 1
      BY <2>1, <2>4, <3>2
    <3>3. CASE j # 1 /\ j # m + 1
      <4>1. j \in 1 .. m /\ j - 1 \in 1 .. m
        BY <2>1, <3>3
      <4>. QED BY <2>3, <2>4, <4>1, <3>3
    <3>. QED BY <3>1, <3>2, <3>3
  <2>6. h = [j \in 1 .. m + 1 |-> h[j]]
    OBVIOUS
  <2>. HIDE DEF h
  <2>7. Numbering(h, a, m + 1)
    BY <2>5, <2>6 DEF Numbering
  <2>. QED BY <2>7
<1>3. size \in T
  BY <1>1, <1>2, NatInd
<1>. QED BY <1>3

\* Number is the last value of a numbering.
LEMMA NumberIs ==
    ASSUME NEW a \in Seq(Entry), NEW i \in DOMAIN a
    PROVE  \E f : Numbering(f, a, i) /\ Number(a, i) = f[i]
<1>. DEFINE Eq(f) == f = [j \in 1 .. i |->
                      IF j = 1 THEN 3 ELSE f[j - 1] + slashes(a[j - 1]) + 1]
            w == CHOOSE f : Eq(f)
<1>1. i \in Nat /\ i <= Len(a)
  OBVIOUS
<1>2. \E f : Eq(f)
  BY <1>1, NumberingExists DEF Numbering
<1>3. Eq(w)
  BY <1>2
<1>4. Number(a, i) = w[i]
  BY DEF Number
<1>. HIDE DEF w
<1>5. Numbering(w, a, i)
  BY <1>3 DEF Numbering
<1>. QED BY <1>4, <1>5

\* Two numberings agree where both are defined.
LEMMA NumberingUnique ==
    ASSUME NEW a, NEW m \in Nat, NEW n \in Nat, m <= n,
           NEW f, Numbering(f, a, m), NEW g, Numbering(g, a, n)
    PROVE  \A j \in 1 .. m : f[j] = g[j]
<1>. DEFINE T == {j \in Nat : j \in 1 .. m => f[j] = g[j]}
<1>1. 0 \in T
  OBVIOUS
<1>2. ASSUME NEW j \in T PROVE j + 1 \in T
  <2>. SUFFICES ASSUME j + 1 \in 1 .. m PROVE f[j + 1] = g[j + 1]
    OBVIOUS
  <2>0. j \in Nat
    OBVIOUS
  <2>1. /\ f[j + 1] = IF j + 1 = 1 THEN 3 ELSE f[j] + slashes(a[j]) + 1
        /\ g[j + 1] = IF j + 1 = 1 THEN 3 ELSE g[j] + slashes(a[j]) + 1
    <3>1. j + 1 \in 1 .. n /\ (j + 1) - 1 = j
      BY <2>0
    <3>. QED BY <3>1 DEF Numbering
  <2>2. j # 0 => f[j] = g[j]
    BY <1>2, <2>0
  <2>. QED BY <2>0, <2>1, <2>2
<1>. HIDE DEF T
<1>3. \A j \in Nat : j \in T
  BY <1>1, <1>2, NatInd DEF T
<1>. QED BY <1>3 DEF T

\* The number of an entry is that of the one before it, its slashes and one.
LEMMA NumberNext ==
    ASSUME NEW a \in Seq(Entry), NEW i \in DOMAIN a
    PROVE  Number(a, i) = IF i = 1 THEN 3
                          ELSE Number(a, i - 1) + slashes(a[i - 1]) + 1
<1>0. i \in Nat /\ i >= 1 /\ Len(a) \in Nat /\ DOMAIN a = 1 .. Len(a)
  OBVIOUS
<1>1. PICK f : Numbering(f, a, i) /\ Number(a, i) = f[i]
  BY NumberIs
<1>2. f[i] = IF i = 1 THEN 3 ELSE f[i - 1] + slashes(a[i - 1]) + 1
  BY <1>0, <1>1 DEF Numbering
<1>3. CASE i # 1
  <2>0. i - 1 \in DOMAIN a /\ i - 1 \in Nat /\ i - 1 <= i /\ i - 1 \in 1 .. i - 1
    BY <1>0, <1>3
  <2>1. PICK g : Numbering(g, a, i - 1) /\ Number(a, i - 1) = g[i - 1]
    BY <2>0, NumberIs
  <2>2. g[i - 1] = f[i - 1]
    <3>1. \A j \in 1 .. i - 1 : g[j] = f[j]
      BY <1>0, <1>1, <2>0, <2>1, NumberingUnique
    <3>. QED BY <2>0, <3>1
  <2>. QED BY <1>1, <1>2, <1>3, <2>1, <2>2
<1>. QED BY <1>1, <1>2, <1>3

\* One row more of a product.
LEMMA TimesNext ==
    ASSUME NEW j \in Nat, NEW K \in Nat
    PROVE  (j + 1) * K = j * K + K /\ j * K \in Nat /\ 0 * K = 0
  OBVIOUS

\* Numbers start with 3 and leave room for the components of every entry.
LEMMA NumberBounds ==
    ASSUME NEW a \in Seq(Entry), NEW i \in DOMAIN a
    PROVE  Number(a, i) \in 3 .. 3 + (i - 1) * (NameMax + 1)
<1>. DEFINE K == NameMax + 1
            T == {j \in Nat : j + 1 \in DOMAIN a =>
                    Number(a, j + 1) \in 3 .. 3 + j * K}
<1>0. Len(a) \in Nat /\ DOMAIN a = 1 .. Len(a) /\ K \in Nat /\ i - 1 \in Nat
  BY NameAssumption
<1>1. 0 \in T
  <2>1. 1 \in DOMAIN a => Number(a, 1) = 3
    BY NumberNext
  <2>2. 0 * K = 0 /\ 0 + 1 = 1
    BY <1>0, TimesNext
  <2>3. 0 + 1 \in DOMAIN a => Number(a, 0 + 1) \in 3 .. 3 + 0 * K
    BY <2>1, <2>2
  <2>. QED BY <2>3
<1>2. ASSUME NEW j \in T PROVE j + 1 \in T
  <2>0. j \in Nat
    OBVIOUS
  <2>. SUFFICES ASSUME (j + 1) + 1 \in DOMAIN a
                PROVE  Number(a, (j + 1) + 1) \in 3 .. 3 + (j + 1) * K
    BY <2>0
  <2>1. j + 1 \in DOMAIN a
    BY <1>0, <2>0
  <2>2. Number(a, j + 1) \in 3 .. 3 + j * K
    BY <1>2, <2>1
  <2>3. slashes(a[j + 1]) \in Nat /\ slashes(a[j + 1]) + 1 <= K
    <3>. DEFINE k == j + 1
    <3>. HIDE DEF k
    <3>1. k \in DOMAIN a
      BY <2>1 DEF k
    <3>2. slashes(a[k]) \in Nat /\ slashes(a[k]) <= NameMax
      BY <3>1, EntryFacts
    <3>. QED BY <3>2, NameAssumption DEF k
  <2>4. Number(a, (j + 1) + 1) = Number(a, j + 1) + slashes(a[j + 1]) + 1
    <3>1. (j + 1) + 1 # 1 /\ ((j + 1) + 1) - 1 = j + 1
      BY <2>0
    <3>. QED BY <3>1, NumberNext
  <2>5. (j + 1) * K = j * K + K /\ j * K \in Nat
    BY <1>0, <2>0, TimesNext
  <2>. HIDE DEF K
  <2>. QED BY <1>0, <2>2, <2>3, <2>4, <2>5
<1>. HIDE DEF T, K
<1>3. \A j \in Nat : j \in T
  BY <1>1, <1>2, NatInd DEF T
<1>4. i - 1 \in T /\ (i - 1) + 1 = i
  BY <1>0, <1>3
<1>. QED BY <1>0, <1>4 DEF T, K

\* The numbers of an entry's components come before those of later entries.
LEMMA NumbersApart ==
    ASSUME NEW a \in Seq(Entry), NEW i \in DOMAIN a, NEW j \in DOMAIN a, i < j
    PROVE  Number(a, i) + Len(a[i].name) <= Number(a, j)
<1>. DEFINE T == {d \in Nat : i + d + 1 \in DOMAIN a =>
                    Number(a, i) + Len(a[i].name) <= Number(a, i + d + 1)}
<1>0. Len(a) \in Nat /\ DOMAIN a = 1 .. Len(a) /\ i \in Nat /\ j \in Nat
  OBVIOUS
<1>1. \A k \in DOMAIN a : Number(a, k) \in Nat /\ slashes(a[k]) \in Nat
                          /\ Len(a[k].name) \in Nat
                          /\ slashes(a[k]) + 1 >= Len(a[k].name)
  <2>1. ASSUME NEW k \in DOMAIN a PROVE Number(a, k) \in Nat
    <3>1. Number(a, k) \in 3 .. 3 + (k - 1) * (NameMax + 1)
      BY NumberBounds
    <3>2. 3 + (k - 1) * (NameMax + 1) \in Int
      BY <1>0, NameAssumption
    <3>. QED BY <3>1, <3>2
  <2>. QED BY <2>1, EntryFacts
<1>2. 0 \in T
  <2>. SUFFICES ASSUME i + 1 \in DOMAIN a
                PROVE  Number(a, i) + Len(a[i].name) <= Number(a, i + 1)
    BY <1>0
  <2>1. Number(a, i + 1) = Number(a, i) + slashes(a[i]) + 1
    <3>1. i + 1 # 1 /\ (i + 1) - 1 = i
      BY <1>0
    <3>. QED BY <3>1, NumberNext
  <2>2. Number(a, i) \in Nat /\ slashes(a[i]) \in Nat /\ Len(a[i].name) \in Nat
        /\ slashes(a[i]) + 1 >= Len(a[i].name)
    BY <1>1
  <2>. HIDE DEF T
  <2>. QED BY <2>1, <2>2
<1>3. ASSUME NEW d \in T PROVE d + 1 \in T
  <2>0. d \in Nat
    OBVIOUS
  <2>. DEFINE k == i + d + 1
  <2>. SUFFICES ASSUME k + 1 \in DOMAIN a
                PROVE  Number(a, i) + Len(a[i].name) <= Number(a, k + 1)
    BY <1>0, <2>0
  <2>1. k \in DOMAIN a /\ k + 1 # 1 /\ (k + 1) - 1 = k
    BY <1>0, <2>0
  <2>2. Number(a, i) + Len(a[i].name) <= Number(a, k)
    BY <1>3, <2>1
  <2>3. Number(a, k + 1) = Number(a, k) + slashes(a[k]) + 1
    BY <2>1, NumberNext
  <2>. HIDE DEF k
  <2>4. Number(a, k) \in Nat /\ slashes(a[k]) \in Nat
        /\ Number(a, i) \in Nat /\ Len(a[i].name) \in Nat
    BY <1>1, <2>1
  <2>. HIDE DEF T
  <2>. QED BY <2>2, <2>3, <2>4
<1>. HIDE DEF T
<1>4. \A d \in Nat : d \in T
  BY <1>2, <1>3, NatInd DEF T
<1>5. j - i - 1 \in T /\ i + (j - i - 1) + 1 = j
  BY <1>0, <1>4
<1>. QED BY <1>5 DEF T

\* tar_lookup, where it succeeds: the first entry at or below filename.
LEMMA LookupIs ==
    ASSUME NEW a \in Seq(Entry), NEW name \in Seq(STRING), Len(name) >= 1
    PROVE  /\ tar_lookup(a, name).err \in {"ok", "no_entry", "path_too_long"}
           /\ Len(name) > NameMax => tar_lookup(a, name).err = "path_too_long"
           /\ Len(name) <= NameMax => tar_lookup(a, name).err =
                IF \E i \in DOMAIN a : /\ Len(name) <= Len(a[i].name)
                                      /\ Prefix(a[i].name, Len(name)) = name
                THEN "ok" ELSE "no_entry"
           /\ tar_lookup(a, name).err = "ok" =>
                \E i \in DOMAIN a :
                    /\ Len(name) <= Len(a[i].name)
                    /\ Prefix(a[i].name, Len(name)) = name
                    /\ tar_lookup(a, name).i_num = Number(a, i) + Len(name) - 1
<1>. DEFINE n == Len(name)
            hits == {i \in DOMAIN a : /\ n <= Len(a[i].name)
                                      /\ Prefix(a[i].name, n) = name}
            first == CHOOSE i \in hits : \A j \in hits : i <= j
<1>1. tar_lookup(a, name) =
        IF n > NameMax THEN [err |-> "path_too_long", i_num |-> 0]
        ELSE IF hits = {} THEN [err |-> "no_entry", i_num |-> 0]
        ELSE [err |-> "ok", i_num |-> Number(a, first) + n - 1]
  BY DEF tar_lookup
<1>2. hits # {} => first \in hits
  <2>. SUFFICES ASSUME hits # {} PROVE \E i \in hits : \A j \in hits : i <= j
    OBVIOUS
  <2>1. hits \in SUBSET Nat
    OBVIOUS
  <2>. HIDE DEF hits
  <2>. QED BY <2>1, LeastNat
<1>3. hits = {} <=> ~ \E i \in DOMAIN a : /\ Len(name) <= Len(a[i].name)
                                          /\ Prefix(a[i].name, Len(name)) = name
  BY Zenon
<1>4. hits # {} => first \in DOMAIN a /\ n <= Len(a[first].name)
                   /\ Prefix(a[first].name, n) = name
  BY <1>2
<1>5. n \in Nat /\ NameMax \in Nat
  BY NameAssumption
<1>. HIDE DEF hits, first
<1>. QED BY <1>1, <1>3, <1>4, <1>5

\* The two loops over an archive count alike.
LEMMA LoopsAgree ==
    ASSUME NEW a, NEW i
    PROVE  IndexFrom(a, i) = Number(a, i)
  BY DEF IndexFrom, Number

\* From a name to its number and back.
THEOREM RoundTrip ==
    ASSUME NEW a \in Seq(Entry), NEW name \in Seq(STRING), Len(name) >= 1,
           tar_lookup(a, name).err = "ok"
    PROVE  tar_lookup_by_index(a, tar_lookup(a, name).i_num).name = name
<1>. DEFINE n == Len(name)
            num == tar_lookup(a, name).i_num
            at(i) == num - IndexFrom(a, i) + 1
            hits == {i \in DOMAIN a : at(i) \in 1 .. Len(a[i].name)}
            first == CHOOSE i \in hits : \A j \in hits : i <= j
<1>1. PICK i \in DOMAIN a : /\ n <= Len(a[i].name)
                            /\ Prefix(a[i].name, n) = name
                            /\ num = Number(a, i) + n - 1
  BY LookupIs
<1>2. \A k \in DOMAIN a : Number(a, k) \in Nat /\ Len(a[k].name) \in Nat
  <2>1. ASSUME NEW k \in DOMAIN a PROVE Number(a, k) \in Nat
    <3>1. Number(a, k) \in 3 .. 3 + (k - 1) * (NameMax + 1)
      BY NumberBounds
    <3>2. 3 + (k - 1) * (NameMax + 1) \in Int
      BY NameAssumption
    <3>. QED BY <3>1, <3>2
  <2>. QED BY <2>1, EntryFacts
<1>3. n \in Nat /\ n >= 1 /\ at(i) = n
  <2>1. at(i) = num - Number(a, i) + 1
    BY LoopsAgree
  <2>. QED BY <1>1, <1>2, <2>1
<1>. HIDE DEF num
<1>4. i \in hits
  BY <1>1, <1>2, <1>3
<1>5. ASSUME NEW j \in hits PROVE j = i
  <2>0. j \in DOMAIN a /\ at(j) \in 1 .. Len(a[j].name) /\ i \in Nat /\ j \in Nat
    OBVIOUS
  <2>00. at(j) = num - Number(a, j) + 1
    BY LoopsAgree
  <2>1. Number(a, i) \in Nat /\ Len(a[i].name) \in Nat
        /\ Number(a, j) \in Nat /\ Len(a[j].name) \in Nat
    BY <1>2, <2>0
  <2>2. i < j => Number(a, i) + Len(a[i].name) <= Number(a, j)
    BY <2>0, NumbersApart
  <2>3. j < i => Number(a, j) + Len(a[j].name) <= Number(a, i)
    BY <2>0, NumbersApart
  <2>4. /\ num = Number(a, i) + n - 1 /\ n <= Len(a[i].name)
        /\ num - Number(a, j) + 1 >= 1
        /\ num - Number(a, j) + 1 <= Len(a[j].name)
    BY <1>1, <2>0, <2>00, <2>1
  <2>. HIDE DEF hits, first, n
  <2>5. ~ (i < j)
    <3>. SUFFICES ASSUME i < j PROVE FALSE
      OBVIOUS
    <3>. DEFINE x == Number(a, i)
                y == Number(a, j)
                l == Len(a[i].name)
    <3>1. /\ x + l <= y /\ num = x + n - 1 /\ n <= l /\ num - y + 1 >= 1
          /\ x \in Nat /\ y \in Nat /\ l \in Nat /\ n \in Nat
      BY <1>3, <2>1, <2>2, <2>4
    <3>. HIDE DEF x, y, l
    <3>. QED BY ONLY <3>1
  <2>6. ~ (j < i)
    <3>. SUFFICES ASSUME j < i PROVE FALSE
      OBVIOUS
    <3>. DEFINE x == Number(a, j)
                y == Number(a, i)
                l == Len(a[j].name)
    <3>1. /\ x + l <= y /\ num = y + n - 1 /\ num - x + 1 <= l
          /\ x \in Nat /\ y \in Nat /\ l \in Nat /\ n \in Nat /\ n >= 1
      BY <1>3, <2>1, <2>3, <2>4
    <3>. HIDE DEF x, y, l
    <3>. QED BY ONLY <3>1
  <2>. QED BY <2>0, <2>5, <2>6
<1>6. first = i
  BY <1>4, <1>5
<1>7. tar_lookup_by_index(a, num) =
        IF hits = {} THEN [err |-> "no_entry", name |-> <<>>, len |-> 0]
        ELSE [err |-> "ok", name |-> Prefix(a[first].name, at(first)),
              len |-> a[first].size]
  BY DEF tar_lookup_by_index
<1>. HIDE DEF hits, first, n
<1>8. tar_lookup_by_index(a, num).name = Prefix(a[first].name, at(first))
  BY <1>4, <1>7
<1>. QED BY <1>1, <1>3, <1>6, <1>8 DEF num, n

\* The types of what tar_lookup_by_index returns.
LEMMA IndexTypes ==
    ASSUME NEW a \in Seq(Entry), NEW num \in Nat
    PROVE  /\ tar_lookup_by_index(a, num).name \in Seq(STRING)
           /\ tar_lookup_by_index(a, num).len \in Nat
<1>. DEFINE at(i) == num - IndexFrom(a, i) + 1
            hits == {i \in DOMAIN a : at(i) \in 1 .. Len(a[i].name)}
            first == CHOOSE i \in hits : \A j \in hits : i <= j
<1>1. tar_lookup_by_index(a, num) =
        IF hits = {} THEN [err |-> "no_entry", name |-> <<>>, len |-> 0]
        ELSE [err |-> "ok", name |-> Prefix(a[first].name, at(first)),
              len |-> a[first].size]
  BY DEF tar_lookup_by_index
<1>2. ASSUME hits # {} PROVE first \in DOMAIN a /\ at(first) \in 1 .. Len(a[first].name)
  <2>1. hits \in SUBSET Nat
    OBVIOUS
  <2>2. \E i \in hits : \A j \in hits : i <= j
    <3>. HIDE DEF hits
    <3>. QED BY <1>2, <2>1, LeastNat
  <2>3. first \in hits
    BY <2>2
  <2>. QED BY <2>3
<1>3. ASSUME hits # {}
      PROVE  Prefix(a[first].name, at(first)) \in Seq(STRING) /\ a[first].size \in Nat
  <2>. HIDE DEF first
  <2>. DEFINE nm == a[first].name
              k == at(first)
  <2>1. nm \in Seq(STRING) /\ a[first].size \in Nat /\ Len(nm) \in Nat
    BY <1>2, <1>3, EntryFacts
  <2>2. k \in 1 .. Len(nm)
    BY <1>2, <1>3
  <2>. HIDE DEF nm, k
  <2>3. SubSeq(nm, 1, k) \in Seq(STRING)
    BY <2>1, <2>2
  <2>. QED BY <2>1, <2>3 DEF Prefix, nm, k
<1>. HIDE DEF hits, first, at
<1>4. CASE hits = {}
  <2>1. tar_lookup_by_index(a, num) = [err |-> "no_entry", name |-> <<>>, len |-> 0]
    BY <1>1, <1>4
  <2>. QED BY <2>1
<1>5. CASE hits # {}
  <2>1. tar_lookup_by_index(a, num).name = Prefix(a[first].name, at(first))
        /\ tar_lookup_by_index(a, num).len = a[first].size
    BY <1>1, <1>5
  <2>. QED BY <1>3, <1>5, <2>1
<1>. QED BY <1>4, <1>5

----------------------------------------------------------------------------
(***************************************************************************)
(* The inductive invariant.                                                *)
(***************************************************************************)

Inode == [fs : FileSystems \cup {0}, i_num : Numbers \cup {0}, i_rc : Nat,
          i_parent_ref : Slot, owner : Tasks \cup {NULL}, queue : Seq(Tasks),
          name : Seq(STRING), len : Nat]

FileDesc == [rc : Nat, owner_inode : Slot, f_pos : Nat]

Frame == [pc : Points, path : Seq(STRING), at : Nat, curr : Slot, obj : Slot,
          ret : {"run", "walk", "done"}, dying : SUBSET InodeSlots,
          err : {"ok", "no_entry", "path_too_long"},
          file : FileSlots \cup {NULL}]

Types ==
    /\ inode \in [InodeSlots -> Inode]
    /\ inode_used \in SUBSET InodeSlots
    /\ table \in [FileSystems -> [Numbers -> Slot]]
    /\ file \in [FileSlots -> FileDesc]
    /\ file_used \in SUBSET FileSlots
    /\ walker \in Tasks \cup {NULL}
    /\ frame \in [Tasks -> Frame]
    /\ held \in [Tasks -> [Kept -> {Nothing} \cup [inode : InodeSlots, path : Paths]]]
    /\ files \in [Tasks -> SUBSET FileSlots]
    /\ initial_rc \in Nat \ {0}

Releasing == {"release", "locked", "zero", "unwind"}

Opening == {"open", "open_locked"}

\* The fields of a frame that a point uses; the others are as in Running.
FrameOK(t) ==
    LET f == frame[t] IN
    /\ f.pc = "run" => f = Running
    /\ f.pc \notin Releasing => f.dying = {} /\ f.ret = "run"
    /\ f.pc \notin Releasing \cup Opening => f.obj = NULL /\ f.file = NULL
    /\ f.pc \in {"release", "locked", "zero"} \cup Opening => f.obj # NULL
    /\ f.pc \in Opening => f.curr = NULL /\ f.file # NULL /\ f.err = "ok"
    /\ f.pc = "walk" => f.curr # NULL /\ f.err = "ok"
    /\ f.pc = "done" => (f.err = "ok" <=> f.curr # NULL)
    /\ f.pc \in Releasing =>
        /\ f.ret = "run" => f.curr = NULL /\ f.err = "ok"
        /\ f.ret = "walk" => f.curr # NULL /\ f.err = "ok" /\ f.file = NULL
        /\ f.ret = "done" => f.curr = NULL /\ f.err # "ok" /\ f.file = NULL
    /\ walker = t <=> f.pc = "walk" \/ f.ret # "run"

\* An inode is opened by a task that keeps it.
OpenOK(t) ==
    frame[t].pc \in Opening => \E v \in Kept : held[t][v].inode = frame[t].obj

Control == \A t \in Tasks : FrameOK(t) /\ OpenOK(t)

\* Files belong to the task that opened them, and to no frame.
FileOK(t) ==
    /\ files[t] # {} \/ frame[t].file # NULL => t \in Openers
    /\ frame[t].file \notin files[t]
    /\ \A f \in files[t] : file[f].rc = 1 /\ f \in file_used
    /\ frame[t].pc = "open" => frame[t].file \notin file_used
    /\ frame[t].pc = "open_locked" =>
        /\ frame[t].file \in file_used
        /\ file[frame[t].file] = [rc |-> 1, owner_inode |-> frame[t].obj,
                                  f_pos |-> 0]

\* Reading stays inside the file.
Positions ==
    \A t \in Tasks : \A f \in files[t] :
        file[f].f_pos \in 0 .. inode[file[f].owner_inode].len

Files == \A t \in Tasks : FileOK(t)

\* The inodes that are in use have a file system, a number of it, and a
\* parent unless they are its root; roots are always in use.
Inodes ==
    /\ \A m \in FileSystems : /\ m \in inode_used
                              /\ inode[m].fs = m /\ inode[m].i_num = ROOT
    /\ \A s \in inode_used : /\ inode[s].fs \in FileSystems
                             /\ inode[s].i_num \in Numbers
                             /\ ~IsRoot(s) => inode[s].i_parent_ref # NULL

\* Task u has locked or waits for the mutex of inode s.
Waits(u, s) ==
    u \in Tasks /\ frame[u].pc \in {"locked", "open_locked"} /\ frame[u].obj = s

MutexOK(s) ==
    LET q == inode[s].queue IN
    /\ inode[s].owner # NULL => Waits(inode[s].owner, s)
    /\ \A i \in DOMAIN q : Waits(q[i], s) /\ q[i] # inode[s].owner
    /\ \A i, j \in DOMAIN q : q[i] = q[j] => i = j

Mutexes == \A s \in InodeSlots : MutexOK(s)

\* The inodes that task t is about to free.
Doomed(t) == {s \in InodeSlots : \/ s \in frame[t].dying
                                 \/ frame[t].pc = "zero" /\ frame[t].obj = s}

Doom ==
    /\ \A t \in Tasks : \A s \in Doomed(t) : s \in inode_used /\ inode[s].i_rc = 0
    /\ \A t \in Tasks : frame[t].pc = "zero" => frame[t].obj \notin frame[t].dying
    /\ \A t, u \in Tasks : t # u => Doomed(t) \cap Doomed(u) = {}
    /\ \A s \in inode_used : inode[s].i_rc = 0 => \E t \in Tasks : s \in Doomed(t)

\* Whatever task t can still reach is in use.
LiveOK(t) ==
    /\ frame[t].curr # NULL => frame[t].curr \in inode_used
    /\ frame[t].pc \in {"release", "locked", "zero"} \cup Opening =>
            frame[t].obj \in inode_used
    /\ \A v \in Kept : held[t][v].inode # NULL => held[t][v].inode \in inode_used
    /\ \A f \in files[t] : file[f].owner_inode \in inode_used

Parents ==
    \A c \in inode_used \ Dying :
        inode[c].i_parent_ref # NULL => inode[c].i_parent_ref \in inode_used

Live == Parents /\ \A t \in Tasks : LiveOK(t)

\* The table has an inode that is not being destroyed, and no other.
Tables ==
    /\ TableExact
    /\ \A s \in Dying, fs \in FileSystems, n \in Numbers : table[fs][n] # s

\* A walk leaves the root before it ends, and then never comes back to it.
WalkOK(t) ==
    /\ frame[t].pc = "walk" =>
        /\ frame[t].at <= Len(frame[t].path)
        /\ IsRoot(frame[t].curr) => frame[t].at < Len(frame[t].path)
    /\ frame[t].ret = "walk" => /\ frame[t].at <= Len(frame[t].path)
                                /\ ~IsRoot(frame[t].curr)
    /\ frame[t].pc = "done" /\ frame[t].err = "ok" => ~IsRoot(frame[t].curr)
    /\ frame[t].pc \in {"walk", "done"} \/ frame[t].ret # "run" =>
            frame[t].path \in Paths

Walks == \A t \in Tasks : WalkOK(t)

CountsOK == \A s \in inode_used : inode[s].i_rc = initial_rc - 1 + Refs(s)

Core ==
    /\ Types /\ Control /\ Files /\ Positions /\ Inodes /\ Mutexes /\ Doom
    /\ Live /\ Tables /\ Walks /\ CountsOK

VfsInv == Core /\ AssertsHold

----------------------------------------------------------------------------
(***************************************************************************)
(* How steps are described.                                                *)
(***************************************************************************)
\* Only the frame of task t changes.
StepOf(t) ==
    /\ frame' \in [Tasks -> Frame]
    /\ \A u \in Tasks : u # t => frame'[u] = frame[u]

\* Nobody else's references change.
OwnRefs(t) ==
    \A u \in Tasks : u # t => held'[u] = held[u] /\ files'[u] = files[u]

\* The inodes that stay in use stay the files they are.
Steady ==
    \A s \in inode_used \cap inode_used' :
        /\ inode'[s].fs = inode[s].fs /\ inode'[s].i_num = inode[s].i_num
        /\ inode'[s].i_parent_ref = inode[s].i_parent_ref
        /\ inode'[s].name = inode[s].name /\ inode'[s].len = inode[s].len

----------------------------------------------------------------------------
(***************************************************************************)
(* What a step of one task leaves alone.                                   *)
(***************************************************************************)

\* NULL is no task and no object.
LEMMA NullFacts ==
    NULL \notin Tasks /\ NULL \notin InodeSlots /\ NULL \notin FileSlots
  BY VfsNullAssumption

\* The types of the fields of a frame ...
LEMMA FrameFields ==
    ASSUME NEW f \in Frame
    PROVE  /\ f.pc \in Points /\ f.path \in Seq(STRING) /\ f.at \in Nat
           /\ f.curr \in Slot /\ f.obj \in Slot
           /\ f.ret \in {"run", "walk", "done"} /\ f.dying \in SUBSET InodeSlots
           /\ f.err \in {"ok", "no_entry", "path_too_long"}
           /\ f.file \in FileSlots \cup {NULL}
  BY DEF Frame

\* ... and of an inode.
LEMMA InodeFields ==
    ASSUME NEW i \in Inode
    PROVE  /\ i.fs \in FileSystems \cup {0} /\ i.i_num \in Numbers \cup {0}
           /\ i.i_rc \in Nat /\ i.i_parent_ref \in Slot
           /\ i.owner \in Tasks \cup {NULL} /\ i.queue \in Seq(Tasks)
           /\ i.name \in Seq(STRING) /\ i.len \in Nat
  BY DEF Inode

\* The frame of a task that is in no operation.
LEMMA RunningFrame ==
    /\ Running \in Frame
    /\ Running.pc = "run" /\ Running.path = <<>> /\ Running.at = 0
    /\ Running.curr = NULL /\ Running.obj = NULL /\ Running.ret = "run"
    /\ Running.dying = {} /\ Running.err = "ok" /\ Running.file = NULL
  BY DEF Running, Frame, Points, Slot

\* A struct that is not in use.
LEMMA BlankInode ==
    /\ Blank \in Inode
    /\ Blank.fs = 0 /\ Blank.i_num = 0 /\ Blank.i_rc = 0
    /\ Blank.i_parent_ref = NULL /\ Blank.owner = NULL /\ Blank.queue = <<>>
    /\ Blank.name = <<>> /\ Blank.len = 0
  BY DEF Blank, Inode, Slot

\* A task goes to another frame, and the others stay.
LEMMA Goes ==
    ASSUME Types, NEW t \in Tasks, NEW g \in Frame, Goto(t, g)
    PROVE  StepOf(t) /\ frame'[t] = g
  BY DEF Types, Goto, StepOf

----------------------------------------------------------------------------
(* What the groups of the invariant depend on. *)

\* A step of t keeps Control if t's own part of it holds afterwards: nobody
\* else can be inside traverse.
LEMMA ControlStep ==
    ASSUME Control, NEW t \in Tasks, StepOf(t), OwnRefs(t),
           walker \in {t, NULL}, walker' \in {t, NULL},
           FrameOK(t)', OpenOK(t)'
    PROVE  Control'
<1>1. ASSUME NEW u \in Tasks, u # t PROVE FrameOK(u)' /\ OpenOK(u)'
  <2>1. frame'[u] = frame[u] /\ held'[u] = held[u] /\ walker # u /\ walker' # u
    BY <1>1, NullFacts DEF StepOf, OwnRefs
  <2>2. FrameOK(u) /\ OpenOK(u)
    BY DEF Control
  <2>3. FrameOK(u)'
    BY <2>1, <2>2 DEF FrameOK
  <2>4. OpenOK(u)'
    BY <2>1, <2>2 DEF OpenOK
  <2>. QED BY <2>3, <2>4
<1>. QED BY <1>1 DEF Control

\* A step of t keeps Files if t's own part does: files are touched by the one
\* task that opens them.
LEMMA FilesStep ==
    ASSUME Control, Files, OneOpener, NEW t \in Tasks, StepOf(t), OwnRefs(t),
           t \in Openers \/ UNCHANGED <<file, file_used>>,
           FileOK(t)'
    PROVE  Files'
<1>1. ASSUME NEW u \in Tasks, u # t PROVE FileOK(u)'
  <2>1. frame'[u] = frame[u] /\ files'[u] = files[u]
    BY <1>1 DEF StepOf, OwnRefs
  <2>2. FileOK(u) /\ FrameOK(u)
    BY DEF Files, Control
  <2>3. CASE t \in Openers
    <3>1. u \notin Openers
      BY <1>1, <2>3 DEF OneOpener
    <3>2. files[u] = {} /\ frame[u].file = NULL
      BY <2>2, <3>1 DEF FileOK
    <3>3. frame[u].pc \notin Opening
      BY <2>2, <3>2 DEF FrameOK
    <3>. QED BY <2>1, <3>2, <3>3 DEF FileOK, Opening
  <2>4. CASE UNCHANGED <<file, file_used>>
    BY <2>1, <2>2, <2>4 DEF FileOK
  <2>. QED BY <2>3, <2>4
<1>. QED BY <1>1 DEF Files

\* Nobody moves the files of others, and a file in use keeps its length.
LEMMA PositionsStep ==
    ASSUME Types, Positions, Live, Live', Steady, NEW t \in Tasks, OwnRefs(t),
           \A u \in Tasks \ {t} : \A f \in files[u] : file'[f] = file[f],
           \A f \in files'[t] : file'[f].f_pos \in 0 .. inode'[file'[f].owner_inode].len
    PROVE  Positions'
<1>1. ASSUME NEW u \in Tasks, u # t, NEW f \in files'[u]
      PROVE  file'[f].f_pos \in 0 .. inode'[file'[f].owner_inode].len
  <2>1. f \in files[u] /\ file'[f] = file[f]
    BY <1>1 DEF OwnRefs
  <2>. DEFINE o == file[f].owner_inode
  <2>2. o \in inode_used /\ o \in inode_used'
    BY <2>1, <1>1 DEF Live, LiveOK
  <2>3. inode'[o].len = inode[o].len
    BY <2>2 DEF Steady
  <2>4. file[f].f_pos \in 0 .. inode[o].len
    BY <2>1 DEF Positions
  <2>. QED BY <2>1, <2>3, <2>4
<1>. QED BY <1>1 DEF Positions

\* The inodes in use are the ones they were.
LEMMA InodesStep ==
    ASSUME Inodes, Steady, inode_used' = inode_used
    PROVE  Inodes'
<1>1. \A s \in inode_used : inode'[s].fs = inode[s].fs /\ inode'[s].i_num = inode[s].i_num
                            /\ inode'[s].i_parent_ref = inode[s].i_parent_ref
  BY DEF Steady
<1>. QED BY <1>1 DEF Inodes, IsRoot

\* A step that neither locks nor unlocks; structs may be cleared.
LEMMA MutexStep ==
    ASSUME Mutexes, NEW t \in Tasks, StepOf(t),
           frame[t].pc \notin {"locked", "open_locked"},
           \A s \in InodeSlots :
                \/ inode'[s].owner = inode[s].owner /\ inode'[s].queue = inode[s].queue
                \/ inode'[s].owner = NULL /\ inode'[s].queue = <<>>
    PROVE  Mutexes'
<1>1. ASSUME NEW s \in InodeSlots PROVE MutexOK(s)'
  <2>1. MutexOK(s)
    BY DEF Mutexes
  <2>2. \A u : Waits(u, s) => Waits(u, s)'
    BY DEF Waits, StepOf
  <2>3. CASE inode'[s].owner = inode[s].owner /\ inode'[s].queue = inode[s].queue
    BY <2>1, <2>2, <2>3 DEF MutexOK
  <2>4. CASE inode'[s].owner = NULL /\ inode'[s].queue = <<>>
    BY <2>4 DEF MutexOK
  <2>. QED BY <2>3, <2>4
<1>. QED BY <1>1 DEF Mutexes

\* No destructor begins or ends.
LEMMA DyingStep ==
    ASSUME NEW t \in Tasks, StepOf(t), frame'[t].dying = frame[t].dying
    PROVE  Dying' = Dying
<1>1. \A u \in Tasks : frame'[u].dying = frame[u].dying
  BY DEF StepOf
<1>. QED BY <1>1 DEF Dying

\* No count reaches 0 or leaves it.
LEMMA DoomStep ==
    ASSUME Doom, NEW t \in Tasks, StepOf(t), inode_used' = inode_used,
           \A s \in inode_used : inode'[s].i_rc = 0 <=> inode[s].i_rc = 0,
           Doomed(t)' = Doomed(t),
           frame'[t].pc = "zero" => frame'[t].obj \notin frame'[t].dying
    PROVE  Doom'
<1>1. \A u \in Tasks : Doomed(u)' = Doomed(u)
  BY DEF StepOf, Doomed
<1>2. \A u \in Tasks : frame'[u].pc = "zero" => frame'[u].obj \notin frame'[u].dying
  BY DEF StepOf, Doom
<1>. QED BY <1>1, <1>2 DEF Doom

\* Nothing is freed.
LEMMA LiveStep ==
    ASSUME Live, NEW t \in Tasks, StepOf(t), OwnRefs(t),
           inode_used \subseteq inode_used', Parents',
           \A u \in Tasks \ {t} : \A f \in files[u] : file'[f] = file[f],
           LiveOK(t)'
    PROVE  Live'
<1>1. ASSUME NEW u \in Tasks, u # t PROVE LiveOK(u)'
  <2>1. frame'[u] = frame[u] /\ held'[u] = held[u] /\ files'[u] = files[u]
    BY <1>1 DEF StepOf, OwnRefs
  <2>2. LiveOK(u) /\ \A f \in files[u] : file'[f] = file[f]
    BY <1>1 DEF Live
  <2>. QED BY <2>1, <2>2 DEF LiveOK
<1>. QED BY <1>1 DEF Live

\* Parents stay in use.
LEMMA ParentsStep ==
    ASSUME Live, Steady, inode_used' = inode_used, Dying' = Dying
    PROVE  Parents'
<1>1. \A s \in inode_used : inode'[s].i_parent_ref = inode[s].i_parent_ref
  BY DEF Steady
<1>. QED BY <1>1 DEF Live, Parents

\* The tables stay exact.
LEMMA TablesStep ==
    ASSUME Tables, Steady, inode_used' = inode_used, Dying' = Dying, table' = table
    PROVE  Tables'
<1>1. \A s \in inode_used : inode'[s].fs = inode[s].fs /\ inode'[s].i_num = inode[s].i_num
  BY DEF Steady
<1>. QED BY <1>1 DEF Tables, TableExact

\* The walks of the others go on.
LEMMA WalksStep ==
    ASSUME Control, Walks, Live, Live', Steady, NEW t \in Tasks, StepOf(t),
           WalkOK(t)'
    PROVE  Walks'
<1>1. ASSUME NEW u \in Tasks, u # t PROVE WalkOK(u)'
  <2>1. frame'[u] = frame[u] /\ WalkOK(u) /\ FrameOK(u)
    BY <1>1 DEF StepOf, Walks, Control
  <2>. DEFINE c == frame[u].curr
  <2>2. c # NULL => c \in inode_used /\ c \in inode_used'
    BY <2>1 DEF Live, LiveOK
  <2>3. c # NULL => inode'[c].i_num = inode[c].i_num
    BY <2>2 DEF Steady
  <2>4. frame[u].pc = "walk" \/ frame[u].ret = "walk"
        \/ (frame[u].pc = "done" /\ frame[u].err = "ok") => c # NULL
    BY <2>1 DEF FrameOK, Releasing
  <2>. QED BY <2>1, <2>3, <2>4 DEF WalkOK, IsRoot
<1>. QED BY <1>1 DEF Walks

----------------------------------------------------------------------------
(***************************************************************************)
(* Counting references.                                                    *)
(***************************************************************************)

\* Who refers to inode s, as in Refs.
Holders(s) == {p \in Tasks \X Kept : held[p[1]][p[2]].inode = s}

Opened(s) == {p \in Tasks \X FileSlots :
                p[2] \in files[p[1]] /\ file[p[2]].owner_inode = s}

Children(s) == {c \in inode_used \ Dying : inode[c].i_parent_ref = s}

Walkers(s) == {t \in Tasks : frame[t].curr = s /\ ~IsRoot(s)}

Releasers(s) == {t \in Tasks : frame[t].obj = s
                        /\ frame[t].pc \in {"release", "locked"}}

RootRef(s) == IF IsRoot(s) THEN 1 ELSE 0

\* Refs, in terms of the sets that it counts ...
LEMMA RefsIs ==
    ASSUME NEW s
    PROVE  Refs(s) = Cardinality(Holders(s)) + Cardinality(Opened(s))
                     + Cardinality(Children(s)) + Cardinality(Walkers(s))
                     + Cardinality(Releasers(s)) + RootRef(s)
  BY DEF Refs, Holders, Opened, Children, Walkers, Releasers, RootRef

\* ... and after a step.
LEMMA RefsIsNext ==
    ASSUME NEW s
    PROVE  Refs(s)' = Cardinality(Holders(s)') + Cardinality(Opened(s)')
                      + Cardinality(Children(s)') + Cardinality(Walkers(s)')
                      + Cardinality(Releasers(s)') + RootRef(s)'
  BY DEF Refs, Holders, Opened, Children, Walkers, Releasers, RootRef

\* Subsets of finite sets are counted by natural numbers.
LEMMA Counted ==
    ASSUME NEW U, IsFiniteSet(U), NEW S \in SUBSET U
    PROVE  IsFiniteSet(S) /\ Cardinality(S) \in Nat
  BY FS_Subset, FS_CardinalityType

\* What Refs counts are subsets of finite sets.
LEMMA Universes ==
    /\ IsFiniteSet(Tasks \X Kept) /\ IsFiniteSet(Tasks \X FileSlots)
    /\ IsFiniteSet(InodeSlots) /\ IsFiniteSet(Tasks)
<1>1. IsFiniteSet(Tasks) /\ IsFiniteSet(InodeSlots) /\ IsFiniteSet(FileSlots)
      /\ MaxHeld \in Nat
  BY TasksAssumption, SlotsAssumption
<1>2. IsFiniteSet(Kept)
  BY <1>1, FS_Interval DEF Kept
<1>. QED BY <1>1, <1>2, FS_Product

\* The sets that Refs counts are finite.
LEMMA RefSets ==
    ASSUME inode_used \in SUBSET InodeSlots, NEW s
    PROVE  /\ IsFiniteSet(Holders(s)) /\ Cardinality(Holders(s)) \in Nat
           /\ IsFiniteSet(Opened(s)) /\ Cardinality(Opened(s)) \in Nat
           /\ IsFiniteSet(Children(s)) /\ Cardinality(Children(s)) \in Nat
           /\ IsFiniteSet(Walkers(s)) /\ Cardinality(Walkers(s)) \in Nat
           /\ IsFiniteSet(Releasers(s)) /\ Cardinality(Releasers(s)) \in Nat
           /\ RootRef(s) \in {0, 1}
<1>1. Holders(s) \in SUBSET (Tasks \X Kept) /\ Opened(s) \in SUBSET (Tasks \X FileSlots)
      /\ Children(s) \in SUBSET InodeSlots
      /\ Walkers(s) \in SUBSET Tasks /\ Releasers(s) \in SUBSET Tasks
  BY DEF Holders, Opened, Children, Walkers, Releasers
<1>2. RootRef(s) \in {0, 1}
  BY DEF RootRef
<1>. QED BY <1>1, <1>2, Counted, Universes

\* A set with one element more or less.
LEMMA CountPlus ==
    ASSUME NEW S, IsFiniteSet(S), NEW x, x \notin S
    PROVE  Cardinality(S \cup {x}) = Cardinality(S) + 1
  BY FS_AddElement

\* One element less.
LEMMA CountMinus ==
    ASSUME NEW S, IsFiniteSet(S), NEW x \in S
    PROVE  Cardinality(S \ {x}) = Cardinality(S) - 1
  BY FS_RemoveElement

\* A set with an element.
LEMMA CountSome ==
    ASSUME NEW S, IsFiniteSet(S), S # {}
    PROVE  Cardinality(S) \in Nat \ {0}
  BY FS_EmptySet, FS_CardinalityType

\* Somebody refers to inode s.
Referenced(s) ==
    \/ IsRoot(s)
    \/ \E t \in Tasks : \/ frame[t].curr = s
                        \/ frame[t].obj = s /\ frame[t].pc \in {"release", "locked"}
                        \/ \E v \in Kept : held[t][v].inode = s
                        \/ \E f \in files[t] : file[f].owner_inode = s
    \/ \E c \in inode_used \ Dying : inode[c].i_parent_ref = s

\* The count of an inode that somebody refers to is not 0.
LEMMA ReferencedCount ==
    ASSUME Types, CountsOK, NEW s \in inode_used, Referenced(s)
    PROVE  inode[s].i_rc \in Nat \ {0}
<1>1. initial_rc \in Nat \ {0} /\ inode_used \in SUBSET InodeSlots
      /\ files \in [Tasks -> SUBSET FileSlots]
  BY DEF Types
<1>2. inode[s].i_rc = initial_rc - 1 + Refs(s)
  BY DEF CountsOK
<1>3. \/ RootRef(s) = 1 \/ Holders(s) # {} \/ Opened(s) # {} \/ Children(s) # {}
      \/ Walkers(s) # {} \/ Releasers(s) # {}
  <2>1. CASE IsRoot(s)
    BY <2>1 DEF RootRef
  <2>2. CASE \E t \in Tasks : frame[t].curr = s /\ ~IsRoot(s)
    BY <2>2 DEF Walkers
  <2>3. CASE \E t \in Tasks : frame[t].obj = s /\ frame[t].pc \in {"release", "locked"}
    BY <2>3 DEF Releasers
  <2>4. ASSUME NEW t \in Tasks, NEW v \in Kept, held[t][v].inode = s
        PROVE  <<t, v>> \in Holders(s)
    BY <2>4 DEF Holders
  <2>5. ASSUME NEW t \in Tasks, NEW f \in files[t], file[f].owner_inode = s
        PROVE  <<t, f>> \in Opened(s)
    BY <1>1, <2>5 DEF Opened
  <2>6. CASE \E c \in inode_used \ Dying : inode[c].i_parent_ref = s
    BY <2>6 DEF Children
  <2>. QED BY <2>1, <2>2, <2>3, <2>4, <2>5, <2>6 DEF Referenced
<1>4. Refs(s) \in Nat \ {0}
  <2>1. /\ IsFiniteSet(Holders(s)) /\ Cardinality(Holders(s)) \in Nat
        /\ IsFiniteSet(Opened(s)) /\ Cardinality(Opened(s)) \in Nat
        /\ IsFiniteSet(Children(s)) /\ Cardinality(Children(s)) \in Nat
        /\ IsFiniteSet(Walkers(s)) /\ Cardinality(Walkers(s)) \in Nat
        /\ IsFiniteSet(Releasers(s)) /\ Cardinality(Releasers(s)) \in Nat
        /\ RootRef(s) \in {0, 1}
    BY <1>1, RefSets
  <2>2. \/ RootRef(s) = 1
        \/ Cardinality(Holders(s)) # 0 \/ Cardinality(Opened(s)) # 0
        \/ Cardinality(Children(s)) # 0 \/ Cardinality(Walkers(s)) # 0
        \/ Cardinality(Releasers(s)) # 0
    BY <1>3, <2>1, CountSome
  <2>3. ASSUME NEW a \in Nat, NEW b \in Nat, NEW c \in Nat, NEW d \in Nat,
               NEW e \in Nat, NEW r \in {0, 1},
               a # 0 \/ b # 0 \/ c # 0 \/ d # 0 \/ e # 0 \/ r = 1
        PROVE  a + b + c + d + e + r \in Nat \ {0}
    BY ONLY <2>3
  <2>. QED BY <2>1, <2>2, <2>3, RefsIs, ZenonT(60)
<1>. QED BY <1>1, <1>2, <1>4

\* Nobody is about to free it.
LEMMA ReferencedSafe ==
    ASSUME Types, CountsOK, Doom, NEW s \in inode_used, Referenced(s)
    PROVE  \A t \in Tasks : s \notin Doomed(t) /\ s \notin frame[t].dying
<1>1. inode[s].i_rc # 0 /\ s \in InodeSlots
  BY ReferencedCount DEF Types
<1>. QED BY <1>1 DEF Doom, Doomed

\* How a step changes the number of references.
LEMMA RefsChange ==
    ASSUME inode_used \in SUBSET InodeSlots, NEW s,
           Cardinality(Holders(s)') \in Int, Cardinality(Opened(s)') \in Int,
           Cardinality(Children(s)') \in Int, Cardinality(Walkers(s)') \in Int,
           Cardinality(Releasers(s)') \in Int, RootRef(s)' = RootRef(s)
    PROVE  /\ Refs(s) \in Nat
           /\ Refs(s)' = Refs(s)
                + (Cardinality(Holders(s)') - Cardinality(Holders(s)))
                + (Cardinality(Opened(s)') - Cardinality(Opened(s)))
                + (Cardinality(Children(s)') - Cardinality(Children(s)))
                + (Cardinality(Walkers(s)') - Cardinality(Walkers(s)))
                + (Cardinality(Releasers(s)') - Cardinality(Releasers(s)))
<1>. DEFINE H == Cardinality(Holders(s))
            O == Cardinality(Opened(s))
            C == Cardinality(Children(s))
            W == Cardinality(Walkers(s))
            R == Cardinality(Releasers(s))
            Z == RootRef(s)
            h == Cardinality(Holders(s)')
            o == Cardinality(Opened(s)')
            c == Cardinality(Children(s)')
            w == Cardinality(Walkers(s)')
            r == Cardinality(Releasers(s)')
<1>1. H \in Nat /\ O \in Nat /\ C \in Nat /\ W \in Nat /\ R \in Nat /\ Z \in {0, 1}
  BY RefSets
<1>2. Refs(s) = H + O + C + W + R + Z
  BY RefsIs
<1>3. Refs(s)' = h + o + c + w + r + Z
  BY RefsIsNext
<1>4. h \in Int /\ o \in Int /\ c \in Int /\ w \in Int /\ r \in Int
  OBVIOUS
<1>. HIDE DEF H, O, C, W, R, Z, h, o, c, w, r
<1>5. Refs(s) \in Nat
  BY <1>1, <1>2
<1>6. Refs(s)' = Refs(s) + (h - H) + (o - O) + (c - C) + (w - W) + (r - R)
  BY <1>1, <1>2, <1>3, <1>4
<1>. QED BY <1>5, <1>6 DEF H, O, C, W, R, h, o, c, w, r

\* Steps that change no reference and no count.
LEMMA CountsSame ==
    ASSUME Types, CountsOK, Steady, inode_used' = inode_used, Dying' = Dying,
           initial_rc' = initial_rc,
           \A s \in inode_used : inode'[s].i_rc = inode[s].i_rc,
           \A s \in inode_used : Holders(s)' = Holders(s),
           \A s \in inode_used : Opened(s)' = Opened(s),
           \A s \in inode_used : Walkers(s)' = Walkers(s),
           \A s \in inode_used : Releasers(s)' = Releasers(s)
    PROVE  CountsOK'
<1>1. ASSUME NEW s \in inode_used PROVE Refs(s)' = Refs(s)
  <2>1. Children(s)' = Children(s)
    BY DEF Children, Steady
  <2>2. RootRef(s)' = RootRef(s)
    BY DEF RootRef, IsRoot, Steady
  <2>. QED BY <2>1, <2>2, RefsIs, RefsIsNext
<1>. QED BY <1>1 DEF CountsOK

----------------------------------------------------------------------------
(***************************************************************************)
(* Mount points, and steps that change one frame.                          *)
(***************************************************************************)

\* What is known of a mount point.
LEMMA MountFacts ==
    ASSUME NEW m \in FileSystems
    PROVE  /\ m \in InodeSlots /\ m # 0 /\ m \in Nat
           /\ Mounts[m].path \in Seq(STRING) /\ Len(Mounts[m].path) \in Nat
           /\ Mounts[m].archive \in Seq(Entry)
           /\ ROOT \in Numbers
<1>1. Mounts[m] \in [path : Seq(STRING), archive : Seq(Entry)]
      /\ m \in 1 .. Len(Mounts) /\ Len(Mounts) \in Nat /\ m \in InodeSlots
  <2>. DEFINE S == [path : Seq(STRING), archive : Seq(Entry)]
  <2>1. Mounts \in Seq(S) /\ m \in DOMAIN Mounts /\ m \in InodeSlots
    BY MountsAssumption DEF FileSystems
  <2>. HIDE DEF S
  <2>2. Mounts[m] \in S /\ m \in 1 .. Len(Mounts) /\ Len(Mounts) \in Nat
    BY <2>1
  <2>. QED BY <2>1, <2>2 DEF S
<1>2. Mounts[m].path \in Seq(STRING) /\ Mounts[m].archive \in Seq(Entry)
  BY <1>1
<1>3. Len(Mounts[m].path) \in Nat /\ Len(Mounts[m].archive) \in Nat
  BY <1>2
<1>4. Len(Mounts[m].archive) * (NameMax + 1) \in Nat
  <2>1. NameMax + 1 \in Nat
    BY NameAssumption
  <2>. QED BY <1>3, <2>1, TimesNext
<1>5. ROOT \in ROOT .. ROOT + Len(Mounts[m].archive) * (NameMax + 1)
  BY <1>4 DEF ROOT
<1>6. ROOT \in Numbers
  BY <1>5 DEF Numbers
<1>. QED BY <1>1, <1>2, <1>3, <1>6

\* best_mnt is a longest mount point that path is at or below.
LEMMA BestMount ==
    ASSUME NEW path \in Seq(STRING)
    PROVE  LET fits(m) == /\ Len(Mounts[m].path) <= Len(path)
                          /\ Prefix(path, Len(Mounts[m].path)) = Mounts[m].path
               best == best_mnt(path)
           IN  \/ best = 0 /\ \A m \in FileSystems : ~ fits(m)
               \/ /\ best \in FileSystems /\ fits(best)
                  /\ \A m \in FileSystems : fits(m) =>
                        Len(Mounts[m].path) <= Len(Mounts[best].path)
<1>. DEFINE match == {m \in FileSystems :
                    /\ Len(Mounts[m].path) <= Len(path)
                    /\ Prefix(path, Len(Mounts[m].path)) = Mounts[m].path}
            B(m) == \A o \in match : Len(Mounts[o].path) <= Len(Mounts[m].path)
            D == {Len(path) - Len(Mounts[m].path) : m \in match}
<1>1. best_mnt(path) = IF match = {} THEN 0 ELSE CHOOSE m \in match : B(m)
  BY DEF best_mnt
<1>2. Len(path) \in Nat /\ \A m \in match : Len(Mounts[m].path) \in Nat
  BY MountFacts
<1>3. ASSUME match # {} PROVE \E m \in match : B(m)
  <2>1. D \in SUBSET Nat /\ D # {}
    <3>1. \A m \in match : Len(path) - Len(Mounts[m].path) \in Nat
      BY <1>2
    <3>. HIDE DEF match
    <3>. QED BY <1>3, <3>1
  <2>2. PICK d \in D : \A y \in D : d <= y
    BY <2>1, LeastNat
  <2>3. PICK m \in match : d = Len(path) - Len(Mounts[m].path)
    OBVIOUS
  <2>4. ASSUME NEW o \in match PROVE Len(Mounts[o].path) <= Len(Mounts[m].path)
    <3>1. Len(path) - Len(Mounts[o].path) \in D
      OBVIOUS
    <3>2. Len(path) - Len(Mounts[m].path) <= Len(path) - Len(Mounts[o].path)
      BY <2>2, <2>3, <3>1
    <3>3. Len(path) \in Nat /\ Len(Mounts[m].path) \in Nat /\ Len(Mounts[o].path) \in Nat
      BY <1>2
    <3>. QED BY ONLY <3>2, <3>3
  <2>. QED BY <2>4
<1>4. match # {} => best_mnt(path) \in match /\ B(best_mnt(path))
  BY <1>1, <1>3
<1>5. match = {} => best_mnt(path) = 0
  BY <1>1
<1>. QED BY <1>4, <1>5

\* A path below the mount points has something to walk.
LEMMA WalkStarts ==
    ASSUME BelowMounts, NEW path \in Paths, best_mnt(path) # 0
    PROVE  /\ best_mnt(path) \in FileSystems
           /\ Len(Mounts[best_mnt(path)].path) < Len(path)
           /\ Prefix(path, Len(Mounts[best_mnt(path)].path)) =
                Mounts[best_mnt(path)].path
<1>. DEFINE m == best_mnt(path)
<1>1. path \in Seq(STRING)
  BY InputsAssumption
<1>2. m \in FileSystems /\ Len(Mounts[m].path) <= Len(path)
      /\ Prefix(path, Len(Mounts[m].path)) = Mounts[m].path
  BY <1>1, BestMount
<1>. HIDE DEF m
<1>3. Len(Mounts[m].path) # Len(path)
  <2>. SUFFICES ASSUME Len(Mounts[m].path) = Len(path) PROVE FALSE
    OBVIOUS
  <2>1. Prefix(path, Len(path)) = path
    BY <1>1, SubSeqFull DEF Prefix
  <2>. QED BY <1>2, <2>1 DEF BelowMounts
<1>4. Len(Mounts[m].path) \in Nat /\ Len(path) \in Nat
  BY <1>1, <1>2, MountFacts
<1>. QED BY <1>2, <1>3, <1>4 DEF m

----------------------------------------------------------------------------

\* The parts of the invariant, and those of task t.
LEMMA CoreParts ==
    ASSUME Core, NEW t \in Tasks
    PROVE  /\ Types /\ Control /\ Files /\ Positions /\ Inodes /\ Mutexes
           /\ Doom /\ Live /\ Tables /\ Walks /\ CountsOK
           /\ FrameOK(t) /\ OpenOK(t) /\ FileOK(t) /\ LiveOK(t) /\ WalkOK(t)
           /\ frame[t] \in Frame /\ frame \in [Tasks -> Frame]
  BY DEF Core, Control, Files, Live, Walks, Types

\* The invariant does not speak of panic.
LEMMA CoreSame ==
    ASSUME Core, UNCHANGED <<inode, inode_used, table, file, file_used, walker,
                             frame, held, files, initial_rc>>
    PROVE  Core'
<1>1. Types' /\ Control' /\ Files' /\ Positions' /\ Inodes' /\ Doom' /\ Walks'
  BY DEF Core, Types, Control, FrameOK, OpenOK, Files, FileOK, Positions, Inodes,
         IsRoot, Doom, Doomed, Walks, WalkOK
<1>2. Mutexes'
  BY DEF Core, Mutexes, MutexOK, Waits
<1>3. Dying' = Dying
  BY DEF Dying
<1>4. Live' /\ Tables'
  BY <1>3 DEF Core, Live, Parents, LiveOK, Tables, TableExact
<1>5. \A s : Refs(s)' = Refs(s)
  BY <1>3 DEF Refs, IsRoot
<1>6. CountsOK'
  BY <1>5 DEF Core, CountsOK
<1>. QED BY <1>1, <1>2, <1>4, <1>6 DEF Core

\* Steps of task t outside the mutexes that leave the inodes and the table.
LEMMA CoreQuiet ==
    ASSUME Core, OneOpener, NEW t \in Tasks, StepOf(t), OwnRefs(t),
           walker \in {t, NULL}, walker' \in {t, NULL},
           UNCHANGED <<inode, inode_used, table, initial_rc>>,
           Types', frame[t].pc \notin {"locked", "open_locked"},
           frame'[t].dying = frame[t].dying, frame'[t].pc # "zero",
           frame[t].pc # "zero",
           t \in Openers \/ UNCHANGED <<file, file_used>>,
           \A u \in Tasks \ {t} : \A f \in files[u] : file'[f] = file[f],
           \A f \in files'[t] : file'[f].f_pos \in 0 .. inode'[file'[f].owner_inode].len,
           FrameOK(t)', OpenOK(t)', FileOK(t)', LiveOK(t)', WalkOK(t)', CountsOK'
    PROVE  Core'
<1>0. /\ Types /\ Control /\ Files /\ Positions /\ Inodes /\ Mutexes
      /\ Doom /\ Live /\ Tables /\ Walks /\ CountsOK
  BY DEF Core
<1>1. Steady /\ Dying' = Dying
  BY DyingStep DEF Steady
<1>2. Control'
  BY <1>0, ControlStep
<1>3. Files'
  BY <1>0, FilesStep
<1>4. Live'
  BY <1>0, <1>1, LiveStep, ParentsStep
<1>5. Positions'
  BY <1>0, <1>1, <1>4, PositionsStep
<1>6. Inodes' /\ Tables'
  BY <1>0, <1>1, InodesStep, TablesStep
<1>7. Mutexes'
  BY <1>0, MutexStep
<1>8. Doom'
  <2>1. Doomed(t)' = Doomed(t)
    BY DEF Doomed
  <2>. QED BY <1>0, <2>1, DoomStep
<1>9. Walks'
  BY <1>0, <1>1, <1>4, WalksStep
<1>. QED BY <1>2, <1>3, <1>4, <1>5, <1>6, <1>7, <1>8, <1>9 DEF Core

\* The same, where only the frame and walker change.
LEMMA CoreFrame ==
    ASSUME Core, OneOpener, NEW t \in Tasks, StepOf(t),
           walker \in {t, NULL}, walker' \in {t, NULL},
           UNCHANGED <<inode, inode_used, table, file, file_used, held, files,
                       initial_rc>>,
           frame[t].pc \notin {"locked", "open_locked", "zero"},
           frame'[t].dying = frame[t].dying, frame'[t].pc # "zero",
           FrameOK(t)', OpenOK(t)', FileOK(t)', LiveOK(t)', WalkOK(t)', CountsOK'
    PROVE  Core'
<1>1. OwnRefs(t)
  BY DEF OwnRefs
<1>2. Types'
  BY DEF Core, Types, StepOf
<1>3. \A x \in files'[t] : file'[x].f_pos \in 0 .. inode'[file'[x].owner_inode].len
  BY DEF Core, Positions
<1>4. \A u \in Tasks \ {t} : \A x \in files[u] : file'[x] = file[x]
  OBVIOUS
<1>. QED BY <1>1, <1>2, <1>3, <1>4, CoreQuiet

\* Counts, where they and the variables of other tasks stay.
LEMMA CountsFrame ==
    ASSUME Core, NEW t \in Tasks, StepOf(t),
           UNCHANGED <<inode, inode_used, file, held, files, initial_rc>>,
           frame'[t].dying = frame[t].dying,
           \A s \in inode_used : Walkers(s)' = Walkers(s) /\ Releasers(s)' = Releasers(s)
    PROVE  CountsOK'
<1>1. Steady /\ Dying' = Dying
  BY DyingStep DEF Steady
<1>2. \A s \in inode_used : Holders(s)' = Holders(s) /\ Opened(s)' = Opened(s)
  BY DEF Holders, Opened
<1>. QED BY <1>1, <1>2, CountsSame DEF Core

----------------------------------------------------------------------------
(***************************************************************************)
(* Each action preserves Core: traverse ...                                *)
(***************************************************************************)

\* traverse starts at the root of the best mount point, without a reference.
LEMMA TraverseCore ==
    ASSUME Core, OneOpener, BelowMounts, NEW t \in Tasks, traverse(t)
    PROVE  Core' /\ panic' = "no"
<1>0. /\ Types /\ Control /\ Files /\ Positions /\ Inodes /\ Mutexes
      /\ Doom /\ Live /\ Tables /\ Walks /\ CountsOK
      /\ FrameOK(t) /\ OpenOK(t) /\ FileOK(t) /\ LiveOK(t) /\ WalkOK(t)
      /\ frame[t] \in Frame /\ frame \in [Tasks -> Frame]
  BY CoreParts
<1>1. /\ panic = "no" /\ walker \in {t, NULL} /\ frame[t].pc = "run"
      /\ UNCHANGED <<inode, inode_used, table, file, file_used, held, files, initial_rc>>
  BY DEF traverse, At
<1>2. frame[t] = Running /\ walker = NULL
  BY <1>0, <1>1, RunningFrame DEF FrameOK
<1>3. PICK path \in Paths :
        LET m == best_mnt(path)
            f == [Running EXCEPT !.path = path]
        IN  \/ /\ m = 0
               /\ Goto(t, [f EXCEPT !.pc = "done", !.err = "no_entry"])
               /\ UNCHANGED <<walker, panic>>
            \/ /\ m # 0
               /\ IF table[m][ROOT] = NULL
                  THEN panic' = "root" /\ UNCHANGED <<walker, frame>>
                  ELSE /\ walker' = t
                       /\ Goto(t, [f EXCEPT !.pc = "walk",
                                            !.curr = table[m][ROOT],
                                            !.at = Len(Mounts[m].path)])
                       /\ UNCHANGED panic
  BY DEF traverse
<1>. DEFINE m == best_mnt(path)
            f == [Running EXCEPT !.path = path]
<1>4. path \in Seq(STRING)
  BY InputsAssumption
<1>5. CASE m = 0
  <2>. DEFINE g == [f EXCEPT !.pc = "done", !.err = "no_entry"]
  <2>1. /\ g \in Frame /\ g.pc = "done" /\ g.path = path /\ g.curr = NULL
        /\ g.obj = NULL /\ g.ret = "run" /\ g.dying = {} /\ g.err = "no_entry"
        /\ g.file = NULL
    BY <1>4 DEF Running, Frame, Points, Slot
  <2>2. Goto(t, g) /\ UNCHANGED <<walker, panic>>
    BY <1>3, <1>5
  <2>. HIDE DEF g
  <2>3. StepOf(t) /\ frame'[t] = g
    BY <1>0, <2>1, <2>2, Goes
  <2>6. FrameOK(t)' /\ OpenOK(t)'
    BY <1>2, <2>1, <2>2, <2>3, NullFacts DEF FrameOK, OpenOK, Releasing, Opening
  <2>7. FileOK(t)' /\ LiveOK(t)' /\ WalkOK(t)'
    BY <1>0, <1>1, <1>2, <2>1, <2>3, NullFacts, RunningFrame
       DEF FileOK, LiveOK, WalkOK, Opening, Types
  <2>8. frame'[t].dying = frame[t].dying /\ frame'[t].pc # "zero"
    BY <1>2, <2>1, <2>3, RunningFrame
  <2>9. CountsOK'
    <3>0. inode_used \in SUBSET InodeSlots /\ NULL \notin InodeSlots
      BY <1>0, NullFacts DEF Types
    <3>1. \A s \in inode_used : Walkers(s)' = Walkers(s) /\ Releasers(s)' = Releasers(s)
      BY <3>0, <1>1, <1>2, <2>1, <2>3, RunningFrame DEF Walkers, Releasers, StepOf, IsRoot
    <3>. QED BY <1>1, <2>3, <2>8, <3>1, CountsFrame
  <2>. QED BY <1>1, <2>2, <2>3, <2>6, <2>7, <2>8, <2>9, CoreFrame
<1>6. CASE m # 0
  <2>. DEFINE r == table[m][ROOT]
              g == [f EXCEPT !.pc = "walk", !.curr = r, !.at = Len(Mounts[m].path)]
  <2>1. m \in FileSystems /\ Len(Mounts[m].path) < Len(path) /\ Len(Mounts[m].path) \in Nat
    BY <1>6, WalkStarts, MountFacts
  <2>2. r = m /\ m \in inode_used /\ IsRoot(m)
    <3>1. m \in inode_used /\ inode[m].fs = m /\ inode[m].i_num = ROOT
      BY <1>0, <2>1 DEF Inodes
    <3>2. m \notin Dying
      <4>1. Referenced(m)
        BY <3>1 DEF Referenced, IsRoot
      <4>. QED BY <1>0, <3>1, <4>1, ReferencedSafe DEF Dying
    <3>. QED BY <1>0, <3>1, <3>2 DEF Tables, TableExact, IsRoot
  <2>3. r # NULL /\ r \in InodeSlots
    BY <2>1, <2>2, MountFacts, NullFacts
  <2>4. walker' = t /\ Goto(t, g) /\ panic' = panic
    BY <1>3, <1>6, <2>3
  <2>. HIDE DEF m, r
  <2>5. /\ g \in Frame /\ g.pc = "walk" /\ g.path = path /\ g.curr = r
        /\ g.at = Len(Mounts[m].path)
        /\ g.obj = NULL /\ g.ret = "run" /\ g.dying = {} /\ g.err = "ok"
        /\ g.file = NULL
    BY <1>4, <2>1, <2>3 DEF Running, Frame, Points, Slot
  <2>. HIDE DEF g
  <2>6. StepOf(t) /\ frame'[t] = g
    BY <1>0, <2>4, <2>5, Goes
  <2>9. FrameOK(t)' /\ OpenOK(t)'
    BY <2>3, <2>4, <2>5, <2>6 DEF FrameOK, OpenOK, Releasing, Opening
  <2>10. FileOK(t)' /\ LiveOK(t)' /\ WalkOK(t)'
    BY <1>0, <1>1, <1>2, <2>1, <2>2, <2>5, <2>6, NullFacts, RunningFrame
       DEF FileOK, LiveOK, WalkOK, Opening, Types
  <2>11. frame'[t].dying = frame[t].dying /\ frame'[t].pc # "zero"
    BY <1>2, <2>5, <2>6, RunningFrame
  <2>12. CountsOK'
    <3>0. inode_used \in SUBSET InodeSlots /\ NULL \notin InodeSlots
      BY <1>0, NullFacts DEF Types
    <3>1. \A s \in inode_used : Walkers(s)' = Walkers(s) /\ Releasers(s)' = Releasers(s)
      BY <3>0, <1>1, <1>2, <2>2, <2>5, <2>6, RunningFrame DEF Walkers, Releasers, StepOf, IsRoot
    <3>. QED BY <1>1, <2>6, <2>11, <3>1, CountsFrame
  <2>. QED BY <1>1, <2>4, <2>6, <2>9, <2>10, <2>11, <2>12, CoreFrame
<1>. QED BY <1>5, <1>6

\* The reference of the walk becomes that of the caller.
LEMMA WalkEndCore ==
    ASSUME Core, OneOpener, NEW t \in Tasks, walk_end(t)
    PROVE  Core' /\ panic' = "no"
<1>0. /\ Types /\ Control /\ Files /\ Positions /\ Inodes /\ Mutexes
      /\ Doom /\ Live /\ Tables /\ Walks /\ CountsOK
      /\ FrameOK(t) /\ OpenOK(t) /\ FileOK(t) /\ LiveOK(t) /\ WalkOK(t)
      /\ frame[t] \in Frame /\ frame \in [Tasks -> Frame]
  BY CoreParts
<1>. DEFINE g == [frame[t] EXCEPT !.pc = "done"]
<1>1. /\ panic = "no" /\ walker \in {t, NULL} /\ frame[t].pc = "walk"
      /\ frame[t].at = Len(frame[t].path) /\ walker' = NULL /\ Goto(t, g)
      /\ UNCHANGED <<inode, inode_used, table, file, file_used, held, files,
                     initial_rc, panic>>
  BY DEF walk_end, At
<1>2. /\ g \in Frame /\ g.pc = "done" /\ g.path = frame[t].path
      /\ g.curr = frame[t].curr /\ g.obj = frame[t].obj /\ g.ret = frame[t].ret
      /\ g.dying = frame[t].dying /\ g.err = frame[t].err /\ g.file = frame[t].file
  BY <1>0 DEF Frame, Points
<1>. HIDE DEF g
<1>3. StepOf(t) /\ frame'[t] = g
  BY <1>0, <1>1, <1>2, Goes
<1>4. FrameOK(t)' /\ OpenOK(t)'
  BY <1>0, <1>1, <1>2, <1>3, NullFacts DEF FrameOK, OpenOK, Releasing, Opening
<1>5. FileOK(t)' /\ LiveOK(t)' /\ WalkOK(t)'
  <2>1. frame[t].at \in Nat /\ Len(frame[t].path) \in Nat
    BY <1>0 DEF Frame
  <2>2. ~IsRoot(frame[t].curr) /\ frame[t].path \in Paths /\ frame[t].ret = "run"
    BY <1>0, <1>1, <2>1 DEF WalkOK, FrameOK, Releasing
  <2>. QED BY <1>0, <1>1, <1>2, <1>3, <2>2
           DEF FileOK, LiveOK, WalkOK, Opening, Types, FrameOK, IsRoot
<1>6. CountsOK'
  <2>1. \A s \in inode_used : Walkers(s)' = Walkers(s) /\ Releasers(s)' = Releasers(s)
    BY <1>0, <1>1, <1>2, <1>3 DEF Walkers, Releasers, StepOf, IsRoot
  <2>. QED BY <1>1, <1>2, <1>3, <2>1, CountsFrame
<1>. QED BY <1>1, <1>2, <1>3, <1>4, <1>5, <1>6, CoreFrame

\* Task t gives up its walk's reference to inode c and releases it.
LEMMA WalkToRelease ==
    ASSUME Core, NEW t \in Tasks, StepOf(t), NEW c \in inode_used,
           UNCHANGED <<inode, inode_used, file, held, files, initial_rc>>,
           frame'[t].dying = frame[t].dying,
           frame[t].pc \notin {"release", "locked"}, frame[t].curr = c, ~IsRoot(c),
           frame'[t].pc = "release", frame'[t].curr = NULL, frame'[t].obj = c
    PROVE  CountsOK'
<1>0. /\ Types /\ CountsOK /\ inode_used \in SUBSET InodeSlots
      /\ NULL \notin inode_used
  BY NullFacts DEF Core, Types
<1>1. Dying' = Dying
  BY DyingStep
<1>2. ASSUME NEW s \in inode_used PROVE Refs(s)' = Refs(s)
  <2>1. Holders(s)' = Holders(s) /\ Opened(s)' = Opened(s)
        /\ Children(s)' = Children(s) /\ RootRef(s)' = RootRef(s)
    BY <1>1 DEF Holders, Opened, Children, RootRef, IsRoot
  <2>2. CASE s # c
    <3>1. Walkers(s)' = Walkers(s) /\ Releasers(s)' = Releasers(s)
      BY <1>0, <2>2 DEF Walkers, Releasers, StepOf, IsRoot
    <3>. QED BY <2>1, <3>1, RefsIs, RefsIsNext
  <2>3. CASE s = c
    <3>1. t \in Walkers(s) /\ Walkers(s)' = Walkers(s) \ {t}
      BY <1>0, <2>3 DEF Walkers, StepOf, IsRoot
    <3>2. t \notin Releasers(s) /\ Releasers(s)' = Releasers(s) \cup {t}
      BY <1>0, <2>3 DEF Releasers, StepOf
    <3>3. /\ Cardinality(Walkers(s)') = Cardinality(Walkers(s)) - 1
          /\ Cardinality(Releasers(s)') = Cardinality(Releasers(s)) + 1
      BY <1>0, <3>1, <3>2, RefSets, CountPlus, CountMinus
    <3>. QED BY <1>0, <2>1, <3>3, RefSets, RefsChange
  <2>. QED BY <2>2, <2>3
<1>. QED BY <1>0, <1>2 DEF CountsOK

\* A failed lookup gives back the reference of the walk, unless it is at the
\* root.
LEMMA WalkFailCore ==
    ASSUME Core, OneOpener, NEW t \in Tasks, walk_fail(t),
           Found(frame[t]).err \in {"no_entry", "path_too_long", "ok"}
    PROVE  Core' /\ panic' = "no"
<1>0. /\ Types /\ Control /\ Files /\ Positions /\ Inodes /\ Mutexes
      /\ Doom /\ Live /\ Tables /\ Walks /\ CountsOK
      /\ FrameOK(t) /\ OpenOK(t) /\ FileOK(t) /\ LiveOK(t) /\ WalkOK(t)
      /\ frame[t] \in Frame /\ frame \in [Tasks -> Frame]
  BY CoreParts
<1>. DEFINE f == [frame[t] EXCEPT !.curr = NULL, !.err = Found(frame[t]).err]
            c == frame[t].curr
            e == Found(frame[t]).err
<1>1. /\ panic = "no" /\ walker \in {t, NULL} /\ frame[t].pc = "walk"
      /\ f.err # "ok"
      /\ walker' = IF IsRoot(c) THEN NULL ELSE walker
      /\ Goto(t, IF IsRoot(c) THEN [f EXCEPT !.pc = "done"]
                 ELSE [f EXCEPT !.pc = "release", !.obj = c, !.ret = "done"])
      /\ UNCHANGED <<inode, inode_used, table, file, file_used, held, files,
                     initial_rc, panic>>
  BY DEF walk_fail, At
<1>2. /\ walker = t /\ c # NULL /\ c \in inode_used /\ c \in InodeSlots
      /\ frame[t].ret = "run" /\ frame[t].dying = {} /\ frame[t].obj = NULL
      /\ frame[t].file = NULL /\ frame[t].path \in Paths
  BY <1>0, <1>1 DEF FrameOK, LiveOK, WalkOK, Releasing, Opening, Types
<1>3. e \in {"no_entry", "path_too_long"}
  <2>1. f.err = e
    BY <1>0 DEF Frame
  <2>. QED BY <1>1, <2>1
<1>. HIDE DEF e
<1>4. CASE IsRoot(c)
  <2>. DEFINE g == [f EXCEPT !.pc = "done"]
  <2>1. /\ g \in Frame /\ g.pc = "done" /\ g.path = frame[t].path
        /\ g.curr = NULL /\ g.obj = NULL /\ g.ret = "run"
        /\ g.dying = {} /\ g.err = e /\ g.file = NULL
    BY <1>0, <1>2, <1>3 DEF Frame, Points, Slot, e
  <2>2. walker' = NULL /\ Goto(t, g)
    BY <1>1, <1>4
  <2>. HIDE DEF g
  <2>3. StepOf(t) /\ frame'[t] = g
    BY <1>0, <2>1, <2>2, Goes
  <2>4. FrameOK(t)' /\ OpenOK(t)'
    BY <1>2, <1>3, <2>1, <2>2, <2>3, NullFacts DEF FrameOK, OpenOK, Releasing, Opening
  <2>5. FileOK(t)' /\ LiveOK(t)' /\ WalkOK(t)'
    BY <1>0, <1>1, <1>2, <1>3, <2>1, <2>3 DEF FileOK, LiveOK, WalkOK, Opening
  <2>6. CountsOK'
    <3>0. inode_used \in SUBSET InodeSlots /\ NULL \notin InodeSlots
      BY <1>0, NullFacts DEF Types
    <3>1. \A s \in inode_used : Walkers(s)' = Walkers(s) /\ Releasers(s)' = Releasers(s)
      BY <3>0, <1>1, <1>2, <1>4, <2>1, <2>3 DEF Walkers, Releasers, StepOf, IsRoot
    <3>. QED BY <1>1, <1>2, <2>1, <2>3, <3>1, CountsFrame
  <2>. QED BY <1>1, <1>2, <2>1, <2>2, <2>3, <2>4, <2>5, <2>6, CoreFrame
<1>5. CASE ~IsRoot(c)
  <2>. DEFINE g == [f EXCEPT !.pc = "release", !.obj = c, !.ret = "done"]
  <2>1. /\ g \in Frame /\ g.pc = "release" /\ g.path = frame[t].path
        /\ g.curr = NULL /\ g.obj = c /\ g.ret = "done"
        /\ g.dying = {} /\ g.err = e /\ g.file = NULL
    BY <1>0, <1>2, <1>3 DEF Frame, Points, Slot, e
  <2>2. walker' = t /\ Goto(t, g)
    BY <1>1, <1>2, <1>5
  <2>. HIDE DEF g
  <2>3. StepOf(t) /\ frame'[t] = g
    BY <1>0, <2>1, <2>2, Goes
  <2>4. FrameOK(t)' /\ OpenOK(t)'
    BY <1>2, <1>3, <2>1, <2>2, <2>3 DEF FrameOK, OpenOK, Releasing, Opening
  <2>5. FileOK(t)' /\ LiveOK(t)' /\ WalkOK(t)'
    BY <1>0, <1>1, <1>2, <1>3, <2>1, <2>3 DEF FileOK, LiveOK, WalkOK, Opening
  <2>6. CountsOK'
    BY <1>1, <1>2, <1>5, <2>1, <2>3, WalkToRelease
  <2>. QED BY <1>1, <1>2, <2>1, <2>2, <2>3, <2>4, <2>5, <2>6, CoreFrame
<1>. QED BY <1>1, <1>4, <1>5

\* Balance of the references to one inode, where children stay.
LEMMA Balance ==
    ASSUME Core, Steady, inode_used' = inode_used, Dying' = Dying,
           NEW s \in inode_used,
           Cardinality(Holders(s)') \in Int, Cardinality(Opened(s)') \in Int,
           Cardinality(Walkers(s)') \in Int, Cardinality(Releasers(s)') \in Int
    PROVE  /\ Refs(s) \in Nat
           /\ Refs(s)' = Refs(s)
                + (Cardinality(Holders(s)') - Cardinality(Holders(s)))
                + (Cardinality(Opened(s)') - Cardinality(Opened(s)))
                + (Cardinality(Walkers(s)') - Cardinality(Walkers(s)))
                + (Cardinality(Releasers(s)') - Cardinality(Releasers(s)))
<1>1. Children(s)' = Children(s) /\ RootRef(s)' = RootRef(s)
  BY DEF Children, RootRef, IsRoot, Steady
<1>2. inode_used \in SUBSET InodeSlots
  BY DEF Core, Types
<1>3. Cardinality(Children(s)) \in Nat /\ Cardinality(Holders(s)) \in Nat
      /\ Cardinality(Opened(s)) \in Nat /\ Cardinality(Walkers(s)) \in Nat
      /\ Cardinality(Releasers(s)) \in Nat
  BY <1>2, RefSets
<1>. QED BY <1>1, <1>2, <1>3, RefsChange

\* The caller keeps what traverse returned.
LEMMA ReturnedCore ==
    ASSUME Core, OneOpener, NEW t \in Tasks, returned(t)
    PROVE  Core' /\ panic' = "no"
<1>0. /\ Types /\ Control /\ Files /\ Positions /\ Inodes /\ Mutexes
      /\ Doom /\ Live /\ Tables /\ Walks /\ CountsOK
      /\ FrameOK(t) /\ OpenOK(t) /\ FileOK(t) /\ LiveOK(t) /\ WalkOK(t)
      /\ frame[t] \in Frame /\ frame \in [Tasks -> Frame]
  BY CoreParts
<1>1. /\ panic = "no" /\ walker \in {t, NULL} /\ frame[t].pc = "done"
      /\ Goto(t, Running)
      /\ UNCHANGED <<inode, inode_used, table, file, file_used, walker, files,
                     initial_rc, panic>>
  BY DEF returned, At
<1>2. /\ walker = NULL /\ frame[t].dying = {} /\ frame[t].obj = NULL
      /\ frame[t].file = NULL /\ frame[t].ret = "run" /\ frame[t].path \in Paths
      /\ frame[t].err = "ok" <=> frame[t].curr # NULL
      /\ frame[t].curr # NULL => ~IsRoot(frame[t].curr) /\ frame[t].curr \in inode_used
  BY <1>0, <1>1 DEF FrameOK, WalkOK, LiveOK, Releasing, Opening
<1>3. StepOf(t) /\ frame'[t] = Running
  BY <1>0, <1>1, RunningFrame, Goes
<1>4. Steady /\ Dying' = Dying
  BY <1>1, <1>2, <1>3, RunningFrame, DyingStep DEF Steady
<1>5. FrameOK(t)' /\ OpenOK(t)' /\ WalkOK(t)'
  BY <1>1, <1>2, <1>3, RunningFrame, NullFacts
     DEF FrameOK, OpenOK, WalkOK, Releasing, Opening
<1>6. FileOK(t)'
  BY <1>0, <1>1, <1>2, <1>3, RunningFrame, NullFacts DEF FileOK, Types
<1>7. inode_used \in SUBSET InodeSlots /\ NULL \notin InodeSlots
      /\ held \in [Tasks -> [Kept -> {Nothing} \cup [inode : InodeSlots, path : Paths]]]
  BY <1>0, NullFacts DEF Types
<1>8. \A x \in files'[t] : file'[x].f_pos \in 0 .. inode'[file'[x].owner_inode].len
  BY <1>0, <1>1 DEF Positions
<1>9. CASE frame[t].err # "ok"
  <2>1. held' = held
    BY <1>9 DEF returned
  <2>2. frame[t].curr = NULL
    BY <1>2, <1>9
  <2>3. \A s \in inode_used : Walkers(s)' = Walkers(s) /\ Releasers(s)' = Releasers(s)
    BY <1>1, <1>3, <1>7, <2>2, RunningFrame DEF Walkers, Releasers, StepOf, IsRoot
  <2>4. CountsOK'
    BY <1>1, <1>2, <1>3, <2>1, <2>3, RunningFrame, CountsFrame
  <2>5. LiveOK(t)'
    BY <1>0, <1>1, <1>3, <2>1, RunningFrame DEF LiveOK, Opening
  <2>. QED BY <1>1, <1>2, <1>3, <1>5, <1>6, <2>1, <2>4, <2>5, RunningFrame, CoreFrame
<1>10. CASE frame[t].err = "ok"
  <2>. DEFINE c == frame[t].curr
              k == [inode |-> c, path |-> frame[t].path]
  <2>1. PICK v \in Kept : held[t][v].inode = NULL /\ held' = [held EXCEPT ![t][v] = k]
    BY <1>10 DEF returned
  <2>2. /\ c \in inode_used /\ c \in InodeSlots /\ c # NULL /\ ~IsRoot(c)
    BY <1>2, <1>7, <1>10
  <2>3. k \in [inode : InodeSlots, path : Paths] /\ k.inode = c
    BY <1>2, <2>2
  <2>. HIDE DEF k
  <2>4. /\ held' \in [Tasks -> [Kept -> {Nothing} \cup [inode : InodeSlots, path : Paths]]]
        /\ \A u \in Tasks, w \in Kept : held'[u][w] = IF u = t /\ w = v THEN k ELSE held[u][w]
    BY <1>7, <2>1, <2>3
  <2>5. OwnRefs(t)
    BY <1>1, <1>7, <2>1 DEF OwnRefs
  <2>6. Types'
    BY <1>0, <1>1, <1>3, <2>4 DEF Types, StepOf
  <2>7. LiveOK(t)'
    BY <1>0, <1>1, <1>3, <2>2, <2>3, <2>4, RunningFrame DEF LiveOK, Opening
  <2>8. ASSUME NEW s \in inode_used PROVE Refs(s)' = Refs(s)
    <3>1. Opened(s)' = Opened(s) /\ Releasers(s)' = Releasers(s)
      BY <1>1, <1>3, RunningFrame DEF Opened, Releasers, StepOf
    <3>2. CASE s # c
      <4>1. Walkers(s)' = Walkers(s)
        BY <1>1, <1>3, <1>7, <3>2, RunningFrame DEF Walkers, StepOf, IsRoot
      <4>2. Holders(s)' = Holders(s)
        BY <1>7, <2>1, <2>3, <2>4, <3>2 DEF Holders
      <4>. QED BY <1>1, <1>4, <1>7, <3>1, <4>1, <4>2, Balance, RefSets
    <3>3. CASE s = c
      <4>1. t \in Walkers(s) /\ Walkers(s)' = Walkers(s) \ {t}
        BY <1>1, <1>3, <1>7, <2>2, <3>3, RunningFrame DEF Walkers, StepOf, IsRoot
      <4>2. <<t, v>> \notin Holders(s) /\ Holders(s)' = Holders(s) \cup {<<t, v>>}
        BY <1>7, <2>1, <2>2, <2>3, <2>4, <3>3 DEF Holders
      <4>3. /\ Cardinality(Walkers(s)') = Cardinality(Walkers(s)) - 1
            /\ Cardinality(Holders(s)') = Cardinality(Holders(s)) + 1
        BY <1>7, <4>1, <4>2, RefSets, CountPlus, CountMinus
      <4>. QED BY <1>1, <1>4, <1>7, <3>1, <4>3, Balance, RefSets
    <3>. QED BY <3>2, <3>3
  <2>9. CountsOK'
    BY <1>0, <1>1, <2>8 DEF CountsOK
  <2>. QED BY <1>1, <1>2, <1>3, <1>5, <1>6, <1>8, <2>5, <2>6, <2>7, <2>9, RunningFrame,
              CoreQuiet
<1>. QED BY <1>1, <1>9, <1>10

----------------------------------------------------------------------------
(***************************************************************************)
(* ... the calls of users ...                                              *)
(***************************************************************************)

\* A caller gives back what it kept.
LEMMA ReleaseCore ==
    ASSUME Core, OneOpener, NEW t \in Tasks, release(t)
    PROVE  Core' /\ panic' = "no"
<1>0. /\ Types /\ Control /\ Files /\ Positions /\ Inodes /\ Mutexes
      /\ Doom /\ Live /\ Tables /\ Walks /\ CountsOK
      /\ FrameOK(t) /\ OpenOK(t) /\ FileOK(t) /\ LiveOK(t) /\ WalkOK(t)
      /\ frame[t] \in Frame /\ frame \in [Tasks -> Frame]
  BY CoreParts
<1>1. /\ panic = "no" /\ walker \in {t, NULL} /\ frame[t].pc = "run"
      /\ UNCHANGED <<inode, inode_used, table, file, file_used, walker, files,
                     initial_rc, panic>>
  BY DEF release, At
<1>2. frame[t] = Running /\ walker = NULL
  BY <1>0, <1>1, RunningFrame DEF FrameOK
<1>3. PICK v \in Kept :
        /\ held[t][v].inode # NULL
        /\ held' = [held EXCEPT ![t][v] = Nothing]
        /\ Goto(t, [Running EXCEPT !.pc = "release", !.obj = held[t][v].inode])
  BY DEF release
<1>. DEFINE c == held[t][v].inode
            g == [Running EXCEPT !.pc = "release", !.obj = c]
<1>4. inode_used \in SUBSET InodeSlots /\ NULL \notin InodeSlots
      /\ held \in [Tasks -> [Kept -> {Nothing} \cup [inode : InodeSlots, path : Paths]]]
  BY <1>0, NullFacts DEF Types
<1>5. /\ c # NULL /\ c \in inode_used /\ c \in InodeSlots
      /\ held[t][v].inode = c
  BY <1>0, <1>3, <1>4 DEF LiveOK
<1>7. Goto(t, g)
  BY <1>3
<1>. HIDE DEF c
<1>6. /\ g \in Frame /\ g.pc = "release" /\ g.path = <<>>
      /\ g.curr = NULL /\ g.obj = c /\ g.ret = "run"
      /\ g.dying = {} /\ g.err = "ok" /\ g.file = NULL
  BY <1>5, RunningFrame DEF Frame, Points, Slot
<1>. HIDE DEF g
<1>8. StepOf(t) /\ frame'[t] = g
  BY <1>0, <1>6, <1>7, Goes
<1>9. Nothing.inode = NULL
  BY DEF Nothing
<1>10. /\ held' \in [Tasks -> [Kept -> {Nothing} \cup [inode : InodeSlots, path : Paths]]]
       /\ \A u \in Tasks, w \in Kept : held'[u][w] = IF u = t /\ w = v THEN Nothing ELSE held[u][w]
  BY <1>3, <1>4
<1>11. Steady /\ Dying' = Dying
  BY <1>1, <1>2, <1>6, <1>8, RunningFrame, DyingStep DEF Steady
<1>12. FrameOK(t)' /\ OpenOK(t)' /\ WalkOK(t)'
  BY <1>1, <1>2, <1>5, <1>6, <1>8, NullFacts
     DEF FrameOK, OpenOK, WalkOK, Releasing, Opening
<1>13. FileOK(t)'
  BY <1>0, <1>1, <1>2, <1>6, <1>8, RunningFrame, NullFacts DEF FileOK, Types
<1>14. LiveOK(t)'
  BY <1>0, <1>1, <1>5, <1>6, <1>8, <1>9, <1>10 DEF LiveOK, Opening
<1>15. OwnRefs(t) /\ Types'
  <2>1. OwnRefs(t)
    BY <1>1, <1>3, <1>4 DEF OwnRefs
  <2>2. Types'
    BY <1>0, <1>1, <1>8, <1>10 DEF Types, StepOf
  <2>. QED BY <2>1, <2>2
<1>16. \A x \in files'[t] : file'[x].f_pos \in 0 .. inode'[file'[x].owner_inode].len
  BY <1>0, <1>1 DEF Positions
<1>17. ASSUME NEW s \in inode_used PROVE Refs(s)' = Refs(s)
  <2>1. Opened(s)' = Opened(s) /\ Walkers(s)' = Walkers(s)
    BY <1>1, <1>2, <1>4, <1>6, <1>8, RunningFrame DEF Opened, Walkers, StepOf, IsRoot
  <2>2. CASE s # c
    <3>1. Releasers(s)' = Releasers(s)
      BY <1>1, <1>2, <1>6, <1>8, <2>2, RunningFrame DEF Releasers, StepOf
    <3>2. Holders(s)' = Holders(s)
      <4>1. \A u \in Tasks, w \in Kept : held'[u][w].inode = s <=> held[u][w].inode = s
        BY <1>4, <1>5, <1>9, <1>10, <2>2
      <4>. QED BY <4>1 DEF Holders
    <3>. QED BY <1>1, <1>4, <1>11, <2>1, <3>1, <3>2, Balance, RefSets
  <2>3. CASE s = c
    <3>1. t \notin Releasers(s) /\ Releasers(s)' = Releasers(s) \cup {t}
      BY <1>1, <1>2, <1>6, <1>8, <2>3, RunningFrame DEF Releasers, StepOf
    <3>2. <<t, v>> \in Holders(s) /\ Holders(s)' = Holders(s) \ {<<t, v>>}
      BY <1>4, <1>5, <1>9, <1>10, <2>3 DEF Holders
    <3>3. /\ Cardinality(Releasers(s)') = Cardinality(Releasers(s)) + 1
          /\ Cardinality(Holders(s)') = Cardinality(Holders(s)) - 1
      BY <1>4, <3>1, <3>2, RefSets, CountPlus, CountMinus
    <3>4. /\ Cardinality(Holders(s)) \in Nat /\ Cardinality(Releasers(s)) \in Nat
          /\ Cardinality(Opened(s)) \in Nat /\ Cardinality(Walkers(s)) \in Nat
      BY <1>4, RefSets
    <3>. QED BY <1>1, <1>11, <2>1, <3>3, <3>4, Balance
  <2>. QED BY <2>2, <2>3
<1>18. CountsOK'
  BY <1>0, <1>1, <1>17 DEF CountsOK
<1>. QED BY <1>1, <1>2, <1>6, <1>8, <1>12, <1>13, <1>14, <1>15, <1>16, <1>18, RunningFrame,
            CoreQuiet

\* The first free object exists and is free.
LEMMA FindBit ==
    ASSUME NEW S \in SUBSET Nat, S # {}
    PROVE  find_bit(S) \in S
<1>1. \E s \in S : \A r \in S : s <= r
  BY LeastNat
<1>. QED BY <1>1 DEF find_bit

\* open: an object of file_desc_alloc is found.
LEMMA OpenCore ==
    ASSUME Core, OneOpener, NEW t \in Tasks, open(t)
    PROVE  Core' /\ panic' = "no"
<1>0. /\ Types /\ Control /\ Files /\ Positions /\ Inodes /\ Mutexes
      /\ Doom /\ Live /\ Tables /\ Walks /\ CountsOK
      /\ FrameOK(t) /\ OpenOK(t) /\ FileOK(t) /\ LiveOK(t) /\ WalkOK(t)
      /\ frame[t] \in Frame /\ frame \in [Tasks -> Frame]
  BY CoreParts
<1>1. /\ panic = "no" /\ walker \in {t, NULL} /\ frame[t].pc = "run"
      /\ t \in Openers /\ files[t] = {} /\ FileSlots # file_used
      /\ UNCHANGED <<inode, inode_used, table, file, file_used, walker, held,
                     files, initial_rc, panic>>
  BY DEF open, At
<1>2. frame[t] = Running /\ walker = NULL
  BY <1>0, <1>1, RunningFrame DEF FrameOK
<1>. DEFINE b == find_bit(FileSlots \ file_used)
<1>3. PICK v \in Kept :
        /\ held[t][v].inode # NULL
        /\ Goto(t, [Running EXCEPT !.pc = "open", !.obj = held[t][v].inode, !.file = b])
  BY DEF open
<1>4. b \in FileSlots /\ b \notin file_used /\ b # NULL
  <2>1. file_used \in SUBSET FileSlots
    BY <1>0 DEF Types
  <2>2. FileSlots \ file_used \in SUBSET Nat /\ FileSlots \ file_used # {}
    BY <1>1, <2>1, SlotsAssumption
  <2>3. b \in FileSlots \ file_used
    BY <2>2, FindBit
  <2>. QED BY <2>3, NullFacts
<1>. HIDE DEF b
<1>. DEFINE c == held[t][v].inode
            g == [Running EXCEPT !.pc = "open", !.obj = c, !.file = b]
<1>5. inode_used \in SUBSET InodeSlots /\ NULL \notin InodeSlots
      /\ held \in [Tasks -> [Kept -> {Nothing} \cup [inode : InodeSlots, path : Paths]]]
  BY <1>0, NullFacts DEF Types
<1>6. /\ c # NULL /\ c \in inode_used /\ c \in InodeSlots
      /\ held[t][v].inode = c
  BY <1>0, <1>3, <1>5 DEF LiveOK
<1>8. Goto(t, g)
  BY <1>3
<1>. HIDE DEF c
<1>7. /\ g \in Frame /\ g.pc = "open" /\ g.path = <<>>
      /\ g.curr = NULL /\ g.obj = c /\ g.ret = "run"
      /\ g.dying = {} /\ g.err = "ok" /\ g.file = b
  BY <1>4, <1>6, RunningFrame DEF Frame, Points, Slot
<1>. HIDE DEF g
<1>9. StepOf(t) /\ frame'[t] = g
  BY <1>0, <1>7, <1>8, Goes
<1>10. FrameOK(t)' /\ OpenOK(t)' /\ WalkOK(t)'
  BY <1>1, <1>2, <1>4, <1>6, <1>7, <1>9, NullFacts
     DEF FrameOK, OpenOK, WalkOK, Releasing, Opening
<1>11. FileOK(t)' /\ LiveOK(t)'
  BY <1>0, <1>1, <1>2, <1>4, <1>6, <1>7, <1>9 DEF FileOK, LiveOK
<1>12. CountsOK'
  <2>1. \A s \in inode_used : Walkers(s)' = Walkers(s) /\ Releasers(s)' = Releasers(s)
    BY <1>1, <1>2, <1>5, <1>7, <1>9, RunningFrame, SMTT(40) DEF Walkers, Releasers, StepOf, IsRoot
  <2>. QED BY <1>1, <1>2, <1>7, <1>9, <2>1, RunningFrame, CountsFrame
<1>. QED BY <1>1, <1>2, <1>7, <1>9, <1>10, <1>11, <1>12, RunningFrame, CoreFrame

\* Reading stops at the end of the file.
LEMMA ReadStops ==
    ASSUME NEW len \in Nat, NEW count \in Nat, NEW pos \in 0 .. len
    PROVE  pos + tar_read(len, count, pos) \in 0 .. len
  BY DEF tar_read

\* read moves f_pos, inside the file.
LEMMA ReadCore ==
    ASSUME Core, OneOpener, NEW t \in Tasks, read(t)
    PROVE  Core' /\ panic' = "no"
<1>0. /\ Types /\ Control /\ Files /\ Positions /\ Inodes /\ Mutexes
      /\ Doom /\ Live /\ Tables /\ Walks /\ CountsOK
      /\ FrameOK(t) /\ OpenOK(t) /\ FileOK(t) /\ LiveOK(t) /\ WalkOK(t)
      /\ frame[t] \in Frame /\ frame \in [Tasks -> Frame]
  BY CoreParts
<1>1. /\ panic = "no" /\ walker \in {t, NULL} /\ frame[t].pc = "run"
      /\ UNCHANGED <<inode, inode_used, table, file_used, walker, frame, held,
                     files, initial_rc, panic>>
  BY DEF read, At
<1>2. frame[t] = Running /\ walker = NULL
  BY <1>0, <1>1, RunningFrame DEF FrameOK
<1>3. PICK x \in files[t], count \in Counts :
        file' = [file EXCEPT ![x].f_pos =
                    @ + tar_read(inode[file[x].owner_inode].len, count, @)]
  BY DEF read
<1>. DEFINE o == file[x].owner_inode
            pos == file[x].f_pos + tar_read(inode[o].len, count, file[x].f_pos)
<1>4. x \in FileSlots /\ file \in [FileSlots -> FileDesc] /\ count \in Nat
      /\ files \in [Tasks -> SUBSET FileSlots]
  BY <1>0, InputsAssumption DEF Types
<1>5. o \in inode_used /\ o \in InodeSlots
  BY <1>0 DEF LiveOK, Types
<1>6. inode[o].len \in Nat /\ file[x].f_pos \in 0 .. inode[o].len
  <2>1. inode[o] \in Inode
    BY <1>0, <1>5 DEF Types
  <2>. QED BY <1>0, <2>1, InodeFields DEF Positions
<1>7. pos \in 0 .. inode[o].len
  BY <1>4, <1>6, ReadStops
<1>8. pos \in Nat
  BY <1>6, <1>7
<1>9. file' = [file EXCEPT ![x].f_pos = pos]
  BY <1>3
<1>. HIDE DEF pos
<1>10. /\ file' \in [FileSlots -> FileDesc]
       /\ \A f \in FileSlots : /\ f # x => file'[f] = file[f]
                               /\ file'[f].owner_inode = file[f].owner_inode
                               /\ file'[f].rc = file[f].rc
       /\ file'[x].f_pos = pos
  BY <1>4, <1>8, <1>9 DEF FileDesc
<1>11. frame' \in [Tasks -> Frame] /\ StepOf(t) /\ OwnRefs(t)
  BY <1>0, <1>1 DEF StepOf, OwnRefs
<1>12. t \in Openers
  BY <1>0, <1>3 DEF FileOK
<1>13. ASSUME NEW u \in Tasks \ {t} PROVE files[u] = {}
  <2>1. u \notin Openers
    BY <1>12 DEF OneOpener
  <2>. QED BY <1>0, <2>1 DEF Files, FileOK
<1>14. Types'
  BY <1>0, <1>1, <1>10 DEF Types
<1>15. FrameOK(t)' /\ OpenOK(t)' /\ WalkOK(t)'
  BY <1>0, <1>1 DEF FrameOK, OpenOK, WalkOK, IsRoot
<1>16. FileOK(t)' /\ LiveOK(t)'
  <2>1. frame[t].file = NULL /\ frame[t].curr = NULL
    BY <1>2, RunningFrame
  <2>. QED BY <1>0, <1>1, <1>4, <1>10, <2>1 DEF FileOK, LiveOK, Opening
<1>17. \A f \in files'[t] : file'[f].f_pos \in 0 .. inode'[file'[f].owner_inode].len
  BY <1>0, <1>1, <1>4, <1>7, <1>10 DEF Positions
<1>18. CountsOK'
  <2>1. \A s \in inode_used : /\ Walkers(s)' = Walkers(s) /\ Releasers(s)' = Releasers(s)
                              /\ Holders(s)' = Holders(s)
    BY <1>1 DEF Walkers, Releasers, Holders, IsRoot
  <2>2. \A s \in inode_used : Opened(s)' = Opened(s)
    BY <1>1, <1>10 DEF Opened
  <2>3. Steady /\ Dying' = Dying
    BY <1>1 DEF Steady, Dying
  <2>. QED BY <1>0, <1>1, <2>1, <2>2, <2>3, CountsSame
<1>19. frame'[t].dying = frame[t].dying /\ frame'[t].pc = "run"
  BY <1>1
<1>. QED BY <1>1, <1>11, <1>12, <1>13, <1>14, <1>15, <1>16, <1>17, <1>18, <1>19, CoreQuiet

\* The last reference to a file: its inode is to be released.
LEMMA CloseCore ==
    ASSUME Core, OneOpener, NEW t \in Tasks, close(t)
    PROVE  Core' /\ panic' = "no"
<1>0. /\ Types /\ Control /\ Files /\ Positions /\ Inodes /\ Mutexes
      /\ Doom /\ Live /\ Tables /\ Walks /\ CountsOK
      /\ FrameOK(t) /\ OpenOK(t) /\ FileOK(t) /\ LiveOK(t) /\ WalkOK(t)
      /\ frame[t] \in Frame /\ frame \in [Tasks -> Frame]
  BY CoreParts
<1>1. /\ panic = "no" /\ walker \in {t, NULL} /\ frame[t].pc = "run"
  BY DEF close, At
<1>2. frame[t] = Running /\ walker = NULL
  BY <1>0, <1>1, RunningFrame DEF FrameOK
<1>3. PICK x \in files[t] :
        IF file[x].rc <= 0 THEN kassert_fails("rc")
        ELSE /\ file' = [file EXCEPT ![x].rc = @ - 1]
             /\ files' = [files EXCEPT ![t] = @ \ {x}]
             /\ Goto(t, IF file[x].rc # 1 THEN Running
                        ELSE [Running EXCEPT !.pc = "release", !.file = x,
                                             !.obj = file[x].owner_inode])
             /\ UNCHANGED <<inode, inode_used, table, file_used, walker, held,
                            initial_rc, panic>>
  BY DEF close
<1>4. x \in FileSlots /\ file \in [FileSlots -> FileDesc]
      /\ files \in [Tasks -> SUBSET FileSlots] /\ x # NULL
      /\ inode_used \in SUBSET InodeSlots /\ NULL \notin InodeSlots
  BY <1>0, NullFacts DEF Types
<1>. DEFINE c == file[x].owner_inode
            g == [Running EXCEPT !.pc = "release", !.file = x, !.obj = c]
<1>5. file[x].rc = 1 /\ c \in inode_used /\ c \in InodeSlots /\ c # NULL
  BY <1>0, <1>4 DEF FileOK, LiveOK
<1>6. /\ file' = [file EXCEPT ![x].rc = 0]
      /\ files' = [files EXCEPT ![t] = @ \ {x}]
      /\ Goto(t, g)
      /\ UNCHANGED <<inode, inode_used, table, file_used, walker, held,
                     initial_rc, panic>>
      /\ file[x].owner_inode = c
  BY <1>3, <1>5
<1>. HIDE DEF c
<1>7. /\ g \in Frame /\ g.pc = "release" /\ g.path = <<>>
      /\ g.curr = NULL /\ g.obj = c /\ g.ret = "run"
      /\ g.dying = {} /\ g.err = "ok" /\ g.file = x
  BY <1>4, <1>5, RunningFrame DEF Frame, Points, Slot
<1>. HIDE DEF g
<1>8. StepOf(t) /\ frame'[t] = g
  BY <1>0, <1>6, <1>7, Goes
<1>9. /\ file' \in [FileSlots -> FileDesc]
      /\ \A f \in FileSlots : /\ f # x => file'[f] = file[f]
                              /\ file'[f].owner_inode = file[f].owner_inode
                              /\ file'[f].f_pos = file[f].f_pos
  BY <1>4, <1>6 DEF FileDesc
<1>10. /\ files' \in [Tasks -> SUBSET FileSlots] /\ files'[t] = files[t] \ {x}
       /\ \A u \in Tasks : u # t => files'[u] = files[u]
  BY <1>4, <1>6
<1>11. OwnRefs(t)
  BY <1>6, <1>10 DEF OwnRefs
<1>12. Types'
  BY <1>0, <1>6, <1>8, <1>9, <1>10 DEF Types, StepOf
<1>13. t \in Openers
  BY <1>0, <1>3 DEF FileOK
<1>14. ASSUME NEW u \in Tasks \ {t} PROVE files[u] = {}
  <2>1. u \notin Openers
    BY <1>13 DEF OneOpener
  <2>. QED BY <1>0, <2>1 DEF Files, FileOK
<1>15. FrameOK(t)' /\ OpenOK(t)' /\ WalkOK(t)'
  BY <1>2, <1>5, <1>6, <1>7, <1>8, NullFacts
     DEF FrameOK, OpenOK, WalkOK, Releasing, Opening
<1>16. FileOK(t)'
  BY <1>0, <1>4, <1>6, <1>7, <1>8, <1>9, <1>10, <1>13 DEF FileOK
<1>17. LiveOK(t)'
  BY <1>0, <1>4, <1>5, <1>6, <1>7, <1>8, <1>9, <1>10 DEF LiveOK, Opening
<1>18. \A f \in files'[t] : file'[f].f_pos \in 0 .. inode'[file'[f].owner_inode].len
  BY <1>0, <1>4, <1>6, <1>9, <1>10 DEF Positions
<1>19. Steady /\ Dying' = Dying
  BY <1>2, <1>6, <1>7, <1>8, RunningFrame, DyingStep DEF Steady
<1>20. ASSUME NEW s \in inode_used PROVE Refs(s)' = Refs(s)
  <2>1. Holders(s)' = Holders(s) /\ Walkers(s)' = Walkers(s)
    BY <1>2, <1>4, <1>6, <1>7, <1>8, RunningFrame DEF Holders, Walkers, StepOf, IsRoot
  <2>0. /\ Cardinality(Holders(s)) \in Nat /\ Cardinality(Releasers(s)) \in Nat
        /\ Cardinality(Opened(s)) \in Nat /\ Cardinality(Walkers(s)) \in Nat
    BY <1>4, RefSets
  <2>2. CASE s # c
    <3>1. Releasers(s)' = Releasers(s)
      BY <1>2, <1>7, <1>8, <2>2, RunningFrame DEF Releasers, StepOf
    <3>2. Opened(s)' = Opened(s)
      <4>1. \A u \in Tasks, f \in FileSlots :
                (f \in files'[u] /\ file'[f].owner_inode = s)
                    <=> (f \in files[u] /\ file[f].owner_inode = s)
        BY <1>4, <1>6, <1>9, <1>10, <2>2
      <4>. QED BY <4>1 DEF Opened
    <3>. QED BY <1>6, <1>19, <2>0, <2>1, <3>1, <3>2, Balance
  <2>3. CASE s = c
    <3>1. t \notin Releasers(s) /\ Releasers(s)' = Releasers(s) \cup {t}
      BY <1>2, <1>7, <1>8, <2>3, RunningFrame DEF Releasers, StepOf
    <3>2. <<t, x>> \in Opened(s) /\ Opened(s)' = Opened(s) \ {<<t, x>>}
      <4>1. \A u \in Tasks, f \in FileSlots :
                (f \in files'[u] /\ file'[f].owner_inode = s)
                    <=> (f \in files[u] /\ file[f].owner_inode = s /\ ~(u = t /\ f = x))
        BY <1>4, <1>6, <1>9, <1>10, <2>3
      <4>2. <<t, x>> \in Opened(s)
        BY <1>4, <1>6, <2>3 DEF Opened
      <4>. QED BY <4>1, <4>2 DEF Opened
    <3>3. /\ Cardinality(Releasers(s)') = Cardinality(Releasers(s)) + 1
          /\ Cardinality(Opened(s)') = Cardinality(Opened(s)) - 1
      BY <1>4, <3>1, <3>2, RefSets, CountPlus, CountMinus
    <3>. QED BY <1>6, <1>19, <2>0, <2>1, <3>3, Balance
  <2>. QED BY <2>2, <2>3
<1>21. CountsOK'
  BY <1>0, <1>6, <1>20 DEF CountsOK
<1>. QED BY <1>1, <1>2, <1>6, <1>7, <1>8, <1>11, <1>12, <1>13, <1>14, <1>15, <1>16, <1>17,
            <1>18, <1>21, RunningFrame, CoreQuiet

----------------------------------------------------------------------------
\* Steps of task t that change inodes, but not which are in use.
LEMMA CoreStep ==
    ASSUME Core, OneOpener, NEW t \in Tasks, StepOf(t), OwnRefs(t),
           walker \in {t, NULL}, walker' \in {t, NULL},
           UNCHANGED <<inode_used, table>>, Steady, Dying' = Dying,
           Types', Mutexes', Doom',
           t \in Openers \/ UNCHANGED <<file, file_used>>,
           \A u \in Tasks \ {t} : \A f \in files[u] : file'[f] = file[f],
           \A f \in files'[t] : file'[f].f_pos \in 0 .. inode'[file'[f].owner_inode].len,
           FrameOK(t)', OpenOK(t)', FileOK(t)', LiveOK(t)', WalkOK(t)', CountsOK'
    PROVE  Core'
<1>0. /\ Types /\ Control /\ Files /\ Positions /\ Inodes /\ Mutexes
      /\ Doom /\ Live /\ Tables /\ Walks /\ CountsOK
  BY DEF Core
<1>1. Control' /\ Files'
  BY <1>0, ControlStep, FilesStep
<1>2. Live'
  BY <1>0, LiveStep, ParentsStep
<1>3. Positions'
  BY <1>0, <1>2, PositionsStep
<1>4. Inodes' /\ Tables'
  BY <1>0, InodesStep, TablesStep
<1>5. Walks'
  BY <1>0, <1>2, WalksStep
<1>. QED BY <1>1, <1>2, <1>3, <1>4, <1>5 DEF Core

\* The same file.
Alike(i, j) == /\ j.fs = i.fs /\ j.i_num = i.i_num
               /\ j.i_parent_ref = i.i_parent_ref
               /\ j.name = i.name /\ j.len = i.len

\* A change of one struct that leaves it the file that it is.
LEMMA OneInode ==
    ASSUME Types, NEW s \in InodeSlots, NEW j \in Inode, Alike(inode[s], j),
           inode' = [inode EXCEPT ![s] = j]
    PROVE  /\ Steady /\ inode' \in [InodeSlots -> Inode] /\ inode'[s] = j
           /\ \A o \in InodeSlots : o # s => inode'[o] = inode[o]
<1>1. /\ inode \in [InodeSlots -> Inode] /\ inode_used \in SUBSET InodeSlots
  BY DEF Types
<1>2. /\ inode' \in [InodeSlots -> Inode] /\ inode'[s] = j
      /\ \A o \in InodeSlots : o # s => inode'[o] = inode[o]
  BY <1>1
<1>3. ASSUME NEW o \in inode_used PROVE Alike(inode[o], inode'[o])
  BY <1>1, <1>2 DEF Alike
<1>. QED BY <1>2, <1>3 DEF Steady, Alike

\* What lock does to a struct ...
LEMMA LockedIs ==
    ASSUME NEW i \in Inode, NEW t \in Tasks
    PROVE  /\ locked(i, t) \in Inode /\ Alike(i, locked(i, t))
           /\ locked(i, t).i_rc = i.i_rc
           /\ i.owner = NULL => locked(i, t).owner = t /\ locked(i, t).queue = i.queue
           /\ i.owner # NULL => /\ locked(i, t).owner = i.owner
                                /\ locked(i, t).queue = Append(i.queue, t)
<1>1. Append(i.queue, t) \in Seq(Tasks)
  BY InodeFields
<1>2. CASE i.owner = NULL
  BY <1>2 DEF locked, Inode, Alike
<1>3. CASE i.owner # NULL
  <2>. DEFINE q == Append(i.queue, t)
  <2>1. locked(i, t) = [i EXCEPT !.queue = q]
    BY <1>3 DEF locked
  <2>2. q \in Seq(Tasks)
    BY <1>1
  <2>. HIDE DEF q
  <2>3. [i EXCEPT !.queue = q] \in Inode /\ Alike(i, [i EXCEPT !.queue = q])
        /\ [i EXCEPT !.queue = q].i_rc = i.i_rc
        /\ [i EXCEPT !.queue = q].owner = i.owner /\ [i EXCEPT !.queue = q].queue = q
    BY <2>2 DEF Inode, Alike
  <2>. QED BY <1>3, <2>1, <2>3 DEF q
<1>. QED BY <1>2, <1>3

\* unlock, and a new count.
LEMMA UnlockedIs ==
    ASSUME NEW i \in Inode, NEW n \in Nat
    PROVE  LET j == [unlocked(i) EXCEPT !.i_rc = n]
           IN  /\ j \in Inode /\ Alike(i, j) /\ j.i_rc = n
               /\ i.queue = <<>> => j.owner = NULL /\ j.queue = <<>>
               /\ i.queue # <<>> => j.owner = Head(i.queue) /\ j.queue = Tail(i.queue)
<1>1. i.queue \in Seq(Tasks)
  BY InodeFields
<1>2. CASE i.queue = <<>>
  BY <1>2 DEF unlocked, Inode, Alike
<1>3. CASE i.queue # <<>>
  <2>. DEFINE h == Head(i.queue)
              q == Tail(i.queue)
              u == [i EXCEPT !.owner = h, !.queue = q]
              j == [u EXCEPT !.i_rc = n]
  <2>1. unlocked(i) = u
    BY <1>3 DEF unlocked
  <2>2. h \in Tasks /\ q \in Seq(Tasks)
    BY <1>1, <1>3
  <2>. HIDE DEF q, h
  <2>3. j \in Inode /\ Alike(i, j) /\ j.i_rc = n /\ j.owner = h /\ j.queue = q
    BY <2>2 DEF Inode, Alike
  <2>. QED BY <1>3, <2>1, <2>3 DEF q, h
<1>. QED BY <1>2, <1>3

\* lock keeps the mutexes in order ...
LEMMA LockMutex ==
    ASSUME Types, Mutexes, NEW t \in Tasks, StepOf(t), NEW s \in InodeSlots,
           frame[t].pc \notin {"locked", "open_locked"},
           frame'[t].pc \in {"locked", "open_locked"}, frame'[t].obj = s,
           inode' = [inode EXCEPT ![s] = locked(@, t)]
    PROVE  /\ Mutexes' /\ Steady /\ inode' \in [InodeSlots -> Inode]
           /\ \A o \in InodeSlots : inode'[o].i_rc = inode[o].i_rc
<1>0. inode \in [InodeSlots -> Inode] /\ inode[s] \in Inode /\ t # NULL
  BY NullFacts DEF Types
<1>1. inode[s].owner \in Tasks \cup {NULL} /\ inode[s].queue \in Seq(Tasks)
  BY <1>0, InodeFields
<1>2. /\ Steady /\ inode' \in [InodeSlots -> Inode] /\ inode'[s] = locked(inode[s], t)
      /\ \A o \in InodeSlots : o # s => inode'[o] = inode[o]
  BY <1>0, LockedIs, OneInode, ZenonT(40)
<1>3. ASSUME NEW o \in InodeSlots PROVE inode'[o].i_rc = inode[o].i_rc
  BY <1>0, <1>2, LockedIs
<1>4. \A u, o : Waits(u, o) => Waits(u, o)' /\ u # t
  BY DEF Waits, StepOf
<1>. DEFINE W == {u \in Tasks : Waits(u, s)'}
<1>5. t \in W /\ \A u : Waits(u, s) => u \in W
  BY <1>4 DEF Waits
<1>6. ASSUME NEW o \in InodeSlots, o # s PROVE MutexOK(o)'
  <2>1. MutexOK(o) /\ inode'[o] = inode[o]
    BY <1>2, <1>6 DEF Mutexes
  <2>. QED BY <1>4, <2>1 DEF MutexOK
<1>7. MutexOK(s)'
  <2>. DEFINE q == inode[s].queue
  <2>0. MutexOK(s)
    BY DEF Mutexes
  <2>1. CASE inode[s].owner = NULL
    <3>1. inode'[s].owner = t /\ inode'[s].queue = q
      BY <1>0, <1>2, <2>1, LockedIs
    <3>. QED BY <1>0, <1>4, <1>5, <2>0, <3>1 DEF MutexOK
  <2>2. CASE inode[s].owner # NULL
    <3>1. inode'[s].owner = inode[s].owner /\ inode'[s].queue = Append(q, t)
      BY <1>0, <1>2, <2>2, LockedIs
    <3>2. inode[s].owner # t /\ \A i \in DOMAIN q : q[i] # t
      BY <1>4, <2>0, <2>2 DEF MutexOK
    <3>3. /\ DOMAIN Append(q, t) = 1 .. Len(q) + 1 /\ DOMAIN q = 1 .. Len(q)
          /\ Len(q) \in Nat
          /\ \A i \in 1 .. Len(q) + 1 :
                Append(q, t)[i] = IF i = Len(q) + 1 THEN t ELSE q[i]
      BY <1>1
    <3>. HIDE DEF q
    <3>4. ASSUME NEW i \in 1 .. Len(q) + 1
          PROVE  Append(q, t)[i] \in W /\ Append(q, t)[i] # inode[s].owner
      <4>1. CASE i = Len(q) + 1
        BY <1>5, <3>2, <3>3, <4>1
      <4>2. CASE i # Len(q) + 1
        <5>1. i \in DOMAIN q /\ Append(q, t)[i] = q[i]
          BY <3>3, <4>2
        <5>. QED BY <1>5, <2>0, <5>1 DEF MutexOK, q
      <4>. QED BY <4>1, <4>2
    <3>5. ASSUME NEW i \in 1 .. Len(q) + 1, NEW k \in 1 .. Len(q) + 1,
                 Append(q, t)[i] = Append(q, t)[k]
          PROVE  i = k
      <4>1. \A a, b \in DOMAIN q : q[a] = q[b] => a = b
        BY <2>0 DEF MutexOK, q
      <4>. QED BY <3>2, <3>3, <3>5, <4>1
    <3>6. inode[s].owner \in W
      BY <1>5, <2>0, <2>2 DEF MutexOK
    <3>. QED BY <3>1, <3>3, <3>4, <3>5, <3>6, SMTT(40) DEF MutexOK
  <2>. QED BY <2>1, <2>2
<1>. QED BY <1>2, <1>3, <1>6, <1>7 DEF Mutexes

\* ... and so does unlock.
LEMMA UnlockMutex ==
    ASSUME Types, Mutexes, NEW t \in Tasks, StepOf(t), NEW s \in InodeSlots,
           inode[s].owner = t, frame[t].pc \in {"locked", "open_locked"},
           NEW n \in Nat,
           inode' = [inode EXCEPT ![s] = [unlocked(inode[s]) EXCEPT !.i_rc = n]]
    PROVE  /\ Mutexes' /\ Steady /\ inode' \in [InodeSlots -> Inode]
           /\ inode'[s].i_rc = n
           /\ \A o \in InodeSlots : o # s => inode'[o] = inode[o]
<1>0. inode \in [InodeSlots -> Inode] /\ inode[s] \in Inode /\ t # NULL
  BY NullFacts DEF Types
<1>1. inode[s].queue \in Seq(Tasks)
  BY <1>0, InodeFields
<1>. DEFINE j == [unlocked(inode[s]) EXCEPT !.i_rc = n]
            q == inode[s].queue
<1>2. /\ j \in Inode /\ Alike(inode[s], j) /\ j.i_rc = n
      /\ q = <<>> => j.owner = NULL /\ j.queue = <<>>
      /\ q # <<>> => j.owner = Head(q) /\ j.queue = Tail(q)
  BY <1>0, UnlockedIs
<1>3. inode' = [inode EXCEPT ![s] = j]
  OBVIOUS
<1>. HIDE DEF j
<1>4. /\ Steady /\ inode' \in [InodeSlots -> Inode] /\ inode'[s] = j
      /\ \A o \in InodeSlots : o # s => inode'[o] = inode[o]
  BY <1>2, <1>3, OneInode
<1>5. MutexOK(s) /\ Waits(t, s)
  BY <1>0 DEF Mutexes, MutexOK
<1>6. \A u, o : Waits(u, o) /\ u # t => Waits(u, o)'
  BY DEF Waits, StepOf
<1>. DEFINE W == {u \in Tasks : Waits(u, s)'}
<1>9. \A u : Waits(u, s) /\ u # t => u \in W
  BY <1>6 DEF Waits
<1>7. ASSUME NEW o \in InodeSlots, o # s PROVE MutexOK(o)'
  <2>1. MutexOK(o) /\ inode'[o] = inode[o]
    BY <1>4, <1>7 DEF Mutexes
  <2>2. \A u : Waits(u, o) => u # t
    BY <1>5, <1>7 DEF Waits
  <2>. QED BY <1>6, <2>1, <2>2 DEF MutexOK
<1>8. MutexOK(s)'
  <2>1. CASE q = <<>>
    <3>1. inode'[s].owner = NULL /\ inode'[s].queue = <<>>
      BY <1>2, <1>4, <2>1
    <3>. QED BY <3>1 DEF MutexOK
  <2>2. CASE q # <<>>
    <3>1. inode'[s].owner = q[1] /\ inode'[s].queue = Tail(q)
      <4>1. Head(q) = q[1]
        BY <1>1, <2>2
      <4>. QED BY <1>2, <1>4, <2>2, <4>1
    <3>2. /\ DOMAIN q = 1 .. Len(q) /\ Len(q) \in Nat \ {0}
          /\ DOMAIN Tail(q) = 1 .. Len(q) - 1
          /\ \A i \in 1 .. Len(q) - 1 : Tail(q)[i] = q[i + 1]
      BY <1>1, <2>2
    <3>3. /\ \A i \in DOMAIN q : q[i] \in W
          /\ \A i, k \in DOMAIN q : q[i] = q[k] => i = k
      BY <1>5, <1>9 DEF MutexOK
    <3>. HIDE DEF q
    <3>4. q[1] \in W
      BY <3>2, <3>3
    <3>5. ASSUME NEW i \in 1 .. Len(q) - 1
          PROVE  /\ Tail(q)[i] \in W /\ Tail(q)[i] # q[1]
                 /\ \A k \in 1 .. Len(q) - 1 : Tail(q)[i] = Tail(q)[k] => i = k
      <4>1. i + 1 \in DOMAIN q /\ 1 \in DOMAIN q /\ i + 1 # 1 /\ Tail(q)[i] = q[i + 1]
        BY <3>2
      <4>2. \A k \in 1 .. Len(q) - 1 : k + 1 \in DOMAIN q /\ Tail(q)[k] = q[k + 1]
        BY <3>2
      <4>3. \A k \in 1 .. Len(q) - 1 : Tail(q)[i] = Tail(q)[k] => i = k
        BY <3>2, <3>3, <4>1, <4>2
      <4>. QED BY <3>3, <4>1, <4>3
    <3>. DEFINE r == Tail(q)
    <3>6. /\ \A i \in DOMAIN r : r[i] \in W /\ r[i] # q[1]
          /\ \A i, k \in DOMAIN r : r[i] = r[k] => i = k
      BY <3>2, <3>5
    <3>. HIDE DEF r
    <3>7. inode'[s].owner = q[1] /\ inode'[s].queue = r
      BY <3>1 DEF r
    <3>8. (inode[s].owner # NULL => Waits(inode[s].owner, s))'
      BY <3>4, <3>7
    <3>9. (\A i \in DOMAIN inode[s].queue :
              /\ Waits(inode[s].queue[i], s)
              /\ inode[s].queue[i] # inode[s].owner)'
      BY <3>6, <3>7
    <3>10. (\A i, k \in DOMAIN inode[s].queue :
              inode[s].queue[i] = inode[s].queue[k] => i = k)'
      BY <3>6, <3>7
    <3>. QED BY <3>8, <3>9, <3>10 DEF MutexOK
  <2>. QED BY <2>1, <2>2
<1>. QED BY <1>2, <1>4, <1>7, <1>8 DEF Mutexes

----------------------------------------------------------------------------
(***************************************************************************)
(* ... the mutexes and counts of inodes ...                                *)
(***************************************************************************)

\* Reading positions, where files and inodes stay what they are.
LEMMA PositionsKept ==
    ASSUME Core, Steady, inode_used' = inode_used, NEW t \in Tasks,
           files'[t] = files[t], \A x \in files[t] : file'[x] = file[x]
    PROVE  \A x \in files'[t] : file'[x].f_pos \in 0 .. inode'[file'[x].owner_inode].len
<1>1. ASSUME NEW x \in files[t] PROVE file[x].f_pos \in 0 .. inode'[file[x].owner_inode].len
  <2>1. file[x].owner_inode \in inode_used
    BY DEF Core, Live, LiveOK
  <2>2. inode'[file[x].owner_inode].len = inode[file[x].owner_inode].len
    BY <2>1 DEF Steady
  <2>. QED BY <2>2 DEF Core, Positions
<1>. QED BY <1>1

\* release_ref_locked: lock. Inside traverse a taken mutex stops the kernel.
LEMMA ReleaseLockCore ==
    ASSUME Core, OneOpener, NEW t \in Tasks, release_lock(t)
    PROVE  Core' /\ AssertsHold'
<1>0. /\ Types /\ Control /\ Files /\ Positions /\ Inodes /\ Mutexes
      /\ Doom /\ Live /\ Tables /\ Walks /\ CountsOK
      /\ FrameOK(t) /\ OpenOK(t) /\ FileOK(t) /\ LiveOK(t) /\ WalkOK(t)
      /\ frame[t] \in Frame /\ frame \in [Tasks -> Frame]
  BY CoreParts
<1>. DEFINE s == frame[t].obj
            g == [frame[t] EXCEPT !.pc = "locked"]
<1>1. panic = "no" /\ walker \in {t, NULL} /\ frame[t].pc = "release"
  BY DEF release_lock, At
<1>2. s \in inode_used /\ s \in InodeSlots
  BY <1>0, <1>1 DEF LiveOK, Types
<1>3. CASE walker = t /\ inode[s].owner # NULL /\ kassert_fails("yield")
  <2>1. Core'
    BY <1>3, CoreSame DEF kassert_fails
  <2>2. Waits(inode[s].owner, s)
    BY <1>0, <1>2, <1>3 DEF Mutexes, MutexOK
  <2>3. inode[s].owner # t
    BY <1>1, <2>2 DEF Waits
  <2>4. inode[s].owner \notin {NULL, walker}
    BY <1>3, <2>3
  <2>. QED BY <1>2, <1>3, <2>1, <2>4 DEF kassert_fails, AssertsHold
<1>4. CASE /\ inode' = [inode EXCEPT ![s] = locked(@, t)]
           /\ Goto(t, g)
           /\ UNCHANGED <<inode_used, table, file, file_used, walker, held,
                          files, initial_rc, panic>>
  <2>1. /\ g \in Frame /\ g.pc = "locked" /\ g.path = frame[t].path
        /\ g.at = frame[t].at /\ g.curr = frame[t].curr /\ g.obj = s
        /\ g.ret = frame[t].ret /\ g.dying = frame[t].dying
        /\ g.err = frame[t].err /\ g.file = frame[t].file
    BY <1>0 DEF Frame, Points
  <2>. HIDE DEF g
  <2>2. StepOf(t) /\ frame'[t] = g
    BY <1>0, <1>4, <2>1, Goes
  <2>3. /\ Mutexes' /\ Steady /\ inode' \in [InodeSlots -> Inode]
        /\ \A o \in InodeSlots : inode'[o].i_rc = inode[o].i_rc
    BY <1>0, <1>1, <1>2, <1>4, <2>1, <2>2, LockMutex
  <2>4. Dying' = Dying
    BY <2>1, <2>2, DyingStep
  <2>5. OwnRefs(t) /\ Types'
    BY <1>0, <1>4, <2>2, <2>3 DEF OwnRefs, Types, StepOf
  <2>6. FrameOK(t)' /\ OpenOK(t)' /\ FileOK(t)' /\ LiveOK(t)'
    BY <1>0, <1>1, <1>4, <2>1, <2>2 DEF FrameOK, OpenOK, FileOK, LiveOK, Releasing, Opening
  <2>7. WalkOK(t)'
    <3>1. frame[t].curr # NULL => inode'[frame[t].curr].i_num = inode[frame[t].curr].i_num
      BY <1>0, <1>4, <2>3 DEF LiveOK, Steady
    <3>2. frame[t].ret = "walk" => frame[t].curr # NULL
      BY <1>0, <1>1 DEF FrameOK, Releasing
    <3>. QED BY <1>0, <1>1, <2>1, <2>2, <3>1, <3>2 DEF WalkOK, IsRoot
  <2>8. Doom'
    <3>1. Doomed(t)' = Doomed(t)
      BY <1>1, <2>1, <2>2 DEF Doomed
    <3>2. \A o \in inode_used : inode'[o].i_rc = inode[o].i_rc
      BY <1>0, <2>3 DEF Types
    <3>. QED BY <1>0, <1>4, <2>1, <2>2, <3>1, <3>2, DoomStep
  <2>9. CountsOK'
    <3>1. \A o \in inode_used : /\ inode'[o].i_rc = inode[o].i_rc
                                /\ inode'[o].i_num = inode[o].i_num
      BY <1>0, <1>4, <2>3 DEF Types, Steady
    <3>2. \A o \in inode_used : Walkers(o)' = Walkers(o) /\ Releasers(o)' = Releasers(o)
      BY <1>1, <2>1, <2>2, <3>1 DEF Walkers, Releasers, StepOf, IsRoot
    <3>3. \A o \in inode_used : Holders(o)' = Holders(o) /\ Opened(o)' = Opened(o)
      BY <1>4 DEF Holders, Opened
    <3>. QED BY <1>0, <1>4, <2>3, <2>4, <3>1, <3>2, <3>3, CountsSame
  <2>10. \A x \in files'[t] : file'[x].f_pos \in 0 .. inode'[file'[x].owner_inode].len
    BY <1>4, <2>3, PositionsKept
  <2>11. Core'
    BY <1>1, <1>4, <2>2, <2>3, <2>4, <2>5, <2>6, <2>7, <2>8, <2>9, <2>10, CoreStep
  <2>. QED BY <1>1, <1>4, <2>11 DEF AssertsHold
<1>. QED BY <1>3, <1>4 DEF release_lock

\* open: the object is taken, and the inode locked.
LEMMA OpenTakeCore ==
    ASSUME Core, OneOpener, NEW t \in Tasks, open_take(t)
    PROVE  Core' /\ panic' = "no"
<1>0. /\ Types /\ Control /\ Files /\ Positions /\ Inodes /\ Mutexes
      /\ Doom /\ Live /\ Tables /\ Walks /\ CountsOK
      /\ FrameOK(t) /\ OpenOK(t) /\ FileOK(t) /\ LiveOK(t) /\ WalkOK(t)
      /\ frame[t] \in Frame /\ frame \in [Tasks -> Frame]
  BY CoreParts
<1>. DEFINE s == frame[t].obj
            b == frame[t].file
            d == [rc |-> 1, owner_inode |-> s, f_pos |-> 0]
            g == [frame[t] EXCEPT !.pc = "open_locked"]
<1>1. /\ panic = "no" /\ walker \in {t, NULL} /\ frame[t].pc = "open"
      /\ file_used' = file_used \cup {b}
      /\ file' = [file EXCEPT ![b] = d]
      /\ inode' = [inode EXCEPT ![s] = locked(@, t)]
      /\ Goto(t, g)
      /\ UNCHANGED <<inode_used, table, walker, held, files, initial_rc, panic>>
  BY DEF open_take, At
<1>2. s \in inode_used /\ s \in InodeSlots
  BY <1>0, <1>1 DEF LiveOK, Opening, Types
<1>3. /\ b \in FileSlots /\ b # NULL /\ t \in Openers /\ b \notin file_used
      /\ b \notin files[t] /\ frame[t].curr = NULL /\ frame[t].ret = "run"
      /\ frame[t].dying = {} /\ walker = NULL /\ frame[t].err = "ok"
  <2>1. b \in FileSlots \cup {NULL}
    BY <1>0, FrameFields
  <2>. QED BY <1>0, <1>1, <2>1, NullFacts DEF FrameOK, FileOK, Opening, Releasing
<1>4. /\ g \in Frame /\ g.pc = "open_locked" /\ g.path = frame[t].path
      /\ g.at = frame[t].at /\ g.curr = NULL /\ g.obj = s
      /\ g.ret = "run" /\ g.dying = {} /\ g.err = "ok" /\ g.file = b
  BY <1>0, <1>3 DEF Frame, Points
<1>5. d \in FileDesc
  BY <1>2 DEF FileDesc, Slot
<1>. HIDE DEF g, d
<1>6. StepOf(t) /\ frame'[t] = g
  BY <1>0, <1>1, <1>4, Goes
<1>7. /\ Mutexes' /\ Steady /\ inode' \in [InodeSlots -> Inode]
      /\ \A o \in InodeSlots : inode'[o].i_rc = inode[o].i_rc
  BY <1>0, <1>1, <1>2, <1>4, <1>6, LockMutex
<1>8. Dying' = Dying
  BY <1>3, <1>4, <1>6, DyingStep
<1>9. ASSUME NEW u \in Tasks \ {t} PROVE files[u] = {}
  <2>1. u \notin Openers
    BY <1>3 DEF OneOpener
  <2>. QED BY <1>0, <2>1 DEF Files, FileOK
<1>10. /\ file' \in [FileSlots -> FileDesc] /\ file'[b] = d
       /\ \A x \in FileSlots : x # b => file'[x] = file[x]
       /\ files \in [Tasks -> SUBSET FileSlots]
  BY <1>0, <1>1, <1>3, <1>5 DEF Types
<1>11. \A u \in Tasks : \A x \in files[u] : x # b /\ file'[x] = file[x]
  BY <1>3, <1>9, <1>10
<1>12. OwnRefs(t) /\ Types'
  <2>1. OwnRefs(t)
    BY <1>1 DEF OwnRefs
  <2>2. file_used' \in SUBSET FileSlots
    BY <1>0, <1>1, <1>3 DEF Types
  <2>3. Types'
    BY <1>0, <1>1, <1>6, <1>7, <1>10, <2>2 DEF Types, StepOf
  <2>. QED BY <2>1, <2>3
<1>13. FrameOK(t)' /\ OpenOK(t)'
  BY <1>0, <1>1, <1>3, <1>4, <1>6, NullFacts DEF FrameOK, OpenOK, Releasing, Opening
<1>14. FileOK(t)'
  BY <1>0, <1>1, <1>3, <1>4, <1>6, <1>10, <1>11 DEF FileOK, d
<1>15. LiveOK(t)' /\ WalkOK(t)'
  BY <1>0, <1>1, <1>2, <1>4, <1>6, <1>11 DEF LiveOK, WalkOK, Opening
<1>16. Doom'
  <2>1. Doomed(t)' = Doomed(t)
    BY <1>1, <1>3, <1>4, <1>6 DEF Doomed
  <2>2. \A o \in inode_used : inode'[o].i_rc = inode[o].i_rc
    BY <1>0, <1>7 DEF Types
  <2>. QED BY <1>0, <1>1, <1>4, <1>6, <2>1, <2>2, DoomStep
<1>17. CountsOK'
  <2>1. \A o \in inode_used : /\ inode'[o].i_rc = inode[o].i_rc
                              /\ inode'[o].i_num = inode[o].i_num
    BY <1>0, <1>1, <1>7 DEF Types, Steady
  <2>2. \A o \in inode_used : Walkers(o)' = Walkers(o) /\ Releasers(o)' = Releasers(o)
    BY <1>1, <1>3, <1>4, <1>6, <2>1 DEF Walkers, Releasers, StepOf, IsRoot
  <2>3. \A o \in inode_used : Holders(o)' = Holders(o)
    BY <1>1 DEF Holders
  <2>4. \A o \in inode_used : Opened(o)' = Opened(o)
    BY <1>1, <1>11 DEF Opened
  <2>. QED BY <1>0, <1>1, <1>7, <1>8, <2>1, <2>2, <2>3, <2>4, CountsSame
<1>18. \A x \in files'[t] : file'[x].f_pos \in 0 .. inode'[file'[x].owner_inode].len
  BY <1>1, <1>7, <1>11, PositionsKept
<1>. QED BY <1>1, <1>3, <1>6, <1>7, <1>8, <1>11, <1>12, <1>13, <1>14, <1>15, <1>16, <1>17,
            <1>18, CoreStep

\* release_ref_locked: one reference less. With the last one the inode is in
\* the hands of this task.
LEMMA ReleaseRefCore ==
    ASSUME Core, OneOpener, NEW t \in Tasks, release_ref_locked(t)
    PROVE  Core' /\ panic' = "no"
<1>0. /\ Types /\ Control /\ Files /\ Positions /\ Inodes /\ Mutexes
      /\ Doom /\ Live /\ Tables /\ Walks /\ CountsOK
      /\ FrameOK(t) /\ OpenOK(t) /\ FileOK(t) /\ LiveOK(t) /\ WalkOK(t)
      /\ frame[t] \in Frame /\ frame \in [Tasks -> Frame]
  BY CoreParts
<1>. DEFINE s == frame[t].obj
            to == IF inode[s].i_rc = 1 THEN "zero" ELSE "unwind"
            g == [frame[t] EXCEPT !.pc = to]
            n == inode[s].i_rc - 1
<1>1. panic = "no" /\ walker \in {t, NULL} /\ frame[t].pc = "locked" /\ inode[s].owner = t
  BY DEF release_ref_locked, At
<1>2. s \in inode_used /\ s \in InodeSlots /\ inode_used \in SUBSET InodeSlots
  BY <1>0, <1>1 DEF LiveOK, Types
<1>3. Referenced(s)
  BY <1>1 DEF Referenced
<1>4. inode[s].i_rc \in Nat \ {0} /\ n \in Nat
  <2>1. inode[s].i_rc \in Nat \ {0}
    BY <1>0, <1>2, <1>3, ReferencedCount
  <2>. QED BY <2>1
<1>5. /\ inode' = [inode EXCEPT ![s] = [unlocked(inode[s]) EXCEPT !.i_rc = n]]
      /\ Goto(t, g)
      /\ UNCHANGED <<inode_used, table, file, file_used, walker, held, files,
                     initial_rc, panic>>
  <2>1. ~(inode[s].i_rc <= 0)
    BY <1>4
  <2>. QED BY <2>1 DEF release_ref_locked
<1>7. /\ g \in Frame /\ g.pc = to /\ g.path = frame[t].path
      /\ g.at = frame[t].at /\ g.curr = frame[t].curr /\ g.obj = s
      /\ g.ret = frame[t].ret /\ g.dying = frame[t].dying
      /\ g.err = frame[t].err /\ g.file = frame[t].file
  BY <1>0 DEF Frame, Points
<1>9. /\ to \in {"zero", "unwind"} /\ (to = "zero" <=> n = 0)
      /\ n = inode[s].i_rc - 1
  BY <1>4
<1>. HIDE DEF g, n, to
<1>10. StepOf(t) /\ frame'[t] = g
  BY <1>0, <1>5, <1>7, Goes
<1>19. /\ frame'[t].pc \in Releasing
       /\ frame'[t].pc \notin {"run", "walk", "done", "release", "locked"} \cup Opening
  BY <1>7, <1>9, <1>10 DEF Releasing, Opening
<1>11. /\ Mutexes' /\ Steady /\ inode' \in [InodeSlots -> Inode]
       /\ inode'[s].i_rc = n
       /\ \A o \in InodeSlots : o # s => inode'[o] = inode[o]
  BY <1>0, <1>1, <1>2, <1>4, <1>5, <1>10, UnlockMutex
<1>12. Dying' = Dying
  BY <1>7, <1>10, DyingStep
<1>13. OwnRefs(t) /\ Types'
  BY <1>0, <1>5, <1>10, <1>11 DEF OwnRefs, Types, StepOf
<1>14. FrameOK(t)' /\ OpenOK(t)' /\ FileOK(t)' /\ LiveOK(t)'
  <2>1. frame[t].pc \in Releasing
    BY <1>1 DEF Releasing
  <2>2. FrameOK(t)'
    BY <1>0, <1>2, <1>5, <1>7, <1>10, <1>19, <2>1, NullFacts DEF FrameOK, Releasing, Opening
  <2>3. OpenOK(t)' /\ FileOK(t)'
    BY <1>0, <1>5, <1>7, <1>10, <1>19 DEF OpenOK, FileOK, Opening
  <2>4. LiveOK(t)'
    BY <1>0, <1>2, <1>5, <1>7, <1>10 DEF LiveOK
  <2>. QED BY <2>2, <2>3, <2>4
<1>15. WalkOK(t)'
  <2>1. frame[t].curr # NULL => inode'[frame[t].curr].i_num = inode[frame[t].curr].i_num
    BY <1>0, <1>5, <1>11 DEF LiveOK, Steady
  <2>2. frame[t].ret = "walk" => frame[t].curr # NULL
    BY <1>0, <1>1 DEF FrameOK, Releasing
  <2>. QED BY <1>0, <1>1, <1>7, <1>10, <1>19, <2>1, <2>2 DEF WalkOK, IsRoot
<1>16. Doom'
  <2>1. \A u \in Tasks : s \notin Doomed(u) /\ s \notin frame[u].dying
    BY <1>0, <1>2, <1>3, ReferencedSafe
  <2>2. \A u \in Tasks : u # t => Doomed(u)' = Doomed(u)
    BY <1>10 DEF Doomed, StepOf
  <2>3. Doomed(t)' = IF n = 0 THEN Doomed(t) \cup {s} ELSE Doomed(t)
    BY <1>1, <1>2, <1>7, <1>9, <1>10 DEF Doomed
  <2>4. \A o \in inode_used : o # s => inode'[o].i_rc = inode[o].i_rc
    BY <1>2, <1>11
  <2>5. CASE n # 0
    <3>1. \A o \in inode_used : inode'[o].i_rc = 0 <=> inode[o].i_rc = 0
      BY <1>4, <1>11, <2>4, <2>5
    <3>2. frame'[t].pc # "zero"
      BY <1>7, <1>9, <1>10, <2>5
    <3>. QED BY <1>0, <1>5, <1>10, <2>3, <2>5, <3>1, <3>2, DoomStep
  <2>6. CASE n = 0
    <3>1. Doomed(t)' = Doomed(t) \cup {s}
      BY <2>3, <2>6
    <3>2. \A u \in Tasks : \A o \in Doomed(u)' : o \in inode_used' /\ inode'[o].i_rc = 0
      <4>1. \A u \in Tasks : \A o \in Doomed(u) : o \in inode_used /\ inode'[o].i_rc = 0
        BY <1>0, <2>1, <2>4 DEF Doom
      <4>. QED BY <1>2, <1>5, <1>11, <2>2, <2>6, <3>1, <4>1
    <3>3. \A u \in Tasks : frame'[u].pc = "zero" => frame'[u].obj \notin frame'[u].dying
      BY <1>0, <1>7, <1>10, <2>1 DEF Doom, StepOf
    <3>4. \A u, w \in Tasks : u # w => Doomed(u)' \cap Doomed(w)' = {}
      <4>1. \A u, w \in Tasks : u # w => Doomed(u) \cap Doomed(w) = {}
        BY <1>0 DEF Doom
      <4>. QED BY <2>1, <2>2, <3>1, <4>1
    <3>5. \A o \in inode_used' : inode'[o].i_rc = 0 => \E u \in Tasks : o \in Doomed(u)'
      <4>1. \A o \in inode_used : inode[o].i_rc = 0 => \E u \in Tasks : o \in Doomed(u)
        BY <1>0 DEF Doom
      <4>. QED BY <1>5, <2>2, <2>4, <3>1, <4>1
    <3>. QED BY <3>2, <3>3, <3>4, <3>5 DEF Doom
  <2>. QED BY <2>5, <2>6
<1>17. CountsOK'
  <2>1. ASSUME NEW o \in inode_used PROVE inode'[o].i_rc = initial_rc' - 1 + Refs(o)'
    <3>0. /\ Cardinality(Holders(o)) \in Nat /\ Cardinality(Releasers(o)) \in Nat
          /\ Cardinality(Opened(o)) \in Nat /\ Cardinality(Walkers(o)) \in Nat
          /\ IsFiniteSet(Releasers(o))
      BY <1>2, RefSets
    <3>1. inode'[o].i_num = inode[o].i_num
      BY <1>5, <1>11 DEF Steady
    <3>2. Holders(o)' = Holders(o) /\ Opened(o)' = Opened(o) /\ Walkers(o)' = Walkers(o)
      BY <1>5, <1>7, <1>10, <3>1 DEF Holders, Opened, Walkers, StepOf, IsRoot
    <3>3. inode[o].i_rc = initial_rc - 1 + Refs(o) /\ initial_rc \in Nat
      BY <1>0 DEF CountsOK, Types
    <3>4. CASE o # s
      <4>1. Releasers(o)' = Releasers(o)
        BY <1>1, <1>7, <1>9, <1>10, <3>4 DEF Releasers, StepOf
      <4>2. Refs(o)' = Refs(o)
        BY <1>5, <1>11, <1>12, <3>0, <3>2, <4>1, Balance
      <4>. QED BY <1>2, <1>5, <1>11, <3>3, <3>4, <4>2
    <3>5. CASE o = s
      <4>1. t \in Releasers(o) /\ Releasers(o)' = Releasers(o) \ {t}
        BY <1>1, <1>7, <1>10, <1>19, <3>5 DEF Releasers, StepOf
      <4>2. Cardinality(Releasers(o)') = Cardinality(Releasers(o)) - 1
        BY <3>0, <4>1, CountMinus
      <4>3. Refs(o)' = Refs(o) - 1 /\ Refs(o) \in Nat
        BY <1>5, <1>11, <1>12, <3>0, <3>2, <4>2, Balance
      <4>4. inode'[o].i_rc = inode[o].i_rc - 1
        BY <1>9, <1>11, <3>5
      <4>5. initial_rc' = initial_rc
        BY <1>5
      <4>. QED BY <3>3, <4>3, <4>4, <4>5
    <3>. QED BY <3>4, <3>5
  <2>. QED BY <1>5, <2>1 DEF CountsOK
<1>18. \A x \in files'[t] : file'[x].f_pos \in 0 .. inode'[file'[x].owner_inode].len
  BY <1>5, <1>11, PositionsKept
<1>. QED BY <1>1, <1>5, <1>10, <1>11, <1>12, <1>13, <1>14, <1>15, <1>16, <1>17, <1>18, CoreStep

\* take_ref_locked of open: the file refers to the inode.
LEMMA OpenRefCore ==
    ASSUME Core, OneOpener, NEW t \in Tasks, open_ref(t)
    PROVE  Core' /\ panic' = "no"
<1>0. /\ Types /\ Control /\ Files /\ Positions /\ Inodes /\ Mutexes
      /\ Doom /\ Live /\ Tables /\ Walks /\ CountsOK
      /\ FrameOK(t) /\ OpenOK(t) /\ FileOK(t) /\ LiveOK(t) /\ WalkOK(t)
      /\ frame[t] \in Frame /\ frame \in [Tasks -> Frame]
  BY CoreParts
<1>. DEFINE s == frame[t].obj
            b == frame[t].file
            n == inode[s].i_rc + 1
<1>1. panic = "no" /\ walker \in {t, NULL} /\ frame[t].pc = "open_locked" /\ inode[s].owner = t
  BY DEF open_ref, At
<1>2. s \in inode_used /\ s \in InodeSlots /\ inode_used \in SUBSET InodeSlots
      /\ files \in [Tasks -> SUBSET FileSlots]
  BY <1>0, <1>1 DEF LiveOK, Types, Opening
<1>3. Referenced(s)
  BY <1>0, <1>1 DEF Referenced, OpenOK, Opening
<1>4. inode[s].i_rc \in Nat \ {0} /\ n \in Nat \ {0}
  <2>1. inode[s].i_rc \in Nat \ {0}
    BY <1>0, <1>2, <1>3, ReferencedCount
  <2>. QED BY <2>1
<1>5. /\ inode' = [inode EXCEPT ![s] = [unlocked(inode[s]) EXCEPT !.i_rc = n]]
      /\ files' = [files EXCEPT ![t] = @ \cup {b}]
      /\ Goto(t, Running)
      /\ UNCHANGED <<inode_used, table, file, file_used, walker, held,
                     initial_rc, panic>>
  <2>1. ~(inode[s].i_rc <= 0)
    BY <1>4
  <2>. QED BY <2>1 DEF open_ref
<1>9. n = inode[s].i_rc + 1
  OBVIOUS
<1>. HIDE DEF n
<1>7. /\ b \in FileSlots /\ b # NULL /\ t \in Openers /\ b \in file_used
      /\ b \notin files[t] /\ frame[t].curr = NULL
      /\ frame[t].dying = {} /\ walker = NULL
      /\ file[b].rc = 1 /\ file[b].owner_inode = s /\ file[b].f_pos = 0
  <2>1. b \in FileSlots \cup {NULL}
    BY <1>0, FrameFields
  <2>. QED BY <1>0, <1>1, <2>1, NullFacts DEF FrameOK, FileOK, Opening, Releasing
<1>10. StepOf(t) /\ frame'[t] = Running
  BY <1>0, <1>5, RunningFrame, Goes
<1>11. /\ Mutexes' /\ Steady /\ inode' \in [InodeSlots -> Inode]
       /\ inode'[s].i_rc = n
       /\ \A o \in InodeSlots : o # s => inode'[o] = inode[o]
  BY <1>0, <1>1, <1>2, <1>4, <1>5, <1>10, UnlockMutex
<1>12. Dying' = Dying
  BY <1>7, <1>10, RunningFrame, DyingStep
<1>13. /\ files' \in [Tasks -> SUBSET FileSlots] /\ files'[t] = files[t] \cup {b}
       /\ \A u \in Tasks : u # t => files'[u] = files[u]
  BY <1>2, <1>5, <1>7
<1>14. OwnRefs(t) /\ Types'
  BY <1>0, <1>5, <1>10, <1>11, <1>13 DEF OwnRefs, Types, StepOf
<1>15. FrameOK(t)' /\ OpenOK(t)' /\ WalkOK(t)'
  BY <1>5, <1>7, <1>10, RunningFrame, NullFacts
     DEF FrameOK, OpenOK, WalkOK, Releasing, Opening
<1>16. FileOK(t)' /\ LiveOK(t)'
  BY <1>0, <1>2, <1>5, <1>7, <1>10, <1>13, RunningFrame, NullFacts DEF FileOK, LiveOK, Opening
<1>17. Doom'
  <2>1. Doomed(t)' = Doomed(t)
    BY <1>1, <1>7, <1>10, RunningFrame DEF Doomed
  <2>2. \A o \in inode_used : inode'[o].i_rc = 0 <=> inode[o].i_rc = 0
    BY <1>2, <1>4, <1>11
  <2>. QED BY <1>0, <1>5, <1>10, <2>1, <2>2, RunningFrame, DoomStep
<1>18. CountsOK'
  <2>1. ASSUME NEW o \in inode_used PROVE inode'[o].i_rc = initial_rc' - 1 + Refs(o)'
    <3>0. /\ Cardinality(Holders(o)) \in Nat /\ Cardinality(Releasers(o)) \in Nat
          /\ Cardinality(Opened(o)) \in Nat /\ Cardinality(Walkers(o)) \in Nat
          /\ IsFiniteSet(Opened(o))
      BY <1>2, RefSets
    <3>1. inode'[o].i_num = inode[o].i_num
      BY <1>5, <1>11 DEF Steady
    <3>2. /\ Holders(o)' = Holders(o) /\ Releasers(o)' = Releasers(o)
          /\ Walkers(o)' = Walkers(o)
      <4>1. o # NULL
        BY <1>2, NullFacts
      <4>. QED BY <1>1, <1>5, <1>7, <1>10, <3>1, <4>1, RunningFrame
               DEF Holders, Releasers, Walkers, StepOf, IsRoot
    <3>3. inode[o].i_rc = initial_rc - 1 + Refs(o) /\ initial_rc \in Nat
      BY <1>0 DEF CountsOK, Types
    <3>6. initial_rc' = initial_rc
      BY <1>5
    <3>4. CASE o # s
      <4>1. Opened(o)' = Opened(o)
        <5>1. \A u \in Tasks, f \in FileSlots :
                (f \in files'[u] /\ file'[f].owner_inode = o)
                    <=> (f \in files[u] /\ file[f].owner_inode = o)
          BY <1>5, <1>7, <1>13, <3>4
        <5>. QED BY <5>1 DEF Opened
      <4>2. Refs(o)' = Refs(o)
        BY <1>5, <1>11, <1>12, <3>0, <3>2, <4>1, Balance
      <4>. QED BY <1>2, <1>11, <3>3, <3>4, <3>6, <4>2
    <3>5. CASE o = s
      <4>1. <<t, b>> \notin Opened(o) /\ Opened(o)' = Opened(o) \cup {<<t, b>>}
        <5>1. \A u \in Tasks, f \in FileSlots :
                (f \in files'[u] /\ file'[f].owner_inode = o)
                    <=> (f \in files[u] /\ file[f].owner_inode = o) \/ (u = t /\ f = b)
          BY <1>5, <1>7, <1>13, <3>5
        <5>2. <<t, b>> \notin Opened(o)
          BY <1>7 DEF Opened
        <5>. QED BY <1>7, <5>1, <5>2 DEF Opened
      <4>2. Cardinality(Opened(o)') = Cardinality(Opened(o)) + 1
        BY <3>0, <4>1, CountPlus
      <4>3. Refs(o)' = Refs(o) + 1 /\ Refs(o) \in Nat
        BY <1>5, <1>11, <1>12, <3>0, <3>2, <4>2, Balance
      <4>4. inode'[o].i_rc = inode[o].i_rc + 1
        BY <1>9, <1>11, <3>5
      <4>. QED BY <3>3, <3>6, <4>3, <4>4
    <3>. QED BY <3>4, <3>5
  <2>. QED BY <1>5, <2>1 DEF CountsOK
<1>19. \A x \in files'[t] : file'[x].f_pos \in 0 .. inode'[file'[x].owner_inode].len
  <2>1. ASSUME NEW x \in files[t] PROVE file[x].f_pos \in 0 .. inode'[file[x].owner_inode].len
    <3>1. file[x].owner_inode \in inode_used
      BY <1>0 DEF LiveOK
    <3>2. inode'[file[x].owner_inode].len = inode[file[x].owner_inode].len
      BY <1>5, <1>11, <3>1 DEF Steady
    <3>. QED BY <1>0, <3>2 DEF Positions
  <2>2. file[b].f_pos \in 0 .. inode'[file[b].owner_inode].len
    <3>1. inode'[s] \in Inode
      BY <1>2, <1>11
    <3>2. inode'[s].len \in Nat
      BY <3>1, InodeFields
    <3>. QED BY <1>7, <3>2
  <2>. QED BY <1>5, <1>13, <2>1, <2>2
<1>20. \A u \in Tasks \ {t} : \A x \in files[u] : file'[x] = file[x]
  BY <1>5
<1>. QED BY <1>1, <1>5, <1>7, <1>10, <1>11, <1>12, <1>14, <1>15, <1>16, <1>17, <1>18, <1>19,
            <1>20, CoreStep

----------------------------------------------------------------------------
(***************************************************************************)
(* ... going down, to an inode in the table or to a new one ...            *)
(***************************************************************************)

\* Products grow with their factors.
LEMMA TimesMonotone ==
    ASSUME NEW i \in Nat, NEW j \in Nat, i <= j, NEW K \in Nat
    PROVE  i * K <= j * K
<1>1. (j - i) * K >= 0
  <2>1. j - i \in Nat
    OBVIOUS
  <2>. QED BY <2>1
<1>2. (j - i) * K = j * K - i * K
  OBVIOUS
<1>. QED BY <1>1, <1>2

\* lookup gives a number of the archive, and never the root's.
LEMMA LookupNumber ==
    ASSUME NEW m \in FileSystems, NEW name \in Seq(STRING), Len(name) >= 1,
           tar_lookup(Mounts[m].archive, name).err = "ok"
    PROVE  /\ tar_lookup(Mounts[m].archive, name).i_num \in Numbers
           /\ tar_lookup(Mounts[m].archive, name).i_num # ROOT
           /\ tar_lookup(Mounts[m].archive, name).i_num \in Nat
<1>. DEFINE a == Mounts[m].archive
            n == Len(name)
            num == tar_lookup(a, name).i_num
            K == NameMax + 1
<1>1. a \in Seq(Entry)
  BY MountFacts
<1>2. PICK i \in DOMAIN a : n <= Len(a[i].name) /\ num = Number(a, i) + n - 1
  BY <1>1, LookupIs
<1>3. /\ Len(a) \in Nat /\ i \in 1 .. Len(a) /\ Len(a[i].name) \in 1 .. NameMax
  BY <1>1, EntryFacts
<1>4. Number(a, i) \in 3 .. 3 + (i - 1) * K
  BY <1>1, NumberBounds
<1>5. K \in Nat /\ NameMax \in Nat /\ n \in Nat /\ n >= 1 /\ K = NameMax + 1
  BY NameAssumption
<1>. HIDE DEF a, n, num, K
<1>6. (i - 1) * K + K = i * K /\ (i - 1) * K \in Nat /\ i * K <= Len(a) * K
      /\ i * K \in Nat /\ Len(a) * K \in Nat
  <2>1. i - 1 \in Nat /\ (i - 1) + 1 = i /\ i \in Nat /\ i <= Len(a)
    BY <1>3
  <2>. QED BY <1>3, <1>5, <2>1, TimesNext, TimesMonotone, ZenonT(40)
<1>7. num \in 3 .. 2 + Len(a) * K
  <2>. DEFINE P == (i - 1) * K
              Q == i * K
              R == Len(a) * K
  <2>1. P + K = Q /\ P \in Nat /\ Q <= R /\ Q \in Nat /\ R \in Nat /\ Number(a, i) \in 3 .. 3 + P
    BY <1>4, <1>6
  <2>2. Len(a[i].name) \in Nat /\ Len(a[i].name) <= NameMax
    BY <1>3, <1>5
  <2>. HIDE DEF P, Q, R
  <2>3. num \in 3 .. 2 + R
    BY <1>2, <1>5, <2>1, <2>2
  <2>. QED BY <2>3 DEF R
<1>8. num \in 2 .. 2 + Len(a) * K /\ num # 2 /\ num \in Nat
  BY <1>6, <1>7
<1>. QED BY <1>8 DEF Numbers, ROOT, a, K, num

\* What lookup finds for the next component.
LEMMA FoundFacts ==
    ASSUME Core, NEW t \in Tasks, frame[t].pc = "walk",
           frame[t].at < Len(frame[t].path)
    PROVE  LET c == frame[t].curr
               full == Append(inode[c].name, frame[t].path[frame[t].at + 1])
           IN  /\ c \in inode_used /\ c \in InodeSlots /\ inode[c].fs \in FileSystems
               /\ full \in Seq(STRING) /\ Len(full) >= 1
               /\ Found(frame[t]) = tar_lookup(Mounts[inode[c].fs].archive, full)
               /\ Found(frame[t]).err \in {"ok", "no_entry", "path_too_long"}
               /\ Found(frame[t]).err = "ok" =>
                    /\ Found(frame[t]).i_num \in Numbers
                    /\ Found(frame[t]).i_num # ROOT
<1>. DEFINE c == frame[t].curr
            m == inode[c].fs
            p == frame[t].path
            full == Append(inode[c].name, p[frame[t].at + 1])
<1>1. FrameOK(t) /\ LiveOK(t) /\ frame[t] \in Frame /\ Types /\ Inodes
  BY CoreParts
<1>2. c \in inode_used /\ c \in InodeSlots /\ m \in FileSystems
  BY <1>1 DEF FrameOK, LiveOK, Inodes, Types
<1>3. inode[c].name \in Seq(STRING)
  <2>1. inode[c] \in Inode
    BY <1>1, <1>2 DEF Types
  <2>. QED BY <2>1, InodeFields
<1>4. p[frame[t].at + 1] \in STRING
  <2>1. p \in Seq(STRING) /\ frame[t].at \in Nat
    BY <1>1, FrameFields
  <2>2. Len(p) \in Nat /\ frame[t].at + 1 \in 1 .. Len(p)
    BY <2>1
  <2>. QED BY <2>1, <2>2
<1>5. full \in Seq(STRING) /\ Len(full) >= 1
  BY <1>3, <1>4
<1>6. Found(frame[t]) = tar_lookup(Mounts[m].archive, full)
  BY DEF Found, lookup
<1>7. Mounts[m].archive \in Seq(Entry)
  BY <1>2, MountFacts
<1>. HIDE DEF full
<1>8. Found(frame[t]).err \in {"ok", "no_entry", "path_too_long"}
  BY <1>5, <1>6, <1>7, LookupIs
<1>9. Found(frame[t]).err = "ok" => /\ Found(frame[t]).i_num \in Numbers
                                   /\ Found(frame[t]).i_num # ROOT
  BY <1>2, <1>5, <1>6, LookupNumber
<1>. QED BY <1>2, <1>5, <1>6, <1>8, <1>9 DEF full

\* From a directory to inode s of it.
LEMMA DescendFrame ==
    ASSUME Core, NEW t \in Tasks, frame[t].pc = "walk", NEW s \in InodeSlots, Descend(t, s)
    PROVE  /\ StepOf(t) /\ walker = t
           /\ frame[t].obj = NULL /\ frame[t].ret = "run" /\ frame[t].dying = {}
           /\ frame'[t].path = frame[t].path /\ frame'[t].at = frame[t].at + 1
           /\ frame'[t].curr = s /\ frame'[t].dying = {} /\ frame'[t].err = "ok"
           /\ frame'[t].file = NULL
           /\ IsRoot(frame[t].curr) =>
                frame'[t].pc = "walk" /\ frame'[t].obj = NULL /\ frame'[t].ret = "run"
           /\ ~IsRoot(frame[t].curr) =>
                /\ frame'[t].pc = "release" /\ frame'[t].obj = frame[t].curr
                /\ frame'[t].ret = "walk"
<1>. DEFINE c == frame[t].curr
            f == [frame[t] EXCEPT !.curr = s, !.at = @ + 1]
            g == [f EXCEPT !.pc = "release", !.obj = c, !.ret = "walk"]
<1>0. Types /\ FrameOK(t) /\ frame[t] \in Frame
  BY CoreParts
<1>1. /\ walker = t /\ frame[t].obj = NULL /\ frame[t].ret = "run"
      /\ frame[t].dying = {} /\ frame[t].file = NULL /\ frame[t].err = "ok"
  BY <1>0 DEF FrameOK, Releasing, Opening
<1>2. Goto(t, IF IsRoot(c) THEN f ELSE g)
  BY DEF Descend
<1>3. /\ f \in Frame /\ f.path = frame[t].path /\ f.at = frame[t].at + 1
      /\ f.curr = s /\ f.dying = {} /\ f.err = "ok" /\ f.file = NULL
      /\ f.pc = "walk" /\ f.obj = NULL /\ f.ret = "run"
  <2>1. frame[t].at + 1 \in Nat
    BY <1>0, FrameFields
  <2>. QED BY <1>0, <1>1, <2>1 DEF Frame, Slot
<1>4. c \in Slot
  BY <1>0, FrameFields
<1>. HIDE DEF f, c
<1>5. /\ g \in Frame /\ g.path = f.path /\ g.at = f.at
      /\ g.curr = f.curr /\ g.dying = f.dying /\ g.err = f.err /\ g.file = f.file
      /\ g.pc = "release" /\ g.obj = c /\ g.ret = "walk"
  BY <1>3, <1>4 DEF Frame, Points
<1>. HIDE DEF g
<1>6. CASE IsRoot(c)
  <2>1. StepOf(t) /\ frame'[t] = f
    BY <1>0, <1>2, <1>3, <1>6, Goes
  <2>. QED BY <1>1, <1>3, <1>6, <2>1 DEF c
<1>7. CASE ~IsRoot(c)
  <2>1. StepOf(t) /\ frame'[t] = g
    BY <1>0, <1>2, <1>5, <1>7, Goes
  <2>. QED BY <1>1, <1>3, <1>5, <1>7, <2>1 DEF c
<1>. QED BY <1>6, <1>7

\* The parts of the invariant that are about t, when a walk goes down.
LEMMA DescendParts ==
    ASSUME Core, NEW t \in Tasks, frame[t].pc = "walk", NEW s \in InodeSlots,
           Descend(t, s), frame[t].at < Len(frame[t].path),
           inode'[s].i_num # ROOT, s \in inode_used', inode_used \subseteq inode_used',
           UNCHANGED <<file, file_used, walker, held, files>>
    PROVE  FrameOK(t)' /\ OpenOK(t)' /\ FileOK(t)' /\ LiveOK(t)' /\ WalkOK(t)'
<1>. DEFINE c == frame[t].curr
<1>0. /\ FrameOK(t) /\ OpenOK(t) /\ FileOK(t) /\ LiveOK(t) /\ WalkOK(t)
      /\ frame[t] \in Frame
  BY CoreParts
<1>1. /\ StepOf(t) /\ walker = t
      /\ frame'[t].path = frame[t].path /\ frame'[t].at = frame[t].at + 1
      /\ frame'[t].curr = s /\ frame'[t].dying = {} /\ frame'[t].err = "ok"
      /\ frame'[t].file = NULL
      /\ \/ frame'[t].pc = "walk" /\ frame'[t].obj = NULL /\ frame'[t].ret = "run"
         \/ frame'[t].pc = "release" /\ frame'[t].obj = c /\ frame'[t].ret = "walk"
  BY DescendFrame
<1>2. c # NULL /\ s # NULL /\ c \in inode_used /\ frame[t].path \in Paths
      /\ frame[t].file = NULL /\ walker' = t
  BY <1>0, <1>1, NullFacts DEF FrameOK, LiveOK, WalkOK, Releasing, Opening
<1>. HIDE DEF c
<1>3. FrameOK(t)'
  BY <1>1, <1>2 DEF FrameOK, Releasing, Opening
<1>4. OpenOK(t)'
  BY <1>1 DEF OpenOK, Opening
<1>5. FileOK(t)'
  BY <1>0, <1>1, <1>2 DEF FileOK
<1>6. LiveOK(t)'
  BY <1>0, <1>1, <1>2 DEF LiveOK, Opening
<1>7. frame[t].at + 1 <= Len(frame[t].path)
  <2>1. frame[t].at \in Nat /\ frame[t].path \in Seq(STRING)
    BY <1>0, FrameFields
  <2>. QED BY <2>1
<1>8. WalkOK(t)'
  BY <1>1, <1>2, <1>7 DEF WalkOK, IsRoot
<1>. QED BY <1>3, <1>4, <1>5, <1>6, <1>8

\* The walk's reference moves on; the directory's is about to be given back.
LEMMA DescendRefs ==
    ASSUME Core, NEW t \in Tasks, frame[t].pc = "walk", NEW s \in InodeSlots,
           Descend(t, s), NEW o \in inode_used, inode'[o].i_num = inode[o].i_num,
           o = s => ~IsRoot(o)
    PROVE  /\ Cardinality(Walkers(o)') \in Int /\ Cardinality(Releasers(o)') \in Int
           /\ o # s => Cardinality(Walkers(o)') + Cardinality(Releasers(o)')
                        = Cardinality(Walkers(o)) + Cardinality(Releasers(o))
           /\ o = s => Cardinality(Walkers(o)') + Cardinality(Releasers(o)')
                        = Cardinality(Walkers(o)) + Cardinality(Releasers(o)) + 1
<1>. DEFINE c == frame[t].curr
<1>0. inode_used \in SUBSET InodeSlots /\ NULL \notin InodeSlots
  BY NullFacts DEF Core, Types
<1>1. /\ StepOf(t) /\ frame[t].obj = NULL /\ frame'[t].curr = s
      /\ IsRoot(c) => frame'[t].pc = "walk" /\ frame'[t].obj = NULL
      /\ ~IsRoot(c) => frame'[t].pc = "release" /\ frame'[t].obj = c
  BY DescendFrame
<1>2. /\ IsFiniteSet(Walkers(o)) /\ Cardinality(Walkers(o)) \in Nat
      /\ IsFiniteSet(Releasers(o)) /\ Cardinality(Releasers(o)) \in Nat
  BY <1>0, RefSets
<1>3. t \notin Releasers(o)
  BY DEF Releasers
<1>4. CASE o = c /\ ~IsRoot(o)
  <2>1. Releasers(o)' = Releasers(o) \cup {t}
    BY <1>1, <1>4 DEF Releasers, StepOf
  <2>2. t \in Walkers(o)
    BY <1>4 DEF Walkers
  <2>3. Cardinality(Releasers(o)') = Cardinality(Releasers(o)) + 1
    BY <1>2, <1>3, <2>1, CountPlus
  <2>4. CASE o = s
    <3>1. Walkers(o)' = Walkers(o)
      BY <1>1, <1>4, <2>4 DEF Walkers, StepOf, IsRoot
    <3>. QED BY <1>2, <2>3, <2>4, <3>1
  <2>5. CASE o # s
    <3>1. Walkers(o)' = Walkers(o) \ {t}
      BY <1>1, <1>4, <2>5 DEF Walkers, StepOf, IsRoot
    <3>2. Cardinality(Walkers(o)') = Cardinality(Walkers(o)) - 1
      BY <1>2, <2>2, <3>1, CountMinus
    <3>. QED BY <1>2, <2>3, <2>5, <3>2
  <2>. QED BY <2>4, <2>5
<1>5. CASE ~(o = c /\ ~IsRoot(o))
  <2>1. Releasers(o)' = Releasers(o)
    BY <1>0, <1>1, <1>5 DEF Releasers, StepOf
  <2>2. t \notin Walkers(o)
    BY <1>5 DEF Walkers
  <2>4. CASE o = s
    <3>1. Walkers(o)' = Walkers(o) \cup {t}
      BY <1>1, <1>5, <2>4 DEF Walkers, StepOf, IsRoot
    <3>2. Cardinality(Walkers(o)') = Cardinality(Walkers(o)) + 1
      BY <1>2, <2>2, <3>1, CountPlus
    <3>. QED BY <1>2, <2>1, <2>4, <3>2
  <2>5. CASE o # s
    <3>1. Walkers(o)' = Walkers(o)
      BY <1>1, <1>5, <2>5 DEF Walkers, StepOf, IsRoot
    <3>. QED BY <1>2, <2>1, <2>5, <3>1
  <2>. QED BY <2>4, <2>5
<1>. QED BY <1>4, <1>5

\* A mutex that is taken stops a walk.
LEMMA TakeRefFails ==
    ASSUME Core, NEW t \in Tasks, walker = t, frame[t].pc = "walk",
           NEW s \in inode_used, take_ref_fails(s),
           inode[s].i_rc = 0 => \E u \in Tasks \ {t} : frame[u].pc = "zero"
    PROVE  Core' /\ AssertsHold'
<1>1. CASE inode[s].owner # NULL /\ kassert_fails("yield")
  <2>1. Core'
    BY <1>1, CoreSame DEF kassert_fails
  <2>2. Waits(inode[s].owner, s)
    BY <1>1 DEF Core, Types, Mutexes, MutexOK
  <2>3. inode[s].owner # t
    BY <2>2 DEF Waits
  <2>. QED BY <1>1, <2>1, <2>3 DEF kassert_fails, AssertsHold
<1>2. CASE inode[s].i_rc <= 0 /\ kassert_fails("i_rc")
  <2>1. Core'
    BY <1>2, CoreSame DEF kassert_fails
  <2>2. inode[s].i_rc \in Nat
    <3>1. inode[s] \in Inode
      BY DEF Core, Types
    <3>. QED BY <3>1, InodeFields
  <2>3. inode[s].i_rc = 0
    BY <1>2, <2>2
  <2>. QED BY <1>2, <2>1, <2>3 DEF kassert_fails, AssertsHold
<1>. QED BY <1>1, <1>2 DEF take_ref_fails

\* A walk finds its next inode in the table, and refers to it.
LEMMA WalkCachedCore ==
    ASSUME Core, OneOpener, NEW t \in Tasks, walk_cached(t)
    PROVE  Core' /\ AssertsHold'
<1>0. /\ Types /\ Control /\ Files /\ Positions /\ Inodes /\ Mutexes
      /\ Doom /\ Live /\ Tables /\ Walks /\ CountsOK
      /\ FrameOK(t) /\ OpenOK(t) /\ FileOK(t) /\ LiveOK(t) /\ WalkOK(t)
      /\ frame[t] \in Frame /\ frame \in [Tasks -> Frame]
  BY CoreParts
<1>. DEFINE c == frame[t].curr
            num == Found(frame[t]).i_num
            fs == inode[c].fs
            s == Cached(frame[t])
<1>1. /\ panic = "no" /\ walker \in {t, NULL} /\ frame[t].pc = "walk"
      /\ frame[t].at < Len(frame[t].path) /\ Found(frame[t]).err = "ok"
      /\ s # NULL
  BY DEF walk_cached, At
<1>2. fs \in FileSystems /\ num \in Numbers /\ num # ROOT /\ walker = t
  BY <1>0, <1>1, FoundFacts DEF FrameOK
<1>3. s = table[fs][num]
  BY DEF Cached
<1>4. /\ s \in inode_used /\ inode[s].fs = fs /\ inode[s].i_num = num
      /\ s \notin Dying /\ s \in InodeSlots /\ inode_used \in SUBSET InodeSlots
  <2>1. \A a \in FileSystems, b \in Numbers : table[a][b] # NULL =>
            /\ table[a][b] \in inode_used /\ inode[table[a][b]].fs = a
            /\ inode[table[a][b]].i_num = b /\ table[a][b] \notin Dying
    BY <1>0 DEF Tables, TableExact
  <2>2. inode_used \in SUBSET InodeSlots
    BY <1>0 DEF Types
  <2>. HIDE DEF s, num, fs
  <2>. QED BY <1>1, <1>2, <1>3, <2>1, <2>2
<1>5. inode[s].i_rc = 0 => \E u \in Tasks \ {t} : frame[u].pc = "zero"
  <2>. SUFFICES ASSUME inode[s].i_rc = 0 PROVE \E u \in Tasks \ {t} : frame[u].pc = "zero"
    OBVIOUS
  <2>1. PICK u \in Tasks : s \in Doomed(u)
    BY <1>0, <1>4 DEF Doom
  <2>2. s \notin frame[u].dying
    BY <1>4 DEF Dying
  <2>. QED BY <1>1, <2>1, <2>2 DEF Doomed
<1>6. CASE take_ref_fails(s)
  BY <1>1, <1>2, <1>4, <1>5, <1>6, TakeRefFails
<1>7. CASE /\ take_ref_succeeds(s)
           /\ inode' = [inode EXCEPT ![s].i_rc = @ + 1]
           /\ Descend(t, s)
           /\ UNCHANGED <<inode_used, table, file, file_used, walker,
                          held, files, initial_rc, panic>>
  <2>. DEFINE j == [inode[s] EXCEPT !.i_rc = @ + 1]
  <2>1. inode[s] \in Inode /\ inode[s].i_rc \in Nat /\ inode[s].i_rc > 0
    <3>1. inode[s] \in Inode
      BY <1>0, <1>4 DEF Types
    <3>. QED BY <1>7, <3>1, InodeFields DEF take_ref_succeeds
  <2>2. /\ j \in Inode /\ Alike(inode[s], j) /\ j.i_rc = inode[s].i_rc + 1
        /\ j.owner = inode[s].owner /\ j.queue = inode[s].queue
    BY <2>1 DEF Inode, Alike
  <2>3. inode' = [inode EXCEPT ![s] = j]
    BY <1>7
  <2>4. Descend(t, s) /\ ~IsRoot(s)
    BY <1>2, <1>4, <1>7 DEF IsRoot
  <2>. HIDE DEF j, s
  <2>5. /\ Steady /\ inode' \in [InodeSlots -> Inode] /\ inode'[s] = j
        /\ \A o \in InodeSlots : o # s => inode'[o] = inode[o]
    BY <1>0, <1>4, <2>2, <2>3, OneInode
  <2>6. /\ StepOf(t) /\ frame[t].dying = {} /\ frame'[t].dying = {}
        /\ frame'[t].pc # "zero"
    BY <1>1, <1>4, <2>4, DescendFrame
  <2>7. Dying' = Dying
    BY <2>6, DyingStep
  <2>8. OwnRefs(t) /\ Types'
    BY <1>0, <1>7, <2>5, <2>6 DEF OwnRefs, Types, StepOf
  <2>9. \A o \in inode_used : inode'[o].i_num = inode[o].i_num
    BY <1>7, <2>5 DEF Steady
  <2>10. FrameOK(t)' /\ OpenOK(t)' /\ FileOK(t)' /\ LiveOK(t)' /\ WalkOK(t)'
    BY <1>1, <1>2, <1>4, <1>7, <2>4, <2>9, DescendParts
  <2>11. Mutexes'
    BY <1>0, <1>1, <2>2, <2>5, <2>6, MutexStep
  <2>12. Doom'
    <3>1. Doomed(t)' = Doomed(t)
      BY <1>1, <2>6 DEF Doomed
    <3>2. \A o \in inode_used : inode'[o].i_rc = 0 <=> inode[o].i_rc = 0
      BY <1>4, <2>1, <2>2, <2>5
    <3>. QED BY <1>0, <1>7, <2>6, <3>1, <3>2, DoomStep
  <2>13. CountsOK'
    <3>1. ASSUME NEW o \in inode_used PROVE inode'[o].i_rc = initial_rc' - 1 + Refs(o)'
      <4>0. /\ Cardinality(Holders(o)) \in Nat /\ Cardinality(Releasers(o)) \in Nat
            /\ Cardinality(Opened(o)) \in Nat /\ Cardinality(Walkers(o)) \in Nat
        BY <1>4, RefSets
      <4>1. Holders(o)' = Holders(o) /\ Opened(o)' = Opened(o)
        BY <1>7 DEF Holders, Opened
      <4>2. /\ Cardinality(Walkers(o)') \in Int /\ Cardinality(Releasers(o)') \in Int
            /\ o # s => Cardinality(Walkers(o)') + Cardinality(Releasers(o)')
                        = Cardinality(Walkers(o)) + Cardinality(Releasers(o))
            /\ o = s => Cardinality(Walkers(o)') + Cardinality(Releasers(o)')
                        = Cardinality(Walkers(o)) + Cardinality(Releasers(o)) + 1
        BY <1>1, <1>4, <2>4, <2>9, DescendRefs
      <4>3. inode[o].i_rc = initial_rc - 1 + Refs(o) /\ initial_rc \in Nat
            /\ initial_rc' = initial_rc
        BY <1>0, <1>7 DEF CountsOK, Types
      <4>4. /\ Refs(o) \in Nat
            /\ Refs(o)' = Refs(o)
                + (Cardinality(Holders(o)') - Cardinality(Holders(o)))
                + (Cardinality(Opened(o)') - Cardinality(Opened(o)))
                + (Cardinality(Walkers(o)') - Cardinality(Walkers(o)))
                + (Cardinality(Releasers(o)') - Cardinality(Releasers(o)))
        BY <1>7, <2>5, <2>7, <4>0, <4>1, <4>2, Balance
      <4>5. o # s => Refs(o)' = Refs(o) /\ inode'[o].i_rc = inode[o].i_rc
        BY <1>4, <2>5, <4>0, <4>1, <4>2, <4>4
      <4>6. o = s => Refs(o)' = Refs(o) + 1 /\ inode'[o].i_rc = inode[o].i_rc + 1
        BY <2>2, <2>5, <4>0, <4>1, <4>2, <4>4
      <4>. QED BY <4>3, <4>4, <4>5, <4>6
    <3>. QED BY <1>7, <3>1 DEF CountsOK
  <2>14. \A x \in files'[t] : file'[x].f_pos \in 0 .. inode'[file'[x].owner_inode].len
    BY <1>7, <2>5, PositionsKept
  <2>15. Core'
    BY <1>1, <1>7, <2>5, <2>6, <2>7, <2>8, <2>10, <2>11, <2>12, <2>13, <2>14, CoreStep
  <2>. QED BY <1>1, <1>7, <2>15 DEF AssertsHold
<1>. QED BY <1>4, <1>6, <1>7 DEF walk_cached

\* What alloc_inode_struct and read_inode_disk make.
Loaded(fs, n, rc, parent) ==
    [Blank EXCEPT !.fs = fs, !.i_num = n, !.i_rc = rc, !.i_parent_ref = parent,
                  !.name = tar_lookup_by_index(Mounts[fs].archive, n).name,
                  !.len = tar_lookup_by_index(Mounts[fs].archive, n).len]

\* What a new struct has in it.
LEMMA NewInode ==
    ASSUME NEW fs \in FileSystems, NEW n \in Numbers, NEW rc \in Nat,
           NEW parent \in InodeSlots
    PROVE  LET i == Loaded(fs, n, rc, parent)
           IN  /\ i \in Inode /\ i.fs = fs /\ i.i_num = n /\ i.i_rc = rc
               /\ i.i_parent_ref = parent /\ i.owner = NULL /\ i.queue = <<>>
               /\ i.name = tar_lookup_by_index(Mounts[fs].archive, n).name
<1>. DEFINE name == tar_lookup_by_index(Mounts[fs].archive, n).name
            len == tar_lookup_by_index(Mounts[fs].archive, n).len
<1>1. n \in Nat
  <2>1. PICK m \in FileSystems : n \in ROOT .. ROOT + Len(Mounts[m].archive) * (NameMax + 1)
    BY DEF Numbers
  <2>2. Len(Mounts[m].archive) \in Nat /\ NameMax + 1 \in Nat
    BY MountFacts, NameAssumption
  <2>3. Len(Mounts[m].archive) * (NameMax + 1) \in Nat
    BY <2>2, TimesNext
  <2>. QED BY <2>1, <2>3 DEF ROOT
<1>2. name \in Seq(STRING) /\ len \in Nat
  BY <1>1, MountFacts, IndexTypes
<1>. HIDE DEF name, len
<1>. DEFINE i == [Blank EXCEPT !.fs = fs, !.i_num = n, !.i_rc = rc,
                               !.i_parent_ref = parent, !.name = name, !.len = len]
<1>3. /\ i \in Inode /\ i.fs = fs /\ i.i_num = n /\ i.i_rc = rc
      /\ i.i_parent_ref = parent /\ i.owner = NULL /\ i.queue = <<>>
      /\ i.name = name
  BY <1>2, BlankInode DEF Inode, Slot
<1>4. Loaded(fs, n, rc, parent) = i
  BY DEF Loaded, name, len
<1>. HIDE DEF i
<1>. QED BY <1>3, <1>4 DEF name

\* A struct that is not in use is nobody's: the references to it when task t
\* has just loaded it.
LEMMA FreshRefs ==
    ASSUME Core, NEW t \in Tasks, StepOf(t), NEW s \in InodeSlots \ inode_used,
           UNCHANGED <<file, held, files>>, Dying' = Dying,
           inode_used' = inode_used \cup {s}, Steady,
           inode'[s].i_num # ROOT, inode'[s].i_parent_ref # s,
           frame'[t].curr = s,
           frame'[t].obj # s
    PROVE  Refs(s)' = 1
<1>0. /\ Types /\ Live /\ Control
      /\ \A u \in Tasks : LiveOK(u)
      /\ s \in InodeSlots /\ s \notin inode_used /\ s # NULL
  BY NullFacts DEF Core, Live
<1>1. Holders(s)' = {}
  BY <1>0 DEF Holders, LiveOK
<1>2. Opened(s)' = {}
  BY <1>0 DEF Opened, LiveOK
<1>3. Children(s)' = {}
  <2>1. \A c \in inode_used \ Dying : inode'[c].i_parent_ref # s
    BY <1>0 DEF Live, Parents, Steady
  <2>. QED BY <2>1 DEF Children
<1>4. Walkers(s)' = {t}
  BY <1>0 DEF Walkers, LiveOK, StepOf, IsRoot
<1>5. Releasers(s)' = {}
  BY <1>0 DEF Releasers, LiveOK, StepOf
<1>6. RootRef(s)' = 0
  BY DEF RootRef, IsRoot
<1>7. Cardinality(Holders(s)') = 0 /\ Cardinality(Opened(s)') = 0
      /\ Cardinality(Children(s)') = 0 /\ Cardinality(Releasers(s)') = 0
      /\ Cardinality(Walkers(s)') = 1
  BY <1>1, <1>2, <1>3, <1>4, <1>5, FS_EmptySet, FS_Singleton
<1>. QED BY <1>6, <1>7, RefsIsNext

\* A walk loads its next inode, which refers to its parent.
LEMMA WalkLoadCore ==
    ASSUME Core, OneOpener, NEW t \in Tasks, walk_load(t)
    PROVE  Core' /\ AssertsHold'
<1>0. /\ Types /\ Control /\ Files /\ Positions /\ Inodes /\ Mutexes
      /\ Doom /\ Live /\ Tables /\ Walks /\ CountsOK
      /\ FrameOK(t) /\ OpenOK(t) /\ FileOK(t) /\ LiveOK(t) /\ WalkOK(t)
      /\ frame[t] \in Frame /\ frame \in [Tasks -> Frame]
  BY CoreParts
<1>. DEFINE c == frame[t].curr
            num == Found(frame[t]).i_num
            fs == inode[c].fs
<1>1. /\ panic = "no" /\ walker \in {t, NULL} /\ frame[t].pc = "walk"
      /\ frame[t].at < Len(frame[t].path) /\ Found(frame[t]).err = "ok"
      /\ table[fs][num] = NULL /\ InodeSlots # inode_used
  BY DEF walk_load, At, Cached
<1>2. /\ fs \in FileSystems /\ num \in Numbers /\ num # ROOT /\ walker = t
      /\ c \in inode_used /\ c \in InodeSlots
  BY <1>0, <1>1, FoundFacts DEF FrameOK
<1>3. /\ inode_used \in SUBSET InodeSlots /\ NULL \notin InodeSlots
      /\ inode \in [InodeSlots -> Inode] /\ initial_rc \in Nat \ {0}
      /\ table \in [FileSystems -> [Numbers -> Slot]]
  BY <1>0, NullFacts DEF Types
<1>4. PICK s \in InodeSlots \ inode_used : s = find_bit(InodeSlots \ inode_used)
  <2>1. InodeSlots \ inode_used \in SUBSET Nat /\ InodeSlots \ inode_used # {}
    BY <1>1, <1>3, SlotsAssumption
  <2>. QED BY <2>1, FindBit
<1>5. s \in InodeSlots /\ s \notin inode_used /\ s # c /\ s # NULL
  BY <1>2, <1>3
<1>6. inode[c].i_rc \in Nat \ {0}
  <2>1. Referenced(c)
    BY DEF Referenced
  <2>. QED BY <1>0, <1>2, <2>1, ReferencedCount
<1>7. CASE take_ref_fails(c)
  BY <1>1, <1>2, <1>6, <1>7, TakeRefFails
<1>8. CASE /\ new_inode(s, fs, num, c)
           /\ inode_used' = inode_used \cup {s}
           /\ table' = [table EXCEPT ![fs][num] = s]
           /\ Descend(t, s)
           /\ UNCHANGED <<file, file_used, walker, held, files, initial_rc, panic>>
  <2>. DEFINE N == Loaded(fs, num, initial_rc, c)
              j == [inode[c] EXCEPT !.i_rc = @ + 1]
  <2>1. /\ N \in Inode /\ N.fs = fs /\ N.i_num = num /\ N.i_rc = initial_rc
        /\ N.i_parent_ref = c /\ N.owner = NULL /\ N.queue = <<>>
    <3>1. initial_rc \in Nat
      BY <1>3
    <3>. HIDE DEF fs, num, c
    <3>. QED BY <1>2, <3>1, NewInode
  <2>2. /\ j \in Inode /\ Alike(inode[c], j) /\ j.i_rc = inode[c].i_rc + 1
        /\ j.owner = inode[c].owner /\ j.queue = inode[c].queue
    <3>1. inode[c] \in Inode /\ inode[c].i_rc + 1 \in Nat
      BY <1>2, <1>3, <1>6
    <3>. QED BY <3>1 DEF Inode, Alike
  <2>3. inode' = [inode EXCEPT ![c].i_rc = @ + 1, ![s] = N]
    BY <1>8 DEF new_inode, Loaded
  <2>4. inode' = [inode EXCEPT ![c] = j, ![s] = N]
    BY <2>3
  <2>5. /\ inode_used' = inode_used \cup {s}
        /\ table' = [table EXCEPT ![fs][num] = s]
        /\ Descend(t, s)
        /\ UNCHANGED <<file, file_used, walker, held, files, initial_rc, panic>>
    BY <1>8
  <2>. HIDE DEF N, j, num, fs
  <2>6. /\ inode' \in [InodeSlots -> Inode] /\ inode'[s] = N /\ inode'[c] = j
        /\ \A o \in InodeSlots : o # s /\ o # c => inode'[o] = inode[o]
    BY <1>2, <1>3, <1>5, <2>1, <2>2, <2>4
  <2>7. \A o \in inode_used : Alike(inode[o], inode'[o])
    BY <1>3, <1>5, <2>2, <2>6 DEF Alike
  <2>8. Steady
    BY <2>7 DEF Steady, Alike
  <2>9. /\ StepOf(t) /\ frame[t].dying = {} /\ frame'[t].dying = {}
        /\ frame'[t].pc # "zero" /\ frame'[t].curr = s /\ frame'[t].obj \in {NULL, c}
    BY <1>1, <1>5, <2>5, DescendFrame
  <2>10. Dying' = Dying
    BY <2>9, DyingStep
  <2>11. OwnRefs(t)
    BY <2>5 DEF OwnRefs
  <2>12. /\ table' \in [FileSystems -> [Numbers -> Slot]]
         /\ \A a \in FileSystems, b \in Numbers :
                table'[a][b] = IF a = fs /\ b = num THEN s ELSE table[a][b]
    BY <1>2, <1>3, <1>5, <2>5 DEF Slot
  <2>13. Types'
    BY <1>0, <1>3, <1>5, <2>5, <2>6, <2>9, <2>12 DEF Types, StepOf
  <2>14. FrameOK(t)' /\ OpenOK(t)' /\ FileOK(t)' /\ LiveOK(t)' /\ WalkOK(t)'
    BY <1>1, <1>2, <1>5, <2>1, <2>5, <2>6, DescendParts
  <2>15. Control' /\ Files'
    BY <1>0, <1>1, <1>2, <2>5, <2>9, <2>11, <2>14, ControlStep, FilesStep
  <2>16. Parents'
    <3>1. \A o \in inode_used : inode'[o].i_parent_ref = inode[o].i_parent_ref
      BY <2>7 DEF Alike
    <3>. QED BY <1>0, <1>2, <2>1, <2>5, <2>6, <2>10, <3>1 DEF Live, Parents
  <2>17. Live'
    BY <1>0, <2>5, <2>9, <2>11, <2>14, <2>16, LiveStep
  <2>18. Positions'
    <3>1. ASSUME NEW x \in files[t] PROVE file[x].f_pos \in 0 .. inode'[file[x].owner_inode].len
      <4>1. file[x].owner_inode \in inode_used
        BY <1>0 DEF LiveOK
      <4>2. inode'[file[x].owner_inode].len = inode[file[x].owner_inode].len
        BY <2>7, <4>1 DEF Alike
      <4>. QED BY <1>0, <4>2 DEF Positions
    <3>. QED BY <1>0, <2>5, <2>8, <2>11, <2>17, <3>1, PositionsStep
  <2>19. Inodes'
    <3>1. \A o \in inode_used : inode'[o].fs = inode[o].fs /\ inode'[o].i_num = inode[o].i_num
                                /\ inode'[o].i_parent_ref = inode[o].i_parent_ref
      BY <2>7 DEF Alike
    <3>2. inode'[s].fs \in FileSystems /\ inode'[s].i_num \in Numbers
          /\ inode'[s].i_parent_ref # NULL
      BY <1>2, <1>3, <2>1, <2>6
    <3>. QED BY <1>0, <2>5, <3>1, <3>2 DEF Inodes, IsRoot
  <2>20. Mutexes'
    BY <1>0, <1>1, <2>1, <2>2, <2>6, <2>9, MutexStep
  <2>21. Doom'
    <3>1. \A u \in Tasks : Doomed(u)' = Doomed(u)
      BY <1>1, <2>9 DEF Doomed, StepOf
    <3>2. \A o \in inode_used : inode'[o].i_rc = 0 <=> inode[o].i_rc = 0
      BY <1>3, <1>5, <1>6, <2>2, <2>6
    <3>3. inode'[s].i_rc # 0
      BY <1>3, <2>1, <2>6
    <3>4. \A u \in Tasks : frame'[u].pc = "zero" => frame'[u].obj \notin frame'[u].dying
      BY <1>0, <2>9 DEF StepOf, Doom
    <3>. QED BY <1>0, <2>5, <3>1, <3>2, <3>3, <3>4 DEF Doom
  <2>22. Tables'
    <3>1. \A o \in inode_used : inode'[o].fs = inode[o].fs /\ inode'[o].i_num = inode[o].i_num
      BY <2>7 DEF Alike
    <3>2. inode'[s].fs = fs /\ inode'[s].i_num = num
      BY <2>1, <2>6
    <3>3. s \notin Dying
      BY <1>0, <1>5 DEF Dying, Doom, Doomed
    <3>4. ASSUME NEW a \in FileSystems, NEW b \in Numbers, table'[a][b] # NULL
          PROVE  /\ table'[a][b] \in inode_used' /\ inode'[table'[a][b]].fs = a
                 /\ inode'[table'[a][b]].i_num = b
      BY <1>0, <2>5, <2>12, <3>1, <3>2, <3>4 DEF Tables, TableExact
    <3>5. ASSUME NEW o \in inode_used' \ Dying'
          PROVE  table'[inode'[o].fs][inode'[o].i_num] = o
      <4>1. CASE o = s
        BY <1>2, <2>12, <3>2, <4>1
      <4>2. CASE o # s
        <5>1. o \in inode_used \ Dying
          BY <2>5, <2>10, <4>2
        <5>2. /\ table[inode[o].fs][inode[o].i_num] = o
              /\ inode[o].fs \in FileSystems /\ inode[o].i_num \in Numbers
          BY <1>0, <5>1 DEF Tables, TableExact, Inodes
        <5>3. o # NULL
          BY <1>3, <5>1
        <5>4. ~(inode[o].fs = fs /\ inode[o].i_num = num)
          BY <1>1, <5>2, <5>3
        <5>. QED BY <2>12, <3>1, <5>1, <5>2, <5>4
      <4>. QED BY <4>1, <4>2
    <3>6. \A o \in Dying', a \in FileSystems, b \in Numbers : table'[a][b] # o
      BY <1>0, <2>10, <2>12, <3>3 DEF Tables
    <3>. QED BY <3>4, <3>5, <3>6 DEF Tables, TableExact
  <2>23. Walks'
    BY <1>0, <2>8, <2>9, <2>14, <2>17, WalksStep
  <2>24. CountsOK'
    <3>1. ASSUME NEW o \in inode_used PROVE inode'[o].i_rc = initial_rc' - 1 + Refs(o)'
      <4>0. /\ Cardinality(Holders(o)) \in Nat /\ Cardinality(Releasers(o)) \in Nat
            /\ Cardinality(Opened(o)) \in Nat /\ Cardinality(Walkers(o)) \in Nat
            /\ IsFiniteSet(Children(o)) /\ Cardinality(Children(o)) \in Nat
        BY <1>3, RefSets
      <4>1. Holders(o)' = Holders(o) /\ Opened(o)' = Opened(o)
        BY <2>5 DEF Holders, Opened
      <4>2. o # s /\ inode'[o].i_num = inode[o].i_num
        BY <1>5, <2>7 DEF Alike
      <4>3. /\ Cardinality(Walkers(o)') \in Int /\ Cardinality(Releasers(o)') \in Int
            /\ Cardinality(Walkers(o)') + Cardinality(Releasers(o)')
                        = Cardinality(Walkers(o)) + Cardinality(Releasers(o))
        BY <1>1, <1>5, <2>5, <4>2, DescendRefs
      <4>4. RootRef(o)' = RootRef(o)
        BY <4>2 DEF RootRef, IsRoot
      <4>5. Cardinality(Children(o)') = IF o = c THEN Cardinality(Children(o)) + 1
                                        ELSE Cardinality(Children(o))
        <5>0. s \notin Dying /\ s \notin Children(o)
          BY <1>0, <1>5 DEF Dying, Doom, Doomed, Children
        <5>1. \A x \in inode_used : inode'[x].i_parent_ref = inode[x].i_parent_ref
          BY <2>7 DEF Alike
        <5>2. inode'[s].i_parent_ref = c
          BY <2>1, <2>6
        <5>3. CASE o = c
          <6>1. Children(o)' = Children(o) \cup {s}
            BY <2>5, <2>10, <5>0, <5>1, <5>2, <5>3 DEF Children
          <6>. QED BY <4>0, <5>0, <5>3, <6>1, CountPlus
        <5>4. CASE o # c
          <6>1. Children(o)' = Children(o)
            BY <2>5, <2>10, <5>0, <5>1, <5>2, <5>4 DEF Children
          <6>. QED BY <5>4, <6>1
        <5>. QED BY <5>3, <5>4
      <4>6. Cardinality(Children(o)') \in Int
        BY <4>0, <4>5
      <4>7. /\ Refs(o) \in Nat
            /\ Refs(o)' = Refs(o)
                + (Cardinality(Holders(o)') - Cardinality(Holders(o)))
                + (Cardinality(Opened(o)') - Cardinality(Opened(o)))
                + (Cardinality(Children(o)') - Cardinality(Children(o)))
                + (Cardinality(Walkers(o)') - Cardinality(Walkers(o)))
                + (Cardinality(Releasers(o)') - Cardinality(Releasers(o)))
        BY <1>3, <4>0, <4>1, <4>3, <4>4, <4>6, RefsChange
      <4>8. inode[o].i_rc = initial_rc - 1 + Refs(o) /\ initial_rc' = initial_rc
        BY <1>0, <2>5 DEF CountsOK
      <4>9. CASE o = c
        <5>1. Refs(o)' = Refs(o) + 1
          BY <4>0, <4>1, <4>3, <4>5, <4>7, <4>9
        <5>2. inode'[o].i_rc = inode[o].i_rc + 1
          BY <2>2, <2>6, <4>9
        <5>. QED BY <1>3, <4>7, <4>8, <5>1, <5>2
      <4>10. CASE o # c
        <5>1. Refs(o)' = Refs(o)
          BY <4>0, <4>1, <4>3, <4>5, <4>7, <4>10
        <5>2. inode'[o].i_rc = inode[o].i_rc
          BY <1>3, <2>6, <4>2, <4>10
        <5>. QED BY <4>8, <5>1, <5>2
      <4>. QED BY <4>9, <4>10
    <3>2. inode'[s].i_rc = initial_rc' - 1 + Refs(s)'
      <4>1. frame'[t].obj # s
        BY <1>5, <2>9
      <4>2. inode'[s].i_num # ROOT /\ inode'[s].i_parent_ref # s /\ inode'[s].i_rc = initial_rc
        BY <1>2, <1>5, <2>1, <2>6
      <4>3. Refs(s)' = 1
        BY <2>5, <2>8, <2>9, <2>10, <4>1, <4>2, FreshRefs
      <4>4. initial_rc' = initial_rc
        BY <2>5
      <4>. QED BY <1>3, <4>2, <4>3, <4>4
    <3>. QED BY <2>5, <3>1, <3>2 DEF CountsOK
  <2>25. Core'
    BY <2>13, <2>15, <2>17, <2>18, <2>19, <2>20, <2>21, <2>22, <2>23, <2>24 DEF Core
  <2>. QED BY <1>1, <2>5, <2>25 DEF AssertsHold
<1>. QED BY <1>4, <1>7, <1>8 DEF walk_load

----------------------------------------------------------------------------
(***************************************************************************)
(* ... and the end of an inode.                                            *)
(***************************************************************************)

\* The last release takes the inode out of the table and goes on to its
\* parent, with the reference that the inode had to it.
LEMMA ReleaseRemoveCore ==
    ASSUME Core, OneOpener, NEW t \in Tasks, release_remove(t)
    PROVE  Core' /\ panic' = "no"
<1>0. /\ Types /\ Control /\ Files /\ Positions /\ Inodes /\ Mutexes
      /\ Doom /\ Live /\ Tables /\ Walks /\ CountsOK
      /\ FrameOK(t) /\ OpenOK(t) /\ FileOK(t) /\ LiveOK(t) /\ WalkOK(t)
      /\ frame[t] \in Frame /\ frame \in [Tasks -> Frame]
  BY CoreParts
<1>. DEFINE s == frame[t].obj
            f == [frame[t] EXCEPT !.dying = @ \cup {s}]
            p == inode[s].i_parent_ref
            g == [f EXCEPT !.pc = "release", !.obj = p]
            fs == inode[s].fs
            num == inode[s].i_num
<1>1. /\ panic = "no" /\ walker \in {t, NULL} /\ frame[t].pc = "zero"
      /\ table' = [table EXCEPT ![fs][num] = NULL]
      /\ Goto(t, IF p = NULL THEN [f EXCEPT !.pc = "unwind"] ELSE g)
      /\ UNCHANGED <<inode, inode_used, file, file_used, walker, held, files,
                     initial_rc, panic>>
  BY DEF release_remove, At, remove
<1>2. s \in inode_used /\ s \in InodeSlots /\ inode_used \in SUBSET InodeSlots
      /\ NULL \notin InodeSlots
  BY <1>0, <1>1, NullFacts DEF LiveOK, Types
<1>3. s \in Doomed(t) /\ inode[s].i_rc = 0 /\ s \notin frame[t].dying
  BY <1>0, <1>1, <1>2 DEF Doom, Doomed
<1>4. s \notin Dying
  <2>1. ASSUME NEW u \in Tasks, s \in frame[u].dying PROVE FALSE
    <3>1. u # t /\ s \in Doomed(u)
      BY <1>2, <1>3, <2>1 DEF Doomed
    <3>. QED BY <1>0, <1>3, <3>1 DEF Doom
  <2>. QED BY <2>1 DEF Dying
<1>5. ~IsRoot(s) /\ fs \in FileSystems /\ num \in Numbers /\ p # NULL
      /\ p \in inode_used /\ p \in InodeSlots
  <2>1. ~IsRoot(s)
    <3>. SUFFICES ASSUME IsRoot(s) PROVE FALSE
      OBVIOUS
    <3>1. inode[s].i_rc \in Nat \ {0}
      BY <1>0, <1>2, ReferencedCount DEF Referenced
    <3>. QED BY <1>3, <3>1
  <2>2. p # NULL /\ fs \in FileSystems /\ num \in Numbers
    BY <1>0, <1>2, <2>1 DEF Inodes
  <2>3. p \in inode_used
    BY <1>0, <1>2, <1>4, <2>2 DEF Live, Parents
  <2>. QED BY <1>2, <2>1, <2>2, <2>3
<1>6. Goto(t, g)
  BY <1>1, <1>5
<1>7. /\ g \in Frame /\ g.pc = "release" /\ g.path = frame[t].path
      /\ g.at = frame[t].at /\ g.curr = frame[t].curr /\ g.obj = p
      /\ g.ret = frame[t].ret /\ g.dying = frame[t].dying \cup {s}
      /\ g.err = frame[t].err /\ g.file = frame[t].file
  <2>. HIDE DEF p
  <2>1. frame[t].dying \cup {s} \in SUBSET InodeSlots
    BY <1>0, <1>2, FrameFields
  <2>2. /\ f \in Frame /\ f.path = frame[t].path
        /\ f.at = frame[t].at /\ f.curr = frame[t].curr
        /\ f.ret = frame[t].ret /\ f.dying = frame[t].dying \cup {s}
        /\ f.err = frame[t].err /\ f.file = frame[t].file
    BY <1>0, <2>1 DEF Frame
  <2>. HIDE DEF f
  <2>. QED BY <1>5, <2>2 DEF Frame, Points, Slot
<1>. HIDE DEF g, p, fs, num
<1>8. StepOf(t) /\ frame'[t] = g
  BY <1>0, <1>6, <1>7, Goes
<1>9. Steady /\ OwnRefs(t)
  BY <1>1 DEF Steady, OwnRefs
<1>10. Dying' = Dying \cup {s}
  <2>1. \A u \in Tasks : frame'[u].dying = IF u = t THEN frame[t].dying \cup {s}
                                           ELSE frame[u].dying
    BY <1>7, <1>8 DEF StepOf
  <2>. QED BY <2>1 DEF Dying
<1>11. /\ table' \in [FileSystems -> [Numbers -> Slot]]
       /\ \A a \in FileSystems, b \in Numbers :
            table'[a][b] = IF a = fs /\ b = num THEN NULL ELSE table[a][b]
  <2>1. table \in [FileSystems -> [Numbers -> Slot]]
    BY <1>0 DEF Types
  <2>. QED BY <1>1, <1>5, <2>1 DEF Slot
<1>12. Types'
  BY <1>0, <1>1, <1>8, <1>11 DEF Types, StepOf
<1>13. FrameOK(t)' /\ OpenOK(t)' /\ FileOK(t)' /\ WalkOK(t)'
  <2>1. FrameOK(t)'
    BY <1>0, <1>1, <1>5, <1>7, <1>8 DEF FrameOK, Releasing, Opening
  <2>2. OpenOK(t)' /\ FileOK(t)' /\ WalkOK(t)'
    BY <1>0, <1>1, <1>7, <1>8 DEF OpenOK, FileOK, WalkOK, Opening, IsRoot
  <2>. QED BY <2>1, <2>2
<1>14. LiveOK(t)'
  BY <1>0, <1>1, <1>5, <1>7, <1>8 DEF LiveOK, Opening
<1>15. Control' /\ Files'
  BY <1>0, <1>1, <1>8, <1>9, <1>13, ControlStep, FilesStep
<1>16. Parents'
  BY <1>0, <1>1, <1>10 DEF Live, Parents
<1>17. Live'
  BY <1>0, <1>1, <1>8, <1>9, <1>14, <1>16, LiveStep
<1>18. Positions' /\ Inodes'
  BY <1>0, <1>1, <1>9, InodesStep DEF Positions
<1>19. Mutexes'
  BY <1>0, <1>1, <1>8, MutexStep
<1>20. Doom'
  <2>1. Doomed(t)' = Doomed(t)
    BY <1>1, <1>2, <1>7, <1>8 DEF Doomed
  <2>. QED BY <1>0, <1>1, <1>7, <1>8, <2>1, DoomStep
<1>21. Tables'
  <2>0. table[fs][num] = s
    BY <1>0, <1>2, <1>4 DEF Tables, TableExact, fs, num
  <2>1. ASSUME NEW a \in FileSystems, NEW b \in Numbers, table'[a][b] # NULL
        PROVE  /\ table'[a][b] \in inode_used' /\ inode'[table'[a][b]].fs = a
               /\ inode'[table'[a][b]].i_num = b
    BY <1>0, <1>1, <1>11, <2>1 DEF Tables, TableExact
  <2>2. ASSUME NEW o \in inode_used' \ Dying'
        PROVE  table'[inode'[o].fs][inode'[o].i_num] = o
    <3>1. o \in inode_used \ Dying /\ o # s
      BY <1>1, <1>10
    <3>2. /\ table[inode[o].fs][inode[o].i_num] = o
          /\ inode[o].fs \in FileSystems /\ inode[o].i_num \in Numbers
      BY <1>0, <3>1 DEF Tables, TableExact, Inodes
    <3>3. ~(inode[o].fs = fs /\ inode[o].i_num = num)
      BY <2>0, <3>1, <3>2
    <3>. QED BY <1>1, <1>11, <3>2, <3>3
  <2>3. ASSUME NEW o \in Dying', NEW a \in FileSystems, NEW b \in Numbers,
               table'[a][b] = o
        PROVE  FALSE
    <3>1. CASE o = s
      <4>1. table[a][b] = s /\ ~(a = fs /\ b = num)
        BY <1>2, <1>11, <2>3, <3>1
      <4>2. inode[s].fs = a /\ inode[s].i_num = b
        BY <1>0, <1>2, <4>1 DEF Tables, TableExact
      <4>. QED BY <4>1, <4>2 DEF fs, num
    <3>2. CASE o # s
      <4>1. o \in Dying /\ o # NULL
        <5>1. o \in Dying
          BY <1>10, <3>2
        <5>2. PICK u \in Tasks : o \in frame[u].dying
          BY <5>1 DEF Dying
        <5>3. frame[u].dying \in SUBSET InodeSlots
          BY <1>0, FrameFields
        <5>. QED BY <1>2, <5>1, <5>2, <5>3
      <4>. QED BY <1>0, <1>11, <2>3, <4>1 DEF Tables
    <3>. QED BY <3>1, <3>2
  <2>. QED BY <2>1, <2>2, <2>3 DEF Tables, TableExact
<1>22. Walks'
  BY <1>0, <1>8, <1>9, <1>13, <1>17, WalksStep
<1>23. CountsOK'
  <2>1. ASSUME NEW o \in inode_used PROVE Refs(o)' = Refs(o)
    <3>0. /\ Cardinality(Holders(o)) \in Nat /\ Cardinality(Releasers(o)) \in Nat
          /\ Cardinality(Opened(o)) \in Nat /\ Cardinality(Walkers(o)) \in Nat
          /\ IsFiniteSet(Children(o)) /\ Cardinality(Children(o)) \in Nat
          /\ IsFiniteSet(Releasers(o))
      BY <1>2, RefSets
    <3>1. /\ Holders(o)' = Holders(o) /\ Opened(o)' = Opened(o)
          /\ Walkers(o)' = Walkers(o) /\ RootRef(o)' = RootRef(o)
      BY <1>1, <1>7, <1>8 DEF Holders, Opened, Walkers, RootRef, StepOf, IsRoot
    <3>2. t \notin Releasers(o)
      BY <1>1 DEF Releasers
    <3>3. inode[s].i_parent_ref = p
      BY DEF p
    <3>4. CASE o = p
      <4>1. s \in Children(o) /\ Children(o)' = Children(o) \ {s}
        BY <1>1, <1>2, <1>4, <1>10, <3>3, <3>4 DEF Children
      <4>2. Releasers(o)' = Releasers(o) \cup {t}
        BY <1>1, <1>7, <1>8, <3>4 DEF Releasers, StepOf
      <4>3. /\ Cardinality(Children(o)') = Cardinality(Children(o)) - 1
            /\ Cardinality(Releasers(o)') = Cardinality(Releasers(o)) + 1
        BY <3>0, <3>2, <4>1, <4>2, CountPlus, CountMinus
      <4>. QED BY <1>2, <3>0, <3>1, <4>3, RefsChange
    <3>5. CASE o # p
      <4>1. Children(o)' = Children(o)
        BY <1>1, <1>10, <3>3, <3>5 DEF Children
      <4>2. Releasers(o)' = Releasers(o)
        BY <1>1, <1>7, <1>8, <3>5 DEF Releasers, StepOf
      <4>. QED BY <1>2, <3>0, <3>1, <4>1, <4>2, RefsChange
    <3>. QED BY <3>4, <3>5
  <2>. QED BY <1>0, <1>1, <2>1 DEF CountsOK
<1>. QED BY <1>1, <1>12, <1>15, <1>17, <1>18, <1>19, <1>20, <1>21, <1>22, <1>23 DEF Core

\* Nobody who can reach an inode that is in use reaches one that t frees.
LEMMA UnwindSafe ==
    ASSUME Core, NEW t \in Tasks, NEW s \in inode_used,
           \/ Referenced(s)
           \/ \E u \in Tasks \ {t} : frame[u].pc = "zero" /\ frame[u].obj = s
           \/ \E u \in Tasks : frame[u].pc \in Opening /\ frame[u].obj = s
    PROVE  s \notin frame[t].dying
<1>0. Types /\ CountsOK /\ Doom /\ Control /\ s \in InodeSlots
  BY DEF Core, Types
<1>1. CASE Referenced(s)
  BY <1>0, <1>1, ReferencedSafe
<1>2. ASSUME NEW u \in Tasks \ {t}, frame[u].pc = "zero", frame[u].obj = s
      PROVE  s \notin frame[t].dying
  <2>1. s \in Doomed(u)
    BY <1>0, <1>2 DEF Doomed
  <2>2. Doomed(t) \cap Doomed(u) = {}
    BY <1>0 DEF Doom
  <2>. QED BY <1>0, <2>1, <2>2 DEF Doomed
<1>3. ASSUME NEW u \in Tasks, frame[u].pc \in Opening, frame[u].obj = s
      PROVE  Referenced(s)
  BY <1>0, <1>3 DEF Control, OpenOK, Referenced
<1>. QED BY <1>1, <1>2, <1>3

\* The destructors end: what they free is referred to by nobody.
LEMMA UnwindCore ==
    ASSUME Core, OneOpener, NEW t \in Tasks, unwind(t)
    PROVE  Core' /\ panic' = "no"
<1>0. /\ Types /\ Control /\ Files /\ Positions /\ Inodes /\ Mutexes
      /\ Doom /\ Live /\ Tables /\ Walks /\ CountsOK
      /\ FrameOK(t) /\ OpenOK(t) /\ FileOK(t) /\ LiveOK(t) /\ WalkOK(t)
      /\ frame[t] \in Frame /\ frame \in [Tasks -> Frame]
  BY CoreParts
<1>. DEFINE f == frame[t]
            D == f.dying
            r == [f EXCEPT !.pc = f.ret, !.obj = NULL, !.ret = "run", !.dying = {}]
            g == IF f.ret = "run" THEN Running ELSE r
<1>1. panic = "no" /\ walker \in {t, NULL} /\ f.pc = "unwind"
  BY DEF unwind, At
<1>2. /\ inode_used \in SUBSET InodeSlots /\ NULL \notin InodeSlots
      /\ inode \in [InodeSlots -> Inode] /\ D \in SUBSET InodeSlots
      /\ file \in [FileSlots -> FileDesc] /\ files \in [Tasks -> SUBSET FileSlots]
      /\ file_used \in SUBSET FileSlots /\ NULL \notin FileSlots
      /\ f.file \in FileSlots \cup {NULL}
  BY <1>0, NullFacts, FrameFields DEF Types
<1>3. \A s \in D : inode[s].owner = NULL
  <2>. SUFFICES ASSUME NEW s \in D, inode[s].owner # NULL PROVE FALSE
    OBVIOUS
  <2>1. s \in Doomed(t) /\ s \in inode_used
    BY <1>0, <1>2 DEF Doom, Doomed
  <2>2. Waits(inode[s].owner, s)
    BY <1>0, <1>2 DEF Mutexes, MutexOK
  <2>3. \/ Referenced(s)
        \/ \E u \in Tasks : frame[u].pc \in Opening /\ frame[u].obj = s
    BY <2>2 DEF Waits, Referenced, Opening
  <2>. QED BY <2>1, <2>3, UnwindSafe
<1>4. /\ inode_used' = inode_used \ D
      /\ inode' = [s \in InodeSlots |-> IF s \in D THEN Blank ELSE inode[s]]
      /\ file_used' = file_used \ {f.file}
      /\ file' = IF f.file = NULL THEN file ELSE [file EXCEPT ![f.file] = NoFile]
      /\ walker' = IF f.ret = "done" THEN NULL ELSE walker
      /\ Goto(t, g)
      /\ UNCHANGED <<table, held, files, initial_rc, panic>>
  BY <1>3 DEF unwind, Give_back
<1>5. /\ inode' \in [InodeSlots -> Inode]
      /\ \A s \in InodeSlots \ D : inode'[s] = inode[s]
      /\ \A s \in D : inode'[s].owner = NULL /\ inode'[s].queue = <<>>
  BY <1>2, <1>4, BlankInode
<1>6. Steady
  BY <1>2, <1>4, <1>5 DEF Steady
<1>7. /\ r \in Frame /\ r.path = f.path /\ r.at = f.at /\ r.curr = f.curr
      /\ r.pc = f.ret /\ r.obj = NULL /\ r.ret = "run" /\ r.dying = {}
      /\ r.err = f.err /\ r.file = f.file
  BY <1>0 DEF Frame, Points, Slot
<1>. HIDE DEF r
<1>8. /\ g \in Frame /\ g.obj = NULL /\ g.ret = "run" /\ g.dying = {}
      /\ g.curr = f.curr /\ g.err = f.err /\ g.file = NULL
      /\ g.pc = f.ret /\ g.pc \in {"run", "walk", "done"}
      /\ f.ret # "run" => g.path = f.path /\ g.at = f.at
  <2>1. f.pc \in Releasing /\ f.ret \in {"run", "walk", "done"}
    BY <1>0, <1>1, FrameFields DEF Releasing
  <2>2. /\ f.ret = "run" => f.curr = NULL /\ f.err = "ok"
        /\ f.ret = "walk" => f.curr # NULL /\ f.err = "ok" /\ f.file = NULL
        /\ f.ret = "done" => f.curr = NULL /\ f.err # "ok" /\ f.file = NULL
    BY <1>0, <2>1 DEF FrameOK
  <2>3. CASE f.ret = "run"
    BY <2>2, <2>3, RunningFrame
  <2>4. CASE f.ret # "run"
    BY <1>7, <2>1, <2>2, <2>4
  <2>. QED BY <2>3, <2>4
<1>. HIDE DEF g
<1>9. StepOf(t) /\ frame'[t] = g
  BY <1>0, <1>4, <1>8, Goes
<1>10. f.file # NULL => t \in Openers /\ \A u \in Tasks \ {t} : files[u] = {}
  <2>. SUFFICES ASSUME f.file # NULL
               PROVE  t \in Openers /\ \A u \in Tasks \ {t} : files[u] = {}
    OBVIOUS
  <2>1. t \in Openers
    BY <1>0 DEF FileOK
  <2>. QED BY <1>0, <2>1 DEF OneOpener, Files, FileOK
<1>11. /\ file' \in [FileSlots -> FileDesc]
       /\ \A x \in FileSlots : x # f.file => file'[x] = file[x]
       /\ f.file = NULL => UNCHANGED <<file, file_used>>
  <2>1. NoFile \in FileDesc
    BY DEF NoFile, FileDesc, Slot
  <2>. QED BY <1>2, <1>4, <2>1
<1>12. \A u \in Tasks : \A x \in files[u] : x # f.file /\ file'[x] = file[x]
  BY <1>0, <1>2, <1>10, <1>11 DEF FileOK
<1>13. OwnRefs(t) /\ Types'
  <2>1. walker' \in {t, NULL}
    BY <1>1, <1>4
  <2>. QED BY <1>0, <1>2, <1>4, <1>5, <1>9, <1>11, <2>1 DEF OwnRefs, Types, StepOf
<1>14. FrameOK(t)' /\ OpenOK(t)'
  <2>0. f.pc \in Releasing /\ f.ret \in {"run", "walk", "done"}
    BY <1>0, <1>1, FrameFields DEF Releasing
  <2>1. walker = t <=> f.ret # "run"
    BY <1>0, <1>1 DEF FrameOK
  <2>2. walker' = t <=> f.ret = "walk"
    BY <1>1, <1>4, <2>0, <2>1, NullFacts
  <2>3. /\ f.ret = "run" => f.curr = NULL /\ f.err = "ok" /\ g = Running
        /\ f.ret = "walk" => f.curr # NULL /\ f.err = "ok"
        /\ f.ret = "done" => f.curr = NULL /\ f.err # "ok"
    BY <1>0, <2>0 DEF FrameOK, g
  <2>4. FrameOK(t)'
    BY <1>8, <1>9, <2>2, <2>3 DEF FrameOK, Releasing, Opening
  <2>. QED BY <1>8, <1>9, <2>4 DEF OpenOK, Opening
<1>15. FileOK(t)'
  BY <1>0, <1>2, <1>4, <1>8, <1>9, <1>12 DEF FileOK
<1>16. Control' /\ Files'
  <2>1. walker' \in {t, NULL}
    BY <1>1, <1>4
  <2>. QED BY <1>0, <1>1, <1>9, <1>10, <1>11, <1>13, <1>14, <1>15, <2>1, ControlStep, FilesStep
<1>17. inode_used' \ Dying' = inode_used \ Dying /\ Dying' \subseteq Dying
       /\ D \subseteq Dying
  <2>1. D \subseteq Dying
    BY DEF Dying
  <2>2. \A u \in Tasks : frame'[u].dying = IF u = t THEN {} ELSE frame[u].dying
    BY <1>8, <1>9 DEF StepOf
  <2>3. Dying' \subseteq Dying
    BY <2>2 DEF Dying
  <2>4. ASSUME NEW o \in Dying, o \notin D PROVE o \in Dying'
    <3>1. PICK u \in Tasks : o \in frame[u].dying
      BY DEF Dying
    <3>2. u # t
      BY <2>4, <3>1
    <3>. QED BY <2>2, <3>1, <3>2 DEF Dying
  <2>. QED BY <1>4, <2>1, <2>3, <2>4
<1>18. Parents'
  <2>. SUFFICES ASSUME NEW c \in inode_used' \ Dying', inode'[c].i_parent_ref # NULL
               PROVE  inode'[c].i_parent_ref \in inode_used'
    BY DEF Parents
  <2>1. c \in inode_used \ Dying /\ c \in inode_used'
    BY <1>17
  <2>2. inode'[c].i_parent_ref = inode[c].i_parent_ref
    BY <1>6, <2>1 DEF Steady
  <2>3. inode[c].i_parent_ref \in inode_used
    BY <1>0, <2>1, <2>2 DEF Live, Parents
  <2>4. inode[c].i_parent_ref \notin D
    BY <2>1, <2>3, UnwindSafe DEF Referenced
  <2>. QED BY <1>4, <2>2, <2>3, <2>4
<1>19. ASSUME NEW u \in Tasks PROVE LiveOK(u)'
  <2>0. LiveOK(u)
    BY <1>0 DEF Live
  <2>1. frame[u].curr # NULL => frame[u].curr \in inode_used'
    BY <1>4, <2>0, UnwindSafe DEF LiveOK, Referenced
  <2>2. frame'[u].curr = frame[u].curr
    BY <1>8, <1>9 DEF StepOf
  <2>3. u # t /\ frame[u].pc \in {"release", "locked", "zero"} \cup Opening =>
            frame[u].obj \in inode_used'
    BY <1>4, <2>0, UnwindSafe DEF LiveOK, Referenced
  <2>4. frame'[u].pc \in {"release", "locked", "zero"} \cup Opening =>
            frame'[u].obj \in inode_used'
    <3>1. CASE u = t
      BY <1>8, <1>9, <3>1 DEF Opening
    <3>2. CASE u # t
      BY <1>9, <2>3, <3>2 DEF StepOf
    <3>. QED BY <3>1, <3>2
  <2>5. \A v \in Kept : held'[u][v].inode # NULL => held'[u][v].inode \in inode_used'
    BY <1>4, <2>0, UnwindSafe DEF LiveOK, Referenced
  <2>6. \A x \in files'[u] : file'[x].owner_inode \in inode_used'
    BY <1>4, <1>12, <2>0, UnwindSafe DEF LiveOK, Referenced
  <2>. QED BY <2>1, <2>2, <2>4, <2>5, <2>6 DEF LiveOK
<1>20. Live'
  BY <1>18, <1>19 DEF Live
<1>21. Positions'
  <2>1. ASSUME NEW x \in files[t] PROVE file[x].f_pos \in 0 .. inode'[file[x].owner_inode].len
    <3>1. file[x].owner_inode \in inode_used /\ file[x].owner_inode \in inode_used'
      BY <1>0, <1>4, UnwindSafe DEF LiveOK, Referenced
    <3>2. inode'[file[x].owner_inode].len = inode[file[x].owner_inode].len
      BY <1>6, <3>1 DEF Steady
    <3>. QED BY <1>0, <3>2 DEF Positions
  <2>. QED BY <1>0, <1>4, <1>6, <1>12, <1>13, <1>20, <2>1, PositionsStep, SMTT(40)
<1>22. Inodes'
  <2>1. \A s \in inode_used' : /\ s \in inode_used /\ inode'[s].fs = inode[s].fs
                                /\ inode'[s].i_num = inode[s].i_num
                                /\ inode'[s].i_parent_ref = inode[s].i_parent_ref
    BY <1>4, <1>6 DEF Steady
  <2>2. \A m \in FileSystems : m \in inode_used'
    <3>1. ASSUME NEW m \in FileSystems PROVE m \in inode_used'
      <4>1. m \in inode_used /\ IsRoot(m)
        BY <1>0 DEF Inodes, IsRoot
      <4>2. m \notin D
        BY <4>1, UnwindSafe DEF Referenced
      <4>. QED BY <1>4, <4>1, <4>2
    <3>. QED BY <3>1
  <2>. QED BY <1>0, <2>1, <2>2 DEF Inodes, IsRoot
<1>23. Mutexes'
  BY <1>0, <1>1, <1>5, <1>9, MutexStep
<1>24. Doom'
  <2>1. Doomed(t) = D /\ Doomed(t)' = {}
    BY <1>1, <1>2, <1>8, <1>9 DEF Doomed
  <2>2. \A u \in Tasks : u # t => Doomed(u)' = Doomed(u) /\ Doomed(u) \cap D = {}
    <3>1. \A u \in Tasks : u # t => Doomed(u)' = Doomed(u)
      BY <1>9 DEF Doomed, StepOf
    <3>. QED BY <1>0, <2>1, <3>1 DEF Doom
  <2>3. \A s \in inode_used' : s \in inode_used /\ s \notin D /\ inode'[s].i_rc = inode[s].i_rc
    BY <1>2, <1>4, <1>5
  <2>4. \A u \in Tasks : \A s \in Doomed(u)' : s \in inode_used' /\ inode'[s].i_rc = 0
    <3>1. ASSUME NEW u \in Tasks, NEW s \in Doomed(u)' PROVE s \in inode_used' /\ inode'[s].i_rc = 0
      <4>1. u # t /\ s \in Doomed(u) /\ s \notin D
        BY <2>1, <2>2, <3>1
      <4>2. s \in inode_used /\ inode[s].i_rc = 0
        BY <1>0, <4>1 DEF Doom
      <4>. QED BY <1>4, <2>3, <4>1, <4>2
    <3>. QED BY <3>1
  <2>5. \A u \in Tasks : frame'[u].pc = "zero" => frame'[u].obj \notin frame'[u].dying
    BY <1>0, <1>8, <1>9 DEF StepOf, Doom
  <2>6. \A u, w \in Tasks : u # w => Doomed(u)' \cap Doomed(w)' = {}
    <3>1. \A u, w \in Tasks : u # w => Doomed(u) \cap Doomed(w) = {}
      BY <1>0 DEF Doom
    <3>. QED BY <2>1, <2>2, <3>1
  <2>7. \A s \in inode_used' : inode'[s].i_rc = 0 => \E u \in Tasks : s \in Doomed(u)'
    <3>1. \A s \in inode_used : inode[s].i_rc = 0 => \E u \in Tasks : s \in Doomed(u)
      BY <1>0 DEF Doom
    <3>. QED BY <2>1, <2>2, <2>3, <3>1
  <2>. QED BY <2>4, <2>5, <2>6, <2>7 DEF Doom
<1>25. Tables'
  <2>1. \A s \in inode_used' : inode'[s].fs = inode[s].fs /\ inode'[s].i_num = inode[s].i_num
    BY <1>4, <1>6 DEF Steady
  <2>2. \A a \in FileSystems, b \in Numbers : table[a][b] # NULL =>
            /\ table[a][b] \in inode_used /\ inode[table[a][b]].fs = a
            /\ inode[table[a][b]].i_num = b /\ table[a][b] \notin Dying
    BY <1>0 DEF Tables, TableExact
  <2>3. \A a \in FileSystems, b \in Numbers : table[a][b] # NULL => table[a][b] \in inode_used'
    BY <1>4, <1>17, <2>2
  <2>4. \A s \in inode_used' \ Dying' : table[inode'[s].fs][inode'[s].i_num] = s
    BY <1>0, <1>17, <2>1 DEF Tables, TableExact
  <2>5. \A s \in Dying', a \in FileSystems, b \in Numbers : table[a][b] # s
    BY <1>0, <1>17 DEF Tables
  <2>. QED BY <1>4, <2>1, <2>2, <2>3, <2>4, <2>5 DEF Tables, TableExact
<1>26. WalkOK(t)'
  <2>1. f.ret = "walk" => /\ f.curr # NULL /\ f.at <= Len(f.path) /\ ~IsRoot(f.curr)
    BY <1>0, <1>1 DEF WalkOK, FrameOK, Releasing
  <2>2. f.curr # NULL => inode'[f.curr].i_num = inode[f.curr].i_num
    BY <1>6, <1>8, <1>9, <1>19, <1>0 DEF LiveOK, Steady
  <2>3. f.ret # "run" => f.path \in Paths
    BY <1>0 DEF WalkOK
  <2>4. f.ret = "done" => f.err # "ok"
    BY <1>0, <1>1 DEF FrameOK, Releasing
  <2>. QED BY <1>8, <1>9, <2>1, <2>2, <2>3, <2>4 DEF WalkOK, IsRoot
<1>27. Walks'
  BY <1>0, <1>6, <1>9, <1>20, <1>26, WalksStep
<1>28. CountsOK'
  <2>1. ASSUME NEW o \in inode_used' PROVE Refs(o)' = Refs(o) /\ inode'[o].i_rc = inode[o].i_rc
    <3>1. o \in inode_used /\ inode'[o] = inode[o]
      BY <1>2, <1>4, <1>5
    <3>2. Holders(o)' = Holders(o)
      BY <1>4 DEF Holders
    <3>3. Opened(o)' = Opened(o)
      BY <1>4, <1>12 DEF Opened
    <3>4. Children(o)' = Children(o)
      <4>1. \A c \in inode_used \ Dying : inode'[c].i_parent_ref = inode[c].i_parent_ref
        BY <1>6, <1>17 DEF Steady
      <4>. QED BY <1>17, <4>1 DEF Children
    <3>5. Walkers(o)' = Walkers(o) /\ RootRef(o)' = RootRef(o)
      BY <1>8, <1>9, <3>1 DEF Walkers, RootRef, StepOf, IsRoot
    <3>6. Releasers(o)' = Releasers(o)
      BY <1>1, <1>8, <1>9 DEF Releasers, StepOf
    <3>. QED BY <3>1, <3>2, <3>3, <3>4, <3>5, <3>6, RefsIs, RefsIsNext
  <2>2. inode_used' \subseteq inode_used
    BY <1>4
  <2>. QED BY <1>0, <1>4, <2>1, <2>2 DEF CountsOK
<1>. QED BY <1>1, <1>4, <1>13, <1>16, <1>20, <1>21, <1>22, <1>23, <1>24, <1>25, <1>27, <1>28
         DEF Core

----------------------------------------------------------------------------
(***************************************************************************)
(* The invariant and what follows from it.                                 *)
(***************************************************************************)

\* At boot a root has one reference, that of its mount point.
LEMMA InitRefs ==
    ASSUME Init, NEW m \in FileSystems
    PROVE  Refs(m) = 1
<1>0. m \in InodeSlots /\ m # NULL
  BY MountFacts, NullFacts
<1>1. inode[m].i_num = ROOT
  BY <1>0, BlankInode DEF Init, mount, Blank
<1>2. Holders(m) = {}
  BY <1>0 DEF Init, Holders, Nothing
<1>3. Opened(m) = {}
  BY DEF Init, Opened
<1>4. Children(m) = {}
  <2>1. \A c \in inode_used : c \in InodeSlots /\ inode[c].i_parent_ref = NULL
    <3>1. ASSUME NEW c \in FileSystems PROVE c \in InodeSlots /\ inode[c].i_parent_ref = NULL
      <4>1. c \in InodeSlots
        BY MountFacts
      <4>. QED BY <4>1 DEF Init, mount, Blank
    <3>. QED BY <3>1 DEF Init, mount
  <2>. QED BY <1>0, <2>1 DEF Children
<1>5. Walkers(m) = {}
  BY <1>1 DEF Walkers, IsRoot
<1>6. Releasers(m) = {}
  BY RunningFrame DEF Init, Releasers
<1>7. RootRef(m) = 1
  BY <1>1 DEF RootRef, IsRoot
<1>8. Cardinality({}) = 0
  BY FS_EmptySet
<1>. QED BY <1>2, <1>3, <1>4, <1>5, <1>6, <1>7, <1>8, RefsIs

\* The invariant holds after boot.
LEMMA InitInv ==
    ASSUME Init
    PROVE  VfsInv
<1>0. /\ inode_used = FileSystems /\ file_used = {} /\ walker = NULL
      /\ frame = [t \in Tasks |-> Running]
      /\ held = [t \in Tasks |-> [v \in Kept |-> Nothing]]
      /\ files = [t \in Tasks |-> {}] /\ panic = "no"
      /\ file = [f \in FileSlots |-> NoFile]
      /\ initial_rc \in Nat \ {0}
      /\ table = [fs \in FileSystems |-> [n \in Numbers |-> IF n = ROOT THEN fs ELSE NULL]]
      /\ inode = [s \in InodeSlots |->
            IF s \in FileSystems
            THEN [Blank EXCEPT !.fs = s, !.i_num = ROOT, !.i_rc = initial_rc]
            ELSE Blank]
  BY RcAssumption DEF Init, mount
<1>1. ASSUME NEW s \in InodeSlots
      PROVE  /\ inode[s] \in Inode /\ inode[s].owner = NULL /\ inode[s].queue = <<>>
             /\ s \in FileSystems => /\ inode[s].fs = s /\ inode[s].i_num = ROOT
                                     /\ inode[s].i_rc = initial_rc
                                     /\ inode[s].i_parent_ref = NULL
  <2>1. CASE s \in FileSystems
    <3>. DEFINE i == [Blank EXCEPT !.fs = s, !.i_num = ROOT, !.i_rc = initial_rc]
    <3>1. inode[s] = i
      BY <1>0, <2>1
    <3>2. ROOT \in Numbers
      BY <2>1, MountFacts
    <3>3. /\ i \in Inode /\ i.owner = NULL /\ i.queue = <<>> /\ i.fs = s
          /\ i.i_num = ROOT /\ i.i_rc = initial_rc /\ i.i_parent_ref = NULL
      BY <1>0, <2>1, <3>2, BlankInode DEF Inode
    <3>. QED BY <3>1, <3>3
  <2>2. CASE s \notin FileSystems
    BY <1>0, <2>2, BlankInode
  <2>. QED BY <2>1, <2>2
<1>2. Types
  <2>1. inode \in [InodeSlots -> Inode]
    BY <1>0, <1>1
  <2>2. inode_used \in SUBSET InodeSlots
    BY <1>0, MountFacts
  <2>3. table \in [FileSystems -> [Numbers -> Slot]]
    BY <1>0, MountFacts DEF Slot
  <2>4. file \in [FileSlots -> FileDesc]
    BY <1>0 DEF NoFile, FileDesc, Slot
  <2>5. frame \in [Tasks -> Frame]
    BY <1>0, RunningFrame
  <2>6. held \in [Tasks -> [Kept -> {Nothing} \cup [inode : InodeSlots, path : Paths]]]
    BY <1>0
  <2>7. files \in [Tasks -> SUBSET FileSlots] /\ file_used \in SUBSET FileSlots
        /\ walker \in Tasks \cup {NULL} /\ initial_rc \in Nat \ {0}
    BY <1>0
  <2>. QED BY <2>1, <2>2, <2>3, <2>4, <2>5, <2>6, <2>7 DEF Types
<1>3. \A t \in Tasks : frame[t] = Running /\ files[t] = {} /\ walker # t
                       /\ \A v \in Kept : held[t][v].inode = NULL
  BY <1>0, NullFacts DEF Nothing
<1>4. Control
  BY <1>0, <1>3, RunningFrame DEF Control, FrameOK, OpenOK, Releasing, Opening
<1>5. Files /\ Positions
  BY <1>3, RunningFrame, NullFacts DEF Files, FileOK, Positions
<1>6. Inodes
  <2>1. ASSUME NEW m \in FileSystems PROVE m \in InodeSlots /\ ROOT \in Numbers
    BY MountFacts
  <2>. QED BY <1>0, <1>1, <2>1 DEF Inodes, IsRoot
<1>7. Mutexes
  BY <1>1 DEF Mutexes, MutexOK
<1>8. Dying = {} /\ \A t \in Tasks : Doomed(t) = {}
  BY <1>3, RunningFrame DEF Dying, Doomed
<1>9. Doom
  <2>1. \A s \in inode_used : inode[s].i_rc # 0
    BY <1>0, <1>1, MountFacts
  <2>. QED BY <1>3, <1>8, <2>1, RunningFrame DEF Doom
<1>10. Live
  <2>1. \A s \in inode_used : inode[s].i_parent_ref = NULL
    BY <1>0, <1>1, MountFacts
  <2>2. Parents
    BY <2>1 DEF Parents
  <2>. QED BY <1>3, <2>2, RunningFrame DEF Live, LiveOK, Opening
<1>11. Tables
  <2>1. \A m \in FileSystems : m \in InodeSlots /\ ROOT \in Numbers /\ m # NULL
    BY MountFacts, NullFacts
  <2>2. \A m \in FileSystems, n \in Numbers : table[m][n] = IF n = ROOT THEN m ELSE NULL
    BY <1>0
  <2>. QED BY <1>0, <1>1, <1>8, <2>1, <2>2 DEF Tables, TableExact
<1>12. Walks
  BY <1>3, RunningFrame DEF Walks, WalkOK
<1>13. CountsOK
  <2>1. ASSUME NEW m \in FileSystems PROVE inode[m].i_rc = initial_rc - 1 + Refs(m)
    <3>1. Refs(m) = 1 /\ inode[m].i_rc = initial_rc
      BY <1>1, MountFacts, InitRefs
    <3>2. initial_rc \in Nat
      BY <1>0
    <3>3. ASSUME NEW a \in Nat, NEW b, b = 1 PROVE a = a - 1 + b
      BY <3>3
    <3>. QED BY ONLY <3>1, <3>2, <3>3
  <2>. QED BY <1>0, <2>1 DEF CountsOK
<1>14. AssertsHold
  BY <1>0 DEF AssertsHold
<1>. QED BY <1>2, <1>4, <1>5, <1>6, <1>7, <1>9, <1>10, <1>11, <1>12, <1>13, <1>14
         DEF VfsInv, Core

\* The invariant is inductive.
LEMMA StepInv ==
    ASSUME OneOpener, BelowMounts, VfsInv, [Next]_vars
    PROVE  VfsInv'
<1>0. Core /\ AssertsHold
  BY DEF VfsInv
<1>1. panic' = "no" => AssertsHold'
  BY DEF AssertsHold
<1>2. ASSUME UNCHANGED vars PROVE VfsInv'
  <2>1. Core'
    BY <1>0, <1>2, CoreSame DEF vars
  <2>2. AssertsHold'
    BY <1>0, <1>2 DEF vars, AssertsHold
  <2>. QED BY <2>1, <2>2 DEF VfsInv
<1>3. ASSUME NEW t \in Tasks,
             \/ traverse(t) \/ release(t) \/ open(t) \/ read(t) \/ close(t)
             \/ Continue(t)
      PROVE  Core' /\ AssertsHold'
  <2>1. CASE traverse(t)
    BY <1>0, <1>1, <2>1, TraverseCore
  <2>2. CASE release(t)
    BY <1>0, <1>1, <2>2, ReleaseCore
  <2>3. CASE open(t)
    BY <1>0, <1>1, <2>3, OpenCore
  <2>4. CASE read(t)
    BY <1>0, <1>1, <2>4, ReadCore
  <2>5. CASE close(t)
    BY <1>0, <1>1, <2>5, CloseCore
  <2>6. CASE walk_end(t)
    BY <1>0, <1>1, <2>6, WalkEndCore
  <2>7. CASE walk_fail(t)
    <3>1. frame[t].pc = "walk" /\ frame[t].at < Len(frame[t].path)
      BY <2>7 DEF walk_fail, At
    <3>2. Found(frame[t]).err \in {"no_entry", "path_too_long", "ok"}
      BY <1>0, <3>1, FoundFacts
    <3>. QED BY <1>0, <1>1, <2>7, <3>2, WalkFailCore
  <2>8. CASE walk_cached(t)
    BY <1>0, <2>8, WalkCachedCore
  <2>9. CASE walk_load(t)
    BY <1>0, <2>9, WalkLoadCore
  <2>10. CASE returned(t)
    BY <1>0, <1>1, <2>10, ReturnedCore
  <2>11. CASE release_lock(t)
    BY <1>0, <2>11, ReleaseLockCore
  <2>12. CASE release_ref_locked(t)
    BY <1>0, <1>1, <2>12, ReleaseRefCore
  <2>13. CASE release_remove(t)
    BY <1>0, <1>1, <2>13, ReleaseRemoveCore
  <2>14. CASE unwind(t)
    BY <1>0, <1>1, <2>14, UnwindCore
  <2>15. CASE open_take(t)
    BY <1>0, <1>1, <2>15, OpenTakeCore
  <2>16. CASE open_ref(t)
    BY <1>0, <1>1, <2>16, OpenRefCore
  <2>. QED BY <1>3, <2>1, <2>2, <2>3, <2>4, <2>5, <2>6, <2>7, <2>8, <2>9, <2>10, <2>11,
              <2>12, <2>13, <2>14, <2>15, <2>16 DEF Continue
<1>. QED BY <1>2, <1>3 DEF Next, Halt, VfsInv

\* The inductive invariant: counts, tables, mutexes, destructors and files
\* agree with one another, whatever tasks do between the steps of release
\* (vfs.cpp) and open.
THEOREM VfsInvariant ==
    ASSUME OneOpener, BelowMounts
    PROVE  Spec => []VfsInv
<1>1. Init => VfsInv
  BY InitInv
<1>2. VfsInv /\ [Next]_vars => VfsInv'
  BY StepInv
<1>. QED BY <1>1, <1>2, PTL DEF Spec

\* The variables of the file system keep their types, and read (tar_read in
\* tar.cpp) moves no file past its end.
THEOREM VfsTypes ==
    ASSUME OneOpener, BelowMounts
    PROVE  Spec => []TypeOK
<1>1. VfsInv => TypeOK
  <2>. SUFFICES ASSUME VfsInv PROVE TypeOK
    OBVIOUS
  <2>0. Types /\ Positions
    BY DEF VfsInv, Core
  <2>1. ASSUME NEW s \in InodeSlots
        PROVE  /\ inode[s].fs \in FileSystems \cup {0}
               /\ inode[s].i_num \in Numbers \cup {0}
               /\ inode[s].i_rc \in Nat
               /\ inode[s].i_parent_ref \in Slot
               /\ inode[s].owner \in Tasks \cup {NULL}
    <3>1. inode[s] \in Inode
      BY <2>0 DEF Types
    <3>. QED BY <3>1, InodeFields
  <2>2. ASSUME NEW t \in Tasks
        PROVE  /\ frame[t].pc \in Points /\ frame[t].curr \in Slot
               /\ frame[t].obj \in Slot /\ frame[t].dying \subseteq InodeSlots
               /\ \A v \in Kept :
                    held[t][v] \in {Nothing} \cup [inode : InodeSlots, path : Paths]
               /\ files[t] \subseteq FileSlots
               /\ \A f \in files[t] :
                    file[f].f_pos \in 0 .. inode[file[f].owner_inode].len
    <3>1. frame[t] \in Frame
      BY <2>0 DEF Types
    <3>2. /\ frame[t].pc \in Points /\ frame[t].curr \in Slot
          /\ frame[t].obj \in Slot /\ frame[t].dying \subseteq InodeSlots
      BY <3>1, FrameFields
    <3>3. /\ \A v \in Kept :
                    held[t][v] \in {Nothing} \cup [inode : InodeSlots, path : Paths]
          /\ files[t] \subseteq FileSlots
      BY <2>0 DEF Types
    <3>. QED BY <2>0, <3>2, <3>3 DEF Positions
  <2>. QED BY <2>0, <2>1, <2>2 DEF Types, TypeOK
<1>. QED BY <1>1, VfsInvariant, PTL

\* The count of an inode (take_ref_locked and release_ref_locked in vfs.hpp)
\* is what callers, open files, children, the walk and releases in progress
\* add up to, through every failure of traverse and every release of a
\* parent.
THEOREM VfsCounts ==
    ASSUME OneOpener, BelowMounts
    PROVE  Spec => []RefsFollow
<1>1. VfsInv => RefsFollow
  BY DEF VfsInv, Core, CountsOK, RefsFollow
<1>. QED BY <1>1, VfsInvariant, PTL

\* The hash table of a file system (get_inode_struct and inode::release in
\* vfs.cpp) has every struct that is not being destroyed, under its number,
\* and nothing else.
THEOREM VfsTable ==
    ASSUME OneOpener, BelowMounts
    PROVE  Spec => []TableExact
<1>1. VfsInv => TableExact
  BY DEF VfsInv, Core, Tables
<1>. QED BY <1>1, VfsInvariant, PTL

\* No struct is freed (inode::release in vfs.cpp) while a walk, a caller, an
\* open file, a child or another release can still reach it.
THEOREM VfsNoDangling ==
    ASSUME OneOpener, BelowMounts
    PROVE  Spec => []NoDangling
<1>1. VfsInv => NoDangling
  <2>. SUFFICES ASSUME VfsInv, NEW s \in InodeSlots \ inode_used
               PROVE  /\ \A t \in Tasks :
                        /\ frame[t].curr # s
                        /\ frame[t].pc \in {"release", "locked", "zero", "open_locked"}
                            => frame[t].obj # s
                        /\ \A v \in Kept : held[t][v].inode # s
                        /\ \A f \in files[t] : file[f].owner_inode # s
                      /\ \A c \in inode_used \ Dying : inode[c].i_parent_ref # s
    BY DEF NoDangling
  <2>0. Live /\ s \notin inode_used /\ s # NULL
    BY NullFacts DEF VfsInv, Core
  <2>1. \A c \in inode_used \ Dying : inode[c].i_parent_ref # s
    BY <2>0 DEF Live, Parents
  <2>2. ASSUME NEW t \in Tasks
        PROVE  /\ frame[t].curr # s
               /\ frame[t].pc \in {"release", "locked", "zero", "open_locked"}
                   => frame[t].obj # s
               /\ \A v \in Kept : held[t][v].inode # s
               /\ \A f \in files[t] : file[f].owner_inode # s
    <3>1. LiveOK(t)
      BY <2>0 DEF Live
    <3>. QED BY <2>0, <3>1 DEF LiveOK, Opening
  <2>. QED BY <2>1, <2>2
<1>. QED BY <1>1, VfsInvariant, PTL

\* Of the kasserts of traverse, inode::release, open and ~inode_tar, two can
\* fail, and each in the state that AssertsHold names.
THEOREM VfsAsserts ==
    ASSUME OneOpener, BelowMounts
    PROVE  Spec => []AssertsHold
<1>1. VfsInv => AssertsHold
  BY DEF VfsInv
<1>. QED BY <1>1, VfsInvariant, PTL

\* An inode whose count has reached 0 (inode::release in vfs.cpp) is in the
\* hands of one task, which is about to free it, and roots never are.
THEOREM VfsLastRelease ==
    ASSUME OneOpener, BelowMounts
    PROVE  Spec => []LastReleaseFrees
<1>1. VfsInv => LastReleaseFrees
  <2>. SUFFICES ASSUME VfsInv, NEW s \in inode_used, inode[s].i_rc = 0
               PROVE  /\ ~IsRoot(s)
                      /\ Cardinality({t \in Tasks : s \in frame[t].dying
                            \/ (frame[t].pc = "zero" /\ frame[t].obj = s)}) = 1
    BY DEF LastReleaseFrees
  <2>. DEFINE T == {t \in Tasks : s \in frame[t].dying
                        \/ (frame[t].pc = "zero" /\ frame[t].obj = s)}
  <2>0. Types /\ CountsOK /\ Doom /\ s \in InodeSlots
    BY DEF VfsInv, Core, Types
  <2>1. ~IsRoot(s)
    <3>. SUFFICES ASSUME IsRoot(s) PROVE FALSE
      OBVIOUS
    <3>1. inode[s].i_rc \in Nat \ {0}
      BY <2>0, ReferencedCount DEF Referenced
    <3>. QED BY <3>1
  <2>2. \A t \in Tasks : t \in T <=> s \in Doomed(t)
    BY <2>0 DEF Doomed
  <2>3. PICK u \in Tasks : s \in Doomed(u)
    BY <2>0 DEF Doom
  <2>4. T = {u}
    <3>1. \A t \in Tasks : s \in Doomed(t) => t = u
      BY <2>0, <2>3 DEF Doom
    <3>2. T \subseteq Tasks
      OBVIOUS
    <3>. HIDE DEF T
    <3>. QED BY <2>2, <2>3, <3>1, <3>2
  <2>5. Cardinality(T) = 1
    BY <2>4, FS_Singleton
  <2>. QED BY <2>1, <2>5
<1>. QED BY <1>1, VfsInvariant, PTL

----------------------------------------------------------------------------
(***************************************************************************)
(* What a path leads to.                                                   *)
(***************************************************************************)
\* The archive has something under the first k components of name.
Exists(m, name, k) ==
    \E i \in DOMAIN Mounts[m].archive :
        /\ Len(Mounts[m].archive[i].name) >= k
        /\ Prefix(Mounts[m].archive[i].name, k) = Prefix(name, k)

\* path below the mount point m.
Below(m, path) == SubSeq(path, Len(Mounts[m].path) + 1, Len(path))

\* A number and a name are those of the same component.
NameOK(s) ==
    inode[s].name =
        IF IsRoot(s) THEN <<>>
        ELSE tar_lookup_by_index(Mounts[inode[s].fs].archive, inode[s].i_num).name

\* A walk stands on what its path names so far, all of which exists.
AtName(t) ==
    LET f == frame[t]
        m == best_mnt(f.path)
        k == f.at - Len(Mounts[m].path)
    IN  /\ m # 0 /\ inode[f.curr].fs = m
        /\ k \in 0 .. Len(Below(m, f.path))
        /\ inode[f.curr].name = Prefix(Below(m, f.path), k)
        /\ \A j \in 1 .. k : j <= NameMax /\ Exists(m, Below(m, f.path), j)

HeldOK(t) ==
    \A v \in Kept : held[t][v].inode # NULL =>
        Names(held[t][v].inode, held[t][v].path)

\* What task t walks, has come to and keeps is what the paths name.
PathOK(t) ==
    /\ frame[t].pc = "walk" \/ frame[t].ret = "walk" => AtName(t)
    /\ frame[t].err # "ok" => frame[t].err = Expected(frame[t].path)
    /\ frame[t].pc = "done" /\ frame[t].err = "ok" =>
        AtName(t) /\ frame[t].at = Len(frame[t].path)
    /\ HeldOK(t)

PathInv ==
    /\ \A s \in inode_used : NameOK(s)
    /\ \A t \in Tasks : PathOK(t)

----------------------------------------------------------------------------
(***************************************************************************)
(* Paths and names.                                                        *)
(***************************************************************************)
\* A path is its first n components and the rest.
LEMMA Halves ==
    ASSUME NEW p \in Seq(STRING), NEW n \in 0 .. Len(p)
    PROVE  /\ SubSeq(p, n + 1, Len(p)) \in Seq(STRING)
           /\ Len(SubSeq(p, n + 1, Len(p))) = Len(p) - n
           /\ Prefix(p, n) \in Seq(STRING) /\ Len(Prefix(p, n)) = n
           /\ Prefix(p, n) \o SubSeq(p, n + 1, Len(p)) = p
           /\ \A k \in 1 .. Len(p) - n : SubSeq(p, n + 1, Len(p))[k] = p[n + k]
<1>0. n \in Nat /\ Len(p) \in Nat /\ n <= Len(p)
  OBVIOUS
<1>. DEFINE a == SubSeq(p, 1, n)
            b == SubSeq(p, n + 1, Len(p))
<1>1. /\ a \in Seq(STRING) /\ Len(a) = n
      /\ \A i \in 1 .. n : a[i] = p[i]
  BY <1>0
<1>2. b \in Seq(STRING) /\ Len(b) = Len(p) - n
  BY <1>0
<1>3. \A k \in 1 .. Len(p) - n : b[k] = p[n + k]
  BY <1>0
<1>. HIDE DEF a, b
<1>4. a \o b \in Seq(STRING) /\ Len(a \o b) = Len(p)
  BY <1>0, <1>1, <1>2
<1>5. ASSUME NEW i \in 1 .. Len(p) PROVE (a \o b)[i] = p[i]
  <2>1. CASE i <= n
    BY <1>0, <1>1, <1>2, <2>1
  <2>2. CASE i > n
    <3>1. (a \o b)[i] = b[i - n]
      BY <1>0, <1>1, <1>2, <2>2
    <3>2. i - n \in 1 .. Len(p) - n /\ n + (i - n) = i
      BY <1>0, <2>2
    <3>. QED BY <1>3, <3>1, <3>2
  <2>3. i <= n \/ i > n
    BY <1>0
  <2>. QED BY <2>1, <2>2, <2>3
<1>6. a \o b = p
  BY <1>0, <1>4, <1>5, SeqEqual
<1>. QED BY <1>1, <1>2, <1>3, <1>6 DEF a, b, Prefix

\* One component more.
LEMMA Longer ==
    ASSUME NEW r \in Seq(STRING), NEW k \in Nat, k < Len(r)
    PROVE  /\ Append(Prefix(r, k), r[k + 1]) = Prefix(r, k + 1)
           /\ Len(Prefix(r, k + 1)) = k + 1 /\ Prefix(r, k + 1) \in Seq(STRING)
<1>. DEFINE a == SubSeq(r, 1, k)
            b == SubSeq(r, 1, k + 1)
<1>0. Len(r) \in Nat /\ r[k + 1] \in STRING
  OBVIOUS
<1>1. a \in Seq(STRING) /\ Len(a) = k /\ \A i \in 1 .. k : a[i] = r[i]
  BY <1>0
<1>2. b \in Seq(STRING) /\ Len(b) = k + 1 /\ \A i \in 1 .. k + 1 : b[i] = r[i]
  BY <1>0
<1>. HIDE DEF a, b
<1>. DEFINE c == Append(a, r[k + 1])
<1>3. c \in Seq(STRING) /\ Len(c) = k + 1
  BY <1>0, <1>1
<1>4. \A i \in 1 .. k + 1 : c[i] = b[i]
  BY <1>0, <1>1, <1>2
<1>. HIDE DEF c
<1>5. c = b
  BY <1>2, <1>3, <1>4, SeqEqual
<1>. QED BY <1>2, <1>5 DEF a, b, c, Prefix

\* The whole path, and none of it.
LEMMA Whole ==
    ASSUME NEW r \in Seq(STRING)
    PROVE  Prefix(r, Len(r)) = r /\ Prefix(r, 0) = <<>>
  BY DEF Prefix

\* A path begins with q and goes on.
LEMMA Begins ==
    ASSUME NEW p \in Seq(STRING), NEW q \in Seq(STRING)
    PROVE  (\E rest \in {SubSeq(p, k, Len(p)) : k \in 1 .. Len(p) + 1} : p = q \o rest)
           <=> Len(q) <= Len(p) /\ Prefix(p, Len(q)) = q
<1>0. Len(p) \in Nat /\ Len(q) \in Nat
  OBVIOUS
<1>1. ASSUME NEW k \in 1 .. Len(p) + 1, p = q \o SubSeq(p, k, Len(p))
      PROVE  Len(q) <= Len(p) /\ Prefix(p, Len(q)) = q
  <2>. DEFINE r == SubSeq(p, k, Len(p))
  <2>1. r \in Seq(STRING) /\ Len(r) \in Nat
    BY <1>0
  <2>2. p = q \o r
    BY <1>1
  <2>. HIDE DEF r
  <2>3. Len(p) = Len(q) + Len(r) /\ \A i \in 1 .. Len(q) : p[i] = q[i]
    BY <1>0, <2>1, <2>2
  <2>. DEFINE a == SubSeq(p, 1, Len(q))
  <2>4. a \in Seq(STRING) /\ Len(a) = Len(q) /\ \A i \in 1 .. Len(q) : a[i] = p[i]
    BY <1>0, <2>1, <2>3
  <2>. HIDE DEF a
  <2>5. a = q
    BY <1>0, <2>3, <2>4, SeqEqual
  <2>. QED BY <1>0, <2>1, <2>3, <2>5 DEF Prefix, a
<1>2. ASSUME Len(q) <= Len(p), Prefix(p, Len(q)) = q
      PROVE  \E rest \in {SubSeq(p, k, Len(p)) : k \in 1 .. Len(p) + 1} : p = q \o rest
  <2>1. Len(q) \in 0 .. Len(p) /\ Len(q) + 1 \in 1 .. Len(p) + 1
    BY <1>0, <1>2
  <2>2. q \o SubSeq(p, Len(q) + 1, Len(p)) = p
    BY <1>2, <2>1, Halves
  <2>. QED BY <2>1, <2>2
<1>. QED BY <1>1, <1>2

\* The mount point of traverse is the file system that the path is in.
LEMMA HomeIs ==
    ASSUME NEW path \in Seq(STRING)
    PROVE  Home(path) = best_mnt(path)
<1>. DEFINE above == {m \in FileSystems :
                \E rest \in {SubSeq(path, k, Len(path)) : k \in 1 .. Len(path) + 1} :
                    path = Mounts[m].path \o rest}
            hidden == {m \in above :
                \E o \in above : Len(Mounts[m].path) < Len(Mounts[o].path)}
            fits(m) == /\ Len(Mounts[m].path) <= Len(path)
                       /\ Prefix(path, Len(Mounts[m].path)) = Mounts[m].path
            best == best_mnt(path)
<1>0. \A m \in FileSystems : Mounts[m].path \in Seq(STRING) /\ Len(Mounts[m].path) \in Nat
  BY MountFacts
<1>1. \A m \in FileSystems : m \in above <=> fits(m)
  BY <1>0, Begins
<1>2. above \subseteq FileSystems
  OBVIOUS
<1>3. \/ best = 0 /\ \A m \in FileSystems : ~ fits(m)
      \/ /\ best \in FileSystems /\ fits(best)
         /\ \A m \in FileSystems : fits(m) => Len(Mounts[m].path) <= Len(Mounts[best].path)
  BY BestMount
<1>4. Home(path) = IF above = {} THEN 0 ELSE CHOOSE m \in above \ hidden : TRUE
  BY DEF Home
<1>. HIDE DEF above, best
<1>5. CASE best = 0 /\ \A m \in FileSystems : ~ fits(m)
  <2>1. above = {}
    BY <1>1, <1>2, <1>5
  <2>. QED BY <1>4, <1>5, <2>1 DEF best
<1>6. CASE /\ best \in FileSystems /\ fits(best)
           /\ \A m \in FileSystems : fits(m) => Len(Mounts[m].path) <= Len(Mounts[best].path)
  <2>1. best \in above
    BY <1>1, <1>6
  <2>2. best \notin hidden
    BY <1>0, <1>1, <1>2, <1>6
  <2>3. ASSUME NEW m \in above \ hidden PROVE m = best
    <3>1. m \in FileSystems /\ fits(m)
      BY <1>1, <1>2
    <3>2. Len(Mounts[m].path) = Len(Mounts[best].path)
      BY <1>0, <1>6, <2>1, <3>1
    <3>3. Mounts[m].path = Mounts[best].path
      BY <1>6, <3>1, <3>2
    <3>. QED BY <1>6, <3>1, <3>3, MountsAssumption
  <2>. HIDE DEF hidden
  <2>4. (CHOOSE m \in above \ hidden : TRUE) = best
    BY <2>1, <2>2, <2>3
  <2>. QED BY <1>4, <2>1, <2>4 DEF best
<1>. QED BY <1>3, <1>5, <1>6

\* A path in a file system is its mount point and the rest.
LEMMA MountRest ==
    ASSUME NEW path \in Seq(STRING), best_mnt(path) # 0
    PROVE  LET m == best_mnt(path)
               n == Len(Mounts[m].path)
           IN  /\ m \in FileSystems /\ Home(path) = m
               /\ Mounts[m].archive \in Seq(Entry)
               /\ n \in Nat /\ n <= Len(path)
               /\ Below(m, path) \in Seq(STRING)
               /\ Len(Below(m, path)) = Len(path) - n
               /\ Mounts[m].path \o Below(m, path) = path
               /\ \A k \in 1 .. Len(path) - n : Below(m, path)[k] = path[n + k]
<1>. DEFINE m == best_mnt(path)
            n == Len(Mounts[m].path)
<1>1. /\ m \in FileSystems /\ n <= Len(path) /\ Prefix(path, n) = Mounts[m].path
  BY BestMount
<1>2. Home(path) = m
  BY HomeIs
<1>. HIDE DEF m
<1>3. n \in Nat /\ Mounts[m].archive \in Seq(Entry)
  BY <1>1, MountFacts
<1>4. n \in 0 .. Len(path)
  BY <1>1, <1>3
<1>. HIDE DEF n
<1>5. /\ SubSeq(path, n + 1, Len(path)) \in Seq(STRING)
      /\ Len(SubSeq(path, n + 1, Len(path))) = Len(path) - n
      /\ Prefix(path, n) \o SubSeq(path, n + 1, Len(path)) = path
      /\ \A k \in 1 .. Len(path) - n : SubSeq(path, n + 1, Len(path))[k] = path[n + k]
  BY <1>4, Halves
<1>6. Below(m, path) = SubSeq(path, n + 1, Len(path))
  BY DEF Below, n
<1>. QED BY <1>1, <1>2, <1>3, <1>5, <1>6 DEF m, n

\* The first k prefixes of path are names of the archive.
Good(m, path, k) == \A j \in 1 .. k : j <= NameMax /\ Exists(m, Below(m, path), j)

\* The first bad prefix decides.
LEMMA ExpectedIs ==
    ASSUME NEW path \in Seq(STRING)
    PROVE  LET m == best_mnt(path)
               rel == Below(m, path)
           IN  /\ m = 0 => Expected(path) = "no_entry"
               /\ m # 0 /\ Good(m, path, Len(rel)) => Expected(path) = "ok"
               /\ \A k \in Nat : m # 0 /\ k < Len(rel) /\ Good(m, path, k) =>
                    /\ k + 1 > NameMax => Expected(path) = "path_too_long"
                    /\ k + 1 <= NameMax /\ ~ Exists(m, rel, k + 1) =>
                            Expected(path) = "no_entry"
<1>. DEFINE m == best_mnt(path)
            rel == Below(m, path)
            bad == {k \in 1 .. Len(rel) : k > NameMax \/ ~ Exists(m, rel, k)}
            first == CHOOSE k \in bad : \A j \in bad : k <= j
<1>0. Home(path) = m
  BY HomeIs
<1>. HIDE DEF m
<1>1. Expected(path) = IF m = 0 THEN "no_entry"
                       ELSE IF bad = {} THEN "ok"
                       ELSE IF first > NameMax THEN "path_too_long" ELSE "no_entry"
  BY <1>0 DEF Expected, Exists, Below
<1>2. CASE m = 0
  BY <1>1, <1>2 DEF m
<1>3. CASE m # 0
  <2>0. rel \in Seq(STRING) /\ Len(rel) \in Nat /\ NameMax \in Nat
    <3>1. rel \in Seq(STRING)
      BY <1>3, MountRest DEF m
    <3>. HIDE DEF rel
    <3>. QED BY <3>1, NameAssumption
  <2>. HIDE DEF rel
  <2>1. Good(m, path, Len(rel)) => bad = {}
    BY <2>0 DEF Good, rel
  <2>2. ASSUME NEW k \in Nat, k < Len(rel), Good(m, path, k),
               k + 1 > NameMax \/ ~ Exists(m, rel, k + 1)
        PROVE  bad # {} /\ first = k + 1
    <3>1. k + 1 \in bad
      BY <2>0, <2>2
    <3>2. ASSUME NEW j \in bad PROVE k + 1 <= j
      <4>1. j \in 1 .. Len(rel) /\ (j > NameMax \/ ~ Exists(m, rel, j))
        OBVIOUS
      <4>2. j \notin 1 .. k
        BY <2>0, <2>2, <4>1 DEF Good, rel
      <4>. QED BY <2>0, <4>1, <4>2
    <3>3. bad \subseteq Nat
      OBVIOUS
    <3>. HIDE DEF bad
    <3>4. first \in bad /\ \A j \in bad : first <= j
      BY <3>1, <3>2
    <3>. HIDE DEF first
    <3>. QED BY <3>1, <3>2, <3>3, <3>4
  <2>. HIDE DEF bad, first
  <2>3. ASSUME Good(m, path, Len(rel)) PROVE Expected(path) = "ok"
    BY <1>1, <1>3, <2>1, <2>3
  <2>4. ASSUME NEW k \in Nat, k < Len(rel), Good(m, path, k)
        PROVE  /\ k + 1 > NameMax => Expected(path) = "path_too_long"
               /\ k + 1 <= NameMax /\ ~ Exists(m, rel, k + 1) =>
                      Expected(path) = "no_entry"
    BY <1>1, <1>3, <2>0, <2>2, <2>4
  <2>. QED BY <1>3, <2>3, <2>4 DEF m, rel
<1>. QED BY <1>2, <1>3

\* What the next lookup of a walk says about the path.
LEMMA FoundNext ==
    ASSUME Core, NEW t \in Tasks, frame[t].pc = "walk", AtName(t),
           frame[t].at < Len(frame[t].path)
    PROVE  LET f == frame[t]
               m == best_mnt(f.path)
               k == f.at - Len(Mounts[m].path)
               full == Prefix(Below(m, f.path), k + 1)
           IN  /\ m # 0 /\ k \in Nat /\ k < Len(Below(m, f.path))
               /\ full \in Seq(STRING) /\ Len(full) = k + 1
               /\ Found(f) = tar_lookup(Mounts[m].archive, full)
               /\ Found(f).err # "ok" => Found(f).err = Expected(f.path)
               /\ Found(f).err = "ok" =>
                    k + 1 <= NameMax /\ Exists(m, Below(m, f.path), k + 1)
<1>. DEFINE f == frame[t]
            m == best_mnt(f.path)
            n == Len(Mounts[m].path)
            k == f.at - n
            rel == Below(m, f.path)
            full == Prefix(rel, k + 1)
            a == Mounts[m].archive
<1>1. f.path \in Seq(STRING) /\ f.at \in Nat /\ f.at < Len(f.path) /\ Len(f.path) \in Nat
  <2>1. f \in Frame
    BY CoreParts
  <2>2. f.path \in Seq(STRING) /\ f.at \in Nat
    BY <2>1, FrameFields
  <2>. QED BY <2>2
<1>2. /\ m # 0 /\ inode[f.curr].fs = m /\ k \in 0 .. Len(rel)
      /\ inode[f.curr].name = Prefix(rel, k)
      /\ \A j \in 1 .. k : j <= NameMax /\ Exists(m, rel, j)
  BY DEF AtName
<1>3. Found(f) = tar_lookup(Mounts[inode[f.curr].fs].archive,
                            Append(inode[f.curr].name, f.path[f.at + 1]))
  BY DEF Found, lookup
<1>. HIDE DEF f, m
<1>4. /\ m \in FileSystems /\ a \in Seq(Entry) /\ n \in Nat /\ n <= Len(f.path)
      /\ rel \in Seq(STRING) /\ Len(rel) = Len(f.path) - n
      /\ \A j \in 1 .. Len(f.path) - n : rel[j] = f.path[n + j]
  BY <1>1, <1>2, MountRest DEF m
<1>5. Good(m, f.path, k)
  BY <1>2 DEF Good
<1>. HIDE DEF n, rel, a
<1>6. k \in Nat /\ k < Len(rel) /\ k + 1 \in 1 .. Len(f.path) - n /\ n + (k + 1) = f.at + 1
  BY <1>1, <1>2, <1>4, SMTT(40)
<1>. HIDE DEF k
<1>7. f.path[f.at + 1] = rel[k + 1]
  <2>1. rel[k + 1] = f.path[n + (k + 1)]
    BY <1>4, <1>6
  <2>2. n + (k + 1) = f.at + 1
    BY <1>6
  <2>. QED BY ONLY <2>1, <2>2
<1>8. /\ Append(Prefix(rel, k), rel[k + 1]) = full
      /\ full \in Seq(STRING) /\ Len(full) = k + 1
  BY <1>4, <1>6, Longer
<1>9. Found(f) = tar_lookup(a, full)
  BY <1>2, <1>3, <1>7, <1>8 DEF a
<1>10. Exists(m, rel, k + 1) <=>
            \E i \in DOMAIN a : /\ Len(full) <= Len(a[i].name)
                                /\ Prefix(a[i].name, Len(full)) = full
  <2>1. Exists(m, rel, k + 1) <=>
            \E i \in DOMAIN a : /\ Len(a[i].name) >= k + 1
                                /\ Prefix(a[i].name, k + 1) = full
    BY DEF Exists, a
  <2>2. \A i \in DOMAIN a : Len(a[i].name) \in Nat
    BY <1>4, EntryFacts
  <2>3. \A i \in DOMAIN a : Len(a[i].name) >= k + 1 <=> k + 1 <= Len(a[i].name)
    BY <1>6, <2>2
  <2>. HIDE DEF full
  <2>. QED BY <1>8, <2>1, <2>3
<1>. HIDE DEF full
<1>11. Len(full) >= 1
  BY <1>6, <1>8
<1>12. /\ tar_lookup(a, full).err \in {"ok", "no_entry", "path_too_long"}
       /\ Len(full) > NameMax => tar_lookup(a, full).err = "path_too_long"
       /\ Len(full) <= NameMax => tar_lookup(a, full).err =
                IF \E i \in DOMAIN a : /\ Len(full) <= Len(a[i].name)
                                      /\ Prefix(a[i].name, Len(full)) = full
                THEN "ok" ELSE "no_entry"
  BY <1>4, <1>8, <1>11, LookupIs
<1>13. /\ k + 1 > NameMax => Found(f).err = "path_too_long"
       /\ k + 1 <= NameMax =>
            Found(f).err = IF Exists(m, rel, k + 1) THEN "ok" ELSE "no_entry"
  BY <1>8, <1>9, <1>10, <1>12
<1>14. k + 1 > NameMax \/ k + 1 <= NameMax
  BY <1>6, NameAssumption
<1>15. /\ k + 1 > NameMax => Expected(f.path) = "path_too_long"
       /\ k + 1 <= NameMax /\ ~ Exists(m, rel, k + 1) => Expected(f.path) = "no_entry"
  BY <1>1, <1>2, <1>5, <1>6, ExpectedIs DEF m, rel
<1>16. Found(f).err # "ok" => Found(f).err = Expected(f.path)
  BY <1>13, <1>14, <1>15
<1>17. Found(f).err = "ok" => k + 1 <= NameMax /\ Exists(m, rel, k + 1)
  BY <1>13, <1>14
<1>. QED BY <1>2, <1>6, <1>8, <1>9, <1>16, <1>17 DEF f, m, n, k, rel, full, a

----------------------------------------------------------------------------
(***************************************************************************)
(* The invariant about paths, step by step.                                *)
(***************************************************************************)
\* Structs that stay keep their names.
LEMMA NamesKept ==
    ASSUME PathInv, Steady
    PROVE  \A s \in inode_used \cap inode_used' : NameOK(s)'
  BY DEF PathInv, Steady, NameOK, IsRoot

\* Who stands on a struct that stays, with the same path, stands there still.
LEMMA AtKept ==
    ASSUME Core, Core', Steady, NEW u \in Tasks, AtName(u),
           frame[u].curr # NULL,
           frame'[u].path = frame[u].path, frame'[u].at = frame[u].at,
           frame'[u].curr = frame[u].curr
    PROVE  AtName(u)'
<1>1. frame[u].curr \in inode_used
  BY CoreParts DEF LiveOK
<1>2. frame[u].curr \in inode_used'
  BY DEF Core, Live, LiveOK
<1>3. /\ inode'[frame[u].curr].fs = inode[frame[u].curr].fs
      /\ inode'[frame[u].curr].name = inode[frame[u].curr].name
  BY <1>1, <1>2 DEF Steady
<1>. QED BY <1>3 DEF AtName

\* What a task keeps stays the file it was.
LEMMA HeldKept ==
    ASSUME Core, Core', Steady, NEW u \in Tasks, PathOK(u),
           \A v \in Kept : held'[u][v].inode # NULL => held'[u][v] = held[u][v]
    PROVE  HeldOK(u)'
<1>. SUFFICES ASSUME NEW v \in Kept, held'[u][v].inode # NULL
              PROVE  /\ inode'[held'[u][v].inode].fs = Home(held'[u][v].path)
                     /\ Mounts[inode'[held'[u][v].inode].fs].path
                            \o inode'[held'[u][v].inode].name = held'[u][v].path
  BY DEF HeldOK, Names
<1>. DEFINE s == held[u][v].inode
<1>1. held'[u][v] = held[u][v] /\ s # NULL
  OBVIOUS
<1>2. s \in inode_used
  BY <1>1 DEF Core, Live, LiveOK
<1>3. s \in inode_used'
  BY <1>1 DEF Core, Live, LiveOK
<1>4. Names(s, held[u][v].path)
  BY <1>1 DEF PathOK, HeldOK
<1>5. inode'[s].fs = inode[s].fs /\ inode'[s].name = inode[s].name
  BY <1>2, <1>3 DEF Steady
<1>. QED BY <1>1, <1>4, <1>5 DEF Names

\* A task that goes on with its walk, or ends it.
LEMMA PathGoesOn ==
    ASSUME Core, Core', Steady, NEW u \in Tasks, PathOK(u),
           frame'[u].path = frame[u].path, frame'[u].at = frame[u].at,
           frame'[u].curr = frame[u].curr, frame'[u].err = frame[u].err,
           held'[u] = held[u],
           frame'[u].pc = "walk" \/ frame'[u].ret = "walk" =>
                frame[u].pc = "walk" \/ frame[u].ret = "walk",
           frame'[u].pc = "done" /\ frame'[u].err = "ok" =>
                \/ frame[u].pc = "done"
                \/ frame[u].pc = "walk" /\ frame[u].at = Len(frame[u].path)
    PROVE  PathOK(u)'
<1>1. HeldOK(u)'
  BY HeldKept
<1>2. FrameOK(u) /\ FrameOK(u)'
  BY DEF Core, Control
<1>3. frame[u].ret # "run" => frame[u].pc \in Releasing
  BY <1>2 DEF FrameOK
<1>4. frame[u].pc = "walk" \/ frame[u].ret = "walk" => frame[u].curr # NULL
  BY <1>2, <1>3 DEF FrameOK
<1>5. frame'[u].pc = "walk" \/ frame'[u].ret = "walk" => AtName(u)'
  BY <1>4, AtKept DEF PathOK
<1>6. frame'[u].pc = "done" /\ frame'[u].err = "ok" =>
        AtName(u)' /\ frame'[u].at = Len(frame'[u].path)
  <2>. SUFFICES ASSUME frame'[u].pc = "done", frame'[u].err = "ok"
                PROVE  AtName(u)' /\ frame'[u].at = Len(frame'[u].path)
    OBVIOUS
  <2>1. frame[u].curr # NULL
    BY <1>2 DEF FrameOK
  <2>2. AtName(u) /\ frame[u].at = Len(frame[u].path)
    BY DEF PathOK
  <2>. QED BY <2>1, <2>2, AtKept
<1>7. frame'[u].err # "ok" => frame'[u].err = Expected(frame'[u].path)
  BY DEF PathOK
<1>. QED BY <1>1, <1>5, <1>6, <1>7 DEF PathOK

\* A task that is not inside traverse.
LEMMA PathIdle ==
    ASSUME Core, Core', Steady, NEW u \in Tasks, PathOK(u),
           frame'[u].err = "ok", frame'[u].pc \notin {"walk", "done"},
           frame'[u].ret # "walk",
           \A v \in Kept : held'[u][v].inode # NULL => held'[u][v] = held[u][v]
    PROVE  PathOK(u)'
<1>1. HeldOK(u)'
  BY HeldKept
<1>. QED BY <1>1 DEF PathOK

\* A step of task t changes nothing for the others.
LEMMA PathStep ==
    ASSUME Core, Core', PathInv, Steady, NEW t \in Tasks, StepOf(t), OwnRefs(t),
           inode_used' \subseteq inode_used, PathOK(t)'
    PROVE  PathInv'
<1>1. \A s \in inode_used' : NameOK(s)'
  BY NamesKept
<1>2. ASSUME NEW u \in Tasks, u # t PROVE PathOK(u)'
  <2>1. PathOK(u) /\ frame'[u] = frame[u] /\ held'[u] = held[u]
    BY <1>2 DEF PathInv, StepOf, OwnRefs
  <2>. QED BY <2>1, PathGoesOn
<1>. QED BY <1>1, <1>2 DEF PathInv

\* As Goes, where the types are known to hold afterwards.
LEMMA GoesPath ==
    ASSUME Core, Core', NEW t \in Tasks, NEW g, Goto(t, g)
    PROVE  StepOf(t) /\ frame'[t] = g
  BY DEF Core, Types, StepOf, Goto

\* A failed kassert.
LEMMA PathSame ==
    ASSUME PathInv, UNCHANGED <<inode, inode_used, frame, held>>
    PROVE  PathInv'
  BY ZenonT(40) DEF PathInv, PathOK, HeldOK, NameOK, AtName, Names, IsRoot

\* The frame of t changes, and no struct.
LEMMA PathFrame ==
    ASSUME Core, Core', PathInv, NEW t \in Tasks, StepOf(t),
           UNCHANGED <<inode, inode_used, held, files>>, PathOK(t)'
    PROVE  PathInv'
<1>1. Steady /\ OwnRefs(t)
  BY DEF Steady, OwnRefs
<1>. QED BY <1>1, PathStep

\* traverse starts where the path is at its mount point.
LEMMA TraversePath ==
    ASSUME Core, Core', PathInv, NEW t \in Tasks, traverse(t)
    PROVE  PathInv'
<1>1. UNCHANGED <<inode, inode_used, held, files>>
  BY DEF traverse
<1>2. PICK path \in Paths :
        LET m == best_mnt(path)
            f == [Running EXCEPT !.path = path]
        IN  \/ /\ m = 0
               /\ Goto(t, [f EXCEPT !.pc = "done", !.err = "no_entry"])
            \/ /\ m # 0
               /\ IF table[m][ROOT] = NULL
                  THEN UNCHANGED frame
                  ELSE Goto(t, [f EXCEPT !.pc = "walk",
                                         !.curr = table[m][ROOT],
                                         !.at = Len(Mounts[m].path)])
  BY DEF traverse
<1>. DEFINE m == best_mnt(path)
            f == [Running EXCEPT !.path = path]
<1>3. path \in Seq(STRING) /\ Steady /\ PathOK(t)
  BY <1>1, InputsAssumption DEF Steady, PathInv
<1>4. HeldOK(t)'
  BY <1>1, <1>3, HeldKept
<1>5. CASE m = 0
  <2>. DEFINE g == [f EXCEPT !.pc = "done", !.err = "no_entry"]
  <2>1. g.pc = "done" /\ g.path = path /\ g.ret = "run" /\ g.err = "no_entry"
    BY DEF Running
  <2>2. Goto(t, g)
    BY <1>2, <1>5
  <2>. HIDE DEF g
  <2>3. StepOf(t) /\ frame'[t] = g
    BY <2>2, GoesPath
  <2>4. Expected(path) = "no_entry"
    BY <1>3, <1>5, ExpectedIs
  <2>5. PathOK(t)'
    BY <1>4, <2>1, <2>3, <2>4 DEF PathOK
  <2>. QED BY <1>1, <2>3, <2>5, PathFrame
<1>6. CASE m # 0 /\ table[m][ROOT] = NULL
  BY <1>1, <1>2, <1>6, PathSame
<1>7. CASE m # 0 /\ table[m][ROOT] # NULL
  <2>. DEFINE r == table[m][ROOT]
              g == [f EXCEPT !.pc = "walk", !.curr = r, !.at = Len(Mounts[m].path)]
              rel == Below(m, path)
  <2>1. /\ g.pc = "walk" /\ g.path = path /\ g.curr = r
        /\ g.at = Len(Mounts[m].path) /\ g.ret = "run" /\ g.err = "ok"
    BY DEF Running
  <2>2. Goto(t, g)
    BY <1>2, <1>7
  <2>3. /\ m \in FileSystems /\ rel \in Seq(STRING) /\ ROOT \in Numbers
        /\ Len(Mounts[m].path) \in Nat
    BY <1>3, <1>7, MountRest, MountFacts
  <2>. HIDE DEF g, m
  <2>4. StepOf(t) /\ frame'[t] = g
    BY <2>2, GoesPath
  <2>5. r \in inode_used /\ inode[r].fs = m /\ inode[r].i_num = ROOT
    BY <1>7, <2>3 DEF Core, Tables, TableExact
  <2>6. inode[r].name = <<>>
    BY <2>5 DEF PathInv, NameOK, IsRoot
  <2>. HIDE DEF r, rel
  <2>7. Prefix(rel, 0) = <<>> /\ Len(rel) \in Nat
    BY <2>3, Whole
  <2>8. AtName(t)'
    <3>1. frame'[t].path = path /\ frame'[t].curr = r /\ frame'[t].at = Len(Mounts[m].path)
      BY <2>1, <2>4
    <3>2. Len(Mounts[m].path) - Len(Mounts[m].path) = 0 /\ 0 \in 0 .. Len(rel)
      BY <2>3, <2>7
    <3>3. inode'[r].fs = m /\ inode'[r].name = Prefix(rel, 0)
      BY <1>1, <2>5, <2>6, <2>7
    <3>4. \A j \in 1 .. 0 : j <= NameMax /\ Exists(m, rel, j)
      OBVIOUS
    <3>. QED BY <1>7, <3>1, <3>2, <3>3, <3>4 DEF AtName, m, rel
  <2>9. PathOK(t)'
    BY <1>4, <2>1, <2>4, <2>8 DEF PathOK
  <2>. QED BY <1>1, <2>4, <2>9, PathFrame
<1>. QED BY <1>5, <1>6, <1>7

\* traverse ends on what the path names.
LEMMA WalkEndPath ==
    ASSUME Core, Core', PathInv, NEW t \in Tasks, walk_end(t)
    PROVE  PathInv'
<1>. DEFINE g == [frame[t] EXCEPT !.pc = "done"]
<1>1. /\ frame[t].pc = "walk" /\ frame[t].at = Len(frame[t].path) /\ Goto(t, g)
      /\ UNCHANGED <<inode, inode_used, held, files>>
  BY DEF walk_end, At
<1>2. /\ g.path = frame[t].path /\ g.at = frame[t].at /\ g.curr = frame[t].curr
      /\ g.err = frame[t].err /\ g.ret = frame[t].ret
  <2>1. frame[t] \in Frame
    BY CoreParts
  <2>. QED BY <2>1 DEF Frame
<1>. HIDE DEF g
<1>3. StepOf(t) /\ frame'[t] = g
  BY <1>1, GoesPath
<1>4. Steady /\ PathOK(t)
  BY <1>1 DEF Steady, PathInv
<1>5. PathOK(t)'
  BY <1>1, <1>2, <1>3, <1>4, PathGoesOn
<1>. QED BY <1>1, <1>3, <1>5, PathFrame

\* The error of a lookup is the one that the whole path deserves.
LEMMA WalkFailPath ==
    ASSUME Core, Core', PathInv, NEW t \in Tasks, walk_fail(t)
    PROVE  PathInv'
<1>. DEFINE e == Found(frame[t]).err
            c == frame[t].curr
            f == [frame[t] EXCEPT !.curr = NULL, !.err = e]
            g == IF IsRoot(c) THEN [f EXCEPT !.pc = "done"]
                 ELSE [f EXCEPT !.pc = "release", !.obj = c, !.ret = "done"]
<1>0. frame[t].pc = "walk" => frame[t].ret = "run"
  BY CoreParts DEF FrameOK, Releasing
<1>1. frame[t] \in Frame
  BY CoreParts
<1>2. f.err = e /\ f.path = frame[t].path /\ f.ret = frame[t].ret
  BY <1>1 DEF Frame
<1>3. /\ frame[t].pc = "walk" /\ frame[t].at < Len(frame[t].path) /\ Goto(t, g)
      /\ UNCHANGED <<inode, inode_used, held, files>> /\ f.err # "ok"
  BY DEF walk_fail, At
<1>4. /\ g.err = e /\ g.path = frame[t].path /\ g.ret \in {"run", "done"}
      /\ g.pc # "walk"
  <2>. HIDE DEF e, c
  <2>1. CASE IsRoot(c)
    BY <1>0, <1>1, <1>3, <2>1 DEF Frame
  <2>2. CASE ~IsRoot(c)
    BY <1>0, <1>1, <1>3, <2>2 DEF Frame
  <2>. QED BY <2>1, <2>2
<1>. HIDE DEF g, f
<1>5. StepOf(t) /\ frame'[t] = g
  BY <1>3, GoesPath
<1>6. Steady /\ PathOK(t)
  BY <1>3 DEF Steady, PathInv
<1>7. AtName(t)
  BY <1>3, <1>6 DEF PathOK
<1>8. e # "ok" /\ e = Expected(frame[t].path)
  BY <1>2, <1>3, <1>7, FoundNext
<1>9. HeldOK(t)'
  BY <1>3, <1>6, HeldKept
<1>10. PathOK(t)'
  BY <1>4, <1>5, <1>8, <1>9 DEF PathOK
<1>. QED BY <1>3, <1>5, <1>10, PathFrame

\* A walk that comes to the struct of the name it has looked up.
LEMMA DescendPath ==
    ASSUME Core, Core', PathInv, Steady, NEW t \in Tasks, NEW s \in InodeSlots,
           frame[t].pc = "walk", frame[t].at < Len(frame[t].path),
           Found(frame[t]).err = "ok", Descend(t, s), held' = held,
           inode'[s].fs = inode[frame[t].curr].fs,
           inode'[s].name = tar_lookup_by_index(Mounts[inode[frame[t].curr].fs].archive,
                                                Found(frame[t]).i_num).name
    PROVE  PathOK(t)'
<1>. DEFINE f == frame[t]
            m == best_mnt(f.path)
            n == Len(Mounts[m].path)
            k == f.at - n
            rel == Below(m, f.path)
            full == Prefix(rel, k + 1)
            a == Mounts[m].archive
<1>1. PathOK(t)
  BY DEF PathInv
<1>2. AtName(t)
  BY <1>1 DEF PathOK
<1>3. /\ m # 0 /\ k \in Nat /\ k < Len(rel)
      /\ full \in Seq(STRING) /\ Len(full) = k + 1
      /\ Found(f) = tar_lookup(a, full)
      /\ k + 1 <= NameMax /\ Exists(m, rel, k + 1)
  BY <1>2, FoundNext
<1>4. inode[f.curr].fs = m /\ \A j \in 1 .. k : j <= NameMax /\ Exists(m, rel, j)
  BY <1>2 DEF AtName
<1>5. /\ StepOf(t) /\ frame'[t].path = f.path /\ frame'[t].at = f.at + 1
      /\ frame'[t].curr = s /\ frame'[t].err = "ok" /\ frame'[t].pc # "done"
  BY DescendFrame
<1>6. f.path \in Seq(STRING) /\ f.at \in Nat
  <2>1. f \in Frame
    BY CoreParts
  <2>. QED BY <2>1, FrameFields
<1>7. Found(f) = tar_lookup(a, full) /\ Found(f).err = "ok"
      /\ inode'[s].fs = m /\ inode'[s].name = tar_lookup_by_index(a, Found(f).i_num).name
  BY <1>3, <1>4
<1>. HIDE DEF f, m
<1>8. a \in Seq(Entry) /\ n \in Nat /\ rel \in Seq(STRING)
  BY <1>3, <1>6, MountRest DEF m
<1>. HIDE DEF n, rel, a
<1>9. (f.at + 1) - n = k + 1 /\ k + 1 \in 0 .. Len(rel)
  BY <1>3, <1>6, <1>8
<1>. HIDE DEF k
<1>10. \A j \in 1 .. k + 1 : j <= NameMax /\ Exists(m, rel, j)
  <2>1. \A j \in 1 .. k + 1 : j \in 1 .. k \/ j = k + 1
    BY <1>3
  <2>. QED BY <1>3, <1>4, <2>1
<1>. HIDE DEF full
<1>11. inode'[s].name = full
  <2>1. Len(full) >= 1
    BY <1>3
  <2>. QED BY <1>3, <1>7, <1>8, <2>1, RoundTrip
<1>12. AtName(t)'
  <2>1. /\ frame'[t].path = f.path /\ frame'[t].curr = s
        /\ frame'[t].at - n = k + 1
    <3>1. frame'[t].path = f.path /\ frame'[t].curr = s /\ frame'[t].at = f.at + 1
      BY <1>5
    <3>. QED BY <1>9, <3>1, Zenon
  <2>2. inode'[s].name = Prefix(rel, k + 1)
    BY <1>11 DEF full
  <2>. QED BY <1>3, <1>7, <1>9, <1>10, <2>1, <2>2 DEF AtName, m, n, rel
<1>13. HeldOK(t)'
  BY <1>1, HeldKept
<1>. QED BY <1>5, <1>12, <1>13 DEF PathOK

\* A struct found by its number has the name that was looked up.
LEMMA WalkCachedPath ==
    ASSUME Core, Core', PathInv, NEW t \in Tasks, walk_cached(t)
    PROVE  PathInv'
<1>. DEFINE num == Found(frame[t]).i_num
            fs == inode[frame[t].curr].fs
            s == Cached(frame[t])
<1>1. /\ frame[t].pc = "walk" /\ frame[t].at < Len(frame[t].path)
      /\ Found(frame[t]).err = "ok" /\ s # NULL
  BY DEF walk_cached, At
<1>2. fs \in FileSystems /\ num \in Numbers /\ num # ROOT
  BY <1>1, FoundFacts
<1>3. /\ s \in inode_used /\ inode[s].fs = fs /\ inode[s].i_num = num /\ s \in InodeSlots
  <2>1. s = table[fs][num]
    BY DEF Cached
  <2>. HIDE DEF s, num, fs
  <2>2. s \in inode_used /\ inode[s].fs = fs /\ inode[s].i_num = num
    BY <1>1, <1>2, <2>1 DEF Core, Tables, TableExact
  <2>. QED BY <2>2 DEF Core, Types
<1>4. CASE UNCHANGED <<inode, inode_used, frame, held>>
  BY <1>4, PathSame
<1>5. CASE /\ inode' = [inode EXCEPT ![s].i_rc = @ + 1]
           /\ Descend(t, s)
           /\ UNCHANGED <<inode_used, held, files>>
  <2>0. UNCHANGED <<inode_used, held, files>> /\ Descend(t, s)
    BY <1>5
  <2>1. inode[s] \in Inode
    BY <1>3 DEF Core, Types
  <2>. DEFINE j == [inode[s] EXCEPT !.i_rc = @ + 1]
  <2>2. j \in Inode /\ Alike(inode[s], j) /\ j.name = inode[s].name /\ j.fs = inode[s].fs
    <3>1. inode[s].i_rc + 1 \in Nat
      BY <2>1, InodeFields
    <3>. QED BY <2>1, <3>1 DEF Inode, Alike
  <2>3. inode' = [inode EXCEPT ![s] = j]
    BY <1>5
  <2>. HIDE DEF j
  <2>4. Steady /\ inode'[s] = j
    <3>1. Types
      BY DEF Core
    <3>. QED BY <1>3, <2>2, <2>3, <3>1, OneInode
  <2>5. inode[s].name = tar_lookup_by_index(Mounts[fs].archive, num).name
    <3>. HIDE DEF num, fs, s
    <3>. QED BY <1>2, <1>3 DEF PathInv, NameOK, IsRoot
  <2>6. PathOK(t)'
    BY <1>1, <1>3, <2>0, <2>2, <2>4, <2>5, DescendPath
  <2>7. StepOf(t) /\ OwnRefs(t)
    BY <1>1, <1>3, <2>0, DescendFrame DEF OwnRefs
  <2>. QED BY <2>0, <2>4, <2>6, <2>7, PathStep
<1>. QED BY <1>4, <1>5 DEF walk_cached, take_ref_fails, kassert_fails

\* A loaded struct has the name that was looked up.
LEMMA WalkLoadPath ==
    ASSUME Core, Core', PathInv, NEW t \in Tasks, walk_load(t)
    PROVE  PathInv'
<1>. DEFINE c == frame[t].curr
            fs == inode[c].fs
            num == Found(frame[t]).i_num
<1>1. /\ frame[t].pc = "walk" /\ frame[t].at < Len(frame[t].path)
      /\ Found(frame[t]).err = "ok" /\ InodeSlots # inode_used
  BY DEF walk_load, At
<1>2. fs \in FileSystems /\ num \in Numbers /\ num # ROOT
      /\ c \in inode_used /\ c \in InodeSlots
  BY <1>1, FoundFacts
<1>3. /\ inode \in [InodeSlots -> Inode] /\ inode_used \in SUBSET InodeSlots
      /\ initial_rc \in Nat
  BY DEF Core, Types
<1>4. PICK s \in InodeSlots \ inode_used : s = find_bit(InodeSlots \ inode_used)
  <2>1. InodeSlots \ inode_used \in SUBSET Nat /\ InodeSlots \ inode_used # {}
    BY <1>1, <1>3, SlotsAssumption
  <2>. QED BY <2>1, FindBit
<1>5. CASE take_ref_fails(c)
  BY <1>5, PathSame DEF take_ref_fails, kassert_fails
<1>6. CASE /\ new_inode(s, fs, num, c)
           /\ inode_used' = inode_used \cup {s}
           /\ Descend(t, s)
           /\ UNCHANGED <<held, files>>
  <2>. DEFINE N == Loaded(fs, num, initial_rc, c)
              j == [inode[c] EXCEPT !.i_rc = @ + 1]
  <2>1. /\ N \in Inode /\ N.fs = fs /\ N.i_num = num
        /\ N.name = tar_lookup_by_index(Mounts[fs].archive, num).name
    <3>1. initial_rc \in Nat
      BY <1>3
    <3>. HIDE DEF fs, num, c
    <3>2. /\ Loaded(fs, num, initial_rc, c) \in Inode
          /\ Loaded(fs, num, initial_rc, c).fs = fs
          /\ Loaded(fs, num, initial_rc, c).i_num = num
      BY <1>2, <3>1, NewInode
    <3>3. Loaded(fs, num, initial_rc, c).name
            = tar_lookup_by_index(Mounts[fs].archive, num).name
      BY <1>2, <3>1, NewInode
    <3>. QED BY <3>2, <3>3
  <2>2. Alike(inode[c], j)
    <3>1. inode[c] \in Inode
      BY <1>2, <1>3
    <3>. QED BY <3>1 DEF Inode, Alike
  <2>3. inode' = [inode EXCEPT ![c].i_rc = @ + 1, ![s] = N]
    BY <1>6 DEF new_inode, Loaded
  <2>4. inode' = [inode EXCEPT ![c] = j, ![s] = N]
    BY <2>3
  <2>5. /\ inode_used' = inode_used \cup {s} /\ Descend(t, s) /\ UNCHANGED <<held, files>>
    BY <1>6
  <2>. HIDE DEF N, j
  <2>6. /\ inode'[s] = N /\ inode'[c] = j
        /\ \A o \in InodeSlots : o # s /\ o # c => inode'[o] = inode[o]
    BY <1>2, <1>3, <2>4
  <2>7. Steady
    <3>1. \A o \in inode_used : Alike(inode[o], inode'[o])
      <4>. HIDE DEF c
      <4>. QED BY <1>3, <2>2, <2>6 DEF Alike
    <3>. QED BY <3>1 DEF Steady, Alike
  <2>8. PathOK(t)'
    BY <1>1, <2>1, <2>5, <2>6, <2>7, DescendPath
  <2>9. StepOf(t)
    BY <1>1, <2>5, DescendFrame
  <2>10. NameOK(s)'
    <3>1. inode'[s].i_num # ROOT /\ inode'[s].fs = fs /\ inode'[s].i_num = num
          /\ inode'[s].name = tar_lookup_by_index(Mounts[fs].archive, num).name
      BY <1>2, <2>1, <2>6
    <3>. HIDE DEF fs, num
    <3>. QED BY <3>1 DEF NameOK, IsRoot
  <2>11. \A o \in inode_used' : NameOK(o)'
    <3>1. \A o \in inode_used \cap inode_used' : NameOK(o)'
      BY <2>7, NamesKept
    <3>2. \A o \in inode_used' : o = s \/ o \in inode_used \cap inode_used'
      BY <2>5
    <3>. QED BY <2>10, <3>1, <3>2
  <2>12. ASSUME NEW u \in Tasks, u # t PROVE PathOK(u)'
    <3>1. PathOK(u) /\ frame'[u] = frame[u] /\ held'[u] = held[u]
      BY <2>5, <2>9, <2>12 DEF PathInv, StepOf
    <3>. QED BY <2>7, <3>1, PathGoesOn
  <2>. QED BY <2>8, <2>11, <2>12 DEF PathInv
<1>. QED BY <1>4, <1>5, <1>6 DEF walk_load

\* At the end of its path a walk is on what the path names.
LEMMA ArrivedNames ==
    ASSUME Core, NEW t \in Tasks, AtName(t), frame[t].at = Len(frame[t].path)
    PROVE  Names(frame[t].curr, frame[t].path)
<1>. DEFINE c == frame[t].curr
            p == frame[t].path
            m == best_mnt(p)
            rel == Below(m, p)
<1>0. p \in Seq(STRING)
  <2>1. frame[t] \in Frame
    BY CoreParts
  <2>. QED BY <2>1, FrameFields
<1>1. m # 0 /\ inode[c].fs = m
      /\ inode[c].name = Prefix(rel, Len(p) - Len(Mounts[m].path))
  BY DEF AtName
<1>. HIDE DEF m, p
<1>2. /\ Home(p) = m /\ rel \in Seq(STRING)
      /\ Len(rel) = Len(p) - Len(Mounts[m].path) /\ Mounts[m].path \o rel = p
  BY <1>0, <1>1, MountRest DEF m
<1>3. Prefix(rel, Len(rel)) = rel
  BY <1>2, Whole
<1>4. Names(c, p)
  BY <1>1, <1>2, <1>3 DEF Names
<1>. QED BY <1>4 DEF p

\* The caller keeps what its path names.
LEMMA ReturnedPath ==
    ASSUME Core, Core', PathInv, NEW t \in Tasks, returned(t)
    PROVE  PathInv'
<1>1. /\ frame[t].pc = "done" /\ Goto(t, Running)
      /\ UNCHANGED <<inode, inode_used, files>>
      /\ \/ UNCHANGED held
         \/ /\ frame[t].err = "ok"
            /\ \E v \in Kept : held' = [held EXCEPT ![t][v] =
                        [inode |-> frame[t].curr, path |-> frame[t].path]]
  BY DEF returned, At
<1>2. StepOf(t) /\ frame'[t] = Running
  BY <1>1, GoesPath
<1>3. Steady /\ PathOK(t)
  BY <1>1 DEF Steady, PathInv
<1>4. held \in [Tasks -> [Kept -> {Nothing} \cup [inode : InodeSlots, path : Paths]]]
  BY DEF Core, Types
<1>5. CASE UNCHANGED held
  <2>1. PathOK(t)'
    BY <1>2, <1>3, <1>5, RunningFrame, PathIdle
  <2>. QED BY <1>1, <1>2, <1>5, <2>1, PathFrame
<1>6. ASSUME frame[t].err = "ok", NEW v \in Kept,
             held' = [held EXCEPT ![t][v] =
                        [inode |-> frame[t].curr, path |-> frame[t].path]]
      PROVE  PathInv'
  <2>. DEFINE c == frame[t].curr
              p == frame[t].path
              new == [inode |-> c, path |-> p]
  <2>1. AtName(t) /\ frame[t].at = Len(p)
    BY <1>1, <1>3, <1>6 DEF PathOK
  <2>3. Names(c, p)
    BY <2>1, ArrivedNames
  <2>4. /\ held'[t][v] = new /\ \A w \in Kept : w # v => held'[t][w] = held[t][w]
        /\ \A u \in Tasks : u # t => held'[u] = held[u]
    <3>. HIDE DEF c, p
    <3>1. held' = [held EXCEPT ![t][v] = new]
      BY <1>6 DEF c, p
    <3>. HIDE DEF new
    <3>. QED BY <1>4, <3>1
  <2>5. OwnRefs(t)
    BY <1>1, <2>4 DEF OwnRefs
  <2>6. HeldOK(t)'
    <3>1. Names(new.inode, new.path)
      BY <2>3
    <3>. HIDE DEF new
    <3>2. HeldOK(t)
      BY <1>3 DEF PathOK
    <3>. QED BY <1>1, <2>4, <3>1, <3>2 DEF HeldOK, Names
  <2>7. PathOK(t)'
    BY <1>2, <2>6, RunningFrame DEF PathOK
  <2>. QED BY <1>1, <1>2, <1>3, <2>5, <2>7, PathStep
<1>. QED BY <1>1, <1>5, <1>6

\* The caller forgets an inode.
LEMMA ReleasePath ==
    ASSUME Core, Core', PathInv, NEW t \in Tasks, release(t)
    PROVE  PathInv'
<1>1. PICK v \in Kept :
        /\ held' = [held EXCEPT ![t][v] = Nothing]
        /\ Goto(t, [Running EXCEPT !.pc = "release", !.obj = held[t][v].inode])
        /\ UNCHANGED <<inode, inode_used, files>>
  BY DEF release
<1>. DEFINE g == [Running EXCEPT !.pc = "release", !.obj = held[t][v].inode]
<1>2. g.pc = "release" /\ g.ret = "run" /\ g.err = "ok"
  BY DEF Running
<1>3. StepOf(t) /\ frame'[t] = g
  BY <1>1, GoesPath
<1>. HIDE DEF g
<1>4. /\ \A w \in Kept : held'[t][w].inode # NULL => held'[t][w] = held[t][w]
      /\ \A u \in Tasks : u # t => held'[u] = held[u]
  <2>1. held \in [Tasks -> [Kept -> {Nothing} \cup [inode : InodeSlots, path : Paths]]]
    BY DEF Core, Types
  <2>2. Nothing.inode = NULL
    BY DEF Nothing
  <2>. QED BY <1>1, <2>1, <2>2
<1>5. Steady /\ PathOK(t) /\ OwnRefs(t)
  BY <1>1, <1>4 DEF Steady, PathInv, OwnRefs
<1>6. PathOK(t)'
  BY <1>2, <1>3, <1>4, <1>5, PathIdle
<1>. QED BY <1>1, <1>3, <1>5, <1>6, PathStep

\* open leaves names alone.
LEMMA OpenPath ==
    ASSUME Core, Core', PathInv, NEW t \in Tasks, open(t)
    PROVE  PathInv'
<1>1. PICK v \in Kept :
        /\ Goto(t, [Running EXCEPT !.pc = "open", !.obj = held[t][v].inode,
                        !.file = find_bit(FileSlots \ file_used)])
        /\ UNCHANGED <<inode, inode_used, held, files>>
  BY DEF open
<1>. DEFINE g == [Running EXCEPT !.pc = "open", !.obj = held[t][v].inode,
                        !.file = find_bit(FileSlots \ file_used)]
<1>2. g.pc = "open" /\ g.ret = "run" /\ g.err = "ok"
  BY DEF Running
<1>3. StepOf(t) /\ frame'[t] = g
  BY <1>1, GoesPath
<1>. HIDE DEF g
<1>4. Steady /\ PathOK(t)
  BY <1>1 DEF Steady, PathInv
<1>5. PathOK(t)'
  BY <1>1, <1>2, <1>3, <1>4, PathIdle
<1>. QED BY <1>1, <1>3, <1>5, PathFrame

\* So does close.
LEMMA ClosePath ==
    ASSUME Core, Core', PathInv, NEW t \in Tasks, close(t)
    PROVE  PathInv'
<1>1. CASE UNCHANGED <<inode, inode_used, frame, held>>
  BY <1>1, PathSame
<1>2. ASSUME NEW f \in files[t],
             files' = [files EXCEPT ![t] = @ \ {f}],
             Goto(t, IF file[f].rc # 1 THEN Running
                     ELSE [Running EXCEPT !.pc = "release", !.file = f,
                                          !.obj = file[f].owner_inode]),
             UNCHANGED <<inode, inode_used, held>>
      PROVE  PathInv'
  <2>. DEFINE g == IF file[f].rc # 1 THEN Running
                   ELSE [Running EXCEPT !.pc = "release", !.file = f,
                                        !.obj = file[f].owner_inode]
  <2>1. g.pc \in {"run", "release"} /\ g.ret = "run" /\ g.err = "ok"
    BY DEF Running
  <2>2. Goto(t, g)
    BY <1>2
  <2>. HIDE DEF g
  <2>3. StepOf(t) /\ frame'[t] = g
    BY <2>2, GoesPath
  <2>4. \A u \in Tasks : u # t => files'[u] = files[u]
    BY <1>2 DEF Core, Types
  <2>5. Steady /\ PathOK(t) /\ OwnRefs(t)
    BY <1>2, <2>4 DEF Steady, PathInv, OwnRefs
  <2>6. PathOK(t)'
    BY <1>2, <2>1, <2>3, <2>5, PathIdle
  <2>. QED BY <1>2, <2>3, <2>5, <2>6, PathStep
<1>. QED BY <1>1, <1>2 DEF close, kassert_fails

\* The steps of a release, which leave what the walk has come to alone.
LEMMA ReleasingPath ==
    ASSUME Core, Core', PathInv, NEW t \in Tasks, Steady, StepOf(t), OwnRefs(t),
           UNCHANGED <<inode_used, held>>, frame'[t].pc \notin {"walk", "done"},
           frame'[t].path = frame[t].path, frame'[t].at = frame[t].at,
           frame'[t].curr = frame[t].curr, frame'[t].err = frame[t].err,
           frame'[t].ret = frame[t].ret
    PROVE  PathInv'
<1>1. PathOK(t)
  BY DEF PathInv
<1>2. PathOK(t)'
  BY <1>1, PathGoesOn
<1>. QED BY <1>2, PathStep

\* lock of release.
LEMMA ReleaseLockPath ==
    ASSUME Core, Core', PathInv, NEW t \in Tasks, release_lock(t)
    PROVE  PathInv'
<1>1. CASE UNCHANGED <<inode, inode_used, frame, held>>
  BY <1>1, PathSame
<1>2. CASE /\ inode' = [inode EXCEPT ![frame[t].obj] = locked(@, t)]
           /\ Goto(t, [frame[t] EXCEPT !.pc = "locked"])
           /\ UNCHANGED <<inode_used, held, files>>
  <2>. DEFINE g == [frame[t] EXCEPT !.pc = "locked"]
  <2>0. /\ frame[t] \in Frame /\ frame[t].pc = "release" /\ LiveOK(t)
        /\ inode_used \in SUBSET InodeSlots /\ Types /\ Mutexes
    BY CoreParts DEF release_lock, At, Types
  <2>1. /\ g.pc = "locked" /\ g.path = frame[t].path /\ g.at = frame[t].at
        /\ g.curr = frame[t].curr /\ g.err = frame[t].err /\ g.ret = frame[t].ret
        /\ g.obj = frame[t].obj
    BY <2>0 DEF Frame
  <2>2. Goto(t, g)
    BY <1>2
  <2>. HIDE DEF g
  <2>3. StepOf(t) /\ frame'[t] = g /\ OwnRefs(t)
    BY <1>2, <2>2, GoesPath DEF OwnRefs
  <2>4. frame[t].obj \in InodeSlots
    BY <2>0 DEF LiveOK
  <2>5. Steady
    BY <1>2, <2>0, <2>1, <2>3, <2>4, LockMutex
  <2>. QED BY <1>2, <2>1, <2>3, <2>5, ReleasingPath
<1>. QED BY <1>1, <1>2 DEF release_lock, kassert_fails

\* lock of open.
LEMMA OpenTakePath ==
    ASSUME Core, Core', PathInv, NEW t \in Tasks, open_take(t)
    PROVE  PathInv'
<1>. DEFINE g == [frame[t] EXCEPT !.pc = "open_locked"]
<1>0. /\ frame[t] \in Frame /\ frame[t].pc = "open" /\ LiveOK(t)
      /\ inode_used \in SUBSET InodeSlots /\ Types /\ Mutexes
  BY CoreParts DEF open_take, At, Types
<1>1. /\ inode' = [inode EXCEPT ![frame[t].obj] = locked(@, t)]
      /\ Goto(t, g) /\ UNCHANGED <<inode_used, held, files>>
  BY DEF open_take
<1>2. /\ g.pc = "open_locked" /\ g.path = frame[t].path /\ g.at = frame[t].at
      /\ g.curr = frame[t].curr /\ g.err = frame[t].err /\ g.ret = frame[t].ret
      /\ g.obj = frame[t].obj
  BY <1>0 DEF Frame
<1>. HIDE DEF g
<1>3. StepOf(t) /\ frame'[t] = g /\ OwnRefs(t)
  BY <1>1, GoesPath DEF OwnRefs
<1>4. frame[t].obj \in InodeSlots
  BY <1>0 DEF LiveOK, Opening
<1>5. Steady
  BY <1>0, <1>1, <1>2, <1>3, <1>4, LockMutex
<1>. QED BY <1>1, <1>2, <1>3, <1>5, ReleasingPath

\* unlock of release.
LEMMA ReleaseRefPath ==
    ASSUME Core, Core', PathInv, NEW t \in Tasks, release_ref_locked(t)
    PROVE  PathInv'
<1>. DEFINE s == frame[t].obj
            n == inode[s].i_rc - 1
            g == [frame[t] EXCEPT !.pc = IF inode[s].i_rc = 1 THEN "zero" ELSE "unwind"]
<1>0. /\ frame[t] \in Frame /\ frame[t].pc = "locked" /\ LiveOK(t)
      /\ inode_used \in SUBSET InodeSlots /\ Types /\ Mutexes /\ inode[s].owner = t
  BY CoreParts DEF release_ref_locked, At, Types
<1>1. s \in InodeSlots
  BY <1>0 DEF LiveOK
<1>2. inode[s].i_rc \in Nat
  <2>1. inode[s] \in Inode
    BY <1>0, <1>1 DEF Types
  <2>. QED BY <2>1, InodeFields
<1>3. CASE UNCHANGED <<inode, inode_used, frame, held>>
  BY <1>3, PathSame
<1>4. CASE /\ ~ (inode[s].i_rc <= 0)
           /\ inode' = [inode EXCEPT ![s] = [unlocked(inode[s]) EXCEPT !.i_rc = n]]
           /\ Goto(t, g)
           /\ UNCHANGED <<inode_used, held, files>>
  <2>1. n \in Nat
    BY <1>2, <1>4
  <2>2. /\ g.pc \in {"zero", "unwind"} /\ g.path = frame[t].path /\ g.at = frame[t].at
        /\ g.curr = frame[t].curr /\ g.err = frame[t].err /\ g.ret = frame[t].ret
    BY <1>0 DEF Frame
  <2>. HIDE DEF g, n
  <2>3. StepOf(t) /\ frame'[t] = g /\ OwnRefs(t)
    BY <1>4, GoesPath DEF OwnRefs
  <2>4. Steady
    BY <1>0, <1>1, <1>4, <2>1, <2>3, UnlockMutex
  <2>. QED BY <1>4, <2>2, <2>3, <2>4, ReleasingPath
<1>. QED BY <1>3, <1>4 DEF release_ref_locked, kassert_fails

\* unlock of open.
LEMMA OpenRefPath ==
    ASSUME Core, Core', PathInv, NEW t \in Tasks, open_ref(t)
    PROVE  PathInv'
<1>. DEFINE s == frame[t].obj
            n == inode[s].i_rc + 1
<1>0. /\ frame[t] \in Frame /\ frame[t].pc = "open_locked" /\ LiveOK(t)
      /\ inode_used \in SUBSET InodeSlots /\ Types /\ Mutexes /\ inode[s].owner = t
  BY CoreParts DEF open_ref, At, Types
<1>1. s \in InodeSlots
  BY <1>0 DEF LiveOK, Opening
<1>2. n \in Nat
  <2>1. inode[s] \in Inode
    BY <1>0, <1>1 DEF Types
  <2>. QED BY <2>1, InodeFields
<1>3. CASE UNCHANGED <<inode, inode_used, frame, held>>
  BY <1>3, PathSame
<1>4. CASE /\ inode' = [inode EXCEPT ![s] = [unlocked(inode[s]) EXCEPT !.i_rc = n]]
           /\ files' = [files EXCEPT ![t] = @ \cup {frame[t].file}]
           /\ Goto(t, Running)
           /\ UNCHANGED <<inode_used, held>>
  <2>1. \A u \in Tasks : u # t => files'[u] = files[u]
    BY <1>0, <1>4 DEF Types
  <2>. HIDE DEF n
  <2>2. StepOf(t) /\ frame'[t] = Running /\ OwnRefs(t)
    BY <1>4, <2>1, GoesPath DEF OwnRefs
  <2>3. Steady
    BY <1>0, <1>1, <1>2, <1>4, <2>2, UnlockMutex
  <2>4. PathOK(t)
    BY DEF PathInv
  <2>5. PathOK(t)'
    BY <1>4, <2>2, <2>3, <2>4, RunningFrame, PathIdle
  <2>. QED BY <1>4, <2>2, <2>3, <2>5, PathStep
<1>. QED BY <1>3, <1>4 DEF open_ref, kassert_fails

\* The destructor begins.
LEMMA ReleaseRemovePath ==
    ASSUME Core, Core', PathInv, NEW t \in Tasks, release_remove(t)
    PROVE  PathInv'
<1>. DEFINE s == frame[t].obj
            f == [frame[t] EXCEPT !.dying = @ \cup {s}]
            p == inode[s].i_parent_ref
            g == IF p = NULL THEN [f EXCEPT !.pc = "unwind"]
                 ELSE [f EXCEPT !.pc = "release", !.obj = p]
<1>0. frame[t] \in Frame
  BY CoreParts
<1>1. Goto(t, g) /\ UNCHANGED <<inode, inode_used, held, files>>
  BY DEF release_remove
<1>2. /\ g.pc \in {"unwind", "release"} /\ g.path = frame[t].path /\ g.at = frame[t].at
      /\ g.curr = frame[t].curr /\ g.err = frame[t].err /\ g.ret = frame[t].ret
  <2>. HIDE DEF p
  <2>. QED BY <1>0 DEF Frame
<1>. HIDE DEF g
<1>3. StepOf(t) /\ frame'[t] = g
  BY <1>1, GoesPath
<1>4. Steady /\ OwnRefs(t)
  BY <1>1 DEF Steady, OwnRefs
<1>. QED BY <1>1, <1>2, <1>3, <1>4, ReleasingPath

\* Structs are freed, and a walk goes on.
LEMMA UnwindPath ==
    ASSUME Core, Core', PathInv, NEW t \in Tasks, unwind(t)
    PROVE  PathInv'
<1>. DEFINE f == frame[t]
            g == IF f.ret = "run" THEN Running
                 ELSE [f EXCEPT !.pc = f.ret, !.obj = NULL, !.ret = "run", !.dying = {}]
<1>0. f \in Frame /\ f.pc = "unwind" /\ FrameOK(t) /\ PathOK(t)
  BY CoreParts DEF unwind, At, PathInv
<1>1. CASE UNCHANGED <<inode, inode_used, frame, held>>
  BY <1>1, PathSame
<1>2. CASE Give_back(f.dying) /\ Goto(t, g) /\ UNCHANGED <<held, files>>
  <2>1. StepOf(t) /\ frame'[t] = g /\ OwnRefs(t)
    BY <1>2, GoesPath DEF OwnRefs
  <2>2. Steady /\ inode_used' \subseteq inode_used
    <3>1. inode_used \in SUBSET InodeSlots
      BY DEF Core, Types
    <3>2. inode_used' = inode_used \ f.dying
          /\ inode' = [s \in InodeSlots |-> IF s \in f.dying THEN Blank ELSE inode[s]]
      BY <1>2 DEF Give_back
    <3>. QED BY <3>1, <3>2 DEF Steady
  <2>3. PathOK(t)'
    <3>1. CASE f.ret = "run"
      <4>1. frame'[t] = Running
        BY <2>1, <3>1
      <4>. QED BY <1>0, <1>2, <2>2, <4>1, RunningFrame, PathIdle
    <3>2. CASE f.ret # "run"
      <4>1. /\ g.path = f.path /\ g.at = f.at /\ g.curr = f.curr /\ g.err = f.err
            /\ g.pc = f.ret /\ g.ret = "run"
        BY <1>0, <3>2 DEF Frame
      <4>2. f.ret = "done" => f.err # "ok"
        BY <1>0 DEF FrameOK, Releasing
      <4>. HIDE DEF g
      <4>. QED BY <1>0, <1>2, <2>1, <2>2, <4>1, <4>2, PathGoesOn
    <3>. QED BY <3>1, <3>2
  <2>. QED BY <2>1, <2>2, <2>3, PathStep
<1>. QED BY <1>1, <1>2 DEF unwind, kassert_fails

\* After boot there are roots only.
LEMMA InitPath ==
    ASSUME Init
    PROVE  PathInv
<1>1. ASSUME NEW s \in inode_used PROVE NameOK(s)
  <2>1. /\ s \in FileSystems /\ s \in InodeSlots
        /\ inode[s] = [Blank EXCEPT !.fs = s, !.i_num = ROOT, !.i_rc = initial_rc]
    BY MountFacts DEF Init, mount
  <2>2. inode[s].i_num = ROOT /\ inode[s].name = <<>>
    BY <2>1 DEF Blank
  <2>. QED BY <2>2 DEF NameOK, IsRoot
<1>2. ASSUME NEW t \in Tasks PROVE PathOK(t)
  <2>1. frame[t] = Running /\ \A v \in Kept : held[t][v] = Nothing
    BY DEF Init
  <2>2. Nothing.inode = NULL
    BY DEF Nothing
  <2>. QED BY <2>1, <2>2, RunningFrame DEF PathOK, HeldOK
<1>. QED BY <1>1, <1>2 DEF PathInv

\* What paths name is an invariant, next to Core.
LEMMA StepPath ==
    ASSUME Core, Core', PathInv, [Next]_vars
    PROVE  PathInv'
<1>1. ASSUME UNCHANGED vars PROVE PathInv'
  BY <1>1, PathSame DEF vars
<1>2. ASSUME NEW t \in Tasks,
             \/ traverse(t) \/ release(t) \/ open(t) \/ read(t) \/ close(t)
             \/ Continue(t)
      PROVE  PathInv'
  <2>1. CASE traverse(t)
    BY <2>1, TraversePath
  <2>2. CASE release(t)
    BY <2>2, ReleasePath
  <2>3. CASE open(t)
    BY <2>3, OpenPath
  <2>4. CASE read(t)
    BY <2>4, PathSame DEF read
  <2>5. CASE close(t)
    BY <2>5, ClosePath
  <2>6. CASE walk_end(t)
    BY <2>6, WalkEndPath
  <2>7. CASE walk_fail(t)
    BY <2>7, WalkFailPath
  <2>8. CASE walk_cached(t)
    BY <2>8, WalkCachedPath
  <2>9. CASE walk_load(t)
    BY <2>9, WalkLoadPath
  <2>10. CASE returned(t)
    BY <2>10, ReturnedPath
  <2>11. CASE release_lock(t)
    BY <2>11, ReleaseLockPath
  <2>12. CASE release_ref_locked(t)
    BY <2>12, ReleaseRefPath
  <2>13. CASE release_remove(t)
    BY <2>13, ReleaseRemovePath
  <2>14. CASE unwind(t)
    BY <2>14, UnwindPath
  <2>15. CASE open_take(t)
    BY <2>15, OpenTakePath
  <2>16. CASE open_ref(t)
    BY <2>16, OpenRefPath
  <2>. QED BY <1>2, <2>1, <2>2, <2>3, <2>4, <2>5, <2>6, <2>7, <2>8, <2>9, <2>10, <2>11,
              <2>12, <2>13, <2>14, <2>15, <2>16 DEF Continue
<1>. QED BY <1>1, <1>2 DEF Next, Halt

\* traverse (vfs.cpp) returns the inode that the path names or the error of
\* its first bad prefix, and an inode stays the file it was as long as it is
\* held.
THEOREM VfsTraverse ==
    ASSUME OneOpener, BelowMounts
    PROVE  Spec => []TraverseExact
<1>1. Init => PathInv
  BY InitPath
<1>2. VfsInv /\ VfsInv' /\ PathInv /\ [Next]_vars => PathInv'
  BY StepPath DEF VfsInv
<1>3. VfsInv /\ PathInv => TraverseExact
  <2>. SUFFICES ASSUME VfsInv, PathInv, NEW t \in Tasks
                PROVE  /\ \A v \in Kept : held[t][v].inode # NULL =>
                            Names(held[t][v].inode, held[t][v].path)
                       /\ frame[t].pc = "done" =>
                            /\ frame[t].err = Expected(frame[t].path)
                            /\ frame[t].err = "ok" => Names(frame[t].curr, frame[t].path)
    BY DEF TraverseExact
  <2>0. Core /\ PathOK(t)
    BY DEF VfsInv, PathInv
  <2>1. \A v \in Kept : held[t][v].inode # NULL =>
            Names(held[t][v].inode, held[t][v].path)
    BY <2>0 DEF PathOK, HeldOK
  <2>2. CASE frame[t].pc = "done" /\ frame[t].err # "ok"
    BY <2>0, <2>1, <2>2 DEF PathOK
  <2>3. CASE frame[t].pc = "done" /\ frame[t].err = "ok"
    <3>. DEFINE p == frame[t].path
                m == best_mnt(p)
                k == Len(p) - Len(Mounts[m].path)
    <3>1. AtName(t) /\ frame[t].at = Len(p)
      BY <2>0, <2>3 DEF PathOK
    <3>2. p \in Seq(STRING)
      <4>1. frame[t] \in Frame
        BY <2>0, CoreParts
      <4>. QED BY <4>1, FrameFields
    <3>3. m # 0 /\ Good(m, p, k)
      BY <3>1 DEF AtName, Good
    <3>. HIDE DEF m
    <3>4. k = Len(Below(m, p))
      BY <3>2, <3>3, MountRest DEF m
    <3>5. Expected(p) = "ok"
      BY <3>2, <3>3, <3>4, ExpectedIs DEF m
    <3>6. Names(frame[t].curr, p)
      BY <2>0, <2>3, <3>1, ArrivedNames
    <3>. QED BY <2>1, <2>3, <3>5, <3>6
  <2>. QED BY <2>1, <2>2, <2>3
<1>. QED BY <1>1, <1>2, <1>3, VfsInvariant, PTL DEF Spec
=============================================================================
