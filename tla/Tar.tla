--------------------------------- MODULE Tar ---------------------------------
(***************************************************************************)
(* The read-only tar archive behind the initrd (kernel/fs/tar.cpp).  A     *)
(* name is a sequence of components, so a name of n components has n - 1   *)
(* slashes, and one more if the entry is a directory, whose name ends with *)
(* a slash.  Every component of every entry has a number: 3 is the first   *)
(* component of the first entry.                                           *)
(***************************************************************************)
EXTENDS Integers, Sequences

CONSTANT NameMax        \* longest name, 99 characters in the source; counted
                        \* in components here

ASSUME NameAssumption == NameMax \in Nat \ {0}

\* An entry of an archive.
Entry == [name : {n \in Seq(STRING) : Len(n) \in 1 .. NameMax},
          dir : BOOLEAN, size : Nat]

Prefix(name, k) == SubSeq(name, 1, k)

\* The slashes in the name of an entry.
slashes(entry) == IF entry.dir THEN Len(entry.name) ELSE Len(entry.name) - 1

\* The number of the first component of entry i, as the loop of tar_lookup
\* counts it while it skips the entries before.
Number(archive, i) ==
    LET from[j \in 1 .. i] ==
            IF j = 1 THEN 3 ELSE from[j - 1] + slashes(archive[j - 1]) + 1
    IN  from[i]

\* tar_lookup: the first entry that is filename or is below it.
tar_lookup(archive, filename) ==
    LET n == Len(filename)
        hits == {i \in DOMAIN archive :
                    /\ n <= Len(archive[i].name)
                    /\ Prefix(archive[i].name, n) = filename}
        first == CHOOSE i \in hits : \A j \in hits : i <= j
    IN  IF n > NameMax THEN [err |-> "path_too_long", i_num |-> 0]
        ELSE IF hits = {} THEN [err |-> "no_entry", i_num |-> 0]
        ELSE [err |-> "ok", i_num |-> Number(archive, first) + n - 1]

\* Mutant: this loop does not count the slashes of the entries it skips.
IndexFrom_flat(archive, i) == 2 + i

\* curr_inode of tar_lookup_by_index when its own loop comes to entry i.
IndexFrom(archive, i) ==
    LET curr_inode[j \in 1 .. i] ==
            IF j = 1 THEN 3
            ELSE curr_inode[j - 1] + slashes(archive[j - 1]) + 1
    IN  curr_inode[i]

\* tar_lookup_by_index: the name with number i_num and the size of the entry
\* it is found in.  The number after the last slash of a directory entry
\* belongs to no name.
tar_lookup_by_index(archive, i_num) ==
    LET at(i) == i_num - IndexFrom(archive, i) + 1
        hits == {i \in DOMAIN archive : at(i) \in 1 .. Len(archive[i].name)}
        first == CHOOSE i \in hits : \A j \in hits : i <= j
    IN  IF hits = {} THEN [err |-> "no_entry", name |-> <<>>, len |-> 0]
        ELSE [err |-> "ok", name |-> Prefix(archive[first].name, at(first)),
              len |-> archive[first].size]

\* Mutant: the count is not cut at the end of the file.
tar_read_past(len, count, pos) == IF pos >= len THEN 0 ELSE count

\* tar_read: how many bytes of a file of length len are copied.
tar_read(len, count, pos) ==
    IF pos >= len THEN 0
    ELSE IF pos + count > len THEN len - pos ELSE count
=============================================================================
