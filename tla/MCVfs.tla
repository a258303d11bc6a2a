-------------------------------- MODULE MCVfs --------------------------------
(* A file system at /m whose a/b is hidden by another one mounted at /m/a.  *)
EXTENDS Vfs

File(name, size) == [name |-> name, dir |-> FALSE, size |-> size]

Directory(name) == [name |-> name, dir |-> TRUE, size |-> 0]

TwoMounts ==
    << [path |-> <<"m">>,
        archive |-> <<File(<<"a", "b">>, 1), File(<<"c">>, 1)>>],
       [path |-> <<"m", "a">>,
        archive |-> <<Directory(<<"d">>), File(<<"d", "e">>, 3)>>] >>

SomePaths == { <<"z">>, <<"m", "c">>, <<"m", "a", "b">>, <<"m", "a", "d">>,
               <<"m", "a", "d", "e">>, <<"m", "a", "d", "e", "x">> }

ASSUME UsersAssumption == OneOpener /\ BelowMounts

\* i_rc of a struct in a page that buddy_alloc has filled with 0x41: the
\* constructor does not set it.
GarbageRc == {1094795585}

\* The same, and the one reference that get_inode_struct expects.
SomeRcs == GarbageRc \cup {1}
=============================================================================
