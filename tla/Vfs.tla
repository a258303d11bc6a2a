--------------------------------- MODULE Vfs ---------------------------------
(***************************************************************************)
(* The virtual file system (kernel/fs/vfs.cpp, vfs.hpp) over tar archives: *)
(* mount points, the table of inodes in memory, their reference counts,    *)
(* and open files.  traverse runs under a scoped_preemptlock: while it     *)
(* does, walker is its task and nobody else takes a step.  release and     *)
(* open have no such lock, and other tasks run between their steps.  The   *)
(* inode's mutex is the one MutexSpec describes, and the hash table is the *)
(* map of MapSpec.                                                         *)
(***************************************************************************)
EXTENDS Tar, FiniteSets

CONSTANTS
    Tasks,
    Openers,        \* tasks that open files; one in the kernel as it is
    Mounts,         \* sequence of mount points, [path, archive]
    Paths,          \* paths given to traverse, as sequences of components
    Counts,         \* sizes given to read
    InodeSlots,     \* objects of inode_alloc
    FileSlots,      \* objects of file_desc_alloc
    InitialRcs,     \* what i_rc may hold after the constructor, which does not
                    \* set it
    MaxHeld,        \* bound: inodes a task keeps at a time
    NULL

FileSystems == DOMAIN Mounts

ASSUME SlotsAssumption ==
    /\ InodeSlots \subseteq Nat /\ FileSlots \subseteq Nat
    /\ IsFiniteSet(InodeSlots) /\ IsFiniteSet(FileSlots)

ASSUME TasksAssumption ==
    IsFiniteSet(Tasks) /\ Openers \subseteq Tasks /\ MaxHeld \in Nat

\* Archives are what tar writes, no two file systems are mounted at the same
\* place, and there are structs for their roots.
ASSUME MountsAssumption ==
    /\ Mounts \in Seq([path : Seq(STRING), archive : Seq(Entry)])
    /\ \A m, o \in FileSystems : Mounts[m].path = Mounts[o].path => m = o
    /\ FileSystems \subseteq InodeSlots

ASSUME InputsAssumption == Paths \subseteq Seq(STRING) /\ Counts \subseteq Nat

ASSUME VfsNullAssumption == NULL \notin Tasks \cup InodeSlots \cup FileSlots

ASSUME RcAssumption == InitialRcs \subseteq Nat \ {0}

\* One task opens files, as in the kernel: file_desc_alloc has no lock.
OneOpener == \A t, u \in Openers : t = u

\* Nobody asks for a mount point itself: traverse gives its root away without
\* a reference, and the caller releases it.
BelowMounts == \A path \in Paths, m \in FileSystems : path # Mounts[m].path

VARIABLES
    inode,          \* inode structs
    inode_used,     \* objects of inode_alloc in use
    table,          \* the hash table of each file system
    file,           \* file_desc structs
    file_used,      \* objects of file_desc_alloc in use
    walker,         \* the task inside traverse, or NULL
    frame,          \* where each task is in traverse, open or release
    held,           \* inodes a task got from traverse, with the path it gave,
                    \* by the variable it keeps them in
    files,          \* files a task opened
    initial_rc,     \* the value of i_rc after a constructor
    panic

vars == <<inode, inode_used, table, file, file_used, walker, frame, held,
          files, initial_rc, panic>>

ROOT == 2

\* The numbers that an archive may give out.
Numbers ==
    UNION {ROOT .. ROOT + Len(Mounts[fs].archive) * (NameMax + 1) :
                fs \in FileSystems}

Blank == [fs |-> 0, i_num |-> 0, i_rc |-> 0, i_parent_ref |-> NULL,
          owner |-> NULL, queue |-> <<>>, name |-> <<>>, len |-> 0]

NoFile == [rc |-> 0, owner_inode |-> NULL, f_pos |-> 0]

\* The variables in which a task keeps what traverse gave it.
Kept == 1 .. MaxHeld

Nothing == [inode |-> NULL, path |-> <<>>]

Running == [pc |-> "run", path |-> <<>>, at |-> 0, curr |-> NULL,
            obj |-> NULL, ret |-> "run", dying |-> {}, err |-> "ok",
            file |-> NULL]

IsRoot(s) == inode[s].i_num = ROOT

\* find_bit: the first free object.
find_bit(slots) == CHOOSE s \in slots : \A r \in slots : s <= r

----------------------------------------------------------------------------
(***************************************************************************)
(* Boot: mount puts the root of every file system in its table.            *)
(***************************************************************************)
mount(rc) ==
    /\ inode = [s \in InodeSlots |->
            IF s \in FileSystems
            THEN [Blank EXCEPT !.fs = s, !.i_num = ROOT, !.i_rc = rc]
            ELSE Blank]
    /\ inode_used = FileSystems
    /\ table = [fs \in FileSystems |->
            [n \in Numbers |-> IF n = ROOT THEN fs ELSE NULL]]

Init ==
    /\ initial_rc \in InitialRcs
    /\ mount(initial_rc)
    /\ file = [f \in FileSlots |-> NoFile]
    /\ file_used = {}
    /\ walker = NULL
    /\ frame = [t \in Tasks |-> Running]
    /\ held = [t \in Tasks |-> [v \in Kept |-> Nothing]]
    /\ files = [t \in Tasks |-> {}]
    /\ panic = "no"

----------------------------------------------------------------------------
(***************************************************************************)
(* The inode's mutex and count.                                            *)
(***************************************************************************)
At(t, point) ==
    /\ panic = "no"
    /\ walker \in {t, NULL}
    /\ frame[t].pc = point

Goto(t, f) == frame' = [frame EXCEPT ![t] = f]

\* lock by task t: the owner, or the last of the queue.
locked(i, t) ==
    IF i.owner = NULL THEN [i EXCEPT !.owner = t]
    ELSE [i EXCEPT !.queue = Append(@, t)]

\* unlock: the first of the queue owns the mutex.
unlocked(i) ==
    IF i.queue = <<>> THEN [i EXCEPT !.owner = NULL]
    ELSE [i EXCEPT !.owner = Head(i.queue), !.queue = Tail(@)]

\* A failed kassert: the machine stops.
kassert_fails(why) ==
    /\ panic' = why
    /\ UNCHANGED <<inode, inode_used, table, file, file_used, walker, frame,
                   held, files, initial_rc>>

\* take_ref_locked inside traverse: a mutex that is taken makes it yield with
\* preemption disabled, which a kassert forbids.
take_ref_fails(s) ==
    \/ inode[s].owner # NULL /\ kassert_fails("yield")
    \/ inode[s].owner = NULL /\ inode[s].i_rc <= 0 /\ kassert_fails("i_rc")

take_ref_succeeds(s) == inode[s].owner = NULL /\ inode[s].i_rc > 0

----------------------------------------------------------------------------
(***************************************************************************)
(* traverse.                                                               *)
(***************************************************************************)
\* The longest mount point that path is at or below, or 0.
best_mnt(path) ==
    LET match == {m \in FileSystems :
                    /\ Len(Mounts[m].path) <= Len(path)
                    /\ Prefix(path, Len(Mounts[m].path)) = Mounts[m].path}
    IN  IF match = {} THEN 0
        ELSE CHOOSE m \in match :
                \A o \in match : Len(Mounts[o].path) <= Len(Mounts[m].path)

\* inode_tar::lookup: a root has the empty name.
lookup(i, component) ==
    tar_lookup(Mounts[i.fs].archive, Append(i.name, component))

Found(f) == lookup(inode[f.curr], f.path[f.at + 1])

traverse(t) ==
    /\ At(t, "run")
    /\ \E v \in Kept : held[t][v].inode = NULL
    /\ \E path \in Paths :
        LET m == best_mnt(path)
            f == [Running EXCEPT !.path = path]
        IN  \/ /\ m = 0
               /\ Goto(t, [f EXCEPT !.pc = "done", !.err = "no_entry"])
               /\ UNCHANGED <<walker, panic>>
            \/ /\ m # 0
               /\ IF table[m][ROOT] = NULL
                  THEN panic' = "root" /\ UNCHANGED <<walker, frame>>
                  ELSE /\ walker' = t
                       /\ Goto(t, [f EXCEPT !.pc = "walk",
                                            !.curr = table[m][ROOT],
                                            !.at = Len(Mounts[m].path)])
                       /\ UNCHANGED panic
    /\ UNCHANGED <<inode, inode_used, table, file, file_used, held, files,
                   initial_rc>>

\* The end of the path: the caller gets curr and its reference.
walk_end(t) ==
    /\ At(t, "walk")
    /\ frame[t].at = Len(frame[t].path)
    /\ walker' = NULL
    /\ Goto(t, [frame[t] EXCEPT !.pc = "done"])
    /\ UNCHANGED <<inode, inode_used, table, file, file_used, held, files,
                   initial_rc, panic>>

\* Mutant: the root is released like any other inode.
walk_fail_root(t) ==
    /\ At(t, "walk")
    /\ frame[t].at < Len(frame[t].path)
    /\ Found(frame[t]).err # "ok"
    /\ walker' = walker
    /\ Goto(t, [frame[t] EXCEPT !.curr = NULL, !.err = Found(frame[t]).err,
                !.pc = "release", !.obj = frame[t].curr, !.ret = "done"])
    /\ UNCHANGED <<inode, inode_used, table, file, file_used, held, files,
                   initial_rc, panic>>

\* lookup fails: curr is released unless it is the root.
walk_fail(t) ==
    /\ At(t, "walk")
    /\ frame[t].at < Len(frame[t].path)
    /\ LET f == [frame[t] EXCEPT !.curr = NULL, !.err = Found(frame[t]).err]
           curr == frame[t].curr
       IN  /\ f.err # "ok"
           /\ walker' = IF IsRoot(curr) THEN NULL ELSE walker
           /\ Goto(t, IF IsRoot(curr) THEN [f EXCEPT !.pc = "done"]
                      ELSE [f EXCEPT !.pc = "release", !.obj = curr,
                                     !.ret = "done"])
    /\ UNCHANGED <<inode, inode_used, table, file, file_used, held, files,
                   initial_rc, panic>>

\* Mutant: the reference to the directory is kept.
Descend_kept(t, s) ==
    Goto(t, [frame[t] EXCEPT !.curr = s, !.at = @ + 1])

\* From a directory to s: the directory is released unless it is the root.
Descend(t, s) ==
    LET f == [frame[t] EXCEPT !.curr = s, !.at = @ + 1]
    IN  Goto(t, IF IsRoot(frame[t].curr) THEN f
                ELSE [f EXCEPT !.pc = "release", !.obj = frame[t].curr,
                               !.ret = "walk"])

\* The slot that the table has for the next component, NULL if it has none.
Cached(f) == table[inode[f.curr].fs][Found(f).i_num]

\* get_inode_struct finds the inode in the table.
walk_cached(t) ==
    /\ At(t, "walk")
    /\ frame[t].at < Len(frame[t].path)
    /\ Found(frame[t]).err = "ok"
    /\ LET s == Cached(frame[t]) IN
        /\ s # NULL
        /\ IF inode[s].i_num # Found(frame[t]).i_num
           THEN kassert_fails("i_num")
           ELSE \/ take_ref_fails(s)
                \/ /\ take_ref_succeeds(s)
                   /\ inode' = [inode EXCEPT ![s].i_rc = @ + 1]
                   /\ Descend(t, s)
                   /\ UNCHANGED <<inode_used, table, file, file_used, walker,
                                  held, files, initial_rc, panic>>

\* Mutant: the constructor does not take a reference to the parent.
new_inode_orphan(s, fs, n, parent) ==
    LET disk == tar_lookup_by_index(Mounts[fs].archive, n)
    IN  inode' = [inode EXCEPT
            ![s] = [Blank EXCEPT !.fs = fs, !.i_num = n, !.i_rc = initial_rc,
                                 !.i_parent_ref = parent, !.name = disk.name,
                                 !.len = disk.len]]

\* alloc_inode_struct and read_inode_disk: the constructor takes a reference
\* to the parent, and the name and size come from the archive.
new_inode(s, fs, n, parent) ==
    LET disk == tar_lookup_by_index(Mounts[fs].archive, n)
    IN  inode' = [inode EXCEPT
            ![parent].i_rc = @ + 1,
            ![s] = [Blank EXCEPT !.fs = fs, !.i_num = n, !.i_rc = initial_rc,
                                 !.i_parent_ref = parent, !.name = disk.name,
                                 !.len = disk.len]]

\* get_inode_struct allocates the inode.
walk_load(t) ==
    /\ At(t, "walk")
    /\ frame[t].at < Len(frame[t].path)
    /\ Found(frame[t]).err = "ok"
    /\ Cached(frame[t]) = NULL
    /\ InodeSlots # inode_used
    /\ LET parent == frame[t].curr
           fs == inode[parent].fs
           n  == Found(frame[t]).i_num
           s  == find_bit(InodeSlots \ inode_used)
       IN  \/ take_ref_fails(parent)
           \/ /\ take_ref_succeeds(parent)
              /\ new_inode(s, fs, n, parent)
              /\ inode_used' = inode_used \cup {s}
              /\ table' = [table EXCEPT ![fs][n] = s]
              /\ Descend(t, s)
              /\ UNCHANGED <<file, file_used, walker, held, files, initial_rc,
                             panic>>

\* The caller looks at what traverse returned.
returned(t) ==
    /\ At(t, "done")
    /\ \/ frame[t].err # "ok" /\ UNCHANGED held
       \/ /\ frame[t].err = "ok"
          /\ \E v \in Kept :
                /\ held[t][v].inode = NULL
                /\ held' = [held EXCEPT ![t][v] =
                        [inode |-> frame[t].curr, path |-> frame[t].path]]
    /\ Goto(t, Running)
    /\ UNCHANGED <<inode, inode_used, table, file, file_used, walker, files,
                   initial_rc, panic>>

----------------------------------------------------------------------------
(***************************************************************************)
(* inode::release.                                                         *)
(***************************************************************************)
release(t) ==
    /\ At(t, "run")
    /\ \E v \in Kept :
            /\ held[t][v].inode # NULL
            /\ held' = [held EXCEPT ![t][v] = Nothing]
            /\ Goto(t, [Running EXCEPT !.pc = "release",
                                       !.obj = held[t][v].inode])
    /\ UNCHANGED <<inode, inode_used, table, file, file_used, walker, files,
                   initial_rc, panic>>

\* release_ref_locked: the mutex; inside traverse it must be free.
release_lock(t) ==
    /\ At(t, "release")
    /\ LET s == frame[t].obj IN
        \/ /\ walker = t
           /\ inode[s].owner # NULL
           /\ kassert_fails("yield")
        \/ /\ walker = NULL \/ inode[s].owner = NULL
           /\ inode' = [inode EXCEPT ![s] = locked(@, t)]
           /\ Goto(t, [frame[t] EXCEPT !.pc = "locked"])
           /\ UNCHANGED <<inode_used, table, file, file_used, walker, held,
                          files, initial_rc, panic>>

\* release_ref_locked: the count, and unlock.
release_ref_locked(t) ==
    /\ At(t, "locked")
    /\ LET s == frame[t].obj IN
        /\ inode[s].owner = t
        /\ IF inode[s].i_rc <= 0 THEN kassert_fails("i_rc")
           ELSE /\ inode' = [inode EXCEPT
                              ![s] = [unlocked(inode[s]) EXCEPT
                                        !.i_rc = inode[s].i_rc - 1]]
                /\ Goto(t, [frame[t] EXCEPT
                              !.pc = IF inode[s].i_rc = 1 THEN "zero"
                                     ELSE "unwind"])
                /\ UNCHANGED <<inode_used, table, file, file_used, walker,
                               held, files, initial_rc, panic>>

\* Mutant: the inode stays in the table.
remove_none(fs, n) == table' = table

remove(fs, n) == table' = [table EXCEPT ![fs][n] = NULL]

\* The last reference: out of the table; then the destructor, which releases
\* the parent, before the struct is given back.
release_remove(t) ==
    /\ At(t, "zero")
    /\ LET s == frame[t].obj
           f == [frame[t] EXCEPT !.dying = @ \cup {s}]
       IN  /\ remove(inode[s].fs, inode[s].i_num)
           /\ Goto(t, IF inode[s].i_parent_ref = NULL
                      THEN [f EXCEPT !.pc = "unwind"]
                      ELSE [f EXCEPT !.pc = "release",
                                     !.obj = inode[s].i_parent_ref])
    /\ UNCHANGED <<inode, inode_used, file, file_used, walker, held, files,
                   initial_rc, panic>>

\* Mutant: only the last of the structs is given back.
Give_back_one(dying) ==
    LET s == CHOOSE s \in dying : TRUE
    IN  /\ inode_used' = IF dying = {} THEN inode_used ELSE inode_used \ {s}
        /\ inode' = IF dying = {} THEN inode ELSE [inode EXCEPT ![s] = Blank]

\* The structs go back to inode_alloc; their fields are dead from then on.
Give_back(dying) ==
    /\ inode_used' = inode_used \ dying
    /\ inode' = [s \in InodeSlots |-> IF s \in dying THEN Blank ELSE inode[s]]

\* The destructors end, with a kassert that nobody has the mutex, and the
\* structs are freed, also of the file if this was its release.
unwind(t) ==
    /\ At(t, "unwind")
    /\ LET f == frame[t] IN
        IF \E s \in f.dying : inode[s].owner # NULL
        THEN kassert_fails("mutex")
        ELSE /\ Give_back(f.dying)
             /\ file_used' = file_used \ {f.file}
             /\ file' = IF f.file = NULL THEN file
                        ELSE [file EXCEPT ![f.file] = NoFile]
             /\ walker' = IF f.ret = "done" THEN NULL ELSE walker
             /\ Goto(t, IF f.ret = "run" THEN Running
                        ELSE [f EXCEPT !.pc = f.ret, !.obj = NULL,
                                       !.ret = "run", !.dying = {}])
             /\ UNCHANGED <<table, held, files, initial_rc, panic>>

----------------------------------------------------------------------------
(***************************************************************************)
(* Files.                                                                  *)
(***************************************************************************)
\* inode::open: file_desc_alloc.allocate, which finds an object ...
open(t) ==
    /\ At(t, "run")
    /\ t \in Openers
    /\ files[t] = {}
    /\ FileSlots # file_used
    /\ \E v \in Kept :
            /\ held[t][v].inode # NULL
            /\ Goto(t, [Running EXCEPT !.pc = "open", !.obj = held[t][v].inode,
                            !.file = find_bit(FileSlots \ file_used)])
    /\ UNCHANGED <<inode, inode_used, table, file, file_used, walker, held,
                   files, initial_rc, panic>>

\* ... and takes it.  The constructor starts to take a reference.
open_take(t) ==
    /\ At(t, "open")
    /\ LET f == frame[t].file
           s == frame[t].obj
       IN  /\ file_used' = file_used \cup {f}
           /\ file' = [file EXCEPT
                        ![f] = [rc |-> 1, owner_inode |-> s, f_pos |-> 0]]
           /\ inode' = [inode EXCEPT ![s] = locked(@, t)]
    /\ Goto(t, [frame[t] EXCEPT !.pc = "open_locked"])
    /\ UNCHANGED <<inode_used, table, walker, held, files, initial_rc, panic>>

\* take_ref_locked in the constructor of file_desc.
open_ref(t) ==
    /\ At(t, "open_locked")
    /\ LET s == frame[t].obj IN
        /\ inode[s].owner = t
        /\ IF inode[s].i_rc <= 0 THEN kassert_fails("i_rc")
           ELSE /\ inode' = [inode EXCEPT
                              ![s] = [unlocked(inode[s]) EXCEPT
                                        !.i_rc = inode[s].i_rc + 1]]
                /\ files' = [files EXCEPT ![t] = @ \cup {frame[t].file}]
                /\ Goto(t, Running)
                /\ UNCHANGED <<inode_used, table, file, file_used, walker,
                               held, initial_rc, panic>>

\* file_desc::read.
read(t) ==
    /\ At(t, "run")
    /\ \E f \in files[t], count \in Counts :
        file' = [file EXCEPT ![f].f_pos =
                    @ + tar_read(inode[file[f].owner_inode].len, count, @)]
    /\ UNCHANGED <<inode, inode_used, table, file_used, walker, frame, held,
                   files, initial_rc, panic>>

\* file_desc::release: the last reference destroys the file_desc, and that
\* releases the inode.
close(t) ==
    /\ At(t, "run")
    /\ \E f \in files[t] :
        IF file[f].rc <= 0 THEN kassert_fails("rc")
        ELSE /\ file' = [file EXCEPT ![f].rc = @ - 1]
             /\ files' = [files EXCEPT ![t] = @ \ {f}]
             /\ Goto(t, IF file[f].rc # 1 THEN Running
                        ELSE [Running EXCEPT !.pc = "release", !.file = f,
                                             !.obj = file[f].owner_inode])
             /\ UNCHANGED <<inode, inode_used, table, file_used, walker, held,
                            initial_rc, panic>>

\* kpanic ends in a hlt loop.
Halt == panic # "no" /\ UNCHANGED vars

\* The steps of an operation that has begun.
Continue(t) ==
    \/ walk_end(t) \/ walk_fail(t) \/ walk_cached(t) \/ walk_load(t)
    \/ returned(t)
    \/ release_lock(t) \/ release_ref_locked(t) \/ release_remove(t)
    \/ unwind(t)
    \/ open_take(t) \/ open_ref(t)

Next ==
    \/ \E t \in Tasks :
        \/ traverse(t) \/ release(t) \/ open(t) \/ read(t) \/ close(t)
        \/ Continue(t)
    \/ Halt

Spec == Init /\ [][Next]_vars

----------------------------------------------------------------------------
(***************************************************************************)
(* Properties.                                                             *)
(***************************************************************************)

Slot == InodeSlots \cup {NULL}

Points == {"run", "walk", "done", "release", "locked", "zero", "unwind",
           "open", "open_locked"}

\* Types of the variables; reading never moves a file past its end.
TypeOK ==
    /\ \A s \in InodeSlots :
        /\ inode[s].fs \in FileSystems \cup {0}
        /\ inode[s].i_num \in Numbers \cup {0}
        /\ inode[s].i_rc \in Nat
        /\ inode[s].i_parent_ref \in Slot
        /\ inode[s].owner \in Tasks \cup {NULL}
    /\ inode_used \subseteq InodeSlots
    /\ table \in [FileSystems -> [Numbers -> Slot]]
    /\ file_used \subseteq FileSlots
    /\ walker \in Tasks \cup {NULL}
    /\ \A t \in Tasks :
        /\ frame[t].pc \in Points
        /\ frame[t].curr \in Slot
        /\ frame[t].obj \in Slot
        /\ frame[t].dying \subseteq InodeSlots
        /\ \A v \in Kept :
            held[t][v] \in {Nothing} \cup [inode : InodeSlots, path : Paths]
        /\ files[t] \subseteq FileSlots
        /\ \A f \in files[t] :
            file[f].f_pos \in 0 .. inode[file[f].owner_inode].len

\* Structs whose destructor has begun.
Dying == UNION {frame[t].dying : t \in Tasks}

\* Who refers to inode s: callers of traverse, open files, children, the walk
\* that has come to it, and the release that is about to give one back.
Refs(s) ==
    Cardinality({p \in Tasks \X Kept : held[p[1]][p[2]].inode = s})
    + Cardinality({p \in Tasks \X FileSlots :
                    p[2] \in files[p[1]] /\ file[p[2]].owner_inode = s})
    + Cardinality({c \in inode_used \ Dying : inode[c].i_parent_ref = s})
    + Cardinality({t \in Tasks : frame[t].curr = s /\ ~IsRoot(s)})
    + Cardinality({t \in Tasks : frame[t].obj = s
                        /\ frame[t].pc \in {"release", "locked"}})
    + (IF IsRoot(s) THEN 1 ELSE 0)

\* "holds reference to inode" (vfs.hpp), for files, children and callers:
\* whatever the constructor leaves in a count, from there on it moves exactly
\* as the references do, through every success, failure and nested release,
\* so that it falls back to the value it had before the first reference when
\* the last one goes.  What that value is, RefsExact says.
RefsFollow ==
    panic = "no" =>
        \A s \in inode_used : inode[s].i_rc = initial_rc - 1 + Refs(s)

\* "(comes with 1 reference as needed)" (vfs.cpp), and the counts of 2 and 1
\* that test_filesystem.cpp expects: the count of an inode that traverse has
\* found is the number of references to it.
RefsExact ==
    panic = "no" =>
        \A s \in inode_used : ~IsRoot(s) => inode[s].i_rc = Refs(s)

\* "used internally to map inode number to inode struct" (vfs.hpp): the table
\* has every struct that is not being destroyed, under its number, and
\* nothing else, so that a number never has two structs.
TableExact ==
    /\ \A fs \in FileSystems, n \in Numbers :
        table[fs][n] # NULL =>
            /\ table[fs][n] \in inode_used
            /\ inode[table[fs][n]].fs = fs
            /\ inode[table[fs][n]].i_num = n
    /\ \A s \in inode_used \ Dying : table[inode[s].fs][inode[s].i_num] = s

\* No struct is freed while somebody can still reach it.
NoDangling ==
    \A s \in InodeSlots \ inode_used :
        /\ \A t \in Tasks :
            /\ frame[t].curr # s
            /\ frame[t].pc \in {"release", "locked", "zero", "open_locked"}
                => frame[t].obj # s
            /\ \A v \in Kept : held[t][v].inode # s
            /\ \A f \in files[t] : file[f].owner_inode # s
        /\ \A c \in inode_used \ Dying : inode[c].i_parent_ref # s

\* The file system that path is in: mounts hide what is below them.
Home(path) ==
    LET above == {m \in FileSystems :
            \E rest \in {SubSeq(path, k, Len(path)) : k \in 1 .. Len(path) + 1} :
                path = Mounts[m].path \o rest}
        hidden == {m \in above :
            \E o \in above : Len(Mounts[m].path) < Len(Mounts[o].path)}
    IN  IF above = {} THEN 0 ELSE CHOOSE m \in above \ hidden : TRUE

\* What traverse is for: the first prefix of the path that is too long or not
\* in the archive of the mount point decides the error.
Expected(path) ==
    LET m == Home(path)
        rel == SubSeq(path, Len(Mounts[m].path) + 1, Len(path))
        exists(k) == \E i \in DOMAIN Mounts[m].archive :
                        Len(Mounts[m].archive[i].name) >= k
                        /\ Prefix(Mounts[m].archive[i].name, k) = Prefix(rel, k)
        bad == {k \in 1 .. Len(rel) : k > NameMax \/ ~exists(k)}
        first == CHOOSE k \in bad : \A j \in bad : k <= j
    IN  IF m = 0 THEN "no_entry"
        ELSE IF bad = {} THEN "ok"
        ELSE IF first > NameMax THEN "path_too_long" ELSE "no_entry"

\* Inode s is the file that path names.
Names(s, path) ==
    /\ inode[s].fs = Home(path)
    /\ Mounts[inode[s].fs].path \o inode[s].name = path

\* traverse returns what the archive has under the path, although it goes
\* from name to number and back at every component and takes structs that
\* others loaded; and the struct stays that file as long as it is held.
TraverseExact ==
    /\ \A t \in Tasks :
        /\ \A v \in Kept : held[t][v].inode # NULL =>
                Names(held[t][v].inode, held[t][v].path)
        /\ frame[t].pc = "done" =>
            /\ frame[t].err = Expected(frame[t].path)
            /\ frame[t].err = "ok" => Names(frame[t].curr, frame[t].path)

\* Of the kasserts, two can fail: a walk that meets an inode between its last
\* release and its removal from the table, and a walk that needs a mutex that
\* another task was preempted with.
AssertsHold ==
    /\ panic \in {"no", "i_rc", "yield"}
    /\ panic = "i_rc" => \E t \in Tasks \ {walker} : frame[t].pc = "zero"
    /\ panic = "yield" => \E s \in inode_used : inode[s].owner \notin {NULL, walker}

\* "kassert(preempt_counter == 0)" (yield in init.cpp): a walk, which runs
\* with preemption disabled, never has to wait for the mutex of an inode.
WalksNeverYield == panic # "yield"

\* "root inode must be in memory, other inodes can be freed" (vfs.hpp): an
\* inode whose count has reached 0 is in the hands of exactly one task, which
\* is about to free it: none is leaked, and none is freed twice.
LastReleaseFrees ==
    panic = "no" =>
        \A s \in inode_used :
            inode[s].i_rc = 0 =>
                /\ ~IsRoot(s)
                /\ Cardinality({t \in Tasks : s \in frame[t].dying
                        \/ (frame[t].pc = "zero" /\ frame[t].obj = s)}) = 1
=============================================================================
