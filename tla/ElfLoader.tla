------------------------------ MODULE ElfLoader ------------------------------
(***************************************************************************)
(* load_elf (kernel/scheduler/elf.cpp) in tasks that preempt one another,  *)
(* over page tables and physical memory, next to other owners of hmem      *)
(* pages, with kmem growing at any time.  A file is [len, supported,       *)
(* phentsize, headers, phdrs]: its length, what check_supported says,      *)
(* whether e_phentsize is the size of a program header, how many of the    *)
(* program headers are in the file, and the program headers, e_phnum of    *)
(* them.  Addresses, offsets and sizes are in words; the word at offset o  *)
(* of a file is Data(o).                                                   *)
(***************************************************************************)
EXTENDS AddressSpace, Tar

CONSTANTS
    Files,          \* the files that tasks load
    PhnumLimit,     \* e_phnum must be below it, 1000 in the source
    MaxOthers       \* bound: pages that others have at a time

ASSUME LimitsAssumption == PhnumLimit \in Nat /\ MaxOthers \in Nat

VARIABLES
    loader,         \* per task, where it is in load_elf
    loaded          \* per task, the pages that its load_elf allocated

vars == <<phys_vars, panic, mm, loader, loaded>>

\* Contents of files, told apart from page numbers and 0.
Data(o) == RamEnd + o

NoLoad == [pc |-> "none", file |-> 0, i |-> 0, idx |-> 0, page |-> 0, pos |-> 0]

Init ==
    /\ AddressInit
    /\ loader = [t \in Tasks |-> NoLoad]
    /\ loaded = [t \in Tasks |-> {}]

----------------------------------------------------------------------------
At(t, point) == Runs /\ loader[t].pc = point

Goto(t, f) == loader' = [loader EXCEPT ![t] = f]

\* return errno::invalid.
invalid(t) == Goto(t, [NoLoad EXCEPT !.pc = "invalid"])

File(t) == Files[loader[t].file]

\* The program header that t is loading.
phdr(t) == File(t).phdrs[loader[t].i]

\* addr_start of the segment, as a page, and the page that t is at.
addr_start(t) == phdr(t).p_vaddr \div PageSize

virt(t) == addr_start(t) + loader[t].idx \div PageSize

\* What is left to read from the file for this page, and where memset starts.
Left(t) == phdr(t).p_filesz - loader[t].idx

read_cnt(t) == IF Left(t) > PageSize THEN PageSize ELSE Left(t)

\* Mutant: the whole page is cleared.
memset_at_none(t) == 0

memset_at(t) ==
    IF loader[t].idx >= phdr(t).p_filesz \/ Left(t) > PageSize THEN 0
    ELSE read_cnt(t)

\* task::allocate.
allocate(t) ==
    /\ At(t, "none")
    /\ new_page_directory(t)
    /\ Goto(t, [NoLoad EXCEPT !.pc = "new"])
    /\ UNCHANGED <<phys_vars, panic, loaded>>

\* The beginning of task_wrapper.
task_wrapper(t) ==
    /\ At(t, "new")
    /\ map_top(t)
    /\ Goto(t, [NoLoad EXCEPT !.pc = "run"])
    /\ UNCHANGED <<phys_vars, panic, loaded>>

\* The kasserts on a supported header.
header_assert(file) ==
    IF ~file.phentsize THEN "e_phentsize"
    ELSE IF Len(file.phdrs) >= PhnumLimit THEN "e_phnum" ELSE "no"

\* load_elf, up to the loop over the program headers.
load_elf(t) ==
    /\ At(t, "run")
    /\ \E f \in DOMAIN Files :
        \/ /\ ~Files[f].supported
           /\ invalid(t)
           /\ UNCHANGED panic
        \/ /\ Files[f].supported
           /\ panic' = header_assert(Files[f])
           /\ IF panic' = "no"
              THEN Goto(t, [NoLoad EXCEPT !.pc = "phdr", !.file = f, !.i = 1])
              ELSE UNCHANGED loader
    /\ UNCHANGED <<phys_vars, mm, loaded>>

\* The head of that loop; other segments than PT_LOAD and empty ones are
\* skipped.
next_phdr(t) ==
    /\ At(t, "phdr")
    /\ LET l == loader[t] IN
        \/ /\ l.i > Len(File(t).phdrs)
           /\ Goto(t, [NoLoad EXCEPT !.pc = "ok", !.file = l.file])
        \/ /\ l.i <= Len(File(t).phdrs)
           /\ l.i > File(t).headers
           /\ invalid(t)
        \/ /\ l.i <= Len(File(t).phdrs)
           /\ l.i <= File(t).headers
           /\ IF phdr(t).load /\ phdr(t).p_memsz > 0
              THEN Goto(t, [l EXCEPT !.pc = "alloc", !.idx = 0])
              ELSE Goto(t, [l EXCEPT !.i = @ + 1])
    /\ UNCHANGED <<phys_vars, panic, mm, loaded>>

\* hmem_alloc_page, for the page at virt.  With a list it needs a temporary
\* mapping, whose kassert wants a page table for it.
load_alloc(t) ==
    /\ At(t, "alloc")
    /\ IF hmem_phys_list # 0 /\ ~can_map_hmem(t)
       THEN panic' = "hmem_mapping" /\ UNCHANGED <<phys_vars, loader, loaded>>
       ELSE \E p \in Pages :
                /\ hmem_alloc_page(p)
                /\ loaded' = [loaded EXCEPT ![t] = @ \cup {p}]
                /\ Goto(t, [loader[t] EXCEPT !.pc = "map", !.page = p])
    /\ UNCHANGED mm

load_map(t) ==
    /\ At(t, "map")
    /\ map_user_page(t, virt(t), loader[t].page)
    /\ Goto(t, [loader[t] EXCEPT !.page = 0, !.pos = 0,
                    !.pc = IF loader[t].idx < phdr(t).p_filesz THEN "read"
                           ELSE "zero"])
    /\ UNCHANGED <<phys_vars, panic, loaded>>

\* Words at .. at + n - 1 of the page at virt, which is found through the page
\* tables, become value(w).
Written(t, at, n, value(_)) ==
    [ram EXCEPT ![Translate(t, virt(t))] =
        [w \in Cells |-> IF w \in at .. at + n - 1 THEN value(w) ELSE @[w]]]

\* One pread of the loop that reads a page.
load_read(t) ==
    /\ At(t, "read")
    /\ LET l   == loader[t]
           off == phdr(t).p_offset + l.idx
           n   == tar_read(File(t).len, read_cnt(t) - l.pos, off + l.pos)
       IN  \/ /\ n = 0
              /\ invalid(t)
              /\ UNCHANGED ram
           \/ /\ n > 0
              /\ ram' = Written(t, l.pos, n, LAMBDA w : Data(off + w))
              /\ Goto(t, [l EXCEPT !.pos = @ + n,
                            !.pc = IF l.pos + n < read_cnt(t) THEN "read"
                                   ELSE "zero"])
    /\ UNCHANGED <<kmem_phys_end, hmem_phys_end, hmem_phys_list, given, stray,
                   panic, mm, loaded>>

\* memset, and the end of the loop over the pages.
load_zero(t) ==
    /\ At(t, "zero")
    /\ ram' = Written(t, memset_at(t), PageSize - memset_at(t), LAMBDA w : 0)
    /\ LET l == loader[t]
           next == l.idx + PageSize
       IN  Goto(t, IF next < phdr(t).p_memsz
                   THEN [l EXCEPT !.pc = "alloc", !.idx = next, !.pos = 0]
                   ELSE [NoLoad EXCEPT !.pc = "phdr", !.file = l.file,
                                       !.i = l.i + 1])
    /\ UNCHANGED <<kmem_phys_end, hmem_phys_end, hmem_phys_list, given, stray,
                   panic, mm, loaded>>

----------------------------------------------------------------------------
(***************************************************************************)
(* Other users of memory.                                                  *)
(***************************************************************************)
Others == given \ UNION {loaded[t] : t \in Tasks}

\* Somebody's allocation from kmem needs another buddy.
kmem_grows ==
    /\ Runs
    /\ grow_kmem
    /\ UNCHANGED <<loader, loaded>>

other_alloc ==
    /\ Runs
    /\ Cardinality(Others) < MaxOthers
    /\ \E p \in Pages : hmem_alloc_page(p)
    /\ UNCHANGED <<mm, loader, loaded>>

\* The owner has cleared the first word, written something, or left it alone.
other_free ==
    /\ Runs
    /\ \E p \in Others : \E w \in {0, word(p)} \cup Words : hmem_free_page(p, w)
    /\ UNCHANGED <<mm, loader, loaded>>

\* kpanic ends in a hlt loop; of a stray list, the models say no more.
Halt == ~Runs /\ UNCHANGED vars

Next ==
    \/ \E t \in Tasks :
        \/ allocate(t)
        \/ task_wrapper(t)
        \/ load_elf(t)
        \/ next_phdr(t)
        \/ load_alloc(t)
        \/ load_map(t)
        \/ load_read(t)
        \/ load_zero(t)
    \/ kmem_grows
    \/ other_alloc
    \/ other_free
    \/ Halt

Spec == Init /\ [][Next]_vars

----------------------------------------------------------------------------
(***************************************************************************)
(* Properties.                                                             *)
(***************************************************************************)

\* The pages of a segment, counted from 0.
PageNumbers(h) ==
    {k \in 0 .. h.p_memsz : h.load /\ k * PageSize < h.p_memsz}

\* The virtual pages that load_elf fills for a program header.
SegmentPages(h) == {h.p_vaddr \div PageSize + k : k \in PageNumbers(h)}

\* Executables as a linker makes them: segments are below kmem and share no
\* page.  load_elf checks neither.
FilesFit ==
    \A f \in DOMAIN Files : Files[f].supported =>
        LET headers == Files[f].phdrs IN
        /\ Files[f].len \in Nat
        /\ headers \in Seq([load : BOOLEAN, p_vaddr : Nat, p_offset : Nat,
                            p_filesz : Nat, p_memsz : Nat])
        /\ \A i \in DOMAIN headers : SegmentPages(headers[i]) \subseteq UserPages
        /\ \A i, j \in DOMAIN headers : i # j =>
                SegmentPages(headers[i]) \cap SegmentPages(headers[j]) = {}

\* Types of the variables.  load_elf stops the kernel for a header with the
\* wrong size or number of entries, and for want of memory; never because a
\* task that loads has no page table for its temporary mappings.
TypeOK ==
    /\ AddressTypeOK
    /\ panic \in {"no", "kmem_region_end", "hmem_phys_end", "e_phentsize", "e_phnum"}
    /\ \A t \in Tasks :
        /\ loader[t].pc \in {"none", "new", "run", "phdr", "alloc", "map",
                             "read", "zero", "ok", "invalid"}
        /\ loader[t].page \in Pages \cup {0}
        /\ loaded[t] \subseteq Pages

\* "kmem : Identity-mapped memory" (page_allocator.cpp): while memory is Apart,
\* every page of kmem, also one that was added after a directory was copied, is
\* at its address in every task.
KmemReachable ==
    Apart =>
        \A d \in {t \in Tasks : loader[t].pc # "none"} \cup {first_page_directory} :
            \A p \in 1 .. kmem_phys_end - 1 : Translate(d, KernelBase + p) = p

\* While memory is Apart, no page of it is at two user addresses, of one task
\* or of two.
UserPrivate ==
    Apart =>
        \A t, u \in Tasks : \A v, w \in UserPages :
            Translate(t, v) # 0 /\ Translate(t, v) = Translate(u, w)
                => t = u /\ v = w

\* "TODO returning an error without freeing anything" (elf.cpp): nothing is
\* freed, but wherever load_elf is or has stopped, each page it allocated is
\* in the address space of its task, and no other page is, while memory is
\* Apart.
PagesAccounted ==
    Apart =>
        \A t \in Tasks :
            /\ loaded[t] = Mapped(t) \cup ({loader[t].page} \ {0})
            /\ loaded[t] \subseteq given

\* What word w of page k of a segment may be once the page is done.  Its
\* place in the segment is o, counted from the boundary of the first page: 0
\* from p_filesz on, the word of the file on the page where the file's part
\* ends, and one of the two on a page that is all in the file, which load_elf
\* reads and then clears.
CleanWord(h, k, w, x) ==
    LET o == k * PageSize + w IN
    /\ x \in {0, Data(h.p_offset + o)}
    /\ o >= h.p_filesz => x = 0
    /\ o < h.p_filesz /\ h.p_filesz <= (k + 1) * PageSize => x = Data(h.p_offset + o)

\* After load_elf has returned ok, and while memory is Apart, no word of a
\* segment's pages is what the page's former owner left there, whichever other
\* loads and frees came in between: every page is mapped, a word is the file's
\* or 0, it is 0 behind what the file has of the segment, and it is the file's
\* on the last page of that.
LoadedClean ==
    \A t \in Tasks : Apart /\ loader[t].pc = "ok" =>
        \A i \in DOMAIN File(t).phdrs :
            LET h == File(t).phdrs[i] IN
            \A k \in PageNumbers(h) :
                LET p == Translate(t, h.p_vaddr \div PageSize + k) IN
                /\ p # 0
                /\ \A w \in Cells : CleanWord(h, k, w, ram[p][w])

\* "allocate pages for MemSiz", "read from file" (elf.cpp): after load_elf
\* has returned ok, a segment is at its address, what the file has of it,
\* followed by zeros up to the end of its last page.
LoadedExact ==
    \A t \in Tasks : Apart /\ loader[t].pc = "ok" =>
        \A i \in DOMAIN File(t).phdrs :
            LET h == File(t).phdrs[i]
                last == ((h.p_vaddr + h.p_memsz - 1) \div PageSize + 1) * PageSize
            IN  h.load /\ h.p_memsz > 0 =>
                \A a \in h.p_vaddr .. last - 1 :
                    /\ Translate(t, a \div PageSize) # 0
                    /\ ram[Translate(t, a \div PageSize)][a % PageSize] =
                        IF a - h.p_vaddr < h.p_filesz
                        THEN Data(h.p_offset + a - h.p_vaddr) ELSE 0
=============================================================================
