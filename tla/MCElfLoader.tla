----------------------------- MODULE MCElfLoader -----------------------------
(* Instances of ElfLoader.                                                  *)
EXTENDS ElfLoader, TLC

Segment(vaddr, offset, filesz, memsz) ==
    [load |-> TRUE, p_vaddr |-> vaddr, p_offset |-> offset,
     p_filesz |-> filesz, p_memsz |-> memsz]

Note == [load |-> FALSE, p_vaddr |-> 0, p_offset |-> 0, p_filesz |-> 1,
         p_memsz |-> 0]

Image(len, headers, phdrs) ==
    [len |-> len, supported |-> TRUE, phentsize |-> TRUE, headers |-> headers,
     phdrs |-> phdrs]

\* A segment that has a page and a half in the file; one with a page of zeros
\* behind it; a note and a segment that fills its page, in a file that ends
\* inside the segment; a file that ends before its program headers do; one
\* that is no executable; and two that load_elf asserts about.
SmallFiles ==
    << Image(4, 1, <<Segment(0, 1, 3, 4)>>),
       Image(2, 1, <<Segment(1, 1, 1, 3)>>),
       Image(2, 2, <<Note, Segment(4, 1, 2, 2)>>),
       Image(2, 0, <<Note>>),
       [Image(0, 0, <<>>) EXCEPT !.supported = FALSE],
       [Image(2, 1, <<Note>>) EXCEPT !.phentsize = FALSE],
       Image(2, 3, <<Note, Note, Note>>) >>

ASSUME FilesAssumption == FilesFit

Symmetry == Permutations(Tasks)

\* A segment of more than a page in the file.
LargeFile == << Image(4, 1, <<Segment(0, 1, 3, 4)>>) >>
=============================================================================
