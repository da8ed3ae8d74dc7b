------------------------------ MODULE MCMemory ------------------------------
(* Executables for module Memory, with pages of two cells.                   *)
EXTENDS Memory

CONSTANTS LowPage, HighPage   \* in the identity map above the heap, and above it

At(p) == p * PMM_PAGE_SIZE

Seg(v, f, m) == [load |-> TRUE, vaddr |-> v, filesz |-> f, memsz |-> m]

\* PT_GNU_STACK, as in blinky.elf
GnuStack == [load |-> FALSE, vaddr |-> 0, filesz |-> 0, memsz |-> 0]

Sizes == {<<0, 0>>, <<0, 1>>, <<1, 1>>, <<1, 2>>, <<2, 3>>, <<3, 4>>}

FirstSegment == {Seg(At(p), z[1], z[2]) : p \in {LowPage, HighPage}, z \in Sizes}
            \cup {Seg(At(LowPage) + 1, 1, 1)}

Second == {GnuStack} \cup
          {Seg(At(p) + 2 * PMM_PAGE_SIZE, z[1], z[2]) : p \in {LowPage, HighPage},
                                                       z \in {<<1, 1>>, <<1, 3>>}}

\* Executables that elf_load is made for: a segment takes up no more pages than
\* its size says, and no two segments have a page in common.
PageAligned ==
  {[valid |-> TRUE, phdr |-> <<s, t>>] : s \in FirstSegment, t \in Second}
    \cup {[valid |-> FALSE, phdr |-> <<Seg(At(LowPage), 1, 1)>>]}
    \cup {[valid |-> TRUE, phdr |-> <<Seg(At(HighPage), 1, m)>>] : m \in 5..24}

ASSUME MemoryLayout == \A x \in PageAligned : Apart(x) /\ Snug(x) /\ Unshared(x)
=============================================================================
