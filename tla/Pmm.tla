---------------------------------- MODULE Pmm ----------------------------------
(***************************************************************************)
(* The physical memory manager, memory/pmm.c: a bitmap of frames, a set bit *)
(* meaning "used", and a count of the used frames.  kernel_main calls it   *)
(* alone (no handler and no system call does), so each call is one step.   *)
(*                                                                         *)
(* Its clients (kernel_main, elf_load, paging_map) follow the protocol of  *)
(* the code: they return only what they hold or what is free already, and  *)
(* take frames out of circulation (pmm_mark_used) that nobody holds.       *)
(***************************************************************************)
EXTENDS Integers, FiniteSetsExt

CONSTANTS
  PMM_PAGE_SIZE,
  PMM_MAX_FRAMES,      \* bits of pmm_bitmap
  MemStart, MemEnd     \* arguments of pmm_init: a range of addresses

ASSUME PmmAssumption ==
  /\ PMM_PAGE_SIZE \in Nat \ {0}
  /\ PMM_MAX_FRAMES \in Nat \ {0}
  /\ MemStart \in Nat /\ MemEnd \in Nat
  /\ MemStart >= PMM_PAGE_SIZE                  \* frame 0 is not managed
  /\ MemEnd - MemStart >= PMM_PAGE_SIZE
  /\ MemEnd <= PMM_MAX_FRAMES * PMM_PAGE_SIZE

VARIABLES
  pmm_bitmap,          \* frames whose bit is set
  pmm_total_frames,
  pmm_used_frames,
  held,                \* frames the clients hold
  reserved,            \* frames they have taken out of circulation
  ret                  \* value pmm_alloc returned last

pmmVars == <<pmm_bitmap, pmm_total_frames, pmm_used_frames>>
vars == <<pmmVars, held, reserved, ret>>

-----------------------------------------------------------------------------
Frames == 0..PMM_MAX_FRAMES-1

Frame(addr) == addr \div PMM_PAGE_SIZE
Address(f)  == f * PMM_PAGE_SIZE

Managed == LET n == (MemEnd - MemStart) \div PMM_PAGE_SIZE
           IN  Frame(MemStart)..Frame(MemStart) + n - 1

Clear == Frames \ pmm_bitmap

\* pmm_init is the first call of the boot sequence; until then pmm_bitmap is 0.
Initialised == pmm_total_frames > 0

-----------------------------------------------------------------------------
pmm_init_unshifted ==       \* mutant: clears the bits from frame 0 on
  LET n == (MemEnd - MemStart) \div PMM_PAGE_SIZE
  IN  /\ pmm_total_frames' = n
      /\ pmm_bitmap' = Frames \ (0..n-1)
      /\ pmm_used_frames' = 0

\* Everything used, then the usable range bit by bit.
pmm_init ==
  LET n == (MemEnd - MemStart) \div PMM_PAGE_SIZE
  IN  /\ pmm_total_frames' = n
      /\ pmm_bitmap' = Frames \ Managed
      /\ pmm_used_frames' = 0

pmm_mark_used(addr) ==
  \/ /\ Frame(addr) \notin pmm_bitmap
     /\ pmm_bitmap' = pmm_bitmap \cup {Frame(addr)}
     /\ pmm_used_frames' = pmm_used_frames + 1
     /\ UNCHANGED pmm_total_frames
  \/ Frame(addr) \in pmm_bitmap /\ UNCHANGED pmmVars

pmm_free_uncond(addr) ==    \* mutant: counts a free frame again
  /\ pmm_bitmap' = pmm_bitmap \ {Frame(addr)}
  /\ pmm_used_frames' = pmm_used_frames - 1
  /\ UNCHANGED pmm_total_frames

\* pmm_free is pmm_mark_free.
pmm_free(addr) ==
  \/ /\ Frame(addr) \in pmm_bitmap
     /\ pmm_bitmap' = pmm_bitmap \ {Frame(addr)}
     /\ pmm_used_frames' = pmm_used_frames - 1
     /\ UNCHANGED pmm_total_frames
  \/ Frame(addr) \notin pmm_bitmap /\ UNCHANGED pmmVars

pmm_alloc_keeps_bit ==      \* mutant: the bit of the frame is not set
  \/ /\ Clear # {}
     /\ pmm_used_frames' = pmm_used_frames + 1
     /\ ret' = Address(Min(Clear))
     /\ UNCHANGED <<pmm_bitmap, pmm_total_frames>>
  \/ Clear = {} /\ ret' = 0 /\ UNCHANGED pmmVars

\* Words, and bits in a word, are scanned upwards and full words skipped: the
\* scan meets the lowest clear bit first.  0 means out of memory.
pmm_alloc ==
  \/ /\ Clear # {}
     /\ pmm_bitmap' = pmm_bitmap \cup {Min(Clear)}
     /\ pmm_used_frames' = pmm_used_frames + 1
     /\ ret' = Address(Min(Clear))
     /\ UNCHANGED pmm_total_frames
  \/ Clear = {} /\ ret' = 0 /\ UNCHANGED pmmVars

pmm_free_frames == pmm_total_frames - pmm_used_frames

-----------------------------------------------------------------------------
Init ==
  /\ pmm_bitmap = {}
  /\ pmm_total_frames = 0
  /\ pmm_used_frames = 0
  /\ held = {}
  /\ reserved = {}
  /\ ret = 0

Setup ==
  /\ ~Initialised
  /\ pmm_init
  /\ UNCHANGED <<held, reserved, ret>>

Reserve ==
  /\ Initialised
  /\ \E f \in Frames \ held : /\ pmm_mark_used(Address(f))
                              /\ reserved' = reserved \cup {f}
  /\ UNCHANGED <<held, ret>>

Alloc ==
  /\ Initialised
  /\ pmm_alloc
  /\ held' = held \cup (IF ret' = 0 THEN {} ELSE {Frame(ret')})
  /\ UNCHANGED reserved

Free ==
  /\ Initialised
  /\ \E f \in held \cup Clear : pmm_free(Address(f)) /\ held' = held \ {f}
  /\ UNCHANGED <<reserved, ret>>

Next == Setup \/ Reserve \/ Alloc \/ Free

Spec == Init /\ [][Next]_vars

-----------------------------------------------------------------------------
(* Properties *)

\* The counter needs no width: it stays between 0 and pmm_total_frames.
TypeOK ==
  /\ pmm_bitmap \subseteq Frames
  /\ pmm_total_frames \in {0, Cardinality(Managed)}
  /\ pmm_used_frames \in 0..pmm_total_frames
  /\ held \subseteq Frames /\ reserved \subseteq Frames
  /\ ret \in {Address(f) : f \in Frames}

\* pmm_free_frames reports the number of frames that can be allocated, through
\* repeated reservations and repeated frees.
Accounting == Initialised => pmm_free_frames = Cardinality(Clear)

\* Every managed frame is free, held or reserved, and only one of these; frame
\* 0, whose address is pmm_alloc's "out of memory", is never free.
Partition ==
  Initialised => /\ Clear \subseteq Managed
                 /\ Clear \cap (held \cup reserved) = {}
                 /\ held \cap reserved = {}
                 /\ Managed \subseteq Clear \cup held \cup reserved

FA == INSTANCE FrameAllocator WITH
        Frames <- Managed,
        avail  <- IF Initialised THEN Clear ELSE Managed,
        given  <- held,
        Failed <- 0,
        answer <- Frame(ret)

\* pmm.h:14 "returns physical address of free frame": the bitmap implements
\* the abstract frame allocator, 0 being the answer that nothing is free.
ImplementsAllocator == FA!Spec
=============================================================================
