-------------------------------- MODULE Memory --------------------------------
(***************************************************************************)
(* How kernel_main uses physical memory and the page tables to set up the  *)
(* two processes: init_paging and paging_map of memory/paging.c, elf_load  *)
(* of usr/elf_loader.c, on top of the allocator of module Pmm.             *)
(*                                                                         *)
(* A page holds PMM_PAGE_SIZE cells, the unit of addresses and sizes.  The *)
(* kernel writes through virtual addresses; the MMU walks page tables by   *)
(* physical address.  The two agree where the identity map is intact.      *)
(***************************************************************************)
EXTENDS Pmm, Sequences

CONSTANTS
  PAGE_ENTRIES,                  \* 1024: entries of a page table
  Directories,                   \* 1024: entries of page_directory
  IdentityTables,                \* 256: static tables mapping virt = phys
  KernelEnd,                     \* 0x00500000
  HeapFrom, HeapTo,              \* 0x00600000, 0x00700000
  ShellStack, BlinkyStack,       \* 0x00500000, 0x00900000: user stack tops
  Executables                    \* ELF files: is the header good, the segments

Segment == [load : BOOLEAN, vaddr : Nat, filesz : Nat, memsz : Nat]

Pages == 0..Directories * PAGE_ENTRIES - 1
pages_needed_down(s) == s.memsz \div PMM_PAGE_SIZE               \* mutant

pages_needed(s) == (s.memsz + PMM_PAGE_SIZE - 1) \div PMM_PAGE_SIZE

\* The pages below the user stacks' tops.
StackPages == {Frame(ShellStack) - 1, Frame(BlinkyStack) - 1}

\* The layout of anemoia.c:134-239: after the kernel there is room for the
\* frames of the self-test, then the heap, all in managed memory; the user
\* stacks lie in the identity map and the segments in the address space.
ASSUME MemoryAssumption ==
  /\ PAGE_ENTRIES \in Nat \ {0} /\ Directories \in Nat
  /\ IdentityTables \in 1..Directories
  /\ PMM_MAX_FRAMES <= IdentityTables * PAGE_ENTRIES
  /\ KernelEnd \in Nat /\ HeapFrom \in Nat /\ HeapTo \in Nat
  /\ Frame(MemStart) < Frame(KernelEnd) /\ Frame(KernelEnd) + 3 <= Frame(HeapFrom)
  /\ Frame(HeapFrom) < Frame(HeapTo) /\ Frame(HeapTo) - 1 \in Managed
  /\ ShellStack \in Nat /\ BlinkyStack \in Nat /\ Frame(ShellStack) # Frame(BlinkyStack)
  /\ StackPages \subseteq 0..IdentityTables * PAGE_ENTRIES - 1
  /\ \A x \in Executables :
       /\ x.valid \in BOOLEAN /\ x.phdr \in Seq(Segment)
       /\ \A i \in DOMAIN x.phdr :
            /\ x.phdr[i].filesz <= x.phdr[i].memsz
            /\ x.phdr[i].load => Frame(x.phdr[i].vaddr) + pages_needed(x.phdr[i])
                                   <= Directories * PAGE_ENTRIES

-----------------------------------------------------------------------------
(* What kernel_main assumes of an executable                                 *)

\* The pages elf_load maps for x: a program header, and a page of its segment.
Slots(x) == {s \in (DOMAIN x.phdr) \X Pages : /\ x.phdr[s[1]].load
                                           /\ s[2] < pages_needed(x.phdr[s[1]])}
SegPage(x, s) == Frame(x.phdr[s[1]].vaddr) + s[2]

UserPages(x) == StackPages \cup {SegPage(x, s) : s \in Slots(x)}
TableDirs(x) == {v \div PAGE_ENTRIES : v \in UserPages(x)} \ 0..IdentityTables-1

\* The frames for pages, stacks and tables, and those of them whose identity
\* mapping no user page covers: Below comes first.
Pool == Managed \ (Frame(MemStart)..Frame(KernelEnd) - 1 \cup
                   Frame(HeapFrom)..Frame(HeapTo) - 1)
Below(x) == {f \in Pool : \A v \in UserPages(x) : v >= Frame(KernelEnd) => f < v}

\* There is enough of it: for three frames of the self-test, four stacks, the
\* pages of the executable and their tables.  (512 frames between 0x500000 and
\* the 0x800000 of blinky.elf, which takes one page.)
Apart(x) ==
  /\ 0 \notin UserPages(x)
  /\ \A s \in Slots(x) : SegPage(x, s) \notin StackPages
  /\ \/ Below(x) = Pool
     \/ 7 + Cardinality(Slots(x)) + Cardinality(TableDirs(x)) <= Cardinality(Below(x))

\* The segments take up no more pages than their sizes say.
Snug(x) ==
  \A i \in DOMAIN x.phdr : x.phdr[i].load =>
    (x.phdr[i].vaddr % PMM_PAGE_SIZE) + x.phdr[i].memsz
      <= PMM_PAGE_SIZE * ((x.phdr[i].memsz + PMM_PAGE_SIZE - 1) \div PMM_PAGE_SIZE)

\* No two segments have a page in common.
Unshared(x) == \A s, t \in Slots(x) : SegPage(x, s) = SegPage(x, t) => s = t

VARIABLES
  dir,       \* page_directory: frame of the table, or Static, or NotPresent
  static,    \* page_tables: page -> frame
  table,     \* page tables allocated later: frame -> its entries
  cell,      \* contents of physical memory
  stage,     \* what kernel_main is setting up
  step,      \* and which call of it comes next
  phys,      \* frame it got for that
  page,      \* loop counter: pages marked, or mapped for a segment
  elf, seg,  \* the executable, and the segment elf_load is at
  image,     \* frames elf_load has mapped
  loaded,    \* elf_load has returned the entry point
  kstacks, ustacks,   \* frames in use as stacks
  failed              \* a pmm_alloc returned 0

pagingVars == <<dir, static, table>>
clientVars == <<held, reserved, ret>>
loadVars   == <<elf, seg, image, loaded>>
stackVars  == <<kstacks, ustacks>>
memVars == <<vars, pagingVars, cell, stage, step, phys, page, loadVars,
             stackVars, failed>>

-----------------------------------------------------------------------------
NotPresent == -1
Static     == -2

\* Contents of a cell that nothing relevant has been written to, and of .bss
Junk == <<-1, 0>>
Zero == <<0, 0>>

\* The frame the MMU finds for a page
Translate(v) ==
  LET d == dir[v \div PAGE_ENTRIES]
  IN  IF d = Static THEN static[v]
      ELSE IF d = NotPresent THEN NotPresent
      ELSE table[d][v % PAGE_ENTRIES]

\* The physical address behind a virtual one
Physical(a) == Translate(Frame(a)) * PMM_PAGE_SIZE + (a % PMM_PAGE_SIZE)
Mapped(a)   == Frame(a) \in Pages /\ Translate(Frame(a)) # NotPresent

-----------------------------------------------------------------------------
(* Memory phase of kernel_main: reserve the kernel, test, reserve the heap  *)

Then(st, sp) == stage' = st /\ step' = sp

KernelReserve ==
  /\ stage = "boot" /\ step = "init"
  /\ Setup
  /\ Then("boot", "kernel")
  /\ UNCHANGED <<pagingVars, cell, phys, page, loadVars, stackVars, failed>>

FirstFromPool == IF step = "kernel" THEN Frame(MemStart) ELSE Frame(KernelEnd) \* mutant

\* The ranges that kernel_main marks, page by page
First == IF step = "kernel" THEN Frame(MemStart) ELSE Frame(HeapFrom)
Last  == Frame(IF step = "kernel" THEN KernelEnd ELSE HeapTo) - 1

Mark ==
  /\ stage = "boot" /\ step \in {"kernel", "heap"}
  /\ LET f == First + page
     IN  /\ pmm_mark_used(Address(f))
         /\ reserved' = reserved \cup {f}
         /\ IF f < Last THEN page' = page + 1 /\ UNCHANGED <<stage, step>>
            ELSE /\ page' = 0
                 /\ IF step = "kernel" THEN Then("boot", "frame1")
                    ELSE Then("shell_kstack", "alloc")
  /\ UNCHANGED <<held, ret, pagingVars, cell, phys, loadVars, stackVars, failed>>

\* frame1, frame2, frame3 = pmm_alloc(); pmm_free(frame2); frame4 = pmm_alloc()
SelfTest ==
  /\ stage = "boot"
  /\ \/ /\ step \in {"frame1", "frame2", "frame3", "frame4"}
        /\ Alloc
        /\ failed' = (failed \/ ret' = 0)
        /\ phys' = IF step = "frame2" THEN Frame(ret') ELSE phys
        /\ Then("boot", CASE step = "frame1" -> "frame2" [] step = "frame2" -> "frame3"
                          [] step = "frame3" -> "free"   [] step = "frame4" -> "heap")
     \/ /\ step = "free"
        /\ pmm_free(Address(phys))
        /\ held' = held \ {phys}
        /\ Then("boot", "frame4")
        /\ UNCHANGED <<reserved, ret, phys, failed>>
  /\ UNCHANGED <<pagingVars, cell, page, loadVars, stackVars>>

-----------------------------------------------------------------------------
(* pmm_alloc, then paging_map(virt, phys), for each page kernel_main and    *)
(* elf_load set up                                                          *)

Phdr == elf.phdr[seg]

\* Page that the frame just allocated is mapped at
Virt == CASE stage \in {"shell_kstack", "blinky_kstack"} -> phys
          [] stage = "shell_ustack"  -> Frame(ShellStack) - 1
          [] stage = "blinky_ustack" -> Frame(BlinkyStack) - 1
          [] stage = "elf"           -> Frame(Phdr.vaddr) + page

SetUp == {"shell_kstack", "shell_ustack", "elf", "blinky_kstack", "blinky_ustack"}

AfterMap ==
  CASE stage = "shell_kstack"  -> Then("shell_ustack", "alloc")
    [] stage = "shell_ustack"  -> Then("elf", "verify")
    [] stage = "elf"           -> Then("elf", "header")
    [] stage = "blinky_kstack" -> Then("blinky_ustack", "alloc")
    [] stage = "blinky_ustack" -> Then("done", "done")

\* Only elf_load looks at the 0 of an exhausted allocator.
AllocPage ==
  /\ stage \in SetUp /\ step = "alloc"
  /\ Alloc
  /\ phys' = Frame(ret')
  /\ failed' = (failed \/ ret' = 0)
  /\ IF stage = "elf" /\ ret' = 0
     THEN Then("blinky_kstack", "alloc") ELSE Then(stage, "table")
  /\ UNCHANGED <<pagingVars, cell, page, loadVars, stackVars>>

ZeroTable == [e \in 0..PAGE_ENTRIES-1 |-> NotPresent]

\* paging_map: a page table for a directory entry that has none, zeroed through
\* its physical address used as a virtual one.  pmm_alloc is not checked.
NewTable ==
  /\ stage \in SetUp /\ step = "table"
  /\ LET d == Virt \div PAGE_ENTRIES
     IN  \/ /\ dir[d] = NotPresent
            /\ Alloc
            /\ failed' = (failed \/ ret' = 0)
            /\ dir' = [dir EXCEPT ![d] = Frame(ret')]
            /\ table' = [table EXCEPT ![Translate(Frame(ret'))] = ZeroTable]
         \/ /\ dir[d] # NotPresent
            /\ UNCHANGED <<vars, failed, dir, table>>
  /\ Then(stage, "map")
  /\ UNCHANGED <<static, cell, phys, page, loadVars, stackVars>>

MapEntryOfFrame ==           \* mutant: the entry of the frame, not of the page
  LET d == dir[Virt \div PAGE_ENTRIES]
  IN  IF d = Static
      THEN static' = [static EXCEPT ![phys] = phys] /\ UNCHANGED table
      ELSE /\ table' = [table EXCEPT ![Translate(d)][phys % PAGE_ENTRIES] = phys]
           /\ UNCHANGED static

\* table[table_index] = phys, again through the identity map
MapEntry ==
  LET d == dir[Virt \div PAGE_ENTRIES]
  IN  IF d = Static
      THEN static' = [static EXCEPT ![Virt] = phys] /\ UNCHANGED table
      ELSE /\ table' = [table EXCEPT ![Translate(d)][Virt % PAGE_ENTRIES] = phys]
           /\ UNCHANGED static

Map ==
  /\ stage \in SetUp /\ step = "map"
  /\ MapEntry
  /\ page'  = IF stage = "elf" THEN page + 1 ELSE page
  /\ image' = IF stage = "elf" THEN image \cup {phys} ELSE image
  /\ kstacks' = IF stage \in {"shell_kstack", "blinky_kstack"}
                THEN Append(kstacks, phys) ELSE kstacks
  /\ ustacks' = IF stage \in {"shell_ustack", "blinky_ustack"}
                THEN Append(ustacks, phys) ELSE ustacks
  /\ AfterMap
  /\ UNCHANGED <<vars, dir, cell, phys, elf, seg, loaded, failed>>

-----------------------------------------------------------------------------
(* elf_load: the pages of each PT_LOAD header, then its contents to vaddr   *)

\* Bad magic or type: elf_load returns 0, which kernel_main does not look at.
ElfVerify ==
  /\ stage = "elf" /\ step = "verify"
  /\ IF elf.valid THEN Then("elf", "header") ELSE Then("blinky_kstack", "alloc")
  /\ UNCHANGED <<vars, pagingVars, cell, phys, page, loadVars, stackVars, failed>>

ElfHeader ==
  /\ stage = "elf" /\ step = "header"
  /\ IF seg > Len(elf.phdr)
     THEN Then("blinky_kstack", "alloc") /\ loaded' = TRUE /\ UNCHANGED seg
     ELSE /\ IF ~Phdr.load THEN seg' = seg + 1 /\ Then("elf", "header")
             ELSE /\ Then("elf", IF page < pages_needed(Phdr) THEN "alloc" ELSE "copy")
                  /\ UNCHANGED seg
          /\ UNCHANGED loaded
  /\ UNCHANGED <<vars, pagingVars, cell, phys, page, elf, image, stackVars, failed>>

ImageNoZero(i, n) == IF n < elf.phdr[i].filesz THEN <<i, n>> ELSE Junk   \* mutant

\* What belongs at offset n of segment i
Image(i, n) == IF n < elf.phdr[i].filesz THEN <<i, n>> ELSE Zero

\* A write to a page that is not mapped faults again for ever: the handler
\* returns to the instruction that faulted.
ElfCopy ==
  /\ stage = "elf" /\ step = "copy"
  /\ LET To(n)  == Physical(Phdr.vaddr + n)
         Hit(x) == {n \in 0..Phdr.memsz-1 : To(n) = x}
     IN  IF \A n \in 0..Phdr.memsz-1 : Mapped(Phdr.vaddr + n)
         THEN /\ cell' = [x \in DOMAIN cell |->
                   IF Hit(x) = {} THEN cell[x] ELSE Image(seg, Max(Hit(x)))]
              /\ seg' = seg + 1 /\ page' = 0
              /\ Then("elf", "header")
         ELSE Then("fault", "fault") /\ UNCHANGED <<cell, seg, page>>
  /\ UNCHANGED <<vars, pagingVars, phys, elf, image, loaded, stackVars, failed>>

-----------------------------------------------------------------------------
\* init_paging
PagingInit ==
  /\ dir = [d \in 0..Directories-1 |-> IF d < IdentityTables THEN Static
                                       ELSE NotPresent]
  /\ static = [v \in 0..IdentityTables * PAGE_ENTRIES - 1 |-> v]
  /\ table = [f \in Frames |-> ZeroTable]

MemInit ==
  /\ Init /\ PagingInit
  /\ cell = [x \in 0..PMM_MAX_FRAMES * PMM_PAGE_SIZE - 1 |-> Junk]
  /\ stage = "boot" /\ step = "init"
  /\ phys = 0 /\ page = 0
  /\ elf \in Executables /\ seg = 1 /\ image = {} /\ loaded = FALSE
  /\ kstacks = <<>> /\ ustacks = <<>>
  /\ failed = FALSE

MemNext == \/ KernelReserve \/ Mark \/ SelfTest
           \/ AllocPage \/ NewTable \/ Map
           \/ ElfVerify \/ ElfHeader \/ ElfCopy

MemSpec == MemInit /\ [][MemNext]_memVars

-----------------------------------------------------------------------------
(* Properties *)

Tables == {dir[d] : d \in DOMAIN dir} \ {Static, NotPresent}

SeqSet(s) == {s[i] : i \in DOMAIN s}

\* Module Pmm assumes of its clients that they return what they hold and reserve
\* what nobody holds: the calls of kernel_main, elf_load and paging_map do.
FollowsProtocol == Spec

\* The stacks work: the kernel stack of a process at its physical address (the
\* TSS holds that), the user stack at the page below the top kernel_main passes
\* to process_create, whatever is mapped after them.
StacksReachable ==
  ~failed =>
    /\ \A i \in DOMAIN kstacks : Translate(kstacks[i]) = kstacks[i]
    /\ \A i \in DOMAIN ustacks :
         Translate(Frame(<<ShellStack, BlinkyStack>>[i]) - 1) = ustacks[i]

\* No frame has two uses: stacks, page tables, the pages of the executable, the
\* kernel and the heap are disjoint, and all but the last two are allocated.
FramesExclusive ==
  ~failed =>
    LET uses == SeqSet(kstacks) \cup SeqSet(ustacks) \cup Tables \cup image
    IN  /\ Cardinality(uses) = Len(kstacks) + Len(ustacks)
                                 + Cardinality(Tables) + Cardinality(image)
        /\ uses \subseteq held
        /\ uses \cap (Frame(HeapFrom)..Frame(HeapTo)-1
                        \cup Frame(MemStart)..Frame(KernelEnd)-1) = {}

\* elf_loader.h:34 and 37: once elf_load has returned the entry point, the file's
\* contents of every segment are at its vaddr and the rest of it is zero, and
\* stay there while kernel_main goes on.
SegmentsLoaded ==
  loaded => \A i \in DOMAIN elf.phdr :
    elf.phdr[i].load =>
      \A n \in 0..elf.phdr[i].memsz-1 :
        LET a == elf.phdr[i].vaddr + n
        IN  /\ Mapped(a)
            /\ cell[Physical(a)] = IF n < elf.phdr[i].filesz THEN <<i, n>> ELSE Zero

\* elf_load writes to frames it has allocated and to no others.
NoStrayWrite ==
  \A x \in DOMAIN cell : cell[x] # Junk => Frame(x) \in image
=============================================================================
