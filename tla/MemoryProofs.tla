------------------------------ MODULE MemoryProofs ------------------------------
(***************************************************************************)
(* Theorems about Pmm, for every page size, bitmap size and memory range,  *)
(* and about Memory, for every layout that MemoryAssumption allows.        *)
(* For every executable: kernel_main, elf_load and paging_map keep to the  *)
(* protocol of the frame allocator, so that what is proved of Pmm holds of *)
(* the kernel, and no frame gets two uses.  For executables that leave     *)
(* enough frames alone (Room): the stacks stay reachable; whose segments   *)
(* fit their pages (Tight) and share none (Disjoint): they are loaded.     *)
(***************************************************************************)
EXTENDS Memory, NatLemmas, FiniteSetTheorems, SequenceTheorems

-----------------------------------------------------------------------------
(* The allocator *)

\* The inductive invariant: between calls the bitmap, the counter and the
\* clients' view agree; before pmm_init nothing has happened.
PmmInv ==
  /\ TypeOK
  /\ Accounting
  /\ Partition
  /\ held \subseteq Managed
  /\ ~Initialised => /\ pmm_used_frames = 0
                     /\ held = {} /\ reserved = {} /\ ret = 0

-----------------------------------------------------------------------------
(* Arithmetic of the managed range *)

\* pmm_init manages at least one frame, all of them in the bitmap, never frame 0.
LEMMA ManagedRange ==
  /\ Managed \subseteq Frames \ {0}
  /\ IsFiniteSet(Managed)
  /\ Cardinality(Managed) = (MemEnd - MemStart) \div PMM_PAGE_SIZE
  /\ Cardinality(Managed) \in Nat \ {0}
<1> DEFINE P == PMM_PAGE_SIZE
           n == (MemEnd - MemStart) \div P
           s == MemStart \div P
<1>1. P \in Nat \ {0} /\ PMM_MAX_FRAMES \in Nat \ {0}
      /\ MemStart \in Nat /\ MemEnd \in Nat
      /\ MemStart >= P /\ MemEnd - MemStart >= P /\ MemEnd <= PMM_MAX_FRAMES * P
  BY PmmAssumption
<1>2. n \in Int /\ n * P <= MemEnd - MemStart /\ MemEnd - MemStart < (n + 1) * P
  <2> HIDE DEF P
  <2>1. MemEnd - MemStart \in Int  BY <1>1
  <2> QED BY <2>1, <1>1, Z3
<1>3. s \in Int /\ s * P <= MemStart /\ MemStart < (s + 1) * P
  <2> HIDE DEF P
  <2> QED BY <1>1, Z3
<1>4. Managed = s..s + n - 1  BY DEF Managed, Frame
<1> HIDE DEF P, n, s
<1>5. n >= 1
  <2> SUFFICES ASSUME n + 1 <= 1 PROVE FALSE  BY <1>2
  <2>1. (n + 1) * P <= 1 * P  BY <1>1, <1>2
  <2> QED BY <2>1, <1>1, <1>2
<1>6. s >= 1
  <2> SUFFICES ASSUME s + 1 <= 1 PROVE FALSE  BY <1>3
  <2>1. (s + 1) * P <= 1 * P  BY <1>1, <1>3
  <2> QED BY <2>1, <1>1, <1>3
<1>7. s + n <= PMM_MAX_FRAMES
  <2>1. (s + n) * P <= PMM_MAX_FRAMES * P
    <3>1. (s + n) * P = s * P + n * P  BY <1>1, <1>2, <1>3
    <3>2. s * P \in Int /\ n * P \in Int /\ PMM_MAX_FRAMES * P \in Int
      BY <1>1, <1>2, <1>3
    <3> QED BY <3>1, <3>2, <1>1, <1>2, <1>3
  <2> SUFFICES ASSUME PMM_MAX_FRAMES + 1 <= s + n PROVE FALSE
    BY <1>1, <1>2, <1>3
  <2>2. (PMM_MAX_FRAMES + 1) * P <= (s + n) * P  BY <1>1, <1>2, <1>3
  <2>3. (PMM_MAX_FRAMES + 1) * P = PMM_MAX_FRAMES * P + P  BY <1>1
  <2> QED BY <2>1, <2>2, <2>3, <1>1, <1>2, <1>3
<1>8. Managed \subseteq Frames \ {0}
  BY <1>1, <1>2, <1>3, <1>4, <1>6, <1>7 DEF Frames
<1>9. IsFiniteSet(Managed) /\ Cardinality(Managed) = n
  BY <1>2, <1>3, <1>4, <1>5, FS_Interval
<1> QED BY <1>2, <1>5, <1>8, <1>9 DEF n, P

\* A frame is recovered from its address.
LEMMA FrameOfAddress ==
  ASSUME NEW f \in Frames
  PROVE  /\ Frame(Address(f)) = f
         /\ f # 0 => Address(f) # 0
         /\ Address(0) = 0 /\ Frame(0) = 0
<1>1. PMM_PAGE_SIZE \in Nat \ {0} /\ f \in Nat
  BY PmmAssumption DEF Frames
<1>2. Frame(Address(f)) = f  BY <1>1, DivMul DEF Frame, Address
<1>3. Address(0) = 0  BY <1>1 DEF Address
<1>4. Frame(0) = 0
  <2>1. 0 * PMM_PAGE_SIZE = 0  BY <1>1
  <2>2. (0 * PMM_PAGE_SIZE) \div PMM_PAGE_SIZE = 0  BY <1>1, DivMul
  <2> QED BY <2>1, <2>2 DEF Frame
<1> QED BY <1>2, <1>3, <1>4

-----------------------------------------------------------------------------
(* Every step preserves the invariant *)

\* Shared by all steps after pmm_init: the frames that are clear are managed,
\* hence finite and countable.
LEMMA ClearFinite ==
  ASSUME PmmInv, Initialised
  PROVE  /\ IsFiniteSet(Clear)
         /\ Cardinality(Clear) \in Nat
         /\ pmm_total_frames = Cardinality(Managed)
         /\ pmm_total_frames \in Nat /\ pmm_used_frames \in Nat
         /\ pmm_total_frames - pmm_used_frames = Cardinality(Clear)
<1>1. Clear \in SUBSET Managed  BY DEF PmmInv, Partition
<1>2. IsFiniteSet(Clear)  BY <1>1, ManagedRange, FS_Subset
<1>3. pmm_total_frames = Cardinality(Managed)
  BY ManagedRange DEF PmmInv, TypeOK, Initialised
<1> QED BY <1>2, <1>3, ManagedRange, FS_CardinalityType
        DEF PmmInv, TypeOK, Accounting, pmm_free_frames

\* The counter follows the clear bits: it is enough to know them afterwards.
LEMMA CounterFollows ==
  ASSUME PmmInv, Initialised,
         pmm_total_frames' = pmm_total_frames,
         Clear' \subseteq Managed,
         pmm_total_frames' - pmm_used_frames' = Cardinality(Clear'),
         pmm_used_frames' \in Int
  PROVE  /\ Accounting'
         /\ pmm_used_frames' \in 0..pmm_total_frames'
<1>1. IsFiniteSet(Clear') /\ Cardinality(Clear') <= Cardinality(Managed)
  <2>1. Clear' \in SUBSET Managed  OBVIOUS
  <2> QED BY <2>1, ManagedRange, FS_Subset
<1>2. Cardinality(Clear') \in Nat  BY <1>1, FS_CardinalityType
<1>3. pmm_total_frames = Cardinality(Managed) /\ pmm_total_frames \in Nat
  BY ClearFinite
<1> QED BY <1>1, <1>2, <1>3 DEF Accounting, pmm_free_frames

LEMMA SetupStep ==
  ASSUME PmmInv, Setup
  PROVE  PmmInv' /\ Initialised' /\ Clear' = Managed
<1> DEFINE n == (MemEnd - MemStart) \div PMM_PAGE_SIZE
<1>1. /\ pmm_total_frames' = Cardinality(Managed)
      /\ pmm_bitmap' = Frames \ Managed
      /\ pmm_used_frames' = 0
      /\ held' = {} /\ reserved' = {} /\ ret' = 0
  BY ManagedRange DEF Setup, pmm_init, PmmInv
<1>2. Clear' = Managed  BY <1>1, ManagedRange DEF Clear
<1>3. Initialised'  BY <1>1, ManagedRange DEF Initialised
<1>4. TypeOK'
  BY <1>1, ManagedRange DEF PmmInv, TypeOK, Setup
<1>5. Accounting'
  BY <1>1, <1>2, ManagedRange DEF Accounting, pmm_free_frames
<1>6. Partition'  BY <1>1, <1>2 DEF Partition
<1> QED BY <1>1, <1>2, <1>3, <1>4, <1>5, <1>6 DEF PmmInv

LEMMA ReserveStep ==
  ASSUME PmmInv, Reserve
  PROVE  PmmInv' /\ Initialised'
         /\ held' = held /\ ret' = ret
         /\ (Clear' = Clear \/ \E f \in Clear : Clear' = Clear \ {f})
<1> PICK f \in Frames \ held : /\ pmm_mark_used(Address(f))
                               /\ reserved' = reserved \cup {f}
  BY DEF Reserve
<1>1. Initialised /\ held' = held /\ ret' = ret  BY DEF Reserve
<1>2. Frame(Address(f)) = f  BY FrameOfAddress
<1>3. pmm_bitmap' = pmm_bitmap \cup {f} /\ pmm_total_frames' = pmm_total_frames
  BY <1>2 DEF pmm_mark_used, pmmVars
<1>4. Clear' = Clear \ {f}  BY <1>3 DEF Clear
<1>5. /\ pmm_used_frames' \in Int
      /\ pmm_total_frames' - pmm_used_frames' = Cardinality(Clear')
  <2>1. CASE f \in Clear
    <3>1. pmm_used_frames' = pmm_used_frames + 1
      BY <1>2, <2>1 DEF pmm_mark_used, Clear
    <3> QED BY <3>1, <1>1, <1>3, <1>4, <2>1, ClearFinite, FS_RemoveElement
  <2>2. CASE f \notin Clear
    <3>1. pmm_used_frames' = pmm_used_frames /\ Clear' = Clear
      BY <1>2, <1>4, <2>2 DEF pmm_mark_used, Clear, pmmVars
    <3> QED BY <3>1, <1>1, <1>3, ClearFinite
  <2> QED BY <2>1, <2>2
<1>6. Partition'
  BY <1>1, <1>4 DEF PmmInv, Partition, Initialised
<1>7. Clear' \subseteq Managed  BY <1>1, <1>4 DEF PmmInv, Partition
<1>8. Accounting' /\ pmm_used_frames' \in 0..pmm_total_frames'
  BY <1>1, <1>3, <1>5, <1>7, CounterFollows
<1>9. TypeOK'
  BY <1>1, <1>3, <1>8 DEF PmmInv, TypeOK
<1>10. Initialised'  BY <1>1, <1>3 DEF Initialised
<1>11. Clear' = Clear \/ \E g \in Clear : Clear' = Clear \ {g}
  BY <1>4
<1> QED BY <1>1, <1>6, <1>8, <1>9, <1>10, <1>11 DEF PmmInv

LEMMA AllocStep ==
  ASSUME PmmInv, Alloc
  PROVE  /\ PmmInv' /\ Initialised'
         /\ \/ \E f \in Clear : /\ Clear' = Clear \ {f}
                                /\ held' = held \cup {f}
                                /\ Frame(ret') = f
            \/ Clear = {} /\ Clear' = {} /\ held' = held /\ Frame(ret') = 0
<1>1. Initialised /\ reserved' = reserved  BY DEF Alloc
<1>2. CASE Clear = {}
  <2>1. /\ pmmVars' = pmmVars /\ ret' = 0
        /\ held' = held
    BY <1>2 DEF Alloc, pmm_alloc
  <2>2. 0 \in Frames /\ Address(0) = 0 /\ Frame(0) = 0
    <3>1. 0 \in Frames  BY PmmAssumption DEF Frames
    <3> QED BY <3>1, FrameOfAddress
  <2>3. Clear' = Clear  BY <2>1 DEF pmmVars, Clear
  <2>4. Initialised'  BY <1>1, <2>1 DEF Initialised, pmmVars
  <2>5. TypeOK'  BY <1>1, <2>1, <2>2 DEF PmmInv, TypeOK, pmmVars
  <2>6. Accounting' /\ Partition'
    BY <1>1, <2>1, <2>3, <2>4
       DEF PmmInv, Accounting, Partition, pmm_free_frames, pmmVars
  <2> QED BY <1>1, <1>2, <2>1, <2>2, <2>3, <2>4, <2>5, <2>6 DEF PmmInv
<1>3. CASE Clear # {}
  <2> DEFINE f == Min(Clear)
  <2>1. Clear \subseteq Managed  BY <1>1 DEF PmmInv, Partition
  <2>2. f \in Clear
    <3>1. Clear \subseteq Nat  BY DEF Clear, Frames
    <3> QED BY <1>3, <3>1, MinIn
  <2>3. /\ pmm_bitmap' = pmm_bitmap \cup {f}
        /\ pmm_used_frames' = pmm_used_frames + 1
        /\ ret' = Address(f)
        /\ pmm_total_frames' = pmm_total_frames
    BY <1>3 DEF Alloc, pmm_alloc
  <2> HIDE DEF f
  <2>4. f \in Frames \ {0} /\ f \in Managed  BY <2>1, <2>2, ManagedRange
  <2>5. Frame(ret') = f /\ ret' # 0  BY <2>3, <2>4, FrameOfAddress
  <2>6. held' = held \cup {f}  BY <2>5 DEF Alloc
  <2>7. Clear' = Clear \ {f}  BY <2>3 DEF Clear
  <2>8. /\ pmm_used_frames' \in Int
        /\ pmm_total_frames' - pmm_used_frames' = Cardinality(Clear')
    BY <1>1, <2>2, <2>3, <2>7, ClearFinite, FS_RemoveElement
  <2>9. Accounting' /\ pmm_used_frames' \in 0..pmm_total_frames'
    BY <1>1, <2>1, <2>3, <2>7, <2>8, CounterFollows
  <2>10. TypeOK'
    BY <1>1, <2>3, <2>4, <2>6, <2>9 DEF PmmInv, TypeOK
  <2>11. Initialised'  BY <1>1, <2>3 DEF Initialised
  <2>12. Partition'
    BY <1>1, <2>2, <2>6, <2>7 DEF PmmInv, Partition
  <2>13. PmmInv'
    BY <2>4, <2>6, <2>9, <2>10, <2>11, <2>12 DEF PmmInv
  <2> QED BY <2>2, <2>5, <2>6, <2>7, <2>11, <2>13
<1> QED BY <1>2, <1>3

LEMMA FreeStep ==
  ASSUME PmmInv, Free
  PROVE  /\ PmmInv' /\ Initialised' /\ ret' = ret
         /\ \/ \E f \in held : held' = held \ {f} /\ Clear' = Clear \cup {f}
            \/ held' = held /\ Clear' = Clear
<1> PICK f \in held \cup Clear : pmm_free(Address(f)) /\ held' = held \ {f}
  BY DEF Free
<1>1. Initialised /\ reserved' = reserved /\ ret' = ret  BY DEF Free
<1>2. f \in Frames /\ f \in Managed
  BY <1>1, ManagedRange DEF PmmInv, Partition, TypeOK, Clear
<1>3. Frame(Address(f)) = f  BY <1>2, FrameOfAddress
<1>4. pmm_bitmap' = pmm_bitmap \ {f} /\ pmm_total_frames' = pmm_total_frames
  BY <1>3 DEF pmm_free, pmmVars
<1>5. Clear' = Clear \cup {f}  BY <1>2, <1>4 DEF Clear
<1>6. f \in Clear => f \notin held  BY <1>1 DEF PmmInv, Partition
<1>7. /\ pmm_used_frames' \in Int
      /\ pmm_total_frames' - pmm_used_frames' = Cardinality(Clear')
  <2>1. CASE f \in Clear
    <3>1. pmm_used_frames' = pmm_used_frames /\ Clear' = Clear
      BY <1>3, <1>5, <2>1 DEF pmm_free, Clear, pmmVars
    <3> QED BY <3>1, <1>1, <1>4, ClearFinite
  <2>2. CASE f \notin Clear
    <3>1. pmm_used_frames' = pmm_used_frames - 1
      BY <1>2, <1>3, <2>2 DEF pmm_free, Clear
    <3>2. Cardinality(Clear') = Cardinality(Clear) + 1
      BY <1>1, <1>5, <2>2, ClearFinite, FS_AddElement
    <3> QED BY <3>1, <3>2, <1>1, <1>4, ClearFinite
  <2> QED BY <2>1, <2>2
<1>8. Clear' \subseteq Managed  BY <1>1, <1>2, <1>5 DEF PmmInv, Partition
<1>9. Accounting' /\ pmm_used_frames' \in 0..pmm_total_frames'
  BY <1>1, <1>4, <1>7, <1>8, CounterFollows
<1>10. TypeOK'  BY <1>1, <1>4, <1>9 DEF PmmInv, TypeOK
<1>11. Initialised'  BY <1>1, <1>4 DEF Initialised
<1>12. Partition'
  BY <1>1, <1>5, <1>6, <1>8 DEF PmmInv, Partition
<1>13. PmmInv'  BY <1>9, <1>10, <1>11, <1>12 DEF PmmInv
<1> QED BY <1>1, <1>5, <1>6, <1>11, <1>13

LEMMA StutterStep ==
  ASSUME PmmInv, UNCHANGED vars
  PROVE  PmmInv'
BY DEF vars, pmmVars, PmmInv, TypeOK, Accounting, Partition, Initialised, Clear,
       pmm_free_frames

LEMMA InitInv == Init => PmmInv
<1> SUFFICES ASSUME Init PROVE PmmInv  OBVIOUS
<1>1. ~Initialised  BY DEF Init, Initialised
<1>2. ret \in {Address(f) : f \in Frames}
  <2>1. 0 \in Frames  BY PmmAssumption DEF Frames
  <2> QED BY <2>1, FrameOfAddress DEF Init
<1> QED BY <1>1, <1>2 DEF Init, PmmInv, TypeOK, Accounting, Partition

-----------------------------------------------------------------------------
(* Theorems *)

\* The bitmap, the counter and the clients' view agree in every reachable state.
THEOREM PmmInductive == Spec => []PmmInv
<1>1. PmmInv /\ [Next]_vars => PmmInv'
  BY SetupStep, ReserveStep, AllocStep, FreeStep, StutterStep DEF Next
<1> QED BY InitInv, <1>1, PTL DEF Spec

\* pmm_free_frames (pmm.c:85-87) is exact, whatever is reserved or freed twice.
THEOREM AccountingHolds == Spec => []Accounting
<1>1. PmmInv => Accounting  BY DEF PmmInv
<1> QED BY PmmInductive, <1>1, PTL

\* No frame is free and in use, or held and reserved, and frame 0 never free.
THEOREM PartitionHolds == Spec => []Partition
<1>1. PmmInv => Partition  BY DEF PmmInv
<1> QED BY PmmInductive, <1>1, PTL

\* pmm.c implements the abstract frame allocator.
THEOREM AllocatorHolds == Spec => ImplementsAllocator
<1> USE DEF FA!Init, FA!Next, FA!Request, FA!GiveBack, FA!Withdraw, FA!vars
<1>1. Init => FA!Init
  <2>1. 0 \in Frames  BY PmmAssumption DEF Frames
  <2>2. Frame(0) = 0  BY <2>1, FrameOfAddress
  <2> QED BY <2>2 DEF Init, Initialised
<1>2. PmmInv /\ [Next]_vars => [FA!Next]_FA!vars
  <2> SUFFICES ASSUME PmmInv, [Next]_vars PROVE [FA!Next]_FA!vars  OBVIOUS
  <2>1. CASE Setup
    <3>1. ~Initialised /\ held' = held /\ ret' = ret  BY <2>1 DEF Setup
    <3> QED BY <2>1, <3>1, SetupStep DEF Frame
  <2>2. CASE Reserve
    <3>1. Initialised  BY <2>2 DEF Reserve
    <3> QED BY <2>2, <3>1, ReserveStep DEF Frame
  <2>3. CASE Alloc
    <3>1. Initialised  BY <2>3 DEF Alloc
    <3> QED BY <2>3, <3>1, AllocStep
  <2>4. CASE Free
    <3>1. Initialised  BY <2>4 DEF Free
    <3> QED BY <2>4, <3>1, FreeStep DEF Frame
  <2>5. CASE UNCHANGED vars
    BY <2>5 DEF vars, pmmVars, Initialised, Clear, Frame
  <2> QED BY <2>1, <2>2, <2>3, <2>4, <2>5 DEF Next
<1> QED BY PmmInductive, <1>1, <1>2, PTL DEF Spec, ImplementsAllocator, FA!Spec

-----------------------------------------------------------------------------
(* The layout in frames *)

KernelFirst == Frame(MemStart)
PoolFirst   == Frame(KernelEnd)
HeapFirst   == Frame(HeapFrom)
HeapLast    == Frame(HeapTo) - 1

Kernel == KernelFirst..PoolFirst - 1
HeapFrames == HeapFirst..HeapLast

LEMMA FrameNat == \A a \in Nat : Frame(a) \in Nat
<1> SUFFICES ASSUME NEW a \in Nat PROVE Frame(a) \in Nat  OBVIOUS
<1>1. PMM_PAGE_SIZE \in Nat \ {0}  BY PmmAssumption
<1>2. a \div PMM_PAGE_SIZE \in Nat  BY <1>1, Z3
<1> QED BY <1>2 DEF Frame

LEMMA Layout ==
  /\ KernelFirst \in Nat /\ PoolFirst \in Nat /\ HeapFirst \in Nat /\ HeapLast \in Nat
  /\ KernelFirst < PoolFirst /\ PoolFirst + 3 <= HeapFirst /\ HeapFirst <= HeapLast
  /\ \A f \in KernelFirst..HeapLast : f \in Managed /\ f \in Frames /\ f # 0
  /\ \A f \in Managed : f >= KernelFirst
<1>1. /\ KernelFirst \in Nat /\ PoolFirst \in Nat /\ HeapFirst \in Nat
      /\ Frame(HeapTo) \in Nat
  BY FrameNat, PmmAssumption, MemoryAssumption
     DEF KernelFirst, PoolFirst, HeapFirst
<1>2. KernelFirst < PoolFirst /\ PoolFirst + 3 <= HeapFirst
      /\ HeapFirst < Frame(HeapTo) /\ HeapLast \in Managed
  BY MemoryAssumption DEF KernelFirst, PoolFirst, HeapFirst, HeapLast
<1>3. HeapLast \in Nat /\ HeapFirst <= HeapLast  BY <1>1, <1>2 DEF HeapLast
<1>4. PICK n \in Int : n = (MemEnd - MemStart) \div PMM_PAGE_SIZE
  BY PmmAssumption
<1>5. Managed = KernelFirst..KernelFirst + n - 1
  BY <1>4 DEF Managed, KernelFirst
<1>6. \A f \in KernelFirst..HeapLast : f \in Managed
  BY <1>1, <1>2, <1>3, <1>4, <1>5
<1>7. \A f \in Managed : f >= KernelFirst  BY <1>1, <1>4, <1>5
<1> QED BY <1>1, <1>2, <1>3, <1>6, <1>7, ManagedRange

-----------------------------------------------------------------------------
(* The memory phase of kernel_main                                           *)

BootSteps == {"init", "kernel", "frame1", "frame2", "frame3", "free", "frame4", "heap"}

\* The frames of the self-test are the first three behind the kernel.
Tested ==
  CASE step = "frame2" -> {PoolFirst}
    [] step = "frame3" -> {PoolFirst, PoolFirst + 1}
    [] step = "free"   -> {PoolFirst, PoolFirst + 1, PoolFirst + 2}
    [] step = "frame4" -> {PoolFirst, PoolFirst + 2}
    [] OTHER -> {}

\* What kernel_main has marked used so far.
Marked ==
  CASE step = "kernel" -> KernelFirst..KernelFirst + page - 1
    [] step = "heap"   -> Kernel \cup HeapFirst..HeapFirst + page - 1
    [] OTHER -> Kernel

BootInv ==
  /\ Initialised <=> ~(stage = "boot" /\ step = "init")
  /\ page \in Nat
  /\ stage # "boot" => reserved = Kernel \cup HeapFrames
  /\ stage = "boot" =>
       /\ step \in BootSteps
       /\ step = "kernel" => KernelFirst + page < PoolFirst
       /\ step = "heap" => HeapFirst + page <= HeapLast
       /\ step \notin {"kernel", "heap"} => page = 0
       /\ step # "init" => reserved = Marked
       /\ step # "heap" => held = Tested
       /\ step = "heap" => held = {PoolFirst, PoolFirst + 1, PoolFirst + 2}
       /\ step \in {"frame3", "free"} => phys = PoolFirst + 1

\* pmm_alloc takes the lowest clear frame, or returns 0.
LEMMA AllocLowest ==
  ASSUME PmmInv, Alloc
  PROVE  /\ PmmInv' /\ Initialised' /\ reserved' = reserved
         /\ \/ ret' = 0 /\ Clear = {} /\ held' = held
            \/ \E f \in Clear : /\ \A g \in Clear : f <= g
                                /\ ret' # 0 /\ Frame(ret') = f
                                /\ held' = held \cup {f}
<1>1. PmmInv' /\ Initialised' /\ reserved' = reserved  BY AllocStep DEF Alloc
<1>2. CASE Clear = {}
  <2>1. ret' = 0  BY <1>2 DEF Alloc, pmm_alloc
  <2>2. held' = held  BY <2>1 DEF Alloc
  <2> QED BY <1>1, <1>2, <2>1, <2>2
<1>3. CASE Clear # {}
  <2>1. Clear \subseteq Managed  BY DEF PmmInv, Partition, Alloc
  <2>2. PICK f : f = Min(Clear)  OBVIOUS
  <2>3. f \in Clear /\ \A g \in Clear : f <= g
    <3>1. Clear \in SUBSET Nat  BY DEF Clear, Frames
    <3> QED BY <1>3, <2>2, <3>1, MinIn
  <2>4. ret' = Address(f)  BY <1>3, <2>2 DEF Alloc, pmm_alloc
  <2>5. f \in Frames \ {0}  BY <2>1, <2>3, ManagedRange
  <2>6. ret' # 0 /\ Frame(ret') = f  BY <2>4, <2>5, FrameOfAddress
  <2>7. held' = held \cup {f}  BY <2>6 DEF Alloc
  <2> QED BY <1>1, <2>3, <2>6, <2>7
<1> QED BY <1>2, <1>3

\* After pmm_init the clear frames are the managed ones nobody has.
LEMMA ClearIs ==
  ASSUME PmmInv, Initialised
  PROVE  Clear = Managed \ (held \cup reserved)
BY DEF PmmInv, Partition

\* The n-th frame of the self-test.
LEMMA NextTested ==
  ASSUME PmmInv, Alloc, reserved = Kernel, NEW k \in 0..2,
         \A i \in 0..k-1 : PoolFirst + i \in held, PoolFirst + k \notin held
  PROVE  /\ ret' # 0 /\ Frame(ret') = PoolFirst + k
         /\ held' = held \cup {PoolFirst + k}
<1>1. Initialised  BY DEF Alloc
<1>2. PICK f : f = PoolFirst + k  OBVIOUS
<1>3. f \in Clear
  <2>1. f \in Managed /\ f \notin Kernel  BY <1>2, Layout DEF Kernel
  <2> QED BY <1>1, <1>2, <2>1, ClearIs
<1>4. \A g \in Clear : f <= g
  <2> SUFFICES ASSUME NEW g \in Clear, g < f PROVE FALSE
    BY <1>2, Layout DEF Clear, Frames
  <2>1. g \in Managed /\ g \notin held /\ g \notin Kernel  BY <1>1, ClearIs
  <2>2. g \in Nat /\ g >= KernelFirst  BY <2>1, Layout DEF Clear, Frames
  <2>3. g >= PoolFirst  BY <2>1, <2>2, Layout DEF Kernel
  <2>4. PICK i \in 0..k-1 : g = PoolFirst + i  
    <3>1. g - PoolFirst \in 0..k-1  BY <1>2, <2>2, <2>3, Layout
    <3>2. g = PoolFirst + (g - PoolFirst)  BY <2>2, Layout
    <3> QED BY <3>1, <3>2
  <2> QED BY <2>1, <2>4
<1>5. PICK g \in Clear : /\ \A h \in Clear : g <= h
                         /\ ret' # 0 /\ Frame(ret') = g /\ held' = held \cup {g}
  BY <1>3, AllocLowest
<1>6. g = f
  <2>1. g \in Nat /\ f \in Nat  BY <1>3 DEF Clear, Frames
  <2> QED BY <1>3, <1>4, <1>5, <2>1
<1> QED BY <1>2, <1>5, <1>6

LEMMA KernelReserveKeeps ==
  ASSUME PmmInv, BootInv, KernelReserve
  PROVE  Next /\ BootInv'
<1>1. Setup /\ stage' = "boot" /\ step' = "kernel" /\ page' = page /\ page = 0
  BY DEF KernelReserve, Then, BootInv
<1>2. Initialised' /\ held' = {} /\ reserved' = {}
  BY <1>1, SetupStep DEF PmmInv, Setup
<1>3. Marked' = KernelFirst..KernelFirst + 0 - 1 /\ Tested' = {}
  BY <1>1 DEF Marked, Tested
<1>4. KernelFirst..KernelFirst + 0 - 1 = {}  BY Layout
<1>5. BootInv'
  BY <1>1, <1>2, <1>3, <1>4, Layout DEF BootInv, BootSteps
<1> QED BY <1>1, <1>5 DEF Next

\* The frames kernel_main marks are managed and nobody's.
LEMMA MarkKeeps ==
  ASSUME PmmInv, BootInv, Mark
  PROVE  Next /\ BootInv'
<1> DEFINE f == First + page
<1>1. /\ stage = "boot" /\ step \in {"kernel", "heap"} /\ page \in Nat /\ Initialised
      /\ pmm_mark_used(Address(f)) /\ reserved' = reserved \cup {f}
      /\ held' = held /\ ret' = ret /\ phys' = phys
  BY DEF Mark, BootInv
<1>2. /\ step = "kernel" => First = KernelFirst /\ Last = PoolFirst - 1
      /\ step = "heap" => First = HeapFirst /\ Last = HeapLast
  BY DEF First, Last, KernelFirst, PoolFirst, HeapFirst, HeapLast
<1>3. f \in KernelFirst..HeapLast /\ f <= Last /\ f \notin held
  <2>1. CASE step = "kernel"
    <3>1. KernelFirst + page < PoolFirst  BY <1>1, <2>1 DEF BootInv
    <3>2. held = {}  BY <1>1, <2>1 DEF BootInv, Tested
    <3> QED BY <1>1, <1>2, <2>1, <3>1, <3>2, Layout
  <2>2. CASE step = "heap"
    <3>1. HeapFirst + page <= HeapLast  BY <1>1, <2>2 DEF BootInv
    <3>2. held = {PoolFirst, PoolFirst + 1, PoolFirst + 2}  BY <1>1, <2>2 DEF BootInv
    <3> QED BY <1>1, <1>2, <2>2, <3>1, <3>2, Layout
  <2> QED BY <1>1, <2>1, <2>2
<1>4. f \in Frames \ held  BY <1>3, Layout
<1>5. Reserve  BY <1>1, <1>4 DEF Reserve
<1>6. Initialised'  BY <1>5, ReserveStep
<1>7. CASE step = "kernel"
  <2>1. reserved = KernelFirst..f - 1 /\ held = {}
    BY <1>1, <1>2, <1>7, Layout DEF BootInv, Marked, Tested
  <2>2. reserved' = KernelFirst..f  BY <1>1, <1>3, <2>1, Layout
  <2>3. CASE f < Last
    <3>1. page' = page + 1 /\ stage' = "boot" /\ step' = "kernel"
      BY <1>1, <1>7, <2>3 DEF Mark
    <3>2. KernelFirst + page' - 1 = f /\ KernelFirst + page' < PoolFirst
      BY <1>1, <1>2, <1>7, <2>3, <3>1, Layout
    <3>3. reserved' = Marked' /\ Tested' = {}
      BY <2>2, <3>1, <3>2 DEF Marked, Tested
    <3> QED BY <1>1, <1>5, <1>6, <2>1, <3>1, <3>2, <3>3 DEF BootInv, BootSteps, Next
  <2>4. CASE ~(f < Last)
    <3>1. page' = 0 /\ stage' = "boot" /\ step' = "frame1"
      BY <1>1, <1>7, <2>4 DEF Mark, Then
    <3>2. f = PoolFirst - 1  BY <1>1, <1>2, <1>3, <1>7, <2>4, Layout
    <3>3. reserved' = Marked' /\ Tested' = {}
      BY <2>2, <3>1, <3>2 DEF Marked, Tested, Kernel
    <3> QED BY <1>1, <1>5, <1>6, <2>1, <3>1, <3>3 DEF BootInv, BootSteps, Next
  <2> QED BY <2>3, <2>4
<1>8. CASE step = "heap"
  <2>1. reserved = Kernel \cup HeapFirst..f - 1
        /\ held = {PoolFirst, PoolFirst + 1, PoolFirst + 2}
    BY <1>1, <1>2, <1>8, Layout DEF BootInv, Marked
  <2>2. reserved' = Kernel \cup HeapFirst..f
    <3>1. (HeapFirst..f - 1) \cup {f} = HeapFirst..f  BY <1>1, <1>2, <1>8, Layout
    <3> QED BY <1>1, <2>1, <3>1
  <2>3. CASE f < Last
    <3>1. page' = page + 1 /\ stage' = "boot" /\ step' = "heap"
      BY <1>1, <1>8, <2>3 DEF Mark
    <3>2. HeapFirst + page' - 1 = f /\ HeapFirst + page' <= HeapLast
      BY <1>1, <1>2, <1>8, <2>3, <3>1, Layout
    <3>3. reserved' = Marked'
      BY <2>2, <3>1, <3>2 DEF Marked
    <3> QED BY <1>1, <1>5, <1>6, <2>1, <3>1, <3>2, <3>3 DEF BootInv, BootSteps, Next
  <2>4. CASE ~(f < Last)
    <3>1. page' = 0 /\ stage' = "shell_kstack" /\ step' = "alloc"
      BY <1>1, <1>8, <2>4 DEF Mark, Then
    <3>2. f = HeapLast  BY <1>1, <1>2, <1>3, <1>8, <2>4, Layout
    <3>3. reserved' = Kernel \cup HeapFrames  BY <2>2, <3>2 DEF HeapFrames
    <3> QED BY <1>1, <1>5, <1>6, <3>1, <3>3 DEF BootInv, Next
  <2> QED BY <2>3, <2>4
<1> QED BY <1>1, <1>7, <1>8

\* The frame it frees is the second it was given, and it gets it again.
LEMMA SelfTestKeeps ==
  ASSUME PmmInv, BootInv, SelfTest
  PROVE  Next /\ BootInv'
<1>1. stage = "boot" /\ page' = page /\ stage' = "boot" /\ step # "init"
  BY DEF SelfTest, Then
<1>2. Initialised /\ page \in Nat  BY <1>1 DEF BootInv
<1>3. PoolFirst \in Nat  BY Layout
<1>4. ASSUME step \in {"frame1", "frame2", "frame3", "frame4"} PROVE Next /\ BootInv'
  <2>1. /\ Alloc /\ page = 0 /\ reserved = Kernel /\ held = Tested
        /\ phys' = IF step = "frame2" THEN Frame(ret') ELSE phys
        /\ step = "frame1" => step' = "frame2"
        /\ step = "frame2" => step' = "frame3"
        /\ step = "frame3" => step' = "free"
        /\ step = "frame4" => step' = "heap"
    BY <1>1, <1>4 DEF SelfTest, Then, BootInv, Marked
  <2>2. Initialised' /\ reserved' = Kernel  BY <2>1, AllocLowest
  <2>3. CASE step = "frame1"
    <3>1. held = {}  BY <2>1, <2>3 DEF Tested
    <3>2. held' = {PoolFirst}
      <4>1. 0 \in 0..2 /\ 0..0-1 = {} /\ PoolFirst + 0 = PoolFirst  BY <1>3
      <4>2. held' = held \cup {PoolFirst + 0}
        BY <2>1, <3>1, <4>1, NextTested
      <4> QED BY <3>1, <4>1, <4>2
    <3>3. Marked' = Kernel /\ Tested' = {PoolFirst}  BY <2>1, <2>3 DEF Marked, Tested
    <3> QED BY <1>1, <1>2, <2>1, <2>2, <2>3, <3>2, <3>3 DEF BootInv, BootSteps, Next
  <2>4. CASE step = "frame2"
    <3>1. held = {PoolFirst}  BY <2>1, <2>4 DEF Tested
    <3>2. Frame(ret') = PoolFirst + 1 /\ held' = held \cup {PoolFirst + 1}
      <4>1. 1 \in 0..2 /\ \A i \in 0..1-1 : PoolFirst + i \in held  BY <1>3, <3>1
      <4>2. PoolFirst + 1 \notin held  BY <1>3, <3>1
      <4> QED BY <2>1, <4>1, <4>2, NextTested
    <3>3. Marked' = Kernel /\ Tested' = {PoolFirst, PoolFirst + 1}
      BY <2>1, <2>4 DEF Marked, Tested
    <3>4. held' = {PoolFirst, PoolFirst + 1}  BY <3>1, <3>2
    <3> QED BY <1>1, <1>2, <2>1, <2>2, <2>4, <3>2, <3>3, <3>4 DEF BootInv, BootSteps, Next
  <2>5. CASE step = "frame3"
    <3>1. held = {PoolFirst, PoolFirst + 1}  BY <2>1, <2>5 DEF Tested
    <3>2. held' = held \cup {PoolFirst + 2}
      <4>1. 2 \in 0..2 /\ \A i \in 0..2-1 : PoolFirst + i \in held  BY <1>3, <3>1
      <4>2. PoolFirst + 2 \notin held  BY <1>3, <3>1
      <4> QED BY <2>1, <4>1, <4>2, NextTested
    <3>3. Marked' = Kernel /\ Tested' = {PoolFirst, PoolFirst + 1, PoolFirst + 2}
      BY <2>1, <2>5 DEF Marked, Tested
    <3>4. held' = {PoolFirst, PoolFirst + 1, PoolFirst + 2}  BY <3>1, <3>2
    <3>5. phys' = PoolFirst + 1  BY <1>1, <2>1, <2>5 DEF BootInv
    <3> QED BY <1>1, <1>2, <2>1, <2>2, <2>5, <3>3, <3>4, <3>5 DEF BootInv, BootSteps, Next
  <2>6. CASE step = "frame4"
    <3>1. held = {PoolFirst, PoolFirst + 2}  BY <2>1, <2>6 DEF Tested
    <3>2. held' = held \cup {PoolFirst + 1}
      <4>1. 1 \in 0..2 /\ \A i \in 0..1-1 : PoolFirst + i \in held  BY <1>3, <3>1
      <4>2. PoolFirst + 1 \notin held  BY <1>3, <3>1
      <4> QED BY <2>1, <4>1, <4>2, NextTested
    <3>3. held' = {PoolFirst, PoolFirst + 1, PoolFirst + 2}  BY <3>1, <3>2
    <3>4. Marked' = Kernel
      <4>1. Marked' = Kernel \cup HeapFirst..HeapFirst + 0 - 1
        BY <1>1, <2>1, <2>6 DEF Marked
      <4>2. HeapFirst..HeapFirst + 0 - 1 = {}  BY Layout
      <4> QED BY <4>1, <4>2
    <3>5. HeapFirst + page' <= HeapLast  BY <1>1, <2>1, Layout
    <3> QED BY <1>1, <1>2, <2>1, <2>2, <2>6, <3>3, <3>4, <3>5 DEF BootInv, BootSteps, Next
  <2> QED BY <1>4, <2>3, <2>4, <2>5, <2>6
<1>5. ASSUME step = "free" PROVE Next /\ BootInv'
  <2>1. /\ pmm_free(Address(phys)) /\ held' = held \ {phys} /\ step' = "frame4"
        /\ reserved' = reserved /\ ret' = ret /\ page = 0
        /\ reserved = Kernel /\ held = Tested /\ phys = PoolFirst + 1
    BY <1>1, <1>5 DEF SelfTest, Then, BootInv, Marked
  <2>2. held = {PoolFirst, PoolFirst + 1, PoolFirst + 2}  BY <1>5, <2>1 DEF Tested
  <2>3. phys \in held \cup Clear  BY <2>1, <2>2
  <2>4. Free  BY <1>2, <2>1, <2>3 DEF Free
  <2>5. held' = {PoolFirst, PoolFirst + 2}  BY <1>3, <2>1, <2>2
  <2>6. Marked' = Kernel /\ Tested' = {PoolFirst, PoolFirst + 2}
    BY <2>1 DEF Marked, Tested
  <2>7. Initialised'  BY <2>4, FreeStep
  <2> QED BY <1>1, <1>2, <2>1, <2>4, <2>5, <2>6, <2>7 DEF BootInv, BootSteps, Next
<1>6. step \in {"frame1", "frame2", "frame3", "frame4"} \/ step = "free"
  BY DEF SelfTest
<1> QED BY <1>4, <1>5, <1>6

-----------------------------------------------------------------------------
(* The frames in use                                                         *)

Mapping == step \in {"table", "map"}

\* Where kernel_main and elf_load are after the memory phase.
SetupInv ==
  /\ elf \in Executables /\ seg \in Nat \ {0} /\ phys \in Frames
  /\ stage \in SetUp \cup {"boot", "done", "fault"}
  /\ stage \in SetUp => step \in {"alloc", "table", "map", "verify", "header", "copy"}
  /\ stage \in SetUp /\ stage # "elf" => step \in {"alloc", "table", "map"}
  /\ stage = "elf" /\ step \in {"alloc", "table", "map"} =>
       seg \in DOMAIN elf.phdr /\ Phdr.load /\ page < pages_needed(Phdr)
  /\ dir \in [0..Directories-1 -> Frames \cup {Static, NotPresent}]
  /\ kstacks \in Seq(Frames) /\ ustacks \in Seq(Frames)
  /\ stage = "boot" => kstacks = <<>> /\ ustacks = <<>> /\ image = {} /\ Tables = {}

Uses == SeqSet(kstacks) \cup SeqSet(ustacks) \cup Tables \cup image

Count == Len(kstacks) + Len(ustacks) + Cardinality(Tables) + Cardinality(image)

\* Every use has a frame of its own, and the one that is being mapped has none yet.
UseInv ==
  ~failed => /\ Uses \subseteq held
             /\ Cardinality(Uses) = Count
             /\ stage \in SetUp /\ Mapping => phys \in held \ Uses

MemInv == PmmInv /\ BootInv /\ SetupInv /\ UseInv

LEMMA HeldFinite == PmmInv => IsFiniteSet(held)
<1> SUFFICES ASSUME PmmInv PROVE IsFiniteSet(held)  OBVIOUS
<1>1. held \in SUBSET Managed  BY DEF PmmInv
<1> QED BY <1>1, ManagedRange, FS_Subset

\* The parts of Uses are finite while nothing has failed.
LEMMA UsesFinite ==
  ASSUME PmmInv, UseInv, ~failed
  PROVE  /\ IsFiniteSet(Uses) /\ IsFiniteSet(Tables) /\ IsFiniteSet(image)
         /\ Cardinality(Uses) \in Nat /\ Cardinality(Tables) \in Nat
         /\ Cardinality(image) \in Nat
<1>1. Uses \in SUBSET held  BY DEF UseInv
<1>2. IsFiniteSet(Uses)  BY <1>1, HeldFinite, FS_Subset
<1>3. Tables \in SUBSET Uses /\ image \in SUBSET Uses  BY DEF Uses
<1>4. IsFiniteSet(Tables) /\ IsFiniteSet(image)  BY <1>2, <1>3, FS_Subset
<1> QED BY <1>2, <1>4, FS_CardinalityType

\* The page table of a page.
LEMMA DivBelow ==
  ASSUME NEW n \in Nat, NEW v \in 0..n * PAGE_ENTRIES - 1
  PROVE  v \div PAGE_ENTRIES \in 0..n-1
<1>1. PAGE_ENTRIES \in Nat \ {0} /\ n * PAGE_ENTRIES \in Nat  BY MemoryAssumption
<1>2. v \in Nat /\ v < n * PAGE_ENTRIES  BY <1>1
<1>3. PICK q \in Int : q = v \div PAGE_ENTRIES  BY <1>1, <1>2
<1>4. q * PAGE_ENTRIES <= v /\ v < (q + 1) * PAGE_ENTRIES  BY <1>1, <1>2, <1>3, Z3
<1>5. q >= 0
  <2> SUFFICES ASSUME q + 1 <= 0 PROVE FALSE  BY <1>3
  <2>1. (q + 1) * PAGE_ENTRIES <= 0 * PAGE_ENTRIES  BY <1>1
  <2> QED BY <2>1, <1>1, <1>2, <1>4
<1>6. q < n
  <2> SUFFICES ASSUME n <= q PROVE FALSE  BY <1>3
  <2>1. n * PAGE_ENTRIES <= q * PAGE_ENTRIES  BY <1>1
  <2> QED BY <2>1, <1>1, <1>2, <1>4
<1> QED BY <1>3, <1>5, <1>6

LEMMA Bounds ==
  /\ PMM_PAGE_SIZE \in Nat \ {0} /\ PAGE_ENTRIES \in Nat \ {0}
  /\ Directories \in Nat /\ IdentityTables \in Nat
  /\ PMM_MAX_FRAMES \in Nat /\ 0 \in Frames
  /\ Frames \subseteq Pages
  /\ \A v \in Pages : v \div PAGE_ENTRIES \in 0..Directories-1
<1>1. /\ PMM_PAGE_SIZE \in Nat \ {0} /\ PAGE_ENTRIES \in Nat \ {0}
      /\ Directories \in Nat /\ IdentityTables \in 1..Directories
      /\ PMM_MAX_FRAMES \in Nat \ {0} /\ PMM_MAX_FRAMES <= IdentityTables * PAGE_ENTRIES
  BY PmmAssumption, MemoryAssumption
<1>2. IdentityTables * PAGE_ENTRIES <= Directories * PAGE_ENTRIES  BY <1>1
<1>3. IdentityTables * PAGE_ENTRIES \in Nat /\ Directories * PAGE_ENTRIES \in Nat  BY <1>1
<1>4. PMM_MAX_FRAMES <= Directories * PAGE_ENTRIES  BY <1>1, <1>2, <1>3
<1>5. Frames \subseteq Pages  BY <1>1, <1>3, <1>4 DEF Frames, Pages
<1>6. ASSUME NEW v \in Pages PROVE v \div PAGE_ENTRIES \in 0..Directories-1
  BY <1>1, DivBelow DEF Pages
<1>7. 0 \in Frames  BY <1>1 DEF Frames
<1> QED BY <1>1, <1>5, <1>6, <1>7

\* paging_map is called for pages of the address space only.
LEMMA VirtInPages ==
  ASSUME SetupInv, BootInv, stage \in SetUp, Mapping
  PROVE  Virt \in Pages
<1>1. CASE stage \in {"shell_kstack", "blinky_kstack"}
  BY <1>1, Bounds DEF Virt, SetupInv
<1>2. CASE stage \in {"shell_ustack", "blinky_ustack"}
  <2>1. Virt \in StackPages  BY <1>2 DEF Virt, StackPages
  <2>2. IdentityTables * PAGE_ENTRIES <= Directories * PAGE_ENTRIES
        /\ IdentityTables * PAGE_ENTRIES \in Nat /\ Directories * PAGE_ENTRIES \in Nat
    BY Bounds, MemoryAssumption
  <2> QED BY <2>1, <2>2, MemoryAssumption DEF Pages
<1>3. CASE stage = "elf"
  <2>1. seg \in DOMAIN elf.phdr /\ Phdr.load /\ page < pages_needed(Phdr) /\ page \in Nat
    BY <1>3 DEF SetupInv, Mapping, BootInv
  <2>2. Virt = Frame(Phdr.vaddr) + page  BY <1>3 DEF Virt
  <2>3. elf \in Executables /\ elf.phdr \in Seq(Segment)  BY MemoryAssumption DEF SetupInv
  <2>4. Phdr \in Segment /\ Frame(Phdr.vaddr) + pages_needed(Phdr) <= Directories * PAGE_ENTRIES
    <3>1. Phdr \in Segment  BY <2>1, <2>3, ElementOfSeq DEF Phdr
    <3> QED BY <2>1, <2>3, <3>1, MemoryAssumption DEF Phdr
  <2>5. Phdr.vaddr \in Nat /\ Phdr.memsz \in Nat  BY <2>4 DEF Segment
  <2>6. Frame(Phdr.vaddr) \in Nat  BY <2>5, FrameNat
  <2>7. pages_needed(Phdr) \in Int
    <3>1. Phdr.memsz + PMM_PAGE_SIZE - 1 \in Int  BY <2>5, Bounds
    <3> QED BY <3>1, Bounds DEF pages_needed
  <2>8. Directories * PAGE_ENTRIES \in Nat  BY Bounds
  <2> QED BY <2>1, <2>2, <2>4, <2>6, <2>7, <2>8 DEF Pages
<1> QED BY <1>1, <1>2, <1>3 DEF SetUp

\* The memory phase uses no frame yet.
LEMMA BootKeepsUses ==
  ASSUME MemInv, stage = "boot", UNCHANGED <<pagingVars, loadVars, stackVars>>,
         stage' = "boot" \/ (stage' = "shell_kstack" /\ step' = "alloc"), phys' \in Frames
  PROVE  SetupInv' /\ UseInv'
<1>1. kstacks' = <<>> /\ ustacks' = <<>> /\ image' = {} /\ Tables' = {}
  BY DEF MemInv, SetupInv, Tables, pagingVars, loadVars, stackVars
<1>2. SeqSet(<<>>) = {}  BY DEF SeqSet
<1>3. Uses' = {}  BY <1>1, <1>2 DEF Uses
<1>4. Cardinality({}) = 0  BY FS_EmptySet
<1>5. Count' = 0  BY <1>1, <1>4 DEF Count
<1>6. ~(stage' \in SetUp /\ Mapping')  BY DEF SetUp, Mapping
<1>7. UseInv'  BY <1>3, <1>4, <1>5, <1>6 DEF UseInv
<1>8. SetupInv'
  BY <1>1 DEF MemInv, SetupInv, SetUp, pagingVars, loadVars, stackVars
<1> QED BY <1>7, <1>8

LEMMA MemInitInv == MemInit => MemInv
<1> SUFFICES ASSUME MemInit PROVE MemInv  OBVIOUS
<1>1. PmmInv /\ ~Initialised  BY InitInv DEF MemInit, Init, Initialised
<1>2. stage = "boot" /\ step = "init" /\ page = 0 /\ held = {} /\ Tested = {}
  BY DEF MemInit, Init, Tested
<1>3. BootInv  BY <1>1, <1>2 DEF BootInv, BootSteps
<1>4. Tables = {}  BY DEF MemInit, PagingInit, Tables
<1>5. dir \in [0..Directories-1 -> Frames \cup {Static, NotPresent}]
  BY DEF MemInit, PagingInit
<1>6. SetupInv  BY <1>4, <1>5, Bounds DEF MemInit, SetupInv, SetUp
<1>7. Uses = {}
  <2>1. SeqSet(<<>>) = {}  BY DEF SeqSet
  <2> QED BY <1>4, <2>1 DEF Uses, MemInit
<1>8. Count = 0
  <2>1. Cardinality({}) = 0  BY FS_EmptySet
  <2> QED BY <1>4, <2>1 DEF Count, MemInit
<1>9. Cardinality({}) = 0  BY FS_EmptySet
<1>10. UseInv  BY <1>7, <1>8, <1>9 DEF MemInit, UseInv, Mapping
<1> QED BY <1>1, <1>6, <1>10, <1>3 DEF MemInv

LEMMA MemoryPhase ==
  ASSUME MemInv, KernelReserve \/ Mark \/ SelfTest
  PROVE  Next /\ MemInv'
<1>1. PmmInv /\ BootInv  BY DEF MemInv
<1>2. Next /\ BootInv'  BY <1>1, KernelReserveKeeps, MarkKeeps, SelfTestKeeps
<1>3. PmmInv'  BY <1>1, <1>2, SetupStep, ReserveStep, AllocStep, FreeStep DEF Next
<1>4. stage = "boot" /\ UNCHANGED <<pagingVars, loadVars, stackVars>>
  BY DEF KernelReserve, Mark, SelfTest
<1>5. stage' = "boot" \/ (stage' = "shell_kstack" /\ step' = "alloc")
  BY DEF KernelReserve, Mark, SelfTest, Then
<1>6. phys' \in Frames
  <2>1. phys \in Frames  BY DEF MemInv, SetupInv
  <2>2. phys' = phys \/ (Alloc /\ phys' = Frame(ret'))
    BY DEF KernelReserve, Mark, SelfTest
  <2>3. Alloc => Frame(ret') \in Frames
    <3> SUFFICES ASSUME Alloc PROVE Frame(ret') \in Frames  OBVIOUS
    <3>1. (\E f \in Clear : Frame(ret') = f) \/ Frame(ret') = 0  BY <1>1, AllocStep
    <3> QED BY <3>1, Bounds DEF Clear
  <2> QED BY <2>1, <2>2, <2>3
<1>7. SetupInv' /\ UseInv'  BY <1>4, <1>5, <1>6, BootKeepsUses
<1> QED BY <1>2, <1>3, <1>7 DEF MemInv

\* A new frame, if there is one, has no use yet.
LEMMA AllocFresh ==
  ASSUME PmmInv, Alloc
  PROVE  /\ PmmInv' /\ Initialised' /\ reserved' = reserved /\ held \subseteq held'
         /\ Frame(ret') \in Frames
         /\ ret' # 0 => Frame(ret') \in held' \ held
<1>1. /\ PmmInv' /\ Initialised' /\ reserved' = reserved
      /\ \/ ret' = 0 /\ Clear = {} /\ held' = held
         \/ \E f \in Clear : ret' # 0 /\ Frame(ret') = f /\ held' = held \cup {f}
  BY AllocLowest
<1>2. \A f \in Clear : f \in Frames /\ f \notin held
  BY DEF PmmInv, Partition, Clear, Alloc
<1>3. Frame(0) = 0 /\ 0 \in Frames  BY Bounds, FrameOfAddress
<1> QED BY <1>1, <1>2, <1>3

LEMMA AllocPageKeeps ==
  ASSUME MemInv, AllocPage
  PROVE  Next /\ MemInv'
<1>1. /\ PmmInv /\ BootInv /\ SetupInv /\ UseInv
      /\ Alloc /\ stage \in SetUp /\ stage # "boot" /\ step = "alloc"
      /\ phys' = Frame(ret') /\ failed' = (failed \/ ret' = 0)
      /\ UNCHANGED <<pagingVars, page, loadVars, stackVars>>
  BY DEF MemInv, AllocPage, SetUp
<1>2. /\ PmmInv' /\ Initialised' /\ reserved' = reserved /\ held \subseteq held'
      /\ Frame(ret') \in Frames /\ (ret' # 0 => Frame(ret') \in held' \ held)
  BY <1>1, AllocFresh
<1>3. \/ stage' = stage /\ step' = "table"
      \/ stage' = "blinky_kstack" /\ step' = "alloc"
  BY DEF AllocPage, Then
<1>4. stage' \in SetUp /\ stage' # "boot"  BY <1>1, <1>3 DEF SetUp
<1>5. BootInv'  BY <1>1, <1>2, <1>4 DEF BootInv
<1>6. SetupInv'
  <2>1. Phdr' = Phdr /\ UNCHANGED <<elf, seg, page, dir, kstacks, ustacks>>
    BY <1>1 DEF Phdr, pagingVars, loadVars, stackVars
  <2> QED BY <1>1, <1>2, <1>3, <1>4, <2>1 DEF SetupInv, pages_needed, SetUp
<1>7. UseInv'
  <2> SUFFICES ASSUME ~failed' PROVE UseInv'  BY DEF UseInv
  <2>1. ~failed /\ Frame(ret') \in held' \ held  BY <1>1, <1>2
  <2>2. Uses' = Uses /\ Count' = Count
    BY <1>1 DEF Uses, Count, Tables, pagingVars, loadVars, stackVars
  <2>3. Uses \subseteq held /\ Cardinality(Uses) = Count  BY <1>1, <2>1 DEF UseInv
  <2>4. phys' \in held' \ Uses  BY <1>1, <2>1, <2>3
  <2> QED BY <1>2, <2>2, <2>3, <2>4 DEF UseInv
<1> QED BY <1>1, <1>2, <1>5, <1>6, <1>7 DEF MemInv, Next

LEMMA NewTableKeeps ==
  ASSUME MemInv, NewTable
  PROVE  [Next]_vars /\ MemInv'
<1> DEFINE d == Virt \div PAGE_ENTRIES
<1>1. /\ PmmInv /\ BootInv /\ SetupInv /\ UseInv
      /\ stage \in SetUp /\ stage # "boot" /\ step = "table" /\ stage' = stage /\ step' = "map"
      /\ UNCHANGED <<phys, page, loadVars, stackVars>>
  BY DEF MemInv, NewTable, SetUp, Then
<1>2. d \in 0..Directories-1
  BY <1>1, VirtInPages, Bounds DEF Mapping
<1>3. UNCHANGED <<elf, seg, page, kstacks, ustacks, image, Phdr>>
  BY <1>1 DEF Phdr, loadVars, stackVars
<1>4. CASE dir[d] # NotPresent
  <2>1. UNCHANGED <<vars, failed, dir>>  BY <1>4 DEF NewTable
  <2>2. PmmInv' /\ Initialised' = Initialised /\ reserved' = reserved /\ held' = held
    BY <1>1, <2>1, StutterStep DEF vars, pmmVars, Initialised
  <2>3. BootInv'  BY <1>1, <2>2 DEF BootInv
  <2>4. SetupInv'  BY <1>1, <1>3, <2>1 DEF SetupInv, pages_needed, SetUp
  <2>5. Uses' = Uses /\ Count' = Count  BY <1>3, <2>1 DEF Uses, Count, Tables
  <2>6. UseInv'  BY <1>1, <2>1, <2>2, <2>5 DEF UseInv, Mapping
  <2> QED BY <2>1, <2>2, <2>3, <2>4, <2>6 DEF MemInv
<1>5. CASE dir[d] = NotPresent
  <2>1. /\ Alloc /\ failed' = (failed \/ ret' = 0)
        /\ dir' = [dir EXCEPT ![d] = Frame(ret')]
    BY <1>5 DEF NewTable
  <2> HIDE DEF d
  <2>2. /\ PmmInv' /\ Initialised' /\ reserved' = reserved /\ held \subseteq held'
        /\ Frame(ret') \in Frames /\ (ret' # 0 => Frame(ret') \in held' \ held)
    BY <1>1, <2>1, AllocFresh
  <2>3. BootInv'  BY <1>1, <2>2 DEF BootInv
  <2>4. dir' \in [0..Directories-1 -> Frames \cup {Static, NotPresent}]
    BY <1>1, <2>1, <2>2 DEF SetupInv
  <2>5. SetupInv'  BY <1>1, <1>3, <2>4 DEF SetupInv, pages_needed, SetUp
  <2>6. UseInv'
    <3> SUFFICES ASSUME ~failed' PROVE UseInv'  BY DEF UseInv
    <3>1. ~failed /\ Frame(ret') \in held' \ held  BY <2>1, <2>2
    <3>2. PICK f : f = Frame(ret')  OBVIOUS
    <3>3. f \notin {Static, NotPresent}
      BY <2>2, <3>2 DEF Frames, Static, NotPresent
    <3>4. Tables' = Tables \cup {f}
      <4>1. dir'[d] = f /\ \A e \in DOMAIN dir : e # d => dir'[e] = dir[e]
        BY <1>1, <1>2, <2>1, <3>2 DEF SetupInv
      <4>2. DOMAIN dir' = DOMAIN dir /\ d \in DOMAIN dir
        BY <1>1, <1>2, <2>1 DEF SetupInv
      <4> QED BY <1>5, <3>3, <4>1, <4>2 DEF Tables
    <3>5. Uses \subseteq held /\ Cardinality(Uses) = Count /\ phys \in held \ Uses
      BY <1>1, <3>1 DEF UseInv, Mapping
    <3>6. f \notin Uses /\ f \notin Tables /\ f # phys  BY <3>1, <3>2, <3>5 DEF Uses
    <3>7. Uses' = Uses \cup {f}  BY <1>3, <3>4 DEF Uses
    <3>8. /\ Cardinality(Uses \cup {f}) = Cardinality(Uses) + 1
          /\ Cardinality(Tables \cup {f}) = Cardinality(Tables) + 1
      BY <1>1, <3>1, <3>6, UsesFinite, FS_AddElement
    <3>9. Count' = Count + 1
      <4>1. Count' = Len(kstacks) + Len(ustacks) + Cardinality(Tables \cup {f})
                       + Cardinality(image)
        BY <1>3, <3>4 DEF Count
      <4>2. Len(kstacks) \in Nat /\ Len(ustacks) \in Nat  BY <1>1 DEF SetupInv
      <4> QED BY <1>1, <3>1, <3>8, <4>1, <4>2, UsesFinite DEF Count
    <3>10. phys' \in held' \ Uses'  BY <1>1, <2>2, <3>5, <3>6, <3>7
    <3>11. Uses' \subseteq held'  BY <2>2, <3>1, <3>2, <3>5, <3>7
    <3> QED BY <3>5, <3>7, <3>8, <3>9, <3>10, <3>11 DEF UseInv
  <2> QED BY <2>1, <2>2, <2>3, <2>5, <2>6 DEF MemInv, Next
<1> QED BY <1>4, <1>5

\* What Map adds to the uses of frames.
LEMMA MapCounts ==
  ASSUME MemInv, Map, ~failed
  PROVE  Count' = Count + 1
<1>1. /\ PmmInv /\ BootInv /\ SetupInv /\ UseInv /\ stage \in SetUp /\ step = "map"
      /\ phys \in Frames /\ kstacks \in Seq(Frames) /\ ustacks \in Seq(Frames)
  BY DEF MemInv, Map, SetupInv
<1>2. /\ kstacks' = (IF stage \in {"shell_kstack", "blinky_kstack"}
                     THEN Append(kstacks, phys) ELSE kstacks)
      /\ ustacks' = (IF stage \in {"shell_ustack", "blinky_ustack"}
                     THEN Append(ustacks, phys) ELSE ustacks)
      /\ image' = (IF stage = "elf" THEN image \cup {phys} ELSE image)
      /\ Tables' = Tables
  BY DEF Map, Tables
<1>3. phys \notin Uses  BY <1>1 DEF UseInv, Mapping
<1>4. Len(kstacks) \in Nat /\ Len(ustacks) \in Nat
      /\ Cardinality(Tables) \in Nat /\ Cardinality(image) \in Nat
  BY <1>1, UsesFinite
<1>5. \A s \in Seq(Frames) : Len(Append(s, phys)) = Len(s) + 1  BY <1>1
<1>6. CASE stage \in {"shell_kstack", "blinky_kstack"}
  <2>1. Len(kstacks') = Len(kstacks) + 1  BY <1>1, <1>2, <1>5, <1>6
  <2>2. UNCHANGED <<ustacks, Tables, image>>  BY <1>2, <1>6
  <2> QED BY <1>4, <2>1, <2>2 DEF Count
<1>7. CASE stage \in {"shell_ustack", "blinky_ustack"}
  <2>1. Len(ustacks') = Len(ustacks) + 1  BY <1>1, <1>2, <1>5, <1>7
  <2>2. UNCHANGED <<kstacks, Tables, image>>  BY <1>2, <1>7
  <2> QED BY <1>4, <2>1, <2>2 DEF Count
<1>8. CASE stage = "elf"
  <2>1. phys \notin image  BY <1>3 DEF Uses
  <2>2. Cardinality(image \cup {phys}) = Cardinality(image) + 1
    BY <1>1, <2>1, UsesFinite, FS_AddElement
  <2> QED BY <1>2, <1>4, <1>8, <2>2 DEF Count
<1> QED BY <1>1, <1>6, <1>7, <1>8 DEF SetUp

\* A mapped frame gets its use: one of a stack, or of the image.
LEMMA MapKeeps ==
  ASSUME MemInv, Map
  PROVE  UNCHANGED vars /\ MemInv'
<1>1. /\ PmmInv /\ BootInv /\ SetupInv /\ UseInv /\ UNCHANGED vars
      /\ stage \in SetUp /\ stage # "boot" /\ step = "map"
      /\ UNCHANGED <<dir, phys, elf, seg, failed>>
  BY DEF MemInv, Map, SetUp
<1>2. PmmInv' /\ Initialised' = Initialised /\ reserved' = reserved /\ held' = held
  BY <1>1, StutterStep DEF vars, pmmVars, Initialised
<1>3. /\ page' \in Nat
      /\ stage' \in SetUp \cup {"done"} /\ stage' # "boot"
      /\ step' \in {"alloc", "verify", "header", "done"}
      /\ stage' = "elf" => step' \in {"verify", "header"}
      /\ stage' \in SetUp \ {"elf"} => step' = "alloc"
  <2>1. page \in Nat  BY <1>1 DEF BootInv
  <2>2. page' \in Nat  BY <2>1 DEF Map
  <2>3. AfterMap  BY DEF Map
  <2> QED BY <1>1, <2>2, <2>3 DEF AfterMap, Then, SetUp
<1>4. BootInv'  BY <1>1, <1>2, <1>3 DEF BootInv
<1>5. /\ kstacks' = (IF stage \in {"shell_kstack", "blinky_kstack"}
                     THEN Append(kstacks, phys) ELSE kstacks)
      /\ ustacks' = (IF stage \in {"shell_ustack", "blinky_ustack"}
                     THEN Append(ustacks, phys) ELSE ustacks)
      /\ image' = (IF stage = "elf" THEN image \cup {phys} ELSE image)
      /\ Tables' = Tables
  BY DEF Map, Tables
<1>6. phys \in Frames /\ kstacks \in Seq(Frames) /\ ustacks \in Seq(Frames)
  BY <1>1 DEF SetupInv
<1>7. SetupInv'
  <2>1. kstacks' \in Seq(Frames) /\ ustacks' \in Seq(Frames)  BY <1>5, <1>6
  <2> QED BY <1>1, <1>3, <2>1 DEF SetupInv, SetUp
<1>8. UseInv'
  <2> SUFFICES ASSUME ~failed' PROVE UseInv'  BY DEF UseInv
  <2>1. ~failed  BY <1>1
  <2>2. Uses \subseteq held /\ Cardinality(Uses) = Count /\ phys \in held \ Uses
    BY <1>1, <2>1 DEF UseInv, Mapping
  <2>3. \A s \in Seq(Frames) : SeqSet(Append(s, phys)) = SeqSet(s) \cup {phys}
    <3> SUFFICES ASSUME NEW s \in Seq(Frames)
                 PROVE  SeqSet(Append(s, phys)) = SeqSet(s) \cup {phys}
      OBVIOUS
    <3>1. DOMAIN Append(s, phys) = 1..Len(s) + 1 /\ DOMAIN s = 1..Len(s) /\ Len(s) \in Nat
      BY <1>6
    <3>2. /\ Append(s, phys)[Len(s) + 1] = phys
          /\ \A i \in 1..Len(s) : Append(s, phys)[i] = s[i]
      BY <1>6
    <3> QED BY <3>1, <3>2 DEF SeqSet
  <2>4. Uses' = Uses \cup {phys}
    <3>1. CASE stage \in {"shell_kstack", "blinky_kstack"}
      BY <1>5, <1>6, <2>3, <3>1 DEF Uses
    <3>2. CASE stage \in {"shell_ustack", "blinky_ustack"}
      BY <1>5, <1>6, <2>3, <3>2 DEF Uses
    <3>3. CASE stage = "elf"  BY <1>5, <3>3 DEF Uses
    <3> QED BY <1>1, <3>1, <3>2, <3>3 DEF SetUp
  <2>5. Cardinality(Uses \cup {phys}) = Cardinality(Uses) + 1
    BY <1>1, <2>1, <2>2, UsesFinite, FS_AddElement
  <2>6. Count' = Count + 1  BY <2>1, MapCounts
  <2>7. ~Mapping'  BY <1>3 DEF Mapping
  <2> QED BY <1>2, <2>2, <2>4, <2>5, <2>6, <2>7 DEF UseInv
<1> QED BY <1>1, <1>2, <1>4, <1>7, <1>8 DEF MemInv

\* elf_load between two pages, and the end of a segment, use no frame.
LEMMA ElfKeeps ==
  ASSUME MemInv, ElfVerify \/ ElfHeader \/ ElfCopy
  PROVE  UNCHANGED vars /\ MemInv'
<1>1. /\ PmmInv /\ BootInv /\ SetupInv /\ UseInv /\ UNCHANGED vars
      /\ stage = "elf" /\ stage # "boot"
      /\ UNCHANGED <<pagingVars, phys, elf, image, stackVars, failed>>
  BY DEF MemInv, ElfVerify, ElfHeader, ElfCopy, loadVars
<1>2. PmmInv' /\ Initialised' = Initialised /\ reserved' = reserved /\ held' = held
  BY <1>1, StutterStep DEF vars, pmmVars, Initialised
<1>3. page' \in Nat /\ seg' \in Nat \ {0}
  <2>1. page \in Nat /\ seg \in Nat \ {0}  BY <1>1 DEF BootInv, SetupInv
  <2> QED BY <2>1 DEF ElfVerify, ElfHeader, ElfCopy, loadVars
<1>4. \/ stage' = "blinky_kstack" /\ step' = "alloc"
      \/ stage' = "elf" /\ step' \in {"header", "copy"}
      \/ stage' = "fault" /\ step' = "fault"
      \/ /\ stage' = "elf" /\ step' = "alloc" /\ UNCHANGED <<seg, page>>
         /\ seg \in 1..Len(elf.phdr) /\ Phdr.load /\ page < pages_needed(Phdr)
  <2>1. CASE ElfVerify  BY <2>1 DEF ElfVerify, Then
  <2>2. CASE ElfHeader
    <3>1. elf.phdr \in Seq(Segment)  BY <1>1, MemoryAssumption DEF SetupInv
    <3>2. seg > Len(elf.phdr) \/ seg \in 1..Len(elf.phdr)
      BY <1>1, <3>1 DEF SetupInv
    <3> QED BY <2>2, <3>2 DEF ElfHeader, Then
  <2>3. CASE ElfCopy  BY <2>3 DEF ElfCopy, Then
  <2> QED BY <2>1, <2>2, <2>3
<1>5. BootInv'  BY <1>1, <1>2, <1>3, <1>4 DEF BootInv
<1>6. SetupInv'
  <2>1. UNCHANGED <<dir, kstacks, ustacks>>  BY <1>1 DEF pagingVars, stackVars
  <2>2. elf.phdr \in Seq(Segment)  BY <1>1, MemoryAssumption DEF SetupInv
  <2>3. DOMAIN elf.phdr = 1..Len(elf.phdr)  BY <2>2
  <2>4. CASE stage' = "elf" /\ step' = "alloc"
    <3>1. UNCHANGED <<seg, page, elf, Phdr>>  BY <1>1, <1>4, <2>4 DEF Phdr
    <3> QED BY <1>1, <1>3, <1>4, <2>1, <2>3, <2>4, <3>1 DEF SetupInv, SetUp, pages_needed
  <2>5. CASE ~(stage' = "elf" /\ step' = "alloc")
    BY <1>1, <1>3, <1>4, <2>1, <2>5 DEF SetupInv, SetUp
  <2> QED BY <2>4, <2>5
<1>7. UseInv'
  <2>1. Uses' = Uses /\ Count' = Count
    BY <1>1 DEF Uses, Count, Tables, pagingVars, stackVars
  <2>2. ~Mapping'  BY <1>4 DEF Mapping
  <2> QED BY <1>1, <1>2, <2>1, <2>2 DEF UseInv
<1> QED BY <1>1, <1>2, <1>5, <1>6, <1>7 DEF MemInv

LEMMA MemStutter == MemInv /\ UNCHANGED memVars => MemInv'
<1> SUFFICES ASSUME MemInv, UNCHANGED memVars PROVE MemInv'  OBVIOUS
<1>1. UNCHANGED vars /\ UNCHANGED <<stage, step, phys, page, elf, seg, image, dir,
                                    kstacks, ustacks, failed>>
  BY DEF memVars, pagingVars, loadVars, stackVars
<1>2. PmmInv' /\ Initialised' = Initialised /\ reserved' = reserved /\ held' = held
  BY <1>1, StutterStep DEF MemInv, vars, pmmVars, Initialised
<1>3. BootInv'  BY <1>1, <1>2 DEF MemInv, BootInv, Marked, Tested
<1>4. SetupInv'  BY <1>1 DEF MemInv, SetupInv, Phdr, pages_needed, SetUp, Tables
<1>5. Uses' = Uses /\ Count' = Count  BY <1>1 DEF Uses, Count, Tables
<1>6. UseInv'  BY <1>1, <1>2, <1>5 DEF MemInv, UseInv, Mapping
<1> QED BY <1>2, <1>3, <1>4, <1>6 DEF MemInv

LEMMA MemStep ==
  ASSUME MemInv, [MemNext]_memVars
  PROVE  [Next]_vars /\ MemInv'
<1>1. CASE KernelReserve \/ Mark \/ SelfTest  BY <1>1, MemoryPhase
<1>2. CASE AllocPage  BY <1>2, AllocPageKeeps
<1>3. CASE NewTable  BY <1>3, NewTableKeeps
<1>4. CASE Map  BY <1>4, MapKeeps
<1>5. CASE ElfVerify \/ ElfHeader \/ ElfCopy  BY <1>5, ElfKeeps
<1>6. CASE UNCHANGED memVars
  <2>1. UNCHANGED vars  BY <1>6 DEF memVars
  <2> QED BY <1>6, <2>1, MemStutter
<1> QED BY <1>1, <1>2, <1>3, <1>4, <1>5, <1>6 DEF MemNext

-----------------------------------------------------------------------------
(* Theorems                                                                  *)

\* The marks, the self-test and the frames in use are in step with the allocator.
THEOREM MemInvHolds == MemSpec => []MemInv
<1>1. MemInv /\ [MemNext]_memVars => MemInv'  BY MemStep
<1> QED BY MemInitInv, <1>1, PTL DEF MemSpec

\* Memory.FollowsProtocol: kernel_main, elf_load and paging_map (anemoia.c:134-250,
\* elf_loader.c:49-62, paging.c:56-61) return only what they hold and reserve only
\* what nobody holds, for every executable and however little memory is left.
THEOREM FollowsProtocolHolds == MemSpec => FollowsProtocol
<1>1. MemInit => Init  BY DEF MemInit
<1>2. MemInv /\ [MemNext]_memVars => [Next]_vars  BY MemStep
<1> QED BY MemInvHolds, <1>1, <1>2, PTL DEF MemSpec, FollowsProtocol, Spec

\* So what is proved of Pmm holds while the kernel sets itself up.
THEOREM KernelAllocatorHolds ==
  MemSpec => [](Accounting /\ Partition) /\ ImplementsAllocator
BY FollowsProtocolHolds, AccountingHolds, PartitionHolds, AllocatorHolds, PTL
   DEF FollowsProtocol

\* Memory.FramesExclusive: unless pmm_alloc has failed, no frame has two uses,
\* for every executable, segments that share pages included.
THEOREM FramesExclusiveHolds == MemSpec => []FramesExclusive
<1>1. MemInv => FramesExclusive
  <2> SUFFICES ASSUME MemInv, ~failed PROVE FramesExclusive  BY DEF FramesExclusive
  <2>1. Uses \subseteq held /\ Cardinality(Uses) = Count  BY DEF MemInv, UseInv
  <2>2. Uses \cap (HeapFrames \cup Kernel) = {}
    <3>1. CASE stage = "boot"
      <4>1. SeqSet(<<>>) = {}  BY DEF SeqSet
      <4> QED BY <3>1, <4>1 DEF MemInv, SetupInv, Uses
    <3>2. CASE stage # "boot"
      BY <2>1, <3>2 DEF MemInv, BootInv, PmmInv, Partition
    <3> QED BY <3>1, <3>2
  <2> QED BY <2>1, <2>2 DEF FramesExclusive, Uses, Count, HeapFrames, Kernel,
             HeapFirst, HeapLast, KernelFirst, PoolFirst
<1> QED BY <1>1, MemInvHolds, PTL

-----------------------------------------------------------------------------
(* Page tables                                                               *)

\* The frames whose identity mapping stays, for the executable that is loaded.
Safe == Below(elf) \cup {0}

TableInv ==
  /\ \A d \in 0..Directories-1 : d < IdentityTables <=> dir[d] = Static
  /\ \A d, e \in 0..Directories-1 : dir[d] \in Frames /\ dir[d] = dir[e] => d = e
  /\ \A d \in 0..Directories-1 : dir[d] \in Frames => d \in TableDirs(elf)
  /\ Tables \subseteq Safe
  /\ static \in [0..IdentityTables * PAGE_ENTRIES - 1 -> Nat]
  /\ \A f \in Safe : static[f] = f
  /\ table \in [Frames -> [0..PAGE_ENTRIES-1 -> Frames \cup {NotPresent}]]
  /\ stage \in SetUp /\ step = "map" => dir[Virt \div PAGE_ENTRIES] # NotPresent

\* Pages elf_load has mapped so far.
Done == {s \in Slots(elf) : s[1] < seg \/ (s[1] = seg /\ s[2] < page)}

\* Stacks there are when kernel_main is at a stage.
KernelStacks == IF stage = "shell_kstack" THEN 0
                ELSE IF stage \in {"blinky_ustack", "done"} THEN 2 ELSE 1
UserStacks == IF stage \in {"shell_kstack", "shell_ustack"} THEN 0
              ELSE IF stage = "done" THEN 2 ELSE 1

\* All frames come from Below, and there are enough of them.  After pmm_alloc
\* has failed nothing is free, and elf_load stops at its next page.
BudgetInv ==
  /\ failed => stage # "boot" /\ Clear = {} /\ ~(stage = "elf" /\ step = "table")
  /\ stage # "boot" =>
       /\ held \subseteq Below(elf)
       /\ Mapping => phys \in Safe
       /\ Len(kstacks) = KernelStacks /\ Len(ustacks) = UserStacks
       /\ ~failed => Cardinality(held) <= 3 + Count + (IF Mapping THEN 1 ELSE 0)

\* elf_load goes through the headers in order, and through the pages of one.
SegInv ==
  /\ stage \in {"boot", "shell_kstack", "shell_ustack"} =>
       seg = 1 /\ image = {} /\ ~loaded /\ (stage # "boot" => page = 0)
  /\ stage = "elf" =>
       /\ ~loaded
       /\ page > 0 \/ step = "copy" => seg \in DOMAIN elf.phdr /\ Phdr.load
       /\ step = "copy" => page >= pages_needed(Phdr)
  /\ loaded => seg > Len(elf.phdr)
  /\ stage # "boot" => Cardinality(image) <= Cardinality(Done)

UserStackPage(i) == Frame(<<ShellStack, BlinkyStack>>[i]) - 1

\* The stacks and the pages of the executable are where they were mapped, and
\* pages of the executable that differ have frames that differ.
ImageInv ==
  stage # "boot" =>
    /\ image \subseteq held
    /\ stage = "elf" /\ Mapping => phys \in held \ image
    /\ \A s \in Done : Translate(SegPage(elf, s)) \in image
    /\ \A s, t \in Done : Translate(SegPage(elf, s)) = Translate(SegPage(elf, t))
                            => SegPage(elf, s) = SegPage(elf, t)
    /\ \A i \in DOMAIN kstacks : kstacks[i] \in Safe
    /\ \A i \in DOMAIN ustacks : Translate(UserStackPage(i)) = ustacks[i]

PageInv == TableInv /\ BudgetInv /\ SegInv /\ ImageInv

LEMMA SafeFrames ==
  /\ Safe \subseteq Frames
  /\ Frames \subseteq 0..IdentityTables * PAGE_ENTRIES - 1
  /\ Below(elf) \subseteq Managed
  /\ \A f \in Below(elf) : f >= PoolFirst /\ f # 0
<1>1. Below(elf) \subseteq Managed  BY DEF Below, Pool
<1>2. Managed \subseteq Frames \ {0}  BY ManagedRange
<1>3. Frames \subseteq 0..IdentityTables * PAGE_ENTRIES - 1
  <2>1. IdentityTables * PAGE_ENTRIES \in Nat  BY Bounds
  <2> QED BY <2>1, Bounds, MemoryAssumption DEF Frames
<1>4. ASSUME NEW f \in Below(elf) PROVE f >= PoolFirst
  <2>0. f \in Managed /\ f \in Frames  BY <1>1, <1>2
  <2>1. f >= KernelFirst /\ f \in Nat  BY <2>0, Layout, Bounds DEF Frames
  <2>2. f \notin KernelFirst..PoolFirst - 1  BY DEF Below, Pool, KernelFirst, PoolFirst
  <2> QED BY <2>1, <2>2, Layout
<1> QED BY <1>1, <1>2, <1>3, <1>4, Bounds DEF Safe

\* No user page covers their identity mapping.
LEMMA SafeApart ==
  ASSUME Apart(elf), NEW f \in Safe, NEW v \in UserPages(elf), v \in Nat
  PROVE  f # v
<1>1. CASE f = 0  BY <1>1 DEF Apart
<1>2. CASE f \in Below(elf)
  <2>1. f >= PoolFirst /\ f \in Nat  BY <1>2, SafeFrames DEF Frames
  <2>2. v >= PoolFirst => f < v  BY <1>2 DEF Below, PoolFirst
  <2> QED BY <2>1, <2>2, Layout
<1> QED BY <1>1, <1>2 DEF Safe

\* The identity mapping as the MMU sees it.
LEMMA TranslateStatic ==
  ASSUME TableInv, SetupInv, NEW v \in 0..IdentityTables * PAGE_ENTRIES - 1
  PROVE  Translate(v) = static[v]
<1>1. v \div PAGE_ENTRIES \in 0..IdentityTables - 1  BY DivBelow, Bounds
<1>2. v \div PAGE_ENTRIES \in 0..Directories - 1 /\ v \div PAGE_ENTRIES < IdentityTables
  BY <1>1, Bounds, MemoryAssumption
<1>3. dir[v \div PAGE_ENTRIES] = Static  BY <1>2 DEF TableInv
<1> QED BY <1>3 DEF Translate

LEMMA TranslateSafe ==
  ASSUME TableInv, SetupInv, NEW f \in Safe
  PROVE  Translate(f) = f
<1>1. f \in 0..IdentityTables * PAGE_ENTRIES - 1  BY SafeFrames
<1>2. static[f] = f  BY DEF TableInv
<1> QED BY <1>1, <1>2, TranslateStatic

\* A page is determined by its directory entry and its place in the table.
LEMMA SamePage ==
  ASSUME NEW v \in Nat, NEW w \in Nat, v \div PAGE_ENTRIES = w \div PAGE_ENTRIES,
         v % PAGE_ENTRIES = w % PAGE_ENTRIES
  PROVE  v = w
<1>1. PAGE_ENTRIES \in Nat \ {0}  BY Bounds
<1>2. v = PAGE_ENTRIES * (v \div PAGE_ENTRIES) + (v % PAGE_ENTRIES)  BY <1>1, Z3
<1>3. w = PAGE_ENTRIES * (w \div PAGE_ENTRIES) + (w % PAGE_ENTRIES)  BY <1>1, Z3
<1> QED BY <1>2, <1>3

\* paging_map changes the translation of its page and of no other.
LEMMA MapTranslates ==
  ASSUME MemInv, TableInv, Map, NEW v \in Pages
  PROVE  /\ v = Virt => Translate(v)' = phys
         /\ v # Virt => Translate(v)' = Translate(v)
<1> DEFINE d == Virt \div PAGE_ENTRIES
           e == v \div PAGE_ENTRIES
<1>1. /\ SetupInv /\ BootInv /\ stage \in SetUp /\ step = "map" /\ MapEntry
      /\ dir' = dir
  BY DEF MemInv, Map
<1>2. Virt \in Pages  BY <1>1, VirtInPages DEF Mapping
<1>3. d \in 0..Directories-1 /\ e \in 0..Directories-1  BY <1>2, Bounds
<1>4. v \in Nat /\ Virt \in Nat  BY <1>2 DEF Pages
<1>5. v = Virt => e = d  OBVIOUS
<1>6. Translate(v)' = (IF dir[e] = Static THEN static'[v]
                       ELSE IF dir[e] = NotPresent THEN NotPresent
                       ELSE table'[dir[e]][v % PAGE_ENTRIES])
  BY <1>1 DEF Translate
<1>7. Translate(v) = (IF dir[e] = Static THEN static[v]
                      ELSE IF dir[e] = NotPresent THEN NotPresent
                      ELSE table[dir[e]][v % PAGE_ENTRIES])
  BY DEF Translate
<1>8. dir[d] # NotPresent  BY <1>1 DEF TableInv
<1>9. dir[d] \in Frames \cup {Static, NotPresent} /\ dir[e] \in Frames \cup {Static, NotPresent}
  BY <1>1, <1>3 DEF SetupInv
<1>10. CASE dir[d] = Static
  <2>1. static' = [static EXCEPT ![Virt] = phys] /\ table' = table
    BY <1>1, <1>10 DEF MapEntry
  <2>2. Virt \in DOMAIN static
    <3>1. d < IdentityTables /\ d \in 0..IdentityTables-1
      BY <1>3, <1>10, Bounds DEF TableInv
    <3>2. Virt < (d + 1) * PAGE_ENTRIES  BY <1>4, Bounds, Z3
    <3>3. (d + 1) * PAGE_ENTRIES <= IdentityTables * PAGE_ENTRIES
      <4> HIDE DEF d
      <4> QED BY <3>1, Bounds
    <3>4. IdentityTables * PAGE_ENTRIES \in Nat /\ (d + 1) * PAGE_ENTRIES \in Nat
      <4> HIDE DEF d
      <4> QED BY <3>1, Bounds
    <3>5. Virt \in 0..IdentityTables * PAGE_ENTRIES - 1
      <4> HIDE DEF d
      <4> QED BY <1>4, <3>2, <3>3, <3>4
    <3> QED BY <3>5 DEF TableInv
  <2>3. static'[Virt] = phys /\ \A w : w # Virt => static'[w] = static[w]
    BY <2>1, <2>2
  <2> HIDE DEF d, e
  <2> QED BY <1>5, <1>6, <1>7, <1>10, <2>1, <2>3
<1>11. CASE dir[d] \in Frames
  <2> DEFINE t == dir[d]
  <2>1. dir[d] # Static  BY <1>11 DEF Frames, Static
  <2>2. t \in Tables  BY <1>1, <1>3, <1>8, <2>1 DEF Tables, SetupInv
  <2>3. Translate(t) = t  BY <1>1, <2>2, TranslateSafe DEF TableInv
  <2>4. /\ static' = static
        /\ table' = [table EXCEPT ![t][Virt % PAGE_ENTRIES] = phys]
    BY <1>1, <2>1, <2>3 DEF MapEntry
  <2>5. Virt % PAGE_ENTRIES \in 0..PAGE_ENTRIES-1  BY <1>4, Bounds
  <2> HIDE DEF t
  <2>6. /\ table'[t][Virt % PAGE_ENTRIES] = phys
        /\ \A k : k # Virt % PAGE_ENTRIES => table'[t][k] = table[t][k]
        /\ \A u : u # t => table'[u] = table[u]
    <3>1. t \in DOMAIN table /\ Virt % PAGE_ENTRIES \in DOMAIN table[t]
      BY <1>11, <2>5 DEF TableInv, t
    <3> QED BY <2>4, <3>1
  <2>7. CASE v = Virt  BY <1>6, <1>8, <2>1, <2>6, <2>7 DEF t
  <2>8. CASE v # Virt
    <3>1. CASE e = d
      <4>1. v % PAGE_ENTRIES # Virt % PAGE_ENTRIES  BY <1>4, <2>8, <3>1, SamePage
      <4> QED BY <1>6, <1>7, <2>1, <1>8, <2>6, <2>8, <3>1, <4>1 DEF t
    <3>2. CASE e # d
      <4>1. dir[e] \in Frames => dir[e] # t  BY <1>3, <1>11, <3>2 DEF TableInv, t
      <4> HIDE DEF d, e
      <4> QED BY <1>6, <1>7, <1>9, <2>4, <2>6, <2>8, <4>1
    <3> QED BY <3>1, <3>2
  <2> QED BY <2>7, <2>8
<1> QED BY <1>8, <1>9, <1>10, <1>11

\* A table that paging_map adds changes no translation there is.
LEMMA TableTranslates ==
  ASSUME MemInv, TableInv, NewTable, Frame(ret') \in Safe, Frame(ret') \notin Tables,
         NEW v \in Pages, dir[v \div PAGE_ENTRIES] # NotPresent
  PROVE  Translate(v)' = Translate(v)
<1> DEFINE d == Virt \div PAGE_ENTRIES
           e == v \div PAGE_ENTRIES
<1>1. /\ SetupInv /\ BootInv /\ stage \in SetUp /\ step = "table" /\ static' = static
  BY DEF MemInv, NewTable
<1>2. Virt \in Pages  BY <1>1, VirtInPages DEF Mapping
<1>3. d \in 0..Directories-1 /\ e \in 0..Directories-1  BY <1>2, Bounds
<1>4. CASE dir[d] # NotPresent
  BY <1>1, <1>4 DEF NewTable, Translate
<1>5. CASE dir[d] = NotPresent
  <2>1. /\ dir' = [dir EXCEPT ![d] = Frame(ret')]
        /\ table' = [table EXCEPT ![Frame(ret')] = ZeroTable]
    <3>1. Translate(Frame(ret')) = Frame(ret')  BY <1>1, TranslateSafe
    <3> QED BY <1>5, <3>1 DEF NewTable
  <2>2. e # d  BY <1>5
  <2> HIDE DEF d, e
  <2>3. dir'[e] = dir[e]  BY <1>1, <1>3, <2>1, <2>2 DEF SetupInv
  <2>4. dir[e] \notin {Static, NotPresent} => dir[e] \in Tables
    BY <1>1, <1>3 DEF Tables, SetupInv
  <2>5. dir[e] # Static => table'[dir[e]] = table[dir[e]]
    BY <2>1, <2>4, <1>3 DEF e
  <2>6. Translate(v)' = (IF dir[e] = Static THEN static[v]
                         ELSE IF dir[e] = NotPresent THEN NotPresent
                         ELSE table'[dir[e]][v % PAGE_ENTRIES])
    BY <1>1, <2>3 DEF Translate, e
  <2>7. Translate(v) = (IF dir[e] = Static THEN static[v]
                        ELSE IF dir[e] = NotPresent THEN NotPresent
                        ELSE table[dir[e]][v % PAGE_ENTRIES])
    BY DEF Translate, e
  <2> QED BY <2>5, <2>6, <2>7
<1> QED BY <1>4, <1>5

\* The pages of an executable are pages of the address space.
LEMMA SlotPages ==
  ASSUME NEW x \in Executables, NEW s \in Slots(x)
  PROVE  /\ s[1] \in DOMAIN x.phdr /\ x.phdr[s[1]].load /\ s[2] \in Nat
         /\ s = <<s[1], s[2]>>
         /\ SegPage(x, s) \in Pages /\ SegPage(x, s) \in UserPages(x)
<1>1. /\ s[1] \in DOMAIN x.phdr /\ x.phdr[s[1]].load /\ s[2] \in Nat
      /\ s[2] < pages_needed(x.phdr[s[1]]) /\ s = <<s[1], s[2]>>
  BY DEF Slots, Pages
<1>2. x.phdr \in Seq(Segment)  BY MemoryAssumption
<1>3. x.phdr[s[1]] \in Segment  BY <1>1, <1>2, ElementOfSeq
<1>4. Frame(x.phdr[s[1]].vaddr) + pages_needed(x.phdr[s[1]]) <= Directories * PAGE_ENTRIES
  BY <1>1, MemoryAssumption
<1>5. PICK h \in Segment : h = x.phdr[s[1]]  BY <1>3
<1>6. h.vaddr \in Nat /\ h.memsz \in Nat  BY <1>5 DEF Segment
<1>7. Frame(h.vaddr) \in Nat  BY <1>6, FrameNat
<1>8. pages_needed(h) \in Int
  <2>1. h.memsz + PMM_PAGE_SIZE - 1 \in Int  BY <1>6, Bounds
  <2> QED BY <2>1, Bounds DEF pages_needed
<1>9. Directories * PAGE_ENTRIES \in Nat  BY Bounds
<1>10. Frame(h.vaddr) + s[2] \in Pages  BY <1>1, <1>4, <1>5, <1>7, <1>8, <1>9 DEF Pages
<1> QED BY <1>1, <1>5, <1>10 DEF SegPage, UserPages

LEMMA StackPagesInPages == StackPages \subseteq Pages
<1>1. IdentityTables * PAGE_ENTRIES <= Directories * PAGE_ENTRIES
      /\ IdentityTables * PAGE_ENTRIES \in Nat /\ Directories * PAGE_ENTRIES \in Nat
  BY Bounds, MemoryAssumption
<1> QED BY <1>1, MemoryAssumption DEF Pages

LEMMA UserPagesInPages == \A x \in Executables : UserPages(x) \subseteq Pages
BY SlotPages, StackPagesInPages DEF UserPages

\* There are finitely many of them, and of their tables.
LEMMA DemandFinite ==
  ASSUME NEW x \in Executables
  PROVE  /\ IsFiniteSet(Slots(x)) /\ Cardinality(Slots(x)) \in Nat
         /\ IsFiniteSet(TableDirs(x)) /\ Cardinality(TableDirs(x)) \in Nat
<1>1. x.phdr \in Seq(Segment)  BY MemoryAssumption
<1>2. PICK n \in Nat : DOMAIN x.phdr = 1..n  BY <1>1
<1>3. IsFiniteSet(DOMAIN x.phdr)
  <2>1. IsFiniteSet(1..n)  BY FS_Interval
  <2> QED BY <1>2, <2>1
<1>4. IsFiniteSet(Pages)
  <2>1. Directories * PAGE_ENTRIES - 1 \in Int  BY Bounds
  <2> QED BY <2>1, FS_Interval DEF Pages
<1>5. IsFiniteSet((DOMAIN x.phdr) \X Pages)  BY <1>3, <1>4, FS_Product
<1>6. Slots(x) \in SUBSET ((DOMAIN x.phdr) \X Pages)  BY DEF Slots
<1>7. IsFiniteSet(Slots(x))  BY <1>5, <1>6, FS_Subset
<1>8. TableDirs(x) \in SUBSET (0..Directories-1)
  <2>1. \A v \in UserPages(x) : v \div PAGE_ENTRIES \in 0..Directories-1
    BY UserPagesInPages, Bounds
  <2> QED BY <2>1 DEF TableDirs
<1>9. IsFiniteSet(0..Directories-1)  BY Bounds, FS_Interval
<1>10. IsFiniteSet(TableDirs(x))  BY <1>8, <1>9, FS_Subset
<1> QED BY <1>7, <1>10, FS_CardinalityType

LEMMA PoolFinite ==
  \A x : Below(x) \subseteq Pool /\ IsFiniteSet(Below(x)) /\ Cardinality(Below(x)) \in Nat
<1> SUFFICES ASSUME NEW x
             PROVE  /\ Below(x) \subseteq Pool
                    /\ IsFiniteSet(Below(x)) /\ Cardinality(Below(x)) \in Nat
  OBVIOUS
<1>1. Below(x) \in SUBSET Managed /\ Below(x) \subseteq Pool  BY DEF Below, Pool
<1>2. IsFiniteSet(Below(x))  BY <1>1, ManagedRange, FS_Subset
<1> QED BY <1>1, <1>2, FS_CardinalityType

\* Every frame of the pool that lies before one of Below is in Below.
LEMMA BelowLower ==
  ASSUME NEW x \in Executables, NEW b \in Below(x), NEW f \in Pool, f <= b
  PROVE  f \in Below(x)
<1>1. f \in Nat /\ b \in Nat
  <2>1. f \in Managed /\ b \in Managed  BY DEF Below, Pool
  <2> QED BY <2>1, ManagedRange DEF Frames
<1>2. ASSUME NEW v \in UserPages(x), v >= Frame(KernelEnd) PROVE f < v
  <2>1. b < v  BY <1>2 DEF Below
  <2>2. v \in Nat  BY UserPagesInPages DEF Pages
  <2> QED BY <1>1, <2>1, <2>2
<1> QED BY <1>2 DEF Below

\* As long as the demand leaves frames in Below, pmm_alloc returns one.
LEMMA AllocBelow ==
  ASSUME PmmInv, Alloc, reserved = Kernel \cup HeapFrames,
         NEW x \in Executables, Apart(x), held \subseteq Below(x),
         Cardinality(held) < 7 + Cardinality(Slots(x)) + Cardinality(TableDirs(x))
  PROVE  ret' # 0 => /\ Frame(ret') \in Below(x) /\ held' \subseteq Below(x)
                     /\ Cardinality(held') = Cardinality(held) + 1
<1> SUFFICES ASSUME ret' # 0
             PROVE  /\ Frame(ret') \in Below(x) /\ held' \subseteq Below(x)
                    /\ Cardinality(held') = Cardinality(held) + 1
  OBVIOUS
<1>1. PICK f \in Clear : /\ \A g \in Clear : f <= g
                         /\ Frame(ret') = f /\ held' = held \cup {f}
  BY AllocLowest
<1>2. Initialised  BY DEF Alloc
<1>3. Clear = Managed \ (held \cup reserved)  BY <1>2, ClearIs
<1>4. Clear = Pool \ held
  BY <1>3 DEF Pool, Kernel, HeapFrames, KernelFirst, PoolFirst, HeapFirst, HeapLast
<1>5. f \in Below(x)
  <2>1. CASE Below(x) = Pool  BY <1>4, <2>1
  <2>2. CASE Below(x) # Pool
    <3>1. 7 + Cardinality(Slots(x)) + Cardinality(TableDirs(x)) <= Cardinality(Below(x))
      BY <2>2 DEF Apart
    <3>2. IsFiniteSet(held) /\ Cardinality(held) \in Nat
      BY HeldFinite, FS_CardinalityType
    <3>3. Cardinality(held) # Cardinality(Below(x))
      BY <3>1, <3>2, DemandFinite, PoolFinite
    <3>4. PICK b \in Below(x) : b \notin held
      <4>1. held # Below(x)  BY <3>3
      <4> QED BY <4>1
    <3>5. b \in Clear  BY <1>4, <3>4, PoolFinite
    <3>6. f \in Pool /\ f <= b  BY <1>1, <1>4, <3>5
    <3> QED BY <3>6, BelowLower
  <2> QED BY <2>1, <2>2
<1>6. Cardinality(held') = Cardinality(held) + 1
  BY <1>1, <1>4, HeldFinite, FS_AddElement
<1> QED BY <1>1, <1>5, <1>6

\* The frames of the self-test are in Below.
LEMMA TestedBelow ==
  ASSUME NEW x \in Executables, Apart(x), NEW k \in 0..2
  PROVE  PoolFirst + k \in Below(x)
<1>1. PoolFirst + k \in Pool
  BY Layout DEF Pool, KernelFirst, PoolFirst, HeapFirst, HeapLast
<1>2. CASE Below(x) = Pool  BY <1>1, <1>2
<1>3. CASE Below(x) # Pool
  <2> SUFFICES ASSUME PoolFirst + k \notin Below(x) PROVE FALSE  OBVIOUS
  <2>1. 7 + Cardinality(Slots(x)) + Cardinality(TableDirs(x)) <= Cardinality(Below(x))
    BY <1>3 DEF Apart
  <2>2. 7 <= Cardinality(Below(x))  BY <2>1, DemandFinite, PoolFinite
  <2>3. ASSUME NEW b \in Below(x) PROVE b \in PoolFirst..PoolFirst + 1
    <3>1. b \in Pool  BY PoolFinite
    <3>2. b \in Managed /\ b \notin KernelFirst..PoolFirst - 1
      BY <3>1 DEF Pool, KernelFirst, PoolFirst
    <3>3. b \in Nat /\ b >= KernelFirst  BY <3>2, Layout, ManagedRange DEF Frames
    <3>4. b >= PoolFirst  BY <3>2, <3>3, Layout
    <3>5. ~(PoolFirst + k <= b)  BY <1>1, BelowLower
    <3> QED BY <3>3, <3>4, <3>5, Layout
  <2>4. Below(x) \in SUBSET (PoolFirst..PoolFirst + 1)  BY <2>3
  <2>5. IsFiniteSet(PoolFirst..PoolFirst + 1) /\ Cardinality(PoolFirst..PoolFirst + 1) = 2
    <3>1. PICK m \in Int, n \in Int : m = PoolFirst /\ n = PoolFirst + 1 /\ n - m + 1 = 2
                                  /\ ~(m > n)
      BY Layout
    <3>2. IsFiniteSet(m..n) /\ Cardinality(m..n) = 2  BY <3>1, FS_Interval
    <3> QED BY <3>1, <3>2
  <2>6. Cardinality(Below(x)) <= 2
    <3>1. PICK S : S = PoolFirst..PoolFirst + 1  OBVIOUS
    <3>2. PICK T : T = Below(x)  OBVIOUS
    <3>3. IsFiniteSet(S) /\ Cardinality(S) = 2 /\ T \in SUBSET S  BY <2>4, <2>5, <3>1, <3>2
    <3>4. Cardinality(T) <= Cardinality(S)  BY ONLY <3>3, FS_Subset
    <3> QED BY <3>2, <3>3, <3>4
  <2> QED BY <2>2, <2>6, PoolFinite
<1> QED BY <1>2, <1>3

\* A directory entry for each table.
LEMMA TablesBound ==
  ASSUME SetupInv, TableInv
  PROVE  /\ IsFiniteSet(Tables) /\ Cardinality(Tables) \in Nat
         /\ Cardinality(Tables) <= Cardinality(TableDirs(elf))
<1> DEFINE D == {d \in 0..Directories-1 : dir[d] \in Frames}
           f == [d \in D |-> dir[d]]
<1>1. elf \in Executables  BY DEF SetupInv
<1>2. D \in SUBSET TableDirs(elf)  BY DEF TableInv
<1>3. IsFiniteSet(D) /\ Cardinality(D) <= Cardinality(TableDirs(elf))
  BY <1>1, <1>2, DemandFinite, FS_Subset
<1>4. Tables = {dir[d] : d \in D}
  <2>1. DOMAIN dir = 0..Directories-1
        /\ \A d \in 0..Directories-1 : dir[d] \in Frames \cup {Static, NotPresent}
    BY DEF SetupInv
  <2>2. Static \notin Frames /\ NotPresent \notin Frames
    BY DEF Frames, Static, NotPresent
  <2> QED BY <2>1, <2>2 DEF Tables
<1>5. f \in Surjection(D, Tables)  BY <1>4 DEF Surjection
<1>6. IsFiniteSet(Tables) /\ Cardinality(Tables) <= Cardinality(D)
  BY <1>3, <1>5, FS_Surjection
<1>7. Cardinality(Tables) \in Nat /\ Cardinality(D) \in Nat
  BY <1>3, <1>6, FS_CardinalityType
<1> QED BY <1>1, <1>3, <1>6, <1>7, DemandFinite

LEMMA DoneFinite ==
  ASSUME NEW x \in Executables, NEW D \in SUBSET Slots(x)
  PROVE  /\ IsFiniteSet(D) /\ Cardinality(D) \in Nat
         /\ Cardinality(D) <= Cardinality(Slots(x))
<1>1. IsFiniteSet(D) /\ Cardinality(D) <= Cardinality(Slots(x))
  BY DemandFinite, FS_Subset
<1> QED BY <1>1, FS_CardinalityType

\* The self-test gets the frames it asks for.
LEMMA SelfTestSucceeds ==
  ASSUME PmmInv, BootInv, SelfTest, ~failed
  PROVE  ~failed'
<1>1. CASE step \in {"frame1", "frame2", "frame3", "frame4"}
  <2>1. /\ Alloc /\ stage = "boot" /\ reserved = Kernel /\ held = Tested
        /\ failed' = (failed \/ ret' = 0) /\ Initialised
    BY <1>1 DEF SelfTest, BootInv, Marked, Alloc
  <2>2. PICK k \in 0..2 : PoolFirst + k \notin held
    <3>1. CASE step = "frame1"
      <4>1. held = {} /\ 0 \in 0..2  BY <2>1, <3>1 DEF Tested
      <4> QED BY <4>1
    <3>2. CASE step = "frame2"
      <4>1. held = {PoolFirst} /\ PoolFirst + 1 # PoolFirst /\ 1 \in 0..2
        BY <2>1, <3>2, Layout DEF Tested
      <4> QED BY <4>1
    <3>3. CASE step = "frame3"
      <4>1. held = {PoolFirst, PoolFirst + 1} /\ PoolFirst + 2 \notin {PoolFirst, PoolFirst + 1}
            /\ 2 \in 0..2
        BY <2>1, <3>3, Layout DEF Tested
      <4> QED BY <4>1
    <3>4. CASE step = "frame4"
      <4>1. held = {PoolFirst, PoolFirst + 2} /\ PoolFirst + 1 \notin {PoolFirst, PoolFirst + 2}
            /\ 1 \in 0..2
        BY <2>1, <3>4, Layout DEF Tested
      <4> QED BY <4>1
    <3> QED BY <1>1, <3>1, <3>2, <3>3, <3>4
  <2>3. PoolFirst + k \in Managed /\ PoolFirst + k \notin Kernel  BY Layout DEF Kernel
  <2>4. Clear # {}  BY <2>1, <2>2, <2>3, ClearIs
  <2>5. ret' # 0  BY <2>1, <2>4, AllocLowest
  <2> QED BY <2>1, <2>5
<1>2. CASE step = "free"  BY <1>2 DEF SelfTest
<1> QED BY <1>1, <1>2 DEF SelfTest

\* The memory phase leaves the page tables alone, and three frames held.
LEMMA MemoryPhasePages ==
  ASSUME MemInv, PageInv, Apart(elf), KernelReserve \/ Mark \/ SelfTest
  PROVE  PageInv'
<1>1. /\ PmmInv /\ BootInv /\ SetupInv /\ TableInv /\ BudgetInv /\ SegInv /\ MemInv'
  BY MemoryPhase DEF MemInv, PageInv
<1>2. /\ stage = "boot"
      /\ UNCHANGED <<dir, static, table, elf, seg, image, loaded, kstacks, ustacks>>
  BY DEF KernelReserve, Mark, SelfTest, pagingVars, loadVars, stackVars
<1>3. \/ stage' = "boot"
      \/ /\ Mark /\ step = "heap" /\ stage' = "shell_kstack" /\ step' = "alloc" /\ page' = 0
  BY DEF KernelReserve, Mark, SelfTest, Then
<1>4. ~failed'
  <2>1. ~failed  BY <1>1, <1>2 DEF BudgetInv
  <2>2. SelfTest => ~failed'  BY <1>1, <2>1, SelfTestSucceeds
  <2> QED BY <2>1, <2>2 DEF KernelReserve, Mark
<1>5. TableInv'
  <2>1. Safe' = Safe /\ Tables' = Tables  BY <1>2 DEF Safe, Tables
  <2>2. ~(stage' \in SetUp /\ step' = "map")  BY <1>3 DEF SetUp
  <2> QED BY <1>1, <1>2, <2>1, <2>2 DEF TableInv
<1>6. image' = {} /\ kstacks' = <<>> /\ ustacks' = <<>> /\ Tables' = {} /\ seg' = 1 /\ ~loaded'
  BY <1>1, <1>2 DEF SetupInv, SegInv, Tables
<1>7. BudgetInv'
  <2>1. CASE stage' = "boot"  BY <1>4, <2>1 DEF BudgetInv
  <2>2. CASE stage' # "boot"
    <3>1. held' = {PoolFirst, PoolFirst + 1, PoolFirst + 2}
      BY <1>1, <1>2, <1>3, <2>2 DEF Mark, BootInv
    <3>2. PoolFirst + 0 \in Below(elf) /\ PoolFirst + 1 \in Below(elf)
          /\ PoolFirst + 2 \in Below(elf) /\ PoolFirst + 0 = PoolFirst
      <4>1. elf \in Executables  BY <1>1 DEF SetupInv
      <4> QED BY <4>1, TestedBelow, Layout
    <3>3. held' \subseteq Below(elf)'  BY <1>2, <3>1, <3>2
    <3>4. Cardinality(held') = 3
      <4>1. PICK S : S = {PoolFirst}  OBVIOUS
      <4>2. IsFiniteSet(S) /\ Cardinality(S) = 1  BY <4>1, FS_Singleton
      <4>3. PICK T : T = S \cup {PoolFirst + 1}  OBVIOUS
      <4>4. PoolFirst + 1 \notin S  BY <4>1, Layout
      <4>5. IsFiniteSet(T) /\ Cardinality(T) = 2  BY <4>2, <4>3, <4>4, FS_AddElement
      <4>6. PoolFirst + 2 \notin T  BY <4>1, <4>3, Layout
      <4>7. Cardinality(T \cup {PoolFirst + 2}) = 3  BY <4>5, <4>6, FS_AddElement
      <4>8. held' = T \cup {PoolFirst + 2}  BY <3>1, <4>1, <4>3
      <4> QED BY <4>7, <4>8
    <3>5. Count' = 0
      <4>1. Cardinality({}) = 0  BY FS_EmptySet
      <4> QED BY <1>6, <4>1 DEF Count
    <3>6. ~Mapping'  BY <1>3, <2>2 DEF Mapping
    <3>7. Len(kstacks') = 0 /\ Len(ustacks') = 0  BY <1>6
    <3>8. KernelStacks' = 0 /\ UserStacks' = 0
      BY <1>3, <2>2 DEF KernelStacks, UserStacks
    <3> QED BY <1>4, <3>3, <3>4, <3>5, <3>6, <3>7, <3>8 DEF BudgetInv
  <2> QED BY <2>1, <2>2
<1>8. SegInv'
  <2>1. elf' \in Executables /\ Done' \in SUBSET Slots(elf')
    BY <1>1, <1>2 DEF SetupInv, Done
  <2>2. Cardinality(Done') \in Nat  BY <2>1, DoneFinite
  <2>3. Cardinality(image') <= Cardinality(Done')  BY <1>6, <2>2, FS_EmptySet
  <2> QED BY <1>3, <1>6, <2>3 DEF SegInv
<1>9. ImageInv'
  <2>1. CASE stage' = "boot"  BY <2>1 DEF ImageInv
  <2>2. CASE stage' # "boot"
    <3>1. Done' = {}
      <4> SUFFICES ASSUME NEW s \in Done' PROVE FALSE  OBVIOUS
      <4>1. s \in Slots(elf) /\ (s[1] < 1 \/ s[2] < 0)
        BY <1>2, <1>3, <1>6, <2>2 DEF Done
      <4>2. elf \in Executables /\ elf.phdr \in Seq(Segment)
        BY <1>1, MemoryAssumption DEF SetupInv
      <4>3. s[1] \in DOMAIN elf.phdr /\ s[2] \in Nat  BY <4>1, <4>2, SlotPages
      <4> QED BY <4>1, <4>2, <4>3
    <3>2. ~(stage' = "elf")  BY <1>3
    <3> QED BY <1>6, <3>1, <3>2 DEF ImageInv
  <2> QED BY <2>1, <2>2
<1> QED BY <1>5, <1>7, <1>8, <1>9 DEF PageInv

\* While nothing has failed there is a frame left for whatever comes next.
LEMMA BudgetLeft ==
  ASSUME MemInv, PageInv, ~failed, stage \in SetUp,
         step = "alloc" \/ (stage = "elf" /\ step = "table")
  PROVE  Cardinality(held) < 7 + Cardinality(Slots(elf)) + Cardinality(TableDirs(elf))
<1>1. /\ PmmInv /\ SetupInv /\ UseInv /\ TableInv /\ BudgetInv /\ SegInv
      /\ elf \in Executables /\ stage # "boot"
  BY DEF MemInv, PageInv, SetupInv, SetUp
<1>2. Cardinality(Done) <= Cardinality(Slots(elf)) /\ Cardinality(Done) \in Nat
  <2>1. Done \in SUBSET Slots(elf)  BY DEF Done
  <2> QED BY <1>1, <2>1, DoneFinite
<1>3. Cardinality(image) <= Cardinality(Done)  BY <1>1 DEF SegInv
<1>4. Cardinality(Tables) <= Cardinality(TableDirs(elf))  BY <1>1, TablesBound
<1>5. Cardinality(image) \in Nat /\ Cardinality(Tables) \in Nat
      /\ Cardinality(Slots(elf)) \in Nat /\ Cardinality(TableDirs(elf)) \in Nat
  BY <1>1, UsesFinite, DemandFinite
<1>6. Len(kstacks) = KernelStacks /\ Len(ustacks) = UserStacks  BY <1>1 DEF BudgetInv
<1>7. Cardinality(held) \in Nat  BY <1>1, HeldFinite, FS_CardinalityType
<1>8. Cardinality(held) <= 3 + Count + (IF Mapping THEN 1 ELSE 0)
  BY <1>1 DEF BudgetInv
<1>9. CASE step = "alloc"
  <2>1. KernelStacks \in Nat /\ UserStacks \in Nat /\ KernelStacks + UserStacks <= 3
    BY <1>9 DEF KernelStacks, UserStacks, SetUp
  <2>2. ~Mapping  BY <1>9 DEF Mapping
  <2>3. Cardinality(held) <= 3 + (KernelStacks + UserStacks + Cardinality(Tables)
                                  + Cardinality(image))
    BY <1>6, <1>8, <2>1, <2>2, <1>5 DEF Count
  <2> QED BY <1>2, <1>3, <1>4, <1>5, <1>7, <2>1, <2>3
<1>10. CASE stage = "elf" /\ step = "table"
  <2>1. KernelStacks = 1 /\ UserStacks = 1  BY <1>10 DEF KernelStacks, UserStacks
  <2>2. Mapping  BY <1>10 DEF Mapping
  <2>3. Cardinality(held) <= 3 + (1 + 1 + Cardinality(Tables) + Cardinality(image)) + 1
    BY <1>5, <1>6, <1>8, <2>1, <2>2 DEF Count
  <2> QED BY <1>2, <1>3, <1>4, <1>5, <1>7, <2>3
<1> QED BY <1>9, <1>10

\* So pmm_alloc returns a frame of Below, or 0 for good.
LEMMA FrameForUse ==
  ASSUME MemInv, PageInv, Apart(elf), Alloc, stage \in SetUp,
         step = "alloc" \/ (stage = "elf" /\ step = "table")
  PROVE  /\ Frame(ret') \in Safe /\ held \subseteq held' /\ held' \subseteq Below(elf)
         /\ ret' = 0 => Frame(ret') = 0 /\ Clear' = {} /\ held' = held
         /\ ret' # 0 => /\ ~failed /\ Frame(ret') \in held' \ held
                        /\ Cardinality(held') = Cardinality(held) + 1
<1>1. /\ PmmInv /\ BootInv /\ SetupInv /\ BudgetInv /\ stage # "boot" /\ elf \in Executables
  BY DEF MemInv, PageInv, SetupInv, SetUp
<1>2. reserved = Kernel \cup HeapFrames /\ held \subseteq Below(elf)
  BY <1>1 DEF BootInv, BudgetInv
<1>3. Frame(0) = 0  BY Bounds, FrameOfAddress
<1>4. CASE ret' = 0
  <2>1. Clear = {} /\ held' = held  BY <1>1, <1>4, AllocLowest
  <2>2. Clear' = {}  BY <2>1 DEF Alloc, pmm_alloc, pmmVars, Clear
  <2> QED BY <1>2, <1>3, <1>4, <2>1, <2>2 DEF Safe
<1>5. CASE ret' # 0
  <2>1. Clear # {}  BY <1>5 DEF Alloc, pmm_alloc
  <2>2. ~failed  BY <1>1, <2>1 DEF BudgetInv
  <2>3. /\ Frame(ret') \in Below(elf) /\ held' \subseteq Below(elf)
        /\ Cardinality(held') = Cardinality(held) + 1
    BY <1>1, <1>2, <1>5, <2>2, BudgetLeft, AllocBelow
  <2>4. held \subseteq held' /\ Frame(ret') \in held' \ held  BY <1>1, <1>5, AllocFresh
  <2> QED BY <1>5, <2>2, <2>3, <2>4 DEF Safe
<1> QED BY <1>4, <1>5

LEMMA AllocPagePages ==
  ASSUME MemInv, PageInv, Apart(elf), AllocPage
  PROVE  PageInv'
<1>1. /\ SetupInv /\ TableInv /\ BudgetInv /\ SegInv /\ ImageInv
      /\ Alloc /\ stage \in SetUp /\ stage # "boot" /\ step = "alloc"
      /\ phys' = Frame(ret') /\ failed' = (failed \/ ret' = 0)
      /\ UNCHANGED <<dir, static, table, page, elf, seg, image, loaded, kstacks, ustacks>>
  BY DEF MemInv, PageInv, AllocPage, SetUp, pagingVars, loadVars, stackVars
<1>2. \/ /\ stage' = stage /\ step' = "table" /\ (stage = "elf" => ret' # 0)
      \/ /\ stage = "elf" /\ ret' = 0 /\ stage' = "blinky_kstack" /\ step' = "alloc"
  BY DEF AllocPage, Then
<1>3. /\ Frame(ret') \in Safe /\ held \subseteq held' /\ held' \subseteq Below(elf)
      /\ ret' = 0 => Clear' = {}
      /\ ret' # 0 => /\ ~failed /\ Frame(ret') \in held' \ held
                     /\ Cardinality(held') = Cardinality(held) + 1
  BY <1>1, FrameForUse
<1>4. stage' # "boot" /\ (stage' # stage => stage = "elf" /\ stage' = "blinky_kstack")
  BY <1>1, <1>2
<1>5. /\ Safe' = Safe /\ Tables' = Tables /\ Done' = Done /\ Phdr' = Phdr /\ Count' = Count
      /\ \A v : Translate(v)' = Translate(v)
  BY <1>1 DEF Safe, Tables, Done, Phdr, Count, Translate
<1>6. TableInv'
  <2>1. step' # "map"  BY <1>2
  <2> QED BY <1>1, <1>5, <2>1 DEF TableInv
<1>7. BudgetInv'
  <2>1. failed' => Clear' = {} /\ ~(stage' = "elf" /\ step' = "table")
    BY <1>1, <1>2, <1>3
  <2>2. held' \subseteq Below(elf)' /\ phys' \in Safe'  BY <1>1, <1>3, <1>5
  <2>3. KernelStacks' = KernelStacks /\ UserStacks' = UserStacks
    BY <1>4 DEF KernelStacks, UserStacks
  <2>4. Len(kstacks') = KernelStacks' /\ Len(ustacks') = UserStacks'
    BY <1>1, <2>3 DEF BudgetInv
  <2>5. ~failed' => Cardinality(held') <= 3 + Count' + (IF Mapping' THEN 1 ELSE 0)
    <3> SUFFICES ASSUME ~failed'
                 PROVE  Cardinality(held') <= 3 + Count' + (IF Mapping' THEN 1 ELSE 0)
      OBVIOUS
    <3>1. ~failed /\ ret' # 0  BY <1>1
    <3>2. Mapping' /\ ~Mapping  BY <1>1, <1>2, <3>1 DEF Mapping
    <3>3. Cardinality(held) <= 3 + Count + 0  BY <1>1, <3>1, <3>2 DEF BudgetInv
    <3>4. Count \in Nat /\ Cardinality(held) \in Nat
      <4>1. PmmInv /\ UseInv  BY DEF MemInv
      <4>2. Cardinality(Uses) \in Nat /\ Count = Cardinality(Uses)
        BY <3>1, <4>1, UsesFinite DEF UseInv
      <4> QED BY <4>1, <4>2, HeldFinite, FS_CardinalityType
    <3> QED BY <1>3, <1>5, <3>1, <3>2, <3>3, <3>4
  <2> QED BY <1>4, <2>1, <2>2, <2>4, <2>5 DEF BudgetInv
<1>8. SegInv'
  <2>1. step' # "copy"  BY <1>2
  <2> QED BY <1>1, <1>4, <1>5, <2>1 DEF SegInv
<1>9. ImageInv'
  <2>1. image' \subseteq held'  BY <1>1, <1>3 DEF ImageInv
  <2>2. stage' = "elf" /\ Mapping' => phys' \in held' \ image'
    BY <1>1, <1>2, <1>3 DEF ImageInv
  <2>3. \A s : SegPage(elf, s)' = SegPage(elf, s)  BY <1>1 DEF SegPage
  <2> QED BY <1>1, <1>5, <2>1, <2>2, <2>3 DEF ImageInv, UserStackPage
<1> QED BY <1>6, <1>7, <1>8, <1>9 DEF PageInv

\* The page elf_load maps next.
LEMMA VirtSlot ==
  ASSUME SetupInv, BootInv, stage = "elf", Mapping
  PROVE  <<seg, page>> \in Slots(elf) /\ Virt = SegPage(elf, <<seg, page>>)
<1>1. /\ seg \in DOMAIN elf.phdr /\ Phdr.load /\ page < pages_needed(Phdr) /\ page \in Nat
  BY DEF SetupInv, Mapping, BootInv
<1>2. Virt = Frame(Phdr.vaddr) + page  BY DEF Virt
<1>3. Virt \in Pages  BY VirtInPages DEF SetUp
<1>4. elf \in Executables /\ elf.phdr \in Seq(Segment)  BY MemoryAssumption DEF SetupInv
<1>5. Phdr \in Segment  BY <1>1, <1>4, ElementOfSeq DEF Phdr
<1>6. Frame(Phdr.vaddr) \in Nat  BY <1>5, FrameNat DEF Segment
<1>7. page \in Pages
  <2>1. PICK b \in Nat : b = Frame(Phdr.vaddr)  BY <1>6
  <2>2. PICK n \in Nat : n = Directories * PAGE_ENTRIES  BY Bounds
  <2>3. b + page \in 0..n - 1  BY <1>2, <1>3, <2>1, <2>2 DEF Pages
  <2>4. page \in 0..n - 1  BY <1>1, <2>3
  <2> QED BY <2>2, <2>4 DEF Pages
<1> QED BY <1>1, <1>2, <1>7 DEF Slots, SegPage, Phdr

\* The pages of the stacks are in the identity map.
LEMMA StackVirt ==
  ASSUME SetupInv, stage \in SetUp \ {"elf"}, Mapping
  PROVE  /\ Virt \in 0..IdentityTables * PAGE_ENTRIES - 1
         /\ TableInv => dir[Virt \div PAGE_ENTRIES] = Static
<1>1. Virt \in 0..IdentityTables * PAGE_ENTRIES - 1
  <2>1. CASE stage \in {"shell_kstack", "blinky_kstack"}
    <3>1. phys \in Frames  BY DEF SetupInv
    <3> QED BY <2>1, <3>1, SafeFrames DEF Virt
  <2>2. CASE stage \in {"shell_ustack", "blinky_ustack"}
    <3>1. Virt \in StackPages  BY <2>2 DEF Virt, StackPages
    <3> QED BY <3>1, MemoryAssumption
  <2> QED BY <2>1, <2>2 DEF SetUp
<1>2. Virt \div PAGE_ENTRIES \in 0..IdentityTables - 1  BY <1>1, DivBelow, Bounds
<1>3. /\ Virt \div PAGE_ENTRIES \in 0..Directories - 1
      /\ Virt \div PAGE_ENTRIES < IdentityTables
  BY <1>2, Bounds, MemoryAssumption
<1> QED BY <1>1, <1>3 DEF TableInv

\* The user stacks' pages, and those the executable has so far, have a table.
LEMMA MappedPages ==
  ASSUME MemInv, PageInv, stage # "boot"
  PROVE  /\ \A s \in Done : /\ SegPage(elf, s) \in Pages
                            /\ SegPage(elf, s) \in UserPages(elf)
                            /\ dir[SegPage(elf, s) \div PAGE_ENTRIES] # NotPresent
         /\ \A i \in DOMAIN ustacks : /\ i \in {1, 2}
                                      /\ UserStackPage(i) \in StackPages
                                      /\ UserStackPage(i) \in Pages
                                      /\ dir[UserStackPage(i) \div PAGE_ENTRIES] # NotPresent
<1>1. /\ SetupInv /\ TableInv /\ BudgetInv /\ ImageInv /\ elf \in Executables
      /\ ustacks \in Seq(Frames)
  BY DEF MemInv, PageInv, SetupInv
<1>2. ASSUME NEW s \in Done
      PROVE  /\ SegPage(elf, s) \in Pages /\ SegPage(elf, s) \in UserPages(elf)
             /\ dir[SegPage(elf, s) \div PAGE_ENTRIES] # NotPresent
  <2>1. s \in Slots(elf)  BY DEF Done
  <2>2. SegPage(elf, s) \in Pages /\ SegPage(elf, s) \in UserPages(elf)
    BY <1>1, <2>1, SlotPages
  <2>3. Translate(SegPage(elf, s)) \in Frames
    <3>1. Translate(SegPage(elf, s)) \in image /\ image \subseteq held
      BY <1>1 DEF ImageInv
    <3>2. held \subseteq Below(elf)  BY <1>1 DEF BudgetInv
    <3> QED BY <3>1, <3>2, SafeFrames DEF Safe
  <2>4. Translate(SegPage(elf, s)) # NotPresent  BY <2>3 DEF Frames, NotPresent
  <2>5. NotPresent # Static  BY DEF NotPresent, Static
  <2> QED BY <2>2, <2>4, <2>5 DEF Translate
<1>3. ASSUME NEW i \in DOMAIN ustacks
      PROVE  /\ i \in {1, 2} /\ UserStackPage(i) \in StackPages /\ UserStackPage(i) \in Pages
             /\ dir[UserStackPage(i) \div PAGE_ENTRIES] # NotPresent
  <2>1. Len(ustacks) = UserStacks  BY <1>1 DEF BudgetInv
  <2>2. UserStacks \in 0..2  BY DEF UserStacks
  <2>3. i \in {1, 2}  BY <1>1, <2>1, <2>2
  <2>4. UserStackPage(i) \in StackPages  BY <2>3 DEF UserStackPage, StackPages
  <2>5. UserStackPage(i) \in 0..IdentityTables * PAGE_ENTRIES - 1
    BY <2>4, MemoryAssumption
  <2>6. UserStackPage(i) \div PAGE_ENTRIES \in 0..IdentityTables - 1
    BY <2>5, DivBelow, Bounds
  <2>7. /\ UserStackPage(i) \div PAGE_ENTRIES \in 0..Directories - 1
        /\ UserStackPage(i) \div PAGE_ENTRIES < IdentityTables
    BY <2>6, Bounds, MemoryAssumption
  <2>8. dir[UserStackPage(i) \div PAGE_ENTRIES] = Static  BY <1>1, <2>7 DEF TableInv
  <2>9. NotPresent # Static  BY DEF NotPresent, Static
  <2> QED BY <2>3, <2>4, <2>8, <2>9, StackPagesInPages
<1> QED BY <1>2, <1>3

\* A step that leaves them and their translations alone.
LEMMA ImageKept ==
  ASSUME MemInv, PageInv, stage # "boot", stage' # "boot", held \subseteq held',
         UNCHANGED <<elf, Done, image, kstacks, ustacks>>,
         stage' = "elf" /\ Mapping' => phys' \in held' \ image,
         \A v \in Pages : dir[v \div PAGE_ENTRIES] # NotPresent
                            => Translate(v)' = Translate(v)
  PROVE  ImageInv'
<1>1. ImageInv  BY DEF PageInv
<1>2. /\ Safe' = Safe /\ Done' = Done
      /\ \A s : SegPage(elf, s)' = SegPage(elf, s)
      /\ \A i : UserStackPage(i)' = UserStackPage(i)
  BY DEF Safe, SegPage, UserStackPage
<1>3. \A s \in Done : Translate(SegPage(elf, s))' = Translate(SegPage(elf, s))
  <2> SUFFICES ASSUME NEW s \in Done
               PROVE  Translate(SegPage(elf, s))' = Translate(SegPage(elf, s))
    OBVIOUS
  <2>1. PICK v : v = SegPage(elf, s)  OBVIOUS
  <2>2. v \in Pages /\ dir[v \div PAGE_ENTRIES] # NotPresent  BY <2>1, MappedPages
  <2>3. Translate(v)' = Translate(v)  BY <2>2
  <2>4. SegPage(elf, s)' = v  BY <1>2, <2>1
  <2> QED BY <2>1, <2>3, <2>4 DEF Translate
<1>4. \A i \in DOMAIN ustacks : Translate(UserStackPage(i))' = Translate(UserStackPage(i))
  <2> SUFFICES ASSUME NEW i \in DOMAIN ustacks
               PROVE  Translate(UserStackPage(i))' = Translate(UserStackPage(i))
    OBVIOUS
  <2>1. PICK v : v = UserStackPage(i)  OBVIOUS
  <2>2. v \in Pages /\ dir[v \div PAGE_ENTRIES] # NotPresent  BY <2>1, MappedPages
  <2>3. Translate(v)' = Translate(v)  BY <2>2
  <2>4. UserStackPage(i)' = v  BY <1>2, <2>1
  <2> QED BY <2>1, <2>3, <2>4 DEF Translate
<1> QED BY <1>1, <1>2, <1>3, <1>4 DEF ImageInv

LEMMA NewTablePages ==
  ASSUME MemInv, PageInv, Apart(elf), NewTable
  PROVE  /\ PageInv'
         /\ \A v \in Pages : dir[v \div PAGE_ENTRIES] # NotPresent
                             => Translate(v)' = Translate(v)
<1> DEFINE d == Virt \div PAGE_ENTRIES
<1>1. /\ PmmInv /\ BootInv /\ SetupInv /\ UseInv /\ TableInv /\ BudgetInv /\ SegInv /\ ImageInv
      /\ stage \in SetUp /\ stage # "boot" /\ step = "table" /\ stage' = stage /\ step' = "map"
      /\ UNCHANGED <<static, phys, page, elf, seg, image, loaded, kstacks, ustacks>>
  BY DEF MemInv, PageInv, NewTable, SetUp, Then, loadVars, stackVars
<1>2. /\ Mapping /\ Mapping' /\ Virt \in Pages /\ d \in 0..Directories-1
  BY <1>1, VirtInPages, Bounds DEF Mapping
<1>3. /\ Safe' = Safe /\ Done' = Done /\ Phdr' = Phdr /\ Virt' = Virt
      /\ KernelStacks' = KernelStacks /\ UserStacks' = UserStacks
  BY <1>1 DEF Safe, Done, Phdr, Virt, KernelStacks, UserStacks
<1>4. SegInv'  BY <1>1, <1>3 DEF SegInv
<1>5. stage = "elf" => phys \in held \ image  BY <1>1, <1>2 DEF ImageInv
<1>6. CASE dir[d] # NotPresent
  <2>1. UNCHANGED <<vars, failed, dir, table>>  BY <1>6 DEF NewTable
  <2>2. /\ held' = held /\ Clear' = Clear /\ Tables' = Tables /\ Count' = Count
    BY <1>1, <2>1 DEF vars, pmmVars, Clear, Tables, Count
  <2>3. TableInv'  BY <1>1, <1>3, <1>6, <2>1, <2>2 DEF TableInv
  <2>4. BudgetInv'  BY <1>1, <1>2, <1>3, <2>1, <2>2 DEF BudgetInv
  <2>5. \A v \in Pages : Translate(v)' = Translate(v)  BY <1>1, <2>1 DEF Translate
  <2>6. ImageInv'  BY <1>1, <1>2, <1>3, <1>5, <2>2, <2>5, ImageKept
  <2> QED BY <1>4, <2>3, <2>4, <2>5, <2>6 DEF PageInv
<1>7. CASE dir[d] = NotPresent
  <2>1. /\ Alloc /\ failed' = (failed \/ ret' = 0)
        /\ dir' = [dir EXCEPT ![d] = Frame(ret')]
        /\ table' = [table EXCEPT ![Translate(Frame(ret'))] = ZeroTable]
    BY <1>7 DEF NewTable
  <2>2. stage = "elf" /\ ~failed
    <3>1. NotPresent # Static  BY DEF NotPresent, Static
    <3>2. stage = "elf"  BY <1>1, <1>2, <1>7, <3>1, StackVirt
    <3> QED BY <1>1, <3>2 DEF BudgetInv
  <2>3. PICK f : f = Frame(ret')  OBVIOUS
  <2>4. /\ f \in Safe /\ held \subseteq held' /\ held' \subseteq Below(elf)
        /\ ret' = 0 => f = 0 /\ Clear' = {}
        /\ ret' # 0 => f \in held' \ held /\ Cardinality(held') = Cardinality(held) + 1
    BY <1>1, <2>1, <2>2, <2>3, FrameForUse
  <2>5. f \notin Tables
    <3>1. Tables \subseteq held  BY <1>1, <2>2 DEF UseInv, Uses
    <3>2. 0 \notin held  BY <2>4, SafeFrames
    <3> QED BY <2>4, <3>1, <3>2
  <2>6. d \notin 0..IdentityTables-1 /\ d \in TableDirs(elf)
    <3>1. NotPresent # Static  BY DEF NotPresent, Static
    <3>2. ~(d < IdentityTables)  BY <1>1, <1>2, <1>7, <3>1 DEF TableInv
    <3>3. elf \in Executables  BY <1>1 DEF SetupInv
    <3>4. Virt \in UserPages(elf)  BY <1>1, <1>2, <2>2, <3>3, VirtSlot, SlotPages
    <3>5. d \notin 0..IdentityTables-1
      <4> HIDE DEF d
      <4> QED BY <1>2, <3>2, Bounds
    <3> QED BY <3>4, <3>5 DEF TableDirs
  <2>7. Translate(f) = f  BY <1>1, <2>4, TranslateSafe
  <2>8. f \in Frames /\ f # Static /\ f # NotPresent
    <3>1. f \in Frames  BY <2>4, SafeFrames
    <3> QED BY <3>1 DEF Frames, Static, NotPresent
  <2> HIDE DEF d
  <2>9. /\ dir'[d] = f /\ \A e \in 0..Directories-1 : e # d => dir'[e] = dir[e]
        /\ DOMAIN dir = 0..Directories-1 /\ DOMAIN dir' = 0..Directories-1
    BY <1>1, <1>2, <2>1, <2>3 DEF SetupInv
  <2>10. Tables' = Tables \cup {f}
    BY <1>2, <1>7, <2>8, <2>9 DEF Tables
  <2>11. TableInv'
    <3>1. \A e \in 0..Directories-1 : e < IdentityTables <=> dir'[e] = Static
      <4>1. ~(d < IdentityTables)  BY <1>2, <2>6, Bounds
      <4> QED BY <1>1, <2>8, <2>9, <4>1 DEF TableInv
    <3>2. \A e, g \in 0..Directories-1 : dir'[e] \in Frames /\ dir'[e] = dir'[g] => e = g
      <4>1. \A e \in 0..Directories-1 : dir[e] \in Frames => dir[e] \in Tables
        BY <2>9 DEF Tables, Frames, Static, NotPresent
      <4>2. \A e \in 0..Directories-1 : e # d => dir'[e] # f
        BY <2>5, <2>8, <2>9, <4>1
      <4> QED BY <1>1, <2>9, <4>2 DEF TableInv
    <3>3. \A e \in 0..Directories-1 : dir'[e] \in Frames => e \in TableDirs(elf')
      BY <1>1, <2>6, <2>9 DEF TableInv
    <3>4. Tables' \subseteq Safe'  BY <1>1, <1>3, <2>4, <2>10 DEF TableInv
    <3>5. table' \in [Frames -> [0..PAGE_ENTRIES-1 -> Frames \cup {NotPresent}]]
      <4>1. ZeroTable \in [0..PAGE_ENTRIES-1 -> Frames \cup {NotPresent}]  BY DEF ZeroTable
      <4>2. table' = [table EXCEPT ![f] = ZeroTable]  BY <2>1, <2>3, <2>7
      <4> QED BY <1>1, <2>8, <4>1, <4>2 DEF TableInv
    <3>6. dir'[Virt' \div PAGE_ENTRIES] # NotPresent  BY <1>3, <2>8, <2>9 DEF d
    <3> QED BY <1>1, <1>3, <3>1, <3>2, <3>3, <3>4, <3>5, <3>6 DEF TableInv
  <2>12. BudgetInv'
    <3>1. failed' => Clear' = {} /\ stage' # "boot" /\ step' # "table"
      BY <1>1, <2>1, <2>2, <2>4
    <3>2. held' \subseteq Below(elf') /\ phys' \in Safe'
      BY <1>1, <1>2, <1>3, <2>4 DEF BudgetInv
    <3>3. Len(kstacks') = KernelStacks' /\ Len(ustacks') = UserStacks'
      BY <1>1, <1>3 DEF BudgetInv
    <3>4. ~failed' => Cardinality(held') <= 3 + Count' + 1
      <4> SUFFICES ASSUME ~failed' PROVE Cardinality(held') <= 3 + Count' + 1  OBVIOUS
      <4>1. Cardinality(held') = Cardinality(held) + 1  BY <2>1, <2>4
      <4>2. Cardinality(Tables') = Cardinality(Tables) + 1
        BY <1>1, <2>5, <2>10, TablesBound, FS_AddElement
      <4>3. Cardinality(held) <= 3 + Count + 1  BY <1>1, <1>2, <2>2 DEF BudgetInv
      <4>4. Count' = Len(kstacks) + Len(ustacks) + (Cardinality(Tables) + 1) + Cardinality(image)
        BY <1>1, <4>2 DEF Count
      <4>5. /\ Len(kstacks) \in Nat /\ Len(ustacks) \in Nat /\ Cardinality(Tables) \in Nat
            /\ Cardinality(image) \in Nat /\ Cardinality(held) \in Nat
        BY <1>1, <2>2, UsesFinite, HeldFinite, FS_CardinalityType DEF SetupInv
      <4>6. Count' = Count + 1  BY <4>4, <4>5 DEF Count
      <4>7. Count \in Nat  BY <4>5 DEF Count
      <4> QED BY <4>1, <4>3, <4>5, <4>6, <4>7
    <3> QED BY <1>1, <1>2, <3>1, <3>2, <3>3, <3>4 DEF BudgetInv
  <2>13. \A v \in Pages : dir[v \div PAGE_ENTRIES] # NotPresent => Translate(v)' = Translate(v)
    BY <1>1, <2>3, <2>4, <2>5, TableTranslates
  <2>14. ImageInv'
    BY <1>1, <1>2, <1>3, <1>5, <2>2, <2>4, <2>13, ImageKept
  <2> QED BY <1>4, <2>11, <2>12, <2>13, <2>14 DEF PageInv
<1> QED BY <1>6, <1>7

LEMMA MapPages ==
  ASSUME MemInv, PageInv, Apart(elf), Map
  PROVE  PageInv' /\ (stage # "elf" => \A s \in Done : SegPage(elf, s) # Virt)
<1>1. /\ PmmInv /\ BootInv /\ SetupInv /\ UseInv /\ TableInv /\ BudgetInv /\ SegInv /\ ImageInv
      /\ stage \in SetUp /\ stage # "boot" /\ step = "map" /\ MapEntry /\ AfterMap
      /\ UNCHANGED <<vars, dir, phys, elf, seg, loaded, failed>>
      /\ elf \in Executables
  BY DEF MemInv, PageInv, Map, SetUp, SetupInv
<1>2. /\ page' = (IF stage = "elf" THEN page + 1 ELSE page)
      /\ image' = (IF stage = "elf" THEN image \cup {phys} ELSE image)
      /\ kstacks' = (IF stage \in {"shell_kstack", "blinky_kstack"}
                     THEN Append(kstacks, phys) ELSE kstacks)
      /\ ustacks' = (IF stage \in {"shell_ustack", "blinky_ustack"}
                     THEN Append(ustacks, phys) ELSE ustacks)
  BY DEF Map
<1>3. /\ Mapping /\ Virt \in Pages /\ phys \in Safe /\ phys \in Frames /\ page \in Nat
  BY <1>1, VirtInPages DEF Mapping, BudgetInv, SetupInv, BootInv
<1>4. /\ stage' # "boot" /\ step' \notin {"table", "map", "copy"} /\ ~Mapping'
      /\ stage = "shell_kstack" => stage' = "shell_ustack"
      /\ stage = "shell_ustack" => stage' = "elf" /\ step' = "verify"
      /\ stage = "elf" => stage' = "elf" /\ step' = "header"
      /\ stage = "blinky_kstack" => stage' = "blinky_ustack"
      /\ stage = "blinky_ustack" => stage' = "done"
  BY <1>1 DEF AfterMap, Then, SetUp, Mapping
<1>5. /\ Safe' = Safe /\ Tables' = Tables /\ Phdr' = Phdr
      /\ held' = held /\ Clear' = Clear
      /\ \A s : SegPage(elf, s)' = SegPage(elf, s)
      /\ \A i : UserStackPage(i)' = UserStackPage(i)
  BY <1>1 DEF Safe, Tables, Phdr, vars, pmmVars, Clear, SegPage, UserStackPage
<1>6. \A v \in Pages : /\ v = Virt => Translate(v)' = phys
                       /\ v # Virt => Translate(v)' = Translate(v)
  <2> SUFFICES ASSUME NEW v \in Pages
               PROVE  /\ v = Virt => Translate(v)' = phys
                      /\ v # Virt => Translate(v)' = Translate(v)
    OBVIOUS
  <2> QED BY <1>1, MapTranslates
<1>7. \/ /\ stage \in {"shell_kstack", "blinky_kstack"} /\ Virt = phys
      \/ /\ stage \in {"shell_ustack", "blinky_ustack"}
         /\ Virt \in StackPages /\ Virt \in UserPages(elf)
      \/ /\ stage = "elf" /\ <<seg, page>> \in Slots(elf) /\ Virt = SegPage(elf, <<seg, page>>)
         /\ Virt \in UserPages(elf) /\ Virt \notin StackPages
  <2>1. CASE stage \in {"shell_kstack", "blinky_kstack"}  BY <2>1 DEF Virt
  <2>2. CASE stage \in {"shell_ustack", "blinky_ustack"}
    <3>1. Virt \in StackPages  BY <2>2 DEF Virt, StackPages
    <3> QED BY <2>2, <3>1 DEF UserPages
  <2>3. CASE stage = "elf"
    <3>1. <<seg, page>> \in Slots(elf) /\ Virt = SegPage(elf, <<seg, page>>)
      BY <1>1, <1>3, <2>3, VirtSlot
    <3>2. Virt \in UserPages(elf)  BY <1>1, <3>1, SlotPages
    <3>3. Virt \notin StackPages  BY <3>1 DEF Apart
    <3> QED BY <2>3, <3>1, <3>2, <3>3
  <2> QED BY <1>1, <2>1, <2>2, <2>3 DEF SetUp
<1>8. \A f \in Safe : f = Virt => Virt = phys
  <2> SUFFICES ASSUME NEW f \in Safe, f = Virt, Virt \in UserPages(elf) PROVE FALSE
    BY <1>7
  <2>1. Virt \in Nat  BY <1>3 DEF Pages
  <2> QED BY <2>1, SafeApart
<1>9. TableInv'
  <2> DEFINE d == Virt \div PAGE_ENTRIES
  <2>1. \/ dir[d] = Static /\ static' = [static EXCEPT ![Virt] = phys] /\ table' = table
        \/ /\ dir[d] # Static /\ static' = static
           /\ table' = [table EXCEPT ![Translate(dir[d])][Virt % PAGE_ENTRIES] = phys]
    BY <1>1 DEF MapEntry
  <2>2. static' \in [0..IdentityTables * PAGE_ENTRIES - 1 -> Nat]
    <3>1. phys \in Nat  BY <1>3 DEF Frames
    <3>2. static \in [0..IdentityTables * PAGE_ENTRIES - 1 -> Nat]  BY <1>1 DEF TableInv
    <3> QED BY <2>1, <3>1, <3>2
  <2>3. \A f \in Safe : static'[f] = f
    <3> SUFFICES ASSUME NEW f \in Safe PROVE static'[f] = f  OBVIOUS
    <3>1. static[f] = f /\ f \in DOMAIN static  BY <1>1, SafeFrames DEF TableInv
    <3> QED BY <1>8, <2>1, <3>1
  <2>4. table' \in [Frames -> [0..PAGE_ENTRIES-1 -> Frames \cup {NotPresent}]]
    <3>1. table \in [Frames -> [0..PAGE_ENTRIES-1 -> Frames \cup {NotPresent}]]
      BY <1>1 DEF TableInv
    <3>2. \A k : \A h \in [0..PAGE_ENTRIES-1 -> Frames \cup {NotPresent}] :
            [h EXCEPT ![k] = phys] \in [0..PAGE_ENTRIES-1 -> Frames \cup {NotPresent}]
      BY <1>3
    <3>3. PICK t, k : t = Translate(dir[d]) /\ k = Virt % PAGE_ENTRIES  OBVIOUS
    <3>4. CASE t \in Frames
      <4>1. [table[t] EXCEPT ![k] = phys] \in [0..PAGE_ENTRIES-1 -> Frames \cup {NotPresent}]
        BY <3>1, <3>2, <3>4
      <4>2. [table EXCEPT ![t] = [table[t] EXCEPT ![k] = phys]]
              \in [Frames -> [0..PAGE_ENTRIES-1 -> Frames \cup {NotPresent}]]
        BY <3>1, <4>1
      <4> QED BY <2>1, <3>1, <3>3, <4>2
    <3>5. CASE t \notin Frames
      <4>1. table' = table  BY <2>1, <3>1, <3>3, <3>5
      <4> QED BY <3>1, <4>1
    <3> QED BY <3>4, <3>5
  <2>5. \A e \in 0..Directories-1 : dir'[e] \in Frames => e \in TableDirs(elf')
    BY <1>1 DEF TableInv
  <2> QED BY <1>1, <1>4, <1>5, <2>2, <2>3, <2>4, <2>5 DEF TableInv
<1>10. BudgetInv'
  <2>1. Len(kstacks') = KernelStacks' /\ Len(ustacks') = UserStacks'
    <3>1. Len(kstacks) = KernelStacks /\ Len(ustacks) = UserStacks
      BY <1>1 DEF BudgetInv
    <3>2. \A s \in Seq(Frames) : Len(Append(s, phys)) = Len(s) + 1  BY <1>3
    <3>3. kstacks \in Seq(Frames) /\ ustacks \in Seq(Frames)  BY <1>1 DEF SetupInv
    <3>4. CASE stage \in {"shell_kstack", "blinky_kstack"}
      <4>1. Len(kstacks') = Len(kstacks) + 1 /\ ustacks' = ustacks
        BY <1>2, <3>2, <3>3, <3>4
      <4>2. KernelStacks' = KernelStacks + 1 /\ UserStacks' = UserStacks
        BY <1>4, <3>4 DEF KernelStacks, UserStacks
      <4> QED BY <3>1, <4>1, <4>2
    <3>5. CASE stage \in {"shell_ustack", "blinky_ustack"}
      <4>1. Len(ustacks') = Len(ustacks) + 1 /\ kstacks' = kstacks
        BY <1>2, <3>2, <3>3, <3>5
      <4>2. KernelStacks' = KernelStacks /\ UserStacks' = UserStacks + 1
        BY <1>4, <3>5 DEF KernelStacks, UserStacks
      <4> QED BY <3>1, <4>1, <4>2
    <3>6. CASE stage = "elf"
      <4>1. ustacks' = ustacks /\ kstacks' = kstacks  BY <1>2, <3>6
      <4>2. KernelStacks' = KernelStacks /\ UserStacks' = UserStacks
        BY <1>4, <3>6 DEF KernelStacks, UserStacks
      <4> QED BY <3>1, <4>1, <4>2
    <3> QED BY <1>1, <3>4, <3>5, <3>6 DEF SetUp
  <2>2. ~failed' => Cardinality(held') <= 3 + Count' + 0
    <3> SUFFICES ASSUME ~failed PROVE Cardinality(held) <= 3 + Count' + 0  BY <1>1, <1>5
    <3>1. Cardinality(held) <= 3 + Count + 1  BY <1>1, <1>3 DEF BudgetInv
    <3>2. Count' = Count + 1  BY MapCounts
    <3>3. Count \in Nat /\ Cardinality(held) \in Nat
      <4>1. Cardinality(Uses) \in Nat /\ Count = Cardinality(Uses)
        BY <1>1, UsesFinite DEF UseInv
      <4> QED BY <1>1, <4>1, HeldFinite, FS_CardinalityType
    <3> QED BY <3>1, <3>2, <3>3
  <2> QED BY <1>1, <1>4, <1>5, <2>1, <2>2 DEF BudgetInv, Safe
<1>11. Done' = IF stage = "elf" THEN Done \cup {<<seg, page>>} ELSE Done
  <2>1. CASE stage = "elf"
    <3>1. ASSUME NEW s \in Slots(elf)
          PROVE  (s[1] = seg /\ s[2] < page + 1) <=>
                   ((s[1] = seg /\ s[2] < page) \/ s = <<seg, page>>)
      <4>1. s[2] \in Nat /\ s = <<s[1], s[2]>>  BY <1>1, SlotPages
      <4> QED BY <1>3, <4>1
    <3> QED BY <1>1, <1>2, <1>7, <2>1, <3>1 DEF Done
  <2>2. CASE stage # "elf"  BY <1>1, <1>2, <2>2 DEF Done
  <2> QED BY <2>1, <2>2
<1>12. IsFiniteSet(image) /\ Cardinality(image) \in Nat
  <2>1. image \in SUBSET held  BY <1>1 DEF ImageInv
  <2> QED BY <1>1, <2>1, HeldFinite, FS_Subset, FS_CardinalityType
<1>13. SegInv'
  <2>1. Cardinality(image') <= Cardinality(Done')
    <3>1. Cardinality(image) <= Cardinality(Done)  BY <1>1 DEF SegInv
    <3>2. CASE stage = "elf"
      <4>1. Done \in SUBSET Slots(elf)  BY DEF Done
      <4>2. IsFiniteSet(Done) /\ Cardinality(Done) \in Nat  BY <1>1, <4>1, DoneFinite
      <4>3. <<seg, page>> \notin Done
        <5>1. seg \in Nat  BY <1>1 DEF SetupInv
        <5> QED BY <1>3, <5>1 DEF Done
      <4>4. Cardinality(Done') = Cardinality(Done) + 1
        BY <1>11, <3>2, <4>2, <4>3, FS_AddElement
      <4>5. Cardinality(image') <= Cardinality(image) + 1
        <5>1. image' = image \cup {phys}  BY <1>2, <3>2
        <5>2. Cardinality(image \cup {phys}) \in {Cardinality(image), Cardinality(image) + 1}
          BY <1>12, FS_AddElement
        <5> QED BY <1>12, <5>1, <5>2
      <4>6. Cardinality(image') \in Nat
        BY <1>2, <1>12, <3>2, FS_AddElement, FS_CardinalityType
      <4> QED BY <1>12, <3>1, <4>2, <4>4, <4>5, <4>6
    <3>3. CASE stage # "elf"  BY <1>2, <1>11, <3>1, <3>3
    <3> QED BY <3>2, <3>3
  <2>2. CASE stage \in {"shell_kstack", "shell_ustack"}
    <3>1. seg = 1 /\ image = {} /\ ~loaded /\ page = 0  BY <1>1, <2>2 DEF SegInv
    <3> QED BY <1>1, <1>2, <1>4, <2>1, <2>2, <3>1 DEF SegInv
  <2>3. CASE stage = "elf"
    <3>1. seg \in DOMAIN elf.phdr /\ Phdr.load  BY <1>1, <1>3, <2>3 DEF SetupInv
    <3> QED BY <1>1, <1>4, <1>5, <2>1, <2>3, <3>1 DEF SegInv
  <2>4. CASE stage \in {"blinky_kstack", "blinky_ustack"}
    <3>1. stage' \notin {"boot", "shell_kstack", "shell_ustack", "elf"}  BY <1>4, <2>4
    <3> QED BY <1>1, <2>1, <3>1 DEF SegInv
  <2> QED BY <1>1, <2>2, <2>3, <2>4 DEF SetUp
<1>14. stage # "elf" => \A s \in Done : SegPage(elf, s) # Virt
  <2> SUFFICES ASSUME stage # "elf", NEW s \in Done, SegPage(elf, s) = Virt PROVE FALSE
    OBVIOUS
  <2>1. /\ SegPage(elf, s) \in UserPages(elf) /\ SegPage(elf, s) \in Nat /\ s \in Slots(elf)
    BY <1>1, MappedPages DEF Done, Pages
  <2>2. Virt \notin StackPages  BY <2>1 DEF Apart
  <2>3. Virt = phys  BY <1>7, <2>2
  <2> QED BY <1>3, <2>1, <2>3, SafeApart
<1>15. ImageInv'
  <2>1. \A s \in Done : /\ SegPage(elf, s) \in Pages /\ SegPage(elf, s) \in UserPages(elf)
                        /\ SegPage(elf, s) \in Nat /\ s \in Slots(elf)
    BY <1>1, MappedPages DEF Done, Pages
  <2>2. /\ image \subseteq held
        /\ \A s \in Done : Translate(SegPage(elf, s)) \in image
        /\ \A s, t \in Done : Translate(SegPage(elf, s)) = Translate(SegPage(elf, t))
                               => SegPage(elf, s) = SegPage(elf, t)
    BY <1>1 DEF ImageInv
  <2>3. stage = "elf" => phys \in held \ image  BY <1>1, <1>3 DEF ImageInv
  <2>4. image' \subseteq held'  BY <1>2, <1>5, <2>2, <2>3
  <2>7. \A s \in Done' : \/ stage = "elf" /\ SegPage(elf, s) = Virt
                         \/ s \in Done /\ SegPage(elf, s) # Virt
    <3>1. CASE stage = "elf"
      <4>1. Done' = Done \cup {<<seg, page>>}  BY <1>11, <3>1
      <4>2. Virt = SegPage(elf, <<seg, page>>)  BY <1>7, <3>1
      <4> QED BY <3>1, <4>1, <4>2
    <3>2. CASE stage # "elf"  BY <1>11, <1>14, <3>2
    <3> QED BY <3>1, <3>2
  <2>8. \A s \in Done' :
          \/ /\ stage = "elf" /\ SegPage(elf, s)' = Virt /\ Translate(SegPage(elf, s))' = phys
          \/ /\ s \in Done /\ Translate(SegPage(elf, s))' = Translate(SegPage(elf, s))
    <3> SUFFICES ASSUME NEW s \in Done'
                 PROVE
          \/ /\ stage = "elf" /\ SegPage(elf, s)' = Virt /\ Translate(SegPage(elf, s))' = phys
          \/ /\ s \in Done /\ Translate(SegPage(elf, s))' = Translate(SegPage(elf, s))
      OBVIOUS
    <3>1. PICK v : v = SegPage(elf, s)  OBVIOUS
    <3>2. SegPage(elf, s)' = v  BY <1>5, <3>1
    <3>3. v \in Pages  BY <1>3, <2>1, <2>7, <3>1
    <3>4. Translate(SegPage(elf, s))' = Translate(v)'  BY <3>2 DEF Translate
    <3>5. (v = Virt => Translate(v)' = phys) /\ (v # Virt => Translate(v)' = Translate(v))
      BY <1>6, <3>3
    <3> QED BY <2>7, <3>1, <3>2, <3>4, <3>5
  <2>9. \A s \in Done' : Translate(SegPage(elf, s))' \in image'
    BY <1>2, <2>2, <2>8
  <2>10. \A s, t \in Done' : Translate(SegPage(elf, s))' = Translate(SegPage(elf, t))'
                              => SegPage(elf, s)' = SegPage(elf, t)'
    BY <1>5, <2>2, <2>3, <2>8
  <2>11. \A i \in DOMAIN kstacks' : kstacks'[i] \in Safe'
    <3>1. kstacks \in Seq(Frames) /\ \A i \in DOMAIN kstacks : kstacks[i] \in Safe
      BY <1>1 DEF SetupInv, ImageInv
    <3>2. CASE kstacks' = kstacks  BY <1>5, <3>1, <3>2
    <3>3. CASE kstacks' = Append(kstacks, phys)
      <4>1. \A i \in DOMAIN kstacks' : \/ i \in DOMAIN kstacks /\ kstacks'[i] = kstacks[i]
                                       \/ kstacks'[i] = phys
        BY <1>3, <3>1, <3>3
      <4> QED BY <1>3, <1>5, <3>1, <4>1
    <3> QED BY <1>2, <3>2, <3>3
  <2>12. \A i \in DOMAIN ustacks' : Translate(UserStackPage(i))' = ustacks'[i]
    <3>1. ustacks \in Seq(Frames)
          /\ \A i \in DOMAIN ustacks : Translate(UserStackPage(i)) = ustacks[i]
      BY <1>1 DEF SetupInv, ImageInv
    <3>2. \A i : i \in {1, 2} => UserStackPage(i) \in StackPages /\ UserStackPage(i) \in Pages
      BY StackPagesInPages DEF UserStackPage, StackPages
    <3>3. Len(ustacks) = UserStacks  BY <1>1 DEF BudgetInv
    <3>4. ASSUME NEW i \in DOMAIN ustacks
          PROVE  i \in {1, 2} /\ Virt # UserStackPage(i)
      <4>1. i \in {1, 2}  BY <1>1, MappedPages
      <4>2. CASE stage \in {"shell_kstack", "blinky_kstack"}
        <5>1. UserStackPage(i) \in UserPages(elf) /\ UserStackPage(i) \in Nat
          BY <3>2, <4>1 DEF UserPages, Pages
        <5>2. Virt = phys  BY <1>7, <4>2
        <5> QED BY <1>3, <4>1, <5>1, <5>2, SafeApart
      <4>3. CASE stage = "shell_ustack"
        <5>1. Len(ustacks) = 0  BY <3>3, <4>3 DEF UserStacks
        <5> QED BY <3>1, <5>1
      <4>4. CASE stage = "elf"  BY <1>7, <3>2, <4>1, <4>4
      <4>5. CASE stage = "blinky_ustack"
        <5>1. Len(ustacks) = 1  BY <3>3, <4>5 DEF UserStacks
        <5>2. i = 1  BY <3>1, <5>1
        <5>3. Frame(ShellStack) \in Int /\ Frame(BlinkyStack) \in Int
              /\ Frame(ShellStack) # Frame(BlinkyStack)
          BY MemoryAssumption, FrameNat
        <5>4. UserStackPage(1) = Frame(ShellStack) - 1  BY DEF UserStackPage
        <5>5. Virt = Frame(BlinkyStack) - 1  BY <4>5 DEF Virt
        <5> QED BY <4>1, <5>2, <5>3, <5>4, <5>5
      <4> QED BY <1>1, <4>2, <4>3, <4>4, <4>5 DEF SetUp
    <3>5. ASSUME NEW i \in DOMAIN ustacks
          PROVE  Translate(UserStackPage(i))' = ustacks[i]
      <4>1. PICK v : v = UserStackPage(i)  OBVIOUS
      <4>2. v \in Pages /\ v # Virt /\ Translate(v) = ustacks[i]  BY <3>1, <3>2, <3>4, <4>1
      <4>3. Translate(v)' = ustacks[i]  BY <1>6, <4>2
      <4> QED BY <1>5, <4>1, <4>3 DEF Translate
    <3>6. CASE ustacks' = ustacks  BY <3>5, <3>6
    <3>7. CASE stage \in {"shell_ustack", "blinky_ustack"}
      <4>1. ustacks' = Append(ustacks, phys)  BY <1>2, <3>7
      <4>2. PICK j : j = Len(ustacks) + 1  OBVIOUS
      <4>3. /\ DOMAIN ustacks' = DOMAIN ustacks \cup {j} /\ ustacks'[j] = phys
            /\ \A i \in DOMAIN ustacks : ustacks'[i] = ustacks[i]
        BY <1>3, <3>1, <4>1, <4>2
      <4>4. UserStackPage(j) = Virt
        <5>1. CASE stage = "shell_ustack"
          <6>1. j = 1  BY <3>3, <4>2, <5>1 DEF UserStacks
          <6> QED BY <5>1, <6>1 DEF UserStackPage, Virt
        <5>2. CASE stage = "blinky_ustack"
          <6>1. j = 2  BY <3>3, <4>2, <5>2 DEF UserStacks
          <6> QED BY <5>2, <6>1 DEF UserStackPage, Virt
        <5> QED BY <3>7, <5>1, <5>2
      <4>5. Translate(UserStackPage(j))' = phys
        <5>1. PICK v : v = Virt  OBVIOUS
        <5>2. Translate(v)' = phys  BY <1>3, <1>6, <5>1
        <5>3. UserStackPage(j)' = v  BY <1>5, <4>4, <5>1
        <5> QED BY <5>2, <5>3 DEF Translate
      <4> QED BY <3>5, <4>3, <4>5
    <3> QED BY <1>2, <3>6, <3>7
  <2> QED BY <1>4, <1>5, <2>4, <2>9, <2>10, <2>11, <2>12 DEF ImageInv
<1> QED BY <1>9, <1>10, <1>13, <1>14, <1>15 DEF PageInv

\* elf_load between two pages, and at the end of a segment.
LEMMA ElfPages ==
  ASSUME MemInv, PageInv, ElfVerify \/ ElfHeader \/ ElfCopy
  PROVE  PageInv' /\ Done' = Done
<1>1. /\ PmmInv /\ BootInv /\ SetupInv /\ TableInv /\ BudgetInv /\ SegInv /\ ImageInv
      /\ stage = "elf" /\ step \in {"verify", "header", "copy"}
      /\ UNCHANGED <<vars, dir, static, table, phys, elf, image, kstacks, ustacks, failed>>
      /\ elf \in Executables /\ seg \in Nat \ {0} /\ page \in Nat /\ ~loaded
  BY DEF MemInv, PageInv, SetupInv, BootInv, SegInv, ElfVerify, ElfHeader, ElfCopy,
         pagingVars, loadVars, stackVars
<1>2. elf.phdr \in Seq(Segment)  BY <1>1, MemoryAssumption
<1>3. DOMAIN elf.phdr = 1..Len(elf.phdr)  BY <1>2
<1>4. \/ /\ stage' = "blinky_kstack" /\ step' = "alloc" /\ UNCHANGED <<seg, page>>
         /\ loaded' => seg > Len(elf.phdr)
      \/ /\ stage' = "elf" /\ step' = "header" /\ UNCHANGED <<seg, page, loaded>>
      \/ /\ stage' = "elf" /\ step' = "header" /\ seg' = seg + 1 /\ page' = page
         /\ ~Phdr.load /\ seg \in DOMAIN elf.phdr /\ ~loaded'
      \/ /\ stage' = "elf" /\ step' \in {"alloc", "copy"} /\ UNCHANGED <<seg, page>>
         /\ Phdr.load /\ seg \in DOMAIN elf.phdr /\ ~loaded'
         /\ step' = "copy" => ~(page < pages_needed(Phdr))
      \/ /\ stage' = "elf" /\ step' = "header" /\ seg' = seg + 1 /\ page' = 0 /\ ~loaded'
         /\ step = "copy"
      \/ /\ stage' = "fault" /\ step' = "fault" /\ UNCHANGED <<seg, page>> /\ ~loaded'
  <2>1. CASE ElfVerify  BY <1>1, <2>1 DEF ElfVerify, Then, loadVars
  <2>2. CASE ElfHeader
    <3>1. CASE seg > Len(elf.phdr)  BY <1>1, <2>2, <3>1 DEF ElfHeader, Then
    <3>2. CASE ~(seg > Len(elf.phdr))
      <4>1. seg \in DOMAIN elf.phdr  BY <1>1, <1>2, <1>3, <3>2
      <4> QED BY <1>1, <2>2, <3>2, <4>1 DEF ElfHeader, Then
    <3> QED BY <3>1, <3>2
  <2>3. CASE ElfCopy  BY <1>1, <2>3 DEF ElfCopy, Then
  <2> QED BY <2>1, <2>2, <2>3
<1>5. stage' # "boot" /\ step' \notin {"table", "map"} /\ ~Mapping' /\ ~Mapping
  BY <1>1, <1>4 DEF Mapping
<1>6. Done' = Done
  <2>1. \A s \in Slots(elf) : /\ s[1] \in 1..Len(elf.phdr) /\ s[2] \in Nat
                              /\ elf.phdr[s[1]].load /\ s[2] < pages_needed(elf.phdr[s[1]])
    BY <1>1, <1>3, SlotPages DEF Slots
  <2>2. CASE UNCHANGED <<seg, page>>  BY <1>1, <2>2 DEF Done
  <2>3. CASE seg' = seg + 1 /\ page' = page /\ ~Phdr.load
    <3>1. page = 0  BY <1>1, <2>3 DEF SegInv
    <3>2. \A s \in Slots(elf) : s[1] # seg  BY <2>1, <2>3 DEF Phdr
    <3> QED BY <1>1, <1>2, <2>1, <2>3, <3>1, <3>2 DEF Done
  <2>4. CASE seg' = seg + 1 /\ page' = 0 /\ step = "copy"
    <3>1. page >= pages_needed(Phdr) /\ seg \in DOMAIN elf.phdr  BY <1>1, <2>4 DEF SegInv
    <3>2. pages_needed(Phdr) \in Int
      <4>1. Phdr \in Segment  BY <1>2, <3>1, ElementOfSeq DEF Phdr
      <4>2. Phdr.memsz + PMM_PAGE_SIZE - 1 \in Int  BY <4>1, Bounds DEF Segment
      <4> QED BY <4>2, Bounds DEF pages_needed
    <3>3. \A s \in Slots(elf) : s[1] = seg => s[2] < page
      <4> SUFFICES ASSUME NEW s \in Slots(elf), s[1] = seg PROVE s[2] < page  OBVIOUS
      <4>1. s[2] \in Nat /\ s[2] < pages_needed(Phdr)  BY <2>1 DEF Phdr
      <4> QED BY <1>1, <3>1, <3>2, <4>1
    <3> QED BY <1>1, <1>2, <2>1, <2>4, <3>3 DEF Done
  <2> QED BY <1>4, <2>2, <2>3, <2>4
<1>7. /\ Safe' = Safe /\ Tables' = Tables /\ Count' = Count /\ held' = held /\ Clear' = Clear
      /\ \A v : Translate(v)' = Translate(v)
  BY <1>1 DEF Safe, Tables, Count, vars, pmmVars, Clear, Translate
<1>8. TableInv'  BY <1>1, <1>5, <1>7 DEF TableInv
<1>9. BudgetInv'
  <2>1. KernelStacks' = KernelStacks /\ UserStacks' = UserStacks
    BY <1>1, <1>4 DEF KernelStacks, UserStacks
  <2> QED BY <1>1, <1>5, <1>7, <2>1 DEF BudgetInv
<1>10. SegInv'
  <2>1. stage' \notin {"boot", "shell_kstack", "shell_ustack"}  BY <1>4
  <2>2. stage' = "elf" /\ page' > 0 =>
          seg' = seg /\ seg \in DOMAIN elf.phdr /\ Phdr.load
    BY <1>1, <1>4 DEF SegInv
  <2>3. stage' = "elf" /\ step' = "copy" =>
          /\ seg' = seg /\ seg \in DOMAIN elf.phdr /\ Phdr.load
          /\ page' >= pages_needed(Phdr)
    <3> SUFFICES ASSUME stage' = "elf", step' = "copy"
                 PROVE  /\ seg' = seg /\ seg \in DOMAIN elf.phdr /\ Phdr.load
                        /\ page' >= pages_needed(Phdr)
      OBVIOUS
    <3>1. /\ seg' = seg /\ seg \in DOMAIN elf.phdr /\ Phdr.load /\ page' = page
          /\ ~(page < pages_needed(Phdr))
      BY <1>4
    <3>2. Phdr \in Segment  BY <1>2, <3>1, ElementOfSeq DEF Phdr
    <3>3. Phdr.memsz + PMM_PAGE_SIZE - 1 \in Int  BY <3>2, Bounds DEF Segment
    <3>4. pages_needed(Phdr) \in Int  BY <3>3, Bounds DEF pages_needed
    <3> QED BY <1>1, <3>1, <3>4
  <2>4. seg' = seg => Phdr' = Phdr  BY <1>1 DEF Phdr
  <2>5. stage' = "elf" => ~loaded'  BY <1>1, <1>4
  <2>6. loaded' => seg' > Len(elf.phdr)  BY <1>1, <1>4
  <2>7. Cardinality(image) <= Cardinality(Done)  BY <1>1 DEF SegInv
  <2>8. \A h : pages_needed(h)' = pages_needed(h)  BY DEF pages_needed
  <2> QED BY <1>1, <1>6, <2>1, <2>2, <2>3, <2>4, <2>5, <2>6, <2>7, <2>8 DEF SegInv
<1>11. ImageInv'
  <2>1. ~(stage' = "elf" /\ Mapping')  BY <1>5
  <2>2. stage # "boot"  BY <1>1
  <2> QED BY <1>1, <1>5, <1>6, <1>7, <2>1, <2>2, ImageKept
<1> QED BY <1>6, <1>8, <1>9, <1>10, <1>11 DEF PageInv

LEMMA PageInit == MemInit => PageInv
<1> SUFFICES ASSUME MemInit PROVE PageInv  OBVIOUS
<1>1. /\ stage = "boot" /\ step = "init" /\ seg = 1 /\ image = {} /\ loaded = FALSE
      /\ failed = FALSE
      /\ dir = [d \in 0..Directories-1 |-> IF d < IdentityTables THEN Static ELSE NotPresent]
      /\ static = [v \in 0..IdentityTables * PAGE_ENTRIES - 1 |-> v]
      /\ table = [f \in Frames |-> ZeroTable]
  BY DEF MemInit, PagingInit
<1>2. Static \notin Frames /\ NotPresent \notin Frames /\ Static # NotPresent
  BY DEF Frames, Static, NotPresent
<1>3. TableInv
  <2>1. Tables = {}  BY <1>1 DEF Tables
  <2>2. static \in [0..IdentityTables * PAGE_ENTRIES - 1 -> Nat]  BY <1>1, Bounds
  <2>3. \A f \in Safe : static[f] = f
    <3>1. \A f \in Safe : f \in 0..IdentityTables * PAGE_ENTRIES - 1  BY SafeFrames
    <3> QED BY <1>1, <3>1
  <2>4. table \in [Frames -> [0..PAGE_ENTRIES-1 -> Frames \cup {NotPresent}]]
    BY <1>1 DEF ZeroTable
  <2>5. \A d \in 0..Directories-1 : dir[d] \notin Frames /\ (d < IdentityTables <=> dir[d] = Static)
    BY <1>1, <1>2
  <2> QED BY <1>1, <2>1, <2>2, <2>3, <2>4, <2>5 DEF TableInv, SetUp
<1>4. BudgetInv  BY <1>1 DEF BudgetInv
<1>5. SegInv  BY <1>1 DEF SegInv
<1>6. ImageInv  BY <1>1 DEF ImageInv
<1> QED BY <1>3, <1>4, <1>5, <1>6 DEF PageInv

LEMMA PageStutter == PageInv /\ UNCHANGED memVars => PageInv' /\ Done' = Done
<1> SUFFICES ASSUME PageInv, UNCHANGED memVars PROVE PageInv' /\ Done' = Done  OBVIOUS
<1>1. UNCHANGED <<held, pmm_bitmap, dir, static, table, cell, stage, step, phys, page, elf,
                  seg, image, loaded, kstacks, ustacks, failed>>
  BY DEF memVars, vars, pmmVars, pagingVars, loadVars, stackVars
<1>2. /\ Safe' = Safe /\ Tables' = Tables /\ Done' = Done /\ Phdr' = Phdr /\ Count' = Count
      /\ Virt' = Virt /\ Clear' = Clear /\ Mapping' = Mapping
      /\ KernelStacks' = KernelStacks /\ UserStacks' = UserStacks
      /\ \A v : Translate(v)' = Translate(v)
      /\ \A s : SegPage(elf, s)' = SegPage(elf, s)
      /\ \A i : UserStackPage(i)' = UserStackPage(i)
      /\ \A h : pages_needed(h)' = pages_needed(h)
  BY <1>1 DEF Safe, Tables, Done, Phdr, Count, Virt, Clear, Mapping, KernelStacks,
       UserStacks, Translate, SegPage, UserStackPage, pages_needed
<1>3. TableInv'  BY <1>1, <1>2 DEF PageInv, TableInv
<1>4. BudgetInv'  BY <1>1, <1>2 DEF PageInv, BudgetInv
<1>5. SegInv'  BY <1>1, <1>2 DEF PageInv, SegInv
<1>6. ImageInv'  BY <1>1, <1>2 DEF PageInv, ImageInv
<1> QED BY <1>2, <1>3, <1>4, <1>5, <1>6 DEF PageInv

\* Room: the frames at hand cover what every executable asks for.
Room == \A x \in Executables : Apart(x)

LEMMA PageStep ==
  ASSUME Room, MemInv, PageInv, [MemNext]_memVars
  PROVE  PageInv'
<1>1. Apart(elf)  BY DEF Room, MemInv, SetupInv
<1>2. CASE KernelReserve \/ Mark \/ SelfTest  BY <1>1, <1>2, MemoryPhasePages
<1>3. CASE AllocPage  BY <1>1, <1>3, AllocPagePages
<1>4. CASE NewTable  BY <1>1, <1>4, NewTablePages
<1>5. CASE Map  BY <1>1, <1>5, MapPages
<1>6. CASE ElfVerify \/ ElfHeader \/ ElfCopy  BY <1>6, ElfPages
<1>7. CASE UNCHANGED memVars  BY <1>7, PageStutter
<1> QED BY <1>2, <1>3, <1>4, <1>5, <1>6, <1>7 DEF MemNext

\* The page tables, the frames at hand, the headers and the image are in step.
THEOREM PageInvHolds ==
  ASSUME Room
  PROVE  MemSpec => []PageInv
<1>1. MemInv /\ PageInv /\ [MemNext]_memVars => PageInv'  BY PageStep
<1> QED BY PageInit, MemInvHolds, <1>1, PTL DEF MemSpec

\* Memory.StacksReachable: whatever kernel_main, elf_load and paging_map set up
\* later (paging.c:48-75, elf_loader.c:49-62, anemoia.c:208-250), a kernel stack
\* stays at its physical address and a user stack below its top.
THEOREM StacksReachableHolds ==
  ASSUME Room
  PROVE  MemSpec => []StacksReachable
<1>1. MemInv /\ PageInv => StacksReachable
  <2> SUFFICES ASSUME MemInv, PageInv PROVE StacksReachable  OBVIOUS
  <2>1. CASE stage = "boot"
    BY <2>1 DEF MemInv, SetupInv, StacksReachable
  <2>2. CASE stage # "boot"
    <3>1. TableInv /\ SetupInv /\ ImageInv  BY DEF PageInv, MemInv
    <3>2. \A i \in DOMAIN kstacks : Translate(kstacks[i]) = kstacks[i]
      BY <2>2, <3>1, TranslateSafe DEF ImageInv
    <3>3. \A i \in DOMAIN ustacks : Translate(UserStackPage(i)) = ustacks[i]
      BY <2>2, <3>1 DEF ImageInv
    <3> QED BY <3>2, <3>3 DEF StacksReachable, UserStackPage
  <2> QED BY <2>1, <2>2
<1> QED BY <1>1, MemInvHolds, PageInvHolds, PTL

-----------------------------------------------------------------------------
(* What elf_load writes                                                      *)

\* The segments take up no more pages than elf_load maps for them.
Tight == \A x \in Executables : Snug(x)

\* No two segments have a page in common.
Disjoint == \A x \in Executables : Unshared(x)

StrayInv == DOMAIN cell = 0..PMM_MAX_FRAMES * PMM_PAGE_SIZE - 1 /\ NoStrayWrite

\* The segments elf_load is done with are loaded.
LoadInv ==
  \A i \in DOMAIN elf.phdr : i < seg /\ elf.phdr[i].load =>
    \A n \in 0..elf.phdr[i].memsz-1 : cell[Physical(elf.phdr[i].vaddr + n)] = Image(i, n)

\* The page of a segment in which its n-th cell is.
LEMMA CellPage ==
  ASSUME Tight, NEW x \in Executables, NEW i \in DOMAIN x.phdr, x.phdr[i].load,
         NEW n \in 0..x.phdr[i].memsz-1
  PROVE  /\ x.phdr[i].vaddr + n \in Nat
         /\ \E k \in Nat : /\ <<i, k>> \in Slots(x)
                           /\ Frame(x.phdr[i].vaddr + n) = SegPage(x, <<i, k>>)
<1>1. x.phdr \in Seq(Segment)  BY MemoryAssumption
<1>2. x.phdr[i] \in Segment  BY <1>1, ElementOfSeq
<1>3. PICK h \in Segment : h = x.phdr[i]  BY <1>2
<1>4. PICK v \in Nat, w \in Nat : v = h.vaddr /\ w = h.memsz  BY <1>3 DEF Segment
<1>5. PICK P \in Nat \ {0} : P = PMM_PAGE_SIZE  BY Bounds
<1>6. PICK N \in Int : N = pages_needed(h) /\ N = (w + P - 1) \div P
  <2>1. (w + P - 1) \div P \in Int  OBVIOUS
  <2> QED BY <1>4, <1>5, <2>1 DEF pages_needed
<1>7. PICK r \in Int : r = v % P  OBVIOUS
<1>8. PICK q \in Int : q = v \div P  OBVIOUS
<1>9. q \in Nat /\ r \in 0..P-1 /\ v = q * P + r
  <2>1. PICK b \in Int : b = v + 1  OBVIOUS
  <2>2. v < P * b
    <3>1. b \in Nat /\ b > v  BY <2>1
    <3>2. 1 * b <= P * b  BY <3>1
    <3> QED BY <3>1, <3>2
  <2>3. v \div P \in 0..b-1 /\ v % P \in 0..P-1 /\ v = (v \div P) * P + (v % P)
    BY <2>2, QuotientBelow
  <2>4. q \in 0..b-1 /\ r \in 0..P-1 /\ v = q * P + r  BY <1>7, <1>8, <2>3
  <2> QED BY <2>4
<1>10. r + w <= P * N
  <2>1. (h.vaddr % PMM_PAGE_SIZE) + h.memsz
          <= PMM_PAGE_SIZE * ((h.memsz + PMM_PAGE_SIZE - 1) \div PMM_PAGE_SIZE)
    BY <1>3 DEF Tight, Snug
  <2> QED BY <1>4, <1>5, <1>6, <1>7, <2>1
<1>11. n \in Nat /\ n < w  BY <1>3, <1>4
<1>12. PICK a \in Nat : a = r + n  BY <1>9, <1>11
<1>13. a < P * N
  <2>1. P * N \in Int  OBVIOUS
  <2> QED BY <1>9, <1>10, <1>11, <1>12, <2>1
<1>14. PICK k \in Int : k = a \div P  OBVIOUS
<1>15. PICK s \in Int : s = a % P  OBVIOUS
<1>16. k \in 0..N-1 /\ s \in 0..P-1 /\ a = k * P + s
  BY <1>13, <1>14, <1>15, QuotientBelow
<1>17. (v + n) \div P = q + k
  <2>1. PICK c \in Nat : c = q + k  BY <1>9, <1>16
  <2>2. v + n = c * P + s
    <3>1. c * P = q * P + k * P  BY <1>9, <1>16, <2>1
    <3> QED BY <1>9, <1>11, <1>12, <1>16, <3>1
  <2>3. (c * P + s) \div P = c  BY <1>16, Quotient
  <2> QED BY <2>1, <2>2, <2>3
<1>18. k \in Pages
  <2>1. Frame(h.vaddr) + pages_needed(h) <= Directories * PAGE_ENTRIES
    BY <1>3, MemoryAssumption
  <2>2. Frame(h.vaddr) = q  BY <1>4, <1>5, <1>8 DEF Frame
  <2>3. PICK D \in Nat : D = Directories * PAGE_ENTRIES  BY Bounds
  <2>4. q + N <= D  BY <1>6, <2>1, <2>2, <2>3
  <2>5. k \in 0..D-1  BY <1>9, <1>16, <2>4
  <2> QED BY <2>3, <2>5 DEF Pages
<1>19. <<i, k>> \in Slots(x)
  <2>1. k < pages_needed(x.phdr[i])  BY <1>3, <1>6, <1>16
  <2> QED BY <1>18, <2>1 DEF Slots
<1>20. Frame(x.phdr[i].vaddr + n) = SegPage(x, <<i, k>>)
  BY <1>3, <1>4, <1>5, <1>8, <1>17 DEF Frame, SegPage
<1>21. x.phdr[i].vaddr + n \in Nat  BY <1>3, <1>4, <1>11
<1> QED BY <1>16, <1>19, <1>20, <1>21

\* A physical address determines its frame and its place in it.
LEMMA PhysicalParts ==
  ASSUME NEW f \in Frames, NEW a \in Nat, Translate(Frame(a)) = f
  PROVE  /\ Frame(Physical(a)) = f /\ Physical(a) % PMM_PAGE_SIZE = a % PMM_PAGE_SIZE
         /\ Physical(a) \in 0..PMM_MAX_FRAMES * PMM_PAGE_SIZE - 1
<1>1. PICK P \in Nat \ {0} : P = PMM_PAGE_SIZE  BY Bounds
<1>2. PICK r \in Int : r = a % P  OBVIOUS
<1>3. r \in 0..P-1  BY <1>2, Z3
<1>4. Physical(a) = f * P + r  BY <1>1, <1>2 DEF Physical
<1>5. f \in Nat /\ f + 1 <= PMM_MAX_FRAMES /\ PMM_MAX_FRAMES \in Nat  BY Bounds DEF Frames
<1>6. (f * P + r) \div P = f /\ (f * P + r) % P = r  BY <1>3, <1>5, Quotient
<1>7. f * P + r \in 0..PMM_MAX_FRAMES * P - 1
  <2>1. (f + 1) * P <= PMM_MAX_FRAMES * P  BY <1>5
  <2>2. PMM_MAX_FRAMES * P \in Int /\ f * P \in Nat  BY <1>5
  <2>3. (f + 1) * P = f * P + P  BY <1>5
  <2> QED BY <1>3, <2>1, <2>2, <2>3
<1> QED BY <1>1, <1>2, <1>4, <1>6, <1>7 DEF Frame

\* Where elf_load finds the cells of a segment: in a frame of the image.
LEMMA CellInImage ==
  ASSUME MemInv, PageInv, Tight, stage # "boot", NEW i \in DOMAIN elf.phdr, elf.phdr[i].load,
         \A s \in Slots(elf) : s[1] = i => s \in Done,
         NEW n \in 0..elf.phdr[i].memsz-1
  PROVE  LET a == elf.phdr[i].vaddr + n
         IN  /\ a \in Nat /\ Mapped(a) /\ Frame(Physical(a)) \in image
             /\ Frame(Physical(a)) = Translate(Frame(a))
             /\ Physical(a) % PMM_PAGE_SIZE = a % PMM_PAGE_SIZE
             /\ Physical(a) \in 0..PMM_MAX_FRAMES * PMM_PAGE_SIZE - 1
             /\ \E k \in Nat : <<i, k>> \in Done /\ Frame(a) = SegPage(elf, <<i, k>>)
<1> DEFINE a == elf.phdr[i].vaddr + n
<1>1. elf \in Executables /\ ImageInv /\ BudgetInv  BY DEF MemInv, SetupInv, PageInv
<1>2. a \in Nat /\ \E k \in Nat : <<i, k>> \in Slots(elf) /\ Frame(a) = SegPage(elf, <<i, k>>)
  BY <1>1, CellPage
<1> HIDE DEF a
<1>3. PICK k \in Nat : <<i, k>> \in Slots(elf) /\ Frame(a) = SegPage(elf, <<i, k>>)
  BY <1>2
<1>4. <<i, k>> \in Done  BY <1>3
<1>5. Frame(a) \in Pages  BY <1>1, <1>3, SlotPages
<1>6. Translate(Frame(a)) \in image  BY <1>1, <1>3, <1>4 DEF ImageInv
<1>7. Translate(Frame(a)) \in Frames
  <2>1. image \subseteq held /\ held \subseteq Below(elf)  BY <1>1 DEF ImageInv, BudgetInv
  <2> QED BY <1>6, <2>1, SafeFrames DEF Safe
<1>8. Mapped(a)
  <2>1. Translate(Frame(a)) # NotPresent  BY <1>7 DEF Frames, NotPresent
  <2> QED BY <1>5, <2>1 DEF Mapped
<1>9. PICK f \in Frames : f = Translate(Frame(a))  BY <1>7
<1>10. /\ Frame(Physical(a)) = f /\ Physical(a) % PMM_PAGE_SIZE = a % PMM_PAGE_SIZE
       /\ Physical(a) \in 0..PMM_MAX_FRAMES * PMM_PAGE_SIZE - 1
  BY <1>2, <1>9, PhysicalParts
<1>11. \E j \in Nat : <<i, j>> \in Done /\ Frame(a) = SegPage(elf, <<i, j>>)
  BY <1>3, <1>4
<1> QED BY <1>2, <1>6, <1>8, <1>9, <1>10, <1>11 DEF a

\* A segment that is done, and the one that is being copied, has all its pages.
LEMMA SegmentDone ==
  ASSUME MemInv, PageInv, NEW i \in DOMAIN elf.phdr,
         i < seg \/ (stage = "elf" /\ step = "copy" /\ i = seg)
  PROVE  \A s \in Slots(elf) : s[1] = i => s \in Done
<1> SUFFICES ASSUME NEW s \in Slots(elf), s[1] = i PROVE s \in Done  OBVIOUS
<1>1. elf \in Executables /\ SegInv /\ page \in Nat  BY DEF MemInv, SetupInv, PageInv, BootInv
<1>2. CASE i < seg  BY <1>2 DEF Done
<1>3. CASE stage = "elf" /\ step = "copy" /\ i = seg
  <2>1. page >= pages_needed(Phdr)  BY <1>1, <1>3 DEF SegInv
  <2>2. s[2] \in Nat /\ s[2] < pages_needed(Phdr)
    BY <1>1, <1>3, SlotPages DEF Slots, Phdr
  <2>3. pages_needed(Phdr) \in Int
    <3>1. elf.phdr \in Seq(Segment)  BY <1>1, MemoryAssumption
    <3>2. Phdr \in Segment  BY <1>3, <3>1, ElementOfSeq DEF Phdr
    <3>3. Phdr.memsz + PMM_PAGE_SIZE - 1 \in Int  BY <3>2, Bounds DEF Segment
    <3> QED BY <3>3, Bounds DEF pages_needed
  <2>4. s[2] < page  BY <1>1, <2>1, <2>2, <2>3
  <2> QED BY <1>3, <2>4 DEF Done
<1> QED BY <1>2, <1>3

LEMMA StrayStep ==
  ASSUME Tight, MemInv, PageInv, StrayInv, [MemNext]_memVars
  PROVE  StrayInv'
<1>1. CASE cell' = cell /\ image \subseteq image'
  BY <1>1 DEF StrayInv, NoStrayWrite
<1>2. CASE ElfCopy /\ cell' # cell
  <2> DEFINE To(n)  == Physical(Phdr.vaddr + n)
             Hit(x) == {n \in 0..Phdr.memsz-1 : To(n) = x}
  <2>1. /\ stage = "elf" /\ step = "copy" /\ image' = image
        /\ cell' = [x \in DOMAIN cell |->
                     IF Hit(x) = {} THEN cell[x] ELSE Image(seg, Max(Hit(x)))]
    BY <1>2 DEF ElfCopy
  <2>2. seg \in DOMAIN elf.phdr /\ elf.phdr[seg].load  BY <2>1 DEF PageInv, SegInv, Phdr
  <2>3. \A n \in 0..Phdr.memsz-1 : Frame(To(n)) \in image
    <3>1. \A s \in Slots(elf) : s[1] = seg => s \in Done  BY <2>1, <2>2, SegmentDone
    <3>2. stage # "boot"  BY <2>1
    <3> QED BY <2>2, <3>1, <3>2, CellInImage DEF Phdr
  <2>4. DOMAIN cell' = DOMAIN cell  BY <2>1
  <2>5. ASSUME NEW x \in DOMAIN cell, cell'[x] # Junk PROVE Frame(x) \in image
    <3>1. CASE Hit(x) = {}
      <4>1. cell'[x] = cell[x]  BY <2>1, <3>1
      <4> QED BY <2>5, <4>1 DEF StrayInv, NoStrayWrite
    <3>2. CASE Hit(x) # {}  BY <2>3, <3>2
    <3> QED BY <3>1, <3>2
  <2> QED BY <2>1, <2>4, <2>5 DEF StrayInv, NoStrayWrite
<1>3. image \subseteq image'
  BY DEF MemNext, memVars, KernelReserve, Mark, SelfTest, AllocPage, NewTable, Map, ElfVerify,
         ElfHeader, ElfCopy, loadVars
<1>4. cell' = cell \/ ElfCopy
  BY DEF MemNext, memVars, KernelReserve, Mark, SelfTest, AllocPage, NewTable, Map, ElfVerify,
         ElfHeader
<1> QED BY <1>1, <1>2, <1>3, <1>4

LEMMA StrayInit == MemInit => StrayInv
BY DEF MemInit, StrayInv, NoStrayWrite

\* Memory.NoStrayWrite: elf_load (elf_loader.c:64-81) writes through the pages
\* it has mapped to frames of its own, however the segments lie.
THEOREM NoStrayWriteHolds ==
  ASSUME Room, Tight
  PROVE  MemSpec => []NoStrayWrite
<1>1. MemInv /\ PageInv /\ StrayInv /\ [MemNext]_memVars => StrayInv'  BY StrayStep
<1>2. StrayInv => NoStrayWrite  BY DEF StrayInv
<1> QED BY StrayInit, MemInvHolds, PageInvHolds, <1>1, <1>2, PTL DEF MemSpec

\* paging_map keeps the pages of the executable where they are, unless two
\* segments have the page in common.
LEMMA DoneTranslates ==
  ASSUME Disjoint, MemInv, PageInv, Apart(elf), NewTable \/ Map
  PROVE  \A s \in Done : Translate(SegPage(elf, s))' = Translate(SegPage(elf, s))
<1>1. /\ SetupInv /\ BootInv /\ stage \in SetUp /\ stage # "boot" /\ elf' = elf /\ Mapping
      /\ elf \in Executables
  BY DEF MemInv, SetupInv, SetUp, NewTable, Map, loadVars, Mapping
<1> SUFFICES ASSUME NEW s \in Done
             PROVE  Translate(SegPage(elf, s))' = Translate(SegPage(elf, s))
  OBVIOUS
<1>2. PICK v : v = SegPage(elf, s)  OBVIOUS
<1>3. v \in Pages /\ dir[v \div PAGE_ENTRIES] # NotPresent /\ s \in Slots(elf)
  BY <1>1, <1>2, MappedPages DEF Done
<1>4. SegPage(elf, s)' = v  BY <1>1, <1>2 DEF SegPage
<1>5. Translate(v)' = Translate(v)
  <2>1. CASE NewTable  BY <1>3, <2>1, NewTablePages
  <2>2. CASE Map
    <3>1. v # Virt
      <4>1. CASE stage # "elf"  BY <1>2, <2>2, <4>1, MapPages
      <4>2. CASE stage = "elf"
        <5>1. <<seg, page>> \in Slots(elf) /\ Virt = SegPage(elf, <<seg, page>>)
          BY <1>1, <4>2, VirtSlot
        <5>2. s # <<seg, page>>  BY <1>1 DEF Done, SetupInv, BootInv
        <5> QED BY <1>1, <1>2, <1>3, <5>1, <5>2 DEF Disjoint, Unshared
      <4> QED BY <4>1, <4>2
    <3> QED BY <1>3, <2>2, <3>1, MapTranslates DEF PageInv
  <2> QED BY <2>1, <2>2
<1> QED BY <1>2, <1>4, <1>5 DEF Translate

\* What is loaded stays where it is and as it is.
LEMMA LoadKept ==
  ASSUME Tight, MemInv, PageInv, LoadInv, stage # "boot", UNCHANGED <<elf, cell>>,
         seg' = seg \/ (seg' = seg + 1 /\ ~Phdr.load),
         \A s \in Done : Translate(SegPage(elf, s))' = Translate(SegPage(elf, s))
  PROVE  LoadInv'
<1>1. seg \in Nat /\ elf \in Executables /\ elf.phdr \in Seq(Segment)
      /\ \A s : SegPage(elf, s)' = SegPage(elf, s)
  BY MemoryAssumption DEF MemInv, SetupInv, SegPage
<1> SUFFICES ASSUME NEW i \in DOMAIN elf.phdr, i < seg', elf.phdr[i].load,
                    NEW n \in 0..elf.phdr[i].memsz-1
             PROVE  cell[Physical(elf.phdr[i].vaddr + n)'] = Image(i, n)
  BY DEF LoadInv, Image
<1>2. i < seg
  <2>1. i \in Nat  BY <1>1
  <2>2. i = seg => Phdr.load  BY DEF Phdr
  <2> QED BY <1>1, <2>1, <2>2
<1>3. \A s \in Slots(elf) : s[1] = i => s \in Done  BY <1>2, SegmentDone
<1>4. PICK a \in Nat : a = elf.phdr[i].vaddr + n  BY <1>3, CellInImage
<1>5. PICK k \in Nat : <<i, k>> \in Done /\ Frame(a) = SegPage(elf, <<i, k>>)
  BY <1>3, <1>4, CellInImage
<1>6. Translate(Frame(a))' = Translate(Frame(a))
  <2>1. Translate(SegPage(elf, <<i, k>>))' = Translate(SegPage(elf, <<i, k>>))  BY <1>5
  <2>2. SegPage(elf, <<i, k>>)' = Frame(a)  BY <1>1, <1>5
  <2> QED BY <1>5, <2>1, <2>2 DEF Translate
<1>7. Physical(a)' = Physical(a)  BY <1>6 DEF Physical
<1>8. Physical(elf.phdr[i].vaddr + n)' = Physical(a)  BY <1>4, <1>7
<1>9. cell[Physical(a)] = Image(i, n)  BY <1>2, <1>4 DEF LoadInv
<1> QED BY <1>8, <1>9

\* elf_load copies a segment: each cell is written once, and none of a segment
\* that is loaded already.
LEMMA CopyLoads ==
  ASSUME Tight, Disjoint, MemInv, PageInv, StrayInv, LoadInv, ElfCopy, stage' = "elf"
  PROVE  LoadInv'
<1> DEFINE To(n)  == Physical(Phdr.vaddr + n)
           Hit(x) == {n \in 0..Phdr.memsz-1 : To(n) = x}
<1>1. /\ stage = "elf" /\ step = "copy" /\ stage # "boot" /\ seg' = seg + 1
      /\ cell' = [x \in DOMAIN cell |->
                   IF Hit(x) = {} THEN cell[x] ELSE Image(seg, Max(Hit(x)))]
      /\ UNCHANGED <<vars, pagingVars, elf>>
  BY DEF ElfCopy, Then
<1>2. /\ seg \in DOMAIN elf.phdr /\ Phdr.load /\ Phdr = elf.phdr[seg] /\ seg \in Nat
      /\ elf \in Executables /\ elf.phdr \in Seq(Segment) /\ ImageInv
      /\ DOMAIN cell = 0..PMM_MAX_FRAMES * PMM_PAGE_SIZE - 1
  BY <1>1, MemoryAssumption DEF PageInv, SegInv, Phdr, MemInv, SetupInv, StrayInv
<1>3. \A a : Physical(a)' = Physical(a)
  BY <1>1 DEF Physical, Translate, pagingVars
<1> SUFFICES ASSUME NEW i \in DOMAIN elf.phdr, i < seg', elf.phdr[i].load,
                    NEW n \in 0..elf.phdr[i].memsz-1
             PROVE  cell'[Physical(elf.phdr[i].vaddr + n)] = Image(i, n)
  BY <1>1, <1>3 DEF LoadInv, Image
<1>4. i \in Nat /\ i <= seg  BY <1>1, <1>2
<1>5. \A s \in Slots(elf) : s[1] = i => s \in Done
  BY <1>1, <1>2, <1>4, SegmentDone
<1>6. \A s \in Slots(elf) : s[1] = seg => s \in Done  BY <1>1, <1>2, SegmentDone
<1>7. PICK a : a = elf.phdr[i].vaddr + n  OBVIOUS
<1>8. PICK x : x = Physical(a)  OBVIOUS
<1>9. /\ a \in Nat /\ x \in DOMAIN cell /\ Frame(x) = Translate(Frame(a))
      /\ x % PMM_PAGE_SIZE = a % PMM_PAGE_SIZE
      /\ \E k \in Nat : <<i, k>> \in Done /\ Frame(a) = SegPage(elf, <<i, k>>)
  BY <1>1, <1>2, <1>5, <1>7, <1>8, CellInImage
<1>10. ASSUME NEW m \in Hit(x)
       PROVE  i = seg /\ m = n
  <2>1. m \in 0..elf.phdr[seg].memsz-1  BY <1>2
  <2>2. PICK b : b = elf.phdr[seg].vaddr + m  OBVIOUS
  <2>3. Physical(b) = x  BY <1>2, <2>2
  <2>4. /\ b \in Nat /\ Frame(x) = Translate(Frame(b))
        /\ x % PMM_PAGE_SIZE = b % PMM_PAGE_SIZE
        /\ \E k \in Nat : <<seg, k>> \in Done /\ Frame(b) = SegPage(elf, <<seg, k>>)
    BY <1>1, <1>2, <1>6, <2>1, <2>2, <2>3, CellInImage
  <2>5. PICK k \in Nat : <<i, k>> \in Done /\ Frame(a) = SegPage(elf, <<i, k>>)  BY <1>9
  <2>6. PICK j \in Nat : <<seg, j>> \in Done /\ Frame(b) = SegPage(elf, <<seg, j>>)
    BY <2>4
  <2>7. Translate(SegPage(elf, <<i, k>>)) = Translate(SegPage(elf, <<seg, j>>))
    BY <1>9, <2>4, <2>5, <2>6
  <2>8. SegPage(elf, <<i, k>>) = SegPage(elf, <<seg, j>>)
    BY <1>1, <1>2, <2>5, <2>6, <2>7 DEF ImageInv
  <2>9. <<i, k>> = <<seg, j>>  BY <1>2, <2>5, <2>6, <2>8 DEF Disjoint, Unshared, Done
  <2>10. i = seg  BY <2>9
  <2>11. Frame(a) = Frame(b) /\ a % PMM_PAGE_SIZE = b % PMM_PAGE_SIZE
    BY <1>9, <2>4, <2>5, <2>6, <2>8
  <2>12. a = b
    <3>1. PICK P \in Nat \ {0} : P = PMM_PAGE_SIZE  BY Bounds
    <3>2. a \div P = b \div P /\ a % P = b % P  BY <2>11, <3>1 DEF Frame
    <3>3. a = P * (a \div P) + (a % P)  BY <1>9, Z3
    <3>4. b = P * (b \div P) + (b % P)  BY <2>4, Z3
    <3> QED BY <3>2, <3>3, <3>4
  <2>13. elf.phdr[seg].vaddr \in Nat
    <3>1. elf.phdr[seg] \in Segment  BY <1>2, ElementOfSeq
    <3> QED BY <3>1 DEF Segment
  <2>14. n \in Int /\ m \in Int  BY <2>1
  <2> QED BY <1>7, <2>2, <2>10, <2>12, <2>13, <2>14
<1>11. CASE i = seg
  <2>1. Hit(x) = {n}
    <3>1. n \in Hit(x)  BY <1>2, <1>7, <1>8, <1>11
    <3> QED BY <1>10, <3>1
  <2>2. Max({n}) = n
    <3>1. n \in Int  OBVIOUS
    <3> QED BY <3>1 DEF Max
  <2>3. cell'[x] = Image(seg, Max(Hit(x)))  BY <1>1, <1>9, <2>1
  <2> QED BY <1>7, <1>8, <1>11, <2>1, <2>2, <2>3
<1>12. CASE i # seg
  <2>1. Hit(x) = {}  BY <1>10, <1>12
  <2>2. cell'[x] = cell[x]  BY <1>1, <1>9, <2>1
  <2>3. i < seg  BY <1>2, <1>4, <1>12
  <2>4. cell[x] = Image(i, n)  BY <1>7, <1>8, <2>3 DEF LoadInv
  <2> QED BY <1>7, <1>8, <2>2, <2>4
<1> QED BY <1>11, <1>12

LEMMA LoadStep ==
  ASSUME Room, Tight, Disjoint, MemInv, PageInv, StrayInv, LoadInv, [MemNext]_memVars
  PROVE  LoadInv'
<1>1. /\ Apart(elf) /\ SegInv /\ elf \in Executables /\ elf.phdr \in Seq(Segment)
      /\ PageInv'
  BY MemoryAssumption, PageStep DEF Room, MemInv, SetupInv, PageInv
<1>2. CASE KernelReserve \/ Mark \/ SelfTest
  <2>1. seg' = 1 /\ elf' = elf
    BY <1>1, <1>2 DEF KernelReserve, Mark, SelfTest, SegInv, loadVars
  <2>2. \A i \in DOMAIN elf.phdr : i \in Nat \ {0}  BY <1>1
  <2>3. \A i \in DOMAIN elf.phdr : ~(i < 1)  BY <2>2
  <2> QED BY <2>1, <2>3 DEF LoadInv
<1>3. CASE AllocPage
  <2>1. stage # "boot" /\ UNCHANGED <<elf, seg, cell, dir, static, table>>
    BY <1>3 DEF AllocPage, SetUp, loadVars, pagingVars
  <2>2. \A s \in Done : Translate(SegPage(elf, s))' = Translate(SegPage(elf, s))
    BY <2>1 DEF Translate, SegPage
  <2> QED BY <2>1, <2>2, LoadKept
<1>4. CASE NewTable \/ Map
  <2>1. stage # "boot" /\ UNCHANGED <<elf, seg, cell>>
    BY <1>4 DEF NewTable, Map, SetUp, loadVars
  <2> QED BY <1>1, <1>4, <2>1, DoneTranslates, LoadKept
<1>5. CASE ElfVerify \/ ElfHeader \/ (ElfCopy /\ stage' = "fault")
  <2>1. stage # "boot" /\ UNCHANGED <<elf, cell, dir, static, table>>
    BY <1>5 DEF ElfVerify, ElfHeader, ElfCopy, loadVars, pagingVars, Then
  <2>2. \A s \in Done : Translate(SegPage(elf, s))' = Translate(SegPage(elf, s))
    BY <2>1 DEF Translate, SegPage
  <2>3. seg' = seg \/ (seg' = seg + 1 /\ ~Phdr.load)
    BY <1>5 DEF ElfVerify, ElfHeader, ElfCopy, loadVars, Then
  <2> QED BY <2>1, <2>2, <2>3, LoadKept
<1>6. CASE ElfCopy /\ stage' = "elf"  BY <1>6, CopyLoads
<1>7. CASE UNCHANGED memVars
  <2>1. UNCHANGED <<elf, seg, cell, dir, static, table>>
    BY <1>7 DEF memVars, loadVars, pagingVars
  <2>2. \A a : Physical(a)' = Physical(a)  BY <2>1 DEF Physical, Translate
  <2> QED BY <2>1, <2>2 DEF LoadInv, Image
<1>8. ElfCopy => stage' \in {"elf", "fault"}  BY DEF ElfCopy, Then
<1> QED BY <1>2, <1>3, <1>4, <1>5, <1>6, <1>7, <1>8 DEF MemNext

LEMMA LoadInit == MemInit => LoadInv
<1> SUFFICES ASSUME MemInit PROVE LoadInv  OBVIOUS
<1>1. seg = 1 /\ elf \in Executables  BY DEF MemInit
<1>2. elf.phdr \in Seq(Segment)  BY <1>1, MemoryAssumption
<1>3. \A i \in DOMAIN elf.phdr : i \in Nat \ {0}  BY <1>2
<1>4. \A i \in DOMAIN elf.phdr : ~(i < 1)  BY <1>3
<1> QED BY <1>1, <1>4 DEF LoadInv

\* Memory.SegmentsLoaded: when elf_load returns the entry point (elf_loader.h:34
\* and 37), every cell of every segment is mapped and has its contents, zero
\* behind the file's, and keeps them.  Two segments with a page in common lose
\* the first one's part of it.
THEOREM SegmentsLoadedHolds ==
  ASSUME Room, Tight, Disjoint
  PROVE  MemSpec => []SegmentsLoaded
<1>1. MemInv /\ PageInv /\ StrayInv /\ LoadInv /\ [MemNext]_memVars => LoadInv'
  BY LoadStep
<1>2. MemInv /\ PageInv /\ StrayInv /\ [MemNext]_memVars => StrayInv'  BY StrayStep
<1>3. MemInv /\ PageInv /\ LoadInv => SegmentsLoaded
  <2> SUFFICES ASSUME MemInv, PageInv, LoadInv, loaded, NEW i \in DOMAIN elf.phdr,
                      elf.phdr[i].load, NEW n \in 0..elf.phdr[i].memsz-1
               PROVE  LET a == elf.phdr[i].vaddr + n
                      IN  Mapped(a) /\ cell[Physical(a)] = Image(i, n)
    BY DEF SegmentsLoaded, Image
  <2>1. elf.phdr \in Seq(Segment) /\ seg > Len(elf.phdr) /\ seg \in Nat /\ stage # "boot"
    BY MemoryAssumption DEF MemInv, SetupInv, PageInv, SegInv
  <2>2. i < seg
    <3>1. i \in 1..Len(elf.phdr) /\ Len(elf.phdr) \in Nat  BY <2>1
    <3> QED BY <2>1, <3>1
  <2>3. \A s \in Slots(elf) : s[1] = i => s \in Done  BY <2>2, SegmentDone
  <2> QED BY <2>1, <2>2, <2>3, CellInImage DEF LoadInv
<1> QED BY StrayInit, LoadInit, MemInvHolds, PageInvHolds, <1>1, <1>2, <1>3, PTL DEF MemSpec

=============================================================================
