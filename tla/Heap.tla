--------------------------------- MODULE Heap ---------------------------------
(***************************************************************************)
(* The kernel heap, memory/kmalloc.c: a doubly linked list of blocks, each *)
(* a header followed by its payload, first fit with splitting, coalescing  *)
(* on free.  Only kernel_main calls it, so each call is one step.          *)
(*                                                                         *)
(* Memory is the function mem from addresses to the header last written    *)
(* there; headers of blocks that were merged away stay behind, as in the   *)
(* code.  Addresses and sizes are in bytes.                                *)
(***************************************************************************)
EXTENDS Integers, FiniteSetsExt

CONSTANTS
  heap_start, heap_end,
  HeaderSize,      \* sizeof(block_header_t), 20
  MinPayload,      \* 16: smallest remainder that is split off
  Word,            \* 2^32: sizes wrap
  Requests         \* sizes the clients ask for

ASSUME HeapAssumption ==
  /\ HeaderSize \in Nat /\ HeaderSize > 0 /\ HeaderSize % 4 = 0
  /\ MinPayload \in Nat /\ MinPayload % 4 = 0
  /\ heap_start \in Nat /\ heap_start > HeaderSize /\ heap_start % 4 = 0
  /\ heap_end \in Nat /\ heap_end % 4 = 0
  /\ heap_start + HeaderSize <= heap_end
  /\ Word \in Nat /\ Word % 4 = 0
  /\ heap_end + HeaderSize + MinPayload < Word
  /\ Requests \subseteq 0..Word-1

VARIABLES
  mem,         \* headers in memory
  live,        \* what the clients hold: pointer -> size asked for
  asked,       \* size the last kmalloc was asked for
  granted      \* and the value it returned

heapVars == <<mem, live, asked, granted>>

-----------------------------------------------------------------------------
NULL == 0
Addr == {a \in heap_start..heap_end-1 : a % 4 = 0}

Header == [magic : BOOLEAN, size : Nat, used : BOOLEAN,
           next : Addr \cup {NULL}, prev : Addr \cup {NULL}]
Garbage == [magic |-> FALSE, size |-> 0, used |-> FALSE, next |-> NULL, prev |-> NULL]

End(b) == b + HeaderSize + mem[b].size

\* The list as kmalloc and kmalloc_dump walk it: its n-th block, then NULL.
MaxBlocks == (heap_end - heap_start) \div HeaderSize

Walk[n \in 0..MaxBlocks] ==
  IF n = 0 THEN heap_start
  ELSE LET b == Walk[n-1] IN IF b = NULL THEN NULL ELSE mem[b].next

Blocks == {Walk[n] : n \in 0..MaxBlocks} \ {NULL}

-----------------------------------------------------------------------------
AlignedDown(size) == (size \div 4) * 4      \* mutant: forgets the + 3

\* size = (size + 3) & ~3 in 32 bits: the three largest sizes wrap to 0.
Aligned(size) == (((size + 3) % Word) \div 4) * 4

FitsAbove(b, size) == ~mem[b].used /\ mem[b].size > size   \* mutant: > for the >= of line 49

Fits(b, size) == ~mem[b].used /\ mem[b].size >= size

\* The walk of kmalloc ends at the end of the list, at a corrupt header or at
\* the first free block that is large enough.
Found(size) ==
  Walk[Min({n \in 0..MaxBlocks :
         \/ Walk[n] = NULL
         \/ ~mem[Walk[n]].magic
         \/ Fits(Walk[n], size)})]

Splits(b, size) == mem[b].size >= size + HeaderSize + MinPayload

\* mem after block b was cut after size bytes and the rest made a free block.
Split(b, size) ==
  LET rest == b + HeaderSize + size
      next == mem[b].next
  IN  [a \in Addr |->
         CASE a = rest -> [magic |-> TRUE, used |-> FALSE, next |-> next, prev |-> b,
                           size |-> (mem[b].size - size - HeaderSize) % Word]
           [] a = b    -> [mem[b] EXCEPT !.next = rest, !.size = size, !.used = TRUE]
           [] a = next -> [mem[a] EXCEPT !.prev = rest]
           [] OTHER    -> mem[a]]

Usable(b) == b # NULL /\ mem[b].magic

kmalloc(req) ==
  LET size == Aligned(req)
      b    == Found(size)
  IN  \/ /\ Usable(b)
         /\ mem' = IF Splits(b, size) THEN Split(b, size)
                                      ELSE [mem EXCEPT ![b].used = TRUE]
         /\ granted' = b + HeaderSize
      \/ /\ ~Usable(b)
         /\ granted' = NULL
         /\ UNCHANGED mem

\* Memory m after block b has swallowed the block c that follows it.
Absorb(m, b, c) ==
  [a \in Addr |->
     CASE a = b         -> [m[b] EXCEPT !.size = (@ + HeaderSize + m[c].size) % Word,
                                        !.next = m[c].next]
       [] a = m[c].next -> [m[a] EXCEPT !.prev = b]
       [] OTHER         -> m[a]]

Released(b) == [mem EXCEPT ![b].used = FALSE]

MergedNextAny(m, b) ==       \* mutant: the next block may be in use
  IF m[b].next # NULL THEN Absorb(m, b, m[b].next) ELSE m

MergedNext(m, b) ==
  IF m[b].next # NULL /\ ~m[m[b].next].used THEN Absorb(m, b, m[b].next) ELSE m

MergedPrevNever(m, b) == m  \* mutant: no merge with the previous block

MergedPrev(m, b) ==
  IF m[b].prev # NULL /\ ~m[m[b].prev].used THEN Absorb(m, m[b].prev, b) ELSE m

kfree(ptr) ==
  LET b == ptr - HeaderSize
  IN  mem' = IF ptr # NULL /\ mem[b].magic
             THEN MergedPrev(MergedNext(Released(b), b), b)
             ELSE mem

-----------------------------------------------------------------------------
\* kmalloc_init
HeapInit ==
  /\ mem = [a \in Addr |->
              IF a = heap_start
              THEN [Garbage EXCEPT !.magic = TRUE,
                                   !.size = heap_end - heap_start - HeaderSize]
              ELSE Garbage]
  /\ live = << >>
  /\ asked = 0
  /\ granted = NULL

Restricted(f, S) == [x \in S |-> f[x]]

Request ==
  \E req \in Requests :
    /\ kmalloc(req)
    /\ asked' = req
    /\ live' = [p \in DOMAIN live \cup ({granted'} \ {NULL}) |->
                  IF p = granted' THEN req ELSE live[p]]

Release ==
  /\ \E p \in DOMAIN live \cup {NULL} :
       /\ kfree(p)
       /\ live' = Restricted(live, DOMAIN live \ {p})
  /\ UNCHANGED <<asked, granted>>

HeapNext == Request \/ Release

HeapSpec == HeapInit /\ [][HeapNext]_heapVars

-----------------------------------------------------------------------------
(* Properties *)

HeapTypeOK ==
  /\ mem \in [Addr -> Header]
  /\ DOMAIN live \subseteq {a + HeaderSize : a \in Addr}
  /\ \A p \in DOMAIN live : live[p] \in Requests
  /\ asked \in Requests \cup {0}
  /\ granted \in {NULL} \cup {a + HeaderSize : a \in Addr}

Tiling ==
  /\ mem[heap_start].prev = NULL
  /\ \A b \in Blocks :
       /\ mem[b].magic
       /\ mem[b].next # NULL => mem[b].next = End(b) /\ mem[mem[b].next].prev = b
       /\ mem[b].next = NULL => End(b) = heap_end

Coalesced ==
  \A b \in Blocks : mem[b].next # NULL => mem[b].used \/ mem[mem[b].next].used

\* The list of kmalloc.c tiles the heap: each block ends where the next begins,
\* the last at heap_end, prev is the inverse of next, no header on it is
\* corrupt.  And free blocks are never neighbours, so that memory once returned
\* can be handed out again in one piece (kmalloc.c:93-107).
WellFormed == HeapTypeOK /\ Tiling /\ Coalesced

\* What the clients hold are exactly the used blocks, each at least as large
\* as was asked for; a size that wraps in the rounding of kmalloc.c:37 is the
\* exception.
LiveBlocks ==
  /\ DOMAIN live = {b + HeaderSize : b \in {c \in Blocks : mem[c].used}}
  /\ \A p \in DOMAIN live :
       live[p] <= Word - 4 => mem[p - HeaderSize].size >= live[p]

\* The payload of block b, whose size is given by memory m.
Payload(m, b) == b + HeaderSize .. b + HeaderSize + m[b].size - 1

\* The allocator never writes into memory it has granted: a header it changes
\* does not overlap a block that its client holds before and after the call.
PayloadUntouched ==
  [][\A a \in Addr : mem'[a] # mem[a] =>
       \A p \in DOMAIN live \cap DOMAIN live' :
         (a..a+HeaderSize-1) \cap Payload(mem, p - HeaderSize) = {}]_heapVars

Used == {b \in Blocks : mem[b].used}

HA == INSTANCE HeapAllocator WITH
        Low     <- heap_start,
        High    <- heap_end,
        Lengths <- Requests,
        Over    <- HeaderSize,
        Waste   <- HeaderSize + MinPayload,
        Most    <- Word - 4,
        NoBlock <- NULL,
        extents <- {[from |-> b, to |-> End(b)] : b \in Used},
        answer  <- IF granted = NULL THEN NULL ELSE granted - HeaderSize

\* README.md:17 "a heap allocator": kmalloc.c implements the abstract heap.
\* Each call answers the size it was asked for: with a block of that size and
\* its header, and less than one split of waste, the rounding included; or
\* with 0, and then no hole of the heap is that long.  The three sizes above
\* Word - 4 wrap to 0 in the rounding of kmalloc.c:37 and are promised only
\* that the block is nobody else's.
ImplementsHeap == HA!Spec
=============================================================================
