------------------------------ MODULE HeapProofs ------------------------------
(***************************************************************************)
(* Theorems about Heap, for every heap, header size, word and set of       *)
(* requests.  The list of blocks is followed through each call with the    *)
(* set of its addresses as witness: Chain(m, B) says that memory m holds a *)
(* list of exactly the blocks B that tiles the heap, and ListIs that the   *)
(* walk of kmalloc.c finds this B and no other.                            *)
(***************************************************************************)
EXTENDS Heap, NatLemmas

-----------------------------------------------------------------------------
(* The walk along the list                                                   *)

After(m, b) == IF b = NULL THEN NULL ELSE m[b].next

\* w is the walk along the list in memory m, as Walk is along the one in mem.
IsWalk(m, w) ==
  w = [n \in 0..MaxBlocks |-> IF n = 0 THEN heap_start
                              ELSE LET b == w[n-1] IN IF b = NULL THEN NULL ELSE m[b].next]

LEMMA MaxBlocksNat ==
  /\ MaxBlocks \in Nat
  /\ \A k \in Nat : k * HeaderSize <= heap_end - heap_start => k <= MaxBlocks
<1>1. PICK t \in Nat : t = heap_end - heap_start  BY HeapAssumption
<1>2. PICK d \in Int : d = t \div HeaderSize  BY HeapAssumption
<1>3. d * HeaderSize <= t /\ t < (d + 1) * HeaderSize  BY <1>1, <1>2, HeapAssumption, Z3
<1>4. d >= 0
  <2> SUFFICES ASSUME d + 1 <= 0 PROVE FALSE  OBVIOUS
  <2>1. (d + 1) * HeaderSize <= 0 * HeaderSize  BY HeapAssumption
  <2> QED BY <1>3, <2>1, HeapAssumption
<1>5. ASSUME NEW k \in Nat, k * HeaderSize <= t PROVE k <= d
  <2> SUFFICES ASSUME d + 1 <= k PROVE FALSE  OBVIOUS
  <2>1. (d + 1) * HeaderSize <= k * HeaderSize  BY HeapAssumption
  <2> QED BY <1>3, <1>5, <2>1, HeapAssumption
<1>6. MaxBlocks = d  BY <1>1, <1>2 DEF MaxBlocks
<1> QED BY <1>1, <1>4, <1>5, <1>6

LEMMA WalkExists ==
  ASSUME NEW m
  PROVE  \E w : IsWalk(m, w)
<1> DEFINE G(k, w) == w = [n \in 0..k |-> IF n = 0 THEN heap_start
                             ELSE LET b == w[n-1] IN IF b = NULL THEN NULL ELSE m[b].next]
           S == {k \in Nat : \E w : G(k, w)}
<1>1. 0 \in S
  <2>1. G(0, [n \in 0..0 |-> heap_start])  OBVIOUS
  <2> QED BY <2>1
<1>2. ASSUME NEW k \in Nat, k \in S PROVE k + 1 \in S
  <2>1. PICK v : G(k, v)  BY <1>2
  <2> DEFINE w == [n \in 0..k+1 |-> IF n = k + 1 THEN After(m, v[k]) ELSE v[n]]
  <2>2. \A n \in 0..k+1 : w[n] = IF n = 0 THEN heap_start
                             ELSE LET b == w[n-1] IN IF b = NULL THEN NULL ELSE m[b].next
    <3> TAKE n \in 0..k+1
    <3>1. CASE n = k + 1  BY <3>1 DEF After
    <3>2. CASE n # k + 1
      <4>1. n \in 0..k /\ w[n] = v[n]  BY <3>2
      <4>2. v[n] = IF n = 0 THEN heap_start
                   ELSE LET b == v[n-1] IN IF b = NULL THEN NULL ELSE m[b].next
        BY <2>1, <4>1
      <4>3. CASE n = 0  BY <4>1, <4>2, <4>3
      <4>4. CASE n # 0
        <5>1. n - 1 \in 0..k+1 /\ n - 1 # k + 1  BY <4>1, <4>4
        <5>2. w[n-1] = v[n-1]  BY <5>1
        <5> QED BY <4>1, <4>2, <4>4, <5>2
      <4> QED BY <4>3, <4>4
    <3> QED BY <3>1, <3>2
  <2>3. G(k + 1, w)  BY <2>2
  <2>4. \E x : G(k + 1, x)
    <3> HIDE DEF w
    <3> QED BY <2>3
  <2> QED BY <2>4
<1>3. Nat \subseteq S
  <2> HIDE DEF S
  <2> QED BY <1>1, <1>2, Induction
<1>4. MaxBlocks \in S  BY <1>3, MaxBlocksNat
<1> QED BY <1>4 DEF IsWalk

LEMMA WalkIs == IsWalk(mem, Walk) /\ IsWalk(mem', Walk')
<1>1. IsWalk(mem, Walk)
  <2>1. PICK w : IsWalk(mem, w)  BY WalkExists
  <2> QED BY <2>1 DEF IsWalk, Walk
<1>2. IsWalk(mem', Walk')
  <2>1. PICK w : IsWalk(mem', w)  BY WalkExists
  <2> QED BY <2>1 DEF IsWalk, Walk
<1> QED BY <1>1, <1>2

-----------------------------------------------------------------------------
(* The list in memory                                                        *)

EndIn(m, b) == b + HeaderSize + m[b].size

\* Block b and its neighbours in the list B of memory m.
Linked(m, B, b) ==
  /\ m[b].magic /\ m[b].size % 4 = 0
  /\ m[b].next = NULL => EndIn(m, b) = heap_end
  /\ m[b].next # NULL => /\ m[b].next \in B
                         /\ m[b].next = EndIn(m, b)
                         /\ m[m[b].next].prev = b
  /\ b # heap_start => m[b].prev \in B /\ m[m[b].prev].next = b

\* The blocks B are a list in memory m and tile the heap.
Chain(m, B) ==
  /\ B \subseteq Addr /\ heap_start \in B
  /\ m[heap_start].prev = NULL
  /\ \A b \in B : Linked(m, B, b)
  /\ \A a, b \in B : a < b => EndIn(m, a) <= b

LEMMA Fours ==
  ASSUME NEW a \in Int, NEW b \in Int, a % 4 = 0, b % 4 = 0
  PROVE  (a + b) % 4 = 0 /\ (a - b) % 4 = 0
BY Z3

LEMMA AddrNat ==
  ASSUME NEW b \in Addr
  PROVE  b \in Nat /\ heap_start <= b /\ b < heap_end /\ b # NULL /\ b % 4 = 0
BY HeapAssumption DEF Addr, NULL

\* Where a block of the list begins and ends, in numbers.
LEMMA BlockFacts ==
  ASSUME NEW m \in [Addr -> Header], NEW B, Chain(m, B), NEW b \in B
  PROVE  /\ b \in Addr /\ b \in Nat /\ heap_start <= b /\ b # NULL /\ b % 4 = 0
         /\ m[b] \in Header /\ m[b].size \in Nat /\ EndIn(m, b) \in Nat
         /\ EndIn(m, b) = b + HeaderSize + m[b].size /\ b + HeaderSize <= EndIn(m, b)
         /\ EndIn(m, b) <= heap_end /\ EndIn(m, b) % 4 = 0
         /\ m[b].next \in Addr \cup {NULL}
<1>1. b \in Addr /\ Linked(m, B, b)  BY DEF Chain
<1>2. m[b] \in Header  BY <1>1
<1>3. PICK z \in Nat : z = m[b].size  BY <1>2 DEF Header
<1>4. m[b].next \in Addr \cup {NULL}  BY <1>2 DEF Header
<1>5. b \in Nat /\ heap_start <= b /\ b # NULL /\ b % 4 = 0  BY <1>1, AddrNat
<1>6. EndIn(m, b) = b + HeaderSize + z  BY <1>3 DEF EndIn
<1>7. EndIn(m, b) \in Nat /\ b + HeaderSize <= EndIn(m, b)
  BY <1>5, <1>6, HeapAssumption
<1>8. EndIn(m, b) % 4 = 0
  <2>1. z % 4 = 0  BY <1>1, <1>3 DEF Linked
  <2>2. PICK y \in Nat : y = b + HeaderSize  BY <1>5, HeapAssumption
  <2>3. y % 4 = 0  BY <1>5, <2>2, Fours, HeapAssumption
  <2>4. (y + z) % 4 = 0  BY <2>1, <2>3, Fours
  <2> QED BY <1>6, <2>2, <2>4
<1>9. EndIn(m, b) <= heap_end
  <2>1. CASE m[b].next = NULL  BY <1>1, <1>7, <2>1 DEF Linked
  <2>2. CASE m[b].next # NULL
    <3>1. m[b].next = EndIn(m, b) /\ m[b].next \in Addr  BY <1>1, <1>4, <2>2 DEF Linked
    <3> QED BY <3>1, AddrNat, HeapAssumption
  <2> QED BY <2>1, <2>2
<1> QED BY <1>1, <1>2, <1>3, <1>4, <1>5, <1>6, <1>7, <1>8, <1>9

\* The walk stays in the list, and gets on by a header at least.
LEMMA WalkStays ==
  ASSUME NEW m \in [Addr -> Header], NEW B, Chain(m, B), NEW w, IsWalk(m, w)
  PROVE  \A n \in 0..MaxBlocks :
           w[n] # NULL => w[n] \in B /\ heap_start + n * HeaderSize <= w[n]
<1> DEFINE P(n) == w[n] # NULL => w[n] \in B /\ heap_start + n * HeaderSize <= w[n]
           S == {n \in Nat : n \in 0..MaxBlocks => P(n)}
<1>1. \A n \in 0..MaxBlocks :
        w[n] = IF n = 0 THEN heap_start
               ELSE LET b == w[n-1] IN IF b = NULL THEN NULL ELSE m[b].next
  BY Zenon DEF IsWalk
<1>2. 0 \in S
  <2>1. w[0] = heap_start  BY <1>1, MaxBlocksNat
  <2>2. heap_start \in B  BY DEF Chain
  <2>3. heap_start + 0 * HeaderSize = heap_start  BY HeapAssumption
  <2> QED BY <2>1, <2>2, <2>3, HeapAssumption
<1>3. ASSUME NEW n \in Nat, n \in S PROVE n + 1 \in S
  <2> SUFFICES ASSUME n + 1 \in 0..MaxBlocks, w[n+1] # NULL PROVE P(n + 1)  OBVIOUS
  <2>1. n \in 0..MaxBlocks /\ (n + 1) - 1 = n /\ n + 1 # 0  BY MaxBlocksNat
  <2>2. w[n] # NULL /\ w[n+1] = m[w[n]].next  BY <1>1, <2>1
  <2>3. PICK b \in B : b = w[n] /\ heap_start + n * HeaderSize <= b
    BY <1>3, <2>1, <2>2
  <2>4. Linked(m, B, b)  BY DEF Chain
  <2>5. w[n+1] \in B /\ w[n+1] = EndIn(m, b)  BY <2>2, <2>3, <2>4 DEF Linked
  <2>6. b + HeaderSize <= w[n+1] /\ b \in Nat /\ w[n+1] \in Nat  BY <2>5, BlockFacts
  <2>7. PICK k \in Nat : k = n * HeaderSize  BY HeapAssumption
  <2>8. (n + 1) * HeaderSize = k + HeaderSize  BY <2>7, HeapAssumption
  <2>9. heap_start + (k + HeaderSize) <= w[n+1]  BY <2>3, <2>6, <2>7, HeapAssumption
  <2> QED BY <2>5, <2>8, <2>9
<1>4. Nat \subseteq S
  <2> HIDE DEF S
  <2> QED BY <1>2, <1>3, Induction
<1> QED BY <1>4

\* The places of the walk that are blocks are below MaxBlocks.
LEMMA WalkShort ==
  ASSUME NEW m \in [Addr -> Header], NEW B, Chain(m, B), NEW w, IsWalk(m, w),
         NEW n \in 0..MaxBlocks, w[n] # NULL
  PROVE  n + 1 \in 0..MaxBlocks
<1>1. w[n] \in B /\ heap_start + n * HeaderSize <= w[n]  BY WalkStays
<1>2. PICK b \in B : b = w[n]  BY <1>1
<1>3. b \in Nat /\ b + HeaderSize <= heap_end
  BY BlockFacts, HeapAssumption
<1>4. PICK k \in Nat : k = n * HeaderSize  BY HeapAssumption
<1>5. n \in Nat /\ (n + 1) * HeaderSize = k + HeaderSize  BY <1>4, HeapAssumption
<1>6. k + HeaderSize <= heap_end - heap_start
  BY <1>1, <1>2, <1>3, <1>4, HeapAssumption
<1> QED BY <1>5, <1>6, MaxBlocksNat

LEMMA WalkReaches ==
  ASSUME NEW m \in [Addr -> Header], NEW B, Chain(m, B), NEW w, IsWalk(m, w)
  PROVE  \A b \in B : \E n \in 0..MaxBlocks : w[n] = b
<1> DEFINE Missed == {b \in B : \A n \in 0..MaxBlocks : w[n] # b}
<1> SUFFICES ASSUME Missed # {} PROVE FALSE  OBVIOUS
<1>1. B \subseteq Nat  BY BlockFacts
<1>2. PICK b \in Missed : \A y \in Missed : b <= y
  <2>1. Missed \in SUBSET Nat  BY <1>1
  <2> QED BY <2>1, MinIn
<1>3. \A n \in 0..MaxBlocks :
        w[n] = IF n = 0 THEN heap_start
               ELSE LET x == w[n-1] IN IF x = NULL THEN NULL ELSE m[x].next
  BY Zenon DEF IsWalk
<1>4. b # heap_start  BY <1>3, MaxBlocksNat
<1>5. PICK a \in B : a = m[b].prev /\ m[a].next = b
  BY <1>4 DEF Chain, Linked
<1>6. b # NULL  BY BlockFacts
<1>7. EndIn(m, a) = b  BY <1>5, <1>6 DEF Chain, Linked
<1>8. a < b  BY <1>1, <1>7, BlockFacts, HeapAssumption
<1>9. PICK n \in 0..MaxBlocks : w[n] = a
  <2>1. a \notin Missed  BY <1>1, <1>2, <1>8
  <2> QED BY <2>1
<1>10. a # NULL  BY BlockFacts
<1>11. n + 1 \in 0..MaxBlocks  BY <1>9, <1>10, WalkShort
<1>12. w[n+1] = b
  <2>1. n + 1 # 0 /\ (n + 1) - 1 = n  OBVIOUS
  <2> QED BY <1>3, <1>5, <1>9, <1>10, <1>11, <2>1
<1> QED BY <1>2, <1>11, <1>12

LEMMA ListIs ==
  ASSUME NEW m \in [Addr -> Header], NEW B, Chain(m, B), NEW w, IsWalk(m, w)
  PROVE  {w[n] : n \in 0..MaxBlocks} \ {NULL} = B
<1>1. \A b \in B : \E n \in 0..MaxBlocks : w[n] = b  BY WalkReaches
<1>2. \A b \in B : b # NULL  BY BlockFacts
<1>3. \A n \in 0..MaxBlocks : w[n] # NULL => w[n] \in B  BY WalkStays
<1> QED BY <1>1, <1>2, <1>3

\* A list of the blocks B is the list: before a call, and after it.
LEMMA BlocksAre ==
  /\ \A B : mem \in [Addr -> Header] /\ Chain(mem, B) => Blocks = B
  /\ \A B : mem' \in [Addr -> Header] /\ Chain(mem', B) => Blocks' = B
<1>1. ASSUME NEW B, mem \in [Addr -> Header], Chain(mem, B) PROVE Blocks = B
  BY <1>1, WalkIs, ListIs DEF Blocks
<1>2. ASSUME NEW B, mem' \in [Addr -> Header], Chain(mem', B) PROVE Blocks' = B
  BY <1>2, WalkIs, ListIs DEF Blocks
<1> QED BY <1>1, <1>2

-----------------------------------------------------------------------------
(* What kmalloc finds                                                        *)

HeapInv ==
  /\ HeapTypeOK
  /\ Chain(mem, Blocks)
  /\ Coalesced
  /\ LiveBlocks

\* The first block that fits, or NULL and there is none.
LEMMA FoundIs ==
  ASSUME mem \in [Addr -> Header], Chain(mem, Blocks), NEW size
  PROVE  \/ Found(size) \in Blocks /\ Fits(Found(size), size)
         \/ Found(size) = NULL /\ \A b \in Blocks : ~Fits(b, size)
<1> DEFINE S == {n \in 0..MaxBlocks :
                   Walk[n] = NULL \/ ~mem[Walk[n]].magic \/ Fits(Walk[n], size)}
<1>1. IsWalk(mem, Walk)  BY WalkIs
<1>2. PICK w : w = Walk /\ IsWalk(mem, w)  BY <1>1
<1>3. \A n \in 0..MaxBlocks : w[n] # NULL => w[n] \in Blocks /\ mem[w[n]].magic
  <2>1. \A n \in 0..MaxBlocks : w[n] # NULL => w[n] \in Blocks
    BY <1>2, WalkStays
  <2> QED BY <2>1 DEF Chain, Linked
<1>4. S # {} /\ S \in SUBSET Nat
  <2>1. w[MaxBlocks] = NULL
    <3> SUFFICES ASSUME w[MaxBlocks] # NULL PROVE FALSE  OBVIOUS
    <3>1. MaxBlocks \in 0..MaxBlocks  BY MaxBlocksNat
    <3>2. MaxBlocks + 1 \in 0..MaxBlocks  BY <1>2, <3>1, WalkShort
    <3> QED BY <3>2, MaxBlocksNat
  <2>2. MaxBlocks \in 0..MaxBlocks  BY MaxBlocksNat
  <2> QED BY <1>2, <2>1, <2>2
<1>5. PICK k \in S : Min(S) = k /\ \A n \in S : k <= n
  <2> HIDE DEF S
  <2> QED BY <1>4, MinIn
<1>6. Found(size) = w[k]  BY <1>2, <1>5 DEF Found
<1>7. CASE w[k] # NULL
  BY <1>2, <1>3, <1>5, <1>6, <1>7
<1>8. CASE w[k] = NULL
  <2>1. ASSUME NEW b \in Blocks, Fits(b, size) PROVE FALSE
    <3>1. PICK n \in 0..MaxBlocks : w[n] = b  BY <1>2, WalkReaches
    <3>2. n \in S  BY <1>2, <2>1, <3>1
    <3>3. k <= n  BY <1>5, <3>2
    <3>4. w[n] # NULL  BY <3>1, BlockFacts
    <3>5. \A i \in Nat : i \in 0..MaxBlocks /\ k <= i => w[i] = NULL
      <4> DEFINE T == {i \in Nat : i \in 0..MaxBlocks /\ k <= i => w[i] = NULL}
      <4>1. 0 \in T  BY <1>5, <1>8
      <4>2. ASSUME NEW i \in Nat, i \in T PROVE i + 1 \in T
        <5> SUFFICES ASSUME i + 1 \in 0..MaxBlocks, k <= i + 1, w[i+1] # NULL PROVE FALSE
          OBVIOUS
        <5>1. k <= i  BY <1>8, <1>5
        <5>2. i \in 0..MaxBlocks  BY MaxBlocksNat
        <5>3. w[i] = NULL  BY <4>2, <5>1, <5>2
        <5>4. w[i+1] = IF i + 1 = 0 THEN heap_start
                       ELSE LET x == w[(i+1)-1] IN IF x = NULL THEN NULL ELSE mem[x].next
          BY <1>2, Zenon DEF IsWalk
        <5>5. i + 1 # 0 /\ (i + 1) - 1 = i  OBVIOUS
        <5> QED BY <5>3, <5>4, <5>5
      <4>3. Nat \subseteq T
        <5> HIDE DEF T
        <5> QED BY <4>1, <4>2, Induction
      <4> QED BY <4>3
    <3> QED BY <3>3, <3>4, <3>5
  <2> QED BY <1>6, <1>8, <2>1
<1> QED BY <1>7, <1>8

\* A size is rounded up to a multiple of four, if it does not wrap.
LEMMA AlignedIs ==
  ASSUME NEW r \in Requests
  PROVE  /\ Aligned(r) \in Nat /\ Aligned(r) % 4 = 0
         /\ r <= Word - 4 => Aligned(r) >= r /\ Aligned(r) <= r + 3
<1>1. r \in 0..Word-1 /\ Word \in Nat /\ Word >= 4  
  BY HeapAssumption
<1>2. PICK x \in Nat : x = r + 3  BY <1>1
<1>3. PICK y \in Nat : y = x % Word /\ (r <= Word - 4 => y = r + 3)
  <2>1. x % Word = IF x < Word THEN x ELSE x - Word
    <3>1. Word \in Nat \ {0} /\ -Word <= x /\ x < Word + Word /\ ~(x < 0)  BY <1>1, <1>2
    <3>2. x \in Int  OBVIOUS
    <3> QED BY ONLY <3>1, <3>2, Remainder
  <2>2. x < Word \/ x - Word \in Nat  BY <1>1
  <2> QED BY <1>1, <1>2, <2>1, <2>2
<1>4. PICK d \in Int : d = y \div 4 /\ d * 4 <= y /\ y < d * 4 + 4
  BY Z3
<1>5. Aligned(r) = d * 4  BY <1>2, <1>3, <1>4 DEF Aligned
<1>6. d >= 0  BY <1>4
<1>7. (d * 4) % 4 = 0  BY Z3
<1>8. r <= Word - 4 => d * 4 >= r /\ d * 4 <= r + 3  BY <1>1, <1>3, <1>4
<1> QED BY <1>5, <1>6, <1>7, <1>8

-----------------------------------------------------------------------------
(* Splitting and merging                                                     *)

LEMMA HeaderSet ==
  ASSUME NEW h \in Header, NEW z \in Nat, NEW x \in Addr \cup {NULL}, NEW u \in BOOLEAN
  PROVE  /\ [h EXCEPT !.prev = x] \in Header
         /\ [h EXCEPT !.used = u] \in Header
         /\ [h EXCEPT !.next = x, !.size = z, !.used = u] \in Header
         /\ [h EXCEPT !.size = z, !.next = x] \in Header
BY DEF Header

\* No two neighbours of the list B of memory m are free.
FreePairs(m, B) == {b \in B : m[b].next # NULL /\ ~m[b].used /\ ~m[m[b].next].used}

LEMMA NoFreePairs == Coalesced <=> FreePairs(mem, Blocks) = {}
BY DEF Coalesced, FreePairs

LEMMA NoFreePairsNext == Coalesced' <=> FreePairs(mem', Blocks') = {}
BY DEF Coalesced, FreePairs

\* What a number below Word is modulo Word.
LEMMA NoWrap ==
  ASSUME NEW z \in 0..Word-1
  PROVE  z % Word = z
<1>1. Word \in Nat \ {0} /\ z \in Int /\ -Word <= z /\ z < Word + Word /\ ~(z < 0) /\ z < Word
  BY HeapAssumption
<1> QED BY ONLY <1>1, Remainder

Rest(b, size) == b + HeaderSize + size

\* Memory m is mem with block b cut after size bytes: r is the rest, n was next.
Cut(b, size, r, n, m) ==
  /\ r = Rest(b, size) /\ n = mem[b].next /\ m = Split(b, size)
  /\ b < r /\ r + HeaderSize <= EndIn(mem, b) /\ n # b /\ n # r
  /\ m[r] = [magic |-> TRUE, used |-> FALSE, next |-> n, prev |-> b,
             size |-> mem[b].size - size - HeaderSize]
  /\ m[b] = [mem[b] EXCEPT !.next = r, !.size = size, !.used = TRUE]
  /\ n # NULL => m[n] = [mem[n] EXCEPT !.prev = r]
  /\ \A a \in Addr : a \notin {r, b, n} => m[a] = mem[a]

\* A free block that is larger than size by a header and a payload is cut in
\* two: the list has one block more, every other block is what it was.
LEMMA SplitIs ==
  ASSUME mem \in [Addr -> Header], NEW B, Chain(mem, B), NEW b \in B,
         NEW size \in Nat, size % 4 = 0, Splits(b, size)
  PROVE  \E r \in Addr \ B, n \in Addr \cup {NULL}, m \in [Addr -> Header] :
           Cut(b, size, r, n, m)
<1>1. PICK r \in Nat : r = Rest(b, size) /\ r = b + HeaderSize + size
  <2>1. b \in Nat  BY BlockFacts
  <2> QED BY <2>1, HeapAssumption DEF Rest
<1>2. PICK z \in Nat : z = mem[b].size /\ EndIn(mem, b) = b + HeaderSize + z
  BY BlockFacts
<1>3. z >= size + HeaderSize + MinPayload  BY <1>2 DEF Splits
<1>4. b \in Nat /\ heap_start <= b /\ b # NULL /\ b % 4 = 0 /\ b \in Addr
      /\ EndIn(mem, b) <= heap_end
  BY BlockFacts
<1>5. b < r /\ r + HeaderSize <= EndIn(mem, b)
  BY <1>1, <1>2, <1>3, <1>4, HeapAssumption
<1>6. r \in Addr
  <2>1. PICK y \in Nat : y = b + HeaderSize  BY <1>4, HeapAssumption
  <2>2. y % 4 = 0  BY <1>4, <2>1, Fours, HeapAssumption
  <2>3. r = y + size  BY <1>1, <2>1
  <2>4. r % 4 = 0  BY <2>2, <2>3, Fours
  <2>5. heap_start <= r /\ r < heap_end  BY <1>2, <1>4, <1>5, HeapAssumption
  <2> QED BY <2>4, <2>5, HeapAssumption DEF Addr
<1>7. r \notin B
  <2> SUFFICES ASSUME r \in B PROVE FALSE  OBVIOUS
  <2>1. EndIn(mem, b) <= r  BY <1>5 DEF Chain
  <2> QED BY <1>4, <1>5, <2>1, <1>2, HeapAssumption
<1>8. mem[b].next # b /\ mem[b].next # r
  <2>1. CASE mem[b].next = NULL  BY <1>4, <1>6, <2>1, AddrNat
  <2>2. CASE mem[b].next # NULL
    <3>1. mem[b].next = EndIn(mem, b)  BY <2>2 DEF Chain, Linked
    <3> QED BY <1>2, <1>5, <3>1, <1>4, HeapAssumption
  <2> QED BY <2>1, <2>2
<1>9. PICK n \in Addr \cup {NULL} : n = mem[b].next  BY BlockFacts
<1>10. PICK d \in Nat : /\ d = mem[b].size - size - HeaderSize
                        /\ (mem[b].size - size - HeaderSize) % Word = d
  <2>1. z - size - HeaderSize \in 0..Word-1
    BY <1>2, <1>3, <1>4, HeapAssumption
  <2>2. PICK d \in 0..Word-1 : d = z - size - HeaderSize  BY <2>1
  <2>3. d \in Nat /\ d % Word = d  BY <2>2, NoWrap, HeapAssumption
  <2> QED BY <1>2, <2>2, <2>3
<1>11. PICK m : m = Split(b, size)  OBVIOUS
<1>12. m = [a \in Addr |->
         CASE a = r -> [magic |-> TRUE, used |-> FALSE, next |-> n, prev |-> b, size |-> d]
           [] a = b -> [mem[b] EXCEPT !.next = r, !.size = size, !.used = TRUE]
           [] a = n -> [mem[a] EXCEPT !.prev = r]
           [] OTHER -> mem[a]]
  <2> DEFINE M(rest, next, left) ==
        [a \in Addr |->
         CASE a = rest -> [magic |-> TRUE, used |-> FALSE, next |-> next, prev |-> b, size |-> left]
           [] a = b -> [mem[b] EXCEPT !.next = rest, !.size = size, !.used = TRUE]
           [] a = next -> [mem[a] EXCEPT !.prev = rest]
           [] OTHER -> mem[a]]
  <2>1. m = M(b + HeaderSize + size, mem[b].next, (mem[b].size - size - HeaderSize) % Word)
    BY <1>11, Zenon DEF Split
  <2>2. m = M(r, n, d)
    <3> HIDE DEF M
    <3> QED BY <1>1, <1>9, <1>10, <2>1, Zenon
  <2> QED BY <2>2
<1>13. m[r] = [magic |-> TRUE, used |-> FALSE, next |-> n, prev |-> b, size |-> d]
  <2>1. r # b /\ r # n  BY <1>4, <1>5, <1>8, <1>9
  <2> QED BY ONLY <1>6, <1>12, <2>1
<1>14. m[b] = [mem[b] EXCEPT !.next = r, !.size = size, !.used = TRUE]
  <2>1. b # r /\ b # n  BY <1>4, <1>5, <1>8, <1>9
  <2> QED BY ONLY <1>4, <1>12, <2>1
<1>15. n # NULL => m[n] = [mem[n] EXCEPT !.prev = r]
  BY <1>8, <1>9, <1>12
<1>16. \A a \in Addr : a \notin {r, b, n} => m[a] = mem[a]  BY <1>12
<1>17. m \in [Addr -> Header]
  <2>1. \A a \in Addr : m[a] \in Header
    <3> TAKE a \in Addr
    <3>1. CASE a = r
      <4>1. b \in Addr \cup {NULL} /\ d \in Nat /\ TRUE \in BOOLEAN /\ FALSE \in BOOLEAN
        BY <1>4, <1>10
      <4>2. [magic |-> TRUE, used |-> FALSE, next |-> n, prev |-> b, size |-> d] \in Header
        BY <4>1, <1>9 DEF Header
      <4> QED BY <1>13, <3>1, <4>2
    <3>2. CASE a = b
      <4>1. mem[b] \in Header /\ r \in Addr \cup {NULL} /\ TRUE \in BOOLEAN  BY <1>4, <1>6
      <4>2. [mem[b] EXCEPT !.next = r, !.size = size, !.used = TRUE] \in Header
        BY ONLY <4>1, size \in Nat, HeaderSet
      <4> QED BY ONLY <1>14, <3>2, <4>2
    <3>3. CASE a = n /\ a # b /\ a # r
      <4>1. mem[a] \in Header  OBVIOUS
      <4>2. m[a] = [mem[a] EXCEPT !.prev = r]  BY <3>3, <1>12
      <4>3. r \in Addr \cup {NULL}  BY <1>6
      <4> QED BY ONLY <4>1, <4>2, <4>3, HeaderSet
    <3>4. CASE a \notin {r, b, n}  BY <1>16, <3>4
    <3> QED BY <3>1, <3>2, <3>3, <3>4
  <2>2. m = [a \in Addr |-> m[a]]
    <3> DEFINE F(a) == CASE a = r -> [magic |-> TRUE, used |-> FALSE, next |-> n, prev |-> b, size |-> d]
           [] a = b -> [mem[b] EXCEPT !.next = r, !.size = size, !.used = TRUE]
           [] a = n -> [mem[a] EXCEPT !.prev = r]
           [] OTHER -> mem[a]
    <3> HIDE DEF F
    <3>1. m = [a \in Addr |-> F(a)]  BY <1>12 DEF F
    <3> QED BY <3>1
  <2> QED BY <2>1, <2>2
<1>18. m[r] = [magic |-> TRUE, used |-> FALSE, next |-> n, prev |-> b,
               size |-> mem[b].size - size - HeaderSize]
  BY <1>10, <1>13, Zenon
<1>19. r \in Addr \ B /\ n # b /\ n # r  BY <1>6, <1>7, <1>8, <1>9
<1>20. Cut(b, size, r, n, m)
  BY <1>1, <1>5, <1>9, <1>11, <1>14, <1>15, <1>16, <1>18, <1>19, Zenon DEF Cut
<1> QED BY <1>9, <1>17, <1>19, <1>20

\* The blocks of S have the same successor, state and end in memory n as in m.
Kept(m, n, S) ==
  \A q \in S : n[q].used = m[q].used /\ n[q].next = m[q].next /\ EndIn(n, q) = EndIn(m, q)

LEMMA SplitChain ==
  ASSUME mem \in [Addr -> Header], NEW B, Chain(mem, B), NEW b \in B,
         NEW size \in Nat, size % 4 = 0, Splits(b, size)
  PROVE  /\ Chain(Split(b, size), B \cup {Rest(b, size)})
         /\ Kept(mem, Split(b, size), B \ {b})
         /\ EndIn(Split(b, size), b) = b + HeaderSize + size
<1>0. PICK r \in Addr \ B, n \in Addr \cup {NULL}, m \in [Addr -> Header] :
        Cut(b, size, r, n, m)
  BY SplitIs
<1>1. r \in Addr \ B /\ r = Rest(b, size) /\ b < r /\ r + HeaderSize <= EndIn(mem, b)
  BY <1>0 DEF Cut
<1>2. n \in Addr \cup {NULL} /\ n = mem[b].next /\ n # b /\ n # r  BY <1>0 DEF Cut
<1>3. /\ m = Split(b, size)
      /\ m[r] = [magic |-> TRUE, used |-> FALSE, next |-> n, prev |-> b,
                 size |-> mem[b].size - size - HeaderSize]
      /\ m[b] = [mem[b] EXCEPT !.next = r, !.size = size, !.used = TRUE]
      /\ n # NULL => m[n] = [mem[n] EXCEPT !.prev = r]
      /\ \A a \in Addr : a \notin {r, b, n} => m[a] = mem[a]
  BY <1>0, Zenon DEF Cut
<1>4. PICK z \in Nat : z = mem[b].size  BY BlockFacts
<1>5. b \in Nat /\ r \in Nat /\ heap_start <= b /\ b \in Addr /\ b # NULL
      /\ r # NULL /\ EndIn(mem, b) = b + HeaderSize + z
  BY <1>1, <1>4, BlockFacts, AddrNat
<1>6. r = b + HeaderSize + size  BY <1>1 DEF Rest
<1>7. mem[b] \in Header  BY BlockFacts
<1>8. m[b].magic /\ m[b].size = size /\ m[b].next = r /\ m[b].prev = mem[b].prev /\ m[b].used
  BY <1>3, <1>7 DEF Header, Chain, Linked
<1>9. m[r].magic /\ ~m[r].used /\ m[r].next = n /\ m[r].prev = b /\ m[r].size = z - size - HeaderSize
  BY <1>3, <1>4
<1>10. EndIn(m, b) = r  BY <1>6, <1>8 DEF EndIn
<1>11. EndIn(m, r) = EndIn(mem, b)
  BY <1>5, <1>6, <1>9, HeapAssumption DEF EndIn
<1>12. ASSUME NEW q \in B \ {b}
       PROVE  /\ m[q].magic = mem[q].magic /\ m[q].size = mem[q].size
              /\ m[q].next = mem[q].next /\ m[q].used = mem[q].used
              /\ m[q].prev = IF q = n THEN r ELSE mem[q].prev
              /\ EndIn(m, q) = EndIn(mem, q)
  <2>1. q \in Addr /\ mem[q] \in Header /\ q # r /\ q # NULL  BY <1>1, BlockFacts
  <2>2. m[q] = IF q = n THEN [mem[q] EXCEPT !.prev = r] ELSE mem[q]
    BY <1>3, <2>1
  <2>3. /\ m[q].magic = mem[q].magic /\ m[q].size = mem[q].size
        /\ m[q].next = mem[q].next /\ m[q].used = mem[q].used
        /\ m[q].prev = IF q = n THEN r ELSE mem[q].prev
    BY <2>1, <2>2 DEF Header
  <2> QED BY <2>3 DEF EndIn
<1> DEFINE C == B \cup {r}
<1>13. Linked(mem, B, b)  BY DEF Chain
<1>14. Linked(m, C, b)
  <2>1. m[b].magic /\ m[b].size % 4 = 0  BY <1>8
  <2>2. m[b].next \in C /\ m[b].next = EndIn(m, b) /\ m[m[b].next].prev = b
    BY <1>8, <1>9, <1>10
  <2>3. b # heap_start => m[b].prev \in C /\ m[m[b].prev].next = b
    <3> SUFFICES ASSUME b # heap_start PROVE m[b].prev \in C /\ m[m[b].prev].next = b  OBVIOUS
    <3>1. PICK p \in B : p = mem[b].prev /\ mem[p].next = b  BY <1>13 DEF Linked
    <3>2. p # b  BY <1>2, <3>1
    <3> QED BY <1>8, <1>12, <3>1, <3>2
  <2>4. m[b].next # NULL  BY <1>5, <1>8
  <2> QED BY <2>1, <2>2, <2>3, <2>4 DEF Linked
<1>15. Linked(m, C, r)
  <2>1. m[r].size % 4 = 0
    <3>1. z % 4 = 0  BY <1>4, <1>13 DEF Linked
    <3>2. (z - size) % 4 = 0  BY <3>1, Fours
    <3>3. PICK y \in Int : y = z - size /\ y % 4 = 0  BY <3>2
    <3>4. HeaderSize \in Int /\ HeaderSize % 4 = 0  BY HeapAssumption
    <3>5. (y - HeaderSize) % 4 = 0  BY ONLY <3>3, <3>4, y \in Int, Fours
    <3> QED BY <1>9, <3>3, <3>5
  <2>2. m[r].next = NULL => EndIn(m, r) = heap_end
    BY <1>2, <1>9, <1>11, <1>13 DEF Linked
  <2>3. m[r].next # NULL => m[r].next \in C /\ m[r].next = EndIn(m, r) /\ m[m[r].next].prev = r
    <3> SUFFICES ASSUME n # NULL PROVE n \in C /\ n = EndIn(m, r) /\ m[n].prev = r
      BY <1>9
    <3>1. n \in B /\ n = EndIn(mem, b)  BY <1>2, <1>13 DEF Linked
    <3>2. n \in B \ {b}  BY <1>2, <3>1
    <3> QED BY <1>11, <1>12, <3>1, <3>2
  <2>4. m[r].prev \in C /\ m[m[r].prev].next = r  BY <1>8, <1>9
  <2> QED BY <1>9, <2>1, <2>2, <2>3, <2>4 DEF Linked
<1>16. ASSUME NEW q \in B \ {b} PROVE Linked(m, C, q)
  <2>1. Linked(mem, B, q)  BY DEF Chain
  <2>2. m[q].magic /\ m[q].size % 4 = 0  BY <1>12, <2>1 DEF Linked
  <2>3. m[q].next = NULL => EndIn(m, q) = heap_end  BY <1>12, <2>1 DEF Linked
  <2>4. ASSUME m[q].next # NULL
        PROVE  m[q].next \in C /\ m[q].next = EndIn(m, q) /\ m[m[q].next].prev = q
    <3>1. PICK e \in B : e = mem[q].next /\ e = EndIn(mem, q) /\ mem[e].prev = q
      BY <1>12, <2>1, <2>4 DEF Linked
    <3>2. m[e].prev = q
      <4>1. CASE e = b  BY <1>8, <3>1, <4>1
      <4>2. CASE e # b
        <5>1. e # n
          <6> SUFFICES ASSUME e = n PROVE FALSE  OBVIOUS
          <6>1. mem[b].next # NULL  BY <1>12, <2>4, <3>1, <1>2
          <6>2. mem[e].prev = b  BY <1>2, <1>13, <6>1 DEF Linked
          <6> QED BY <3>1, <6>2
        <5> QED BY <1>12, <3>1, <4>2, <5>1
      <4> QED BY <4>1, <4>2
    <3>3. m[q].next = e /\ EndIn(m, q) = EndIn(mem, q)  BY <1>12, <3>1
    <3> QED BY <3>1, <3>2, <3>3
  <2>5. ASSUME q # heap_start PROVE m[q].prev \in C /\ m[m[q].prev].next = q
    <3>1. CASE q = n
      <4>1. m[q].prev = r  BY <1>12, <3>1
      <4> QED BY <1>9, <3>1, <4>1
    <3>2. CASE q # n
      <4>1. PICK p \in B : p = mem[q].prev /\ mem[p].next = q  BY <2>1, <2>5 DEF Linked
      <4>2. p # b  BY <1>2, <3>2, <4>1
      <4> QED BY <1>12, <3>2, <4>1, <4>2
    <3> QED BY <3>1, <3>2
  <2> QED BY <2>2, <2>3, <2>4, <2>5 DEF Linked
<1>17. C \subseteq Addr /\ heap_start \in C  BY DEF Chain
<1>18. m[heap_start].prev = NULL
  <2>1. heap_start \in B /\ mem[heap_start].prev = NULL  BY DEF Chain
  <2>2. CASE heap_start = b  BY <1>8, <2>1, <2>2
  <2>3. CASE heap_start # b
    <3>1. heap_start # n
      <4> SUFFICES ASSUME heap_start = n PROVE FALSE  OBVIOUS
      <4>1. n # NULL  BY <2>1, BlockFacts
      <4>2. n = EndIn(mem, b)  BY <1>2, <1>13, <4>1 DEF Linked
      <4> QED BY <1>5, <4>2, HeapAssumption
    <3> QED BY <1>12, <2>1, <2>3, <3>1
  <2> QED BY <2>2, <2>3
<1>19. ASSUME NEW x \in C, NEW y \in C, x < y PROVE EndIn(m, x) <= y
  <2>1. CASE x = b /\ y = r  BY <1>5, <1>10, <2>1
  <2>2. CASE x = b /\ y # r
    <3>1. y \in B \ {b} /\ y \in Nat  BY <1>5, <1>19, <2>2, BlockFacts
    <3>2. EndIn(mem, b) <= y  BY <1>19, <2>2, <3>1 DEF Chain
    <3> QED BY <1>1, <1>5, <1>10, <2>2, <3>1, <3>2, HeapAssumption
  <2>3. CASE x = r
    <3>1. y \in B /\ y \in Nat /\ b < y  BY <1>1, <1>5, <1>19, <2>3, BlockFacts
    <3>2. EndIn(mem, b) <= y  BY <3>1 DEF Chain
    <3> QED BY <1>11, <2>3, <3>2
  <2>4. CASE x \notin {b, r} /\ y = r
    <3>1. x \in B \ {b} /\ EndIn(m, x) = EndIn(mem, x) /\ x \in Nat  BY <1>12, <2>4, BlockFacts
    <3>2. x < b
      <4> SUFFICES ASSUME b < x PROVE FALSE  BY <1>5, <3>1
      <4>1. EndIn(mem, b) <= x  BY <3>1 DEF Chain
      <4> QED BY <1>1, <1>5, <1>19, <2>4, <3>1, <4>1, HeapAssumption
    <3>3. EndIn(mem, x) <= b /\ EndIn(mem, x) \in Nat  BY <3>1, <3>2, BlockFacts DEF Chain
    <3> QED BY <1>1, <1>5, <2>4, <3>1, <3>3
  <2>5. CASE x \notin {b, r} /\ y # r
    <3>1. x \in B \ {b} /\ y \in B /\ EndIn(m, x) = EndIn(mem, x)  BY <1>12, <2>5
    <3> QED BY <1>19, <3>1 DEF Chain
  <2> QED BY <2>1, <2>2, <2>3, <2>4, <2>5
<1>20. Chain(m, C)
  <2>1. \A q \in C : Linked(m, C, q)  BY <1>14, <1>15, <1>16
  <2> QED BY <1>17, <1>18, <1>19, <2>1 DEF Chain
<1>21. Kept(mem, m, B \ {b})  BY <1>12 DEF Kept
<1> QED BY <1>1, <1>3, <1>6, <1>10, <1>20, <1>21

\* Memory n is memory m after block b has swallowed the block c behind it, d
\* being the block behind c.
Merged(m, b, c, d, n) ==
  /\ n = Absorb(m, b, c) /\ d = m[c].next /\ d # b /\ d # c
  /\ n[b] = [m[b] EXCEPT !.size = m[b].size + HeaderSize + m[c].size, !.next = d]
  /\ d # NULL => n[d] = [m[d] EXCEPT !.prev = b]
  /\ \A a \in Addr : a \notin {b, d} => n[a] = m[a]

LEMMA AbsorbIs ==
  ASSUME NEW m \in [Addr -> Header], NEW B, Chain(m, B), NEW b \in B,
         NEW c \in B, c = m[b].next
  PROVE  \E d \in Addr \cup {NULL}, n \in [Addr -> Header] : Merged(m, b, c, d, n)
<1>1. PICK y \in Nat : y = m[b].size /\ EndIn(m, b) = b + HeaderSize + y
  BY BlockFacts
<1>2. PICK z \in Nat : z = m[c].size /\ EndIn(m, c) = c + HeaderSize + z
  BY BlockFacts
<1>3. b \in Addr /\ b \in Nat /\ heap_start <= b /\ m[b] \in Header  BY BlockFacts
<1>4. c \in Addr /\ c \in Nat /\ c # NULL /\ m[c] \in Header /\ EndIn(m, c) <= heap_end
  BY BlockFacts
<1>5. c = b + HeaderSize + y  BY <1>1, <1>4 DEF Chain, Linked
<1>6. PICK d \in Addr \cup {NULL} : d = m[c].next  BY BlockFacts
<1>7. d # b /\ d # c
  <2>1. CASE d = NULL  BY <1>3, <1>4, <2>1, AddrNat
  <2>2. CASE d # NULL
    <3>1. d = EndIn(m, c)  BY <1>6, <2>2 DEF Chain, Linked
    <3> QED BY <1>2, <1>3, <1>4, <1>5, <3>1, HeapAssumption
  <2> QED BY <2>1, <2>2
<1>8. PICK s \in Nat : s = y + HeaderSize + z /\ s % Word = s
  <2>1. y + HeaderSize + z \in 0..Word-1
    BY <1>2, <1>3, <1>4, <1>5, HeapAssumption
  <2>2. PICK s \in 0..Word-1 : s = y + HeaderSize + z  BY <2>1
  <2> QED BY <2>2, NoWrap, HeapAssumption
<1>9. (m[b].size + HeaderSize + m[c].size) % Word = s
      /\ m[b].size + HeaderSize + m[c].size = s
  BY <1>1, <1>2, <1>8
<1>10. PICK n : n = Absorb(m, b, c)  OBVIOUS
<1> DEFINE N(sum, next) ==
      [a \in Addr |->
         CASE a = b -> [m[b] EXCEPT !.size = sum, !.next = next]
           [] a = next -> [m[a] EXCEPT !.prev = b]
           [] OTHER -> m[a]]
<1>11. n = N((m[b].size + HeaderSize + m[c].size) % Word, m[c].next)
  BY <1>10, Zenon DEF Absorb
<1>12. n = N(s, d)
  <2> HIDE DEF N
  <2> QED BY <1>6, <1>9, <1>11, Zenon
<1>13. n[b] = [m[b] EXCEPT !.size = s, !.next = d]
  BY ONLY <1>3, <1>7, <1>12
<1>14. d # NULL => n[d] = [m[d] EXCEPT !.prev = b]
  BY ONLY <1>6, <1>7, <1>12, d \in Addr \cup {NULL}
<1>15. \A a \in Addr : a \notin {b, d} => n[a] = m[a]  BY ONLY <1>12
<1>16. n \in [Addr -> Header]
  <2>1. \A a \in Addr : n[a] \in Header
    <3> TAKE a \in Addr
    <3>1. CASE a = b
      <4>1. s \in Nat /\ d \in Addr \cup {NULL} /\ m[b] \in Header /\ TRUE \in BOOLEAN
        BY <1>3
      <4>2. [m[b] EXCEPT !.size = s, !.next = d] \in Header  BY ONLY <4>1, HeaderSet
      <4> QED BY <1>13, <3>1, <4>2
    <3>2. CASE a = d /\ a # b
      <4>1. m[a] \in Header /\ b \in Addr \cup {NULL}  BY <1>3
      <4>2. n[a] = [m[a] EXCEPT !.prev = b]  BY <3>2, <1>12
      <4> QED BY <4>1, <4>2, HeaderSet
    <3>3. CASE a \notin {b, d}  BY <1>15, <3>3
    <3> QED BY <3>1, <3>2, <3>3
  <2>2. n = [a \in Addr |-> n[a]]
    <3> DEFINE F(a) == CASE a = b -> [m[b] EXCEPT !.size = s, !.next = d]
                         [] a = d -> [m[a] EXCEPT !.prev = b]
                         [] OTHER -> m[a]
    <3>1. n = [a \in Addr |-> F(a)]  BY <1>12
    <3> HIDE DEF F
    <3> QED BY <3>1
  <2> QED BY <2>1, <2>2
<1>17. n[b] = [m[b] EXCEPT !.size = m[b].size + HeaderSize + m[c].size, !.next = d]
  BY <1>9, <1>13, Zenon
<1>18. Merged(m, b, c, d, n)
  BY <1>6, <1>7, <1>10, <1>14, <1>15, <1>17, Zenon DEF Merged
<1> QED BY <1>16, <1>18

Shrunk(m, B, b, c, d, n) ==
  /\ Chain(n, B \ {c})
  /\ n[b].used = m[b].used /\ n[b].next = d
  /\ Kept(m, n, B \ {b, c})

\* Swallowing a block: the list has one block less, every other block is what
\* it was.
LEMMA AbsorbChain ==
  ASSUME NEW m \in [Addr -> Header], NEW B, Chain(m, B), NEW b \in B,
         NEW c \in B, c = m[b].next,
         NEW d \in Addr \cup {NULL}, NEW n \in [Addr -> Header], Merged(m, b, c, d, n)
  PROVE  Shrunk(m, B, b, c, d, n)
<1>1. PICK y \in Nat : y = m[b].size /\ EndIn(m, b) = b + HeaderSize + y
  BY BlockFacts
<1>2. PICK z \in Nat : z = m[c].size /\ EndIn(m, c) = c + HeaderSize + z
  BY BlockFacts
<1>3. b \in Addr /\ b \in Nat /\ heap_start <= b /\ m[b] \in Header /\ b # NULL  BY BlockFacts
<1>4. c \in Addr /\ c \in Nat /\ c # NULL  BY BlockFacts
<1>5. Linked(m, B, b) /\ Linked(m, B, c)  BY DEF Chain
<1>6. c = EndIn(m, b) /\ m[c].prev = b /\ b < c
  <2>1. c = EndIn(m, b) /\ m[c].prev = b  BY <1>4, <1>5 DEF Linked
  <2> QED BY <1>1, <1>3, <2>1, HeapAssumption
<1>7. d = m[c].next /\ d # b /\ d # c  BY DEF Merged
<1>8. d # NULL => d \in B /\ d = EndIn(m, c) /\ m[d].prev = c /\ c < d
  <2>1. d # NULL => d \in B /\ d = EndIn(m, c) /\ m[d].prev = c
    BY <1>5, <1>7 DEF Linked
  <2> QED BY <1>2, <1>4, <2>1, HeapAssumption
<1>9. /\ n[b].magic = m[b].magic /\ n[b].size = y + HeaderSize + z /\ n[b].next = d
      /\ n[b].used = m[b].used /\ n[b].prev = m[b].prev
  <2>1. n[b] = [m[b] EXCEPT !.size = y + HeaderSize + z, !.next = d]
    BY <1>1, <1>2, Zenon DEF Merged
  <2> QED BY <1>3, <2>1 DEF Header
<1>10. EndIn(n, b) = EndIn(m, c)
  <2>1. EndIn(n, b) = b + HeaderSize + (y + HeaderSize + z)  BY <1>9 DEF EndIn
  <2>2. c = b + HeaderSize + y  BY <1>1, <1>6
  <2> QED BY <1>2, <1>3, <2>1, <2>2, HeapAssumption
<1>11. ASSUME NEW q \in B \ {b, c}
       PROVE  /\ n[q].magic = m[q].magic /\ n[q].size = m[q].size
              /\ n[q].next = m[q].next /\ n[q].used = m[q].used
              /\ n[q].prev = IF q = d THEN b ELSE m[q].prev
              /\ EndIn(n, q) = EndIn(m, q)
  <2>1. q \in Addr /\ m[q] \in Header /\ q # NULL  BY BlockFacts
  <2>2. n[q] = IF q = d THEN [m[q] EXCEPT !.prev = b] ELSE m[q]
    BY <2>1 DEF Merged
  <2>3. /\ n[q].magic = m[q].magic /\ n[q].size = m[q].size
        /\ n[q].next = m[q].next /\ n[q].used = m[q].used
        /\ n[q].prev = IF q = d THEN b ELSE m[q].prev
    BY <2>1, <2>2 DEF Header
  <2> QED BY <2>3 DEF EndIn
<1> DEFINE C == B \ {c}
<1>12. Linked(n, C, b)
  <2>1. n[b].magic  BY <1>5, <1>9 DEF Linked
  <2>2. n[b].size % 4 = 0
    <3>1. y % 4 = 0 /\ z % 4 = 0  BY <1>1, <1>2, <1>5 DEF Linked
    <3>2. HeaderSize \in Int /\ HeaderSize % 4 = 0  BY HeapAssumption
    <3>3. PICK x \in Int : x = y + HeaderSize  BY <3>2
    <3>4. x % 4 = 0  BY ONLY <3>1, <3>2, <3>3, y \in Nat, x \in Int, Fours
    <3>5. (x + z) % 4 = 0  BY ONLY <3>1, <3>4, z \in Nat, x \in Int, Fours
    <3> QED BY <1>9, <3>3, <3>5
  <2>3. n[b].next = NULL => EndIn(n, b) = heap_end
    BY <1>5, <1>7, <1>9, <1>10 DEF Linked
  <2>4. n[b].next # NULL => n[b].next \in C /\ n[b].next = EndIn(n, b) /\ n[n[b].next].prev = b
    <3> SUFFICES ASSUME d # NULL PROVE d \in C /\ d = EndIn(n, b) /\ n[d].prev = b
      BY <1>9
    <3>1. d \in B \ {b, c}  BY <1>7, <1>8
    <3> QED BY <1>8, <1>10, <1>11, <3>1
  <2>5. ASSUME b # heap_start PROVE n[b].prev \in C /\ n[n[b].prev].next = b
    <3>1. PICK p \in B : p = m[b].prev /\ m[p].next = b  BY <1>5, <2>5 DEF Linked
    <3>2. p # b
      <4>1. m[b].next # b  BY <1>6, <1>3
      <4> QED BY <3>1, <4>1
    <3>3. p # c  BY <1>7, <3>1
    <3> QED BY <1>9, <1>11, <3>1, <3>2, <3>3
  <2> QED BY <2>1, <2>2, <2>3, <2>4, <2>5 DEF Linked
<1>13. ASSUME NEW q \in B \ {b, c} PROVE Linked(n, C, q)
  <2>1. Linked(m, B, q)  BY DEF Chain
  <2>2. n[q].magic /\ n[q].size % 4 = 0  BY <1>11, <2>1 DEF Linked
  <2>3. n[q].next = NULL => EndIn(n, q) = heap_end  BY <1>11, <2>1 DEF Linked
  <2>4. ASSUME n[q].next # NULL
        PROVE  n[q].next \in C /\ n[q].next = EndIn(n, q) /\ n[n[q].next].prev = q
    <3>1. PICK e \in B : e = m[q].next /\ e = EndIn(m, q) /\ m[e].prev = q
      BY <1>11, <2>1, <2>4 DEF Linked
    <3>2. e # c  BY <1>6, <3>1
    <3>3. e # d  
      <4> SUFFICES ASSUME e = d PROVE FALSE  OBVIOUS
      <4>1. d # NULL  BY BlockFacts
      <4>2. m[d].prev = c  BY <1>8, <4>1
      <4> QED BY <3>1, <4>2
    <3>4. n[e].prev = q
      <4>1. CASE e = b  BY <1>9, <3>1, <4>1
      <4>2. CASE e # b  BY <1>11, <3>1, <3>2, <3>3, <4>2
      <4> QED BY <4>1, <4>2
    <3>5. n[q].next = e /\ EndIn(n, q) = EndIn(m, q)  BY <1>11, <3>1
    <3> QED BY <3>1, <3>2, <3>4, <3>5
  <2>5. ASSUME q # heap_start PROVE n[q].prev \in C /\ n[n[q].prev].next = q
    <3>1. PICK p \in B : p = m[q].prev /\ m[p].next = q  BY <2>1, <2>5 DEF Linked
    <3>2. CASE q = d
      <4>1. n[q].prev = b  BY <1>11, <3>2
      <4>2. n[b].next = q  BY <1>9, <3>2
      <4>3. b \in C  BY <1>3, <1>4, <1>6
      <4> QED BY <4>1, <4>2, <4>3
    <3>3. CASE q # d
      <4>1. n[q].prev = p  BY <1>11, <3>1, <3>3
      <4>2. p # b /\ p # c  BY <1>7, <3>1, <3>3
      <4>3. n[p].next = q  BY <1>11, <3>1, <4>2
      <4> QED BY <4>1, <4>2, <4>3
    <3> QED BY <3>2, <3>3
  <2> QED BY <2>2, <2>3, <2>4, <2>5 DEF Linked
<1>14. heap_start \in B /\ heap_start # c /\ heap_start # d /\ m[heap_start].prev = NULL
  <2>1. heap_start \in B /\ m[heap_start].prev = NULL  BY DEF Chain
  <2>2. heap_start # NULL /\ heap_start \in Nat  BY <2>1, BlockFacts
  <2> QED BY <1>3, <1>4, <1>6, <1>8, <2>1, <2>2
<1>15. n[heap_start].prev = NULL
  <2>1. CASE heap_start = b  BY <1>9, <1>14, <2>1
  <2>2. CASE heap_start # b  BY <1>11, <1>14, <2>2
  <2> QED BY <2>1, <2>2
<1>16. ASSUME NEW u \in C, NEW v \in C, u < v PROVE EndIn(n, u) <= v
  <2>1. u \in B /\ v \in B /\ u # c /\ v # c /\ u \in Nat /\ v \in Nat  BY BlockFacts
  <2>2. CASE u = b
    <3>1. c <= v  BY <1>6, <1>16, <2>1, <2>2 DEF Chain
    <3>2. c < v  BY <1>4, <2>1, <3>1
    <3>3. EndIn(m, c) <= v  BY <2>1, <3>2 DEF Chain
    <3> QED BY <1>10, <2>2, <3>3
  <2>3. CASE u # b
    <3>1. EndIn(m, u) <= v  BY <1>16, <2>1 DEF Chain
    <3>2. EndIn(n, u) = EndIn(m, u)  BY <1>11, <2>1, <2>3
    <3> QED BY <3>1, <3>2
  <2> QED BY <2>2, <2>3
<1>17. Chain(n, C)
  <2>1. \A q \in C : Linked(n, C, q)  BY <1>12, <1>13
  <2>2. C \subseteq Addr /\ heap_start \in C  BY <1>14 DEF Chain
  <2> QED BY <1>15, <1>16, <2>1, <2>2 DEF Chain
<1>18. Kept(m, n, B \ {b, c})  BY <1>11 DEF Kept
<1> QED BY <1>9, <1>17, <1>18 DEF Shrunk

\* ... and where b and c were free, and c had no free neighbour behind it,
\* there is one pair of free neighbours less.
LEMMA AbsorbPairs ==
  ASSUME NEW m \in [Addr -> Header], NEW B, Chain(m, B), NEW b \in B,
         NEW c \in B, c = m[b].next, ~m[b].used, ~m[c].used, c \notin FreePairs(m, B),
         NEW d \in Addr \cup {NULL}, NEW n \in [Addr -> Header], Merged(m, b, c, d, n)
  PROVE  FreePairs(n, B \ {c}) \subseteq FreePairs(m, B) \ {b}
<1> SUFFICES ASSUME NEW x \in FreePairs(n, B \ {c}) PROVE x \in FreePairs(m, B) \ {b}
  OBVIOUS
<1>1. /\ Chain(n, B \ {c}) /\ n[b].used = m[b].used /\ n[b].next = d
      /\ \A q \in B \ {b, c} : n[q].used = m[q].used /\ n[q].next = m[q].next
  <2>1. Chain(n, B \ {c}) /\ n[b].used = m[b].used /\ n[b].next = d
        /\ Kept(m, n, B \ {b, c})
    <3>1. Shrunk(m, B, b, c, d, n)  BY AbsorbChain
    <3> QED BY <3>1 DEF Shrunk
  <2> QED BY <2>1 DEF Kept
<1>2. x \in B \ {c} /\ n[x].next # NULL /\ ~n[x].used /\ ~n[n[x].next].used
  BY DEF FreePairs
<1>3. n[x].next \in B \ {c}  BY <1>1, <1>2 DEF Chain, Linked
<1>4. ~m[n[x].next].used  BY <1>1, <1>2, <1>3
<1>5. x # b
  <2> SUFFICES ASSUME x = b PROVE FALSE  OBVIOUS
  <2>1. d # NULL /\ ~m[d].used /\ d = m[c].next  BY <1>1, <1>2, <1>4 DEF Merged
  <2> QED BY <2>1 DEF FreePairs
<1>6. n[x].next = m[x].next /\ ~m[x].used  BY <1>1, <1>2, <1>5
<1> QED BY <1>2, <1>4, <1>5, <1>6 DEF FreePairs

-----------------------------------------------------------------------------
(* Granting a block                                                          *)

UsedIn(m, B) == {b \in B : m[b].used}

\* Memories m and n hold the list B, and differ in whether b is used.
Flagged(m, B, b, u, n) ==
  /\ n \in [Addr -> Header] /\ Chain(n, B)
  /\ n[b].used = u /\ \A q \in B \ {b} : n[q].used = m[q].used
  /\ \A q \in B : n[q].next = m[q].next /\ n[q].prev = m[q].prev
                  /\ EndIn(n, q) = EndIn(m, q)
  /\ \A a \in Addr : n[a] # m[a] => a = b

\* A memory in which only a used flag differs holds the same list.
LEMMA Remarked ==
  ASSUME NEW m \in [Addr -> Header], NEW B, Chain(m, B), NEW b \in B, NEW u \in BOOLEAN,
         NEW n, n = [m EXCEPT ![b].used = u]
  PROVE  Flagged(m, B, b, u, n)
<1>1. b \in Addr /\ m[b] \in Header  BY BlockFacts
<1>2. PICK h \in Header : h = [m[b] EXCEPT !.used = u]
  <2>1. 0 \in Nat /\ NULL \in Addr \cup {NULL}  OBVIOUS
  <2>2. [m[b] EXCEPT !.used = u] \in Header  BY ONLY <1>1, <2>1, u \in BOOLEAN, HeaderSet
  <2> QED BY <2>2
<1>3. h.magic = m[b].magic /\ h.size = m[b].size /\ h.next = m[b].next
      /\ h.prev = m[b].prev /\ h.used = u
  BY <1>1, <1>2 DEF Header
<1>4. n = [m EXCEPT ![b] = h]  BY <1>2
<1>5. n \in [Addr -> Header]  BY <1>4
<1>6. n[b] = h /\ \A a \in Addr \ {b} : n[a] = m[a]  BY <1>1, <1>4
<1>7. \A a \in Addr : /\ n[a].magic = m[a].magic /\ n[a].size = m[a].size
                      /\ n[a].next = m[a].next /\ n[a].prev = m[a].prev
  BY <1>3, <1>6
<1>8. B \subseteq Addr  BY DEF Chain
<1>9. \A q \in B : EndIn(n, q) = EndIn(m, q)  BY <1>7, <1>8 DEF EndIn
<1>10. ASSUME NEW q \in B PROVE Linked(n, B, q)
  <2>1. Linked(m, B, q)  BY DEF Chain
  <2>2. q \in Addr /\ m[q].next \in Addr \cup {NULL} /\ m[q].prev \in Addr \cup {NULL}
    <3>1. m[q] \in Header /\ q \in Addr  BY BlockFacts
    <3> QED BY <3>1 DEF Header
  <2>3. n[q].magic /\ n[q].size % 4 = 0  BY <1>7, <2>1, <2>2 DEF Linked
  <2>4. n[q].next = NULL => EndIn(n, q) = heap_end  BY <1>7, <1>9, <2>1, <2>2 DEF Linked
  <2>5. ASSUME n[q].next # NULL
        PROVE  n[q].next \in B /\ n[q].next = EndIn(n, q) /\ n[n[q].next].prev = q
    <3>1. n[q].next = m[q].next  BY <1>7, <2>2
    <3>2. m[q].next \in B /\ m[q].next = EndIn(m, q) /\ m[m[q].next].prev = q
      BY <2>1, <2>5, <3>1 DEF Linked
    <3>3. n[m[q].next].prev = m[m[q].next].prev  BY <1>7, <1>8, <3>2
    <3>4. EndIn(n, q) = EndIn(m, q)  BY <1>9
    <3> QED BY <3>1, <3>2, <3>3, <3>4
  <2>6. q # heap_start => n[q].prev \in B /\ n[n[q].prev].next = q
    BY <1>7, <1>8, <2>1, <2>2 DEF Linked
  <2> QED BY <2>3, <2>4, <2>5, <2>6 DEF Linked
<1>11. Chain(n, B)
  <2>1. n[heap_start].prev = NULL  BY <1>7, <1>8 DEF Chain
  <2>2. \A x, y \in B : x < y => EndIn(n, x) <= y  BY <1>9 DEF Chain
  <2>3. B \subseteq Addr /\ heap_start \in B  BY DEF Chain
  <2> QED BY <1>10, <2>1, <2>2, <2>3 DEF Chain
<1> QED BY <1>3, <1>5, <1>6, <1>7, <1>8, <1>9, <1>11 DEF Flagged

\* What kmalloc does when it finds block b for size bytes.
Taken(b, size) ==
  mem' = IF Splits(b, size) THEN Split(b, size) ELSE [mem EXCEPT ![b].used = TRUE]

\* ... and what has become of the list.
Grown(b, size) ==
  /\ mem' \in [Addr -> Header] /\ Chain(mem', Blocks') /\ Coalesced'
  /\ UsedIn(mem', Blocks') = UsedIn(mem, Blocks) \cup {b}
  /\ \A q \in UsedIn(mem, Blocks) : EndIn(mem', q) = EndIn(mem, q)
  /\ b + HeaderSize + size <= EndIn(mem', b) /\ EndIn(mem', b) <= EndIn(mem, b)
  /\ EndIn(mem', b) < b + HeaderSize + size + HeaderSize + MinPayload
  /\ \A a \in Addr : mem'[a] # mem[a] => a \in Blocks \/ (b < a /\ a + HeaderSize <= EndIn(mem, b))

LEMMA TakenWhole ==
  ASSUME mem \in [Addr -> Header], Chain(mem, Blocks), Coalesced,
         NEW b \in Blocks, NEW size \in Nat, Fits(b, size), ~Splits(b, size), Taken(b, size)
  PROVE  Grown(b, size)
<1>1. mem' = [mem EXCEPT ![b].used = TRUE]  BY DEF Taken
<1>2. /\ mem' \in [Addr -> Header] /\ Chain(mem', Blocks)
      /\ mem'[b].used = TRUE /\ \A q \in Blocks \ {b} : mem'[q].used = mem[q].used
      /\ \A q \in Blocks : mem'[q].next = mem[q].next /\ mem'[q].prev = mem[q].prev
                           /\ EndIn(mem', q) = EndIn(mem, q)
      /\ \A a \in Addr : mem'[a] # mem[a] => a = b
  <2>1. TRUE \in BOOLEAN  OBVIOUS
  <2>2. Flagged(mem, Blocks, b, TRUE, mem')  BY <1>1, <2>1, Remarked
  <2> QED BY <2>2 DEF Flagged
<1>3. Blocks' = Blocks  BY <1>2, BlocksAre
<1>4. FreePairs(mem', Blocks) = {}
  <2> SUFFICES ASSUME NEW x \in FreePairs(mem', Blocks) PROVE FALSE  OBVIOUS
  <2>1. x \in Blocks /\ mem'[x].next # NULL /\ ~mem'[x].used /\ ~mem'[mem'[x].next].used
    BY DEF FreePairs
  <2>2. mem'[x].next = mem[x].next /\ x # b /\ ~mem[x].used  BY <1>2, <2>1
  <2>3. mem[x].next \in Blocks  BY <2>1, <2>2 DEF Chain, Linked
  <2>4. mem[x].next # b /\ ~mem[mem[x].next].used  BY <1>2, <2>1, <2>2, <2>3
  <2> QED BY <2>1, <2>2, <2>4 DEF Coalesced
<1>5. Coalesced'  BY <1>3, <1>4, NoFreePairsNext
<1>6. PICK z \in Nat, e \in Nat : z = mem[b].size /\ e = EndIn(mem, b) /\ e = b + HeaderSize + z
  BY BlockFacts
<1>7. b \in Nat /\ z >= size /\ z < size + HeaderSize + MinPayload
  <2>1. z >= size /\ ~(z >= size + HeaderSize + MinPayload)  BY <1>6 DEF Fits, Splits
  <2> QED BY <2>1, <1>6, BlockFacts, HeapAssumption
<1>8. b + HeaderSize + size <= e /\ e < b + HeaderSize + size + HeaderSize + MinPayload
  BY <1>6, <1>7, HeapAssumption
<1>9. EndIn(mem', b) = e /\ e <= e
  <2>1. EndIn(mem', b) = EndIn(mem, b)  BY <1>2
  <2>2. EndIn(mem', b) = e  BY <1>6, <2>1, Zenon
  <2>3. e <= e  OBVIOUS
  <2> QED BY <2>2, <2>3
<1>10. UsedIn(mem', Blocks) = UsedIn(mem, Blocks) \cup {b}  BY <1>2 DEF UsedIn
<1>11. \A q \in UsedIn(mem, Blocks) : EndIn(mem', q) = EndIn(mem, q)  BY <1>2 DEF UsedIn
<1>12. \A a \in Addr : mem'[a] # mem[a] => a \in Blocks  BY <1>2
<1> QED BY <1>2, <1>3, <1>5, <1>6, <1>8, <1>9, <1>10, <1>11, <1>12 DEF Grown

LEMMA TakenSplit ==
  ASSUME mem \in [Addr -> Header], Chain(mem, Blocks), Coalesced,
         NEW b \in Blocks, NEW size \in Nat, size % 4 = 0, Fits(b, size),
         Splits(b, size), Taken(b, size)
  PROVE  Grown(b, size)
<1>1. mem' = Split(b, size)  BY DEF Taken
<1>2. PICK r \in Addr \ Blocks, n \in Addr \cup {NULL}, m \in [Addr -> Header] :
        Cut(b, size, r, n, m)
  BY SplitIs
<1>3. m = mem' /\ r = Rest(b, size) /\ n = mem[b].next  BY <1>1, <1>2 DEF Cut
<1>4. mem' \in [Addr -> Header]  BY <1>3
<1>5. /\ Chain(mem', Blocks \cup {r}) /\ Kept(mem, mem', Blocks \ {b})
      /\ EndIn(mem', b) = b + HeaderSize + size
  BY <1>1, <1>3, SplitChain
<1>6. Blocks' = Blocks \cup {r}  BY <1>4, <1>5, BlocksAre
<1>7. mem'[b].used /\ mem'[b].next = r /\ ~mem'[r].used /\ mem'[r].next = n
  <2>1. mem[b] \in Header  BY BlockFacts
  <2>2. mem'[b] = [mem[b] EXCEPT !.next = r, !.size = size, !.used = TRUE]
    BY <1>2, <1>3, Zenon DEF Cut
  <2>3. mem'[r] = [magic |-> TRUE, used |-> FALSE, next |-> n, prev |-> b,
                   size |-> mem[b].size - size - HeaderSize]
    BY <1>2, <1>3, Zenon DEF Cut
  <2> QED BY <2>1, <2>2, <2>3 DEF Header
<1>8. ~mem[b].used  BY DEF Fits
<1>9. FreePairs(mem', Blocks \cup {r}) = {}
  <2> SUFFICES ASSUME NEW x \in FreePairs(mem', Blocks \cup {r}) PROVE FALSE  OBVIOUS
  <2>1. /\ x \in Blocks \cup {r} /\ mem'[x].next # NULL /\ ~mem'[x].used
        /\ ~mem'[mem'[x].next].used
    BY DEF FreePairs
  <2>2. x # b  BY <1>7, <2>1
  <2>3. CASE x = r
    <3>1. n # NULL /\ ~mem'[n].used  BY <1>7, <2>1, <2>3
    <3>2. n \in Blocks \ {b}
      <4>1. n \in Blocks  BY <1>3, <3>1 DEF Chain, Linked
      <4> QED BY <4>1, <1>2 DEF Cut
    <3>3. ~mem[n].used  BY <1>5, <3>1, <3>2 DEF Kept
    <3> QED BY <1>3, <1>8, <3>1, <3>3 DEF Coalesced
  <2>4. CASE x # r
    <3>1. x \in Blocks \ {b} /\ mem'[x].next = mem[x].next /\ ~mem[x].used
      BY <1>5, <2>1, <2>2, <2>4 DEF Kept
    <3>2. mem[x].next \in Blocks  BY <2>1, <3>1 DEF Chain, Linked
    <3>3. mem[mem[x].next].used  BY <2>1, <3>1 DEF Coalesced
    <3>4. mem[x].next # b  BY <1>8, <3>3
    <3>5. mem'[mem[x].next].used  BY <1>5, <3>2, <3>3, <3>4 DEF Kept
    <3> QED BY <2>1, <3>1, <3>5
  <2> QED BY <2>3, <2>4
<1>10. Coalesced'  BY <1>6, <1>9, NoFreePairsNext
<1>11. UsedIn(mem', Blocks \cup {r}) = UsedIn(mem, Blocks) \cup {b}
  <2>1. \A q \in Blocks \ {b} : mem'[q].used = mem[q].used  BY <1>5 DEF Kept
  <2> QED BY <1>7, <2>1 DEF UsedIn
<1>12. \A q \in UsedIn(mem, Blocks) : EndIn(mem', q) = EndIn(mem, q)
  BY <1>5, <1>8 DEF Kept, UsedIn
<1>13. PICK z \in Nat, e \in Nat : z = mem[b].size /\ e = EndIn(mem, b) /\ e = b + HeaderSize + z
  BY BlockFacts
<1>14. b \in Nat /\ z >= size + HeaderSize + MinPayload
  <2>1. z >= size + HeaderSize + MinPayload  BY <1>13 DEF Splits
  <2> QED BY <2>1, BlockFacts
<1>15. /\ b + HeaderSize + size <= EndIn(mem', b) /\ EndIn(mem', b) <= e
       /\ EndIn(mem', b) < b + HeaderSize + size + HeaderSize + MinPayload
  BY <1>5, <1>13, <1>14, HeapAssumption
<1>16. ASSUME NEW a \in Addr, mem'[a] # mem[a]
       PROVE  a \in Blocks \/ (b < a /\ a + HeaderSize <= e)
  <2>1. a \in {r, b, n}  BY <1>2, <1>3, <1>16 DEF Cut
  <2>2. b < r /\ r + HeaderSize <= e  BY <1>2, <1>13 DEF Cut
  <2>3. a = n => n \in Blocks
    <3>1. a # NULL  BY AddrNat
    <3> QED BY <1>3, <3>1 DEF Chain, Linked
  <2> QED BY <2>1, <2>2, <2>3
<1>17. Chain(mem', Blocks')  BY <1>5, <1>6
<1> QED BY <1>4, <1>6, <1>10, <1>11, <1>12, <1>13, <1>15, <1>16, <1>17 DEF Grown

-----------------------------------------------------------------------------
(* Freeing a block                                                           *)

\* Memory n holds the list C instead of B: free blocks may have been merged,
\* used ones are what and where they were.
Thinned(m, B, n, C) ==
  /\ n \in [Addr -> Header] /\ Chain(n, C) /\ C \subseteq B
  /\ UsedIn(n, C) = UsedIn(m, B)
  /\ \A q \in UsedIn(m, B) : EndIn(n, q) = EndIn(m, q)
  /\ \A a \in Addr : n[a] # m[a] => a \in B

LEMMA ThinnedTwice ==
  ASSUME NEW m, NEW B, NEW n, NEW C, NEW o, NEW D, Thinned(m, B, n, C), Thinned(n, C, o, D)
  PROVE  Thinned(m, B, o, D)
<1>1. D \subseteq B /\ UsedIn(o, D) = UsedIn(m, B)  BY DEF Thinned
<1>2. \A q \in UsedIn(m, B) : EndIn(o, q) = EndIn(m, q)  BY DEF Thinned
<1>3. ASSUME NEW a \in Addr, o[a] # m[a] PROVE a \in B
  <2>1. CASE o[a] # n[a]  BY <2>1 DEF Thinned
  <2>2. CASE n[a] # m[a]  BY <2>2 DEF Thinned
  <2> QED BY <1>3, <2>1, <2>2
<1> QED BY <1>1, <1>2, <1>3 DEF Thinned

LEMMA AbsorbThins ==
  ASSUME NEW m \in [Addr -> Header], NEW B, Chain(m, B), NEW b \in B,
         NEW c \in B, c = m[b].next, ~m[b].used, ~m[c].used,
         NEW d \in Addr \cup {NULL}, NEW n \in [Addr -> Header], Merged(m, b, c, d, n)
  PROVE  Thinned(m, B, n, B \ {c}) /\ ~n[b].used
<1>1. Shrunk(m, B, b, c, d, n)  BY AbsorbChain
<1>2. Chain(n, B \ {c}) /\ ~n[b].used /\ Kept(m, n, B \ {b, c})  BY <1>1 DEF Shrunk
<1>3. UsedIn(n, B \ {c}) = UsedIn(m, B)  BY <1>2 DEF Kept, UsedIn
<1>4. \A q \in UsedIn(m, B) : EndIn(n, q) = EndIn(m, q)  BY <1>2 DEF Kept, UsedIn
<1>5. ASSUME NEW a \in Addr, n[a] # m[a] PROVE a \in B
  <2>1. a = b \/ a = d  BY <1>5 DEF Merged
  <2>2. CASE a = d
    <3>1. d # NULL /\ d = m[c].next  BY <2>2, AddrNat DEF Merged
    <3> QED BY <2>2, <3>1 DEF Chain, Linked
  <2> QED BY <2>1, <2>2
<1> QED BY <1>2, <1>3, <1>4, <1>5 DEF Thinned

\* The previous block is another one, in front.
LEMMA PrevBefore ==
  ASSUME NEW m \in [Addr -> Header], NEW B, Chain(m, B), NEW b \in B
  PROVE  \/ m[b].prev = NULL /\ b = heap_start
         \/ m[b].prev \in B /\ m[b].prev < b /\ m[m[b].prev].next = b
<1>1. CASE b = heap_start  BY <1>1 DEF Chain
<1>2. CASE b # heap_start
  <2>1. PICK p \in B : p = m[b].prev /\ m[p].next = b  BY <1>2 DEF Chain, Linked
  <2>2. b # NULL /\ b \in Nat  BY BlockFacts
  <2>3. b = EndIn(m, p)  BY <2>1, <2>2 DEF Chain, Linked
  <2>4. p < b
    <3>1. p \in Nat /\ p + HeaderSize <= EndIn(m, p)  BY BlockFacts
    <3> QED BY <2>2, <2>3, <3>1, HeapAssumption
  <2> QED BY <2>1, <2>4
<1> QED BY <1>1, <1>2

LEMMA MergedNextIs ==
  ASSUME NEW m \in [Addr -> Header], NEW B, Chain(m, B), NEW b \in B, ~m[b].used,
         FreePairs(m, B) \subseteq {b, m[b].prev}
  PROVE  \E n, C : /\ n = MergedNext(m, b) /\ Thinned(m, B, n, C)
                   /\ b \in C /\ ~n[b].used /\ FreePairs(n, C) \subseteq {n[b].prev}
<1> DEFINE c == m[b].next
<1>1. CASE c # NULL /\ ~m[c].used
  <2>1. c \in B /\ c = EndIn(m, b)  BY <1>1 DEF Chain, Linked
  <2>2. b < c /\ b \in Nat /\ c \in Nat
    <3>1. b \in Nat /\ b + HeaderSize <= EndIn(m, b) /\ EndIn(m, b) \in Nat  BY BlockFacts
    <3> QED BY <2>1, <3>1, HeapAssumption
  <2>3. PICK d \in Addr \cup {NULL}, n \in [Addr -> Header] : Merged(m, b, c, d, n)
    BY <2>1, AbsorbIs
  <2>4. n = MergedNext(m, b)  BY <1>1, <2>3 DEF Merged, MergedNext
  <2>5. c \notin FreePairs(m, B)
    <3>1. c # b  BY <2>2
    <3>2. c # m[b].prev  BY <1>1, <2>2, PrevBefore
    <3> QED BY <3>1, <3>2
  <2>6. FreePairs(n, B \ {c}) \subseteq FreePairs(m, B) \ {b}
    <3> HIDE DEF c
    <3>1. c = m[b].next /\ ~m[c].used /\ c \in B  BY <1>1, <2>1 DEF c
    <3> QED BY <2>3, <2>5, <3>1, AbsorbPairs
  <2>7. Thinned(m, B, n, B \ {c}) /\ ~n[b].used  BY <1>1, <2>1, <2>3, AbsorbThins
  <2>8. n[b].prev = m[b].prev
    <3>1. m[b] \in Header  BY BlockFacts
    <3>2. n[b] = [m[b] EXCEPT !.size = m[b].size + HeaderSize + m[c].size, !.next = d]
      BY <2>3, Zenon DEF Merged
    <3> QED BY <3>1, <3>2 DEF Header
  <2>9. FreePairs(n, B \ {c}) \subseteq {n[b].prev}  BY <2>6, <2>8
  <2>10. b \in B \ {c}  BY <2>2
  <2> HIDE DEF c
  <2> QED BY <2>4, <2>7, <2>9, <2>10
<1>2. CASE ~(c # NULL /\ ~m[c].used)
  <2>1. m = MergedNext(m, b)  BY <1>2 DEF MergedNext
  <2>2. b \notin FreePairs(m, B)  BY <1>2 DEF FreePairs
  <2>3. Thinned(m, B, m, B)  BY DEF Thinned
  <2>4. FreePairs(m, B) \subseteq {m[b].prev}  BY <2>2
  <2> QED BY <2>1, <2>3, <2>4
<1> QED BY <1>1, <1>2

LEMMA MergedPrevIs ==
  ASSUME NEW m \in [Addr -> Header], NEW B, Chain(m, B), NEW b \in B, ~m[b].used,
         FreePairs(m, B) \subseteq {m[b].prev}
  PROVE  \E n, C : /\ n = MergedPrev(m, b) /\ Thinned(m, B, n, C) /\ FreePairs(n, C) = {}
<1> DEFINE p == m[b].prev
<1>1. CASE p # NULL /\ ~m[p].used
  <2>1. p \in B /\ b = m[p].next /\ p < b  BY <1>1, PrevBefore
  <2>2. PICK d \in Addr \cup {NULL}, n \in [Addr -> Header] : Merged(m, p, b, d, n)
    BY <2>1, AbsorbIs
  <2>3. n = MergedPrev(m, b)  BY <1>1, <2>2 DEF Merged, MergedPrev
  <2>4. b \notin FreePairs(m, B)
    <3>1. b \in Nat /\ p \in Nat  BY <2>1, BlockFacts
    <3>2. b # p  BY <2>1, <3>1
    <3> QED BY <3>2
  <2>5. FreePairs(n, B \ {b}) \subseteq FreePairs(m, B) \ {p}
    <3> HIDE DEF p
    <3>1. p \in B /\ b = m[p].next /\ ~m[p].used  BY <1>1, <2>1
    <3> QED BY <2>2, <2>4, <3>1, AbsorbPairs
  <2>6. Thinned(m, B, n, B \ {b})  BY <1>1, <2>1, <2>2, AbsorbThins
  <2>7. FreePairs(n, B \ {b}) = {}  BY <2>5
  <2> QED BY <2>3, <2>6, <2>7
<1>2. CASE ~(p # NULL /\ ~m[p].used)
  <2>1. m = MergedPrev(m, b)  BY <1>2 DEF MergedPrev
  <2>2. p \notin FreePairs(m, B)
    <3>1. CASE p = NULL
      <4>1. p \notin B  BY <3>1, BlockFacts
      <4> QED BY <4>1 DEF FreePairs
    <3>2. CASE m[p].used  BY <3>2 DEF FreePairs
    <3> QED BY <1>2, <3>1, <3>2
  <2>3. Thinned(m, B, m, B)  BY DEF Thinned
  <2>4. FreePairs(m, B) = {}  BY <2>2
  <2> QED BY <2>1, <2>3, <2>4
<1> QED BY <1>1, <1>2

\* What kfree does with block b, and what has become of the list.
Freed(b) == mem' = MergedPrev(MergedNext(Released(b), b), b)

Returned(b) ==
  /\ mem' \in [Addr -> Header] /\ Chain(mem', Blocks') /\ Coalesced'
  /\ UsedIn(mem', Blocks') = UsedIn(mem, Blocks) \ {b}
  /\ \A q \in UsedIn(mem', Blocks') : EndIn(mem', q) = EndIn(mem, q)
  /\ \A a \in Addr : mem'[a] # mem[a] => a \in Blocks

LEMMA FreedIs ==
  ASSUME mem \in [Addr -> Header], Chain(mem, Blocks), Coalesced, NEW b \in Blocks, Freed(b)
  PROVE  Returned(b)
<1>1. PICK m : m = Released(b)  OBVIOUS
<1>2. Flagged(mem, Blocks, b, FALSE, m)
  <2>1. FALSE \in BOOLEAN /\ m = [mem EXCEPT ![b].used = FALSE]  BY <1>1 DEF Released
  <2> QED BY <2>1, Remarked
<1>3. m \in [Addr -> Header] /\ Chain(m, Blocks) /\ ~m[b].used  BY <1>2 DEF Flagged
<1>4. FreePairs(m, Blocks) \subseteq {b, m[b].prev}
  <2> SUFFICES ASSUME NEW x \in FreePairs(m, Blocks), x # b PROVE x = m[b].prev
    OBVIOUS
  <2>1. x \in Blocks /\ m[x].next # NULL /\ ~m[x].used /\ ~m[m[x].next].used
    BY DEF FreePairs
  <2>2. m[x].next \in Blocks /\ m[m[x].next].prev = x  BY <1>3, <2>1 DEF Chain, Linked
  <2>3. CASE m[x].next = b  BY <2>2, <2>3
  <2>4. CASE m[x].next # b
    <3>1. m[x].next = mem[x].next /\ ~mem[x].used /\ ~mem[m[x].next].used
      BY <1>2, <2>1, <2>2, <2>4 DEF Flagged
    <3> QED BY <2>1, <3>1 DEF Coalesced
  <2> QED BY <2>3, <2>4
<1>5. PICK n, C : /\ n = MergedNext(m, b) /\ Thinned(m, Blocks, n, C)
                  /\ b \in C /\ ~n[b].used /\ FreePairs(n, C) \subseteq {n[b].prev}
  BY <1>3, <1>4, MergedNextIs
<1>6. n \in [Addr -> Header] /\ Chain(n, C)  BY <1>5 DEF Thinned
<1>7. PICK o, D : o = MergedPrev(n, b) /\ Thinned(n, C, o, D) /\ FreePairs(o, D) = {}
  <2>1. b \in C /\ ~n[b].used /\ FreePairs(n, C) \subseteq {n[b].prev}  BY <1>5
  <2> QED BY ONLY <1>6, <2>1, MergedPrevIs
<1>8. mem' = o  BY <1>1, <1>5, <1>7 DEF Freed
<1>9. Thinned(m, Blocks, mem', D)
  <2>1. Thinned(m, Blocks, o, D)  BY <1>5, <1>7, ThinnedTwice
  <2> QED BY <1>8, <2>1
<1>10. mem' \in [Addr -> Header] /\ Chain(mem', D)  BY <1>9 DEF Thinned
<1>11. Blocks' = D  BY <1>10, BlocksAre
<1>12. Coalesced'
  <2>1. FreePairs(mem', D) = {}  BY <1>7, <1>8
  <2> QED BY <1>11, <2>1, NoFreePairsNext
<1>13. UsedIn(m, Blocks) = UsedIn(mem, Blocks) \ {b}
  BY <1>2 DEF Flagged, UsedIn
<1>14. UsedIn(mem', D) = UsedIn(mem, Blocks) \ {b}
  BY <1>9, <1>13 DEF Thinned
<1>15. \A q \in UsedIn(mem', D) : EndIn(mem', q) = EndIn(mem, q)
  <2>1. \A q \in Blocks : EndIn(m, q) = EndIn(mem, q)  BY <1>2 DEF Flagged
  <2>2. \A q \in UsedIn(m, Blocks) : EndIn(mem', q) = EndIn(m, q)  BY <1>9 DEF Thinned
  <2>3. UsedIn(mem', D) = UsedIn(m, Blocks) /\ UsedIn(m, Blocks) \subseteq Blocks
    BY <1>13, <1>14 DEF UsedIn
  <2> QED BY <2>1, <2>2, <2>3
<1>16. ASSUME NEW a \in Addr, mem'[a] # mem[a] PROVE a \in Blocks
  <2>1. CASE m[a] # mem[a]  BY <1>2, <2>1 DEF Flagged
  <2>2. CASE m[a] = mem[a]
    <3>1. mem'[a] # m[a]  BY <1>16, <2>2
    <3> QED BY <1>9, <3>1 DEF Thinned
  <2> QED BY <2>1, <2>2
<1>17. Chain(mem', Blocks')  BY <1>10, <1>11
<1> QED BY <1>10, <1>11, <1>12, <1>14, <1>15, <1>16, <1>17 DEF Returned

-----------------------------------------------------------------------------
(* The inductive invariant                                                   *)

LEMMA HeapInitInv == HeapInit => HeapInv
<1> SUFFICES ASSUME HeapInit PROVE HeapInv  OBVIOUS
<1>1. heap_start \in Addr /\ heap_start # NULL
  <2>1. heap_start \in heap_start..heap_end-1 /\ heap_start % 4 = 0  BY HeapAssumption
  <2> QED BY <2>1, HeapAssumption DEF Addr, NULL
<1>2. PICK z \in Nat : z = heap_end - heap_start - HeaderSize /\ z % 4 = 0
  <2>1. PICK x \in Int : x = heap_end - heap_start  BY HeapAssumption
  <2>2. x % 4 = 0  BY <2>1, Fours, HeapAssumption
  <2>3. (x - HeaderSize) % 4 = 0  BY <2>2, Fours, HeapAssumption
  <2>4. x - HeaderSize \in Nat  BY <2>1, HeapAssumption
  <2> QED BY <2>1, <2>3, <2>4, HeapAssumption
<1>3. mem = [a \in Addr |-> IF a = heap_start
                            THEN [Garbage EXCEPT !.magic = TRUE, !.size = z]
                            ELSE Garbage]
  BY <1>2, Zenon DEF HeapInit
<1>4. mem[heap_start] = [magic |-> TRUE, size |-> z, used |-> FALSE, next |-> NULL, prev |-> NULL]
  BY <1>1, <1>3 DEF Garbage
<1>5. mem \in [Addr -> Header]
  <2>1. Garbage \in Header  BY DEF Garbage, Header
  <2>2. [Garbage EXCEPT !.magic = TRUE, !.size = z] \in Header  BY DEF Garbage, Header
  <2> QED BY <1>3, <2>1, <2>2
<1>6. EndIn(mem, heap_start) = heap_end
  BY <1>2, <1>4, HeapAssumption DEF EndIn
<1>7. Linked(mem, {heap_start}, heap_start)  BY <1>2, <1>4, <1>6 DEF Linked
<1>8. Chain(mem, {heap_start})
  <2>1. ~(heap_start < heap_start)  BY HeapAssumption
  <2> QED BY <1>1, <1>4, <1>7, <2>1 DEF Chain
<1>9. Blocks = {heap_start}  BY <1>5, <1>8, BlocksAre
<1>10. live = << >> /\ asked = 0 /\ granted = NULL /\ DOMAIN live = {}  BY DEF HeapInit
<1>11. HeapTypeOK  BY <1>5, <1>10 DEF HeapTypeOK
<1>12. Coalesced  BY <1>4, <1>9 DEF Coalesced
<1>13. LiveBlocks  BY <1>4, <1>9, <1>10 DEF LiveBlocks
<1> QED BY <1>8, <1>9, <1>11, <1>12, <1>13 DEF HeapInv

LEMMA KmallocIs ==
  ASSUME HeapInv, NEW req \in Requests, kmalloc(req)
  PROVE  \/ granted' = NULL /\ mem' = mem /\ \A b \in Blocks : ~Fits(b, Aligned(req))
         \/ \E b \in Blocks : /\ Fits(b, Aligned(req)) /\ granted' = b + HeaderSize
                              /\ Grown(b, Aligned(req))
<1>1. PICK size \in Nat : size = Aligned(req) /\ size % 4 = 0  BY AlignedIs
<1>2. mem \in [Addr -> Header] /\ Chain(mem, Blocks) /\ Coalesced
  BY DEF HeapInv, HeapTypeOK
<1>3. PICK b : b = Found(size)  OBVIOUS
<1>4. \/ b \in Blocks /\ Fits(b, size)
      \/ b = NULL /\ \A q \in Blocks : ~Fits(q, size)
  BY <1>2, <1>3, FoundIs
<1>5. CASE b \in Blocks /\ Fits(b, size)
  <2>1. Usable(b)  BY <1>2, <1>5, BlockFacts DEF Usable, Chain, Linked
  <2>2. Taken(b, size) /\ granted' = b + HeaderSize
    BY <1>1, <1>3, <2>1 DEF kmalloc, Taken
  <2>3. Grown(b, size)
    <3>1. CASE Splits(b, size)  BY <1>1, <1>2, <1>5, <2>2, <3>1, TakenSplit
    <3>2. CASE ~Splits(b, size)  BY <1>2, <1>5, <2>2, <3>2, TakenWhole
    <3> QED BY <3>1, <3>2
  <2> QED BY <1>1, <1>5, <2>2, <2>3
<1>6. CASE b = NULL /\ \A q \in Blocks : ~Fits(q, size)
  <2>1. ~Usable(b)  BY <1>6 DEF Usable
  <2>2. granted' = NULL /\ mem' = mem  BY <1>1, <1>3, <2>1 DEF kmalloc
  <2> QED BY <1>1, <1>6, <2>2
<1> QED BY <1>4, <1>5, <1>6

\* A pointer and the block in front of which it lies.
LEMMA Pointers ==
  ASSUME HeapInv, NEW p \in DOMAIN live
  PROVE  /\ p - HeaderSize \in UsedIn(mem, Blocks) /\ p - HeaderSize \in Nat
         /\ p = (p - HeaderSize) + HeaderSize /\ p # NULL
<1>1. PICK b \in Blocks : mem[b].used /\ p = b + HeaderSize  BY DEF HeapInv, LiveBlocks
<1>2. b \in Nat
  <2>1. mem \in [Addr -> Header] /\ Chain(mem, Blocks)  BY DEF HeapInv, HeapTypeOK
  <2> QED BY <2>1, BlockFacts
<1>3. p - HeaderSize = b /\ p = b + HeaderSize /\ p # NULL
  BY <1>1, <1>2, HeapAssumption DEF NULL
<1> QED BY <1>1, <1>2, <1>3 DEF UsedIn

LEMMA GrantInv ==
  ASSUME HeapInv, NEW req \in Requests, NEW b \in Blocks, Fits(b, Aligned(req)),
         asked' = req, granted' = b + HeaderSize, Grown(b, Aligned(req)),
         live' = [p \in DOMAIN live \cup ({granted'} \ {NULL}) |->
                    IF p = granted' THEN req ELSE live[p]]
  PROVE  HeapInv'
<1>1. mem \in [Addr -> Header] /\ Chain(mem, Blocks)  BY DEF HeapInv, HeapTypeOK
<1>2. /\ mem' \in [Addr -> Header] /\ Chain(mem', Blocks') /\ Coalesced'
      /\ UsedIn(mem', Blocks') = UsedIn(mem, Blocks) \cup {b}
      /\ \A q \in UsedIn(mem, Blocks) : EndIn(mem', q) = EndIn(mem, q)
      /\ b + HeaderSize + Aligned(req) <= EndIn(mem', b)
  BY DEF Grown
<1>3. PICK g \in Nat : g = granted' /\ g = b + HeaderSize /\ g # NULL /\ b \in Nat /\ b \in Addr
                       /\ g - HeaderSize = b
  BY <1>1, BlockFacts, HeapAssumption DEF NULL
<1>4. DOMAIN live' = DOMAIN live \cup {g} /\ live'[g] = req
      /\ \A p \in DOMAIN live : p # g => live'[p] = live[p]
  BY <1>3
<1>5. DOMAIN live = {q + HeaderSize : q \in UsedIn(mem, Blocks)}
  BY DEF HeapInv, LiveBlocks, UsedIn
<1>6. DOMAIN live' = {q + HeaderSize : q \in UsedIn(mem', Blocks')}
  BY <1>2, <1>3, <1>4, <1>5
<1>7. \A q \in UsedIn(mem', Blocks') : q \in Nat /\ mem'[q].size \in Nat
  <2>1. UsedIn(mem', Blocks') \subseteq Blocks'  BY DEF UsedIn
  <2> QED BY <1>2, <2>1, BlockFacts
<1>8. ASSUME NEW p \in DOMAIN live', live'[p] <= Word - 4
      PROVE  mem'[p - HeaderSize].size >= live'[p]
  <2>1. CASE p = g
    <3>1. Aligned(req) \in Nat /\ (req <= Word - 4 => Aligned(req) >= req)  BY AlignedIs
    <3>2. PICK s \in Nat, z \in Nat : s = Aligned(req) /\ z = mem'[b].size
      BY <1>2, <1>7, <3>1
    <3>3. b + HeaderSize + s <= b + HeaderSize + z  BY <1>2, <3>2 DEF EndIn
    <3>4. req \in Nat /\ req <= Word - 4  BY <1>4, <1>8, <2>1, HeapAssumption
    <3>5. s >= req /\ z >= s  BY <1>3, <3>1, <3>2, <3>3, <3>4, HeapAssumption
    <3>6. mem'[p - HeaderSize].size = z /\ live'[p] = req  BY <1>3, <1>4, <2>1, <3>2
    <3> QED BY <3>4, <3>5, <3>6
  <2>2. CASE p # g
    <3>1. p \in DOMAIN live /\ live'[p] = live[p]  BY <1>4, <2>2
    <3>2. PICK q \in Nat : q = p - HeaderSize /\ q \in UsedIn(mem, Blocks)
      BY <3>1, Pointers
    <3>3. mem[q].size >= live[p]
      <4>1. live[p] <= Word - 4  BY <1>8, <3>1
      <4> QED BY <3>1, <3>2, <4>1 DEF HeapInv, LiveBlocks
    <3>4. mem'[q].size = mem[q].size
      <4>1. q \in UsedIn(mem', Blocks') /\ q \in Blocks  BY <1>2, <3>2 DEF UsedIn
      <4>2. mem'[q].size \in Nat /\ mem[q].size \in Nat  BY <1>1, <1>7, <4>1, BlockFacts
      <4>3. q + HeaderSize + mem'[q].size = q + HeaderSize + mem[q].size
        BY <1>2, <3>2 DEF EndIn
      <4> QED BY <4>2, <4>3, HeapAssumption
    <3> QED BY <3>1, <3>2, <3>3, <3>4
  <2> QED BY <2>1, <2>2
<1>9. LiveBlocks'  BY <1>6, <1>8 DEF LiveBlocks, UsedIn
<1>10. HeapTypeOK'
  <2>1. DOMAIN live' \subseteq {a + HeaderSize : a \in Addr}
    BY <1>3, <1>4 DEF HeapInv, HeapTypeOK
  <2>2. \A p \in DOMAIN live' : live'[p] \in Requests
    BY <1>4 DEF HeapInv, HeapTypeOK
  <2>3. granted' \in {NULL} \cup {a + HeaderSize : a \in Addr}  BY <1>3
  <2> QED BY <1>2, <2>1, <2>2, <2>3 DEF HeapTypeOK
<1> QED BY <1>2, <1>9, <1>10 DEF HeapInv

LEMMA RefuseInv ==
  ASSUME HeapInv, asked' \in Requests, granted' = NULL, mem' = mem,
         live' = [p \in DOMAIN live \cup ({granted'} \ {NULL}) |-> live[p]]
  PROVE  HeapInv'
<1>1. mem \in [Addr -> Header] /\ Chain(mem, Blocks)  BY DEF HeapInv, HeapTypeOK
<1>2. Blocks' = Blocks  BY <1>1, BlocksAre
<1>3. DOMAIN live' = DOMAIN live /\ \A p \in DOMAIN live : live'[p] = live[p]  OBVIOUS
<1>4. HeapTypeOK'  BY <1>3 DEF HeapInv, HeapTypeOK
<1>5. Chain(mem', Blocks')  BY <1>1, <1>2
<1>6. Coalesced'  BY <1>2 DEF HeapInv, Coalesced
<1>7. LiveBlocks'
  <2>1. LiveBlocks  BY DEF HeapInv
  <2> QED BY <1>2, <1>3, <2>1 DEF LiveBlocks
<1> QED BY <1>4, <1>5, <1>6, <1>7 DEF HeapInv

LEMMA KfreeIs ==
  ASSUME HeapInv, NEW p \in DOMAIN live, kfree(p)
  PROVE  Returned(p - HeaderSize)
<1>1. mem \in [Addr -> Header] /\ Chain(mem, Blocks) /\ Coalesced
  BY DEF HeapInv, HeapTypeOK
<1>2. p - HeaderSize \in Blocks /\ p # NULL
  BY Pointers DEF UsedIn
<1>3. mem[p - HeaderSize].magic  BY <1>1, <1>2 DEF Chain, Linked
<1>4. Freed(p - HeaderSize)  BY <1>2, <1>3 DEF kfree, Freed
<1> QED BY <1>1, <1>2, <1>4, FreedIs

LEMMA ReleaseInv ==
  ASSUME HeapInv, NEW p \in DOMAIN live, kfree(p), asked' = asked, granted' = granted,
         live' = Restricted(live, DOMAIN live \ {p})
  PROVE  HeapInv'
<1>1. mem \in [Addr -> Header] /\ Chain(mem, Blocks)  BY DEF HeapInv, HeapTypeOK
<1>2. PICK b \in Nat : b = p - HeaderSize /\ b \in UsedIn(mem, Blocks) /\ p = b + HeaderSize
  BY Pointers
<1>3. /\ mem' \in [Addr -> Header] /\ Chain(mem', Blocks') /\ Coalesced'
      /\ UsedIn(mem', Blocks') = UsedIn(mem, Blocks) \ {b}
      /\ \A q \in UsedIn(mem', Blocks') : EndIn(mem', q) = EndIn(mem, q)
  BY <1>2, KfreeIs DEF Returned
<1>4. DOMAIN live' = DOMAIN live \ {p} /\ \A x \in DOMAIN live' : live'[x] = live[x]
  BY DEF Restricted
<1>5. DOMAIN live = {q + HeaderSize : q \in UsedIn(mem, Blocks)}
  BY DEF HeapInv, LiveBlocks, UsedIn
<1>6. \A q \in UsedIn(mem, Blocks) : q \in Nat /\ mem[q].size \in Nat
  <2>1. UsedIn(mem, Blocks) \subseteq Blocks  BY DEF UsedIn
  <2> QED BY <1>1, <2>1, BlockFacts
<1>7. \A q \in UsedIn(mem', Blocks') : q \in Nat /\ mem'[q].size \in Nat
  <2>1. UsedIn(mem', Blocks') \subseteq Blocks'  BY DEF UsedIn
  <2> QED BY <1>3, <2>1, BlockFacts
<1>8. DOMAIN live' = {q + HeaderSize : q \in UsedIn(mem', Blocks')}
  <2>1. \A q \in UsedIn(mem, Blocks) : q + HeaderSize = p => q = b
    <3> SUFFICES ASSUME NEW q \in UsedIn(mem, Blocks), q + HeaderSize = p PROVE q = b
      OBVIOUS
    <3>1. q \in Nat /\ q + HeaderSize = b + HeaderSize /\ HeaderSize \in Nat
      BY <1>2, <1>6, HeapAssumption
    <3> QED BY <3>1
  <2> QED BY <1>2, <1>3, <1>4, <1>5, <2>1
<1>9. ASSUME NEW x \in DOMAIN live', live'[x] <= Word - 4
      PROVE  mem'[x - HeaderSize].size >= live'[x]
  <2>1. x \in DOMAIN live /\ x # p /\ live'[x] = live[x]  BY <1>4
  <2>2. PICK q \in Nat : q = x - HeaderSize /\ q \in UsedIn(mem, Blocks) /\ x = q + HeaderSize
    BY <2>1, Pointers
  <2>3. q \in UsedIn(mem', Blocks')  BY <1>2, <1>3, <2>1, <2>2
  <2>4. mem[q].size >= live[x]
    <3>1. live[x] <= Word - 4  BY <1>9, <2>1
    <3> QED BY <2>1, <2>2, <3>1 DEF HeapInv, LiveBlocks
  <2>5. mem'[q].size = mem[q].size
    <3>1. q + HeaderSize + mem'[q].size = q + HeaderSize + mem[q].size
      BY <1>3, <2>3 DEF EndIn
    <3> QED BY <1>6, <1>7, <2>2, <2>3, <3>1, HeapAssumption
  <2> QED BY <2>1, <2>2, <2>4, <2>5
<1>10. LiveBlocks'  BY <1>8, <1>9 DEF LiveBlocks, UsedIn
<1>11. HeapTypeOK'
  BY <1>3, <1>4 DEF HeapInv, HeapTypeOK
<1> QED BY <1>3, <1>10, <1>11 DEF HeapInv

LEMMA HeapSame ==
  ASSUME HeapInv, mem' = mem, live' = live, asked' = asked, granted' = granted
  PROVE  HeapInv'
<1>1. mem \in [Addr -> Header] /\ Chain(mem, Blocks)  BY DEF HeapInv, HeapTypeOK
<1>2. Blocks' = Blocks  BY <1>1, BlocksAre
<1>3. Chain(mem', Blocks')  BY <1>1, <1>2
<1>4. HeapTypeOK'  BY DEF HeapInv, HeapTypeOK
<1>5. Coalesced' /\ LiveBlocks'
  <2>1. Coalesced /\ LiveBlocks  BY DEF HeapInv
  <2> QED BY <1>2, <2>1 DEF Coalesced, LiveBlocks
<1> QED BY <1>3, <1>4, <1>5 DEF HeapInv

LEMMA RequestInv == HeapInv /\ Request => HeapInv'
<1> SUFFICES ASSUME HeapInv, NEW req \in Requests, kmalloc(req), asked' = req,
                    live' = [p \in DOMAIN live \cup ({granted'} \ {NULL}) |->
                               IF p = granted' THEN req ELSE live[p]]
             PROVE  HeapInv'
  BY DEF Request
<1>1. CASE \E b \in Blocks : /\ Fits(b, Aligned(req)) /\ granted' = b + HeaderSize
                             /\ Grown(b, Aligned(req))
  BY <1>1, GrantInv
<1>2. CASE granted' = NULL /\ mem' = mem
  <2>1. NULL \notin DOMAIN live  BY Pointers
  <2>2. live' = [p \in DOMAIN live \cup ({granted'} \ {NULL}) |-> live[p]]
    BY <1>2, <2>1
  <2> QED BY <1>2, <2>2, RefuseInv
<1> QED BY <1>1, <1>2, KmallocIs

LEMMA FreeNull ==
  ASSUME HeapInv, kfree(NULL), live' = Restricted(live, DOMAIN live \ {NULL})
  PROVE  mem' = mem /\ DOMAIN live' = DOMAIN live /\ \A p \in DOMAIN live : live'[p] = live[p]
<1>1. mem' = mem  BY DEF kfree
<1>2. NULL \notin DOMAIN live  BY Pointers
<1> QED BY <1>1, <1>2 DEF Restricted

LEMMA HeapStepInv == HeapInv /\ [HeapNext]_heapVars => HeapInv'
<1> SUFFICES ASSUME HeapInv, [HeapNext]_heapVars PROVE HeapInv'  OBVIOUS
<1>1. CASE Request  BY <1>1, RequestInv
<1>2. CASE Release
  <2>1. PICK p \in DOMAIN live \cup {NULL} :
               /\ kfree(p) /\ live' = Restricted(live, DOMAIN live \ {p})
               /\ asked' = asked /\ granted' = granted
    BY <1>2 DEF Release
  <2>2. CASE p \in DOMAIN live  BY <2>1, <2>2, ReleaseInv
  <2>3. CASE p \notin DOMAIN live
    <3>1. p = NULL  BY <2>1, <2>3
    <3>2. mem' = mem /\ DOMAIN live' = DOMAIN live /\ \A x \in DOMAIN live : live'[x] = live[x]
      BY <2>1, <3>1, FreeNull
    <3>3. mem \in [Addr -> Header] /\ Chain(mem, Blocks)  BY DEF HeapInv, HeapTypeOK
    <3>4. Blocks' = Blocks  BY <3>2, <3>3, BlocksAre
    <3>5. Chain(mem', Blocks')  BY <3>2, <3>3, <3>4
    <3>6. HeapTypeOK'  BY <2>1, <3>2 DEF HeapInv, HeapTypeOK
    <3>7. Coalesced'  BY <3>2, <3>4 DEF HeapInv, Coalesced
    <3>8. LiveBlocks'
      <4>1. LiveBlocks  BY DEF HeapInv
      <4> QED BY <3>2, <3>4, <4>1 DEF LiveBlocks
    <3> QED BY <3>5, <3>6, <3>7, <3>8 DEF HeapInv
  <2> QED BY <2>2, <2>3
<1>3. CASE UNCHANGED heapVars  BY <1>3, HeapSame DEF heapVars
<1> QED BY <1>1, <1>2, <1>3 DEF HeapNext

\* The inductive invariant of kmalloc.c: the blocks are a list that tiles the
\* heap, free ones are no neighbours, used ones are what the clients hold.
THEOREM HeapInvHolds == HeapSpec => []HeapInv
<1>1. HeapInit => HeapInv  BY HeapInitInv
<1>2. HeapInv /\ [HeapNext]_heapVars => HeapInv'  BY HeapStepInv
<1> QED BY <1>1, <1>2, PTL DEF HeapSpec

LEMMA TilingHolds ==
  ASSUME mem \in [Addr -> Header], Chain(mem, Blocks)
  PROVE  Tiling
<1>1. mem[heap_start].prev = NULL  BY DEF Chain
<1>2. ASSUME NEW b \in Blocks
      PROVE  /\ mem[b].magic
             /\ mem[b].next # NULL => mem[b].next = End(b) /\ mem[mem[b].next].prev = b
             /\ mem[b].next = NULL => End(b) = heap_end
  <2>1. Linked(mem, Blocks, b) /\ EndIn(mem, b) = End(b)  BY DEF Chain, EndIn, End
  <2> QED BY <2>1 DEF Linked
<1> QED BY <1>1, <1>2 DEF Tiling

\* After every call of kmalloc and kfree the list tiles the heap and no two
\* free blocks are neighbours (kmalloc.c:93-107).
THEOREM WellFormedHolds == HeapSpec => []WellFormed
<1>1. HeapInv => WellFormed
  BY TilingHolds DEF HeapInv, HeapTypeOK, WellFormed
<1> QED BY <1>1, HeapInvHolds, PTL

\* The used blocks are what the clients hold, and as large as they asked for.
THEOREM LiveBlocksHolds == HeapSpec => []LiveBlocks
<1>1. HeapInv => LiveBlocks  BY DEF HeapInv
<1> QED BY <1>1, HeapInvHolds, PTL

-----------------------------------------------------------------------------
(* Payloads                                                                  *)

\* The header of a block, or of one inside a free block, lies outside what a
\* client holds.
LEMMA OutsidePayload ==
  ASSUME mem \in [Addr -> Header], Chain(mem, Blocks),
         NEW q \in UsedIn(mem, Blocks), NEW a \in Addr,
         \/ a \in Blocks
         \/ \E b \in Blocks : ~mem[b].used /\ b < a /\ a + HeaderSize <= EndIn(mem, b)
  PROVE  (a..a+HeaderSize-1) \cap Payload(mem, q) = {}
<1>1. q \in Blocks /\ q \in Nat /\ mem[q].used  BY BlockFacts DEF UsedIn
<1>2. PICK z \in Nat : z = mem[q].size /\ EndIn(mem, q) = q + HeaderSize + z
  BY <1>1, BlockFacts
<1>3. Payload(mem, q) = q + HeaderSize .. q + HeaderSize + z - 1  BY <1>2 DEF Payload
<1>4. a \in Nat  BY AddrNat
<1>5. a + HeaderSize <= q + HeaderSize \/ q + HeaderSize + z <= a
  <2>1. CASE a \in Blocks
    <3>1. CASE a <= q  BY <1>1, <1>4, <3>1, HeapAssumption
    <3>2. CASE q < a
      <4>1. EndIn(mem, q) <= a  BY <1>1, <2>1, <3>2 DEF Chain
      <4> QED BY <1>2, <4>1
    <3> QED BY <1>1, <1>4, <3>1, <3>2
  <2>2. CASE \E b \in Blocks : ~mem[b].used /\ b < a /\ a + HeaderSize <= EndIn(mem, b)
    <3>1. PICK b \in Blocks : ~mem[b].used /\ b < a /\ a + HeaderSize <= EndIn(mem, b)
      BY <2>2
    <3>2. b # q /\ b \in Nat /\ EndIn(mem, b) \in Nat  BY <1>1, <3>1, BlockFacts
    <3>3. CASE q < b
      <4>1. EndIn(mem, q) <= b  BY <1>1, <3>3 DEF Chain
      <4> QED BY <1>1, <1>2, <1>4, <3>1, <3>2, <4>1, HeapAssumption
    <3>4. CASE b < q
      <4>1. EndIn(mem, b) <= q  BY <1>1, <3>4 DEF Chain
      <4> QED BY <1>1, <1>4, <3>1, <3>2, <4>1, HeapAssumption
    <3> QED BY <1>1, <3>2, <3>3, <3>4
  <2> QED BY <2>1, <2>2
<1> SUFFICES ASSUME NEW x \in a..a+HeaderSize-1, x \in q + HeaderSize .. q + HeaderSize + z - 1
             PROVE  FALSE
  BY <1>3
<1> QED BY <1>1, <1>2, <1>4, <1>5, HeapAssumption

LEMMA StepOutside ==
  ASSUME HeapInv, HeapNext, NEW a \in Addr, mem'[a] # mem[a]
  PROVE  \/ a \in Blocks
         \/ \E b \in Blocks : ~mem[b].used /\ b < a /\ a + HeaderSize <= EndIn(mem, b)
<1>1. CASE Request
  <2>1. PICK req \in Requests : kmalloc(req)  BY <1>1 DEF Request
  <2>2. PICK b \in Blocks : Fits(b, Aligned(req)) /\ Grown(b, Aligned(req))
    BY <2>1, KmallocIs
  <2> QED BY <2>2 DEF Fits, Grown
<1>2. CASE Release
  <2>1. PICK p \in DOMAIN live \cup {NULL} :
               kfree(p) /\ live' = Restricted(live, DOMAIN live \ {p})
    BY <1>2 DEF Release
  <2>2. p \in DOMAIN live
    <3> SUFFICES ASSUME p \notin DOMAIN live PROVE FALSE  OBVIOUS
    <3>1. p = NULL  BY <2>1
    <3> QED BY <2>1, <3>1 DEF kfree
  <2>3. Returned(p - HeaderSize)  BY <2>1, <2>2, KfreeIs
  <2> QED BY <2>3 DEF Returned
<1> QED BY <1>1, <1>2 DEF HeapNext

\* The allocator writes no header into memory that it has granted and that is
\* not given back.
THEOREM PayloadUntouchedHolds == HeapSpec => PayloadUntouched
<1>1. HeapInv /\ [HeapNext]_heapVars =>
        [\A a \in Addr : mem'[a] # mem[a] =>
           \A p \in DOMAIN live \cap DOMAIN live' :
             (a..a+HeaderSize-1) \cap Payload(mem, p - HeaderSize) = {}]_heapVars
  <2> SUFFICES ASSUME HeapInv, HeapNext, NEW a \in Addr, mem'[a] # mem[a],
                      NEW p \in DOMAIN live
               PROVE  (a..a+HeaderSize-1) \cap Payload(mem, p - HeaderSize) = {}
    OBVIOUS
  <2>1. p - HeaderSize \in UsedIn(mem, Blocks)  BY Pointers
  <2>2. \/ a \in Blocks
        \/ \E b \in Blocks : ~mem[b].used /\ b < a /\ a + HeaderSize <= EndIn(mem, b)
    BY StepOutside
  <2>3. mem \in [Addr -> Header] /\ Chain(mem, Blocks)  BY DEF HeapInv, HeapTypeOK
  <2> QED BY <2>1, <2>2, <2>3, OutsidePayload
<1> QED BY <1>1, HeapInvHolds, PTL DEF HeapSpec, PayloadUntouched

-----------------------------------------------------------------------------
(* Refinement: kmalloc.c implements the abstract heap                        *)

Extent(m, b) == [from |-> b, to |-> EndIn(m, b)]

Extents(m, B) == {Extent(m, b) : b \in UsedIn(m, B)}

Answer(g) == IF g = NULL THEN NULL ELSE g - HeaderSize

\* The state functions of the refinement mapping.
LEMMA Mapping ==
  /\ {[from |-> b, to |-> End(b)] : b \in Used} = Extents(mem, Blocks)
  /\ {[from |-> b, to |-> End(b)] : b \in Used}' = Extents(mem', Blocks')
  /\ (IF granted = NULL THEN NULL ELSE granted - HeaderSize) = Answer(granted)
  /\ (IF granted = NULL THEN NULL ELSE granted - HeaderSize)' = Answer(granted')
BY DEF Extents, Extent, End, EndIn, Used, UsedIn, Answer

\* Every address of the heap lies in a block.
LEMMA Cover ==
  ASSUME mem \in [Addr -> Header], Chain(mem, Blocks), NEW a \in heap_start..heap_end-1
  PROVE  \E b \in Blocks : b <= a /\ a < EndIn(mem, b)
<1> DEFINE Before == {b \in Blocks : b <= a}
           Gaps == {a - b : b \in Before}
<1>1. \A b \in Blocks : b \in Nat  BY BlockFacts
<1>2. a \in Nat  BY HeapAssumption
<1>3. heap_start \in Before  BY HeapAssumption DEF Chain
<1>4. PICK b \in Before : \A x \in Before : a - b <= a - x
  <2>1. Gaps \in SUBSET Nat /\ Gaps # {}  BY <1>1, <1>2, <1>3
  <2>2. Min(Gaps) \in Gaps /\ \A y \in Gaps : Min(Gaps) <= y
    <3> HIDE DEF Gaps
    <3> QED BY <2>1, MinIn
  <2> QED BY <2>2
<1>5. b \in Nat /\ b <= a /\ b \in Blocks /\ EndIn(mem, b) \in Nat /\ b + HeaderSize <= EndIn(mem, b)
  BY BlockFacts
<1>6. a < EndIn(mem, b)
  <2> SUFFICES ASSUME EndIn(mem, b) <= a PROVE FALSE  BY <1>2, <1>5
  <2>1. EndIn(mem, b) # heap_end  BY <1>5, HeapAssumption
  <2>2. PICK n \in Blocks : n = EndIn(mem, b)
    BY <1>5, <2>1 DEF Chain, Linked
  <2>3. n \in Before /\ n \in Nat  BY <1>5, <2>2
  <2>4. a - b <= a - n  BY <1>4, <2>3
  <2> QED BY <1>2, <1>5, <2>2, <2>3, <2>4, HeapAssumption
<1> QED BY <1>5, <1>6

\* Where no block fits, no hole of the arena is long enough: free memory that
\* belongs together is one block.
LEMMA NoRoom ==
  ASSUME mem \in [Addr -> Header], Chain(mem, Blocks), Coalesced,
         NEW size \in Nat, \A b \in Blocks : ~Fits(b, size),
         NEW a \in heap_start..heap_end - (HeaderSize + size)
  PROVE  \E x \in Extents(mem, Blocks) : a + (HeaderSize + size) > x.from /\ x.to > a
<1>1. PICK e \in Nat : e = a + (HeaderSize + size) /\ a \in Nat /\ a + HeaderSize <= e /\ e <= heap_end
  BY HeapAssumption
<1>2. a \in heap_start..heap_end-1  BY <1>1, HeapAssumption
<1>3. PICK b \in Blocks : b <= a /\ a < EndIn(mem, b)  BY <1>2, Cover
<1>4. PICK z \in Nat : z = mem[b].size /\ EndIn(mem, b) = b + HeaderSize + z /\ b \in Nat
  BY BlockFacts
<1>5. CASE mem[b].used
  <2>1. Extent(mem, b) \in Extents(mem, Blocks)  BY <1>5 DEF Extents, UsedIn
  <2>2. Extent(mem, b).from = b /\ Extent(mem, b).to = EndIn(mem, b)  BY DEF Extent
  <2>3. e > b  BY <1>1, <1>3, <1>4, HeapAssumption
  <2> QED BY <1>1, <1>3, <1>4, <2>1, <2>2, <2>3
<1>6. CASE ~mem[b].used
  <2>1. z < size
    <3>1. ~(z >= size)  BY <1>4, <1>6 DEF Fits
    <3> QED BY <3>1
  <2>2. EndIn(mem, b) < e  BY <1>1, <1>3, <1>4, <2>1, HeapAssumption
  <2>3. EndIn(mem, b) # heap_end  BY <1>1, <1>4, <2>2, HeapAssumption
  <2>4. mem[b].next # NULL /\ mem[b].next \in Blocks /\ mem[b].next = EndIn(mem, b)
    BY <2>3 DEF Chain, Linked
  <2>5. PICK n \in Blocks : n = mem[b].next /\ n = EndIn(mem, b) /\ mem[n].used
    BY <1>6, <2>4 DEF Coalesced
  <2>6. Extent(mem, n) \in Extents(mem, Blocks)  BY <2>5 DEF Extents, UsedIn
  <2>7. Extent(mem, n).from = n /\ Extent(mem, n).to = EndIn(mem, n)  BY DEF Extent
  <2>8. n \in Nat /\ EndIn(mem, n) \in Nat /\ n + HeaderSize <= EndIn(mem, n)  BY BlockFacts
  <2>9. EndIn(mem, n) > a  BY <1>1, <1>3, <2>5, <2>8, HeapAssumption
  <2> QED BY <1>1, <2>2, <2>5, <2>6, <2>7, <2>9
<1> QED BY <1>5, <1>6

LEMMA RefinesInit == HeapInit => HA!Init
<1> SUFFICES ASSUME HeapInit PROVE HA!Init  OBVIOUS
<1>1. UsedIn(mem, Blocks) = {}
  <2>1. LiveBlocks /\ DOMAIN live = {}  BY HeapInitInv DEF HeapInit, HeapInv
  <2> QED BY <2>1 DEF LiveBlocks, UsedIn
<1>2. Extents(mem, Blocks) = {}  BY <1>1 DEF Extents
<1>3. asked = 0 /\ Answer(granted) = NULL  BY DEF HeapInit, Answer
<1> QED BY <1>2, <1>3, Mapping DEF HA!Init

LEMMA RefinesGrant ==
  ASSUME HeapInv, NEW req \in Requests, NEW b \in Blocks, Fits(b, Aligned(req)),
         asked' = req, granted' = b + HeaderSize, Grown(b, Aligned(req))
  PROVE  HA!Grant(req)
<1>1. mem \in [Addr -> Header] /\ Chain(mem, Blocks)  BY DEF HeapInv, HeapTypeOK
<1>2. PICK size \in Nat : size = Aligned(req)  BY AlignedIs
<1>3. PICK x : x = Extent(mem', b)  OBVIOUS
<1>4. /\ UsedIn(mem', Blocks') = UsedIn(mem, Blocks) \cup {b}
      /\ \A q \in UsedIn(mem, Blocks) : EndIn(mem', q) = EndIn(mem, q)
      /\ b + HeaderSize + size <= EndIn(mem', b) /\ EndIn(mem', b) <= EndIn(mem, b)
      /\ EndIn(mem', b) < b + HeaderSize + size + HeaderSize + MinPayload
      /\ mem' \in [Addr -> Header] /\ Chain(mem', Blocks')
  BY <1>2 DEF Grown
<1>5. PICK f \in Nat, t \in Nat : f = x.from /\ t = x.to /\ f = b /\ t = EndIn(mem', b)
  <2>1. b \in UsedIn(mem', Blocks')  BY <1>4
  <2>2. b \in Blocks'  BY <2>1 DEF UsedIn
  <2>3. EndIn(mem', b) \in Nat /\ b \in Nat  BY <1>4, <2>2, BlockFacts
  <2> QED BY <1>3, <2>3 DEF Extent
<1>6. \A q \in UsedIn(mem, Blocks) : Extent(mem', q) = Extent(mem, q)
  BY <1>4 DEF Extent
<1>7. Extents(mem', Blocks') = Extents(mem, Blocks) \cup {x}
  <2>1. Extents(mem', Blocks') = {Extent(mem', q) : q \in UsedIn(mem, Blocks)} \cup {x}
    BY <1>3, <1>4 DEF Extents
  <2> QED BY <1>6, <2>1 DEF Extents
<1>8. b \notin UsedIn(mem, Blocks)  BY DEF Fits, UsedIn
<1>9. x \notin Extents(mem, Blocks)
  <2> SUFFICES ASSUME NEW q \in UsedIn(mem, Blocks), x = Extent(mem, q) PROVE FALSE
    BY DEF Extents
  <2>1. x.from = q  BY DEF Extent
  <2> QED BY <1>5, <1>8, <2>1
<1>10. /\ heap_start <= x.from /\ x.from <= x.to /\ x.to <= heap_end
       /\ \A y \in Extents(mem, Blocks) : x.to <= y.from \/ y.to <= x.from
  <2>1. heap_start <= b /\ b \in Nat /\ EndIn(mem, b) \in Nat /\ EndIn(mem, b) <= heap_end
    BY <1>1, BlockFacts
  <2>2. heap_start <= f /\ f <= t /\ t <= heap_end
    BY <1>2, <1>4, <1>5, <2>1, HeapAssumption
  <2>3. ASSUME NEW y \in Extents(mem, Blocks) PROVE x.to <= y.from \/ y.to <= x.from
    <3>1. PICK q \in UsedIn(mem, Blocks) : y = Extent(mem, q)  BY DEF Extents
    <3>2. y.from = q /\ y.to = EndIn(mem, q) /\ q \in Blocks /\ q # b
      BY <1>8, <3>1 DEF Extent, UsedIn
    <3>3. q \in Nat  BY <1>1, <3>2, BlockFacts
    <3>4. CASE q < b
      <4>1. EndIn(mem, q) <= b  BY <1>1, <3>2, <3>4 DEF Chain
      <4> QED BY <1>5, <3>2, <4>1
    <3>5. CASE b < q
      <4>1. EndIn(mem, b) <= q  BY <1>1, <3>2, <3>5 DEF Chain
      <4> QED BY <1>4, <1>5, <2>1, <3>2, <3>3, <4>1
    <3> QED BY <2>1, <3>2, <3>3, <3>4, <3>5
  <2> QED BY <1>5, <2>2, <2>3
<1>11. ASSUME req <= Word - 4
       PROVE  HeaderSize + req <= x.to - x.from
              /\ x.to - x.from < HeaderSize + req + (HeaderSize + MinPayload)
  <2>1. req \in Nat /\ req <= size /\ size <= req + 3 /\ size % 4 = 0
    BY <1>2, <1>11, AlignedIs, HeapAssumption
  <2>2. f % 4 = 0 /\ t % 4 = 0
    <3>1. b \in Blocks'  BY <1>4 DEF UsedIn
    <3> QED BY <1>4, <1>5, <3>1, BlockFacts
  <2>3. PICK h \in Nat, k \in Nat : h = HeaderSize /\ k = HeaderSize + MinPayload
                                    /\ h % 4 = 0 /\ k % 4 = 0
    BY HeapAssumption, Fours
  <2>4. f + h + size <= t /\ t < f + h + size + k
    BY <1>4, <1>5, <2>3, HeapAssumption
  <2>5. t <= f + h + size + k - 4  BY <2>1, <2>2, <2>3, <2>4
  <2>6. h + req <= t - f /\ t - f < h + req + k  BY <2>1, <2>3, <2>4, <2>5
  <2> QED BY <1>5, <2>3, <2>6
<1>12. Answer(granted') = x.from
  <2>1. b + HeaderSize # NULL /\ (b + HeaderSize) - HeaderSize = b
    BY <1>5, HeapAssumption DEF NULL
  <2> QED BY <1>5, <2>1 DEF Answer
<1>13. x \in Extents(mem', Blocks') \ Extents(mem, Blocks)  BY <1>7, <1>9
<1> QED BY <1>7, <1>10, <1>11, <1>12, <1>13, Mapping DEF HA!Grant, HA!Hole

LEMMA RefinesRefuse ==
  ASSUME HeapInv, NEW req \in Requests, asked' = req, granted' = NULL, mem' = mem,
         \A b \in Blocks : ~Fits(b, Aligned(req))
  PROVE  HA!Refuse(req)
<1>1. mem \in [Addr -> Header] /\ Chain(mem, Blocks) /\ Coalesced
  BY DEF HeapInv, HeapTypeOK
<1>2. req \in Nat  BY HeapAssumption
<1>3. ASSUME req <= Word - 4, NEW b \in Blocks
      PROVE  ~Fits(b, req)
  <2>1. PICK size \in Nat : size = Aligned(req) /\ size % 4 = 0 /\ size <= req + 3
    BY <1>3, AlignedIs
  <2>2. PICK z \in Nat : z = mem[b].size /\ z % 4 = 0
    <3>1. PICK z \in Nat, e \in Nat : z = mem[b].size /\ e = EndIn(mem, b)
      BY <1>1, <1>3, BlockFacts
    <3>2. b \in Nat /\ b % 4 = 0 /\ e % 4 = 0 /\ e = b + HeaderSize + z
      BY <1>1, <1>3, <3>1, BlockFacts
    <3>3. PICK p \in Int : p = b + HeaderSize /\ p % 4 = 0  BY <3>2, Fours, HeapAssumption
    <3>4. e \in Int  BY <3>1
    <3>5. (e - p) % 4 = 0  BY <3>2, <3>3, <3>4, Fours
    <3>6. e - p = z  BY <3>1, <3>2, <3>3
    <3> QED BY <3>1, <3>5, <3>6
  <2>3. ~Fits(b, size)  BY <1>3, <2>1
  <2>4. z >= req => z >= size  BY <1>2, <2>1, <2>2
  <2> QED BY <2>2, <2>3, <2>4 DEF Fits
<1>4. ASSUME req <= Word - 4, NEW a \in heap_start..heap_end - (HeaderSize + req)
      PROVE  \E y \in Extents(mem, Blocks) : ~(a + (HeaderSize + req) <= y.from \/ y.to <= a)
  <2>1. PICK y \in Extents(mem, Blocks) : a + (HeaderSize + req) > y.from /\ y.to > a
    BY <1>1, <1>2, <1>3, <1>4, NoRoom
  <2>2. y.from \in Nat /\ y.to \in Nat /\ a \in Int
    <3>1. PICK q \in UsedIn(mem, Blocks) : y = Extent(mem, q)  BY DEF Extents
    <3>2. q \in Nat /\ EndIn(mem, q) \in Nat  BY <1>1, BlockFacts DEF UsedIn
    <3> QED BY <1>2, <3>1, <3>2, HeapAssumption DEF Extent
  <2>3. a + (HeaderSize + req) \in Int  BY <1>2, <2>2, HeapAssumption
  <2> QED BY <2>1, <2>2, <2>3
<1>5. Blocks' = Blocks /\ Extents(mem', Blocks') = Extents(mem, Blocks)
  <2>1. Blocks' = Blocks  BY <1>1, BlocksAre
  <2> QED BY <2>1
<1>6. Answer(granted') = NULL  BY DEF Answer
<1> QED BY <1>4, <1>5, <1>6, Mapping DEF HA!Refuse, HA!Hole

LEMMA RefinesRelease ==
  ASSUME HeapInv, NEW p \in DOMAIN live, kfree(p), asked' = asked, granted' = granted
  PROVE  HA!Release
<1>1. mem \in [Addr -> Header] /\ Chain(mem, Blocks)  BY DEF HeapInv, HeapTypeOK
<1>2. PICK b \in UsedIn(mem, Blocks) : b = p - HeaderSize  BY Pointers
<1>3. /\ UsedIn(mem', Blocks') = UsedIn(mem, Blocks) \ {b}
      /\ \A q \in UsedIn(mem', Blocks') : EndIn(mem', q) = EndIn(mem, q)
  BY <1>2, KfreeIs DEF Returned
<1>4. Extents(mem', Blocks') = Extents(mem, Blocks) \ {Extent(mem, b)}
  <2>1. \A q \in UsedIn(mem', Blocks') : Extent(mem', q) = Extent(mem, q)
    BY <1>3 DEF Extent
  <2>2. \A q \in UsedIn(mem, Blocks) : Extent(mem, q) = Extent(mem, b) => q = b
    BY DEF Extent
  <2> QED BY <1>3, <2>1, <2>2 DEF Extents
<1>5. Extent(mem, b) \in Extents(mem, Blocks)  BY DEF Extents
<1>6. Answer(granted') = Answer(granted)  OBVIOUS
<1> QED BY <1>4, <1>5, <1>6, Mapping DEF HA!Release

LEMMA RefinesStep == HeapInv /\ [HeapNext]_heapVars => [HA!Next]_(HA!vars)
<1> SUFFICES ASSUME HeapInv, [HeapNext]_heapVars PROVE [HA!Next]_(HA!vars)  OBVIOUS
<1> DEFINE Idle == /\ Extents(mem', Blocks') = Extents(mem, Blocks)
                   /\ asked' = asked /\ Answer(granted') = Answer(granted)
<1>1. Idle => UNCHANGED HA!vars  BY Mapping DEF HA!vars
<1>2. mem' = mem /\ asked' = asked /\ granted' = granted => Idle
  <2> SUFFICES ASSUME mem' = mem, asked' = asked, granted' = granted PROVE Idle  OBVIOUS
  <2>1. mem \in [Addr -> Header] /\ Chain(mem, Blocks)  BY DEF HeapInv, HeapTypeOK
  <2>2. Blocks' = Blocks  BY <2>1, BlocksAre
  <2> QED BY <2>2
<1> HIDE DEF Idle
<1>3. CASE Request
  <2>1. PICK req \in Requests : kmalloc(req) /\ asked' = req  BY <1>3 DEF Request
  <2>2. CASE granted' = NULL /\ mem' = mem /\ \A b \in Blocks : ~Fits(b, Aligned(req))
    BY <2>1, <2>2, RefinesRefuse DEF HA!Next
  <2>3. CASE \E b \in Blocks : /\ Fits(b, Aligned(req)) /\ granted' = b + HeaderSize
                               /\ Grown(b, Aligned(req))
    BY <2>1, <2>3, RefinesGrant DEF HA!Next
  <2> QED BY <2>1, <2>2, <2>3, KmallocIs
<1>4. CASE Release
  <2>1. PICK p \in DOMAIN live \cup {NULL} :
               /\ kfree(p) /\ live' = Restricted(live, DOMAIN live \ {p})
               /\ asked' = asked /\ granted' = granted
    BY <1>4 DEF Release
  <2>2. CASE p \in DOMAIN live  BY <2>1, <2>2, RefinesRelease DEF HA!Next
  <2>3. CASE p \notin DOMAIN live
    <3>1. mem' = mem  BY <2>1, <2>3, FreeNull
    <3> QED BY <1>1, <1>2, <2>1, <3>1
  <2> QED BY <2>2, <2>3
<1>5. CASE UNCHANGED heapVars  BY <1>1, <1>2, <1>5 DEF heapVars
<1> QED BY <1>3, <1>4, <1>5 DEF HeapNext

\* README.md:17 "a heap allocator": every call of kmalloc answers the size it
\* was asked for, with an extent of the heap that is nobody else's, long enough
\* and not much longer, or with 0, when no hole of the heap holds that size.
\* Only the sizes that wrap in kmalloc.c:37 are promised neither.
THEOREM HeapImplementsAllocator == HeapSpec => ImplementsHeap
<1>1. HeapInit => HA!Init  BY RefinesInit
<1>2. HeapInv /\ [HeapNext]_heapVars => [HA!Next]_(HA!vars)  BY RefinesStep
<1> QED BY <1>1, <1>2, HeapInvHolds, PTL DEF HeapSpec, ImplementsHeap, HA!Spec

=============================================================================
