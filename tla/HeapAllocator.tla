---------------------------- MODULE HeapAllocator ----------------------------
(***************************************************************************)
(* What a heap promises: a granted block is an extent of its own inside    *)
(* the arena, at least Over longer than was asked for and less than Waste  *)
(* longer than that, and a request is refused only when no hole of the     *)
(* arena would hold it.  Of a request above Most neither is promised.      *)
(***************************************************************************)
EXTENDS Integers

CONSTANTS Low, High,  \* the arena: addresses Low..High-1
          Lengths,    \* lengths that can be asked for
          Over, Waste,
          Most,
          NoBlock     \* answer to a request that is refused

VARIABLES extents,    \* granted blocks
          asked,      \* length last asked for
          answer      \* and the answer: the start of the block

vars == <<extents, asked, answer>>

\* The extent x (x.to is past its end) lies in the arena, apart from everything granted.
Hole(x) == /\ Low <= x.from /\ x.from <= x.to /\ x.to <= High
           /\ \A y \in extents : x.to <= y.from \/ y.to <= x.from

Init == extents = {} /\ asked = 0 /\ answer = NoBlock

Grant(n) == /\ asked' = n
            /\ \E x \in extents' \ extents :
                 /\ extents' = extents \cup {x}
                 /\ Hole(x)
                 /\ answer' = x.from
                 /\ n <= Most => /\ Over + n <= x.to - x.from
                                 /\ x.to - x.from < Over + n + Waste

Refuse(n) == /\ asked' = n
             /\ answer' = NoBlock
             /\ n <= Most =>
                  \A a \in Low..High - (Over + n) : ~Hole([from |-> a, to |-> a + (Over + n)])
             /\ UNCHANGED extents

Release == /\ \E x \in extents : extents' = extents \ {x}
           /\ UNCHANGED <<asked, answer>>

Next == (\E n \in Lengths : Grant(n) \/ Refuse(n)) \/ Release

Spec == Init /\ [][Next]_vars
=============================================================================
