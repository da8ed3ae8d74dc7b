----------------------------- MODULE MCAllocators -----------------------------
(***************************************************************************)
(* The frame allocator and the heap in one run.  kmalloc takes its memory  *)
(* once, from kernel_main, and neither calls the other: a behaviour        *)
(* exercises one of them and leaves the other at its beginning.            *)
(***************************************************************************)
EXTENDS Pmm, Heap

VARIABLE part

AllocatorsInit == part \in {"frames", "heap"} /\ Init /\ HeapInit

FrameCalls == part = "frames" /\ Next /\ UNCHANGED <<part, heapVars>>
HeapCalls  == part = "heap" /\ HeapNext /\ UNCHANGED <<part, vars>>

AllocatorsSpec ==
  AllocatorsInit /\ [][FrameCalls \/ HeapCalls]_<<part, vars, heapVars>>
=============================================================================
