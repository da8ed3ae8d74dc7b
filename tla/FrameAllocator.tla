---------------------------- MODULE FrameAllocator ----------------------------
(***************************************************************************)
(* What a physical memory manager promises: a frame has one holder at most, *)
(* a frame withdrawn from circulation is never handed out, and a request   *)
(* fails only when nothing is available.                                   *)
(***************************************************************************)
CONSTANTS Frames,
          Failed    \* not a frame

VARIABLES avail,    \* frames the manager may hand out
          given,    \* frames its clients hold
          answer    \* answer to the last request: a frame or Failed

vars == <<avail, given, answer>>

Init == avail \subseteq Frames /\ given = {} /\ answer = Failed

Request ==
  \/ \E f \in avail : /\ avail' = avail \ {f}
                      /\ given' = given \cup {f}
                      /\ answer' = f
  \/ /\ avail = {}
     /\ answer' = Failed
     /\ UNCHANGED <<avail, given>>

\* A frame already available may be returned again to no effect.
GiveBack == /\ \E f \in given : given' = given \ {f} /\ avail' = avail \cup {f}
            /\ UNCHANGED answer

Withdraw == /\ \E f \in avail : avail' = avail \ {f}
            /\ UNCHANGED <<given, answer>>

Next == Request \/ GiveBack \/ Withdraw

Spec == Init /\ [][Next]_vars
=============================================================================
