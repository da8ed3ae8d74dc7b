---------------------------- MODULE Multitasking ----------------------------
(***************************************************************************)
(* What preemptive multitasking promises the processes of the kernel: each *)
(* has a private continuation, the handlers it has entered and not left,   *)
(* and a switch changes nothing but whose continuation the CPU follows.    *)
(***************************************************************************)
EXTENDS Sequences, SequencesExt

CONSTANT Processes

VARIABLES running, cont

Kinds == {"tick", "kbd", "sys", "tramp"}

Init == /\ running \in Processes
        /\ cont = [p \in Processes |-> IF p = running THEN <<>> ELSE <<"tramp">>]

\* An interrupt or a system call: the running process enters a handler.
Enter == \E k \in Kinds \ {"tramp"} :
           /\ cont' = [cont EXCEPT ![running] = Append(@, k)]
           /\ UNCHANGED running

\* The running process leaves its innermost handler.
Leave == /\ cont[running] # <<>>
         /\ cont' = [cont EXCEPT ![running] = Front(@)]
         /\ UNCHANGED running

\* The timer handler of the running process hands the CPU to a process that
\* waits in its own timer handler or has not run yet.
Dispatch == /\ cont[running] # <<>> /\ Last(cont[running]) = "tick"
            /\ running' \in Processes \ {running}
            /\ cont[running'] # <<>> /\ Last(cont[running']) \in {"tick", "tramp"}
            /\ UNCHANGED cont

Next == Enter \/ Leave \/ Dispatch

Spec == Init /\ [][Next]_<<running, cont>>
=============================================================================
