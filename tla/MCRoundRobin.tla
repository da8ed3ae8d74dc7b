---------------------------- MODULE MCRoundRobin ----------------------------
(* Scheduler with a history variable that counts, for every process, the    *)
(* dispatches of other processes since it last left the CPU.                *)
EXTENDS Scheduler

VARIABLE bypass

Cap == NProc + 1        \* bound of the counter: past it nothing new is learnt

RRInit == Init /\ bypass = [p \in Created |-> 0]

RRNext ==
  /\ Next
  /\ bypass' = [p \in Created |->
                  IF prog' = prog THEN bypass[p]
                  ELSE IF prog' = p THEN 0
                  ELSE IF bypass[p] < Cap THEN bypass[p] + 1 ELSE Cap]

\* Fairness as in Scheduler: the counter takes no step of its own.
RRFairSpec == RRInit /\ [][RRNext]_<<vars, bypass>> /\ Fairness

\* README.md:19 "Round-robin scheduler": between two turns of a process every
\* other process gets at most one, so a process waits for at most NProc - 1
\* dispatches (scheduler_next, scheduler.c:15-38, used by scheduler_tick).
RoundRobin == \A p \in Created : bypass[p] <= NProc - 1
=============================================================================
