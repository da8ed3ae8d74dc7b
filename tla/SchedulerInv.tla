----------------------------- MODULE SchedulerInv -----------------------------
(***************************************************************************)
(* The inductive invariant behind the safety properties of Scheduler, and  *)
(* the assumption they need.                                               *)
(***************************************************************************)
EXTENDS Scheduler

\* No timer interrupt arrives while scheduler_tick has already renamed the
\* current process and not yet switched the stack: nothing in the code
\* prevents it (the IDT holds trap gates), the 55 ms between ticks do.
ASSUME TicksSpaced == Window \subseteq Quiet

-----------------------------------------------------------------------------
AtWindow(f) == f.kind = "tick" /\ f.pc \in Window

\* The processes kernel_main has created when it is about to create process n.
Procs(n) == 0..n-1

\* f can be the activation at depth d of a stack of process p when scheduler_next
\* finds m processes; kernel_main lies at the bottom of one of the shell's.
LiveFrame(m, p, d, f) ==
  /\ f.prog = p
  /\ \/ /\ f.kind = "tick"
        /\ f.pc \in TickPc
        /\ f.pc \in TickPc \ {"eoi", "cur", "ret"} => f.cur = p
        /\ f.pc = "test" => f.next \in Procs(m) \cup {NULL}
        /\ f.pc \in {"run", "pid"} \cup Window => f.next \in Procs(m) \ {p}
     \/ f.kind = "kbd" /\ f.pc \in {"eoi", "body", "ret"}
     \/ f.kind = "sys" /\ f.pc \in {"body", "ret"}
     \/ /\ f.kind = "tramp" /\ d = 1 /\ f.pc \in {"get", "iret"}
        /\ f.pc = "iret" => f.cur = p
     \/ f.kind = "boot" /\ d = 1 /\ p = Shell

\* Slots 0..n-1 hold the processes 1..n; scheduler_next finds slots 0..m-1, of
\* which those from n on have no stack pointer yet; no other slot has the pid of
\* one of them.
TableInv(n, m) ==
  \A i \in Slots :
    /\ i \in Procs(m) => /\ process_table[i].pid = i + 1
                         /\ process_table[i].state \in {"READY", "RUNNING"}
    /\ i \in Procs(n) => /\ process_table[i].kernel_stack_top = i
                         /\ process_table[i].esp \in Esp
    /\ i \in Procs(m) \ Procs(n) => process_table[i].esp = NullEsp
    /\ i \notin Procs(m) => process_table[i].pid \in {0, i + 1}

\* The running process is on a stack of its own, in activations of its own;
\* above one that is between two descriptions there are keyboard handlers only.
RunningInv(n, m) ==
  /\ prog \in Procs(n)
  /\ dep > 0 => stk \in OwnStacks(prog)
  /\ \A d \in 1..dep : LiveFrame(m, prog, d, kstack[stk][d])
  /\ \A d, e \in 1..dep :
       d < e /\ AtWindow(kstack[stk][d]) => kstack[stk][e].kind = "kbd"

\* Outside the window the bookkeeping describes the running process; inside
\* it describes the process about to run, statement by statement.
BookInv(n) ==
  /\ (\A d \in 1..dep : ~AtWindow(kstack[stk][d])) =>
       current_pid = prog + 1 /\ tss_esp0 \in OwnStacks(prog)
  /\ \A d \in 1..dep : LET f == kstack[stk][d] IN AtWindow(f) =>
       /\ current_pid = f.next + 1
       /\ f.pc \in {"save", "saved"} /\ f.next \in Procs(n) => tss_esp0 = f.next
       /\ f.pc = "saved" => process_table[prog].esp = <<stk, d>>

\* Every other process waits on a stack of its own, in a context_switch or in
\* front of its trampoline, with nothing half done below.
ParkedInv(n, m) ==
  \A p \in Procs(n) \ {prog} :
    LET e == process_table[p].esp
    IN  /\ e \in Esp
        /\ e[1] \in OwnStacks(p)
        /\ Resumable(kstack[e[1]][e[2]])
        /\ \A d \in 1..e[2] : LiveFrame(m, p, d, kstack[e[1]][d])
        /\ \A d \in 1..e[2]-1 : ~AtWindow(kstack[e[1]][d])

\* The switch between the processes 0..n-1 works, whatever else kernel_main has
\* yet to do; m > n while it builds the process in slot n.
SwitchInv(n, m) == /\ TypeOK /\ TableInv(n, m) /\ RunningInv(n, m)
                   /\ BookInv(n) /\ ParkedInv(n, m)

\* scheduler_next finds none of the slots from m on.
Unborn(m) == \A i \in Slots \ Procs(m) : process_table[i].state = "DEAD"

NoBoot == \A s \in Stacks, d \in 1..MaxDepth : kstack[s][d].kind # "boot"

\* The inductive invariant
IInv == SwitchInv(NProc, NProc) /\ Unborn(NProc) /\ NoBoot

-----------------------------------------------------------------------------
\* Activation x[2] of stack x[1] belongs to a process that waits.
Parked(x) ==
  \E p \in Created \ {prog} : LET e == process_table[p].esp
                               IN  x[1] = e[1] /\ x[2] <= e[2]

\* ... or to the one that runs.
InUse(x) == (x[1] = stk /\ x[2] <= dep) \/ Parked(x)

\* The PIC and the handlers: IRQ 0 is in service exactly while the innermost
\* activation is a tick that owes its EOI, so that nothing can come between;
\* IRQ 1 while one keyboard handler owes its own, somewhere on the stack of a
\* process that runs or waits, where no later entry overwrites it.
PicInv ==
  /\ Unacknowledged("tick") = IF 0 \in isr THEN {<<stk, dep>>} ELSE {}
  /\ \A x \in Unacknowledged("kbd") :
       1 \in isr /\ InUse(x) /\ Unacknowledged("kbd") = {x}
  /\ 1 \in isr => Unacknowledged("kbd") # {}

-----------------------------------------------------------------------------
\* The created processes form a ring, and every decision scheduler_tick has
\* taken and not carried out is to go on to the next one.
Succ(p) == IF p = NProc - 1 THEN 0 ELSE p + 1

DecidedInv ==
  \A s \in Stacks, d \in 1..MaxDepth :
    LET f == kstack[s][d]
    IN  f.kind = "tick" /\ f.pc \in {"test", "run", "pid"} \cup Window =>
          f.next = Succ(f.prog)
=============================================================================
