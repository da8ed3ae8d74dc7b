------------------------------ MODULE Scheduler ------------------------------
(***************************************************************************)
(* Preemptive multitasking of the panache kernel once kernel_main has      *)
(* handed over to the shell: proc/scheduler.c, proc/switch.asm, the lookup *)
(* functions of proc/process.c, the IRQ and ISR paths of arch/i386.        *)
(*                                                                         *)
(* One CPU.  All gates are trap gates (interrupts.c:52-61, flags 0xEF), so *)
(* interrupts stay enabled in every handler and irq_handler sends the EOI  *)
(* before it calls scheduler_tick: a timer interrupt may arrive between    *)
(* any two statements of the kernel, of an earlier timer handler included. *)
(*                                                                         *)
(* A kernel stack is an array of activation frames, one per handler that   *)
(* was entered and has not returned; "pc" is the next statement of that    *)
(* activation.  A stack pointer is a pair <<stack, depth>>.                *)
(***************************************************************************)
EXTENDS Integers, FiniteSetsExt

CONSTANTS
  MaxProcesses,  \* slots of process_table (MAX_PROCESSES, 16 in the code)
  NProc,         \* processes created before user mode is entered
  MaxDepth,      \* bound: nested activations on one kernel stack
  Quiet          \* statements of scheduler_tick during which the next timer
                 \* interrupt is assumed not to arrive (spacing of the ticks)

PID_LIMIT == 16                       \* the literal of scheduler.c:41

TickPc == {"eoi", "cur", "next", "test", "run", "pid", "esp0", "save",
           "saved", "ret"}

\* kernel_main and process_create, see Boot
BootPc == {"find", "pid", "state", "stack", "fake", "esp", "setcur", "setrun",
           "iret"}

\* From the switch of current_pid to the switch of the stack pointer
\* scheduler_tick describes the process it is about to leave as another one.
Window == {"esp0", "save", "saved"}

ASSUME SchedulerAssumption ==
  /\ MaxProcesses \in 1..PID_LIMIT
  /\ NProc \in 1..MaxProcesses
  /\ MaxDepth \in Nat \ {0}
  /\ Quiet \subseteq TickPc

VARIABLES
  process_table, current_pid,   \* process.c
  tss_esp0,                     \* stack the CPU takes on entry from user mode
  kstack,                       \* contents of the kernel stacks
  prog,                         \* process whose code the CPU executes
  stk, dep,                     \* stack pointer; dep = 0 is user mode
  isr                           \* lines in service at the PIC

vars == <<process_table, current_pid, tss_esp0, kstack, prog, stk, dep, isr>>

-----------------------------------------------------------------------------
NULL        == -1
Slots       == 0..MaxProcesses-1
StaticStack == MaxProcesses           \* kernel_stack of gdt.c
BootStack   == MaxProcesses + 1       \* stack of the boot loader, see Boot
Stacks      == 0..MaxProcesses+1
Created     == 0..NProc-1             \* slots kernel_main has filled
Shell       == 0

Esp     == Stacks \X (1..MaxDepth)
NullEsp == <<NULL, 0>>

Proc == [pid : 0..MaxProcesses, state : {"DEAD", "READY", "RUNNING"},
         esp : Esp \cup {NullEsp}, kernel_stack_top : Stacks \cup {NULL}]

Frame == [kind : {"none", "tick", "kbd", "sys", "tramp", "boot"},
          pc   : TickPc \cup BootPc \cup {"none", "body", "get"},
          cur  : Slots \cup {NULL}, next : Slots \cup {NULL},
          prog : Slots \cup {NULL}]

\* Activation of a handler on behalf of process p, before its first statement.
Activation(k, c, p) ==
  [kind |-> k, pc |-> c, cur |-> NULL, next |-> NULL, prog |-> p]
Empty == Activation("none", "none", NULL)

Top == kstack[stk][dep]

-----------------------------------------------------------------------------
(* proc/process.c, proc/scheduler.c: lookups *)

Matching == {i \in Slots : process_table[i].pid = current_pid}

process_get_current == IF Matching = {} THEN NULL ELSE Min(Matching)

\* Distances at which the scan of scheduler_next from slot c meets a process
\* it may run; the scan ends on c itself.
Runnable(c) ==
  {i \in 1..MaxProcesses :
     process_table[(c + i) % MaxProcesses].state \in {"READY", "RUNNING"}}

scheduler_next_first ==    \* mutant: the scan starts at slot 0 every time
  LET others == {i \in Slots : /\ process_table[i].state # "DEAD"
                               /\ process_table[i].pid # current_pid}
  IN  IF others = {} THEN NULL ELSE Min(others)

scheduler_next_stays ==    \* mutant: the scan begins at the current slot
  LET c == IF Matching = {} THEN 0 ELSE Min(Matching)
  IN  IF Runnable(c) = {} THEN NULL
      ELSE IF MaxProcesses \in Runnable(c) THEN c
      ELSE (c + Min(Runnable(c))) % MaxProcesses

scheduler_next ==
  LET c == IF Matching = {} THEN 0 ELSE Min(Matching)
  IN  IF Runnable(c) = {} THEN NULL
      ELSE (c + Min(Runnable(c))) % MaxProcesses

-----------------------------------------------------------------------------
(* Entry to the kernel: the CPU pushes on tss_esp0 from user mode and on    *)
(* the running stack otherwise.                                             *)

Enter(k, c) ==
  LET s == IF dep = 0 THEN tss_esp0 ELSE stk
  IN  /\ dep < MaxDepth
      /\ stk' = s
      /\ dep' = dep + 1
      /\ kstack' = [kstack EXCEPT ![s][dep + 1] = Activation(k, c, prog)]
      /\ UNCHANGED <<process_table, current_pid, tss_esp0, prog>>

\* The 8259 delivers a line only above everything in service (0 is highest).
Deliverable(i) == \A j \in isr : i < j

TickBusy == \E d \in 1..dep : /\ kstack[stk][d].kind = "tick"
                              /\ kstack[stk][d].pc \in Quiet

TimerIrq ==
  /\ prog # NULL
  /\ Deliverable(0)
  /\ ~TickBusy
  /\ isr' = isr \cup {0}
  /\ Enter("tick", "eoi")

KeyboardIrq ==
  /\ prog # NULL
  /\ Deliverable(1)
  /\ isr' = isr \cup {1}
  /\ Enter("kbd", "eoi")

\* int 0x80 of a user program
Syscall ==
  /\ prog # NULL
  /\ dep = 0
  /\ Enter("sys", "body")
  /\ UNCHANGED isr

-----------------------------------------------------------------------------
(* Steps of the handlers.  At(k, c): the running activation is of kind k    *)
(* and about to execute c.                                                  *)

At(k, c) == /\ prog # NULL
            /\ dep > 0
            /\ Top.kind = k
            /\ Top.pc = c

\* The running activation becomes f; nothing is pushed or popped.
Continue(f) == /\ kstack' = [kstack EXCEPT ![stk][dep] = f]
               /\ UNCHANGED <<prog, stk, dep>>

Goto(c) == Continue([Top EXCEPT !.pc = c])

\* Early return and end of scheduler_tick: its locals are dead.
Return == Continue([Top EXCEPT !.pc = "ret", !.cur = NULL, !.next = NULL])

\* The non-specific EOI (0x20) retires the highest-priority line in service.
EoiTickOnly ==            \* mutant: only IRQ 0 gets its EOI
  /\ \/ At("tick", "eoi") /\ Goto("cur") /\ isr' = isr \ {0}
     \/ At("kbd", "eoi") /\ Goto("body") /\ UNCHANGED isr
  /\ UNCHANGED <<process_table, current_pid, tss_esp0>>

EoiLowest ==              \* mutant: retires the lowest one
  /\ \/ At("tick", "eoi") /\ Goto("cur")
     \/ At("kbd", "eoi") /\ Goto("body")
  /\ isr' = {i \in isr : \E j \in isr : i < j}
  /\ UNCHANGED <<process_table, current_pid, tss_esp0>>

Eoi ==
  /\ \/ At("tick", "eoi") /\ Goto("cur")
     \/ At("kbd", "eoi") /\ Goto("body")
  /\ isr' = {i \in isr : \E j \in isr : j < i}
  /\ UNCHANGED <<process_table, current_pid, tss_esp0>>

TickCur ==
  /\ At("tick", "cur")
  /\ \/ current_pid > PID_LIMIT /\ Return
     \/ /\ current_pid <= PID_LIMIT
        /\ Continue([Top EXCEPT !.pc = "next", !.cur = process_get_current])
  /\ UNCHANGED <<process_table, current_pid, tss_esp0, isr>>

TickNext ==
  /\ At("tick", "next")
  /\ Continue([Top EXCEPT !.pc = "test", !.next = scheduler_next])
  /\ UNCHANGED <<process_table, current_pid, tss_esp0, isr>>

\* if (!next || !cur) return; if (next->pid == current_pid) return;
NoSwitch == \/ NULL \in {Top.next, Top.cur}
            \/ Top.next # NULL /\ process_table[Top.next].pid = current_pid

TickTest ==
  /\ At("tick", "test")
  /\ \/ NoSwitch /\ Return /\ UNCHANGED process_table
     \/ /\ ~NoSwitch
        /\ Goto("run")
        /\ process_table' =
             [process_table EXCEPT ![Top.cur].state =
                IF @ = "RUNNING" THEN "READY" ELSE @]
  /\ UNCHANGED <<current_pid, tss_esp0, isr>>

TickRun ==
  /\ At("tick", "run")
  /\ Goto("pid")
  /\ process_table' = [process_table EXCEPT ![Top.next].state = "RUNNING"]
  /\ UNCHANGED <<current_pid, tss_esp0, isr>>

TickPidSkipped ==         \* mutant: the switch forgets current_pid
  /\ At("tick", "pid")
  /\ Goto("esp0")
  /\ UNCHANGED <<process_table, current_pid, tss_esp0, isr>>

TickPid ==
  /\ At("tick", "pid")
  /\ Goto("esp0")
  /\ current_pid' = process_table[Top.next].pid
  /\ UNCHANGED <<process_table, tss_esp0, isr>>

TickEsp0Skipped ==        \* mutant: the TSS is not updated on a switch
  /\ At("tick", "esp0")
  /\ Goto("save")
  /\ UNCHANGED <<process_table, current_pid, tss_esp0, isr>>

TickEsp0 ==
  /\ At("tick", "esp0")
  /\ Goto("save")
  /\ tss_esp0' = process_table[Top.next].kernel_stack_top
  /\ UNCHANGED <<process_table, current_pid, isr>>

TickSaveInNext ==         \* mutant: the stack pointer goes to next->esp
  /\ At("tick", "save")
  /\ Goto("saved")
  /\ process_table' = [process_table EXCEPT ![Top.next].esp = <<stk, dep>>]
  /\ UNCHANGED <<current_pid, tss_esp0, isr>>

TickSave ==
  /\ At("tick", "save")
  /\ Goto("saved")
  /\ process_table' = [process_table EXCEPT ![Top.cur].esp = <<stk, dep>>]
  /\ UNCHANGED <<current_pid, tss_esp0, isr>>

\* A saved stack pointer leads back into a context_switch, or into the
\* trampoline of a process that has not run yet; anything else is not code.
Resumable(f) == \/ f.kind = "tick" /\ f.pc = "saved"
                \/ f.kind = "tramp" /\ f.pc = "get"

Lands(e) == e \in Esp /\ Resumable(kstack[e[1]][e[2]])

Resumed(f) == IF f.kind = "tramp" THEN f
              ELSE [f EXCEPT !.pc = "ret", !.cur = NULL, !.next = NULL]

TickLoad ==
  /\ At("tick", "saved")
  /\ LET e == process_table[Top.next].esp
     IN  \/ /\ Lands(e)
            /\ stk' = e[1]
            /\ dep' = e[2]
            /\ prog' = kstack[e[1]][e[2]].prog
            /\ kstack' = [kstack EXCEPT ![e[1]][e[2]] = Resumed(@)]
         \/ /\ ~Lands(e)
            /\ prog' = NULL
            /\ UNCHANGED <<stk, dep, kstack>>
  /\ UNCHANGED <<process_table, current_pid, tss_esp0, isr>>

\* Body of the keyboard handler and of syscall_handler: neither touches what
\* this module models.
Body ==
  /\ At("kbd", "body") \/ At("sys", "body")
  /\ Goto("ret")
  /\ UNCHANGED <<process_table, current_pid, tss_esp0, isr>>

\* POPA, IRET of the common stubs
Iret ==
  /\ At("tick", "ret") \/ At("kbd", "ret") \/ At("sys", "ret")
  /\ kstack' = [kstack EXCEPT ![stk][dep] = Empty]
  /\ dep' = dep - 1
  /\ UNCHANGED <<process_table, current_pid, tss_esp0, prog, stk, isr>>

\* First activation of a new process: process_entry_trampoline runs whatever
\* process is current, in user mode; without one it runs into a null pointer.
TrampGet ==
  /\ At("tramp", "get")
  /\ Continue([Top EXCEPT !.pc = "iret", !.cur = process_get_current])
  /\ UNCHANGED <<process_table, current_pid, tss_esp0, isr>>

TrampIret ==
  /\ At("tramp", "iret")
  /\ prog' = Top.cur
  /\ kstack' = [kstack EXCEPT ![stk][dep] = Empty]
  /\ dep' = 0
  /\ UNCHANGED <<process_table, current_pid, tss_esp0, stk, isr>>

CpuStep == \/ Eoi \/ TickCur \/ TickNext \/ TickTest \/ TickRun \/ TickPid
           \/ TickEsp0 \/ TickSave \/ TickLoad
           \/ Body \/ Iret \/ TrampGet \/ TrampIret

Next == TimerIrq \/ KeyboardIrq \/ Syscall \/ CpuStep

-----------------------------------------------------------------------------
(* The state kernel_main leaves at its iret into the shell: every created   *)
(* process has the fake stack of process_create, the shell among them.      *)

CreatedProc(i) == [pid |-> i + 1, esp |-> <<i, 1>>, kernel_stack_top |-> i,
                   state |-> IF i = Shell THEN "RUNNING" ELSE "READY"]
DeadProc == [pid |-> 0, esp |-> NullEsp, kernel_stack_top |-> NULL,
             state |-> "DEAD"]

Init ==
  /\ process_table = [i \in Slots |-> IF i \in Created THEN CreatedProc(i)
                                                       ELSE DeadProc]
  /\ current_pid = Shell + 1
  /\ tss_esp0 = StaticStack
  /\ kstack = [s \in Stacks |-> [d \in 1..MaxDepth |->
                 IF s \in Created /\ d = 1
                 THEN Activation("tramp", "get", s) ELSE Empty]]
  /\ prog = Shell /\ stk = StaticStack /\ dep = 0 /\ isr = {}

Spec == Init /\ [][Next]_vars

-----------------------------------------------------------------------------
(* Fairness.  The timer goes on ticking: an IRQ 0 that cannot be delivered   *)
(* stays latched in the PIC, hence SF.  A tick comes every 55 ms and a key   *)
(* takes milliseconds, while a handler takes microseconds: no kind of        *)
(* handler is interrupted for ever before its next statement.                *)

HandlerStep(k) == dep > 0 /\ Top.kind = k /\ CpuStep

Fairness == /\ SF_vars(TimerIrq)
            /\ \A k \in {"tick", "kbd", "sys", "tramp"} : SF_vars(HandlerStep(k))

-----------------------------------------------------------------------------
(* Properties *)

TypeOK ==
  /\ process_table \in [Slots -> Proc]
  /\ current_pid \in 0..MaxProcesses
  /\ tss_esp0 \in Stacks \cup {NULL}
  /\ kstack \in [Stacks -> [1..MaxDepth -> Frame]]
  /\ prog \in Slots \cup {NULL}
  /\ stk \in Stacks
  /\ dep \in 0..MaxDepth
  /\ isr \in SUBSET {0, 1}

\* Stacks a process may be found on: the shell continues kernel_main, and its
\* first entries from user mode use the static stack.
OwnStacks(p) == {p} \cup (IF p = Shell THEN {StaticStack, BootStack} ELSE {})

InWindow == prog # NULL /\ \E d \in 1..dep : /\ kstack[stk][d].kind = "tick"
                                             /\ kstack[stk][d].pc \in Window

\* No switch ever continues at an address that is not a saved context: no
\* timer interrupt sees an esp that switch.asm has not written yet.
NeverWild == prog # NULL

\* What "esp; // kernel stack pointer" of process.h:23 promises: a process
\* that is not running can be resumed from its esp, on its own stack, at the
\* point where scheduler_tick left it.
SavedContextsIntact ==
  \A p \in Created \ {prog} :
    LET e == process_table[p].esp
    IN  /\ Lands(e)
        /\ e[1] \in OwnStacks(p)
        /\ kstack[e[1]][e[2]].prog = p

\* The bookkeeping describes the process that runs whenever scheduler_tick is
\* not between its last assignments and the stack switch (scheduler.c:59-63):
\* the next interrupt from user mode lands on the running process's stack.
CurrentProcess ==
  prog # NULL /\ ~InWindow => /\ current_pid = process_table[prog].pid
                              /\ tss_esp0 \in OwnStacks(prog)

\* Activations that wait for their EOI, over all stacks: a preempted keyboard
\* handler keeps its line blocked while other processes run.
Unacknowledged(k) ==
  {x \in Stacks \X (1..MaxDepth) : /\ kstack[x[1]][x[2]].kind = k
                                   /\ kstack[x[1]][x[2]].pc = "eoi"}

\* EOI before dispatch (interrupts.c:82-83) keeps the PIC in step with the
\* handlers although they are preempted between processes: a line is in
\* service exactly while one activation owes it an EOI.
PicInService ==
  /\ Cardinality(Unacknowledged("tick")) = (IF 0 \in isr THEN 1 ELSE 0)
  /\ Cardinality(Unacknowledged("kbd")) = (IF 1 \in isr THEN 1 ELSE 0)

\* The activations a process has on the stack its esp points into.
Chain(p) == LET e == process_table[p].esp
            IN  [d \in 1..e[2] |-> kstack[e[1]][d]]

\* The kernel's bookkeeping implements the abstract promise: the continuation
\* of the running process lies under the stack pointer, that of every other
\* process under its esp.
Continuation(p) ==
  IF p = prog THEN [d \in 1..dep |-> kstack[stk][d].kind]
              ELSE [d \in DOMAIN Chain(p) |-> Chain(p)[d].kind]

MT == INSTANCE Multitasking WITH
        Processes <- Created,
        running   <- prog,
        cont      <- [p \in Created |-> Continuation(p)]

\* README.md:19 "multitasking": every step of the interrupt paths and of
\* scheduler_tick enters or leaves a handler of the running process, hands the
\* CPU over between two intact continuations, or does nothing visible.
ImplementsMultitasking == MT!Spec

\* While other processes run, interrupts and switches leave the context of a
\* preempted process untouched, from its esp down.
PreemptedUntouched ==
  [][\A p \in Created : prog # p /\ prog' # p => Chain(p)' = Chain(p)]_vars

\* README.md:19 "Round-robin scheduler": no created process starves.
EveryProcessRuns == \A p \in Created : []<>(prog = p)

\* A keyboard handler preempted before its EOI gets to send it: the keyboard
\* is not lost for good.
KeyboardReleased == []<>(1 \notin isr)
=============================================================================
