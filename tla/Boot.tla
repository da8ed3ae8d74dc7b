--------------------------------- MODULE Boot ---------------------------------
(***************************************************************************)
(* kernel_main from process_init to its iret into the shell, and           *)
(* process_create, with interrupts enabled since init_idt: timer and       *)
(* keyboard interrupts arrive between any two statements.  kernel_main     *)
(* runs on the stack the boot loader left, as an activation of kind "boot" *)
(* whose fields hold the process it is creating (cur) and its slot (next). *)
(***************************************************************************)
EXTENDS Scheduler

\* process.c:60-78: the slot is READY and its stack pointer not yet stored.
HalfBuilt == {"stack", "fake", "esp"}

-----------------------------------------------------------------------------
BootAt(c) == prog # NULL /\ dep > 0 /\ Top.kind = "boot" /\ Top.pc = c

BootInit ==
  /\ process_table = [i \in Slots |-> DeadProc]
  /\ current_pid = 0
  /\ tss_esp0 = StaticStack
  /\ kstack = [s \in Stacks |-> [d \in 1..MaxDepth |->
                 IF s = BootStack /\ d = 1
                 THEN [Activation("boot", "find", Shell) EXCEPT !.cur = 0]
                 ELSE Empty]]
  /\ prog = Shell /\ stk = BootStack /\ dep = 1 /\ isr = {}

\* process_create: the first DEAD slot.  kernel_main creates fewer processes
\* than there are slots, so one is found.
CreateFind ==
  /\ BootAt("find")
  /\ LET free == {i \in Slots : process_table[i].state = "DEAD"}
     IN  /\ free # {}
         /\ Continue([Top EXCEPT !.pc = "pid", !.next = Min(free)])
  /\ UNCHANGED <<process_table, current_pid, tss_esp0, isr>>

CreatePidSame ==          \* mutant: next_pid is not incremented
  /\ BootAt("pid")
  /\ Goto("state")
  /\ process_table' = [process_table EXCEPT ![Top.next].pid = 1]
  /\ UNCHANGED <<current_pid, tss_esp0, isr>>

\* next_pid starts at 1 and grows by one per process
CreatePid ==
  /\ BootAt("pid")
  /\ Goto("state")
  /\ process_table' = [process_table EXCEPT ![Top.next].pid = Top.cur + 1]
  /\ UNCHANGED <<current_pid, tss_esp0, isr>>

CreateState ==
  /\ BootAt("state")
  /\ Goto("stack")
  /\ process_table' = [process_table EXCEPT ![Top.next].state = "READY"]
  /\ UNCHANGED <<current_pid, tss_esp0, isr>>

CreateStackShared ==      \* mutant: every process is given the first kernel stack
  /\ BootAt("stack")
  /\ Goto("fake")
  /\ process_table' = [process_table EXCEPT ![Top.next].kernel_stack_top = 0]
  /\ UNCHANGED <<current_pid, tss_esp0, isr>>

CreateStack ==
  /\ BootAt("stack")
  /\ Goto("fake")
  /\ process_table' = [process_table EXCEPT ![Top.next].kernel_stack_top = Top.cur]
  /\ UNCHANGED <<current_pid, tss_esp0, isr>>

\* The words pushed on the new kernel stack: the trampoline under four zeros.
CreateFake ==
  /\ BootAt("fake")
  /\ LET s == process_table[Top.next].kernel_stack_top
     IN  kstack' = [kstack EXCEPT
                      ![s][1] = Activation("tramp", "get", Top.cur),
                      ![stk][dep].pc = "esp"]
  /\ UNCHANGED <<process_table, current_pid, tss_esp0, prog, stk, dep, isr>>

\* kernel_main after process Top.cur: it creates the next one, or goes to iret.
NextProcess ==
  IF Top.cur + 1 < NProc
  THEN Continue([Top EXCEPT !.pc = "find", !.cur = @ + 1])
  ELSE Goto("iret")

CreateEspReady ==         \* mutant: esp is left at 0
  /\ BootAt("esp")
  /\ \/ Top.cur = 0 /\ Goto("setcur")
     \/ Top.cur > 0 /\ NextProcess
  /\ UNCHANGED <<process_table, current_pid, tss_esp0, isr>>

\* The stack pointer; the first process, the shell, becomes the current one.
CreateEsp ==
  /\ BootAt("esp")
  /\ process_table' = [process_table EXCEPT ![Top.next].esp =
                         <<process_table[Top.next].kernel_stack_top, 1>>]
  /\ \/ Top.cur = 0 /\ Goto("setcur")
     \/ Top.cur > 0 /\ NextProcess
  /\ UNCHANGED <<current_pid, tss_esp0, isr>>

SetCurrentLate ==         \* mutant: current_pid stays 0 until user mode
  /\ BootAt("setcur")
  /\ Goto("setrun")
  /\ UNCHANGED <<process_table, current_pid, tss_esp0, isr>>

\* current_pid = process->pid in kernel_main (anemoia.c:226); to it belong the
\* log lines process_create writes to the serial port, character by character,
\* between its last store and its return (process.c:80-86).
SetCurrent ==
  /\ BootAt("setcur")
  /\ Goto("setrun")
  /\ current_pid' = process_table[Top.next].pid
  /\ UNCHANGED <<process_table, tss_esp0, isr>>

SetRunning ==
  /\ BootAt("setrun")
  /\ process_table' = [process_table EXCEPT ![Top.next].state = "RUNNING"]
  /\ NextProcess
  /\ UNCHANGED <<current_pid, tss_esp0, isr>>

\* iret into user_main of the shell; the boot stack is never used again.
BootIret ==
  /\ BootAt("iret")
  /\ kstack' = [kstack EXCEPT ![stk][dep] = Empty]
  /\ dep' = 0
  /\ UNCHANGED <<process_table, current_pid, tss_esp0, prog, stk, isr>>

BootStep == \/ CreateFind \/ CreatePid \/ CreateState \/ CreateStack
            \/ CreateFake \/ CreateEsp \/ SetCurrent \/ SetRunning \/ BootIret

-----------------------------------------------------------------------------
BootNext == TimerIrq \/ KeyboardIrq \/ Syscall \/ CpuStep \/ BootStep

BootSpec == BootInit /\ [][BootNext]_vars

BootHandlerStep(k) == dep > 0 /\ Top.kind = k /\ (CpuStep \/ BootStep)

BootFairSpec ==
  /\ BootSpec
  /\ SF_vars(TimerIrq)
  /\ \A k \in {"boot", "tick", "kbd", "sys", "tramp"} : SF_vars(BootHandlerStep(k))

-----------------------------------------------------------------------------
KernelMain == kstack[BootStack][1]
Booting == KernelMain.kind = "boot"

\* kernel_main waits while another process runs.
Preempted == Booting /\ prog # NULL /\ stk # BootStack

\* Every switch, from the first tick after init_idt on, lands in a saved
\* context, but for the one that picks the process whose stack pointer
\* process_create has yet to store (process.c:60-78).
WildOnlyHalfBuilt == ~NeverWild => Booting /\ KernelMain.pc \in HalfBuilt

\* What README.md:19 "multitasking" asks of the boot: a preempted kernel_main
\* (anemoia.c:202-274) is the saved context of a process the scheduler picks
\* again, so that it can create the remaining ones.
BootNotLost ==
  Preempted => \E p \in Slots : /\ process_table[p].state # "DEAD"
                                /\ process_table[p].esp[1] = BootStack

\* There is one stretch where kernel_main can be preempted and not be saved in
\* a process: from the store of the shell's stack pointer to the store of
\* current_pid (process.c:78 to anemoia.c:226), when the shell is READY and
\* current_pid still 0, so that the tick saves it in a DEAD slot.
LostOnlyBeforeCurrent == KernelMain.pc # "setcur" => BootNotLost

\* kernel_main hands over what the scheduler relies on, whatever interrupted
\* it: from the iret into the shell on every created process is resumable from
\* its own stack and the bookkeeping names the one that runs.
HandedOver == ~Booting => SavedContextsIntact /\ CurrentProcess

\* Unless a tick meets one of the two windows kernel_main reaches user mode with
\* every process created, however often those it has created preempt it.
BootResolves ==
  <>(\/ ~Booting /\ \A p \in Created : process_table[p].pid = p + 1
     \/ ~NeverWild
     \/ ~BootNotLost)
=============================================================================
