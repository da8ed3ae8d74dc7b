------------------------------- MODULE BootProofs -------------------------------
(***************************************************************************)
(* Theorems about Boot, for every number of processes and nested           *)
(* activations, whatever interrupts kernel_main: a switch goes astray only *)
(* while a process is half built, kernel_main is lost only before          *)
(* current_pid is set, and in every other run it leaves the processes in a *)
(* state that satisfies the invariant of Scheduler.                        *)
(***************************************************************************)
EXTENDS Boot, SchedulerProofs

-----------------------------------------------------------------------------
\* kernel_main is the outermost activation of the boot stack and no other.
BootFrames ==
  \A s \in Stacks, d \in 1..MaxDepth :
    kstack[s][d].kind = "boot" <=> s = BootStack /\ d = 1

\* The slots from k on are as process_init has left them, ...
Blank(k) ==
  \A i \in Slots : i >= k => /\ process_table[i].pid = 0
                             /\ process_table[i].state = "DEAD"

\* ... and no tick has taken one of them for the current process.
Unsaved(k) == \A i \in Slots : i >= k => process_table[i].esp = NullEsp

\* What process_create has stored in the slot of process n when kernel_main is
\* the activation f; a tick may have marked it as running.
Filled(n, f, slot) ==
  /\ f.cur = n
  /\ f.pc # "find" => f.next = n
  /\ slot.pid = IF f.pc \in {"find", "pid"} THEN 0 ELSE n + 1
  /\ slot.state \in IF f.pc \in {"find", "pid", "state"} THEN {"DEAD"}
                                                     ELSE {"READY", "RUNNING"}
  /\ f.pc \in {"fake", "esp", "setcur"} => slot.kernel_stack_top = n
  /\ slot.esp = IF f.pc = "setcur" THEN <<n, 1>> ELSE NullEsp

\* process_create is at work on process n.
Making(n) ==
  /\ n < NProc
  /\ Filled(n, KernelMain, process_table[n])
  /\ KernelMain.pc \in {"esp", "setcur"} =>
       kstack[n][1] = Activation("tramp", "get", n)
  /\ Blank(n + 1)

-----------------------------------------------------------------------------
\* The first process is in the table and not yet the current one.
Visible == KernelMain.pc \in HalfBuilt \cup {"setcur"}

\* A handler above kernel_main before there is a current process: a tick takes
\* a slot without a process for it, and switches only if the first is visible.
EarlyFrame(f) ==
  /\ f.prog = Shell
  /\ \/ f.kind = "kbd" /\ f.pc \in {"eoi", "body", "ret"}
     \/ /\ f.kind = "tick" /\ f.pc \in TickPc
        /\ Visible /\ f.pc \in {"next", "test"} => f.cur # 0
        /\ f.pc = "test" => f.next = NULL \/ (Visible /\ f.next = 0)
        /\ f.pc \in {"run", "pid"} \cup Window =>
             Visible /\ f.next = 0 /\ f.cur \in Slots \ {0}

\* The bookkeeping names no process until a tick is about to switch to the first.
EarlyBook ==
  /\ (\A d \in 2..dep : ~AtWindow(kstack[BootStack][d])) =>
       current_pid = 0 /\ tss_esp0 = StaticStack /\ Unsaved(1)
  /\ \A d \in 2..dep : LET f == kstack[BootStack][d] IN AtWindow(f) =>
       /\ current_pid = 1
       /\ f.pc \in {"save", "saved"} /\ KernelMain.pc = "setcur" => tss_esp0 = 0
  /\ \A d, e \in 2..dep : d < e /\ AtWindow(kstack[BootStack][d]) =>
                             kstack[BootStack][e].kind = "kbd"

\* Until current_pid is set: the first process is created.
Early ==
  /\ TypeOK /\ BootFrames
  /\ prog = Shell /\ stk = BootStack /\ dep > 0
  /\ KernelMain.prog = Shell
  /\ KernelMain.pc \in BootPc \ {"setrun", "iret"}
  /\ Making(0)
  /\ \A d \in 2..dep : EarlyFrame(kstack[BootStack][d])
  /\ EarlyBook

\* Such a switch, to a process without a stack pointer ...
Wild == prog = NULL /\ BootFrames /\ KernelMain.pc \in HalfBuilt

\* ... or to the complete first one: kernel_main is left for good.
Lost ==
  /\ SwitchInv(1, 1) /\ Unborn(1) /\ BootFrames /\ KernelMain.pc = "setcur"
  /\ stk # BootStack /\ tss_esp0 # BootStack

-----------------------------------------------------------------------------
\* The shell, whose code kernel_main is, runs on the boot stack or waits there.
ShellBooting ==
  IF prog = Shell THEN stk = BootStack /\ dep > 0
                  ELSE process_table[Shell].esp[1] = BootStack

\* kernel_main has created n processes and creates one more, marks the first
\* as running, or has created them all.
MainAt(n) ==
  LET pc == KernelMain.pc
  IN  /\ pc \in BootPc \ {"setcur"}
      /\ pc = "setrun" => /\ n = 1 /\ Blank(1)
                          /\ KernelMain.cur = 0 /\ KernelMain.next = 0
      /\ pc = "iret" => n = NProc /\ Blank(n)
      /\ pc \notin {"setrun", "iret"} => Making(n)
      /\ Unsaved(n)

\* scheduler_next finds process n from the store of its state on.
Seen(n) == IF KernelMain.pc \in HalfBuilt THEN n + 1 ELSE n

\* From then on n processes take turns, kernel_main being the shell's.
Shared(n) == SwitchInv(n, Seen(n)) /\ BootFrames /\ ShellBooting /\ MainAt(n)

\* The inductive invariant: the first process, the others, the handover, and
\* the two ways to miss it.
BootInv == Early \/ (\E n \in 1..NProc : Shared(n)) \/ IInv \/ Lost \/ Wild


-----------------------------------------------------------------------------
(* The first process *)

LEMMA StackNumbers ==
  /\ BootStack \in Stacks /\ StaticStack \in Stacks /\ StaticStack # BootStack
  /\ \A p \in Slots : p \in Stacks /\ p # BootStack /\ p # StaticStack
  /\ 0 \in Slots /\ 0..NProc-1 \subseteq Slots
  /\ MaxDepth \in Nat \ {0} /\ NProc \in Nat \ {0} /\ MaxProcesses \in Nat \ {0}
BY SchedulerAssumption DEF BootStack, StaticStack, Stacks, Slots, PID_LIMIT

LEMMA BootInitInv == BootInit => Early
<1> SUFFICES ASSUME BootInit PROVE Early  OBVIOUS
<1> DEFINE first == [Activation("boot", "find", Shell) EXCEPT !.cur = 0]
<1>1. /\ first \in Frame /\ Empty \in Frame /\ DeadProc \in Proc
      /\ first.kind = "boot" /\ first.pc = "find" /\ first.cur = 0
      /\ first.prog = Shell /\ Empty.kind = "none"
  BY StackNumbers DEF Activation, Frame, Empty, DeadProc, Proc, BootPc, Shell
<1> HIDE DEF first
<1>2. \A s \in Stacks, d \in 1..MaxDepth :
        kstack[s][d] = IF s = BootStack /\ d = 1 THEN first ELSE Empty
  BY DEF BootInit, first
<1>3. KernelMain = first  BY <1>2, StackNumbers DEF KernelMain
<1>4. TypeOK
  <2>1. kstack \in [Stacks -> [1..MaxDepth -> Frame]]  BY <1>1 DEF BootInit, first
  <2>2. process_table \in [Slots -> Proc]  BY <1>1 DEF BootInit
  <2> QED BY <2>1, <2>2, StackNumbers DEF BootInit, TypeOK, Shell
<1>5. BootFrames  BY <1>1, <1>2 DEF BootFrames
<1>6. \A i \in Slots : /\ process_table[i].pid = 0 /\ process_table[i].state = "DEAD"
                       /\ process_table[i].esp = NullEsp
  BY DEF BootInit, DeadProc
<1>7. Making(0)  BY <1>1, <1>3, <1>6, StackNumbers DEF Making, Filled, Blank
<1>8. EarlyBook
  <2>1. 2..dep = {}  BY DEF BootInit
  <2>2. Unsaved(1)  BY <1>6 DEF Unsaved
  <2> QED BY <2>1, <2>2 DEF EarlyBook, BootInit
<1> QED BY <1>1, <1>3, <1>4, <1>5, <1>7, <1>8 DEF Early, BootInit, BootPc, Shell

\* A handler above kernel_main is entered, goes on or returns; it may mark the
\* first process as running and save a stack pointer in a slot without one.
LEMMA EarlyWrite ==
  ASSUME Early, NEW d \in 2..MaxDepth, d - 1 <= dep, NEW f \in Frame,
         f.kind # "boot", kstack' = [kstack EXCEPT ![BootStack][d] = f],
         UNCHANGED <<prog, stk>>, isr' \in SUBSET {0, 1}, dep' \in {d - 1, d},
         dep' = d => EarlyFrame(f),
         process_table' \in [Slots -> Proc],
         \A i \in Slots :
           /\ process_table'[i].pid = process_table[i].pid
           /\ process_table'[i].kernel_stack_top = process_table[i].kernel_stack_top
           /\ \/ process_table'[i].state = process_table[i].state
              \/ i = 0 /\ Visible /\ process_table'[i].state = "RUNNING"
           /\ i = 0 => process_table'[i].esp = process_table[i].esp,
         current_pid' \in 0..MaxProcesses, tss_esp0' \in Stacks \cup {NULL},
         EarlyBook'
  PROVE  Early'
<1>1. TypeOK  BY DEF Early
<1>2. \A s \in Stacks, e \in 1..MaxDepth :
        kstack'[s][e] = IF s = BootStack /\ e = d THEN f ELSE kstack[s][e]
  BY <1>1, StackNumbers DEF TypeOK
<1>3. TypeOK'
  <2>1. kstack' \in [Stacks -> [1..MaxDepth -> Frame]]  BY <1>1 DEF TypeOK
  <2>2. dep' \in 0..MaxDepth  BY StackNumbers
  <2> QED BY <1>1, <2>1, <2>2 DEF TypeOK
<1>4. BootFrames'  BY <1>2 DEF BootFrames, Early
<1>5. KernelMain' = KernelMain /\ kstack'[0][1] = kstack[0][1]
  BY <1>2, StackNumbers DEF KernelMain
<1>6. Making(0)'
  <2>1. Filled(0, KernelMain, process_table[0]) /\ Blank(1)
    BY DEF Early, Making
  <2>2. Blank(1)'
    <3>1. \A i \in Slots : i >= 1 => i # 0  BY DEF Slots
    <3> QED BY <2>1, <3>1 DEF Blank
  <2>3. Filled(0, KernelMain, process_table'[0])
    <3>1. Visible => KernelMain.pc \notin {"find", "pid", "state"}
      BY DEF Visible, HalfBuilt
    <3> QED BY <2>1, <3>1, StackNumbers DEF Filled
  <2> QED BY <1>5, <2>2, <2>3 DEF Early, Making, Filled
<1>7. \A e \in 2..dep' : \/ e = d /\ dep' = d /\ kstack'[BootStack][e] = f
                         \/ e \in 2..dep /\ kstack'[BootStack][e] = kstack[BootStack][e]
  <2>1. \A e \in 2..dep' : e \in 1..MaxDepth /\ (e = d => dep' = d)
                           /\ (e # d => e \in 2..dep)
    BY <1>1, StackNumbers DEF TypeOK
  <2> QED BY <1>2, <2>1, StackNumbers
<1>8. \A e \in 2..dep' : EarlyFrame(kstack'[BootStack][e])  BY <1>7 DEF Early
<1>9. Visible' = Visible  BY <1>5 DEF Visible
<1>10. dep' > 0  BY StackNumbers
<1> QED BY <1>3, <1>4, <1>5, <1>6, <1>8, <1>9, <1>10 DEF Early, EarlyFrame

\* Outside the window the bookkeeping stays as it was ...
LEMMA EarlyQuiet ==
  ASSUME Early, NEW d \in 2..MaxDepth, d - 1 <= dep, NEW f \in Frame,
         f.kind # "boot", kstack' = [kstack EXCEPT ![BootStack][d] = f],
         UNCHANGED <<prog, stk, current_pid, tss_esp0>>,
         isr' \in SUBSET {0, 1}, dep' \in {d - 1, d}, dep \in {d - 1, d},
         dep' = d => EarlyFrame(f),
         process_table' \in [Slots -> Proc],
         \A i \in Slots :
           /\ process_table'[i].pid = process_table[i].pid
           /\ process_table'[i].kernel_stack_top = process_table[i].kernel_stack_top
           /\ \/ process_table'[i].state = process_table[i].state
              \/ i = 0 /\ Visible /\ process_table'[i].state = "RUNNING"
           /\ process_table'[i].esp = process_table[i].esp,
         dep = d => ~AtWindow(kstack[BootStack][d]),
         dep' = d => /\ ~AtWindow(f)
                     /\ \/ f.kind = "kbd"
                        \/ \A e \in 2..d-1 : ~AtWindow(kstack[BootStack][e])
  PROVE  Early'
<1>1. TypeOK /\ EarlyBook  BY DEF Early
<1>2. \A s \in Stacks, e \in 1..MaxDepth :
        kstack'[s][e] = IF s = BootStack /\ e = d THEN f ELSE kstack[s][e]
  BY <1>1, StackNumbers DEF TypeOK
<1>3. KernelMain' = KernelMain  BY <1>2, StackNumbers DEF KernelMain
<1>4. Unsaved(1) => Unsaved(1)'  BY DEF Unsaved
<1>5. \A e \in 2..dep' : \/ e = d /\ dep' = d /\ kstack'[BootStack][e] = f
                         \/ /\ e \in 2..dep /\ e \in 2..d-1
                            /\ kstack'[BootStack][e] = kstack[BootStack][e]
  <2>1. \A e \in 2..dep' : e \in 1..MaxDepth /\ (e = d => dep' = d)
                           /\ (e # d => e \in 2..dep /\ e \in 2..d-1)
    BY <1>1, StackNumbers DEF TypeOK
  <2> QED BY <1>2, <2>1, StackNumbers
<1>6. \A e \in 2..dep : AtWindow(kstack[BootStack][e]) =>
        e \in 2..dep' /\ e # d /\ kstack'[BootStack][e] = kstack[BootStack][e]
  <2>1. \A e \in 2..dep : e \in 1..MaxDepth /\ (e = d => dep = d)
                          /\ (e # d => e \in 2..dep')
    BY <1>1, StackNumbers DEF TypeOK
  <2> QED BY <1>2, <2>1, StackNumbers
<1>7. \A e \in 2..dep' : AtWindow(kstack'[BootStack][e]) =>
        /\ e \in 2..dep /\ e \in 2..d-1
        /\ kstack'[BootStack][e] = kstack[BootStack][e]
  BY <1>5
<1>8. ASSUME \A e \in 2..dep' : ~AtWindow(kstack'[BootStack][e])
      PROVE  current_pid' = 0 /\ tss_esp0' = StaticStack /\ Unsaved(1)'
  <2>1. \A e \in 2..dep : ~AtWindow(kstack[BootStack][e])  BY <1>6, <1>8
  <2> QED BY <1>1, <1>4, <2>1 DEF EarlyBook
<1>9. ASSUME NEW e \in 2..dep', AtWindow(kstack'[BootStack][e])
      PROVE  /\ current_pid' = 1
             /\ kstack'[BootStack][e].pc \in {"save", "saved"}
                  /\ KernelMain'.pc = "setcur" => tss_esp0' = 0
  BY <1>1, <1>3, <1>7, <1>9 DEF EarlyBook
<1>10. ASSUME NEW e \in 2..dep', NEW g \in 2..dep',
              e < g /\ AtWindow(kstack'[BootStack][e])
       PROVE  kstack'[BootStack][g].kind = "kbd"
  <2>1. e \in 2..dep /\ e \in 2..d-1 /\ AtWindow(kstack[BootStack][e])
    BY <1>7, <1>10
  <2>2. CASE g = d /\ dep' = d /\ kstack'[BootStack][g] = f  BY <2>1, <2>2
  <2>3. CASE g \in 2..dep /\ kstack'[BootStack][g] = kstack[BootStack][g]
    BY <1>1, <1>10, <2>1, <2>3 DEF EarlyBook
  <2> QED BY <1>5, <2>2, <2>3
<1>11. EarlyBook'
  <2>1. \A g : AtWindow(g)' <=> AtWindow(g)  BY DEF AtWindow
  <2> QED BY <1>8, <1>9, <1>10 DEF EarlyBook, AtWindow
<1> QED BY <1>1, <1>11, EarlyWrite DEF TypeOK

\* ... and inside it names the first process.
LEMMA EarlyWindow ==
  ASSUME Early, dep \in 2..MaxDepth, NEW f \in Frame, f.kind = "tick",
         AtWindow(f), EarlyFrame(f),
         kstack' = [kstack EXCEPT ![BootStack][dep] = f],
         UNCHANGED <<prog, stk, dep, isr>>,
         \A e \in 2..dep-1 : ~AtWindow(kstack[BootStack][e]),
         process_table' \in [Slots -> Proc],
         \A i \in Slots :
           /\ process_table'[i].pid = process_table[i].pid
           /\ process_table'[i].kernel_stack_top = process_table[i].kernel_stack_top
           /\ process_table'[i].state = process_table[i].state
           /\ i = 0 => process_table'[i].esp = process_table[i].esp,
         current_pid' = 1, tss_esp0' \in Stacks \cup {NULL},
         f.pc \in {"save", "saved"} /\ KernelMain.pc = "setcur" => tss_esp0' = 0
  PROVE  Early'
<1>1. TypeOK  BY DEF Early
<1>2. \A s \in Stacks, e \in 1..MaxDepth :
        kstack'[s][e] = IF s = BootStack /\ e = dep THEN f ELSE kstack[s][e]
  BY <1>1, StackNumbers DEF TypeOK
<1>3. KernelMain' = KernelMain  BY <1>2, StackNumbers DEF KernelMain
<1>4. \A e \in 2..dep : /\ e = dep \/ e \in 2..dep-1
                        /\ e \in 1..MaxDepth
  BY StackNumbers
<1>5. /\ kstack'[BootStack][dep] = f /\ dep \in 2..dep
      /\ \A e \in 2..dep-1 : kstack'[BootStack][e] = kstack[BootStack][e]
  <2>1. \A e \in 2..dep-1 : e # dep /\ e \in 2..dep  BY StackNumbers
  <2>2. dep \in 2..dep  BY StackNumbers
  <2> QED BY <1>2, <1>4, <2>1, <2>2, StackNumbers
<1>6. \A e \in 2..dep : AtWindow(kstack'[BootStack][e]) <=> e = dep
  BY <1>4, <1>5
<1>7. EarlyBook'
  <2>1. dep' = dep  OBVIOUS
  <2>2. ~(\A e \in 2..dep : ~AtWindow(kstack'[BootStack][e]))  BY <1>5, <1>6
  <2>3. \A e \in 2..dep : AtWindow(kstack'[BootStack][e]) =>
          /\ current_pid' = 1
          /\ kstack'[BootStack][e].pc \in {"save", "saved"}
               /\ KernelMain'.pc = "setcur" => tss_esp0' = 0
    BY <1>3, <1>5, <1>6
  <2>4. \A e, g \in 2..dep : e < g /\ AtWindow(kstack'[BootStack][e]) =>
          kstack'[BootStack][g].kind = "kbd"
    <3> SUFFICES ASSUME NEW e \in 2..dep, NEW g \in 2..dep, e < g,
                        AtWindow(kstack'[BootStack][e])
                 PROVE  FALSE
      OBVIOUS
    <3>1. e = dep  BY <1>6
    <3> QED BY <3>1
  <2> QED BY <2>1, <2>2, <2>3, <2>4 DEF EarlyBook, AtWindow
<1>8. current_pid' \in 0..MaxProcesses  BY StackNumbers
<1>9. f.kind # "boot" /\ isr' \in SUBSET {0, 1} /\ dep - 1 <= dep
      /\ dep' \in {dep - 1, dep}
  BY <1>1 DEF TypeOK
<1> QED BY <1>7, <1>8, <1>9, EarlyWrite

LEMMA SlotsKept ==
  ASSUME TypeOK, UNCHANGED process_table
  PROVE  /\ process_table' \in [Slots -> Proc]
         /\ \A i \in Slots :
              /\ process_table'[i].pid = process_table[i].pid
              /\ process_table'[i].kernel_stack_top = process_table[i].kernel_stack_top
              /\ process_table'[i].state = process_table[i].state
              /\ process_table'[i].esp = process_table[i].esp
BY DEF TypeOK

LEMMA EarlyIrq ==
  ASSUME Early, TimerIrq \/ KeyboardIrq
  PROVE  Early'
<1>1. PICK k \in {"tick", "kbd"} : Enter(k, "eoi") /\ (k = "tick" => ~TickBusy)
  BY DEF TimerIrq, KeyboardIrq
<1>2. TypeOK /\ dep > 0 /\ stk = BootStack /\ prog = Shell  BY DEF Early
<1> DEFINE f == Activation(k, "eoi", prog)
<1>3. f \in Frame /\ f.kind = k /\ f.pc = "eoi" /\ f.prog = Shell
  BY <1>2, StackNumbers DEF Activation, Frame, TickPc, Shell
<1>4. /\ kstack' = [kstack EXCEPT ![BootStack][dep + 1] = f] /\ dep' = dep + 1
      /\ UNCHANGED <<process_table, current_pid, tss_esp0, prog, stk>>
      /\ dep < MaxDepth
  <2>1. (IF dep = 0 THEN tss_esp0 ELSE stk) = BootStack  BY <1>2
  <2> QED BY <1>1, <1>2, <2>1 DEF Enter
<1> HIDE DEF f
<1>5. PICK d \in 2..MaxDepth :
        d = dep + 1 /\ d - 1 = dep /\ d # dep /\ d - 1 <= dep
  BY <1>2, <1>4, StackNumbers DEF TypeOK
<1>6. EarlyFrame(f)  BY <1>3 DEF EarlyFrame, TickPc, Window
<1>7. ~AtWindow(f)  BY <1>3 DEF AtWindow, Window
<1>8. k = "tick" => \A e \in 2..d-1 : ~AtWindow(kstack[BootStack][e])
  <2>1. \A e \in 2..d-1 : e \in 1..dep  BY <1>5
  <2> QED BY <1>1, <1>2, <2>1, TicksSpaced DEF TickBusy, AtWindow
<1>9. isr' \in SUBSET {0, 1}  BY <1>2 DEF TimerIrq, KeyboardIrq, TypeOK
<1>10. process_table' \in [Slots -> Proc]  BY <1>2, <1>4 DEF TypeOK
<1>11. /\ kstack' = [kstack EXCEPT ![BootStack][d] = f] /\ f.kind # "boot"
       /\ dep' \in {d - 1, d} /\ dep \in {d - 1, d}
       /\ f.kind = "kbd" \/ \A e \in 2..d-1 : ~AtWindow(kstack[BootStack][e])
  BY <1>3, <1>4, <1>5, <1>8
<1> QED BY <1>2, <1>3, <1>4, <1>5, <1>6, <1>7, <1>9, <1>10, <1>11, SlotsKept, EarlyQuiet

\* Before there is a process scheduler_next finds none.
LEMMA NoneToRun ==
  ASSUME TypeOK, \A i \in Slots : process_table[i].state = "DEAD"
  PROVE  scheduler_next = NULL
<1> DEFINE c == IF Matching = {} THEN 0 ELSE Min(Matching)
<1>1. c \in Nat  BY MinIn DEF Matching, Slots
<1>2. \A i \in 1..MaxProcesses : (c + i) % MaxProcesses \in Slots
  BY <1>1, WrapsAround
<1>3. Runnable(c) = {}  BY <1>2 DEF Runnable
<1> QED BY <1>3 DEF scheduler_next

\* ... and afterwards the first one.
LEMMA EarlyNext ==
  ASSUME Early
  PROVE  scheduler_next = NULL \/ (Visible /\ scheduler_next = 0)
<1>1. \A i \in Slots : i = 0 \/ i >= 1  BY DEF Slots
<1>2. Filled(0, KernelMain, process_table[0]) /\ Blank(1) /\ TypeOK
      /\ KernelMain.pc \in BootPc \ {"setrun", "iret"}
  BY DEF Early, Making
<1>3. CASE Visible
  <2>1. Procs(1) = {0} /\ 1 \in 1..NProc  BY StackNumbers DEF Procs
  <2>2. Unborn(1)  BY <1>1, <1>2, <2>1 DEF Blank, Unborn
  <2> QED BY <1>3, <2>1, <2>2, NextIsCreated
<1>4. CASE ~Visible
  <2>1. KernelMain.pc \in {"find", "pid", "state"}
    BY <1>2, <1>4 DEF Visible, HalfBuilt, BootPc
  <2>2. \A i \in Slots : process_table[i].state = "DEAD"
    BY <1>1, <1>2, <2>1 DEF Filled, Blank
  <2> QED BY <1>2, <2>2, NoneToRun
<1> QED BY <1>3, <1>4

\* A tick without a current process takes a slot without one for it.
LEMMA EarlyCur ==
  ASSUME Early, current_pid = 0
  PROVE  /\ process_get_current \in Slots \cup {NULL}
         /\ Visible => process_get_current # 0
<1>1. process_get_current = NULL \/ process_get_current \in Matching
  BY MinIn DEF process_get_current, Matching, Slots
<1>2. Visible => process_table[0].pid = 1
  BY DEF Early, Making, Filled, Visible, HalfBuilt
<1> QED BY <1>1, <1>2 DEF Matching, NULL

\* The handler that interrupted kernel_main.
LEMMA EarlyHandler ==
  ASSUME Early, CpuStep
  PROVE  /\ TypeOK /\ stk = BootStack /\ prog = Shell
         /\ dep \in 2..MaxDepth /\ dep - 1 <= dep /\ dep - 1 # dep
         /\ Top \in Frame /\ EarlyFrame(Top) /\ Top = kstack[BootStack][dep]
         /\ Top.kind = "tick" =>
              \A e \in 2..dep-1 : ~AtWindow(kstack[BootStack][e])
         /\ Top.kind = "tick" /\ ~AtWindow(Top) =>
              current_pid = 0 /\ tss_esp0 = StaticStack /\ Unsaved(1)
         /\ Top.kind = "tick" /\ AtWindow(Top) => current_pid = 1
<1>1. TypeOK /\ dep > 0 /\ stk = BootStack /\ prog = Shell /\ BootFrames /\ EarlyBook
  BY DEF Early
<1>2. Top.kind # "boot"
  BY DEF CpuStep, Eoi, TickCur, TickNext, TickTest, TickRun, TickPid, TickEsp0,
         TickSave, TickLoad, Body, Iret, TrampGet, TrampIret, At
<1>3. dep \in 2..MaxDepth /\ dep - 1 <= dep /\ dep - 1 # dep
  <2>1. dep \in 1..MaxDepth  BY <1>1, StackNumbers DEF TypeOK
  <2>2. dep # 1  BY <1>1, <1>2, <2>1, StackNumbers DEF BootFrames, Top
  <2> QED BY <2>1, <2>2, StackNumbers
<1>4. Top = kstack[BootStack][dep] /\ dep \in 2..dep /\ dep \in 1..MaxDepth
  BY <1>1, <1>3, StackNumbers DEF Top
<1>5. Top \in Frame /\ EarlyFrame(Top)
  <2>1. kstack \in [Stacks -> [1..MaxDepth -> Frame]]  BY <1>1 DEF TypeOK
  <2> QED BY <1>4, <2>1, StackNumbers DEF Early
<1>6. \A e \in 2..dep : e = dep \/ (e \in 2..dep-1 /\ e < dep)  BY <1>3
<1>7. \A e \in 2..dep-1 : e \in 2..dep /\ e < dep  BY <1>3
<1>8. Top.kind = "tick" => \A e \in 2..dep-1 : ~AtWindow(kstack[BootStack][e])
  BY <1>1, <1>4, <1>7 DEF EarlyBook
<1>9. Top.kind = "tick" /\ ~AtWindow(Top) =>
        current_pid = 0 /\ tss_esp0 = StaticStack /\ Unsaved(1)
  BY <1>1, <1>4, <1>6, <1>8 DEF EarlyBook
<1>10. Top.kind = "tick" /\ AtWindow(Top) => current_pid = 1
  BY <1>1, <1>4 DEF EarlyBook
<1> QED BY <1>1, <1>3, <1>4, <1>5, <1>8, <1>9, <1>10

\* Its statements outside the window.
LEMMA EarlyContinue ==
  ASSUME Early, CpuStep, NEW f \in Frame, Continue(f), EarlyFrame(f),
         f.kind = Top.kind, ~AtWindow(Top), ~AtWindow(f),
         UNCHANGED <<current_pid, tss_esp0>>, isr' \in SUBSET {0, 1},
         process_table' \in [Slots -> Proc],
         \A i \in Slots :
           /\ process_table'[i].pid = process_table[i].pid
           /\ process_table'[i].kernel_stack_top = process_table[i].kernel_stack_top
           /\ \/ process_table'[i].state = process_table[i].state
              \/ i = 0 /\ Visible /\ process_table'[i].state = "RUNNING"
           /\ process_table'[i].esp = process_table[i].esp
  PROVE  Early'
<1>1. kstack' = [kstack EXCEPT ![BootStack][dep] = f]
      /\ UNCHANGED <<prog, stk, dep>>
  BY EarlyHandler DEF Continue
<1>2. f.kind \in {"tick", "kbd"}  BY DEF EarlyFrame
<1>3. /\ f.kind = "kbd" \/ \A e \in 2..dep-1 : ~AtWindow(kstack[BootStack][e])
      /\ ~AtWindow(kstack[BootStack][dep])
      /\ dep \in 2..MaxDepth /\ dep - 1 <= dep
  BY <1>2, EarlyHandler
<1> QED BY <1>1, <1>2, <1>3, EarlyQuiet

\* The end of a handler.
LEMMA EarlyReturn ==
  ASSUME Early, CpuStep, Return, Top.kind = "tick", ~AtWindow(Top),
         UNCHANGED <<process_table, current_pid, tss_esp0, isr>>
  PROVE  Early'
<1>1. PICK f : /\ f = [Top EXCEPT !.pc = "ret", !.cur = NULL, !.next = NULL]
               /\ Continue(f)
  BY DEF Return
<1>2. f \in Frame /\ EarlyFrame(f) /\ f.kind = Top.kind /\ ~AtWindow(f)
  BY <1>1, EarlyHandler DEF Frame, EarlyFrame, TickPc, AtWindow, Window
<1>3. TypeOK /\ isr' \in SUBSET {0, 1}  BY EarlyHandler DEF TypeOK
<1> QED BY <1>1, <1>2, <1>3, SlotsKept, EarlyContinue

\* Interrupt entry and exit, the keyboard handler, and a tick up to its test.
LEMMA EarlyQuietStep ==
  ASSUME Early, Eoi \/ Body \/ Iret \/ TickCur \/ TickNext
  PROVE  Early'
<1>1. CpuStep  BY DEF CpuStep
<1>2. /\ TypeOK /\ isr \in SUBSET {0, 1} /\ Top \in Frame /\ EarlyFrame(Top)
      /\ stk = BootStack /\ dep \in 2..MaxDepth /\ dep - 1 <= dep /\ dep - 1 # dep
      /\ Top = kstack[BootStack][dep]
  BY <1>1, EarlyHandler DEF TypeOK
<1>3. CASE Eoi
  <2>1. PICK f : /\ f = [Top EXCEPT !.pc = IF Top.kind = "tick" THEN "cur" ELSE "body"]
                 /\ Continue(f) /\ Top.kind \in {"tick", "kbd"} /\ Top.pc = "eoi"
    BY <1>3 DEF Eoi, At, Goto
  <2>2. f \in Frame /\ EarlyFrame(f) /\ f.kind = Top.kind
        /\ ~AtWindow(f) /\ ~AtWindow(Top)
    BY <1>2, <2>1 DEF Frame, EarlyFrame, TickPc, AtWindow, Window
  <2>3. isr' \in SUBSET {0, 1}  BY <1>2, <1>3 DEF Eoi
  <2>4. UNCHANGED <<process_table, current_pid, tss_esp0>>  BY <1>3 DEF Eoi
  <2> QED BY <1>1, <1>2, <2>1, <2>2, <2>3, <2>4, SlotsKept, EarlyContinue
<1>4. CASE Body
  <2>1. PICK f : /\ f = [Top EXCEPT !.pc = "ret"] /\ Continue(f) /\ Top.pc = "body"
    BY <1>4 DEF Body, At, Goto
  <2>2. f \in Frame /\ EarlyFrame(f) /\ f.kind = Top.kind
        /\ ~AtWindow(f) /\ ~AtWindow(Top)
    BY <1>2, <2>1 DEF Frame, EarlyFrame, TickPc, AtWindow, Window
  <2>3. UNCHANGED <<process_table, current_pid, tss_esp0, isr>>  BY <1>4 DEF Body
  <2> QED BY <1>1, <1>2, <2>1, <2>2, <2>3, SlotsKept, EarlyContinue
<1>5. CASE Iret
  <2>1. Empty \in Frame /\ Empty.kind # "boot"  BY DEF Empty, Activation, Frame
  <2>2. dep' = dep - 1 /\ dep' # dep  BY <1>2, <1>5 DEF Iret
  <2>3. /\ kstack' = [kstack EXCEPT ![BootStack][dep] = Empty]
        /\ UNCHANGED <<process_table, current_pid, tss_esp0, prog, stk, isr>>
        /\ Top.pc = "ret"
    BY <1>2, <1>5 DEF Iret, At
  <2>4. ~AtWindow(Top)  BY <2>3 DEF AtWindow, Window
  <2> QED BY <1>2, <2>1, <2>2, <2>3, <2>4, SlotsKept, EarlyQuiet
<1>6. CASE TickCur
  <2>1. Top.kind = "tick" /\ Top.pc = "cur" /\ ~AtWindow(Top)
    BY <1>6 DEF TickCur, At, AtWindow, Window
  <2>2. current_pid = 0  BY <1>1, <2>1, EarlyHandler
  <2>3. UNCHANGED <<process_table, current_pid, tss_esp0, isr>>  BY <1>6 DEF TickCur
  <2>4. CASE Return  BY <1>1, <2>1, <2>3, <2>4, EarlyReturn
  <2>5. CASE Continue([Top EXCEPT !.pc = "next", !.cur = process_get_current])
    <3>1. PICK q \in Slots \cup {NULL} :
            q = process_get_current /\ (Visible => q # 0)
      BY <2>2, EarlyCur
    <3>2. PICK f : f = [Top EXCEPT !.pc = "next", !.cur = q] /\ Continue(f)
      BY <2>5, <3>1
    <3>3. /\ f \in Frame /\ f.pc = "next" /\ f.kind = Top.kind /\ f.prog = Top.prog
          /\ f.cur = q
      BY <1>2, <3>2 DEF Frame, TickPc
    <3>4. EarlyFrame(f) /\ ~AtWindow(f)
      BY <1>2, <2>1, <3>1, <3>3 DEF EarlyFrame, AtWindow, TickPc, Window
    <3> QED BY <1>1, <1>2, <2>1, <2>3, <3>2, <3>3, <3>4, SlotsKept, EarlyContinue
  <2> QED BY <1>6, <2>4, <2>5 DEF TickCur
<1>7. CASE TickNext
  <2>1. Top.kind = "tick" /\ Top.pc = "next" /\ ~AtWindow(Top)
    BY <1>7 DEF TickNext, At, AtWindow, Window
  <2>2. scheduler_next = NULL \/ (Visible /\ scheduler_next = 0)  BY EarlyNext
  <2>3. PICK f : /\ f = [Top EXCEPT !.pc = "test", !.next = scheduler_next]
                 /\ Continue(f)
    BY <1>7 DEF TickNext
  <2>4. /\ f \in Frame /\ f.pc = "test" /\ f.kind = Top.kind /\ f.prog = Top.prog
        /\ f.cur = Top.cur /\ f.next = scheduler_next
    BY <1>2, <2>2, <2>3, StackNumbers DEF Frame, TickPc
  <2>5. EarlyFrame(f) /\ ~AtWindow(f)
    BY <1>2, <2>1, <2>2, <2>4 DEF EarlyFrame, AtWindow, TickPc, Window
  <2>6. UNCHANGED <<process_table, current_pid, tss_esp0, isr>>  BY <1>7 DEF TickNext
  <2> QED BY <1>1, <1>2, <2>1, <2>3, <2>4, <2>5, <2>6, SlotsKept, EarlyContinue
<1> QED BY <1>3, <1>4, <1>5, <1>6, <1>7

\* A tick that finds the first process decides to switch to it.
LEMMA EarlyDecide ==
  ASSUME Early, TickTest \/ TickRun
  PROVE  Early'
<1>1. CpuStep  BY DEF CpuStep
<1>2. /\ TypeOK /\ isr \in SUBSET {0, 1} /\ Top \in Frame /\ EarlyFrame(Top)
      /\ process_table \in [Slots -> Proc] /\ 0 \in Slots
  BY <1>1, EarlyHandler, StackNumbers DEF TypeOK
<1>3. Top.kind = "tick" /\ Top.pc \in {"test", "run"} /\ ~AtWindow(Top)
  BY DEF TickTest, TickRun, At, AtWindow, Window
<1>4. current_pid = 0 /\ Unsaved(1)  BY <1>1, <1>3, EarlyHandler
<1>5. UNCHANGED <<current_pid, tss_esp0, isr>>  BY DEF TickTest, TickRun
<1>6. CASE TickTest /\ NoSwitch
  <2>1. Return /\ UNCHANGED process_table  BY <1>6 DEF TickTest
  <2> QED BY <1>1, <1>3, <1>5, <2>1, EarlyReturn
<1>7. CASE TickTest /\ ~NoSwitch
  <2>1. PICK f : f = [Top EXCEPT !.pc = "run"] /\ Continue(f)
    BY <1>7 DEF TickTest, Goto
  <2>2. Top.pc = "test" /\ Visible /\ Top.next = 0 /\ Top.cur \in Slots \ {0}
    BY <1>2, <1>3, <1>7 DEF TickTest, At, EarlyFrame, NoSwitch, Frame
  <2>3. /\ f \in Frame /\ f.pc = "run" /\ f.kind = "tick" /\ f.prog = Top.prog
        /\ f.cur = Top.cur /\ f.next = 0
    BY <1>2, <1>3, <2>1, <2>2 DEF Frame, TickPc
  <2>4. EarlyFrame(f) /\ ~AtWindow(f)
    BY <1>2, <2>2, <2>3 DEF EarlyFrame, AtWindow, TickPc, Window
  <2>5. process_table[Top.cur].state = "DEAD"
    <3>1. Top.cur >= 1  BY <2>2 DEF Slots
    <3> QED BY <2>2, <3>1 DEF Early, Making, Blank
  <2>6. process_table' = [process_table EXCEPT ![Top.cur].state = "DEAD"]
    BY <1>2, <1>7, <2>2, <2>5 DEF TickTest
  <2>7. /\ process_table' \in [Slots -> Proc]
        /\ \A i \in Slots :
             /\ process_table'[i].pid = process_table[i].pid
             /\ process_table'[i].kernel_stack_top = process_table[i].kernel_stack_top
             /\ process_table'[i].state = process_table[i].state
             /\ process_table'[i].esp = process_table[i].esp
    BY <1>2, <2>2, <2>5, <2>6 DEF Proc
  <2> QED BY <1>1, <1>2, <1>3, <1>5, <2>1, <2>3, <2>4, <2>7, EarlyContinue
<1>8. CASE TickRun
  <2>1. PICK f : f = [Top EXCEPT !.pc = "pid"] /\ Continue(f)
    BY <1>8 DEF TickRun, Goto
  <2>2. Top.pc = "run" /\ Visible /\ Top.next = 0 /\ Top.cur \in Slots \ {0}
    BY <1>2, <1>3, <1>8 DEF TickRun, At, EarlyFrame
  <2>3. /\ f \in Frame /\ f.pc = "pid" /\ f.kind = "tick" /\ f.prog = Top.prog
        /\ f.cur = Top.cur /\ f.next = 0
    BY <1>2, <1>3, <2>1, <2>2 DEF Frame, TickPc
  <2>4. EarlyFrame(f) /\ ~AtWindow(f)
    BY <1>2, <2>2, <2>3 DEF EarlyFrame, AtWindow, TickPc, Window
  <2>5. process_table' = [process_table EXCEPT ![0].state = "RUNNING"]
    BY <1>8, <2>2 DEF TickRun
  <2>6. /\ process_table' \in [Slots -> Proc]
        /\ \A i \in Slots :
             /\ process_table'[i].pid = process_table[i].pid
             /\ process_table'[i].kernel_stack_top = process_table[i].kernel_stack_top
             /\ \/ process_table'[i].state = process_table[i].state
                \/ i = 0 /\ process_table'[i].state = "RUNNING"
             /\ process_table'[i].esp = process_table[i].esp
    BY <1>2, <2>5 DEF Proc
  <2> QED BY <1>1, <1>2, <1>3, <1>5, <2>1, <2>2, <2>3, <2>4, <2>6, EarlyContinue
<1> QED BY <1>6, <1>7, <1>8

\* It takes the first process for the current one and saves kernel_main in a
\* slot without a process.
LEMMA EarlySwitch ==
  ASSUME Early, TickPid \/ TickEsp0 \/ TickSave
  PROVE  Early'
<1>1. CpuStep  BY DEF CpuStep
<1>2. /\ TypeOK /\ isr \in SUBSET {0, 1} /\ Top \in Frame /\ EarlyFrame(Top)
      /\ process_table \in [Slots -> Proc] /\ 0 \in Slots
      /\ stk = BootStack /\ stk \in Stacks /\ dep \in 2..MaxDepth
      /\ Top = kstack[BootStack][dep]
  BY <1>1, EarlyHandler, StackNumbers DEF TypeOK
<1>3. Top.kind = "tick" /\ Top.pc \in {"pid", "esp0", "save"}
  BY DEF TickPid, TickEsp0, TickSave, At
<1>4. Visible /\ Top.next = 0 /\ Top.cur \in Slots \ {0}
  BY <1>2, <1>3 DEF EarlyFrame, Window
<1>5. \A e \in 2..dep-1 : ~AtWindow(kstack[BootStack][e])
  BY <1>1, <1>3, EarlyHandler
<1>6. PICK c \in Window : Goto(c) /\ c = (IF Top.pc = "pid" THEN "esp0"
                                          ELSE IF Top.pc = "esp0" THEN "save"
                                          ELSE "saved")
  BY <1>3 DEF TickPid, TickEsp0, TickSave, At, Window
<1>7. PICK f : f = [Top EXCEPT !.pc = c] /\ Continue(f)  BY <1>6 DEF Goto
<1>8. /\ f \in Frame /\ f.pc = c /\ f.kind = "tick" /\ f.prog = Top.prog
      /\ f.cur = Top.cur /\ f.next = 0
  BY <1>2, <1>3, <1>4, <1>6, <1>7 DEF Frame, TickPc, Window
<1>9. EarlyFrame(f) /\ AtWindow(f)
  BY <1>2, <1>4, <1>6, <1>8 DEF EarlyFrame, AtWindow, TickPc, Window
<1>10. kstack' = [kstack EXCEPT ![BootStack][dep] = f] /\ UNCHANGED <<prog, stk, dep>>
  BY <1>2, <1>7 DEF Continue
<1>11. /\ process_table[0].pid = 1
       /\ KernelMain.pc = "setcur" => process_table[0].kernel_stack_top = 0
       /\ process_table[0].kernel_stack_top \in Stacks \cup {NULL}
  <2>1. KernelMain.pc \notin {"find", "pid"}  BY <1>4 DEF Visible, HalfBuilt
  <2>2. process_table[0].kernel_stack_top \in Stacks \cup {NULL}
    BY <1>2 DEF Proc
  <2> QED BY <2>1, <2>2 DEF Early, Making, Filled
<1>12. CASE TickPid
  <2>1. current_pid' = 1 /\ UNCHANGED <<process_table, tss_esp0, isr>> /\ f.pc = "esp0"
    BY <1>4, <1>6, <1>8, <1>11, <1>12 DEF TickPid, At
  <2> QED BY <1>2, <1>5, <1>8, <1>9, <1>10, <2>1, SlotsKept, EarlyWindow DEF TypeOK
<1>13. CASE TickEsp0
  <2>1. AtWindow(Top)  BY <1>3, <1>13 DEF TickEsp0, At, AtWindow, Window
  <2>2. current_pid = 1  BY <1>1, <1>3, <2>1, EarlyHandler
  <2>3. /\ tss_esp0' = process_table[0].kernel_stack_top
        /\ UNCHANGED <<process_table, current_pid, isr>>
    BY <1>4, <1>13 DEF TickEsp0
  <2> QED BY <1>2, <1>5, <1>8, <1>9, <1>10, <1>11, <2>2, <2>3, SlotsKept, EarlyWindow
<1>14. CASE TickSave
  <2>1. AtWindow(Top) /\ Top.pc = "save"
    BY <1>3, <1>14 DEF TickSave, At, AtWindow, Window
  <2>2. current_pid = 1  BY <1>1, <1>3, <2>1, EarlyHandler
  <2>3. KernelMain.pc = "setcur" => tss_esp0 = 0
    <3>1. dep \in 2..dep  BY <1>2, StackNumbers
    <3> QED BY <1>2, <2>1, <3>1 DEF Early, EarlyBook
  <2>4. <<stk, dep>> \in Esp  BY <1>2, StackNumbers DEF Esp
  <2>5. /\ process_table' = [process_table EXCEPT ![Top.cur].esp = <<stk, dep>>]
        /\ UNCHANGED <<current_pid, tss_esp0, isr>>
    BY <1>14 DEF TickSave
  <2>6. /\ process_table' \in [Slots -> Proc]
        /\ \A i \in Slots :
             /\ process_table'[i].pid = process_table[i].pid
             /\ process_table'[i].kernel_stack_top = process_table[i].kernel_stack_top
             /\ process_table'[i].state = process_table[i].state
             /\ i = 0 => process_table'[i].esp = process_table[i].esp
    BY <1>2, <1>4, <2>4, <2>5 DEF Proc
  <2>7. tss_esp0 \in Stacks \cup {NULL}  BY <1>2 DEF TypeOK
  <2> QED BY <1>2, <1>5, <1>8, <1>9, <1>10, <2>2, <2>3, <2>5, <2>6, <2>7, EarlyWindow
<1> QED BY <1>12, <1>13, <1>14

\* The switch of the stack: to the trampoline of the complete first process,
\* or to a stack pointer that is not there yet.
LEMMA EarlyLoad ==
  ASSUME Early, TickLoad
  PROVE  Lost' \/ Wild'
<1>1. CpuStep  BY DEF CpuStep
<1>2. /\ TypeOK /\ Top \in Frame /\ EarlyFrame(Top) /\ BootFrames
      /\ kstack \in [Stacks -> [1..MaxDepth -> Frame]]
      /\ stk = BootStack /\ dep \in 2..MaxDepth /\ Top = kstack[BootStack][dep]
      /\ 1 \in 1..MaxDepth /\ 0 \in Slots /\ 0 \in Stacks /\ 0 # BootStack
  BY <1>1, EarlyHandler, StackNumbers DEF TypeOK, Early
<1>3. Top.kind = "tick" /\ Top.pc = "saved" /\ AtWindow(Top)
  BY DEF TickLoad, At, AtWindow, Window
<1>4. Visible /\ Top.next = 0  BY <1>2, <1>3 DEF EarlyFrame, Window
<1>5. /\ current_pid = 1
      /\ KernelMain.pc = "setcur" => tss_esp0 = 0
  <2>1. dep \in 2..dep  BY <1>2, StackNumbers
  <2> QED BY <1>2, <1>3, <2>1 DEF Early, EarlyBook
<1>6. UNCHANGED <<process_table, current_pid, tss_esp0, isr>>  BY DEF TickLoad
<1>7. CASE KernelMain.pc \in HalfBuilt
  <2>1. process_table[0].esp = NullEsp
    BY <1>7 DEF Early, Making, Filled, HalfBuilt
  <2>2. NullEsp \notin Esp  BY SchedulerAssumption DEF NullEsp, Esp, Stacks, NULL
  <2>3. prog' = NULL /\ UNCHANGED kstack  BY <1>4, <2>1, <2>2 DEF TickLoad, Lands
  <2> QED BY <1>2, <1>7, <2>3 DEF Wild, BootFrames, KernelMain
<1>8. CASE KernelMain.pc = "setcur"
  <2>1. /\ process_table[0].esp = <<0, 1>> /\ process_table[0].pid = 1
        /\ process_table[0].kernel_stack_top = 0
        /\ process_table[0].state \in {"READY", "RUNNING"}
        /\ kstack[0][1] = Activation("tramp", "get", 0) /\ Blank(1)
    BY <1>8 DEF Early, Making, Filled
  <2> DEFINE t == Activation("tramp", "get", 0)
  <2>2. t.kind = "tramp" /\ t.pc = "get" /\ t.prog = 0  BY DEF Activation
  <2> HIDE DEF t
  <2>3. <<0, 1>> \in Esp /\ Lands(<<0, 1>>) /\ Resumed(t) = t
    BY <1>2, <2>1, <2>2 DEF Esp, Lands, Resumable, Resumed, t
  <2>4. /\ stk' = 0 /\ dep' = 1 /\ prog' = 0
        /\ kstack' = [kstack EXCEPT ![0][1] = t]
    <3>1. /\ stk' = <<0, 1>>[1] /\ dep' = <<0, 1>>[2]
          /\ prog' = kstack[0][1].prog
          /\ kstack' = [kstack EXCEPT ![0][1] = Resumed(kstack[0][1])]
      BY <1>4, <2>1, <2>3 DEF TickLoad
    <3> QED BY <2>1, <2>2, <2>3, <3>1 DEF t
  <2>5. /\ kstack' \in [Stacks -> [1..MaxDepth -> Frame]]
        /\ \A s \in Stacks, d \in 1..MaxDepth : kstack'[s][d] = kstack[s][d]
    <3>1. kstack[0][1] \in Frame  BY <1>2
    <3>2. kstack[0][1] = t  BY <2>1 DEF t
    <3> QED BY <1>2, <2>4, <3>1, <3>2
  <2>6. KernelMain' = KernelMain /\ BootFrames' /\ kstack'[0][1] = t
    BY <1>2, <2>1, <2>5, StackNumbers DEF KernelMain, BootFrames, t
  <2>7. \A d \in 1..dep' : d = 1  BY <2>4
  <2>8. TypeOK'
    BY <1>2, <1>6, <2>4, <2>5, StackNumbers DEF TypeOK
  <2>9. Procs(1) = {0}  BY DEF Procs
  <2>10. \A i \in Slots : i = 0 \/ i >= 1  BY DEF Slots
  <2>11. TableInv(1, 1)'
    BY <1>6, <2>1, <2>3, <2>9, <2>10 DEF TableInv, Blank
  <2>12. RunningInv(1, 1)'
    <3>1. prog' \in Procs(1) /\ stk' \in OwnStacks(prog')
      BY <2>4, <2>9 DEF OwnStacks
    <3>2. LiveFrame(1, prog', 1, kstack'[stk'][1])
      BY <2>2, <2>4, <2>6 DEF LiveFrame
    <3> QED BY <2>7, <3>1, <3>2 DEF RunningInv
  <2>13. BookInv(1)'
    <3>1. ~AtWindow(kstack'[stk'][1])  BY <2>2, <2>4, <2>6 DEF AtWindow
    <3>2. current_pid' = prog' + 1 /\ tss_esp0' \in OwnStacks(prog')
      BY <1>5, <1>6, <1>8, <2>4 DEF OwnStacks
    <3> QED BY <2>7, <3>1, <3>2 DEF BookInv
  <2>14. ParkedInv(1, 1)'
    <3>1. Procs(1) \ {prog'} = {}  BY <2>4, <2>9
    <3> QED BY <3>1 DEF ParkedInv
  <2>15. Unborn(1)'  BY <1>6, <2>1, <2>9, <2>10 DEF Unborn, Blank
  <2> QED BY <1>2, <1>5, <1>6, <1>8, <2>4, <2>6, <2>8, <2>11, <2>12, <2>13,
             <2>14, <2>15 DEF Lost, SwitchInv
<1> QED BY <1>4, <1>7, <1>8 DEF Visible

\* The handlers of the first interrupts.
LEMMA EarlyCpu ==
  ASSUME Early, CpuStep
  PROVE  Early' \/ Lost' \/ Wild'
<1>1. CASE Eoi \/ Body \/ Iret \/ TickCur \/ TickNext  BY <1>1, EarlyQuietStep
<1>2. CASE TickTest \/ TickRun  BY <1>2, EarlyDecide
<1>3. CASE TickPid \/ TickEsp0 \/ TickSave  BY <1>3, EarlySwitch
<1>4. CASE TickLoad  BY <1>4, EarlyLoad
<1>5. CASE TrampGet \/ TrampIret
  BY <1>5, EarlyHandler DEF TrampGet, TrampIret, At, EarlyFrame
<1> QED BY <1>1, <1>2, <1>3, <1>4, <1>5 DEF CpuStep

LEMMA StackStored ==
  ASSUME NEW slot \in Proc, NEW k \in Stacks
  PROVE  LET r == [slot EXCEPT !.kernel_stack_top = k]
         IN  /\ r \in Proc /\ r.kernel_stack_top = k
             /\ r.pid = slot.pid /\ r.state = slot.state /\ r.esp = slot.esp
BY DEF Proc

\* A statement of kernel_main itself: f is its activation afterwards, k[0][1]
\* what lies on the first kernel stack.
LEMMA EarlyMain ==
  ASSUME Early, dep = 1, UNCHANGED <<current_pid, tss_esp0, prog, stk, dep, isr>>,
         process_table' \in [Slots -> Proc],
         kstack' \in [Stacks -> [1..MaxDepth -> Frame]],
         \A s \in Stacks, d \in 1..MaxDepth :
           kstack'[s][d].kind = "boot" <=> s = BootStack /\ d = 1,
         KernelMain'.prog = Shell, KernelMain'.pc \in BootPc \ {"setrun", "iret"},
         Making(0)', Unsaved(1)'
  PROVE  Early'
<1>1. TypeOK'  BY DEF Early, TypeOK
<1>2. BootFrames'  BY DEF BootFrames
<1>3. 2..1 = {}  OBVIOUS
<1>4. EarlyBook'  BY <1>3 DEF EarlyBook, Early
<1> QED BY <1>1, <1>2, <1>3, <1>4 DEF Early

LEMMA EarlyTop ==
  ASSUME Early, NEW c, BootAt(c)
  PROVE  /\ dep = 1 /\ Top = KernelMain /\ Top \in Frame /\ KernelMain.pc = c
         /\ Top.kind = "boot" /\ Top.prog = Shell /\ Top.cur = 0
         /\ c # "find" => Top.next = 0
         /\ current_pid = 0 /\ tss_esp0 = StaticStack /\ Unsaved(1)
<1>1. stk = BootStack /\ dep \in 1..MaxDepth
  BY StackNumbers DEF Early, TypeOK
<1>2. dep = 1  BY <1>1, StackNumbers DEF BootAt, Early, BootFrames, Top
<1>3. Top = KernelMain /\ Top \in Frame
  BY <1>1, <1>2, StackNumbers DEF Top, KernelMain, Early, TypeOK
<1>4. current_pid = 0 /\ tss_esp0 = StaticStack /\ Unsaved(1)
  <2>1. 2..dep = {}  BY <1>2
  <2> QED BY <2>1 DEF Early, EarlyBook
<1> QED BY <1>2, <1>3, <1>4 DEF Early, Making, Filled, BootAt

\* One statement of process_create for the first process.
LEMMA EarlyStatement ==
  ASSUME Early, dep = 1, Unsaved(1), NEW f \in Frame, Continue(f), f.kind = "boot",
         f.prog = Shell, f.pc \in BootPc \ {"setrun", "iret"},
         NEW r \in Proc, process_table' = [process_table EXCEPT ![0] = r],
         UNCHANGED <<current_pid, tss_esp0, isr>>,
         Filled(0, f, r),
         f.pc \in {"esp", "setcur"} => KernelMain.pc \in {"esp", "setcur"}
  PROVE  Early'
<1>1. kstack' = [kstack EXCEPT ![BootStack][1] = f] /\ UNCHANGED <<prog, stk, dep>>
  BY DEF Continue, Early
<1>2. /\ kstack \in [Stacks -> [1..MaxDepth -> Frame]]
      /\ process_table \in [Slots -> Proc]
  BY DEF Early, TypeOK
<1>3. \A s \in Stacks, d \in 1..MaxDepth :
        kstack'[s][d] = IF s = BootStack /\ d = 1 THEN f ELSE kstack[s][d]
  BY <1>1, <1>2
<1>4. kstack' \in [Stacks -> [1..MaxDepth -> Frame]]  BY <1>1, <1>2
<1>5. 1 \in 1..MaxDepth  BY StackNumbers
<1>6. \A s \in Stacks, d \in 1..MaxDepth :
        kstack'[s][d].kind = "boot" <=> s = BootStack /\ d = 1
  BY <1>3 DEF Early, BootFrames
<1>7. KernelMain' = f /\ kstack'[0][1] = kstack[0][1]
  BY <1>3, <1>5, StackNumbers DEF KernelMain
<1>8. /\ process_table' \in [Slots -> Proc] /\ process_table'[0] = r
      /\ \A i \in Slots : i >= 1 => process_table'[i] = process_table[i]
  BY <1>2, StackNumbers
<1>9. Making(0)'
  <2>1. Blank(1)  BY DEF Early, Making
  <2>2. Blank(1)'  BY <1>8, <2>1 DEF Blank
  <2>3. f.pc \in {"esp", "setcur"} => kstack'[0][1] = Activation("tramp", "get", 0)
    BY <1>7 DEF Early, Making
  <2>4. Filled(0, KernelMain', process_table'[0])  BY <1>7, <1>8
  <2> QED BY <1>7, <2>2, <2>3, <2>4, StackNumbers DEF Making, Filled
<1>10. Unsaved(1)'  BY <1>8 DEF Unsaved
<1> QED BY <1>1, <1>4, <1>6, <1>7, <1>8, <1>9, <1>10, EarlyMain

LEMMA FirstFree ==
  ASSUME Early, KernelMain.pc = "find"
  PROVE  Min({i \in Slots : process_table[i].state = "DEAD"}) = 0
<1>1. \A i \in Slots : i = 0 \/ i >= 1  BY DEF Slots
<1>2. {i \in Slots : process_table[i].state = "DEAD"} = Slots
  BY <1>1 DEF Early, Making, Filled, Blank
<1>3. Slots \in SUBSET Nat /\ Slots # {} /\ 0 \in Slots  BY StackNumbers DEF Slots
<1>4. Min(Slots) \in Slots /\ \A i \in Slots : Min(Slots) <= i  BY <1>3, MinIn
<1>5. Min(Slots) = 0  BY <1>3, <1>4 DEF Slots
<1> QED BY <1>2, <1>5

LEMMA EarlyCreate ==
  ASSUME Early, CreateFind \/ CreatePid \/ CreateState \/ CreateStack
                  \/ CreateFake \/ CreateEsp
  PROVE  Early'
<1> DEFINE slot == process_table[0]
<1>1. /\ process_table \in [Slots -> Proc] /\ 0 \in Slots /\ slot \in Proc
      /\ kstack \in [Stacks -> [1..MaxDepth -> Frame]]
  BY StackNumbers DEF Early, TypeOK
<1>2. Filled(0, KernelMain, slot)
  BY StackNumbers DEF Early, Making
<1>3. CASE CreateFind
  <2>1. /\ dep = 1 /\ Top = KernelMain /\ Top \in Frame /\ KernelMain.pc = "find"
        /\ Top.kind = "boot" /\ Top.prog = Shell /\ Top.cur = 0 /\ Unsaved(1)
    BY <1>3, EarlyTop DEF CreateFind
  <2>2. PICK f : f = [Top EXCEPT !.pc = "pid", !.next = 0] /\ Continue(f)
    BY <1>3, <2>1, FirstFree DEF CreateFind
  <2>3. f \in Frame /\ f.kind = "boot" /\ f.prog = Shell /\ f.pc = "pid"
        /\ f.cur = 0 /\ f.next = 0
    BY <1>1, <2>1, <2>2 DEF Frame, BootPc
  <2>4. Filled(0, f, slot)  BY <1>2, <2>1, <2>3 DEF Filled
  <2>5. process_table' = [process_table EXCEPT ![0] = slot]
    BY <1>1, <1>3 DEF CreateFind
  <2> QED BY <1>1, <1>3, <2>1, <2>2, <2>3, <2>4, <2>5, EarlyStatement
          DEF CreateFind, BootPc
<1>4. CASE CreatePid
  <2>1. /\ dep = 1 /\ Top = KernelMain /\ Top \in Frame /\ KernelMain.pc = "pid"
        /\ Top.kind = "boot" /\ Top.prog = Shell /\ Top.cur = 0 /\ Top.next = 0
        /\ Unsaved(1)
    BY <1>4, EarlyTop DEF CreatePid
  <2>2. PICK r : /\ r = [slot EXCEPT !.pid = 1]
                 /\ process_table' = [process_table EXCEPT ![0] = r]
    <3>1. Top.cur + 1 = 1  BY <2>1
    <3> QED BY <1>4, <2>1, <3>1 DEF CreatePid
  <2>3. PICK f : f = [Top EXCEPT !.pc = "state"] /\ Continue(f)
    BY <1>4 DEF CreatePid, Goto
  <2>4. f \in Frame /\ f.kind = "boot" /\ f.prog = Shell /\ f.pc = "state"
        /\ f.cur = 0 /\ f.next = 0
    BY <2>1, <2>3 DEF Frame, BootPc
  <2>5. r \in Proc /\ r.pid = 1 /\ r.state = slot.state /\ r.esp = slot.esp
    <3>1. 1 \in 0..MaxProcesses  BY StackNumbers
    <3> QED BY <1>1, <2>2, <3>1 DEF Proc
  <2>6. Filled(0, f, r)  BY <1>2, <2>1, <2>4, <2>5 DEF Filled
  <2> QED BY <1>4, <2>1, <2>2, <2>3, <2>4, <2>5, <2>6, EarlyStatement
          DEF CreatePid, BootPc
<1>5. CASE CreateState
  <2>1. /\ dep = 1 /\ Top = KernelMain /\ Top \in Frame /\ KernelMain.pc = "state"
        /\ Top.kind = "boot" /\ Top.prog = Shell /\ Top.cur = 0 /\ Top.next = 0
        /\ Unsaved(1)
    BY <1>5, EarlyTop DEF CreateState
  <2>2. PICK r : /\ r = [slot EXCEPT !.state = "READY"]
                 /\ process_table' = [process_table EXCEPT ![0] = r]
    BY <1>5, <2>1 DEF CreateState
  <2>3. PICK f : f = [Top EXCEPT !.pc = "stack"] /\ Continue(f)
    BY <1>5 DEF CreateState, Goto
  <2>4. f \in Frame /\ f.kind = "boot" /\ f.prog = Shell /\ f.pc = "stack"
        /\ f.cur = 0 /\ f.next = 0
    BY <2>1, <2>3 DEF Frame, BootPc
  <2>5. r \in Proc /\ r.state = "READY" /\ r.pid = slot.pid /\ r.esp = slot.esp
    BY <1>1, <2>2 DEF Proc
  <2>6. Filled(0, f, r)  BY <1>2, <2>1, <2>4, <2>5 DEF Filled
  <2> QED BY <1>5, <2>1, <2>2, <2>3, <2>4, <2>5, <2>6, EarlyStatement
          DEF CreateState, BootPc
<1>6. CASE CreateStack
  <2>1. /\ dep = 1 /\ Top = KernelMain /\ Top \in Frame /\ KernelMain.pc = "stack"
        /\ Top.kind = "boot" /\ Top.prog = Shell /\ Top.cur = 0 /\ Top.next = 0
        /\ Unsaved(1)
    BY <1>6, EarlyTop DEF CreateStack
  <2>2. PICK r : /\ r = [slot EXCEPT !.kernel_stack_top = 0]
                 /\ process_table' = [process_table EXCEPT ![0] = r]
    BY <1>6, <2>1 DEF CreateStack
  <2>3. PICK f : f = [Top EXCEPT !.pc = "fake"] /\ Continue(f)
    BY <1>6 DEF CreateStack, Goto
  <2>4. f \in Frame /\ f.kind = "boot" /\ f.prog = Shell /\ f.pc = "fake"
        /\ f.cur = 0 /\ f.next = 0
    BY <2>1, <2>3 DEF Frame, BootPc
  <2>5. /\ r \in Proc /\ r.kernel_stack_top = 0 /\ r.pid = slot.pid
        /\ r.state = slot.state /\ r.esp = slot.esp
    <3>1. slot \in Proc /\ 0 \in Stacks  BY <1>1, StackNumbers
    <3> HIDE DEF slot
    <3> QED BY <2>2, <3>1, StackStored
  <2>6. Filled(0, f, r)  BY <1>2, <2>1, <2>4, <2>5 DEF Filled
  <2> QED BY <1>6, <2>1, <2>2, <2>3, <2>4, <2>5, <2>6, EarlyStatement
          DEF CreateStack, BootPc
<1>7. CASE CreateFake
  <2>1. /\ dep = 1 /\ Top = KernelMain /\ Top \in Frame /\ KernelMain.pc = "fake"
        /\ Top.kind = "boot" /\ Top.prog = Shell /\ Top.cur = 0 /\ Top.next = 0
        /\ Unsaved(1)
    <3>1. BootAt("fake")  BY <1>7 DEF CreateFake
    <3> QED BY <3>1, EarlyTop
  <2>2. process_table[0].kernel_stack_top = 0 /\ stk = BootStack
    BY <2>1 DEF Early, Making, Filled
  <2> DEFINE t == Activation("tramp", "get", 0)
             f == [KernelMain EXCEPT !.pc = "esp"]
  <2>3. t \in Frame /\ t.kind = "tramp" /\ f \in Frame /\ f.kind = "boot"
        /\ f.prog = Shell /\ f.cur = 0 /\ f.pc = "esp" /\ f.next = 0
    BY <1>1, <2>1 DEF Frame, BootPc, Activation
  <2>4. kstack' = [kstack EXCEPT ![0][1] = t, ![BootStack][1].pc = "esp"]
    BY <1>7, <2>1, <2>2 DEF CreateFake
  <2>5. 1 \in 1..MaxDepth /\ 0 \in Stacks  BY StackNumbers
  <2>6. /\ kstack' \in [Stacks -> [1..MaxDepth -> Frame]]
        /\ \A s \in Stacks, d \in 1..MaxDepth :
             kstack'[s][d] = IF s = BootStack /\ d = 1 THEN f
                             ELSE IF s = 0 /\ d = 1 THEN t ELSE kstack[s][d]
    BY <1>1, <2>3, <2>4, <2>5, StackNumbers DEF KernelMain
  <2>7. Filled(0, f, slot)  BY <1>2, <2>1, <2>3 DEF Filled
  <2> HIDE DEF f
  <2>8. KernelMain' = f /\ kstack'[0][1] = t
    BY <1>1, <2>5, <2>6, StackNumbers DEF KernelMain
  <2>9. \A s \in Stacks, d \in 1..MaxDepth :
          kstack'[s][d].kind = "boot" <=> s = BootStack /\ d = 1
    BY <2>3, <2>6 DEF Early, BootFrames
  <2>10. UNCHANGED <<process_table, current_pid, tss_esp0, prog, stk, dep, isr>>
    BY <1>7 DEF CreateFake
  <2>11. Making(0)'
    <3>1. Blank(1)  BY StackNumbers DEF Early, Making
    <3>2. Blank(1)'  BY <2>10, <3>1 DEF Blank
    <3> QED BY <2>7, <2>8, <2>10, <3>2, StackNumbers DEF Making, Filled
  <2>12. Unsaved(1)'  BY <2>1, <2>10 DEF Unsaved
  <2> QED BY <1>1, <2>1, <2>3, <2>6, <2>8, <2>9, <2>10, <2>11, <2>12, EarlyMain
          DEF BootPc
<1>8. CASE CreateEsp
  <2>1. /\ dep = 1 /\ Top = KernelMain /\ Top \in Frame /\ KernelMain.pc = "esp"
        /\ Top.kind = "boot" /\ Top.prog = Shell /\ Top.cur = 0 /\ Top.next = 0
        /\ Unsaved(1)
    BY <1>8, EarlyTop DEF CreateEsp
  <2>2. slot.kernel_stack_top = 0  BY <1>2, <2>1 DEF Filled
  <2>3. PICK r : /\ r = [slot EXCEPT !.esp = <<0, 1>>]
                 /\ process_table' = [process_table EXCEPT ![0] = r]
    BY <1>8, <2>1, <2>2 DEF CreateEsp
  <2>4. PICK f : f = [Top EXCEPT !.pc = "setcur"] /\ Continue(f)
    BY <1>8, <2>1 DEF CreateEsp, Goto
  <2>5. f \in Frame /\ f.kind = "boot" /\ f.prog = Shell /\ f.pc = "setcur"
        /\ f.cur = 0 /\ f.next = 0
    BY <2>1, <2>4 DEF Frame, BootPc
  <2>6. <<0, 1>> \in Esp  BY StackNumbers DEF Esp
  <2>7. /\ r \in Proc /\ r.esp = <<0, 1>> /\ r.pid = slot.pid
        /\ r.state = slot.state /\ r.kernel_stack_top = slot.kernel_stack_top
    BY <1>1, <2>3, <2>6 DEF Proc
  <2>8. Filled(0, f, r)  BY <1>2, <2>1, <2>2, <2>5, <2>7 DEF Filled
  <2> QED BY <1>8, <2>1, <2>3, <2>4, <2>5, <2>7, <2>8, EarlyStatement
          DEF CreateEsp, BootPc
<1> QED BY <1>3, <1>4, <1>5, <1>6, <1>7, <1>8

\* The shell becomes the current process: from here on there is one to switch to.
LEMMA EarlySetCurrent ==
  ASSUME Early, SetCurrent
  PROVE  1 \in 1..NProc /\ Shared(1)'
<1>1. /\ dep = 1 /\ Top = KernelMain /\ Top \in Frame /\ KernelMain.pc = "setcur"
      /\ Top.kind = "boot" /\ Top.prog = Shell /\ Top.cur = 0 /\ Top.next = 0
      /\ tss_esp0 = StaticStack /\ Unsaved(1)
  BY EarlyTop DEF SetCurrent
<1>2. PICK f : f = [Top EXCEPT !.pc = "setrun"] /\ Continue(f)
  BY DEF SetCurrent, Goto
<1>3. f \in Frame /\ f.kind = "boot" /\ f.prog = Shell /\ f.pc = "setrun"
      /\ f.cur = 0 /\ f.next = 0
  BY <1>1, <1>2 DEF Frame, BootPc
<1>4. /\ TypeOK /\ prog = Shell /\ stk = BootStack /\ BootFrames /\ Making(0)
      /\ kstack \in [Stacks -> [1..MaxDepth -> Frame]]
  BY DEF Early, TypeOK
<1>5. kstack' = [kstack EXCEPT ![BootStack][1] = f] /\ UNCHANGED <<prog, stk, dep>>
  BY <1>1, <1>2, <1>4 DEF Continue
<1>6. \A s \in Stacks, d \in 1..MaxDepth :
        kstack'[s][d] = IF s = BootStack /\ d = 1 THEN f ELSE kstack[s][d]
  BY <1>4, <1>5
<1>7. kstack' \in [Stacks -> [1..MaxDepth -> Frame]]  BY <1>3, <1>4, <1>5
<1>8. 1 \in 1..MaxDepth /\ 1 \in 1..NProc /\ 1 \in 0..MaxProcesses
  BY StackNumbers
<1>9. KernelMain' = f /\ kstack'[stk'][1] = f
  BY <1>4, <1>5, <1>6, <1>8, StackNumbers DEF KernelMain
<1>10. /\ process_table[0].pid = 1 /\ process_table[0].kernel_stack_top = 0
       /\ process_table[0].state \in {"READY", "RUNNING"}
       /\ process_table[0].esp = <<0, 1>>
       /\ Blank(1)
  BY <1>1, <1>4 DEF Making, Filled
<1>11. current_pid' = 1 /\ UNCHANGED <<process_table, tss_esp0, isr>>
  BY <1>1, <1>10 DEF SetCurrent
<1>12. TypeOK'  BY <1>4, <1>5, <1>7, <1>8, <1>1, <1>11, StackNumbers DEF TypeOK
<1>13. TableInv(1, 1)'
  <2>1. Procs(1) = {0} /\ <<0, 1>> \in Esp  BY StackNumbers DEF Procs, Esp
  <2>2. \A i \in Slots : i = 0 \/ i >= 1  BY DEF Slots
  <2> QED BY <1>10, <1>11, <2>1, <2>2 DEF TableInv, Blank
<1>14. RunningInv(1, 1)'
  <2>1. prog' \in Procs(1) /\ stk' \in OwnStacks(prog')
    BY <1>4, <1>5 DEF Procs, OwnStacks, Shell
  <2>2. LiveFrame(1, prog', 1, kstack'[stk'][1])
    BY <1>3, <1>4, <1>5, <1>9 DEF LiveFrame
  <2>3. \A d \in 1..dep' : d = 1  BY <1>1, <1>5
  <2> QED BY <2>1, <2>2, <2>3 DEF RunningInv
<1>15. BookInv(1)'
  <2>1. \A d \in 1..dep' : d = 1  BY <1>1, <1>5
  <2>2. ~AtWindow(kstack'[stk'][1])  BY <1>3, <1>9 DEF AtWindow
  <2>3. current_pid' = prog' + 1  BY <1>4, <1>5, <1>11 DEF Shell
  <2>4. tss_esp0' \in OwnStacks(prog')
    BY <1>1, <1>4, <1>5, <1>11 DEF OwnStacks
  <2> QED BY <2>1, <2>2, <2>3, <2>4 DEF BookInv
<1>16. ParkedInv(1, 1)'
  <2>1. Procs(1) \ {prog'} = {}  BY <1>4, <1>5 DEF Procs, Shell
  <2> QED BY <2>1 DEF ParkedInv
<1>17. BootFrames'  BY <1>3, <1>4, <1>6 DEF BootFrames
<1>18. Seen(1)' = 1  BY <1>3, <1>9 DEF Seen, HalfBuilt
<1>19. ShellBooting'  BY <1>1, <1>4, <1>5 DEF ShellBooting
<1>20. MainAt(1)'
  BY <1>1, <1>3, <1>9, <1>10, <1>11 DEF MainAt, Blank, Unsaved, BootPc
<1> QED BY <1>8, <1>12, <1>13, <1>14, <1>15, <1>16, <1>17, <1>18, <1>19, <1>20
        DEF Shared, SwitchInv

LEMMA EarlyStep ==
  ASSUME Early, BootNext
  PROVE  Early' \/ (1 \in 1..NProc /\ Shared(1)') \/ Lost' \/ Wild'
<1>1. dep > 0  BY DEF Early
<1>2. CASE TimerIrq \/ KeyboardIrq  BY <1>2, EarlyIrq
<1>3. CASE Syscall  BY <1>1, <1>3 DEF Syscall
<1>4. CASE CpuStep  BY <1>4, EarlyCpu
<1>5. CASE SetCurrent  BY <1>5, EarlySetCurrent
<1>6. CASE SetRunning  BY <1>6, EarlyTop DEF SetRunning, Early
<1>7. CASE BootIret  BY <1>7, EarlyTop DEF BootIret, Early
<1> QED BY <1>2, <1>3, <1>4, <1>5, <1>6, <1>7, EarlyCreate DEF BootNext, BootStep

-----------------------------------------------------------------------------
(* Processes and kernel_main take turns: the steps of the interrupt paths    *)

\* scheduler_next finds one slot more than there are complete processes, or none.
LEMMA SeenRange ==
  ASSUME NEW n \in 1..NProc, Shared(n)
  PROVE  /\ Seen(n) \in n..NProc
         /\ KernelMain.pc \in HalfBuilt => Seen(n) = n + 1 /\ n < NProc /\ Making(n)
         /\ KernelMain.pc \notin HalfBuilt => Seen(n) = n
<1>1. KernelMain.pc \in HalfBuilt => n < NProc /\ Making(n)
  BY DEF Shared, MainAt, Making, HalfBuilt
<1> QED BY <1>1, StackNumbers DEF Seen

LEMMA SharedTop ==
  ASSUME NEW n \in 1..NProc, Shared(n), prog # NULL, dep > 0, Top.kind = "boot"
  PROVE  /\ prog = Shell /\ stk = BootStack /\ dep = 1
         /\ Top = KernelMain /\ Top \in Frame /\ Top.prog = Shell
<1>1. PICK m \in n..NProc : m = Seen(n)  BY SeenRange
<1>2. /\ stk \in Stacks /\ dep \in 1..MaxDepth /\ Top \in Frame
      /\ LiveFrame(m, prog, dep, Top)
  BY <1>1, TopFacts DEF Shared
<1>3. stk = BootStack /\ dep = 1  BY <1>2 DEF Shared, BootFrames, Top
<1> QED BY <1>2, <1>3 DEF LiveFrame, Top, KernelMain

LEMMA SharedUnborn ==
  ASSUME NEW n \in 1..NProc, Shared(n)
  PROVE  Unborn(Seen(n))
<1>1. \A i \in Slots \ Procs(n) : i >= n /\ (i = n \/ i >= n + 1)
  BY StackNumbers DEF Slots, Procs
<1>2. \A i \in Slots \ Procs(n + 1) : i >= n + 1
  BY StackNumbers DEF Slots, Procs
<1>3. CASE KernelMain.pc \in {"setrun", "iret"}
  <2>1. Blank(n) /\ Seen(n) = n
    BY <1>3 DEF Shared, MainAt, Blank, Seen, HalfBuilt
  <2> QED BY <1>1, <2>1 DEF Blank, Unborn
<1>4. CASE KernelMain.pc \in {"find", "pid", "state"}
  <2>1. Seen(n) = n  BY <1>4 DEF Seen, HalfBuilt
  <2> QED BY <1>1, <1>4, <2>1 DEF Shared, MainAt, Making, Filled, Blank, Unborn
<1>5. CASE KernelMain.pc \in HalfBuilt
  <2>1. Seen(n) = n + 1 /\ Blank(n + 1)  BY <1>5, SeenRange DEF Making
  <2> QED BY <1>2, <2>1 DEF Blank, Unborn
<1> QED BY <1>3, <1>4, <1>5 DEF Shared, MainAt, BootPc, HalfBuilt

\* Nothing is entered on the boot stack while another process runs.
LEMMA EntryElsewhere ==
  ASSUME NEW n \in 1..NProc, Shared(n), dep = 0
  PROVE  tss_esp0 # BootStack
<1>1. prog # Shell  BY DEF Shared, ShellBooting
<1>2. \A e \in 1..dep : ~AtWindow(kstack[stk][e])  OBVIOUS
<1>3. tss_esp0 \in OwnStacks(prog) /\ prog \in Slots
  BY <1>2, OwnStacksDisjoint DEF Shared, SwitchInv, BookInv, RunningInv
<1> QED BY <1>1, <1>3, StackNumbers DEF OwnStacks

\* No step overwrites kernel_main's activation ...
LEMMA MainKept ==
  ASSUME NEW n \in 1..NProc, NEW m \in n..NProc, SwitchInv(n, m), BootFrames,
         dep = 0 => tss_esp0 # BootStack, Next
  PROVE  BootFrames' /\ KernelMain' = KernelMain
<1>1. /\ TypeOK /\ 1 \in 1..MaxDepth
      /\ kstack \in [Stacks -> [1..MaxDepth -> Frame]]
  BY StackNumbers DEF SwitchInv, TypeOK
<1>2. CASE UNCHANGED kstack  BY <1>2 DEF BootFrames, KernelMain
<1>3. ASSUME NEW s \in Stacks, NEW d \in 1..MaxDepth, NEW f,
             kstack' = [kstack EXCEPT ![s][d] = f], f.kind # "boot",
             kstack[s][d].kind # "boot" \/ (s = stk' /\ d = dep + 1 /\ d = dep')
      PROVE  BootFrames' /\ KernelMain' = KernelMain
  <2>1. ~(s = BootStack /\ d = 1)
    <3> SUFFICES ASSUME s = BootStack, d = 1 PROVE FALSE  OBVIOUS
    <3>1. stk' = BootStack /\ dep = 0  BY <1>1, <1>3 DEF BootFrames, TypeOK
    <3>2. ~CpuStep
      BY <3>1 DEF CpuStep, Eoi, TickCur, TickNext, TickTest, TickRun, TickPid,
                  TickEsp0, TickSave, TickLoad, Body, Iret, TrampGet, TrampIret, At
    <3>3. \E k, c : Enter(k, c)
      BY <3>2 DEF Next, TimerIrq, KeyboardIrq, Syscall
    <3> QED BY <3>1, <3>3 DEF Enter
  <2>2. \A t \in Stacks, e \in 1..MaxDepth :
          kstack'[t][e] = IF t = s /\ e = d THEN f ELSE kstack[t][e]
    BY <1>1, <1>3
  <2>3. kstack[s][d].kind # "boot"  BY <2>1 DEF BootFrames
  <2>4. BootFrames'  BY <1>3, <2>2, <2>3 DEF BootFrames
  <2>5. KernelMain' = KernelMain  BY <1>1, <2>1, <2>2, StackNumbers DEF KernelMain
  <2> QED BY <2>4, <2>5
<1> QED BY <1>2, <1>3, OneWrite

\* ... or what it is preparing, but for marking the process as running.
LEMMA MainStays ==
  ASSUME NEW n \in 1..NProc, Shared(n), Next
  PROVE  BootFrames' /\ KernelMain' = KernelMain /\ MainAt(n)'
<1>1. PICK m \in n..NProc : m = Seen(n)  BY SeenRange
<1>2. SwitchInv(n, m) /\ BootFrames /\ MainAt(n) /\ TypeOK
  BY <1>1 DEF Shared, SwitchInv
<1>3. BootFrames' /\ KernelMain' = KernelMain
  BY <1>2, EntryElsewhere, MainKept DEF Shared
<1>4. \A i \in Slots : i >= n =>
        \/ process_table'[i] = process_table[i]
        \/ /\ i \in Procs(m)
           /\ process_table'[i] = [process_table[i] EXCEPT !.state = "RUNNING"]
  <2>1. \A i \in Slots : i >= n => i \notin Procs(n)  BY StackNumbers DEF Procs, Slots
  <2> QED BY <1>2, <2>1, Strangers
<1>5. \A i \in Slots : i >= n /\ i \in Procs(m) => KernelMain.pc \in HalfBuilt /\ i = n
  BY <1>1, SeenRange, StackNumbers DEF Procs, Slots
<1>6. \A i \in Slots : i >= n =>
        /\ process_table'[i].pid = process_table[i].pid
        /\ process_table'[i].esp = process_table[i].esp
        /\ process_table'[i].kernel_stack_top = process_table[i].kernel_stack_top
        /\ \/ process_table'[i].state = process_table[i].state
           \/ KernelMain.pc \in HalfBuilt /\ i = n /\ process_table'[i].state = "RUNNING"
  <2> SUFFICES ASSUME NEW i \in Slots, i >= n
               PROVE  /\ process_table'[i].pid = process_table[i].pid
                      /\ process_table'[i].esp = process_table[i].esp
                      /\ process_table'[i].kernel_stack_top
                           = process_table[i].kernel_stack_top
                      /\ \/ process_table'[i].state = process_table[i].state
                         \/ /\ KernelMain.pc \in HalfBuilt /\ i = n
                            /\ process_table'[i].state = "RUNNING"
    OBVIOUS
  <2>1. process_table[i] \in Proc  BY <1>2 DEF TypeOK
  <2> QED BY <1>4, <1>5, <2>1 DEF Proc
<1>7. Unsaved(n)'  BY <1>2, <1>6 DEF MainAt, Unsaved
<1>8. \A i \in Slots : i >= n + 1 => i >= n /\ i # n  BY StackNumbers DEF Slots
<1>9. Blank(n + 1) => Blank(n + 1)'  BY <1>6, <1>8 DEF Blank
<1>10. KernelMain.pc \notin HalfBuilt /\ Blank(n) => Blank(n)'  BY <1>6 DEF Blank
<1>11. ASSUME Making(n) PROVE Making(n)'
  <2>1. n < NProc /\ n \in Slots /\ n >= n  BY <1>11, StackNumbers DEF Making
  <2>2. kstack'[n][1] = kstack[n][1]
    <3>1. n \in Stacks /\ \A r \in Procs(n) : n \notin OwnStacks(r)
      BY <2>1, StackNumbers, SchedulerAssumption
         DEF OwnStacks, Procs, Slots, Stacks, StaticStack, BootStack, PID_LIMIT
    <3>2. PICK r \in Procs(n) \cap {prog, prog'} : \A t \in Stacks :
            t \notin OwnStacks(r) => kstack'[t] = kstack[t]
      BY <1>2, StepWrites
    <3> QED BY <3>1, <3>2
  <2>3. Filled(n, KernelMain, process_table[n])  BY <1>11 DEF Making
  <2>4. Filled(n, KernelMain, process_table'[n])
    BY <1>6, <2>1, <2>3 DEF Filled, HalfBuilt
  <2> QED BY <1>3, <1>9, <1>11, <2>1, <2>2, <2>4 DEF Making, Filled
<1>12. MainAt(n)'
  <2>1. CASE KernelMain.pc = "setrun"
    BY <1>2, <1>3, <1>7, <1>10, <2>1 DEF MainAt, HalfBuilt, Blank
  <2>2. CASE KernelMain.pc = "iret"
    BY <1>2, <1>3, <1>7, <1>10, <2>2 DEF MainAt, HalfBuilt
  <2>3. CASE KernelMain.pc \notin {"setrun", "iret"}
    BY <1>2, <1>3, <1>7, <1>11, <2>3 DEF MainAt
  <2> QED BY <2>1, <2>2, <2>3
<1> QED BY <1>3, <1>12

\* kernel_main is left and resumed with the shell.
LEMMA ShellStays ==
  ASSUME NEW n \in 1..NProc, NEW m \in n..NProc, SwitchInv(n, m), BootFrames,
         ShellBooting, Next, prog' # NULL
  PROVE  ShellBooting'
<1>1. SwitchInv(n, m) /\ BootFrames /\ ShellBooting /\ TypeOK
  BY DEF SwitchInv
<1>2. Shell \in Procs(n)  BY DEF Procs, Shell
<1>3. \A p \in Procs(n) : p # prog =>
        process_table'[p].esp = process_table[p].esp
  BY <1>1, StepWrites
<1>4. CASE UNCHANGED prog /\ prog # Shell
  BY <1>1, <1>2, <1>3, <1>4 DEF ShellBooting
<1>5. ASSUME prog = Shell, UNCHANGED <<prog, stk>>, dep' > 0
      PROVE  ShellBooting'
  BY <1>1, <1>5 DEF ShellBooting
<1>6. CASE TimerIrq \/ KeyboardIrq \/ Syscall
  <2>1. \E k, c : Enter(k, c)  BY <1>6 DEF TimerIrq, KeyboardIrq, Syscall
  <2>2. UNCHANGED prog /\ dep' = dep + 1 /\ (dep # 0 => stk' = stk)
    BY <2>1 DEF Enter
  <2>3. CASE prog = Shell
    <3>1. dep > 0 /\ dep' > 0  BY <1>1, <2>2, <2>3 DEF ShellBooting, TypeOK
    <3> QED BY <1>5, <2>2, <2>3, <3>1
  <2> QED BY <1>4, <2>2, <2>3
<1>7. CASE Eoi \/ TickCur \/ TickNext \/ TickTest \/ TickRun \/ TickPid
             \/ TickEsp0 \/ TickSave \/ Body \/ TrampGet
  <2>1. UNCHANGED <<prog, stk, dep>> /\ dep > 0
    BY <1>1, <1>7, Statement DEF Continue
  <2> QED BY <1>4, <1>5, <2>1
<1>8. CASE Iret \/ TrampIret
  <2>1. prog # NULL /\ dep > 0 /\ Top.kind # "boot"
    BY <1>8 DEF Iret, TrampIret, At
  <2>2. /\ dep \in 1..MaxDepth /\ stk \in Stacks
        /\ LiveFrame(m, prog, dep, Top)
    BY <1>1, <2>1, TopFacts
  <2>3. prog = Shell => dep # 1
    BY <1>1, <2>1, <2>2 DEF ShellBooting, BootFrames, Top
  <2>4. CASE Iret
    <3>1. UNCHANGED <<prog, stk>> /\ dep' = dep - 1  BY <2>4 DEF Iret
    <3>2. prog = Shell => dep' > 0  BY <2>2, <2>3, <3>1
    <3> QED BY <1>4, <1>5, <3>1, <3>2
  <2>5. CASE TrampIret
    <3>1. Top.kind = "tramp" /\ Top.pc = "iret" /\ prog' = Top.cur
      BY <2>5 DEF TrampIret, At
    <3>2. dep = 1 /\ UNCHANGED prog  BY <2>2, <3>1 DEF LiveFrame
    <3> QED BY <1>4, <2>3, <3>2
  <2> QED BY <1>8, <2>4, <2>5
<1>9. CASE TickLoad
  <2>1. prog # NULL /\ dep > 0 /\ Top.pc = "saved" /\ Top.kind = "tick"
    BY <1>9 DEF TickLoad, At
  <2>2. /\ prog \in Procs(n) /\ dep \in 1..MaxDepth
        /\ Top.next \in Procs(n) /\ Top.next # prog
    BY <1>1, <1>9, <2>1, TopFacts, LoadLands
  <2>3. PICK q \in Procs(n), e \in Esp :
          q = Top.next /\ q # prog /\ e = process_table[q].esp
    BY <1>1, <2>2 DEF SwitchInv, ParkedInv
  <2>4. Lands(e) /\ kstack[e[1]][e[2]].prog = q
    <3>1. /\ Resumable(kstack[e[1]][e[2]])
          /\ \A d \in 1..e[2] : LiveFrame(m, q, d, kstack[e[1]][d])
      BY <1>1, <2>3 DEF SwitchInv, ParkedInv
    <3>2. e[2] \in 1..e[2]  BY StackNumbers DEF Esp
    <3> QED BY <3>1, <3>2 DEF Lands, LiveFrame
  <2>5. prog' = q /\ stk' = e[1] /\ dep' = e[2] /\ UNCHANGED process_table
    BY <1>9, <2>3, <2>4 DEF TickLoad
  <2>6. dep' > 0  BY <2>5, StackNumbers DEF Esp
  <2>7. CASE q = Shell  BY <1>1, <2>3, <2>5, <2>6, <2>7 DEF ShellBooting
  <2>8. CASE q # Shell /\ prog = Shell
    <3>1. AtWindow(Top) /\ dep \in 1..dep  BY <2>1, <2>2 DEF AtWindow, Window
    <3>2. process_table[prog].esp = <<stk, dep>>
      BY <1>1, <2>1, <3>1 DEF SwitchInv, BookInv, Top
    <3> QED BY <1>1, <2>5, <2>8, <3>2 DEF ShellBooting
  <2>9. CASE q # Shell /\ prog # Shell  BY <1>1, <2>5, <2>9 DEF ShellBooting
  <2> QED BY <2>7, <2>8, <2>9
<1> QED BY <1>6, <1>7, <1>8, <1>9 DEF Next, CpuStep

\* The processes go on taking turns, or the switch meets the half-built one.
LEMMA SharedStep ==
  ASSUME NEW n \in 1..NProc, Shared(n), Next
  PROVE  Shared(n)' \/ Wild'
<1>1. PICK m \in n..NProc : m = Seen(n)  BY SeenRange
<1>2. SwitchInv(n, m) /\ BootFrames /\ ShellBooting /\ Unborn(m)
  BY <1>1, SharedUnborn DEF Shared
<1>3. BootFrames' /\ KernelMain' = KernelMain /\ MainAt(n)'  BY MainStays
<1>4. Seen(n)' = m  BY <1>1, <1>3 DEF Seen
<1>5. CASE SwitchInv(n, m)'
  <2>1. prog' # NULL
    BY <1>5, OwnStacksDisjoint DEF SwitchInv, RunningInv, Slots, NULL
  <2>2. ShellBooting'  BY <1>2, <2>1, ShellStays
  <2> QED BY <1>3, <1>4, <1>5, <2>2 DEF Shared
<1>6. CASE n # m /\ prog' = NULL
  <2>1. KernelMain.pc \in HalfBuilt  BY <1>1, <1>6, SeenRange
  <2> QED BY <1>3, <1>6, <2>1 DEF Wild
<1> QED BY <1>2, <1>5, <1>6, SwitchStep

-----------------------------------------------------------------------------
(* Processes and kernel_main take turns: the steps of kernel_main            *)

\* A statement of kernel_main that leaves the created processes as they are.
LEMMA MainSwitch ==
  ASSUME NEW n \in 1..NProc, NEW m \in n..NProc, m = Seen(n), Shared(n),
         prog # NULL, dep > 0, Top.kind = "boot",
         NEW f \in Frame, Continue(f), f.kind = "boot", f.prog = Shell,
         UNCHANGED <<current_pid, tss_esp0, isr>>,
         process_table' \in [Slots -> Proc],
         \A p \in Procs(n) : process_table'[p].esp = process_table[p].esp
  PROVE  /\ TypeOK' /\ RunningInv(n, m)' /\ BookInv(n)' /\ ParkedInv(n, m)'
         /\ BootFrames' /\ ShellBooting' /\ KernelMain' = f
         /\ \A s \in Stacks : s # BootStack => kstack'[s] = kstack[s]
<1>1. /\ prog = Shell /\ stk = BootStack /\ dep = 1
      /\ Top = KernelMain /\ Top \in Frame
  BY SharedTop
<1>2. /\ SwitchInv(n, m) /\ BootFrames /\ 1 \in 1..MaxDepth
      /\ kstack \in [Stacks -> [1..MaxDepth -> Frame]] /\ isr \in SUBSET {0, 1}
  BY StackNumbers DEF Shared, SwitchInv, TypeOK
<1>3. kstack' = [kstack EXCEPT ![BootStack][1] = f] /\ UNCHANGED <<prog, stk, dep>>
  BY <1>1 DEF Continue
<1>4. \A s \in Stacks, d \in 1..MaxDepth :
        kstack'[s][d] = IF s = BootStack /\ d = 1 THEN f ELSE kstack[s][d]
  BY <1>2, <1>3
<1>5. TypeOK' /\ RunningInv(n, m)' /\ BookInv(n)' /\ ParkedInv(n, m)'
  <2>1. LiveFrame(m, prog, dep, f) /\ ~AtWindow(Top) /\ ~AtWindow(f)
    BY <1>1 DEF LiveFrame, AtWindow
  <2>2. /\ TypeOK /\ RunningInv(n, m) /\ BookInv(n) /\ ParkedInv(n, m)
        /\ prog \in Procs(n) /\ stk \in OwnStacks(prog)
    BY <1>1, <1>2 DEF SwitchInv, RunningInv
  <2>3. TypeOK'  BY <1>1, <1>2, <2>2, ContinueType DEF TypeOK
  <2>4. RunningInv(n, m)'  BY <2>1, <2>2, ContinueRunning
  <2>5. BookInv(n)'  BY <2>1, <2>2, ContinueBook
  <2>6. ParkedInv(n, m)'  BY <1>1, <1>3, <2>2, OthersStayParked
  <2> QED BY <2>3, <2>4, <2>5, <2>6
<1>6. BootFrames'  BY <1>2, <1>4 DEF BootFrames
<1>7. ShellBooting'  BY <1>1, <1>3 DEF ShellBooting
<1>8. KernelMain' = f  BY <1>2, <1>4, StackNumbers DEF KernelMain
<1>9. \A s \in Stacks : s # BootStack => kstack'[s] = kstack[s]
  BY <1>2, <1>3
<1> QED BY <1>5, <1>6, <1>7, <1>8, <1>9

\* A store into the slot of process n, which has no stack pointer yet.
LEMMA BirthTable ==
  ASSUME NEW n \in 1..NProc, n < NProc, NEW m \in n..NProc, TypeOK, TableInv(n, m),
         NEW r \in Proc, r.pid \in {0, n + 1},
         m = n \/ /\ m = n + 1 /\ r.pid = n + 1 /\ r.esp = NullEsp
                  /\ r.state \in {"READY", "RUNNING"},
         process_table' = [process_table EXCEPT ![n] = r]
  PROVE  /\ process_table' \in [Slots -> Proc] /\ process_table'[n] = r
         /\ \A i \in Slots : i # n => process_table'[i] = process_table[i]
         /\ TableInv(n, m)'
         /\ \A p \in Procs(n) : process_table'[p].esp = process_table[p].esp
<1>1. process_table \in [Slots -> Proc]  BY DEF TypeOK
<1>2. /\ n \in Slots /\ n \notin Procs(n) /\ Procs(n) \subseteq Slots
      /\ n \in Procs(m) <=> m = n + 1
  BY StackNumbers, SchedulerAssumption DEF Procs, Slots
<1>3. /\ process_table' \in [Slots -> Proc] /\ process_table'[n] = r
      /\ \A i \in Slots : i # n => process_table'[i] = process_table[i]
  BY <1>1, <1>2
<1>4. TableInv(n, m)'
  <2> SUFFICES ASSUME NEW i \in Slots
               PROVE  /\ i \in Procs(m) =>
                           /\ process_table'[i].pid = i + 1
                           /\ process_table'[i].state \in {"READY", "RUNNING"}
                      /\ i \in Procs(n) =>
                           /\ process_table'[i].kernel_stack_top = i
                           /\ process_table'[i].esp \in Esp
                      /\ i \in Procs(m) \ Procs(n) => process_table'[i].esp = NullEsp
                      /\ i \notin Procs(m) => process_table'[i].pid \in {0, i + 1}
    BY DEF TableInv
  <2>1. CASE i # n  BY <1>1, <1>3, <2>1 DEF TableInv
  <2>2. CASE i = n /\ m = n + 1  BY <1>2, <1>3, <2>2
  <2>3. CASE i = n /\ m # n + 1  BY <1>2, <1>3, <2>3
  <2> QED BY <2>1, <2>2, <2>3
<1> QED BY <1>2, <1>3, <1>4

\* scheduler_next finds process n, which has no stack pointer yet.
Coming(n) ==
  /\ n < NProc /\ SwitchInv(n, n)
  /\ process_table[n].pid = n + 1 /\ process_table[n].esp = NullEsp
  /\ process_table[n].state \in {"READY", "RUNNING"}

LEMMA SeeOneMore ==
  ASSUME NEW n \in 1..NProc, Coming(n)
  PROVE  SwitchInv(n, n + 1)
<1> USE DEF Coming
<1>1. Procs(n + 1) = Procs(n) \cup {n} /\ n \notin Procs(n)
  BY StackNumbers DEF Procs
<1>2. \A p, d, f : LiveFrame(n, p, d, f) => LiveFrame(n + 1, p, d, f)
  BY <1>1 DEF LiveFrame
<1>3. TableInv(n, n + 1)  BY <1>1 DEF SwitchInv, TableInv
<1>4. RunningInv(n, n + 1)
  <2>1. \A d \in 1..dep : LiveFrame(n + 1, prog, d, kstack[stk][d])
    BY <1>2 DEF SwitchInv, RunningInv
  <2> QED BY <2>1 DEF SwitchInv, RunningInv
<1>5. ParkedInv(n, n + 1)  BY <1>2 DEF SwitchInv, ParkedInv
<1> QED BY <1>3, <1>4, <1>5 DEF SwitchInv

LEMMA SeeOneMoreNext ==
  ASSUME NEW n \in 1..NProc
  PROVE  Coming(n)' => SwitchInv(n, n + 1)'
<1>1. Coming(n) => SwitchInv(n, n + 1)  BY SeeOneMore
<1> QED BY <1>1, PTL

\* A statement of process_create for process n, the last one excepted.
LEMMA SharedStatement ==
  ASSUME NEW n \in 1..NProc, Shared(n), prog # NULL, dep > 0, Top.kind = "boot",
         Making(n), NEW f \in Frame, Continue(f), f.kind = "boot", f.prog = Shell,
         f.pc \in BootPc \ {"setcur", "setrun", "iret"},
         UNCHANGED <<current_pid, tss_esp0, isr>>,
         NEW r \in Proc, process_table' = [process_table EXCEPT ![n] = r],
         Filled(n, f, r), f.pc = "esp" => KernelMain.pc = "esp",
         KernelMain.pc \in HalfBuilt => f.pc \in HalfBuilt
  PROVE  Shared(n)'
<1>1. PICK m \in n..NProc : m = Seen(n)  BY SeenRange
<1>2. n < NProc /\ TypeOK /\ TableInv(n, m) /\ Unsaved(n)
  BY <1>1 DEF Making, Shared, MainAt, SwitchInv
<1>3. /\ r.esp = NullEsp /\ r.pid \in {0, n + 1}
      /\ f.pc \in HalfBuilt => r.pid = n + 1 /\ r.state \in {"READY", "RUNNING"}
  BY DEF Filled, HalfBuilt
<1>4. m = n \/ /\ m = n + 1 /\ r.pid = n + 1 /\ r.esp = NullEsp
               /\ r.state \in {"READY", "RUNNING"}
  BY <1>1, <1>3 DEF Seen
<1>5. /\ process_table' \in [Slots -> Proc] /\ process_table'[n] = r
      /\ \A i \in Slots : i # n => process_table'[i] = process_table[i]
      /\ TableInv(n, m)'
      /\ \A p \in Procs(n) : process_table'[p].esp = process_table[p].esp
  BY <1>2, <1>3, <1>4, BirthTable
<1>6. /\ SwitchInv(n, m)' /\ BootFrames' /\ ShellBooting' /\ KernelMain' = f
      /\ \A s \in Stacks : s # BootStack => kstack'[s] = kstack[s]
  BY <1>1, <1>5, MainSwitch DEF SwitchInv
<1>7. n \in Stacks /\ n # BootStack  BY <1>2, StackNumbers
<1>8. Blank(n + 1)' /\ Unsaved(n)'
  <2>1. \A i \in Slots : i >= n + 1 => i # n  BY StackNumbers DEF Slots
  <2>2. Blank(n + 1)'  BY <1>5, <2>1 DEF Making, Blank
  <2>3. Unsaved(n)'  BY <1>2, <1>3, <1>5 DEF Unsaved
  <2> QED BY <2>2, <2>3
<1>9. f.pc = "esp" => kstack'[n][1] = Activation("tramp", "get", n)
  BY <1>6, <1>7 DEF Making
<1>10. Making(n)'
  BY <1>2, <1>5, <1>6, <1>8, <1>9 DEF Making, Filled
<1>11. (SwitchInv(n, Seen(n)))'
  <2>1. CASE f.pc \in HalfBuilt
    <3>1. Seen(n)' = n + 1  BY <1>6, <2>1 DEF Seen
    <3>2. CASE m = n
      <4>1. Coming(n)'  BY <1>2, <1>3, <1>5, <1>6, <2>1, <3>2 DEF Coming
      <4> QED BY <3>1, <4>1, SeeOneMoreNext
    <3>3. CASE m = n + 1  BY <1>6, <3>1, <3>3
    <3> QED BY <1>4, <3>2, <3>3
  <2>2. CASE f.pc \notin HalfBuilt
    BY <1>1, <1>6, <2>2 DEF Seen
  <2> QED BY <2>1, <2>2
<1> QED BY <1>6, <1>8, <1>10, <1>11 DEF Shared, MainAt

LEMMA NextFree ==
  ASSUME NEW n \in 1..NProc, Shared(n), KernelMain.pc = "find"
  PROVE  Min({i \in Slots : process_table[i].state = "DEAD"}) = n
<1> DEFINE free == {i \in Slots : process_table[i].state = "DEAD"}
<1>1. n < NProc /\ process_table[n].state = "DEAD" /\ TableInv(n, n)
  BY DEF Shared, SwitchInv, MainAt, Making, Filled, Seen, HalfBuilt
<1>2. n \in Slots /\ free \in SUBSET Nat
  BY <1>1, StackNumbers, SchedulerAssumption DEF Slots
<1>3. \A i \in free : i >= n
  <2>1. \A i \in Slots : i \in Procs(n) \/ i >= n
    BY StackNumbers DEF Slots, Procs
  <2> QED BY <1>1, <2>1 DEF TableInv
<1>4. n \in free  BY <1>1, <1>2
<1>5. Min(free) \in free /\ \A i \in free : Min(free) <= i  BY <1>2, <1>4, MinIn
<1>6. Min(free) = n
  <2>1. Min(free) >= n /\ Min(free) <= n /\ Min(free) \in Nat /\ n \in Nat
    BY <1>2, <1>3, <1>4, <1>5, StackNumbers
  <2> QED BY <2>1
<1> QED BY <1>6

LEMMA MainTop ==
  ASSUME NEW n \in 1..NProc, Shared(n), NEW c, BootAt(c)
  PROVE  /\ prog # NULL /\ dep > 0 /\ Top.kind = "boot"
         /\ prog = Shell /\ stk = BootStack /\ dep = 1
         /\ Top = KernelMain /\ Top \in Frame /\ Top.prog = Shell
         /\ KernelMain.pc = c
         /\ c \notin {"setrun", "iret"} =>
              /\ Making(n) /\ Top.cur = n /\ Filled(n, Top, process_table[n])
              /\ c # "find" => Top.next = n
         /\ (n \in Slots /\ process_table[n] \in Proc) \/ n = NProc
<1>1. /\ prog # NULL /\ dep > 0 /\ Top.kind = "boot"
      /\ prog = Shell /\ stk = BootStack /\ dep = 1
      /\ Top = KernelMain /\ Top \in Frame /\ Top.prog = Shell
      /\ KernelMain.pc = c
  BY SharedTop DEF BootAt
<1>2. c \notin {"setrun", "iret"} =>
        /\ Making(n) /\ Top.cur = n /\ Filled(n, Top, process_table[n])
        /\ c # "find" => Top.next = n
  BY <1>1 DEF Shared, MainAt, Making, Filled
<1>3. (n \in Slots /\ process_table[n] \in Proc) \/ n = NProc
  <2>1. n \in 0..NProc-1 \/ n = NProc  BY StackNumbers
  <2> QED BY <2>1, StackNumbers DEF Shared, SwitchInv, TypeOK
<1> QED BY <1>1, <1>2, <1>3

LEMMA SharedCreate ==
  ASSUME NEW n \in 1..NProc, Shared(n),
         CreateFind \/ CreatePid \/ CreateState \/ CreateStack
  PROVE  Shared(n)'
<1> DEFINE slot == process_table[n]
<1>1. /\ prog # NULL /\ dep > 0 /\ Top.kind = "boot" /\ Top = KernelMain
      /\ Top \in Frame /\ Top.prog = Shell /\ Making(n) /\ Top.cur = n
      /\ Filled(n, Top, slot) /\ (KernelMain.pc # "find" => Top.next = n)
      /\ n \in Slots /\ slot \in Proc
  BY MainTop DEF CreateFind, CreatePid, CreateState, CreateStack, Making
<1>2. process_table \in [Slots -> Proc] /\ n \in 0..MaxProcesses /\ n \in Stacks
      /\ n + 1 \in 0..MaxProcesses
  BY <1>1, StackNumbers DEF Shared, SwitchInv, TypeOK, Slots
<1>3. CASE CreateFind
  <2>1. KernelMain.pc = "find"  BY <1>3, MainTop DEF CreateFind
  <2>2. PICK f : f = [Top EXCEPT !.pc = "pid", !.next = n] /\ Continue(f)
    BY <1>3, <2>1, NextFree DEF CreateFind
  <2>3. /\ f \in Frame /\ f.kind = "boot" /\ f.prog = Shell /\ f.pc = "pid"
        /\ f.cur = n /\ f.next = n
    BY <1>1, <2>2 DEF Frame, BootPc
  <2>4. Filled(n, f, slot)
    BY <1>1, <2>1, <2>3 DEF Filled
  <2>5. process_table' = [process_table EXCEPT ![n] = slot]
    BY <1>2, <1>3 DEF CreateFind
  <2>6. UNCHANGED <<current_pid, tss_esp0, isr>>  BY <1>3 DEF CreateFind
  <2>7. /\ f.pc \in BootPc \ {"setcur", "setrun", "iret"} /\ f.pc # "esp"
        /\ KernelMain.pc \notin HalfBuilt
    BY <2>1, <2>3 DEF BootPc, HalfBuilt
  <2> QED BY <1>1, <2>2, <2>3, <2>4, <2>5, <2>6, <2>7, SharedStatement
<1>4. CASE CreatePid
  <2>1. KernelMain.pc = "pid"  BY <1>4, MainTop DEF CreatePid
  <2>2. PICK r : /\ r = [slot EXCEPT !.pid = n + 1]
                 /\ process_table' = [process_table EXCEPT ![n] = r]
    BY <1>1, <1>4, <2>1 DEF CreatePid
  <2>3. PICK f : f = [Top EXCEPT !.pc = "state"] /\ Continue(f)
    BY <1>4 DEF CreatePid, Goto
  <2>4. /\ f \in Frame /\ f.kind = "boot" /\ f.prog = Shell /\ f.pc = "state"
        /\ f.cur = n /\ f.next = n
    BY <1>1, <2>1, <2>3 DEF Frame, BootPc
  <2>5. /\ r \in Proc /\ r.pid = n + 1 /\ r.state = slot.state
        /\ r.esp = slot.esp
    BY <1>1, <1>2, <2>2 DEF Proc
  <2>6. Filled(n, f, r)  BY <1>1, <2>1, <2>4, <2>5 DEF Filled
  <2>7. UNCHANGED <<current_pid, tss_esp0, isr>>  BY <1>4 DEF CreatePid
  <2>8. /\ f.pc \in BootPc \ {"setcur", "setrun", "iret"} /\ f.pc # "esp"
        /\ KernelMain.pc \notin HalfBuilt
    BY <2>1, <2>4 DEF BootPc, HalfBuilt
  <2> QED BY <1>1, <2>2, <2>3, <2>4, <2>5, <2>6, <2>7, <2>8, SharedStatement
<1>5. CASE CreateState
  <2>1. KernelMain.pc = "state"  BY <1>5, MainTop DEF CreateState
  <2>2. PICK r : /\ r = [slot EXCEPT !.state = "READY"]
                 /\ process_table' = [process_table EXCEPT ![n] = r]
    BY <1>1, <1>5, <2>1 DEF CreateState
  <2>3. PICK f : f = [Top EXCEPT !.pc = "stack"] /\ Continue(f)
    BY <1>5 DEF CreateState, Goto
  <2>4. /\ f \in Frame /\ f.kind = "boot" /\ f.prog = Shell /\ f.pc = "stack"
        /\ f.cur = n /\ f.next = n
    BY <1>1, <2>1, <2>3 DEF Frame, BootPc
  <2>5. r \in Proc /\ r.state = "READY" /\ r.pid = slot.pid /\ r.esp = slot.esp
    BY <1>1, <2>2 DEF Proc
  <2>6. Filled(n, f, r)
    BY <1>1, <2>1, <2>4, <2>5 DEF Filled
  <2> QED BY <1>1, <1>5, <2>2, <2>3, <2>4, <2>5, <2>6, SharedStatement
          DEF CreateState, BootPc, HalfBuilt
<1>6. CASE CreateStack
  <2>1. KernelMain.pc = "stack"  BY <1>6, MainTop DEF CreateStack
  <2>2. PICK r : /\ r = [slot EXCEPT !.kernel_stack_top = n]
                 /\ process_table' = [process_table EXCEPT ![n] = r]
    BY <1>1, <1>6, <2>1 DEF CreateStack
  <2>3. PICK f : f = [Top EXCEPT !.pc = "fake"] /\ Continue(f)
    BY <1>6 DEF CreateStack, Goto
  <2>4. /\ f \in Frame /\ f.kind = "boot" /\ f.prog = Shell /\ f.pc = "fake"
        /\ f.cur = n /\ f.next = n
    BY <1>1, <2>1, <2>3 DEF Frame, BootPc
  <2>5. /\ r \in Proc /\ r.kernel_stack_top = n /\ r.pid = slot.pid
        /\ r.state = slot.state /\ r.esp = slot.esp
    <3>1. slot \in Proc /\ n \in Stacks  BY <1>1, <1>2
    <3> HIDE DEF slot
    <3> QED BY <2>2, <3>1, StackStored
  <2>6. Filled(n, f, r)
    BY <1>1, <2>1, <2>4, <2>5 DEF Filled
  <2> QED BY <1>1, <1>6, <2>2, <2>3, <2>4, <2>5, <2>6, SharedStatement
          DEF CreateStack, BootPc, HalfBuilt
<1> QED BY <1>3, <1>4, <1>5, <1>6

\* The trampoline is written on a stack that belongs to nobody yet.
LEMMA SharedFake ==
  ASSUME NEW n \in 1..NProc, Shared(n), CreateFake
  PROVE  Shared(n)'
<1>1. /\ prog = Shell /\ stk = BootStack /\ dep = 1 /\ KernelMain.pc = "fake"
      /\ Top = KernelMain /\ Top \in Frame /\ Top.prog = Shell /\ Making(n)
      /\ Top.cur = n /\ Top.next = n /\ n \in Slots /\ n < NProc
      /\ Top.kind = "boot" /\ Filled(n, Top, process_table[n])
  <2>1. BootAt("fake")  BY DEF CreateFake
  <2>2. Making(n) /\ n < NProc  BY <2>1, MainTop DEF Making
  <2>3. n \in Slots  BY <2>2, StackNumbers
  <2> QED BY <2>1, <2>2, <2>3, MainTop
<1>2. /\ SwitchInv(n, n + 1) /\ BootFrames /\ 1 \in 1..MaxDepth /\ n \in Stacks
      /\ Unsaved(n) /\ n + 1 \in n..NProc
      /\ kstack \in [Stacks -> [1..MaxDepth -> Frame]] /\ n # BootStack
  BY <1>1, SeenRange, StackNumbers
     DEF Shared, SwitchInv, TypeOK, HalfBuilt, MainAt
<1> DEFINE t == Activation("tramp", "get", n)
           f == [KernelMain EXCEPT !.pc = "esp"]
<1>3. /\ t \in Frame /\ t.kind = "tramp" /\ f \in Frame /\ f.kind = "boot"
      /\ f.prog = Shell /\ f.cur = n /\ f.pc = "esp" /\ f.next = n
  BY <1>1 DEF Frame, BootPc, Activation
<1>4. process_table[n].kernel_stack_top = n  BY <1>1 DEF Filled
<1>5. kstack' = [kstack EXCEPT ![n][1] = t, ![BootStack][1].pc = "esp"]
  BY <1>1, <1>4 DEF CreateFake
<1>6. /\ kstack' \in [Stacks -> [1..MaxDepth -> Frame]]
      /\ \A s \in Stacks, d \in 1..MaxDepth :
           kstack'[s][d] = IF s = BootStack /\ d = 1 THEN f
                           ELSE IF s = n /\ d = 1 THEN t ELSE kstack[s][d]
      /\ \A s \in Stacks \ {n, BootStack} : kstack'[s] = kstack[s]
  BY <1>2, <1>3, <1>5, StackNumbers DEF KernelMain
<1>7. Filled(n, f, process_table[n])  BY <1>1, <1>3 DEF Filled
<1> HIDE DEF f
<1>8. UNCHANGED <<process_table, current_pid, tss_esp0, prog, stk, dep, isr>>
  BY DEF CreateFake
<1>9. /\ KernelMain' = f /\ kstack'[n][1] = t /\ kstack'[stk'][1] = f
      /\ \A d \in 1..dep' : d = 1
  BY <1>1, <1>2, <1>6, <1>8, StackNumbers DEF KernelMain
<1>10. SwitchInv(n, n + 1)'
  <2>1. TypeOK'  BY <1>2, <1>6, <1>8 DEF SwitchInv, TypeOK
  <2>2. TableInv(n, n + 1)'  BY <1>2, <1>8, TableUnchanged
  <2>3. RunningInv(n, n + 1)'
    <3>1. prog' \in Procs(n) /\ stk' \in OwnStacks(prog')
      BY <1>1, <1>2, <1>8 DEF SwitchInv, RunningInv
    <3>2. LiveFrame(n + 1, prog', 1, kstack'[stk'][1])
      BY <1>1, <1>3, <1>8, <1>9 DEF LiveFrame
    <3> QED BY <1>9, <3>1, <3>2 DEF RunningInv
  <2>4. BookInv(n)'
    <3>1. ~AtWindow(kstack[stk][1]) /\ ~AtWindow(kstack'[stk'][1])
          /\ \A d \in 1..dep : d = 1
      BY <1>1, <1>3, <1>9 DEF AtWindow, Top
    <3>2. current_pid = prog + 1 /\ tss_esp0 \in OwnStacks(prog)
      BY <1>2, <3>1 DEF SwitchInv, BookInv
    <3> QED BY <1>8, <1>9, <3>1, <3>2 DEF BookInv, OwnStacks
  <2>5. ParkedInv(n, n + 1)'
    <3> DEFINE Ready(p, e) ==
                 /\ e \in Esp
                 /\ e[1] \in OwnStacks(p)
                 /\ Resumable(kstack'[e[1]][e[2]])
                 /\ \A i \in 1..e[2] : LiveFrame(n + 1, p, i, kstack'[e[1]][i])
                 /\ \A i \in 1..e[2]-1 : ~AtWindow(kstack'[e[1]][i])
    <3>1. ASSUME NEW p \in Procs(n), p # Shell
          PROVE  Ready(p, process_table[p].esp)
      <4> DEFINE e == process_table[p].esp
      <4>1. e \in Esp /\ e[1] \in OwnStacks(p)
        BY <1>1, <1>2, <3>1 DEF SwitchInv, ParkedInv
      <4>2. e[1] # n /\ e[1] # BootStack
        <5>1. p \in Slots /\ p # n
          BY StackNumbers, SchedulerAssumption, OwnStacksDisjoint DEF Procs
        <5> QED BY <3>1, <4>1, <5>1, StackNumbers DEF OwnStacks
      <4>3. kstack'[e[1]] = kstack[e[1]]
        <5>1. e[1] \in Stacks  BY <4>1 DEF Esp
        <5> QED BY <1>6, <4>2, <5>1
      <4> QED BY <1>1, <1>2, <3>1, <4>1, <4>3 DEF SwitchInv, ParkedInv
    <3>2. \A p \in Procs(n) \ {prog'} : Ready(p, process_table'[p].esp)
      BY <1>1, <1>8, <3>1
    <3> QED BY <3>2, Zenon DEF ParkedInv, Resumable, LiveFrame, AtWindow, OwnStacks
  <2> QED BY <2>1, <2>2, <2>3, <2>4, <2>5 DEF SwitchInv
<1>11. BootFrames'  BY <1>2, <1>3, <1>6 DEF BootFrames
<1>12. ShellBooting'  BY <1>1, <1>8 DEF ShellBooting
<1>13. Unsaved(n)'  BY <1>2, <1>8 DEF Unsaved
<1>14. Seen(n)' = n + 1  BY <1>3, <1>9 DEF Seen, HalfBuilt
<1>15. Making(n)'
  BY <1>1, <1>7, <1>8, <1>9 DEF Making, Filled, Blank
<1> QED BY <1>3, <1>9, <1>10, <1>11, <1>12, <1>13, <1>14, <1>15
        DEF Shared, MainAt, BootPc

\* kernel_main after process n: nothing of the next one is there yet.
LEMMA NextMaking ==
  ASSUME NEW n \in 1..NProc, NEW f \in Frame, KernelMain' = f, Blank(n)', Unsaved(n)',
         \/ n < NProc /\ f.pc = "find" /\ f.cur = n
         \/ n = NProc /\ f.pc = "iret"
  PROVE  MainAt(n)' /\ Seen(n)' = n
<1>1. CASE n < NProc /\ f.pc = "find" /\ f.cur = n
  <2>1. n \in Slots /\ n >= n  BY <1>1, StackNumbers
  <2>2. /\ process_table'[n].pid = 0 /\ process_table'[n].state = "DEAD"
        /\ process_table'[n].esp = NullEsp
    BY <2>1 DEF Blank, Unsaved
  <2>3. Filled(n, f, process_table'[n])  BY <1>1, <2>2 DEF Filled
  <2>4. \A i \in Slots : i >= n + 1 => i >= n  BY StackNumbers DEF Slots
  <2>5. Blank(n + 1)'  BY <2>4 DEF Blank
  <2>6. Making(n)'  BY <1>1, <2>3, <2>5 DEF Making, Filled
  <2> QED BY <1>1, <2>6 DEF MainAt, BootPc, Seen, HalfBuilt
<1>2. CASE n = NProc /\ f.pc = "iret"  BY <1>2 DEF MainAt, BootPc, Seen, HalfBuilt
<1> QED BY <1>1, <1>2

\* Process n is complete.  It is not the running one, and its stack pointer was
\* the last field to be stored, by kernel_main itself: no tick is under way.
Published(n) ==
  /\ n < NProc /\ TypeOK /\ TableInv(n, n) /\ RunningInv(n, n + 1)
  /\ BookInv(n) /\ ParkedInv(n, n + 1)
  /\ \A d \in 1..dep : kstack[stk][d].kind = "boot"
  /\ process_table[n].pid = n + 1 /\ process_table[n].kernel_stack_top = n
  /\ process_table[n].state \in {"READY", "RUNNING"}
  /\ process_table[n].esp = <<n, 1>>
  /\ kstack[n][1] = Activation("tramp", "get", n)

LEMMA OneMore ==
  ASSUME NEW n \in 1..NProc, Published(n)
  PROVE  SwitchInv(n + 1, n + 1)
<1> USE DEF Published
<1>1. n + 1 \in 1..NProc /\ n \in Slots /\ n \in Stacks /\ 1 \in 1..MaxDepth
  BY StackNumbers
<1>2. Procs(n + 1) = Procs(n) \cup {n} /\ n \notin Procs(n)
  BY StackNumbers DEF Procs
<1>3. <<n, 1>> \in Esp /\ <<n, 1>>[1] = n /\ <<n, 1>>[2] = 1  BY <1>1 DEF Esp
<1>4. TableInv(n + 1, n + 1)  BY <1>2, <1>3 DEF TableInv
<1>5. RunningInv(n + 1, n + 1)  BY <1>2 DEF RunningInv
<1>6. BookInv(n + 1)
  <2>1. \A d \in 1..dep : ~AtWindow(kstack[stk][d])  BY DEF AtWindow
  <2> QED BY <2>1 DEF BookInv
<1>7. ParkedInv(n + 1, n + 1)
  <2> DEFINE Ready(p, e) ==
               /\ e \in Esp
               /\ e[1] \in OwnStacks(p)
               /\ Resumable(kstack[e[1]][e[2]])
               /\ \A i \in 1..e[2] : LiveFrame(n + 1, p, i, kstack[e[1]][i])
               /\ \A i \in 1..e[2]-1 : ~AtWindow(kstack[e[1]][i])
  <2>1. \A p \in Procs(n) \ {prog} : Ready(p, process_table[p].esp)
    BY DEF ParkedInv
  <2>2. Ready(n, <<n, 1>>)
    <3>1. n \in OwnStacks(n)  BY DEF OwnStacks
    <3>2. Resumable(kstack[n][1])  BY DEF Resumable, Activation
    <3>3. LiveFrame(n + 1, n, 1, kstack[n][1])  BY DEF LiveFrame, Activation
    <3>4. \A i \in 1..1 : i = 1  OBVIOUS
    <3>5. 1..(1 - 1) = {}  OBVIOUS
    <3> QED BY <1>3, <3>1, <3>2, <3>3, <3>4, <3>5
  <2>3. \A p \in Procs(n + 1) \ {prog} : Ready(p, process_table[p].esp)
    BY <1>2, <2>1, <2>2
  <2> QED BY <2>3 DEF ParkedInv
<1> QED BY <1>1, <1>4, <1>5, <1>6, <1>7 DEF SwitchInv

LEMMA OneMoreNext ==
  ASSUME NEW n \in 1..NProc
  PROVE  Published(n)' => SwitchInv(n + 1, n + 1)'
<1>1. Published(n) => SwitchInv(n + 1, n + 1)  BY OneMore
<1> QED BY <1>1, PTL

\* With the store of its stack pointer process n can be scheduled.
LEMMA SharedEsp ==
  ASSUME NEW n \in 1..NProc, Shared(n), CreateEsp
  PROVE  n + 1 \in 1..NProc /\ Shared(n + 1)'
<1> DEFINE slot == process_table[n]
<1>1. /\ prog # NULL /\ dep > 0 /\ Top.kind = "boot"
      /\ prog = Shell /\ stk = BootStack /\ dep = 1 /\ KernelMain.pc = "esp"
      /\ Top = KernelMain /\ Top \in Frame /\ Top.prog = Shell /\ Making(n)
      /\ Top.cur = n /\ Top.next = n /\ n \in Slots /\ slot \in Proc
      /\ n < NProc /\ Filled(n, Top, slot)
  BY MainTop DEF CreateEsp, Making
<1>2. /\ SwitchInv(n, n + 1) /\ n + 1 \in 1..NProc /\ n + 1 \in n..NProc /\ <<n, 1>> \in Esp /\ n > 0
      /\ n \in Stacks /\ n # BootStack /\ n # Shell /\ n + 1 \in Slots \cup {NProc}
      /\ Seen(n) = n + 1 /\ Unsaved(n)
  BY <1>1, SeenRange, StackNumbers DEF Shared, MainAt, Esp, Shell, HalfBuilt
<1>3. PICK r : /\ r = [slot EXCEPT !.esp = <<n, 1>>]
               /\ process_table' = [process_table EXCEPT ![n] = r]
  <2>1. slot.kernel_stack_top = n  BY <1>1 DEF Filled
  <2> QED BY <1>1, <2>1 DEF CreateEsp
<1>4. /\ r \in Proc /\ r.esp = <<n, 1>> /\ r.pid = n + 1
      /\ r.kernel_stack_top = n /\ r.state \in {"READY", "RUNNING"}
  BY <1>1, <1>2, <1>3 DEF Proc, Filled
<1>5. NextProcess /\ UNCHANGED <<current_pid, tss_esp0, isr>>
  BY <1>1, <1>2 DEF CreateEsp
<1>6. PICK f \in Frame : /\ Continue(f) /\ f.kind = "boot" /\ f.prog = Shell
                         /\ \/ n + 1 < NProc /\ f.pc = "find" /\ f.cur = n + 1
                            \/ n + 1 = NProc /\ f.pc = "iret"
  <2>1. CASE n + 1 < NProc
    <3> DEFINE g == [Top EXCEPT !.pc = "find", !.cur = n + 1]
    <3>1. n + 1 \in Slots  BY <2>1, StackNumbers DEF Slots
    <3>2. g \in Frame /\ g.kind = "boot" /\ g.prog = Shell /\ g.pc = "find"
          /\ g.cur = n + 1
      BY <1>1, <3>1 DEF Frame, BootPc
    <3>3. Continue(g)  BY <1>1, <1>5, <2>1 DEF NextProcess
    <3> QED BY <2>1, <3>2, <3>3
  <2>2. CASE ~(n + 1 < NProc)
    <3> DEFINE g == [Top EXCEPT !.pc = "iret"]
    <3>1. n + 1 = NProc  BY <1>1, <2>2, StackNumbers
    <3>2. g \in Frame /\ g.kind = "boot" /\ g.prog = Shell /\ g.pc = "iret"
      BY <1>1 DEF Frame, BootPc
    <3>3. Continue(g)  BY <1>1, <1>5, <2>2 DEF NextProcess, Goto
    <3> QED BY <3>1, <3>2, <3>3
  <2> QED BY <2>1, <2>2
<1>7. /\ process_table' \in [Slots -> Proc] /\ process_table'[n] = r
      /\ \A i \in Slots : i # n => process_table'[i] = process_table[i]
      /\ TableInv(n, n)'
      /\ \A p \in Procs(n) : process_table'[p].esp = process_table[p].esp
  <2>1. Procs(n + 1) = Procs(n) \cup {n}  BY StackNumbers DEF Procs
  <2>2. TypeOK /\ TableInv(n, n) /\ n \in n..NProc
    BY <1>2, <2>1, StackNumbers DEF SwitchInv, TableInv
  <2> QED BY <1>1, <1>3, <1>4, <2>2, BirthTable
<1>8. /\ TypeOK' /\ RunningInv(n, n + 1)' /\ BookInv(n)' /\ ParkedInv(n, n + 1)'
      /\ BootFrames' /\ ShellBooting' /\ KernelMain' = f
      /\ \A s \in Stacks : s # BootStack => kstack'[s] = kstack[s]
  BY <1>1, <1>2, <1>5, <1>6, <1>7, MainSwitch
<1>9. SwitchInv(n + 1, n + 1)'
  <2>1. UNCHANGED <<prog, stk, dep>>  BY <1>6 DEF Continue
  <2>2. kstack'[n][1] = Activation("tramp", "get", n)
    BY <1>1, <1>2, <1>8 DEF Making
  <2>3. \A d \in 1..dep' : kstack'[stk'][d].kind = "boot"
    <3>1. \A d \in 1..dep' : d = 1  BY <1>1, <2>1
    <3> QED BY <1>1, <1>6, <1>8, <2>1, <3>1 DEF KernelMain
  <2>4. Published(n)'
    BY <1>1, <1>2, <1>4, <1>7, <1>8, <2>1, <2>2, <2>3 DEF Published
  <2> QED BY <2>4, OneMoreNext
<1>10. Blank(n + 1)' /\ Unsaved(n + 1)'
  <2>1. \A i \in Slots : i >= n + 1 => i # n /\ i >= n  BY StackNumbers DEF Slots
  <2> QED BY <1>1, <1>2, <1>7, <2>1 DEF Making, Blank, Unsaved
<1>11. MainAt(n + 1)' /\ Seen(n + 1)' = n + 1  BY <1>2, <1>6, <1>8, <1>10, NextMaking
<1> QED BY <1>2, <1>8, <1>9, <1>11 DEF Shared

\* The shell is marked as running.
LEMMA SharedRunning ==
  ASSUME NEW n \in 1..NProc, Shared(n), SetRunning
  PROVE  Shared(n)'
<1>1. /\ prog # NULL /\ dep > 0 /\ Top.kind = "boot" /\ KernelMain.pc = "setrun"
      /\ Top = KernelMain /\ Top \in Frame /\ Top.prog = Shell
  BY MainTop DEF SetRunning
<1>2. /\ n = 1 /\ Top.cur = 0 /\ Top.next = 0 /\ Blank(1) /\ SwitchInv(n, n)
      /\ 0 \in Procs(n) /\ Seen(n) = n /\ Unsaved(n) /\ n \in n..NProc
  BY <1>1, StackNumbers DEF Shared, MainAt, Procs, Seen, HalfBuilt
<1>3. process_table' = [process_table EXCEPT ![0].state = "RUNNING"]
      /\ UNCHANGED <<current_pid, tss_esp0, isr>> /\ NextProcess
  BY <1>1, <1>2 DEF SetRunning
<1>4. /\ process_table' \in [Slots -> Proc] /\ TableInv(n, n)'
      /\ \A p \in Procs(n) : process_table'[p].esp = process_table[p].esp
  BY <1>2, <1>3, StateOnly
<1>5. PICK f \in Frame : /\ Continue(f) /\ f.kind = "boot" /\ f.prog = Shell
                         /\ \/ n < NProc /\ f.pc = "find" /\ f.cur = n
                            \/ n = NProc /\ f.pc = "iret"
  <2>1. CASE 1 < NProc
    <3> DEFINE g == [Top EXCEPT !.pc = "find", !.cur = 1]
    <3>1. 1 \in Slots /\ Top.cur + 1 = 1
      BY <1>2, <2>1, StackNumbers, SchedulerAssumption DEF Slots
    <3>2. g \in Frame /\ g.kind = "boot" /\ g.prog = Shell /\ g.pc = "find"
          /\ g.cur = 1
      BY <1>1, <3>1 DEF Frame, BootPc
    <3>3. Continue(g)  BY <1>1, <1>3, <2>1, <3>1 DEF NextProcess
    <3> QED BY <1>2, <2>1, <3>2, <3>3
  <2>2. CASE ~(1 < NProc)
    <3> DEFINE g == [Top EXCEPT !.pc = "iret"]
    <3>1. NProc = 1 /\ Top.cur + 1 = 1  BY <1>2, <2>2, StackNumbers
    <3>2. g \in Frame /\ g.kind = "boot" /\ g.prog = Shell /\ g.pc = "iret"
      BY <1>1 DEF Frame, BootPc
    <3>3. Continue(g)  BY <1>1, <1>3, <2>2, <3>1 DEF NextProcess, Goto
    <3> QED BY <1>2, <3>1, <3>2, <3>3
  <2> QED BY <2>1, <2>2
<1>6. SwitchInv(n, n)' /\ BootFrames' /\ ShellBooting' /\ KernelMain' = f
  BY <1>1, <1>2, <1>3, <1>4, <1>5, MainSwitch DEF SwitchInv
<1>7. Blank(n)' /\ Unsaved(n)'
  <2>1. process_table \in [Slots -> Proc]  BY <1>2 DEF SwitchInv, TypeOK
  <2>2. \A i \in Slots : i >= 1 => process_table'[i] = process_table[i]
    BY <1>3, <2>1 DEF Slots
  <2> QED BY <1>2, <2>2 DEF Blank, Unsaved
<1>8. MainAt(n)' /\ Seen(n)' = n  BY <1>5, <1>6, <1>7, NextMaking
<1> QED BY <1>6, <1>8 DEF Shared

\* The iret into the shell: nothing of kernel_main is left.
LEMMA SharedIret ==
  ASSUME NEW n \in 1..NProc, Shared(n), BootIret
  PROVE  IInv'
<1>1. /\ prog # NULL /\ dep > 0 /\ Top.kind = "boot" /\ KernelMain.pc = "iret"
      /\ prog = Shell /\ stk = BootStack /\ dep = 1
  BY MainTop DEF BootIret
<1>2. n = NProc /\ Blank(NProc) /\ SwitchInv(n, n) /\ BootFrames
  BY <1>1 DEF Shared, MainAt, Seen, HalfBuilt
<1>3. /\ kstack' = [kstack EXCEPT ![BootStack][1] = Empty] /\ dep' = dep - 1
      /\ UNCHANGED <<process_table, current_pid, tss_esp0, prog, stk, isr>>
  BY <1>1 DEF BootIret
<1>4. SwitchInv(NProc, NProc)'
  <2>2. NProc \in 1..NProc /\ NProc \in NProc..NProc  BY StackNumbers
  <2>1. ~AtWindow(Top)  BY <1>1 DEF AtWindow
  <2> QED BY <1>1, <1>2, <1>3, <2>1, <2>2, PopInv
<1>5. Unborn(NProc)'
  <2>1. \A i \in Slots : i \in Procs(NProc) \/ i >= NProc
    BY StackNumbers DEF Slots, Procs
  <2> QED BY <1>2, <1>3, <2>1 DEF Unborn, Blank
<1>6. NoBoot'
  <2>1. kstack \in [Stacks -> [1..MaxDepth -> Frame]]
    BY <1>2 DEF SwitchInv, TypeOK
  <2>2. Empty.kind # "boot"  BY DEF Empty, Activation
  <2> QED BY <1>2, <1>3, <2>1, <2>2 DEF BootFrames, NoBoot
<1> QED BY <1>4, <1>5, <1>6 DEF IInv

-----------------------------------------------------------------------------
(* kernel_main is left for good, or a switch has gone astray                 *)

\* The first process runs alone, with what a complete kernel_main would have set
\* up for it; nothing leads back to the boot stack.
LEMMA LostStep ==
  ASSUME Lost, BootNext
  PROVE  Lost'
<1>1. PICK n \in 1..NProc : n = 1  BY StackNumbers
<1>2. /\ n \in n..NProc /\ SwitchInv(n, n) /\ Unborn(n) /\ BootFrames
      /\ stk # BootStack /\ tss_esp0 # BootStack
  BY <1>1, StackNumbers DEF Lost
<1>3. ~BootStep
  <2> SUFFICES ASSUME BootStep PROVE FALSE  OBVIOUS
  <2>1. prog # NULL /\ dep > 0 /\ Top.kind = "boot"
    BY DEF BootStep, CreateFind, CreatePid, CreateState, CreateStack, CreateFake,
           CreateEsp, SetCurrent, SetRunning, BootIret, BootAt
  <2>2. stk \in Stacks /\ dep \in 1..MaxDepth  BY <1>2, <2>1, TopFacts
  <2> QED BY <1>2, <2>1, <2>2 DEF BootFrames, Top
<1>4. Next  BY <1>3 DEF BootNext, Next
<1>5. SwitchInv(n, n)'  BY <1>2, <1>4, SwitchStep
<1>6. BootFrames' /\ KernelMain' = KernelMain  BY <1>2, <1>4, MainKept
<1>7. Unborn(n)'
  <2>1. \A i \in Slots \ Procs(n) : process_table'[i] = process_table[i]
    BY <1>2, <1>4, Strangers
  <2> QED BY <1>2, <2>1 DEF Unborn
<1>8. ~TickEsp0 /\ ~TickLoad
  <2> SUFFICES ASSUME TickEsp0 \/ TickLoad PROVE FALSE  OBVIOUS
  <2>1. /\ prog # NULL /\ dep > 0 /\ Top.kind = "tick"
        /\ Top.pc \in {"esp0", "saved"}
    BY DEF TickEsp0, TickLoad, At
  <2>2. /\ prog \in Procs(n) /\ Top.next \in Procs(n) \ {prog}
    BY <1>2, <2>1, TopFacts DEF LiveFrame, Window
  <2>3. \A p \in Procs(n) : p = 0  BY <1>1 DEF Procs
  <2> QED BY <2>2, <2>3
<1>9. stk' # BootStack /\ tss_esp0' # BootStack
  <2>1. CASE TimerIrq \/ KeyboardIrq \/ Syscall
    BY <1>2, <2>1 DEF TimerIrq, KeyboardIrq, Syscall, Enter
  <2>2. CASE Eoi \/ TickCur \/ TickNext \/ TickTest \/ TickRun \/ TickPid
               \/ TickSave \/ Body \/ TrampGet
    <3>1. UNCHANGED stk  BY <1>2, <2>2, Statement DEF Continue
    <3>2. UNCHANGED tss_esp0
      BY <2>2 DEF Eoi, TickCur, TickNext, TickTest, TickRun, TickPid, TickSave,
                  Body, TrampGet
    <3> QED BY <1>2, <3>1, <3>2
  <2>3. CASE Iret \/ TrampIret  BY <1>2, <2>3 DEF Iret, TrampIret
  <2> QED BY <1>4, <1>8, <2>1, <2>2, <2>3 DEF Next, CpuStep
<1> QED BY <1>1, <1>5, <1>6, <1>7, <1>9 DEF Lost

LEMMA WildStops ==
  ASSUME Wild
  PROVE  ~BootNext
BY DEF Wild, BootNext, TimerIrq, KeyboardIrq, Syscall, CpuStep, Eoi, TickCur,
       TickNext, TickTest, TickRun, TickPid, TickEsp0, TickSave, TickLoad, Body,
       Iret, TrampGet, TrampIret, At, BootStep, CreateFind, CreatePid,
       CreateState, CreateStack, CreateFake, CreateEsp, SetCurrent, SetRunning,
       BootIret, BootAt

-----------------------------------------------------------------------------
(* Theorems *)

LEMMA MainStep ==
  ASSUME NEW n \in 1..NProc, Shared(n), BootNext
  PROVE  Shared(n)' \/ (n + 1 \in 1..NProc /\ Shared(n + 1)') \/ IInv' \/ Wild'
<1>1. CASE TimerIrq \/ KeyboardIrq \/ Syscall \/ CpuStep
  BY <1>1, SharedStep DEF Next
<1>2. CASE CreateFind \/ CreatePid \/ CreateState \/ CreateStack
  BY <1>2, SharedCreate
<1>3. CASE CreateFake  BY <1>3, SharedFake
<1>4. CASE CreateEsp  BY <1>4, SharedEsp
<1>5. CASE SetCurrent  BY <1>5, MainTop DEF SetCurrent, Shared, MainAt
<1>6. CASE SetRunning  BY <1>6, SharedRunning
<1>7. CASE BootIret  BY <1>7, SharedIret
<1> QED BY <1>1, <1>2, <1>3, <1>4, <1>5, <1>6, <1>7 DEF BootNext, BootStep

\* After the handover kernel_main takes no step any more.
LEMMA HandoverStep ==
  ASSUME IInv, BootNext
  PROVE  IInv'
<1>1. ~BootStep
  <2> SUFFICES ASSUME BootStep PROVE FALSE  OBVIOUS
  <2>1. prog # NULL /\ dep > 0 /\ Top.kind = "boot"
    BY DEF BootStep, CreateFind, CreatePid, CreateState, CreateStack, CreateFake,
           CreateEsp, SetCurrent, SetRunning, BootIret, BootAt
  <2>2. stk \in Stacks /\ dep \in 1..MaxDepth  BY <2>1, AllCreated, TopFacts
  <2> QED BY <2>1, <2>2 DEF IInv, NoBoot, Top
<1>2. Next  BY <1>1 DEF BootNext, Next
<1> QED BY <1>2, StepInv

LEMMA StandStill == BootInv /\ UNCHANGED vars => BootInv'
<1> SUFFICES ASSUME BootInv, UNCHANGED vars PROVE BootInv'  OBVIOUS
<1> USE DEF vars
<1>1. KernelMain' = KernelMain  BY DEF KernelMain
<1>2. TypeOK <=> TypeOK'  BY DEF TypeOK
<1>3. BootFrames <=> BootFrames'  BY DEF BootFrames
<1>4. \A n : Making(n) <=> Making(n)'  BY <1>1 DEF Making, Filled, Blank
<1>5. CASE Early
  BY <1>1, <1>2, <1>3, <1>4, <1>5
     DEF Early, EarlyFrame, EarlyBook, Visible, Unsaved, BootInv
<1>6. ASSUME NEW n \in 1..NProc, Shared(n) PROVE BootInv'
  <2>1. PICK m \in n..NProc : m = Seen(n)  BY <1>6, SeenRange
  <2>2. Seen(n)' = m  BY <1>1, <2>1 DEF Seen
  <2>3. SwitchInv(n, m)'  BY <1>6, <2>1, SwitchStands DEF Shared
  <2>4. ShellBooting'  BY <1>6 DEF Shared, ShellBooting
  <2>5. MainAt(n)'  BY <1>1, <1>4, <1>6 DEF Shared, MainAt, Blank, Unsaved
  <2> QED BY <1>3, <1>6, <2>2, <2>3, <2>4, <2>5 DEF Shared, BootInv
<1>7. CASE IInv  BY <1>7, StepInv DEF BootInv
<1>8. CASE Lost
  <2>1. 1 \in 1..NProc /\ 1 \in 1..NProc  BY StackNumbers
  <2>2. SwitchInv(1, 1)'  BY <1>8, <2>1, SwitchStands DEF Lost
  <2>3. Unborn(1)'  BY <1>8 DEF Lost, Unborn
  <2> QED BY <1>1, <1>3, <1>8, <2>2, <2>3 DEF Lost, BootInv
<1>9. CASE Wild  BY <1>1, <1>3, <1>9 DEF Wild, BootInv
<1> QED BY <1>5, <1>6, <1>7, <1>8, <1>9 DEF BootInv

LEMMA BootStepInv == BootInv /\ [BootNext]_vars => BootInv'
<1> SUFFICES ASSUME BootInv, BootNext PROVE BootInv'
  BY StandStill
<1>1. CASE Early  BY <1>1, EarlyStep DEF BootInv
<1>2. ASSUME NEW n \in 1..NProc, Shared(n) PROVE BootInv'
  BY <1>2, MainStep DEF BootInv
<1>3. CASE IInv  BY <1>3, HandoverStep DEF BootInv
<1>4. CASE Lost  BY <1>4, LostStep DEF BootInv
<1>5. CASE Wild  BY <1>5, WildStops
<1> QED BY <1>1, <1>2, <1>3, <1>4, <1>5 DEF BootInv

\* The invariant of kernel_main: before the first process, between the
\* processes, after the handover, and in the two ways to miss it.
THEOREM BootInductive == BootSpec => []BootInv
<1>1. BootInit => BootInv  BY BootInitInv DEF BootInv
<1>2. BootInv /\ [BootNext]_vars => BootInv'  BY BootStepInv
<1> QED BY <1>1, <1>2, PTL DEF BootSpec

\* A switch continues at an address that is no saved context only while
\* process_create has stored a state and not yet the stack pointer.
THEOREM WildOnlyHalfBuiltHolds == BootSpec => []WildOnlyHalfBuilt
<1>1. ASSUME BootInv, ~NeverWild PROVE Wild
  <2>1. ~Early  BY <1>1, StackNumbers DEF Early, NeverWild, Shell, NULL
  <2>2. ASSUME NEW n \in 1..NProc, NEW m, SwitchInv(n, m) PROVE NeverWild
    BY <2>2, OwnStacksDisjoint DEF SwitchInv, RunningInv, NeverWild, Slots, NULL
  <2>3. 1 \in 1..NProc  BY StackNumbers
  <2> QED BY <1>1, <2>1, <2>2, <2>3, AllCreated DEF BootInv, Shared, Lost
<1>2. ASSUME Wild PROVE Booting /\ KernelMain.pc \in HalfBuilt
  BY <1>2, StackNumbers DEF Wild, BootFrames, Booting, KernelMain
<1>3. BootInv => WildOnlyHalfBuilt  BY <1>1, <1>2 DEF WildOnlyHalfBuilt
<1> QED BY <1>3, BootInductive, PTL

\* A preempted kernel_main is the saved context of a process that the scheduler
\* picks again, unless it was preempted right before it sets current_pid.
THEOREM LostOnlyBeforeCurrentHolds == BootSpec => []LostOnlyBeforeCurrent
<1>1. ASSUME BootInv, Preempted, KernelMain.pc # "setcur"
      PROVE  \E p \in Slots : /\ process_table[p].state # "DEAD"
                              /\ process_table[p].esp[1] = BootStack
  <2>1. 1 \in 1..MaxDepth  BY StackNumbers
  <2>2. ~Early /\ ~Lost /\ ~Wild  BY <1>1 DEF Early, Lost, Wild, Preempted
  <2>3. ~IInv
    BY <1>1, <2>1, StackNumbers DEF IInv, NoBoot, Preempted, Booting, KernelMain
  <2>4. PICK n \in 1..NProc : Shared(n)  BY <1>1, <2>2, <2>3 DEF BootInv
  <2>5. process_table[Shell].esp[1] = BootStack
    BY <1>1, <2>4 DEF Shared, ShellBooting, Preempted
  <2>6. PICK m \in n..NProc : m = Seen(n)  BY <2>4, SeenRange
  <2>7. Shell \in Procs(m) /\ Shell \in Slots
    BY StackNumbers DEF Procs, Shell
  <2>8. process_table[Shell].state # "DEAD"
    BY <2>4, <2>6, <2>7 DEF Shared, SwitchInv, TableInv
  <2> QED BY <2>5, <2>7, <2>8
<1>2. BootInv => LostOnlyBeforeCurrent
  BY <1>1 DEF LostOnlyBeforeCurrent, BootNotLost
<1> QED BY <1>2, BootInductive, PTL

\* Once kernel_main is gone the invariant of Scheduler holds, and with it every
\* created process is resumable from its own stack and the bookkeeping names
\* the one that runs.
THEOREM HandedOverHolds == BootSpec => []HandedOver
<1>1. ASSUME BootInv, ~Booting PROVE IInv
  <2>1. 1 \in 1..MaxDepth  BY StackNumbers
  <2>2. ~BootFrames
    BY <1>1, <2>1, StackNumbers DEF BootFrames, Booting, KernelMain
  <2> QED BY <1>1, <2>2 DEF BootInv, Early, Shared, Lost, Wild
<1>2. BootInv => HandedOver
  BY <1>1, ContextsIntact, DescribesCurrent DEF HandedOver
<1> QED BY <1>2, BootInductive, PTL
=============================================================================
