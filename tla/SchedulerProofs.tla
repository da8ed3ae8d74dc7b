---------------------------- MODULE SchedulerProofs ----------------------------
(***************************************************************************)
(* Theorems about Scheduler, for every number of slots, processes and      *)
(* nested activations, under TicksSpaced: the inductive invariant, what    *)
(* follows from it, and that Scheduler implements Multitasking.            *)
(***************************************************************************)
EXTENDS SchedulerInv, MCRoundRobin, NatLemmas, FiniteSetTheorems, SequenceTheorems

-----------------------------------------------------------------------------
(* Lookups *)

\* Slots wrap around inside process_table.
LEMMA WrapsAround ==
  ASSUME NEW n \in Nat
  PROVE  n % MaxProcesses \in Slots
<1>1. MaxProcesses \in Nat \ {0}  BY SchedulerAssumption DEF PID_LIMIT
<1> QED BY <1>1 DEF Slots

\* process_get_current finds the slot of the current process.
LEMMA GetCurrent ==
  ASSUME NEW n \in 1..NProc, NEW m \in n..NProc, TableInv(n, m),
         NEW p \in Procs(n), current_pid = p + 1
  PROVE  process_get_current = p /\ Matching = {p}
<1> USE SchedulerAssumption DEF PID_LIMIT
<1>1. Procs(n) \subseteq Slots  BY DEF Procs, Slots
<1>2. \A i \in Slots : process_table[i].pid = p + 1 <=> i = p
  BY <1>1 DEF TableInv, Procs, Slots
<1>3. Matching = {p}  BY <1>1, <1>2 DEF Matching
<1>4. Min({p}) = p  
  <2>1. p \in Nat  BY DEF Procs
  <2> QED BY <2>1, MinIn
<1> QED BY <1>3, <1>4 DEF process_get_current

\* scheduler_next only returns processes whose state is stored.
LEMMA NextIsCreated ==
  ASSUME NEW m \in 1..NProc, Unborn(m)
  PROVE  scheduler_next \in Procs(m) \cup {NULL}
<1> USE SchedulerAssumption DEF PID_LIMIT
<1> DEFINE c == IF Matching = {} THEN 0 ELSE Min(Matching)
<1>1. c \in Nat
  BY MinIn DEF Matching, Slots
<1>2. scheduler_next = IF Runnable(c) = {} THEN NULL
                       ELSE (c + Min(Runnable(c))) % MaxProcesses
  BY DEF scheduler_next
<1> HIDE DEF c
<1>3. ASSUME Runnable(c) # {}
      PROVE  (c + Min(Runnable(c))) % MaxProcesses \in Procs(m)
  <2> DEFINE R == Runnable(c)
  <2>1. \A i \in R : /\ i \in Nat
                     /\ process_table[(c + i) % MaxProcesses].state
                          \in {"READY", "RUNNING"}
    BY DEF Runnable
  <2> HIDE DEF R
  <2>2. PICK k \in R : k = Min(R)  BY <1>3, <2>1, MinIn DEF R
  <2>3. (c + k) % MaxProcesses \in Slots
    <3>1. c + k \in Nat  BY <1>1, <2>1, <2>2
    <3> QED BY <3>1, WrapsAround
  <2>4. process_table[(c + k) % MaxProcesses].state \in {"READY", "RUNNING"}
    BY <2>1, <2>2
  <2> QED BY <2>2, <2>3, <2>4 DEF Unborn, R
<1> QED BY <1>2, <1>3

-----------------------------------------------------------------------------
(* Steps that stay in the running process *)

\* The slots scheduler_next finds hold the complete processes and maybe one more.
LEMMA VisibleSlots ==
  ASSUME NEW n \in 1..NProc, NEW m \in n..NProc
  PROVE  Procs(m) \subseteq Slots /\ Procs(n) \subseteq Procs(m)
BY SchedulerAssumption DEF Procs, Slots, PID_LIMIT

LEMMA OwnStacksDisjoint ==
  ASSUME NEW n \in 1..NProc, NEW p \in Procs(n)
  PROVE  /\ p \in Slots
         /\ p \in OwnStacks(p)
         /\ OwnStacks(p) \subseteq Stacks
         /\ \A q \in Procs(n) : q # p => OwnStacks(p) \cap OwnStacks(q) = {}
BY SchedulerAssumption
   DEF OwnStacks, Procs, Slots, Stacks, StaticStack, BootStack, Shell, PID_LIMIT

\* Below an activation that is not a keyboard handler nothing is in the window.
LEMMA NoWindowBelow ==
  ASSUME NEW n \in 1..NProc, NEW m \in n..NProc, TypeOK, RunningInv(n, m),
         dep > 0, Top.kind # "kbd"
  PROVE  \A d \in 1..dep-1 : ~AtWindow(kstack[stk][d])
BY DEF TypeOK, RunningInv, Top

\* A write to a stack of the running process leaves the others parked.
LEMMA OthersStayParked ==
  ASSUME NEW n \in 1..NProc, NEW m \in n..NProc, TypeOK, ParkedInv(n, m),
         prog \in Procs(n),
         UNCHANGED prog,
         NEW s \in OwnStacks(prog), NEW d, NEW f,
         kstack' = [kstack EXCEPT ![s][d] = f],
         \A p \in Procs(n) : p # prog =>
            process_table'[p].esp = process_table[p].esp
  PROVE  ParkedInv(n, m)'
<1> SUFFICES ASSUME NEW p \in Procs(n), p # prog
             PROVE  LET e == process_table'[p].esp
                    IN  /\ e \in Esp
                        /\ e[1] \in OwnStacks(p)
                        /\ Resumable(kstack'[e[1]][e[2]])
                        /\ \A i \in 1..e[2] : LiveFrame(m, p, i, kstack'[e[1]][i])
                        /\ \A i \in 1..e[2]-1 : ~AtWindow(kstack'[e[1]][i])
  BY DEF ParkedInv, Resumable, OwnStacks, LiveFrame, AtWindow, Procs, Esp, Stacks
<1> DEFINE e == process_table[p].esp
<1>1. e \in Esp /\ e[1] \in OwnStacks(p) /\ e[1] # s
  BY OwnStacksDisjoint DEF ParkedInv
<1>2. kstack'[e[1]] = kstack[e[1]]
  BY <1>1, OwnStacksDisjoint DEF TypeOK
<1>3. process_table'[p].esp = e  OBVIOUS
<1> QED BY <1>1, <1>2, <1>3 DEF ParkedInv

\* The running activation changes from Top to f.
LEMMA ContinueType ==
  ASSUME TypeOK, dep > 0, NEW f \in Frame, Continue(f)
  PROVE  /\ kstack' \in [Stacks -> [1..MaxDepth -> Frame]]
         /\ prog' \in Slots \cup {NULL} /\ stk' \in Stacks /\ dep' \in 0..MaxDepth
         /\ kstack'[stk][dep] = f
         /\ \A d \in 1..dep-1 : kstack'[stk][d] = kstack[stk][d]
BY SchedulerAssumption DEF TypeOK, Continue

LEMMA ContinueRunning ==
  ASSUME NEW n \in 1..NProc, NEW m \in n..NProc, TypeOK, RunningInv(n, m),
         dep > 0, NEW f \in Frame,
         Continue(f),
         LiveFrame(m, prog, dep, f), f.kind = Top.kind
  PROVE  RunningInv(n, m)'
<1> USE ContinueType
<1>1. UNCHANGED <<prog, stk, dep>>  BY DEF Continue
<1>2. \A d \in 1..dep : LiveFrame(m, prog, d, kstack'[stk][d])
  BY DEF RunningInv, TypeOK
<1>3. ASSUME NEW d \in 1..dep, NEW e \in 1..dep, d < e, AtWindow(kstack'[stk][d])
      PROVE  kstack'[stk][e].kind = "kbd"
  <2>1. d \in 1..dep-1 /\ kstack'[stk][d] = kstack[stk][d]  BY <1>3 DEF TypeOK
  <2>2. kstack[stk][e].kind = "kbd"  BY <1>3, <2>1 DEF RunningInv
  <2>3. kstack'[stk][e].kind = kstack[stk][e].kind  BY DEF Top, TypeOK
  <2> QED BY <2>2, <2>3
<1> QED BY <1>1, <1>2, <1>3
       DEF RunningInv, LiveFrame, AtWindow, OwnStacks, Procs

\* ... and neither Top nor f is in the window.
LEMMA ContinueBook ==
  ASSUME NEW n \in 1..NProc, TypeOK, BookInv(n), dep > 0, NEW f \in Frame, Continue(f),
         ~AtWindow(Top), ~AtWindow(f),
         UNCHANGED <<current_pid, tss_esp0>>,
         process_table'[prog].esp = process_table[prog].esp
  PROVE  BookInv(n)'
<1> USE ContinueType
<1>1. UNCHANGED <<prog, stk, dep>>  BY DEF Continue
<1>2. \A d \in 1..dep : AtWindow(kstack'[stk][d]) <=>
                        d \in 1..dep-1 /\ AtWindow(kstack[stk][d])
  BY DEF TypeOK
<1>3. \A d \in 1..dep : AtWindow(kstack[stk][d]) => d \in 1..dep-1
  BY DEF TypeOK, Top
<1> QED BY <1>1, <1>2, <1>3 DEF BookInv, AtWindow, OwnStacks

\* A handler is entered on a stack of the running process.
LEMMA EntryStack ==
  ASSUME NEW n \in 1..NProc, NEW m \in n..NProc, SwitchInv(n, m), NEW k, NEW c, Enter(k, c)
  PROVE  stk' \in OwnStacks(prog) /\ stk' \in Stacks /\ (dep > 0 => stk' = stk)
<1>1. prog \in Procs(n) /\ dep \in 0..MaxDepth
  BY DEF SwitchInv, RunningInv, TypeOK
<1>2. dep = 0 => tss_esp0 \in OwnStacks(prog)
  BY SchedulerAssumption DEF SwitchInv, BookInv
<1> QED BY <1>1, <1>2, OwnStacksDisjoint, SchedulerAssumption
        DEF Enter, SwitchInv, RunningInv

\* A handler is entered; above an activation in the window only the keyboard's.
LEMMA EnterInv ==
  ASSUME NEW n \in 1..NProc, NEW m \in n..NProc, SwitchInv(n, m), isr' \in SUBSET {0, 1},
         NEW k \in {"tick", "kbd", "sys"}, NEW c \in {"eoi", "body"},
         c = (IF k = "sys" THEN "body" ELSE "eoi"), Enter(k, c),
         k = "kbd" \/ \A d \in 1..dep : ~AtWindow(kstack[stk][d])
  PROVE  SwitchInv(n, m)'
<1> DEFINE s == stk'
           f == Activation(k, c, prog)
<1> USE DEF SwitchInv
<1>1. prog \in Procs(n) /\ dep \in 0..MaxDepth-1 /\ MaxDepth \in Nat \ {0}
  BY SchedulerAssumption DEF RunningInv, Enter, TypeOK
<1>2. s \in OwnStacks(prog) /\ s \in Stacks /\ (dep > 0 => s = stk)
  BY EntryStack
<1>3. f \in Frame /\ LiveFrame(m, prog, dep + 1, f) /\ ~AtWindow(f) /\ f.kind = k
  BY <1>1, OwnStacksDisjoint
     DEF Frame, Activation, LiveFrame, AtWindow, Window, TickPc
<1>4. /\ kstack' = [kstack EXCEPT ![s][dep + 1] = f]
      /\ dep' = dep + 1
      /\ UNCHANGED <<process_table, current_pid, tss_esp0, prog>>
  BY DEF Enter
<1> HIDE DEF s, f
<1>5. /\ kstack' \in [Stacks -> [1..MaxDepth -> Frame]]
      /\ kstack'[s][dep + 1] = f
      /\ \A d \in 1..dep : d # dep + 1 /\ kstack'[s][d] = kstack[stk][d]
  BY <1>1, <1>2, <1>3, <1>4 DEF TypeOK
<1>6. TypeOK'
  BY <1>1, <1>2, <1>4, <1>5 DEF TypeOK, s
<1>7. TableInv(n, m)'
  BY <1>4 DEF TableInv, Procs, Slots, Esp, Stacks
<1>8. RunningInv(n, m)'
  <2>1. \A d \in 1..dep' : d \in 1..dep \/ d = dep + 1  BY <1>1, <1>4
  <2>2. \A d \in 1..dep' : LiveFrame(m, prog, d, kstack'[s][d])
    BY <2>1, <1>3, <1>5 DEF RunningInv
  <2>3. ASSUME NEW d \in 1..dep', NEW e \in 1..dep', d < e, AtWindow(kstack'[s][d])
        PROVE  kstack'[s][e].kind = "kbd"
    <3>1. d \in 1..dep /\ AtWindow(kstack[stk][d])
      BY <2>1, <2>3, <1>1, <1>3, <1>5
    <3>2. CASE e \in 1..dep  BY <3>1, <3>2, <2>3, <1>5 DEF RunningInv
    <3>3. CASE e = dep + 1  BY <3>1, <3>3, <1>3, <1>5
    <3> QED BY <2>1, <3>2, <3>3
  <2>4. stk' = s /\ prog' = prog  BY <1>4 DEF Enter, s
  <2> QED BY <1>1, <1>2, <2>2, <2>3, <2>4
          DEF RunningInv, LiveFrame, AtWindow, OwnStacks, Procs
<1>9. BookInv(n)'
  <2>1. \A d \in 1..dep' : AtWindow(kstack'[s][d]) =>
          d \in 1..dep /\ kstack'[s][d] = kstack[stk][d] /\ s = stk
    BY <1>1, <1>2, <1>3, <1>4, <1>5
  <2>2. \A d \in 1..dep : d \in 1..dep' /\ kstack'[s][d] = kstack[stk][d]
    BY <1>1, <1>4, <1>5
  <2> QED BY <1>4, <2>1, <2>2 DEF BookInv, AtWindow, OwnStacks, s
<1>10. ParkedInv(n, m)'
  BY <1>1, <1>2, <1>4, OthersStayParked DEF RunningInv
<1> QED BY <1>6, <1>7, <1>8, <1>9, <1>10

\* A statement that neither enters nor is in the window, and saves no esp.
LEMMA ContinueInv ==
  ASSUME NEW n \in 1..NProc, NEW m \in n..NProc, SwitchInv(n, m), dep > 0, NEW f \in Frame, Continue(f),
         LiveFrame(m, prog, dep, f), f.kind = Top.kind,
         ~AtWindow(Top), ~AtWindow(f),
         UNCHANGED <<current_pid, tss_esp0>>, isr' \in SUBSET {0, 1},
         process_table' \in [Slots -> Proc], TableInv(n, m)',
         \A p \in Procs(n) : process_table'[p].esp = process_table[p].esp
  PROVE  SwitchInv(n, m)'
<1> USE DEF SwitchInv
<1>1. prog \in Procs(n) /\ stk \in OwnStacks(prog)  BY DEF RunningInv
<1>2. TypeOK'  BY ContinueType DEF TypeOK
<1>3. RunningInv(n, m)'  BY ContinueRunning
<1>4. BookInv(n)'  BY <1>1, ContinueBook
<1>5. ParkedInv(n, m)'
  <2>1. kstack' = [kstack EXCEPT ![stk][dep] = f] /\ UNCHANGED prog
    BY DEF Continue
  <2> QED BY <1>1, <2>1, OthersStayParked
<1> QED BY <1>2, <1>3, <1>4, <1>5

\* What the invariant says of the running activation.
LEMMA TopFacts ==
  ASSUME NEW n \in 1..NProc, NEW m \in n..NProc, SwitchInv(n, m), prog # NULL, dep > 0
  PROVE  /\ prog \in Procs(n) /\ prog \in Slots
         /\ stk \in OwnStacks(prog) /\ stk \in Stacks
         /\ dep \in 1..MaxDepth
         /\ Top \in Frame
         /\ LiveFrame(m, prog, dep, Top)
<1>1. prog \in Procs(n) /\ stk \in OwnStacks(prog) /\ stk \in Stacks
      /\ dep \in 1..MaxDepth
  BY SchedulerAssumption DEF SwitchInv, RunningInv, TypeOK
<1>2. LiveFrame(m, prog, dep, Top)  BY <1>1 DEF SwitchInv, RunningInv, Top
<1>3. Top \in Frame  BY <1>1 DEF SwitchInv, TypeOK, Top
<1> QED BY <1>1, <1>2, <1>3, OwnStacksDisjoint

\* Outside the window the bookkeeping describes the running process.
LEMMA BookFacts ==
  ASSUME NEW n \in 1..NProc, NEW m \in n..NProc, SwitchInv(n, m), prog # NULL, dep > 0, Top.kind # "kbd",
         ~AtWindow(Top)
  PROVE  /\ current_pid = prog + 1 /\ tss_esp0 \in OwnStacks(prog)
         /\ process_get_current = prog
<1>1. \A d \in 1..dep : ~AtWindow(kstack[stk][d])
  <2>1. \A d \in 1..dep : d = dep \/ d \in 1..dep-1
    BY DEF SwitchInv, TypeOK
  <2> QED BY <2>1, NoWindowBelow DEF SwitchInv, Top
<1>2. current_pid = prog + 1 /\ tss_esp0 \in OwnStacks(prog)
  BY <1>1 DEF SwitchInv, BookInv
<1> QED BY <1>2, TopFacts, GetCurrent DEF SwitchInv

LEMMA TableUnchanged ==
  ASSUME NEW n \in 1..NProc, NEW m \in n..NProc, SwitchInv(n, m), UNCHANGED process_table
  PROVE  /\ process_table' \in [Slots -> Proc] /\ TableInv(n, m)'
         /\ \A p \in Procs(n) : process_table'[p].esp = process_table[p].esp
BY DEF SwitchInv, TypeOK, TableInv, Procs, Slots, Esp, Stacks, Proc, NullEsp

\* Marking a created process READY or RUNNING.
LEMMA StateOnly ==
  ASSUME NEW n \in 1..NProc, NEW m \in n..NProc, SwitchInv(n, m), NEW i \in Procs(m),
         NEW t \in {"READY", "RUNNING"},
         process_table' = [process_table EXCEPT ![i].state = t]
  PROVE  /\ process_table' \in [Slots -> Proc] /\ TableInv(n, m)'
         /\ \A p \in Procs(n) : process_table'[p].esp = process_table[p].esp
<1>1. Procs(m) \subseteq Slots /\ Procs(n) \subseteq Procs(m)  BY VisibleSlots
<1>2. process_table \in [Slots -> Proc]  BY DEF SwitchInv, TypeOK
<1>3. process_table' \in [Slots -> Proc]  BY <1>1, <1>2 DEF Proc
<1>4. \A p \in Slots : /\ process_table'[p].pid = process_table[p].pid
                       /\ process_table'[p].esp = process_table[p].esp
                       /\ process_table'[p].kernel_stack_top
                            = process_table[p].kernel_stack_top
                       /\ process_table'[p].state =
                            IF p = i THEN t ELSE process_table[p].state
  BY <1>1, <1>2 DEF Proc
<1>5. TableInv(n, m)'
  BY <1>4 DEF SwitchInv, TableInv, Procs, Slots, Esp, Stacks
<1> QED BY <1>1, <1>3, <1>4, <1>5

-----------------------------------------------------------------------------
(* One lemma per action: it keeps the invariant. *)

LEMMA InterruptStep ==
  ASSUME NEW n \in 1..NProc, NEW m \in n..NProc, SwitchInv(n, m), TimerIrq \/ KeyboardIrq \/ Syscall
  PROVE  SwitchInv(n, m)'
<1>1. isr \in SUBSET {0, 1}  BY DEF SwitchInv, TypeOK
<1>2. CASE TimerIrq
  <2>1. \A d \in 1..dep : ~AtWindow(kstack[stk][d])
    BY <1>2, TicksSpaced DEF TimerIrq, TickBusy, AtWindow
  <2> QED BY <1>1, <1>2, <2>1, EnterInv DEF TimerIrq
<1>3. CASE KeyboardIrq
  BY <1>1, <1>3, EnterInv DEF KeyboardIrq
<1>4. CASE Syscall
  <2>1. \A d \in 1..dep : ~AtWindow(kstack[stk][d])  BY <1>4 DEF Syscall
  <2> QED BY <1>1, <1>4, <2>1, EnterInv DEF Syscall
<1> QED BY <1>2, <1>3, <1>4

LEMMA EoiStep ==
  ASSUME NEW n \in 1..NProc, NEW m \in n..NProc, SwitchInv(n, m), Eoi
  PROVE  SwitchInv(n, m)'
<1>1. prog # NULL /\ dep > 0 /\ Top.pc = "eoi" /\ Top.kind \in {"tick", "kbd"}
  BY DEF Eoi, At
<1>2. PICK f : /\ f = [Top EXCEPT !.pc = IF Top.kind = "tick" THEN "cur" ELSE "body"]
               /\ Continue(f)
  BY DEF Eoi, At, Goto
<1>3. f \in Frame /\ LiveFrame(m, prog, dep, f) /\ f.kind = Top.kind
      /\ ~AtWindow(Top) /\ ~AtWindow(f)
  BY <1>1, <1>2, TopFacts DEF Frame, LiveFrame, AtWindow, Window, TickPc
<1>4. isr' \in SUBSET {0, 1}  BY DEF Eoi, SwitchInv, TypeOK
<1>5. UNCHANGED <<process_table, current_pid, tss_esp0>>  BY DEF Eoi
<1> QED BY <1>1, <1>2, <1>3, <1>4, <1>5, TableUnchanged, ContinueInv

LEMMA TickCurStep ==
  ASSUME NEW n \in 1..NProc, NEW m \in n..NProc, SwitchInv(n, m), TickCur
  PROVE  SwitchInv(n, m)'
<1>1. prog # NULL /\ dep > 0 /\ Top.pc = "cur" /\ Top.kind = "tick"
  BY DEF TickCur, At
<1>2. ~AtWindow(Top)  BY <1>1 DEF AtWindow, Window
<1>3. process_get_current = prog  BY <1>1, <1>2, BookFacts
<1>4. PICK f : /\ \/ f = [Top EXCEPT !.pc = "ret", !.cur = NULL, !.next = NULL]
                  \/ f = [Top EXCEPT !.pc = "next", !.cur = process_get_current]
               /\ Continue(f)
  BY DEF TickCur, Return
<1>5. f \in Frame /\ LiveFrame(m, prog, dep, f) /\ f.kind = Top.kind /\ ~AtWindow(f)
  BY <1>1, <1>3, <1>4, TopFacts DEF Frame, LiveFrame, AtWindow, Window, TickPc
<1>6. UNCHANGED <<process_table, current_pid, tss_esp0, isr>>  BY DEF TickCur
<1> QED BY <1>1, <1>2, <1>4, <1>5, <1>6, TableUnchanged, ContinueInv
        DEF SwitchInv, TypeOK

LEMMA TickNextStep ==
  ASSUME NEW n \in 1..NProc, NEW m \in n..NProc, SwitchInv(n, m), Unborn(m), TickNext
  PROVE  SwitchInv(n, m)'
<1>1. prog # NULL /\ dep > 0 /\ Top.pc = "next" /\ Top.kind = "tick"
  BY DEF TickNext, At
<1>2. ~AtWindow(Top)  BY <1>1 DEF AtWindow, Window
<1>3. scheduler_next \in Procs(m) \cup {NULL} /\ Procs(m) \subseteq Slots
  BY NextIsCreated, VisibleSlots
<1>4. PICK f : /\ f = [Top EXCEPT !.pc = "test", !.next = scheduler_next]
               /\ Continue(f)
  BY DEF TickNext
<1>5. f \in Frame /\ LiveFrame(m, prog, dep, f) /\ f.kind = Top.kind /\ ~AtWindow(f)
  BY <1>1, <1>3, <1>4, TopFacts, OwnStacksDisjoint
     DEF Frame, LiveFrame, AtWindow, Window, TickPc
<1>6. UNCHANGED <<process_table, current_pid, tss_esp0, isr>>  BY DEF TickNext
<1> QED BY <1>1, <1>2, <1>4, <1>5, <1>6, TableUnchanged, ContinueInv
        DEF SwitchInv, TypeOK

LEMMA TickTestStep ==
  ASSUME NEW n \in 1..NProc, NEW m \in n..NProc, SwitchInv(n, m), TickTest
  PROVE  SwitchInv(n, m)'
<1>1. prog # NULL /\ dep > 0 /\ Top.pc = "test" /\ Top.kind = "tick"
  BY DEF TickTest, At
<1>2. ~AtWindow(Top)  BY <1>1 DEF AtWindow, Window
<1>3. current_pid = prog + 1  BY <1>1, <1>2, BookFacts
<1>4. UNCHANGED <<current_pid, tss_esp0, isr>>  BY DEF TickTest
<1>5. CASE NoSwitch
  <2>1. PICK f : /\ f = [Top EXCEPT !.pc = "ret", !.cur = NULL, !.next = NULL]
                 /\ Continue(f)
    BY <1>5 DEF TickTest, Return
  <2>2. f \in Frame /\ LiveFrame(m, prog, dep, f) /\ f.kind = Top.kind /\ ~AtWindow(f)
    BY <1>1, <2>1, TopFacts DEF Frame, LiveFrame, AtWindow, Window, TickPc
  <2>3. UNCHANGED process_table  BY <1>5 DEF TickTest
  <2> QED BY <1>1, <1>2, <1>4, <2>1, <2>2, <2>3, TableUnchanged, ContinueInv
          DEF SwitchInv, TypeOK
<1>6. CASE ~NoSwitch
  <2>1. PICK f : f = [Top EXCEPT !.pc = "run"] /\ Continue(f)
    BY <1>6 DEF TickTest, Goto
  <2>2. Top.cur = prog  BY <1>1, TopFacts DEF LiveFrame, TickPc
  <2>3. Top.next \in Procs(m) \ {prog}
    <3>1. Top.next \in Procs(m)
      BY <1>1, <1>6, TopFacts DEF LiveFrame, NoSwitch
    <3>2. process_table[Top.next].pid = Top.next + 1
      BY <3>1, VisibleSlots DEF SwitchInv, TableInv
    <3> QED BY <1>1, <1>3, <1>6, <3>1, <3>2, TopFacts DEF NoSwitch, Procs
  <2>4. f \in Frame /\ LiveFrame(m, prog, dep, f) /\ f.kind = Top.kind /\ ~AtWindow(f)
    BY <1>1, <2>1, <2>2, <2>3, TopFacts
       DEF Frame, LiveFrame, AtWindow, Window, TickPc
  <2>5. PICK t \in {"READY", "RUNNING"} :
          process_table' = [process_table EXCEPT ![prog].state = t]
    <3>1. process_table[prog].state \in {"READY", "RUNNING"}
      BY <1>1, TopFacts, VisibleSlots DEF SwitchInv, TableInv
    <3> QED BY <1>6, <2>2, <3>1 DEF TickTest
  <2>6. /\ process_table' \in [Slots -> Proc]
        /\ TableInv(n, m)'
        /\ \A p \in Procs(n) : process_table'[p].esp = process_table[p].esp
    BY <2>5, StateOnly, TopFacts, VisibleSlots, <1>1
  <2> QED BY <1>1, <1>2, <1>4, <2>1, <2>4, <2>6, ContinueInv DEF SwitchInv, TypeOK
<1> QED BY <1>5, <1>6

LEMMA TickRunStep ==
  ASSUME NEW n \in 1..NProc, NEW m \in n..NProc, SwitchInv(n, m), TickRun
  PROVE  SwitchInv(n, m)'
<1>1. prog # NULL /\ dep > 0 /\ Top.pc = "run" /\ Top.kind = "tick"
  BY DEF TickRun, At
<1>2. ~AtWindow(Top)  BY <1>1 DEF AtWindow, Window
<1>3. UNCHANGED <<current_pid, tss_esp0, isr>>  BY DEF TickRun
<1>4. PICK f : f = [Top EXCEPT !.pc = "pid"] /\ Continue(f)
  BY DEF TickRun, Goto
<1>5. Top.next \in Procs(m)  BY <1>1, TopFacts DEF LiveFrame
<1>6. f \in Frame /\ LiveFrame(m, prog, dep, f) /\ f.kind = Top.kind /\ ~AtWindow(f)
  BY <1>1, <1>4, TopFacts DEF Frame, LiveFrame, AtWindow, Window, TickPc
<1>7. process_table' = [process_table EXCEPT ![Top.next].state = "RUNNING"]
  BY DEF TickRun
<1>8. /\ process_table' \in [Slots -> Proc] /\ TableInv(n, m)'
      /\ \A p \in Procs(n) : process_table'[p].esp = process_table[p].esp
  BY <1>5, <1>7, StateOnly
<1> QED BY <1>1, <1>2, <1>3, <1>4, <1>6, <1>8, ContinueInv DEF SwitchInv, TypeOK

\* A statement of the tick handler that enters the window or is inside it:
\* what BookInv asks of the new activation f is what is left to show.
LEMMA WindowInv ==
  ASSUME NEW n \in 1..NProc, NEW m \in n..NProc, SwitchInv(n, m), prog # NULL, dep > 0, Top.kind = "tick",
         NEW f \in Frame, Continue(f), f.kind = "tick", AtWindow(f),
         LiveFrame(m, prog, dep, f),
         current_pid' \in 0..MaxProcesses, tss_esp0' \in Stacks \cup {NULL},
         UNCHANGED isr,
         process_table' \in [Slots -> Proc], TableInv(n, m)',
         \A p \in Procs(n) : p # prog =>
            process_table'[p].esp = process_table[p].esp,
         current_pid' = f.next + 1,
         f.pc \in {"save", "saved"} /\ f.next \in Procs(n) => tss_esp0' = f.next,
         f.pc = "saved" => process_table'[prog].esp = <<stk, dep>>
  PROVE  SwitchInv(n, m)'
<1>1. /\ prog \in Procs(n) /\ stk \in OwnStacks(prog) /\ stk \in Stacks
      /\ dep \in 1..MaxDepth
  BY TopFacts
<1>2. UNCHANGED <<prog, stk, dep>>  BY DEF Continue
<1>3. TypeOK'  BY ContinueType DEF SwitchInv, TypeOK
<1>4. RunningInv(n, m)'  BY ContinueRunning DEF SwitchInv
<1>5. kstack'[stk][dep] = f /\ \A d \in 1..dep-1 : kstack'[stk][d] = kstack[stk][d]
  BY ContinueType DEF SwitchInv
<1>6. \A d \in 1..dep-1 : ~AtWindow(kstack[stk][d])
  BY NoWindowBelow DEF SwitchInv
<1>7. \A d \in 1..dep : AtWindow(kstack'[stk][d]) <=> d = dep
  <2>1. \A d \in 1..dep : d = dep \/ d \in 1..dep-1  BY <1>1
  <2> QED BY <2>1, <1>5, <1>6 DEF AtWindow
<1>8. BookInv(n)'
  BY <1>1, <1>2, <1>5, <1>7 DEF BookInv, AtWindow
<1>9. ParkedInv(n, m)'
  <2>1. kstack' = [kstack EXCEPT ![stk][dep] = f]  BY DEF Continue
  <2> QED BY <1>1, <1>2, <2>1, OthersStayParked DEF SwitchInv
<1> QED BY <1>3, <1>4, <1>8, <1>9 DEF SwitchInv, TypeOK

LEMMA TickPidStep ==
  ASSUME NEW n \in 1..NProc, NEW m \in n..NProc, SwitchInv(n, m), TickPid
  PROVE  SwitchInv(n, m)'
<1>1. prog # NULL /\ dep > 0 /\ Top.pc = "pid" /\ Top.kind = "tick"
  BY DEF TickPid, At
<1>2. PICK f : f = [Top EXCEPT !.pc = "esp0"] /\ Continue(f)
  BY DEF TickPid, Goto
<1>3. Top.next \in Procs(m) \ {prog}  BY <1>1, TopFacts DEF LiveFrame
<1>4. /\ f \in Frame /\ LiveFrame(m, prog, dep, f) /\ AtWindow(f)
      /\ f.kind = "tick" /\ f.next = Top.next /\ f.pc = "esp0"
  BY <1>1, <1>2, TopFacts DEF Frame, LiveFrame, AtWindow, Window, TickPc
<1>5. current_pid' = f.next + 1 /\ current_pid' \in 0..MaxProcesses
  <2>1. current_pid' = process_table[Top.next].pid  BY DEF TickPid
  <2>2. process_table[Top.next].pid = Top.next + 1
    BY <1>3, VisibleSlots DEF SwitchInv, TableInv
  <2> QED BY <1>3, <1>4, <2>1, <2>2, VisibleSlots, SchedulerAssumption
          DEF Slots, PID_LIMIT
<1>6. UNCHANGED <<process_table, tss_esp0, isr>>  BY DEF TickPid
<1> QED BY <1>1, <1>2, <1>4, <1>5, <1>6, TableUnchanged, WindowInv
        DEF SwitchInv, TypeOK

LEMMA TickEsp0Step ==
  ASSUME NEW n \in 1..NProc, NEW m \in n..NProc, SwitchInv(n, m), TickEsp0
  PROVE  SwitchInv(n, m)'
<1>1. prog # NULL /\ dep > 0 /\ Top.pc = "esp0" /\ Top.kind = "tick"
  BY DEF TickEsp0, At
<1>2. PICK f : f = [Top EXCEPT !.pc = "save"] /\ Continue(f)
  BY DEF TickEsp0, Goto
<1>3. Top.next \in Procs(m) \ {prog}
  BY <1>1, TopFacts DEF LiveFrame, Window
<1>4. /\ f \in Frame /\ LiveFrame(m, prog, dep, f) /\ AtWindow(f)
      /\ f.kind = "tick" /\ f.next = Top.next /\ f.pc = "save"
  BY <1>1, <1>2, TopFacts DEF Frame, LiveFrame, AtWindow, Window, TickPc
<1>5. current_pid = Top.next + 1
  BY <1>1, TopFacts DEF SwitchInv, BookInv, AtWindow, Window, Top
<1>6. /\ tss_esp0' \in Stacks \cup {NULL}
      /\ f.next \in Procs(n) => tss_esp0' = f.next
  <2>1. /\ tss_esp0' = process_table[Top.next].kernel_stack_top
        /\ Top.next \in Slots /\ process_table \in [Slots -> Proc]
    BY <1>3, VisibleSlots DEF TickEsp0, SwitchInv, TypeOK
  <2>2. process_table[Top.next].kernel_stack_top \in Stacks \cup {NULL}
    BY <2>1 DEF Proc
  <2>3. Top.next \in Procs(n) => process_table[Top.next].kernel_stack_top = Top.next
    BY <2>1 DEF SwitchInv, TableInv
  <2> QED BY <1>4, <2>1, <2>2, <2>3
<1>7. UNCHANGED <<process_table, current_pid, isr>>  BY DEF TickEsp0
<1> QED BY <1>1, <1>2, <1>4, <1>5, <1>6, <1>7, TableUnchanged, WindowInv
        DEF SwitchInv, TypeOK

LEMMA TickSaveStep ==
  ASSUME NEW n \in 1..NProc, NEW m \in n..NProc, SwitchInv(n, m), TickSave
  PROVE  SwitchInv(n, m)'
<1>1. prog # NULL /\ dep > 0 /\ Top.pc = "save" /\ Top.kind = "tick"
  BY DEF TickSave, At
<1>2. PICK f : f = [Top EXCEPT !.pc = "saved"] /\ Continue(f)
  BY DEF TickSave, Goto
<1>3. Top.cur = prog  BY <1>1, TopFacts DEF LiveFrame, TickPc
<1>4. /\ f \in Frame /\ LiveFrame(m, prog, dep, f) /\ AtWindow(f)
      /\ f.kind = "tick" /\ f.next = Top.next /\ f.pc = "saved"
  BY <1>1, <1>2, TopFacts DEF Frame, LiveFrame, AtWindow, Window, TickPc
<1>5. /\ current_pid = Top.next + 1
      /\ Top.next \in Procs(n) => tss_esp0 = Top.next
  BY <1>1, TopFacts DEF SwitchInv, BookInv, AtWindow, Window, Top
<1>6. process_table' = [process_table EXCEPT ![prog].esp = <<stk, dep>>]
      /\ <<stk, dep>> \in Esp
  BY <1>1, <1>3, TopFacts DEF TickSave, Esp
<1>7. process_table \in [Slots -> Proc] /\ prog \in Slots /\ prog \in Procs(n)
  BY <1>1, TopFacts DEF SwitchInv, TypeOK
<1>8. process_table' \in [Slots -> Proc]  BY <1>6, <1>7 DEF Proc
<1>9. \A p \in Slots : /\ process_table'[p].pid = process_table[p].pid
                       /\ process_table'[p].state = process_table[p].state
                       /\ process_table'[p].kernel_stack_top
                            = process_table[p].kernel_stack_top
                       /\ process_table'[p].esp =
                            IF p = prog THEN <<stk, dep>> ELSE process_table[p].esp
  BY <1>6, <1>7 DEF Proc
<1>10. TableInv(n, m)'
  BY <1>6, <1>7, <1>9 DEF SwitchInv, TableInv, Procs, Slots, Esp, Stacks
<1>11. UNCHANGED <<current_pid, tss_esp0, isr>>  BY DEF TickSave
<1>12. \A p \in Procs(n) : p \in Slots  BY OwnStacksDisjoint
<1> QED BY <1>1, <1>2, <1>4, <1>5, <1>7, <1>8, <1>9, <1>10, <1>11, <1>12, WindowInv
        DEF SwitchInv, TypeOK

\* The switch goes on in a complete process, or nowhere.
LEMMA LoadLands ==
  ASSUME NEW n \in 1..NProc, NEW m \in n..NProc, SwitchInv(n, m), TickLoad
  PROVE  /\ Top.next \in Procs(n) => Top.next \in Procs(n) \ {prog}
         /\ Top.next \notin Procs(n) =>
              n # m /\ prog' = NULL /\ UNCHANGED <<kstack, process_table>>
<1>1. prog # NULL /\ dep > 0 /\ Top.pc = "saved" /\ Top.kind = "tick"
  BY DEF TickLoad, At
<1>2. Top.next \in Procs(m) \ {prog}  BY <1>1, TopFacts DEF LiveFrame, Window
<1>3. ASSUME Top.next \notin Procs(n)
      PROVE  n # m /\ prog' = NULL /\ UNCHANGED <<kstack, process_table>>
  <2>1. process_table[Top.next].esp = NullEsp
    BY <1>2, <1>3, VisibleSlots DEF SwitchInv, TableInv
  <2>2. NullEsp \notin Esp
    BY SchedulerAssumption DEF NullEsp, Esp, Stacks, NULL
  <2> QED BY <1>2, <1>3, <2>1, <2>2 DEF TickLoad, Lands
<1> QED BY <1>2, <1>3

\* The process that leaves is parked, the one that arrives runs under the
\* bookkeeping that was prepared for it.
LEMMA TickLoadStep ==
  ASSUME NEW n \in 1..NProc, NEW m \in n..NProc, SwitchInv(n, m), TickLoad,
         Top.next \in Procs(n)
  PROVE  SwitchInv(n, m)'
<1>1. prog # NULL /\ dep > 0 /\ Top.pc = "saved" /\ Top.kind = "tick"
  BY DEF TickLoad, At
<1>2. PICK q \in Procs(n) \ {prog} : Top.next = q
  BY LoadLands
<1>3. /\ current_pid = q + 1 /\ tss_esp0 = q
      /\ process_table[prog].esp = <<stk, dep>>
  BY <1>1, <1>2, TopFacts DEF SwitchInv, BookInv, AtWindow, Window, Top
<1>4. PICK s \in Stacks, e \in 1..MaxDepth : process_table[q].esp = <<s, e>>
  BY <1>2 DEF SwitchInv, ParkedInv, Esp
<1>5. /\ s \in OwnStacks(q)
      /\ Resumable(kstack[s][e])
      /\ \A d \in 1..e : LiveFrame(m, q, d, kstack[s][d])
      /\ \A d \in 1..e-1 : ~AtWindow(kstack[s][d])
  BY <1>2, <1>4 DEF SwitchInv, ParkedInv
<1> DEFINE f == Resumed(kstack[s][e])
<1>6. /\ stk' = s /\ dep' = e /\ prog' = q
      /\ kstack' = [kstack EXCEPT ![s][e] = f]
      /\ UNCHANGED <<process_table, current_pid, tss_esp0, isr>>
  <2>1. <<s, e>> \in Esp /\ Lands(<<s, e>>)  BY <1>5 DEF Lands, Esp
  <2>2. kstack[s][e].prog = q  BY <1>4, <1>5 DEF LiveFrame
  <2> QED BY <1>2, <1>4, <2>1, <2>2 DEF TickLoad
<1>7. kstack[s][e] \in Frame /\ LiveFrame(m, q, e, kstack[s][e])
  <2>1. kstack \in [Stacks -> [1..MaxDepth -> Frame]]  BY DEF SwitchInv, TypeOK
  <2>2. e \in 1..e  BY <1>4
  <2> QED BY <1>4, <1>5, <2>1, <2>2
<1>8. f \in Frame /\ LiveFrame(m, q, e, f) /\ ~AtWindow(f)
  <2>1. CASE kstack[s][e].kind = "tramp"
    <3>1. f = kstack[s][e] /\ f.kind # "tick"  BY <2>1 DEF Resumed
    <3> QED BY <1>7, <3>1 DEF AtWindow
  <2>2. CASE kstack[s][e].kind # "tramp"
    <3>1. f = [kstack[s][e] EXCEPT !.pc = "ret", !.cur = NULL, !.next = NULL]
      BY <2>2 DEF Resumed
    <3>2. kstack[s][e].kind = "tick"  BY <1>5, <2>2 DEF Resumable
    <3>3. f \in Frame  BY <1>7, <3>1 DEF Frame, TickPc
    <3>4. f.pc = "ret" /\ f.kind = "tick" /\ f.prog = q
      BY <1>7, <3>1, <3>2 DEF Frame, LiveFrame
    <3>5. LiveFrame(m, q, e, f)  BY <3>4 DEF LiveFrame, TickPc, Window
    <3> QED BY <3>3, <3>4, <3>5 DEF AtWindow, Window
  <2> QED BY <2>1, <2>2
<1> HIDE DEF f
<1>9. /\ q \in Slots /\ prog \in Procs(n) /\ stk \in OwnStacks(prog)
      /\ s # stk /\ stk \in Stacks /\ dep \in 1..MaxDepth
  BY <1>1, <1>2, <1>5, TopFacts, OwnStacksDisjoint
<1>10. /\ kstack' \in [Stacks -> [1..MaxDepth -> Frame]]
       /\ kstack'[s][e] = f
       /\ \A d \in 1..e-1 : kstack'[s][d] = kstack[s][d]
       /\ \A t \in Stacks : t # s => kstack'[t] = kstack[t]
  <2>1. kstack \in [Stacks -> [1..MaxDepth -> Frame]]  BY DEF SwitchInv, TypeOK
  <2> QED BY <1>4, <1>6, <1>8, <2>1, SchedulerAssumption
<1>11. \A d \in 1..e : d = e \/ d \in 1..e-1  BY <1>4
<1>12. \A d \in 1..e : LiveFrame(m, q, d, kstack'[s][d]) /\ ~AtWindow(kstack'[s][d])
  BY <1>5, <1>8, <1>10, <1>11
<1>13. TypeOK'
  BY <1>4, <1>6, <1>9, <1>10, SchedulerAssumption DEF SwitchInv, TypeOK
<1>14. TableInv(n, m)'
  BY TableUnchanged, <1>6
<1>15. RunningInv(n, m)'
  BY <1>5, <1>6, <1>12 DEF RunningInv, LiveFrame, AtWindow, OwnStacks, Procs
<1>16. BookInv(n)'
  BY <1>3, <1>6, <1>12, <1>2, OwnStacksDisjoint DEF BookInv, AtWindow, OwnStacks
<1>17. ParkedInv(n, m)'
  <2> SUFFICES ASSUME NEW p \in Procs(n), p # q
               PROVE  LET x == process_table'[p].esp
                      IN  /\ x \in Esp
                          /\ x[1] \in OwnStacks(p)
                          /\ Resumable(kstack'[x[1]][x[2]])
                          /\ \A i \in 1..x[2] : LiveFrame(m, p, i, kstack'[x[1]][i])
                          /\ \A i \in 1..x[2]-1 : ~AtWindow(kstack'[x[1]][i])
    BY <1>6 DEF ParkedInv, Resumable, OwnStacks, LiveFrame, AtWindow,
                Procs, Esp, Stacks
  <2> USE <1>6
  <2>1. CASE p # prog
    <3> DEFINE x == process_table[p].esp
    <3>1. x \in Esp /\ x[1] \in OwnStacks(p)  BY <2>1 DEF SwitchInv, ParkedInv
    <3>2. x[1] # s  BY <1>2, <1>5, <3>1, OwnStacksDisjoint
    <3>3. kstack'[x[1]] = kstack[x[1]]
      BY <1>10, <3>1, <3>2, OwnStacksDisjoint
    <3> QED BY <2>1, <3>1, <3>3 DEF SwitchInv, ParkedInv
  <2>2. CASE p = prog
    <3>1. kstack'[stk] = kstack[stk]  BY <1>9, <1>10
    <3>2. Resumable(kstack'[stk][dep])  BY <1>1, <3>1 DEF Resumable, Top
    <3>3. \A i \in 1..dep : LiveFrame(m, prog, i, kstack'[stk][i])
      BY <3>1 DEF SwitchInv, RunningInv
    <3>4. \A i \in 1..dep-1 : ~AtWindow(kstack'[stk][i])
      BY <1>1, <3>1, NoWindowBelow DEF SwitchInv
    <3>5. <<stk, dep>> \in Esp  BY <1>9 DEF Esp
    <3> QED BY <2>2, <1>3, <1>9, <3>2, <3>3, <3>4, <3>5
  <2> QED BY <2>1, <2>2
<1> QED BY <1>13, <1>14, <1>15, <1>16, <1>17 DEF SwitchInv

LEMMA BodyStep ==
  ASSUME NEW n \in 1..NProc, NEW m \in n..NProc, SwitchInv(n, m), Body
  PROVE  SwitchInv(n, m)'
<1>1. prog # NULL /\ dep > 0 /\ Top.pc = "body" /\ Top.kind \in {"kbd", "sys"}
  BY DEF Body, At
<1>2. PICK f : f = [Top EXCEPT !.pc = "ret"] /\ Continue(f)
  BY DEF Body, Goto
<1>3. f \in Frame /\ LiveFrame(m, prog, dep, f) /\ f.kind = Top.kind
      /\ ~AtWindow(Top) /\ ~AtWindow(f)
  BY <1>1, <1>2, TopFacts DEF Frame, LiveFrame, AtWindow, Window, TickPc
<1>4. UNCHANGED <<process_table, current_pid, tss_esp0, isr>>  BY DEF Body
<1> QED BY <1>1, <1>2, <1>3, <1>4, TableUnchanged, ContinueInv DEF SwitchInv, TypeOK

\* The innermost handler, outside the window, is left.
LEMMA PopInv ==
  ASSUME NEW n \in 1..NProc, NEW m \in n..NProc, SwitchInv(n, m), prog # NULL, dep > 0, ~AtWindow(Top),
         kstack' = [kstack EXCEPT ![stk][dep] = Empty], dep' = dep - 1,
         UNCHANGED <<process_table, current_pid, tss_esp0, prog, stk, isr>>
  PROVE  SwitchInv(n, m)'
<1>1. /\ prog \in Procs(n) /\ prog \in Slots /\ stk \in OwnStacks(prog)
      /\ stk \in Stacks /\ dep \in 1..MaxDepth
  BY TopFacts
<1>2. Empty \in Frame  BY DEF Empty, Activation, Frame
<1>3. /\ kstack' \in [Stacks -> [1..MaxDepth -> Frame]]
      /\ \A d \in 1..dep' : d \in 1..dep /\ d # dep /\ kstack'[stk][d] = kstack[stk][d]
  BY <1>1, <1>2 DEF SwitchInv, TypeOK
<1>4. \A d \in 1..dep : d = dep \/ d \in 1..dep'  BY <1>1
<1>5. TypeOK'
  <2>1. dep' \in 0..MaxDepth  BY <1>1, SchedulerAssumption
  <2>2. TypeOK  BY DEF SwitchInv
  <2> QED BY <1>1, <1>3, <2>1, <2>2 DEF TypeOK
<1>6. TableInv(n, m)'  BY TableUnchanged
<1>7. RunningInv(n, m)'
  <2>1. \A d \in 1..dep' : LiveFrame(m, prog, d, kstack'[stk][d])
    BY <1>3 DEF SwitchInv, RunningInv
  <2>2. \A d, e \in 1..dep' : d < e /\ AtWindow(kstack'[stk][d]) =>
                                kstack'[stk][e].kind = "kbd"
    BY <1>3 DEF SwitchInv, RunningInv
  <2> QED BY <1>1, <2>1, <2>2
          DEF RunningInv, LiveFrame, AtWindow, OwnStacks, Procs
<1>8. BookInv(n)'
  <2>1. \A d \in 1..dep : AtWindow(kstack[stk][d]) => d \in 1..dep'
    BY <1>4 DEF Top
  <2> QED BY <1>3, <2>1 DEF SwitchInv, BookInv, AtWindow, OwnStacks
<1>9. ParkedInv(n, m)'
  BY <1>1, OthersStayParked DEF SwitchInv
<1> QED BY <1>5, <1>6, <1>7, <1>8, <1>9 DEF SwitchInv

LEMMA IretStep ==
  ASSUME NEW n \in 1..NProc, NEW m \in n..NProc, SwitchInv(n, m), Iret
  PROVE  SwitchInv(n, m)'
<1>1. prog # NULL /\ dep > 0 /\ Top.pc = "ret"  BY DEF Iret, At
<1>2. ~AtWindow(Top)  BY <1>1 DEF AtWindow, Window
<1> QED BY <1>1, <1>2, PopInv DEF Iret

LEMMA TrampGetStep ==
  ASSUME NEW n \in 1..NProc, NEW m \in n..NProc, SwitchInv(n, m), TrampGet
  PROVE  SwitchInv(n, m)'
<1>1. prog # NULL /\ dep > 0 /\ Top.pc = "get" /\ Top.kind = "tramp"
  BY DEF TrampGet, At
<1>2. ~AtWindow(Top)  BY <1>1 DEF AtWindow
<1>3. process_get_current = prog  BY <1>1, <1>2, BookFacts
<1>4. PICK f : /\ f = [Top EXCEPT !.pc = "iret", !.cur = process_get_current]
               /\ Continue(f)
  BY DEF TrampGet
<1>5. f \in Frame /\ LiveFrame(m, prog, dep, f) /\ f.kind = Top.kind /\ ~AtWindow(f)
  BY <1>1, <1>3, <1>4, TopFacts
     DEF Frame, LiveFrame, AtWindow, Window, TickPc, BootPc
<1>6. UNCHANGED <<process_table, current_pid, tss_esp0, isr>>  BY DEF TrampGet
<1> QED BY <1>1, <1>2, <1>4, <1>5, <1>6, TableUnchanged, ContinueInv
        DEF SwitchInv, TypeOK

LEMMA TrampIretStep ==
  ASSUME NEW n \in 1..NProc, NEW m \in n..NProc, SwitchInv(n, m), TrampIret
  PROVE  SwitchInv(n, m)'
<1>1. prog # NULL /\ dep > 0 /\ Top.pc = "iret" /\ Top.kind = "tramp"
  BY DEF TrampIret, At
<1>2. ~AtWindow(Top)  BY <1>1 DEF AtWindow
<1>3. Top.cur = prog /\ dep = 1  BY <1>1, TopFacts DEF LiveFrame
<1> QED BY <1>1, <1>2, <1>3, PopInv DEF TrampIret

LEMMA SwitchStands ==
  ASSUME NEW n \in 1..NProc, NEW m \in n..NProc, SwitchInv(n, m), UNCHANGED vars
  PROVE  SwitchInv(n, m)'
<1> USE DEF vars
<1>1. TypeOK'  BY DEF SwitchInv, TypeOK
<1>2. TableInv(n, m)'  BY TableUnchanged
<1>3. RunningInv(n, m)'
  BY DEF SwitchInv, RunningInv, LiveFrame, AtWindow, OwnStacks, Procs
<1>4. BookInv(n)'  BY DEF SwitchInv, BookInv, AtWindow, OwnStacks
<1>5. ParkedInv(n, m)'
  <2>1. \A p \in Procs(n) \ {prog} :
          LET e == process_table'[p].esp
          IN  /\ e \in Esp
              /\ e[1] \in OwnStacks(p)
              /\ Resumable(kstack'[e[1]][e[2]])
              /\ \A d \in 1..e[2] : LiveFrame(m, p, d, kstack'[e[1]][d])
              /\ \A d \in 1..e[2]-1 : ~AtWindow(kstack'[e[1]][d])
    BY DEF SwitchInv, ParkedInv
  <2> QED BY <2>1, Zenon DEF ParkedInv, Resumable, LiveFrame, AtWindow, OwnStacks
<1> QED BY <1>1, <1>2, <1>3, <1>4, <1>5 DEF SwitchInv

\* The switch works on, or it goes to the process that has no stack pointer yet.
LEMMA SwitchStep ==
  ASSUME NEW n \in 1..NProc, NEW m \in n..NProc, SwitchInv(n, m), [Next]_vars,
         Unborn(m)
  PROVE  SwitchInv(n, m)' \/ (n # m /\ prog' = NULL /\ UNCHANGED <<kstack, process_table>>)
<1>1. CASE TimerIrq \/ KeyboardIrq \/ Syscall  BY <1>1, InterruptStep
<1>2. CASE Eoi        BY <1>2, EoiStep
<1>3. CASE TickCur    BY <1>3, TickCurStep
<1>4. CASE TickNext   BY <1>4, TickNextStep
<1>5. CASE TickTest   BY <1>5, TickTestStep
<1>6. CASE TickRun    BY <1>6, TickRunStep
<1>7. CASE TickPid    BY <1>7, TickPidStep
<1>8. CASE TickEsp0   BY <1>8, TickEsp0Step
<1>9. CASE TickSave   BY <1>9, TickSaveStep
<1>10. CASE TickLoad  BY <1>10, TickLoadStep, LoadLands
<1>11. CASE Body      BY <1>11, BodyStep
<1>12. CASE Iret      BY <1>12, IretStep
<1>13. CASE TrampGet  BY <1>13, TrampGetStep
<1>14. CASE TrampIret BY <1>14, TrampIretStep
<1>15. CASE UNCHANGED vars  BY <1>15, SwitchStands
<1> QED
  BY <1>1, <1>2, <1>3, <1>4, <1>5, <1>6, <1>7, <1>8, <1>9, <1>10, <1>11, <1>12,
     <1>13, <1>14, <1>15 DEF Next, CpuStep

-----------------------------------------------------------------------------
(* Isolation: a step writes to stacks of the process that runs before or    *)
(* after it and saves no stack pointer but the running process's.           *)

LEMMA StepWrites ==
  ASSUME NEW n \in 1..NProc, NEW m \in n..NProc, SwitchInv(n, m), Next
  PROVE  /\ \E r \in Procs(n) \cap {prog, prog'} : \A s \in Stacks :
               s \notin OwnStacks(r) => kstack'[s] = kstack[s]
         /\ \A p \in Procs(n) : p # prog =>
               process_table'[p].esp = process_table[p].esp
<1>1. prog \in Procs(n) /\ prog # NULL
  BY OwnStacksDisjoint DEF SwitchInv, RunningInv, Slots, NULL
<1> DEFINE Writes(s) == \E d, f : kstack' = [kstack EXCEPT ![s][d] = f]
<1>2. ASSUME NEW r \in Procs(n), NEW s \in OwnStacks(r), Writes(s)
      PROVE  \A t \in Stacks : t \notin OwnStacks(r) => kstack'[t] = kstack[t]
  BY <1>2, OwnStacksDisjoint DEF SwitchInv, TypeOK
<1>3. CASE TickLoad /\ Top.next \in Procs(n)
  <2>1. dep > 0 /\ Top.pc = "saved" /\ Top.kind = "tick"
    BY <1>3 DEF TickLoad, At
  <2>2. PICK q \in Procs(n) \ {prog} : Top.next = q  BY <1>3, LoadLands
  <2> DEFINE e == process_table[q].esp
  <2>3. /\ e \in Esp /\ e[1] \in OwnStacks(q) /\ Lands(e)
        /\ kstack[e[1]][e[2]].prog = q
    <3>1. /\ e \in Esp /\ e[1] \in OwnStacks(q)
          /\ Resumable(kstack[e[1]][e[2]])
          /\ \A d \in 1..e[2] : LiveFrame(m, q, d, kstack[e[1]][d])
      BY <2>2 DEF SwitchInv, ParkedInv
    <3>2. e[2] \in 1..e[2]  BY <3>1, SchedulerAssumption DEF Esp
    <3> QED BY <3>1, <3>2 DEF Lands, LiveFrame
  <2>4. /\ prog' = kstack[e[1]][e[2]].prog
        /\ kstack' = [kstack EXCEPT ![e[1]][e[2]] = Resumed(@)]
        /\ UNCHANGED process_table
    <3>1. Lands(process_table[Top.next].esp)  BY <2>2, <2>3
    <3> QED BY <1>3, <2>2, <3>1 DEF TickLoad
  <2>5. Writes(e[1])  BY <2>4
  <2>6. prog' = q  BY <2>3, <2>4
  <2> QED BY <1>2, <2>2, <2>3, <2>4, <2>5, <2>6
<1>4. CASE TimerIrq \/ KeyboardIrq \/ Syscall
  <2>1. PICK k, c : Enter(k, c)
    BY <1>4 DEF TimerIrq, KeyboardIrq, Syscall
  <2>2. stk' \in OwnStacks(prog)  BY <2>1, EntryStack
  <2>3. Writes(stk') /\ UNCHANGED process_table  BY <2>1 DEF Enter
  <2> QED BY <1>1, <1>2, <2>2, <2>3
<1>5. ASSUME Next, ~TickLoad, ~(TimerIrq \/ KeyboardIrq \/ Syscall)
      PROVE  dep > 0 /\ Writes(stk)
  BY <1>5 DEF Next, CpuStep, Eoi, TickCur, TickNext, TickTest, TickRun, TickPid,
     TickEsp0, TickSave, Body, Iret, TrampGet, TrampIret, At, Goto, Return, Continue
<1>6. ASSUME Next, ~TickLoad, ~(TimerIrq \/ KeyboardIrq \/ Syscall),
             NEW p \in Procs(n), p # prog
      PROVE  process_table'[p].esp = process_table[p].esp
  <2>1. p \in Slots /\ process_table \in [Slots -> Proc]
    BY OwnStacksDisjoint DEF SwitchInv, TypeOK
  <2>2. CASE TickSave
    <3>1. dep > 0 /\ Top.cur = prog
      BY <1>1, <2>2, TopFacts DEF TickSave, At, LiveFrame, TickPc
    <3> QED BY <1>6, <2>1, <2>2, <3>1 DEF TickSave
  <2>3. CASE TickTest  BY <2>1, <2>3 DEF TickTest, Proc
  <2>4. CASE TickRun   BY <2>1, <2>4 DEF TickRun, Proc
  <2>5. CASE ~TickSave /\ ~TickTest /\ ~TickRun
    BY <1>6, <2>5 DEF Next, CpuStep, Eoi, TickCur, TickNext, TickPid,
       TickEsp0, Body, Iret, TrampGet, TrampIret
  <2> QED BY <2>2, <2>3, <2>4, <2>5
<1>7. CASE ~TickLoad /\ ~(TimerIrq \/ KeyboardIrq \/ Syscall)
  <2>1. stk \in OwnStacks(prog) /\ Writes(stk)
    BY <1>1, <1>5, <1>7, TopFacts
  <2> QED BY <1>1, <1>2, <1>6, <1>7, <2>1
<1>8. CASE TickLoad /\ Top.next \notin Procs(n)  BY <1>1, <1>8, LoadLands
<1> QED BY <1>3, <1>4, <1>7, <1>8

-----------------------------------------------------------------------------
(* What a step leaves alone *)

\* A statement of a handler replaces the innermost activation by one of the
\* same kind; the kinds of handlers are all but kernel_main.
LEMMA Statement ==
  ASSUME NEW n \in 1..NProc, NEW m \in n..NProc, SwitchInv(n, m),
         Eoi \/ TickCur \/ TickNext \/ TickTest \/ TickRun \/ TickPid
           \/ TickEsp0 \/ TickSave \/ Body \/ TrampGet
  PROVE  /\ prog # NULL /\ dep > 0 /\ Top.kind # "boot"
         /\ \E f : Continue(f) /\ f.kind = Top.kind /\ f.pc # "eoi"
<1>1. prog # NULL /\ dep > 0 /\ Top.kind \in {"tick", "kbd", "sys", "tramp"}
  BY DEF Eoi, TickCur, TickNext, TickTest, TickRun, TickPid, TickEsp0,
     TickSave, Body, TrampGet, At
<1>2. Top \in Frame  BY <1>1, TopFacts
<1> DEFINE Stays == \E f : Continue(f) /\ f.kind = Top.kind /\ f.pc # "eoi"
<1>3. ASSUME Return PROVE Stays
  <2> DEFINE g == [Top EXCEPT !.pc = "ret", !.cur = NULL, !.next = NULL]
  <2>1. g.kind = Top.kind /\ g.pc # "eoi"  BY <1>2 DEF Frame
  <2>2. Continue(g)  BY <1>3 DEF Return
  <2> HIDE DEF g
  <2> QED BY <2>1, <2>2
<1>4. ASSUME NEW c, Goto(c), c # "eoi" PROVE Stays
  <2> DEFINE g == [Top EXCEPT !.pc = c]
  <2>1. g.kind = Top.kind /\ g.pc # "eoi"  BY <1>2, <1>4 DEF Frame
  <2>2. Continue(g)  BY <1>4 DEF Goto
  <2> HIDE DEF g
  <2> QED BY <2>1, <2>2
<1>5. ASSUME Eoi \/ TickTest \/ TickRun \/ TickPid \/ TickEsp0 \/ TickSave \/ Body
      PROVE  Stays
  <2>1. (\E c : Goto(c) /\ c # "eoi") \/ Return
    BY <1>5 DEF Eoi, TickTest, TickRun, TickPid, TickEsp0, TickSave, Body
  <2> QED BY <1>3, <1>4, <2>1
<1>6. ASSUME TickCur PROVE Stays
  <2> DEFINE g == [Top EXCEPT !.pc = "next", !.cur = process_get_current]
  <2>1. g.kind = Top.kind /\ g.pc # "eoi"  BY <1>2 DEF Frame
  <2>2. Return \/ Continue(g)  BY <1>6 DEF TickCur
  <2> HIDE DEF g
  <2> QED BY <1>3, <2>1, <2>2
<1>7. ASSUME TickNext PROVE Stays
  <2> DEFINE g == [Top EXCEPT !.pc = "test", !.next = scheduler_next]
  <2>1. g.kind = Top.kind /\ g.pc # "eoi"  BY <1>2 DEF Frame
  <2>2. Continue(g)  BY <1>7 DEF TickNext
  <2> HIDE DEF g
  <2> QED BY <2>1, <2>2
<1>8. ASSUME TrampGet PROVE Stays
  <2> DEFINE g == [Top EXCEPT !.pc = "iret", !.cur = process_get_current]
  <2>1. g.kind = Top.kind /\ g.pc # "eoi"  BY <1>2 DEF Frame
  <2>2. Continue(g)  BY <1>8 DEF TrampGet
  <2> HIDE DEF g
  <2> QED BY <2>1, <2>2
<1> HIDE DEF Stays
<1>9. Stays  BY <1>5, <1>6, <1>7, <1>8
<1> QED BY <1>1, <1>9 DEF Stays

\* scheduler_tick only writes to the slots of the processes it switches between;
\* one without a stack pointer is at most marked as running.
LEMMA Strangers ==
  ASSUME NEW n \in 1..NProc, NEW m \in n..NProc, SwitchInv(n, m), Next,
         NEW i \in Slots \ Procs(n)
  PROVE  \/ process_table'[i] = process_table[i]
         \/ /\ i \in Procs(m)
            /\ process_table'[i] = [process_table[i] EXCEPT !.state = "RUNNING"]
<1>1. process_table \in [Slots -> Proc]  BY DEF SwitchInv, TypeOK
<1>2. CASE TickTest
  <2>1. prog # NULL /\ dep > 0 /\ Top.pc = "test" /\ Top.kind = "tick"
    BY <1>2 DEF TickTest, At
  <2>2. Top.cur = prog /\ prog \in Procs(n)
    BY <2>1, TopFacts DEF LiveFrame, TickPc
  <2>3. process_table' = process_table \/
        \E t : process_table' = [process_table EXCEPT ![prog] = t]
    BY <1>2, <2>2 DEF TickTest
  <2> QED BY <1>1, <2>2, <2>3
<1>3. CASE TickRun
  <2>1. prog # NULL /\ dep > 0 /\ Top.pc = "run" /\ Top.kind = "tick"
    BY <1>3 DEF TickRun, At
  <2>2. Top.next \in Procs(m)  BY <2>1, TopFacts DEF LiveFrame
  <2> QED BY <1>1, <1>3, <2>2 DEF TickRun
<1>4. CASE TickSave
  <2>1. prog # NULL /\ dep > 0 /\ Top.pc = "save" /\ Top.kind = "tick"
    BY <1>4 DEF TickSave, At
  <2>2. Top.cur = prog /\ prog \in Procs(n)
    BY <2>1, TopFacts DEF LiveFrame, TickPc
  <2> QED BY <1>1, <1>4, <2>2 DEF TickSave
<1>5. CASE ~TickTest /\ ~TickRun /\ ~TickSave
  BY <1>5 DEF Next, TimerIrq, KeyboardIrq, Syscall, Enter, CpuStep, Eoi, TickCur,
     TickNext, TickPid, TickEsp0, TickLoad, Body, Iret, TrampGet, TrampIret
<1> QED BY <1>2, <1>3, <1>4, <1>5

\* One activation is written at most, never to become kernel_main's; that of kernel_main
\* is overwritten only where a handler is entered.
LEMMA OneWrite ==
  ASSUME NEW n \in 1..NProc, NEW m \in n..NProc, SwitchInv(n, m), Next
  PROVE  \/ UNCHANGED kstack
         \/ \E s \in Stacks, d \in 1..MaxDepth : \E f :
              /\ kstack' = [kstack EXCEPT ![s][d] = f]
              /\ f.kind # "boot"
              /\ kstack[s][d].kind # "boot" \/ (s = stk' /\ d = dep + 1 /\ d = dep')
<1> DEFINE Goal == \E s \in Stacks, d \in 1..MaxDepth : \E f :
           /\ kstack' = [kstack EXCEPT ![s][d] = f]
           /\ f.kind # "boot"
           /\ kstack[s][d].kind # "boot" \/ (s = stk' /\ d = dep + 1 /\ d = dep')
<1>1. ASSUME TimerIrq \/ KeyboardIrq \/ Syscall PROVE Goal
  <2>1. PICK k \in {"tick", "kbd", "sys"}, c \in {"eoi", "body"} : Enter(k, c)
    BY <1>1 DEF TimerIrq, KeyboardIrq, Syscall
  <2> DEFINE f == Activation(k, c, prog)
  <2>2. f.kind # "boot"  BY DEF Activation
  <2>3. stk' \in Stacks /\ dep + 1 \in 1..MaxDepth /\ dep' = dep + 1
    <3>1. stk' \in Stacks  BY <2>1, EntryStack
    <3> QED BY <2>1, <3>1, SchedulerAssumption DEF Enter, SwitchInv, TypeOK
  <2>4. kstack' = [kstack EXCEPT ![stk'][dep + 1] = f]  BY <2>1 DEF Enter
  <2> HIDE DEF f
  <2> QED BY <2>2, <2>3, <2>4
<1>2. ASSUME TickLoad, Top.next \in Procs(n) PROVE Goal
  <2>1. prog # NULL /\ dep > 0 /\ Top.pc = "saved" /\ Top.kind = "tick"
    BY <1>2 DEF TickLoad, At
  <2>2. PICK q \in Procs(n) \ {prog} : Top.next = q  BY <1>2, LoadLands
  <2>3. PICK s \in Stacks, e \in 1..MaxDepth : process_table[q].esp = <<s, e>>
    BY <2>2 DEF SwitchInv, ParkedInv, Esp
  <2>4. Resumable(kstack[s][e])  BY <2>2, <2>3 DEF SwitchInv, ParkedInv
  <2> DEFINE f == Resumed(kstack[s][e])
  <2>5. kstack' = [kstack EXCEPT ![s][e] = f]
    <3>1. <<s, e>> \in Esp /\ Lands(<<s, e>>)  BY <2>4 DEF Lands, Esp
    <3> QED BY <1>2, <2>2, <2>3, <3>1 DEF TickLoad
  <2>6. kstack[s][e].kind # "boot" /\ f.kind # "boot"
    <3>1. kstack[s][e] \in Frame  BY DEF SwitchInv, TypeOK
    <3>2. kstack[s][e].kind \in {"tick", "tramp"}  BY <2>4 DEF Resumable
    <3> QED BY <3>1, <3>2 DEF Resumed, Frame
  <2> HIDE DEF f
  <2> QED BY <2>5, <2>6
<1>3. ASSUME Iret \/ TrampIret PROVE Goal
  <2>1. /\ prog # NULL /\ dep > 0 /\ Top.kind # "boot"
        /\ kstack' = [kstack EXCEPT ![stk][dep] = Empty]
    BY <1>3 DEF Iret, TrampIret, At
  <2>2. Empty.kind # "boot"  BY DEF Empty, Activation
  <2>3. stk \in Stacks /\ dep \in 1..MaxDepth  BY <2>1, TopFacts
  <2> QED BY <2>1, <2>2, <2>3 DEF Top
<1>4. ASSUME Eoi \/ TickCur \/ TickNext \/ TickTest \/ TickRun \/ TickPid
               \/ TickEsp0 \/ TickSave \/ Body \/ TrampGet
      PROVE  Goal
  <2>1. /\ prog # NULL /\ dep > 0 /\ Top.kind # "boot"
        /\ \E f : Continue(f) /\ f.kind = Top.kind
    BY <1>4, Statement
  <2>2. stk \in Stacks /\ dep \in 1..MaxDepth  BY <2>1, TopFacts
  <2> QED BY <2>1, <2>2 DEF Continue, Top
<1> HIDE DEF Goal
<1>5. Goal \/ UNCHANGED kstack
  BY <1>1, <1>2, <1>3, <1>4, LoadLands DEF Next, CpuStep
<1> QED BY <1>5 DEF Goal

-----------------------------------------------------------------------------
(* Theorems *)

\* What holds of the first n processes holds of all that are created.
LEMMA AllCreated ==
  /\ Procs(NProc) = Created /\ NProc \in 1..NProc /\ NProc \in NProc..NProc
  /\ IInv => SwitchInv(NProc, NProc)
BY SchedulerAssumption DEF Procs, Created, PID_LIMIT, IInv

LEMMA InitInv == Init => IInv
<1> SUFFICES ASSUME Init PROVE IInv  OBVIOUS
<1> USE SchedulerAssumption
    DEF PID_LIMIT, Created, Procs, Slots, Stacks, StaticStack, BootStack, Shell,
        Esp,
        NullEsp
<1>1. \A i \in Slots : process_table[i] = IF i \in Created THEN CreatedProc(i)
                                                         ELSE DeadProc
  BY DEF Init
<1>2. \A s \in Stacks, d \in 1..MaxDepth :
        kstack[s][d] = IF s \in Created /\ d = 1
                       THEN Activation("tramp", "get", s) ELSE Empty
  BY DEF Init
<1>3. TypeOK
  <2>1. process_table \in [Slots -> Proc]
    <3>1. \A i \in Slots : CreatedProc(i) \in Proc /\ DeadProc \in Proc
      <4> TAKE i \in Slots
      <4>1. <<i, 1>> \in Stacks \X (1..MaxDepth)  OBVIOUS
      <4>2. i \in Stacks /\ i + 1 \in 0..MaxProcesses /\ 0 \in 0..MaxProcesses
        OBVIOUS
      <4> QED BY <4>1, <4>2 DEF CreatedProc, DeadProc, Proc
    <3> QED BY <3>1 DEF Init
  <2>2. kstack \in [Stacks -> [1..MaxDepth -> Frame]]
    <3>1. Empty \in Frame /\ \A i \in Created : Activation("tramp", "get", i) \in Frame
      BY DEF Activation, Empty, Frame
    <3> QED BY <3>1 DEF Init
  <2>3. /\ current_pid \in 0..MaxProcesses /\ tss_esp0 \in Stacks
        /\ prog \in Slots \cup {NULL} /\ stk \in Stacks
        /\ dep \in 0..MaxDepth /\ isr \in SUBSET {0, 1}
    BY DEF Init
  <2> QED BY <2>1, <2>2, <2>3 DEF TypeOK
<1>4. TableInv(NProc, NProc)
  <2> SUFFICES ASSUME NEW i \in Slots
               PROVE  /\ i \in Created => /\ process_table[i].pid = i + 1
                                          /\ process_table[i].kernel_stack_top = i
                                          /\ process_table[i].state \in {"READY", "RUNNING"}
                                          /\ process_table[i].esp \in Esp
                      /\ i \notin Created => process_table[i].pid \in {0, i + 1}
    BY DEF TableInv
  <2>1. CASE i \in Created
    <3>1. process_table[i] = CreatedProc(i)  BY <1>1, <2>1
    <3>2. <<i, 1>> \in Esp  OBVIOUS
    <3> QED BY <2>1, <3>1, <3>2 DEF CreatedProc
  <2>2. CASE i \notin Created
    <3>1. process_table[i] = DeadProc  BY <1>1, <2>2
    <3> QED BY <2>2, <3>1 DEF DeadProc
  <2> QED BY <2>1, <2>2
<1>5. RunningInv(NProc, NProc) /\ BookInv(NProc)
  BY DEF Init, RunningInv, BookInv, OwnStacks
<1>6. ParkedInv(NProc, NProc)
  <2> SUFFICES ASSUME NEW p \in Created
               PROVE  LET e == process_table[p].esp
                      IN  /\ e \in Esp
                          /\ e[1] \in OwnStacks(p)
                          /\ Resumable(kstack[e[1]][e[2]])
                          /\ \A d \in 1..e[2] : LiveFrame(NProc, p, d, kstack[e[1]][d])
                          /\ \A d \in 1..e[2]-1 : ~AtWindow(kstack[e[1]][d])
    BY DEF ParkedInv
  <2>1. process_table[p].esp = <<p, 1>>
    <3>1. process_table[p] = CreatedProc(p)  BY <1>1
    <3> QED BY <3>1 DEF CreatedProc
  <2>2. kstack[p][1] = Activation("tramp", "get", p)  BY <1>2
  <2>3. <<p, 1>> \in Esp /\ p \in OwnStacks(p)  BY DEF OwnStacks
  <2>4. Resumable(kstack[p][1]) /\ LiveFrame(NProc, p, 1, kstack[p][1])
    BY <2>2 DEF Activation, Resumable, LiveFrame
  <2>5. \A d \in 1..1 : d = 1  OBVIOUS
  <2> QED BY <2>1, <2>3, <2>4, <2>5
<1>7. Unborn(NProc)
  <2>1. \A i \in Slots \ Created : process_table[i] = DeadProc  BY <1>1
  <2> QED BY <2>1 DEF Unborn, DeadProc
<1>8. NoBoot
  <2>1. \A i : Activation("tramp", "get", i).kind # "boot"  BY DEF Activation
  <2>2. Empty.kind # "boot"  BY DEF Empty, Activation
  <2> QED BY <1>2, <2>1, <2>2 DEF NoBoot
<1> QED BY <1>3, <1>4, <1>5, <1>6, <1>7, <1>8 DEF IInv, SwitchInv

LEMMA StepInv == IInv /\ [Next]_vars => IInv'
<1> SUFFICES ASSUME IInv, [Next]_vars PROVE IInv'  OBVIOUS
<1> USE DEF IInv
<1>1. NProc \in 1..NProc /\ NProc \in NProc..NProc
  BY SchedulerAssumption DEF PID_LIMIT
<1>2. SwitchInv(NProc, NProc)'  BY <1>1, SwitchStep
<1>3. Unborn(NProc)' /\ NoBoot'
  <2>1. CASE Next
    <3>1. Unborn(NProc)'  BY <1>1, <2>1, Strangers DEF Unborn
    <3>2. NoBoot'
      <4>1. \/ UNCHANGED kstack
            \/ \E s \in Stacks, d \in 1..MaxDepth : \E f :
                 kstack' = [kstack EXCEPT ![s][d] = f] /\ f.kind # "boot"
        BY <1>1, <2>1, OneWrite
      <4>2. kstack \in [Stacks -> [1..MaxDepth -> Frame]]  BY DEF SwitchInv, TypeOK
      <4> QED BY <4>1, <4>2 DEF NoBoot
    <3> QED BY <3>1, <3>2
  <2>2. CASE UNCHANGED vars  BY <2>2 DEF vars, Unborn, NoBoot
  <2> QED BY <2>1, <2>2
<1> QED BY <1>2, <1>3

\* The invariant holds in every reachable state, however many processes there
\* are and however deep the handlers nest.
THEOREM Inductive == Spec => []IInv
BY InitInv, StepInv, PTL DEF Spec

\* The kernel never continues at an address that is no saved context.
THEOREM NeverWildHolds == Spec => []NeverWild
<1>1. IInv => NeverWild
  BY AllCreated, OwnStacksDisjoint
     DEF IInv, SwitchInv, RunningInv, NeverWild, Slots, NULL
<1> QED BY <1>1, Inductive, PTL

LEMMA ContextsIntact == IInv => SavedContextsIntact
<1> SUFFICES ASSUME IInv, NEW p \in Created, p # prog
             PROVE  LET e == process_table[p].esp
                    IN  /\ Lands(e)
                        /\ e[1] \in OwnStacks(p)
                        /\ kstack[e[1]][e[2]].prog = p
  BY DEF SavedContextsIntact
<1> DEFINE e == process_table[p].esp
<1>1. /\ e \in Esp /\ e[1] \in OwnStacks(p) /\ Resumable(kstack[e[1]][e[2]])
      /\ \A d \in 1..e[2] : LiveFrame(NProc, p, d, kstack[e[1]][d])
  BY AllCreated DEF IInv, SwitchInv, ParkedInv
<1>2. e[2] \in 1..e[2]  BY <1>1, SchedulerAssumption DEF Esp
<1> QED BY AllCreated, <1>1, <1>2 DEF Lands, LiveFrame

\* Every process that waits can be resumed from its esp, on its own stack.
THEOREM SavedContextsIntactHolds == Spec => []SavedContextsIntact
BY ContextsIntact, Inductive, PTL

LEMMA DescribesCurrent == IInv => CurrentProcess
<1>1. ASSUME IInv, prog # NULL, ~InWindow
      PROVE  current_pid = process_table[prog].pid /\ tss_esp0 \in OwnStacks(prog)
  <2>1. current_pid = prog + 1 /\ tss_esp0 \in OwnStacks(prog)
    BY <1>1 DEF IInv, SwitchInv, BookInv, InWindow, AtWindow
  <2>2. process_table[prog].pid = prog + 1
    BY AllCreated, OwnStacksDisjoint, <1>1 DEF IInv, SwitchInv, RunningInv, TableInv
  <2> QED BY <2>1, <2>2
<1> QED BY <1>1 DEF CurrentProcess

\* pid and TSS describe the running process outside the window.
THEOREM CurrentProcessHolds == Spec => []CurrentProcess
BY DescribesCurrent, Inductive, PTL

\* The context of a process that neither leaves nor gets the CPU stays as it is.
THEOREM PreemptedUntouchedHolds == Spec => PreemptedUntouched
<1>1. ASSUME IInv, [Next]_vars, NEW p \in Created, prog # p, prog' # p
      PROVE  Chain(p)' = Chain(p)
  <2>1. CASE Next
    <3>1. PICK r \in Created \cap {prog, prog'} : \A s \in Stacks :
            s \notin OwnStacks(r) => kstack'[s] = kstack[s]
      BY AllCreated, <2>1, <1>1, StepWrites
    <3>2. process_table'[p].esp = process_table[p].esp
      BY AllCreated, <2>1, <1>1, StepWrites
    <3>3. LET e == process_table[p].esp IN e[1] \in OwnStacks(p) /\ e \in Esp
      BY AllCreated, <1>1 DEF IInv, SwitchInv, ParkedInv
    <3>4. LET e == process_table[p].esp IN kstack'[e[1]] = kstack[e[1]]
      BY AllCreated, <1>1, <3>1, <3>3, OwnStacksDisjoint
    <3> QED BY <3>2, <3>4 DEF Chain
  <2>2. CASE UNCHANGED vars  BY <2>2 DEF vars, Chain
  <2> QED BY <1>1, <2>1, <2>2
<1>2. IInv /\ [Next]_vars =>
        [\A p \in Created : prog # p /\ prog' # p => Chain(p)' = Chain(p)]_vars
  BY <1>1
<1> QED BY <1>2, Inductive, PTL DEF Spec, PreemptedUntouched

-----------------------------------------------------------------------------
(* The PIC: a line is in service while one activation owes it its EOI.      *)

\* One activation is written: it alone starts or stops to owe an EOI.
LEMMA WriteOwes ==
  ASSUME TypeOK, NEW s \in Stacks, NEW d \in 1..MaxDepth, NEW f \in Frame,
         kstack' = [kstack EXCEPT ![s][d] = f]
  PROVE  /\ Unacknowledged("tick")' =
              (Unacknowledged("tick") \ {<<s, d>>})
                \cup {x \in {<<s, d>>} : f.kind = "tick" /\ f.pc = "eoi"}
         /\ Unacknowledged("kbd")' =
              (Unacknowledged("kbd") \ {<<s, d>>})
                \cup {x \in {<<s, d>>} : f.kind = "kbd" /\ f.pc = "eoi"}
<1>1. \A t \in Stacks, e \in 1..MaxDepth :
        kstack'[t][e] = IF t = s /\ e = d THEN f ELSE kstack[t][e]
  BY DEF TypeOK
<1>2. \A x \in Stacks \X (1..MaxDepth) :
        kstack'[x[1]][x[2]] = IF x = <<s, d>> THEN f ELSE kstack[x[1]][x[2]]
  BY <1>1
<1>3. <<s, d>> \in Stacks \X (1..MaxDepth)  OBVIOUS
<1> QED BY <1>2, <1>3 DEF Unacknowledged

\* Only the innermost activation can owe the EOI of IRQ 0.
LEMMA TimerServed ==
  ASSUME PicInv, dep = 0 \/ Top.pc # "eoi" \/ Top.kind # "tick"
  PROVE  0 \notin isr /\ Unacknowledged("tick") = {}
<1>1. 0 \in isr => <<stk, dep>> \in Unacknowledged("tick")  BY DEF PicInv
<1>2. <<stk, dep>> \notin Unacknowledged("tick")
  BY DEF Unacknowledged, Top
<1> QED BY <1>1, <1>2 DEF PicInv

\* A step that acknowledges nothing, lets no line in, and keeps the activation
\* that owes the keyboard's EOI in use.
LEMMA PicQuiet ==
  ASSUME IInv, PicInv, NEW s \in Stacks, NEW d \in 1..MaxDepth, NEW f \in Frame,
         kstack' = [kstack EXCEPT ![s][d] = f], f.pc # "eoi",
         0 \notin isr, UNCHANGED isr,
         <<s, d>> \notin Unacknowledged("kbd"),
         \A x \in Unacknowledged("kbd") : InUse(x)'
  PROVE  PicInv'
<1>1. Unacknowledged("tick") = {}  BY DEF PicInv
<1>2. Unacknowledged("tick")' = {}  BY <1>1, WriteOwes DEF IInv, SwitchInv
<1>3. Unacknowledged("kbd")' = Unacknowledged("kbd")
  <2>1. Unacknowledged("kbd")' =
          (Unacknowledged("kbd") \ {<<s, d>>})
            \cup {x \in {<<s, d>>} : f.kind = "kbd" /\ f.pc = "eoi"}
    BY WriteOwes DEF IInv, SwitchInv
  <2> QED BY <2>1
<1> QED BY <1>2, <1>3 DEF PicInv

\* While one process runs on, the activations in use stay in use.
LEMMA StillInUse ==
  ASSUME IInv, Next, UNCHANGED prog, NEW x, InUse(x),
         x[1] = stk /\ x[2] <= dep => x[1] = stk' /\ x[2] <= dep'
  PROVE  InUse(x)'
<1>1. CASE Parked(x)
  <2>1. PICK p \in Created \ {prog} : LET e == process_table[p].esp
                                      IN  x[1] = e[1] /\ x[2] <= e[2]
    BY <1>1 DEF Parked
  <2>2. process_table'[p].esp = process_table[p].esp
    BY AllCreated, <2>1, StepWrites
  <2>3. Parked(x)'  BY <2>1, <2>2 DEF Parked, Created
  <2> QED BY <2>3 DEF InUse
<1>2. CASE ~Parked(x)  BY <1>2 DEF InUse
<1> QED BY <1>1, <1>2

\* The next statement of the innermost handler, no EOI involved.
LEMMA PicContinue ==
  ASSUME IInv, PicInv, Next, prog # NULL, dep > 0, Top.pc # "eoi",
         NEW f, Continue(f), f \in Frame, f.pc # "eoi", UNCHANGED isr
  PROVE  PicInv'
<1>1. stk \in Stacks /\ dep \in 1..MaxDepth  BY AllCreated, TopFacts
<1>2. kstack' = [kstack EXCEPT ![stk][dep] = f] /\ UNCHANGED <<prog, stk, dep>>
  BY DEF Continue
<1>3. <<stk, dep>> \notin Unacknowledged("kbd")  BY DEF Unacknowledged, Top
<1>4. \A x \in Unacknowledged("kbd") : InUse(x)'
  BY <1>2, StillInUse DEF PicInv
<1> QED BY <1>1, <1>2, <1>3, <1>4, TimerServed, PicQuiet

\* The innermost handler returns.
LEMMA PicPop ==
  ASSUME IInv, PicInv, Next, prog # NULL, dep > 0, Top.pc # "eoi",
         kstack' = [kstack EXCEPT ![stk][dep] = Empty], dep' = dep - 1,
         UNCHANGED <<prog, stk, isr>>
  PROVE  PicInv'
<1>1. stk \in Stacks /\ dep \in 1..MaxDepth  BY AllCreated, TopFacts
<1>2. <<stk, dep>> \notin Unacknowledged("kbd")  BY DEF Unacknowledged, Top
<1>3. ASSUME NEW x \in Unacknowledged("kbd") PROVE InUse(x)'
  <2>1. x \in Stacks \X (1..MaxDepth) /\ x # <<stk, dep>>
    BY <1>2 DEF Unacknowledged
  <2>2. x[1] = stk /\ x[2] <= dep => x[2] <= dep'
    <3>1. x = <<x[1], x[2]>> /\ x[2] \in 1..MaxDepth  BY <2>1
    <3> QED BY <1>1, <2>1, <3>1
  <2> QED BY <2>2, StillInUse DEF PicInv
<1>4. Empty \in Frame /\ Empty.pc # "eoi"  BY DEF Empty, Activation, Frame
<1> QED BY <1>1, <1>2, <1>3, <1>4, TimerServed, PicQuiet

\* A handler is entered above everything in use.
LEMMA EnterFresh ==
  ASSUME IInv, PicInv, Next, NEW k \in {"tick", "kbd", "sys"},
         NEW c \in {"eoi", "body"}, Enter(k, c)
  PROVE  /\ stk' \in Stacks /\ dep + 1 \in 1..MaxDepth /\ dep' = dep + 1
         /\ Activation(k, c, prog) \in Frame
         /\ kstack' = [kstack EXCEPT ![stk'][dep + 1] = Activation(k, c, prog)]
         /\ <<stk', dep + 1>> \notin Unacknowledged("kbd")
         /\ \A x \in Unacknowledged("kbd") : InUse(x)'
         /\ \A x : x = <<stk', dep'>> => InUse(x)'
<1>1. prog \in Created /\ dep \in 0..MaxDepth-1 /\ prog \in Slots
  BY AllCreated, SchedulerAssumption, OwnStacksDisjoint
     DEF IInv, SwitchInv, RunningInv, Enter, TypeOK
<1>2. stk' \in OwnStacks(prog) /\ stk' \in Stacks /\ (dep > 0 => stk' = stk)
  <2>1. dep = 0 => tss_esp0 \in OwnStacks(prog)  BY DEF IInv, SwitchInv, BookInv
  <2> QED
    BY AllCreated, <1>1, <2>1, OwnStacksDisjoint
       DEF Enter, IInv, SwitchInv, RunningInv
<1>3. /\ dep' = dep + 1 /\ UNCHANGED prog
      /\ kstack' = [kstack EXCEPT ![stk'][dep + 1] = Activation(k, c, prog)]
  BY DEF Enter
<1>4. dep + 1 \in 1..MaxDepth  BY <1>1, SchedulerAssumption
<1>5. Activation(k, c, prog) \in Frame  BY <1>1 DEF Activation, Frame, TickPc
<1>6. ~InUse(<<stk', dep + 1>>)
  <2>1. ~Parked(<<stk', dep + 1>>)
    BY AllCreated, <1>1, <1>2, OwnStacksDisjoint
       DEF Parked, IInv, SwitchInv, ParkedInv
  <2> QED BY <1>1, <2>1 DEF InUse
<1>7. ASSUME NEW x \in Unacknowledged("kbd") PROVE InUse(x)'
  <2>1. x[2] \in 1..MaxDepth  BY DEF Unacknowledged
  <2>2. x[1] = stk /\ x[2] <= dep => x[1] = stk' /\ x[2] <= dep'
    BY <1>1, <1>2, <1>3, <2>1
  <2> QED BY <1>3, <2>2, StillInUse DEF PicInv
<1>8. ASSUME NEW x, x = <<stk', dep'>> PROVE InUse(x)'
  BY <1>1, <1>3, <1>8 DEF InUse
<1> QED BY <1>2, <1>3, <1>4, <1>5, <1>6, <1>7, <1>8 DEF PicInv

LEMMA PicInterrupt ==
  ASSUME IInv, PicInv, Next, TimerIrq \/ KeyboardIrq \/ Syscall
  PROVE  PicInv'
<1> DEFINE x == <<stk', dep'>>
<1>1. CASE TimerIrq
  <2>1. 0 \notin isr /\ isr' = isr \cup {0}  BY <1>1 DEF TimerIrq, Deliverable
  <2>2. Enter("tick", "eoi")  BY <1>1 DEF TimerIrq
  <2>3. Unacknowledged("tick")' = {x}
    BY <2>1, <2>2, EnterFresh, WriteOwes DEF IInv, SwitchInv, PicInv, Activation
  <2>4. Unacknowledged("kbd")' = Unacknowledged("kbd")
    <3>1. Unacknowledged("kbd")' =
            (Unacknowledged("kbd") \ {x})
              \cup {y \in {x} : /\ Activation("tick", "eoi", prog).kind = "kbd"
                               /\ Activation("tick", "eoi", prog).pc = "eoi"}
      BY <2>2, EnterFresh, WriteOwes DEF IInv, SwitchInv
    <3>2. x \notin Unacknowledged("kbd")  BY <2>2, EnterFresh
    <3> QED BY <3>1, <3>2 DEF Activation
  <2>5. \A y \in Unacknowledged("kbd") : InUse(y)'  BY <2>2, EnterFresh
  <2>6. 0 \in isr' /\ (1 \in isr' <=> 1 \in isr)  BY <2>1
  <2> QED BY <2>3, <2>4, <2>5, <2>6 DEF PicInv
<1>2. CASE KeyboardIrq
  <2>1. isr = {} /\ isr' = {1}
    <3>1. isr \in SUBSET {0, 1}  BY DEF IInv, SwitchInv, TypeOK
    <3>2. \A j \in isr : 1 < j  BY <1>2 DEF KeyboardIrq, Deliverable
    <3>3. isr = {}  BY <3>1, <3>2
    <3> QED BY <1>2, <3>3 DEF KeyboardIrq
  <2>2. Enter("kbd", "eoi")  BY <1>2 DEF KeyboardIrq
  <2>3. Unacknowledged("tick") = {} /\ Unacknowledged("kbd") = {}
    BY <2>1 DEF PicInv
  <2>4. Unacknowledged("tick")' = {}
    BY <2>2, <2>3, EnterFresh, WriteOwes DEF IInv, SwitchInv, Activation
  <2>5. Unacknowledged("kbd")' = {x}
    BY <2>2, <2>3, EnterFresh, WriteOwes DEF IInv, SwitchInv, Activation
  <2>6. \A y \in {x} : InUse(y)'  BY <2>2, EnterFresh
  <2>7. 0 \notin isr' /\ 1 \in isr'  BY <2>1
  <2> QED BY <2>4, <2>5, <2>6, <2>7 DEF PicInv
<1>3. CASE Syscall
  <2>1. Enter("sys", "body") /\ dep = 0 /\ UNCHANGED isr  BY <1>3 DEF Syscall
  <2>2. 0 \notin isr  BY <2>1, TimerServed
  <2>3. Activation("sys", "body", prog).pc # "eoi"  BY DEF Activation
  <2> QED BY <2>1, <2>2, <2>3, EnterFresh, PicQuiet
<1> QED BY <1>1, <1>2, <1>3

\* The non-specific EOI retires the line of the handler that sends it.
LEMMA PicEoi ==
  ASSUME IInv, PicInv, Next, Eoi
  PROVE  PicInv'
<1>1. prog # NULL /\ dep > 0 /\ Top.pc = "eoi" /\ Top.kind \in {"tick", "kbd"}
  BY DEF Eoi, At
<1>2. PICK f : /\ f = [Top EXCEPT !.pc = IF Top.kind = "tick" THEN "cur" ELSE "body"]
               /\ Continue(f)
  BY DEF Eoi, At, Goto
<1>3. stk \in Stacks /\ dep \in 1..MaxDepth /\ Top \in Frame
  BY AllCreated, TopFacts, <1>1
<1>4. f \in Frame /\ f.pc # "eoi"  BY <1>2, <1>3 DEF Frame, TickPc
<1>5. kstack' = [kstack EXCEPT ![stk][dep] = f] /\ UNCHANGED <<prog, stk, dep>>
  BY <1>2 DEF Continue
<1>6. /\ Unacknowledged("tick")' = Unacknowledged("tick") \ {<<stk, dep>>}
      /\ Unacknowledged("kbd")' = Unacknowledged("kbd") \ {<<stk, dep>>}
  <2>1. /\ Unacknowledged("tick")' =
             (Unacknowledged("tick") \ {<<stk, dep>>})
               \cup {x \in {<<stk, dep>>} : f.kind = "tick" /\ f.pc = "eoi"}
        /\ Unacknowledged("kbd")' =
             (Unacknowledged("kbd") \ {<<stk, dep>>})
               \cup {x \in {<<stk, dep>>} : f.kind = "kbd" /\ f.pc = "eoi"}
    BY <1>3, <1>4, <1>5, WriteOwes DEF IInv, SwitchInv
  <2> QED BY <1>4, <2>1
<1>7. /\ 0 \in isr => isr' = isr \ {0}
      /\ 0 \notin isr => isr' = {}
  <2>1. isr \in SUBSET {0, 1} /\ isr' = {i \in isr : \E j \in isr : j < i}
    BY DEF Eoi, IInv, SwitchInv, TypeOK
  <2>2. \A i \in isr : (\E j \in isr : j < i) <=> i = 1 /\ 0 \in isr
    BY <2>1
  <2>3. isr' = {i \in isr : i = 1 /\ 0 \in isr}  BY <2>1, <2>2
  <2>4. \A i \in isr : i = 0 \/ i = 1  BY <2>1
  <2>5. 0 # 1  OBVIOUS
  <2> QED BY <2>3, <2>4, <2>5, Zenon
<1>8. \A k : <<stk, dep>> \in Unacknowledged(k) <=> k = Top.kind
  BY <1>1, <1>3 DEF Unacknowledged, Top
<1>9. CASE Top.kind = "tick"
  <2>1. 0 \in isr /\ Unacknowledged("tick") = {<<stk, dep>>}
    BY <1>8, <1>9 DEF PicInv
  <2>2. 0 \notin isr' /\ (1 \in isr' <=> 1 \in isr)  BY <1>7, <2>1
  <2>3. Unacknowledged("tick")' = {}  BY <1>6, <2>1
  <2>4. Unacknowledged("kbd")' = Unacknowledged("kbd")  BY <1>6, <1>8, <1>9
  <2>5. \A x \in Unacknowledged("kbd") : InUse(x)'
    BY <1>5, StillInUse DEF PicInv
  <2> QED BY <2>2, <2>3, <2>4, <2>5 DEF PicInv
<1>10. CASE Top.kind = "kbd"
  <2>1. 0 \notin isr /\ Unacknowledged("tick") = {}  BY <1>10, TimerServed
  <2>2. 1 \in isr /\ Unacknowledged("kbd") = {<<stk, dep>>}
    BY <1>8, <1>10 DEF PicInv
  <2>3. isr' = {}  BY <1>7, <2>1
  <2>4. Unacknowledged("tick")' = {} /\ Unacknowledged("kbd")' = {}
    BY <1>6, <2>1, <2>2
  <2> QED BY <2>3, <2>4 DEF PicInv
<1> QED BY <1>1, <1>9, <1>10

\* The switch parks what the running process had in use, and nothing it resumes
\* owes an EOI.
LEMMA PicLoad ==
  ASSUME IInv, PicInv, TickLoad
  PROVE  PicInv'
<1>1. prog # NULL /\ dep > 0 /\ Top.pc = "saved" /\ Top.kind = "tick"
  BY DEF TickLoad, At
<1>2. PICK q \in Created \ {prog} : Top.next = q
  BY AllCreated, <1>1, TopFacts DEF LiveFrame, Window
<1>3. process_table[prog].esp = <<stk, dep>> /\ prog \in Created
  BY AllCreated, <1>1, <1>2, TopFacts
     DEF IInv, SwitchInv, BookInv, AtWindow, Window, Top
<1>4. PICK s \in Stacks, e \in 1..MaxDepth : process_table[q].esp = <<s, e>>
  BY AllCreated, <1>2 DEF IInv, SwitchInv, ParkedInv, Esp
<1>5. /\ Resumable(kstack[s][e])
      /\ \A d \in 1..e : LiveFrame(NProc, q, d, kstack[s][d])
  BY AllCreated, <1>2, <1>4 DEF IInv, SwitchInv, ParkedInv
<1> DEFINE f == Resumed(kstack[s][e])
<1>6. /\ stk' = s /\ dep' = e /\ prog' = q
      /\ kstack' = [kstack EXCEPT ![s][e] = f]
      /\ UNCHANGED <<process_table, isr>>
  <2>1. <<s, e>> \in Esp /\ Lands(<<s, e>>)  BY <1>5 DEF Lands, Esp
  <2>2. kstack[s][e].prog = q  BY AllCreated, <1>4, <1>5 DEF LiveFrame
  <2> QED BY <1>2, <1>4, <2>1, <2>2 DEF TickLoad
<1>7. kstack[s][e] \in Frame  BY <1>4 DEF IInv, SwitchInv, TypeOK
<1>8. f \in Frame /\ f.pc # "eoi" /\ kstack[s][e].pc # "eoi"
  BY <1>5, <1>7 DEF Resumed, Resumable, Frame, TickPc
<1> HIDE DEF f
<1>9. <<s, e>> \notin Unacknowledged("kbd")  BY <1>8 DEF Unacknowledged
<1>10. ASSUME NEW x \in Unacknowledged("kbd") PROVE InUse(x)'
  <2>1. InUse(x)  BY DEF PicInv
  <2>2. CASE x[1] = stk /\ x[2] <= dep
    <3>1. Parked(x)'  BY <1>2, <1>3, <1>6, <2>2 DEF Parked, Created
    <3> QED BY <3>1 DEF InUse
  <2>3. CASE Parked(x)
    <3>1. PICK p \in Created \ {prog} : LET a == process_table[p].esp
                                        IN  x[1] = a[1] /\ x[2] <= a[2]
      BY <2>3 DEF Parked
    <3>2. CASE p = q  BY <1>4, <1>6, <3>1, <3>2 DEF InUse
    <3>3. CASE p # q
      <4>1. Parked(x)'  BY <1>6, <3>1, <3>3 DEF Parked, Created
      <4> QED BY <4>1 DEF InUse
    <3> QED BY <3>2, <3>3
  <2> QED BY <2>1, <2>2, <2>3 DEF InUse
<1> QED BY <1>1, <1>4, <1>6, <1>8, <1>9, <1>10, TimerServed, PicQuiet

LEMMA PicStep == IInv /\ PicInv /\ [Next]_vars => PicInv'
<1> SUFFICES ASSUME IInv, PicInv, [Next]_vars PROVE PicInv'  OBVIOUS
<1>1. CASE Next /\ (TimerIrq \/ KeyboardIrq \/ Syscall)  BY <1>1, PicInterrupt
<1>2. CASE Next /\ Eoi  BY <1>2, PicEoi
<1>3. CASE TickLoad  BY <1>3, PicLoad
<1>4. ASSUME Next, TickCur \/ TickNext \/ TickTest \/ TickRun \/ TickPid
             \/ TickEsp0 \/ TickSave \/ Body \/ TrampGet
      PROVE  PicInv'
  <2>1. prog # NULL /\ dep > 0 /\ Top.pc # "eoi"
    BY <1>4 DEF TickCur, TickNext, TickTest, TickRun, TickPid, TickEsp0,
       TickSave, Body, TrampGet, At
  <2>2. PICK f : Continue(f) /\ f.pc # "eoi"
    BY AllCreated, <1>4, Statement
  <2>3. f \in Frame
    <3>1. IInv'  BY <1>4, StepInv
    <3>2. kstack' \in [Stacks -> [1..MaxDepth -> Frame]]
      BY <3>1 DEF IInv, SwitchInv, TypeOK
    <3>3. kstack'[stk][dep] = f
      BY AllCreated, <2>1, <2>2, TopFacts DEF Continue, IInv, SwitchInv, TypeOK
    <3> QED BY AllCreated, <2>1, <3>2, <3>3, TopFacts
  <2>4. UNCHANGED isr
    BY <1>4 DEF TickCur, TickNext, TickTest, TickRun, TickPid, TickEsp0,
       TickSave, Body, TrampGet
  <2> QED BY <1>4, <2>1, <2>2, <2>3, <2>4, PicContinue
<1>5. CASE Next /\ Iret
  <2>1. prog # NULL /\ dep > 0 /\ Top.pc # "eoi"  BY <1>5 DEF Iret, At
  <2> QED BY <1>5, <2>1, PicPop DEF Iret
<1>6. CASE Next /\ TrampIret
  <2>1. prog # NULL /\ dep > 0 /\ Top.pc = "iret" /\ Top.kind = "tramp"
    BY <1>6 DEF TrampIret, At
  <2>2. Top.cur = prog /\ dep = 1  BY AllCreated, <2>1, TopFacts DEF LiveFrame
  <2> QED BY <1>6, <2>1, <2>2, PicPop DEF TrampIret
<1>7. CASE UNCHANGED vars
  BY <1>7 DEF vars, PicInv, Unacknowledged, InUse, Parked, Created
<1> QED BY <1>1, <1>2, <1>3, <1>4, <1>5, <1>6, <1>7 DEF Next, CpuStep

\* No EOI is lost, sent twice or taken by another line, wherever the ticks
\* preempt the handlers that owe them.
THEOREM PicInServiceHolds == Spec => []PicInService
<1>1. Init => PicInv
  <2> SUFFICES ASSUME Init PROVE PicInv  OBVIOUS
  <2>1. \A x \in Stacks \X (1..MaxDepth) : kstack[x[1]][x[2]].pc # "eoi"
    BY DEF Init, Activation, Empty
  <2>2. \A k : Unacknowledged(k) = {}  BY <2>1 DEF Unacknowledged
  <2> QED BY <2>2 DEF Init, PicInv
<1>2. ASSUME PicInv PROVE PicInService
  <2>1. \A x : Cardinality({x}) = 1  BY FS_Singleton
  <2>2. Cardinality({}) = 0  BY FS_EmptySet
  <2>3. Unacknowledged("kbd") = {} \/ \E x : Unacknowledged("kbd") = {x}
    BY <1>2 DEF PicInv
  <2> QED BY <1>2, <2>1, <2>2, <2>3 DEF PicInv, PicInService
<1> QED BY <1>1, <1>2, PicStep, Inductive, PTL DEF Spec

-----------------------------------------------------------------------------
(* Round robin: the processes take turns in the order of their slots.       *)

\* From the slot of a process the scan of scheduler_next ends on the next one.
LEMMA NextIsSucc ==
  ASSUME TableInv(NProc, NProc), Unborn(NProc), NEW p \in Created, current_pid = p + 1
  PROVE  scheduler_next = Succ(p)
<1> USE SchedulerAssumption DEF PID_LIMIT
<1>1. Matching = {p} /\ Min(Matching) = p
  BY AllCreated, GetCurrent DEF process_get_current
<1>2. scheduler_next = IF Runnable(p) = {} THEN NULL
                       ELSE (p + Min(Runnable(p))) % MaxProcesses
  BY <1>1 DEF scheduler_next
<1> DEFINE k == IF p = NProc - 1 THEN MaxProcesses - p ELSE 1
<1>3. /\ MaxProcesses \in Nat \ {0} /\ p \in 0..MaxProcesses-1 /\ k \in 1..MaxProcesses
      /\ p \in Nat /\ p <= NProc - 1
  BY DEF Created
<1>4. \A i \in 1..MaxProcesses :
        (p + i) % MaxProcesses = IF p + i < MaxProcesses THEN p + i
                                 ELSE p + i - MaxProcesses
  <2> TAKE i \in 1..MaxProcesses
  <2>1. i \in 0..MaxProcesses  OBVIOUS
  <2> QED BY ONLY <1>3, <2>1, RemainderSum
<1>5. (p + k) % MaxProcesses = Succ(p)  BY <1>3, <1>4 DEF Succ
<1>6. k \in Runnable(p)
  <2>1. Succ(p) \in Created /\ Succ(p) \in Slots
    BY <1>3 DEF Succ, Created, Slots
  <2>2. process_table[Succ(p)].state \in {"READY", "RUNNING"}
    BY AllCreated, <2>1 DEF TableInv
  <2> HIDE DEF k
  <2> QED BY <1>3, <1>5, <2>2 DEF Runnable
<1>7. ASSUME NEW i \in Runnable(p), i < k PROVE FALSE
  <2>1. i \in 1..MaxProcesses
        /\ process_table[(p + i) % MaxProcesses].state \in {"READY", "RUNNING"}
    BY DEF Runnable
  <2>2. p = NProc - 1 /\ p + i < MaxProcesses  BY <1>3, <1>7, <2>1
  <2>3. (p + i) % MaxProcesses = p + i  BY <1>4, <2>1, <2>2
  <2>4. p + i \in Slots \ Procs(NProc)  BY <1>3, <2>1, <2>2 DEF Slots, Procs
  <2>5. process_table[p + i].state = "DEAD"  BY <2>4 DEF Unborn
  <2> QED BY <2>1, <2>3, <2>5
<1>8. Min(Runnable(p)) = k
  <2>1. Runnable(p) \in SUBSET Nat  BY DEF Runnable
  <2>2. PICK m \in Runnable(p) : m = Min(Runnable(p)) /\ m <= k
    BY <1>6, <2>1, MinIn
  <2>3. m \in Nat /\ k \in Nat  BY <1>3, <2>1
  <2>4. ~(m < k)  BY <1>7
  <2> HIDE DEF k
  <2> QED BY <2>2, <2>3, <2>4
<1> HIDE DEF k
<1> QED BY <1>2, <1>5, <1>6, <1>8

LEMMA DecidedStep == IInv /\ DecidedInv /\ Next => DecidedInv'
<1> SUFFICES ASSUME IInv, DecidedInv, Next PROVE DecidedInv'  OBVIOUS
<1> DEFINE Ok(f) == f.kind = "tick" /\ f.pc \in {"test", "run", "pid"} \cup Window =>
                      f.next = Succ(f.prog)
<1>1. kstack \in [Stacks -> [1..MaxDepth -> Frame]]
      /\ \A s \in Stacks, d \in 1..MaxDepth : Ok(kstack[s][d])
  BY DEF DecidedInv, IInv, SwitchInv, TypeOK
<1>2. ASSUME NEW s \in Stacks, NEW d \in 1..MaxDepth, NEW f, Ok(f),
             kstack' = [kstack EXCEPT ![s][d] = f]
      PROVE  DecidedInv'
  <2>1. \A t \in Stacks, e \in 1..MaxDepth :
          kstack'[t][e] = IF t = s /\ e = d THEN f ELSE kstack[t][e]
    BY <1>1, <1>2
  <2>2. \A t \in Stacks, e \in 1..MaxDepth : Ok(kstack'[t][e])
    BY <1>1, <1>2, <2>1
  <2> QED BY <2>2 DEF DecidedInv, Succ
<1> HIDE DEF Ok
<1>3. CASE TimerIrq \/ KeyboardIrq \/ Syscall
  <2>1. PICK k \in {"tick", "kbd", "sys"}, c \in {"eoi", "body"} : Enter(k, c)
    BY <1>3 DEF TimerIrq, KeyboardIrq, Syscall
  <2>2. Ok(Activation(k, c, prog))  BY DEF Activation, Ok, Window
  <2>3. stk' \in Stacks /\ dep + 1 \in 1..MaxDepth
    <3>1. stk' \in Stacks  BY <2>1, AllCreated, EntryStack
    <3> QED BY <2>1, <3>1, SchedulerAssumption DEF Enter, IInv, SwitchInv, TypeOK
  <2>4. kstack' = [kstack EXCEPT ![stk'][dep + 1] = Activation(k, c, prog)]
    BY <2>1 DEF Enter
  <2> QED BY <1>2, <2>2, <2>3, <2>4
<1>4. CASE TickLoad
  <2>1. CASE \E e \in Esp : kstack' = [kstack EXCEPT ![e[1]][e[2]] = Resumed(@)]
    <3>1. PICK e \in Esp : kstack' = [kstack EXCEPT ![e[1]][e[2]] = Resumed(@)]
      BY <2>1
    <3>2. PICK s \in Stacks, d \in 1..MaxDepth : s = e[1] /\ d = e[2]
      BY DEF Esp
    <3>3. Ok(Resumed(kstack[s][d]))
      <4>1. kstack[s][d] \in Frame  BY <1>1
      <4> QED BY <4>1 DEF Ok, Resumed, Frame, Window
    <3>4. kstack' = [kstack EXCEPT ![s][d] = Resumed(kstack[s][d])]  BY <3>1, <3>2
    <3> QED BY <1>2, <3>3, <3>4
  <2>2. CASE kstack' = kstack  BY <2>2 DEF DecidedInv, Succ
  <2> QED BY <1>4, <2>1, <2>2 DEF TickLoad, Lands
<1>5. CASE Iret \/ TrampIret
  <2>1. prog # NULL /\ dep > 0 /\ kstack' = [kstack EXCEPT ![stk][dep] = Empty]
    BY <1>5 DEF Iret, TrampIret, At
  <2>2. stk \in Stacks /\ dep \in 1..MaxDepth  BY AllCreated, <2>1, TopFacts
  <2>3. Ok(Empty)  BY DEF Ok, Empty, Activation
  <2> QED BY <1>2, <2>1, <2>2, <2>3
<1>6. ASSUME Eoi \/ TickCur \/ TickNext \/ TickTest \/ TickRun \/ TickPid
             \/ TickEsp0 \/ TickSave \/ Body \/ TrampGet
      PROVE  DecidedInv'
  <2>1. prog # NULL /\ dep > 0  BY AllCreated, <1>6, Statement
  <2>2. /\ stk \in Stacks /\ dep \in 1..MaxDepth /\ prog \in Created
        /\ Top \in Frame /\ Ok(Top) /\ Top.prog = prog
    BY AllCreated, <1>1, <2>1, TopFacts DEF Top, LiveFrame
  <2>3. ASSUME NEW f, Ok(f), Continue(f) PROVE DecidedInv'
    BY <1>2, <2>2, <2>3 DEF Continue
  <2>4. ASSUME NEW c, Goto(c),
               c \in {"run", "pid"} \cup Window =>
                 Top.pc \in {"test", "run", "pid"} \cup Window,
               c # "test"
        PROVE  DecidedInv'
    <3>1. Ok([Top EXCEPT !.pc = c])  BY <2>2, <2>4 DEF Ok, Frame
    <3> QED BY <2>3, <2>4, <3>1 DEF Goto
  <2>5. CASE Return
    <3>1. Ok([Top EXCEPT !.pc = "ret", !.cur = NULL, !.next = NULL])
      BY <2>2 DEF Ok, Frame, Window
    <3> QED BY <2>3, <2>5, <3>1 DEF Return
  <2>6. CASE TickNext
    <3>1. ~AtWindow(Top) /\ Top.kind = "tick"
      BY <2>6 DEF TickNext, At, AtWindow, Window
    <3>2. current_pid = prog + 1  BY AllCreated, <2>1, <3>1, BookFacts
    <3>3. scheduler_next = Succ(prog)
      BY <2>2, <3>2, NextIsSucc DEF IInv, SwitchInv
    <3>4. Ok([Top EXCEPT !.pc = "test", !.next = scheduler_next])
      BY <2>2, <3>3 DEF Ok, Frame
    <3> QED BY <2>3, <2>6, <3>4 DEF TickNext
  <2>7. CASE TickCur \/ TrampGet
    <3>1. Ok([Top EXCEPT !.pc = "next", !.cur = process_get_current])
      BY <2>2 DEF Ok, Frame, Window
    <3>2. Ok([Top EXCEPT !.pc = "iret", !.cur = process_get_current])
      BY <2>2 DEF Ok, Frame, Window
    <3> QED BY <2>3, <2>5, <2>7, <3>1, <3>2 DEF TickCur, TrampGet
  <2>8. CASE Eoi \/ Body
    <3>1. Goto("cur") \/ Goto("body") \/ Goto("ret")  BY <2>8 DEF Eoi, Body
    <3> QED BY <2>4, <3>1 DEF Window
  <2>9. CASE TickTest \/ TickRun \/ TickPid \/ TickEsp0 \/ TickSave
    <3>1. \/ Return
          \/ \E c \in {"run", "pid", "esp0", "save", "saved"} : Goto(c)
      BY <2>9 DEF TickTest, TickRun, TickPid, TickEsp0, TickSave
    <3>2. Top.pc \in {"test", "run", "pid"} \cup Window
      BY <2>9 DEF TickTest, TickRun, TickPid, TickEsp0, TickSave, At, Window
    <3> QED BY <2>4, <2>5, <3>1, <3>2
  <2> QED BY <1>6, <2>6, <2>7, <2>8, <2>9
<1> QED BY <1>3, <1>4, <1>5, <1>6 DEF Next, CpuStep

\* The turn goes to the next process of the ring.
LEMMA TurnStep ==
  ASSUME IInv, DecidedInv, Next
  PROVE  prog \in Created /\ (prog' = prog \/ prog' = Succ(prog))
<1>1. prog \in Created /\ prog # NULL
  BY AllCreated, OwnStacksDisjoint DEF IInv, SwitchInv, RunningInv, Slots, NULL
<1>2. CASE TickLoad
  <2>1. dep > 0 /\ Top.pc = "saved" /\ Top.kind = "tick"
    BY <1>2 DEF TickLoad, At
  <2>2. /\ Top.prog = prog /\ stk \in Stacks /\ dep \in 1..MaxDepth
        /\ Top.next \in Created \ {prog}
    BY AllCreated, <1>1, <2>1, TopFacts DEF LiveFrame, Window
  <2>3. Top.next = Succ(prog)
    BY <2>1, <2>2 DEF DecidedInv, Top, Window
  <2>4. PICK q \in Created \ {prog} : Top.next = q  BY <2>2
  <2> DEFINE e == process_table[q].esp
  <2>5. /\ e \in Esp /\ Resumable(kstack[e[1]][e[2]])
        /\ \A d \in 1..e[2] : LiveFrame(NProc, q, d, kstack[e[1]][d])
    BY AllCreated, <2>4 DEF IInv, SwitchInv, ParkedInv
  <2>6. e[2] \in 1..e[2]  BY <2>5, SchedulerAssumption DEF Esp
  <2>7. Lands(e) /\ kstack[e[1]][e[2]].prog = q  BY <2>5, <2>6 DEF Lands, LiveFrame
  <2>8. prog' = q  BY <1>2, <2>4, <2>7 DEF TickLoad
  <2> QED BY <1>1, <2>3, <2>4, <2>8
<1>3. CASE TrampIret
  <2>1. dep > 0 /\ Top.pc = "iret" /\ Top.kind = "tramp"
    BY <1>3 DEF TrampIret, At
  <2>2. Top.cur = prog  BY AllCreated, <1>1, <2>1, TopFacts DEF LiveFrame
  <2> QED BY <1>1, <1>3, <2>2 DEF TrampIret
<1>4. CASE TimerIrq \/ KeyboardIrq \/ Syscall \/ Iret
  BY <1>1, <1>4 DEF TimerIrq, KeyboardIrq, Syscall, Enter, Iret
<1>5. CASE Eoi \/ TickCur \/ TickNext \/ TickTest \/ TickRun \/ TickPid
           \/ TickEsp0 \/ TickSave \/ Body \/ TrampGet
  BY AllCreated, <1>1, <1>5, Statement DEF Continue
<1> QED BY <1>2, <1>3, <1>4, <1>5 DEF Next, CpuStep

\* A process has been passed over at most as often as the turn is ahead of it.
TurnsInv ==
  /\ DecidedInv
  /\ bypass \in [Created -> Nat]
  /\ \A p \in Created :
       bypass[p] <= IF p <= prog THEN prog - p ELSE prog - p + NProc

LEMMA TurnsStep == IInv /\ TurnsInv /\ RRNext => TurnsInv'
<1> SUFFICES ASSUME IInv, TurnsInv, RRNext PROVE TurnsInv'  OBVIOUS
<1>1. Next /\ NProc \in Nat \ {0}
  BY SchedulerAssumption DEF RRNext, PID_LIMIT
<1>2. DecidedInv'  BY <1>1, DecidedStep DEF TurnsInv
<1>3. PICK r \in Created : r = prog /\ (prog' = r \/ prog' = Succ(r))
  BY <1>1, TurnStep DEF TurnsInv
<1>4. PICK t \in Created : t = prog'
  <2>1. Succ(r) \in Created  BY <1>1 DEF Succ, Created
  <2> QED BY <1>3, <2>1
<1>5. bypass' = [p \in Created |->
                   IF t = r THEN bypass[p]
                   ELSE IF t = p THEN 0
                   ELSE IF bypass[p] < Cap THEN bypass[p] + 1 ELSE Cap]
  BY <1>3, <1>4 DEF RRNext
<1>6. ASSUME NEW p \in Created
      PROVE  /\ bypass'[p] \in Nat
             /\ bypass'[p] <= IF p <= t THEN t - p ELSE t - p + NProc
  <2>1. /\ bypass[p] \in Nat
        /\ bypass[p] <= IF p <= r THEN r - p ELSE r - p + NProc
    BY <1>3 DEF TurnsInv
  <2>2. /\ p \in 0..NProc-1 /\ r \in 0..NProc-1 /\ t \in 0..NProc-1
        /\ t = r \/ t = IF r = NProc - 1 THEN 0 ELSE r + 1
    BY <1>3, <1>4 DEF Created, Succ
  <2>3. bypass'[p] = IF t = r THEN bypass[p] ELSE IF t = p THEN 0
                     ELSE IF bypass[p] < Cap THEN bypass[p] + 1 ELSE Cap
    BY <1>5
  <2>4. CASE t = r  BY <2>1, <2>3, <2>4
  <2>5. CASE t # r /\ t = p
    <3>1. bypass'[p] = 0  BY <2>3, <2>5
    <3> QED BY <2>2, <2>5, <3>1
  <2>6. CASE t # r /\ t # p
    <3>1. bypass'[p] = bypass[p] + 1
      BY <1>1, <2>1, <2>2, <2>3, <2>6 DEF Cap
    <3> QED BY <1>1, <2>1, <2>2, <2>6, <3>1
  <2> QED BY <2>4, <2>5, <2>6
<1>7. bypass' \in [Created -> Nat]
  <2>1. bypass' = [p \in Created |-> bypass'[p]]  BY <1>5
  <2> QED BY <1>6, <2>1
<1>8. \A p \in Created :
        bypass'[p] <= IF p <= prog' THEN prog' - p ELSE prog' - p + NProc
  BY <1>4, <1>6
<1> QED BY <1>2, <1>7, <1>8 DEF TurnsInv, Created

\* Between two turns of a process every other process gets at most one,
\* however many processes there are and wherever the ticks arrive.
THEOREM RoundRobinHolds == RRFairSpec => []RoundRobin
<1>1. RRInit => IInv /\ TurnsInv
  <2> SUFFICES ASSUME RRInit PROVE IInv /\ TurnsInv  OBVIOUS
  <2>1. Init  BY DEF RRInit
  <2>2. \A s \in Stacks, d \in 1..MaxDepth : kstack[s][d].kind # "tick"
    BY <2>1 DEF Init, Activation, Empty
  <2>3. prog = 0 /\ bypass = [p \in Created |-> 0]
    BY <2>1 DEF Init, RRInit, Shell
  <2>4. \A p \in Created : p \in 0..NProc-1  BY DEF Created
  <2>5. NProc \in Nat  BY SchedulerAssumption DEF PID_LIMIT
  <2>6. bypass \in [Created -> Nat]  BY <2>3
  <2>7. \A p \in Created :
          bypass[p] <= IF p <= prog THEN prog - p ELSE prog - p + NProc
    BY <2>3, <2>4, <2>5
  <2> QED BY <2>1, <2>2, <2>6, <2>7, InitInv DEF TurnsInv, DecidedInv
<1>2. IInv /\ TurnsInv /\ [RRNext]_<<vars, bypass>> => IInv' /\ TurnsInv'
  <2> SUFFICES ASSUME IInv, TurnsInv, [RRNext]_<<vars, bypass>>
               PROVE  IInv' /\ TurnsInv'
    OBVIOUS
  <2>1. CASE RRNext  BY <2>1, StepInv, TurnsStep DEF RRNext
  <2>2. CASE UNCHANGED <<vars, bypass>>
    <3>1. IInv'  BY <2>2, StepInv
    <3>2. TurnsInv'
      BY <2>2 DEF vars, TurnsInv, DecidedInv, Succ, Created
    <3> QED BY <3>1, <3>2
  <2> QED BY <2>1, <2>2
<1>3. TurnsInv /\ IInv => RoundRobin
  <2> SUFFICES ASSUME TurnsInv, IInv, NEW p \in Created
               PROVE  bypass[p] <= NProc - 1
    BY DEF RoundRobin
  <2>1. prog \in 0..NProc-1 /\ p \in 0..NProc-1 /\ NProc \in Nat
    BY SchedulerAssumption
       DEF IInv, SwitchInv, RunningInv, Procs, Created, PID_LIMIT
  <2>2. bypass[p] \in Nat
        /\ bypass[p] <= IF p <= prog THEN prog - p ELSE prog - p + NProc
    BY DEF TurnsInv
  <2> QED BY <2>1, <2>2
<1> QED BY <1>1, <1>2, <1>3, PTL DEF RRFairSpec

-----------------------------------------------------------------------------
(* Refinement: every step of the kernel enters or leaves a handler of the    *)
(* running process, dispatches, or stutters in Multitasking.                 *)

Kinds == {"tick", "kbd", "sys", "tramp"}

\* A function on 1..n is a sequence; what Append, Front and Last do to it.
LEMMA AsSequence ==
  ASSUME NEW n \in Nat, NEW f \in [1..n -> Kinds]
  PROVE  f \in Seq(Kinds) /\ Len(f) = n
BY SeqDef, LenProperties

LEMMA AppendAsFunction ==
  ASSUME NEW n \in Nat, NEW f \in [1..n -> Kinds], NEW k \in Kinds,
         NEW g \in [1..n+1 -> Kinds],
         g[n+1] = k, \A d \in 1..n : g[d] = f[d]
  PROVE  g = Append(f, k)
<1>1. f \in Seq(Kinds) /\ Len(f) = n /\ g \in Seq(Kinds) /\ Len(g) = n + 1
  BY AsSequence
<1>2. /\ Append(f, k) \in Seq(Kinds) /\ Len(Append(f, k)) = n + 1
      /\ \A d \in 1..n : Append(f, k)[d] = f[d]
      /\ Append(f, k)[n+1] = k
  BY <1>1, AppendProperties
<1>3. \A d \in 1..n+1 : d \in 1..n \/ d = n + 1  OBVIOUS
<1> QED BY <1>1, <1>2, <1>3, SeqEqual

LEMMA FrontAsFunction ==
  ASSUME NEW n \in Nat \ {0}, NEW f \in [1..n -> Kinds],
         NEW g \in [1..n-1 -> Kinds], \A d \in 1..n-1 : g[d] = f[d]
  PROVE  f # <<>> /\ g = SubSeq(f, 1, Len(f) - 1) /\ f[Len(f)] = f[n]
<1>1. /\ f \in Seq(Kinds) /\ Len(f) = n
      /\ n - 1 \in Nat /\ g \in Seq(Kinds) /\ Len(g) = n - 1
  BY AsSequence
<1>2. /\ SubSeq(f, 1, n - 1) \in Seq(Kinds) /\ Len(SubSeq(f, 1, n - 1)) = n - 1
      /\ \A d \in 1..n-1 : SubSeq(f, 1, n - 1)[d] = f[d]
  BY <1>1, SubSeqProperties
<1> QED BY <1>1, <1>2, SeqEqual, EmptySeq

-----------------------------------------------------------------------------
(* The refinement mapping on reachable states *)

Cont == [p \in Created |-> Continuation(p)]

RunningShape ==
  /\ prog \in Created /\ prog # NULL /\ dep \in 0..MaxDepth /\ dep \in Nat
  /\ Cont[prog] = [d \in 1..dep |-> kstack[stk][d].kind]
  /\ Cont[prog] \in [1..dep -> Kinds]

LEMMA RunningCont == IInv => RunningShape
<1> SUFFICES ASSUME IInv PROVE RunningShape  OBVIOUS
<1>1. prog \in Created /\ prog # NULL /\ dep \in 0..MaxDepth /\ dep \in Nat
  BY AllCreated, OwnStacksDisjoint
     DEF IInv, SwitchInv, RunningInv, TypeOK, Slots, NULL
<1>2. \A d \in 1..dep : kstack[stk][d].kind \in Kinds
  <2> TAKE d \in 1..dep
  <2>1. stk \in Stacks /\ d \in 1..MaxDepth
    BY <1>1, SchedulerAssumption DEF IInv, SwitchInv, TypeOK
  <2>2. kstack[stk][d].kind # "boot"  BY <2>1 DEF IInv, NoBoot
  <2>3. LiveFrame(NProc, prog, d, kstack[stk][d])
    BY DEF IInv, SwitchInv, RunningInv
  <2> QED BY <2>2, <2>3 DEF LiveFrame, Kinds
<1>3. Cont[prog] = [d \in 1..dep |-> kstack[stk][d].kind]
  BY <1>1 DEF Cont, Continuation
<1> QED BY <1>1, <1>2, <1>3 DEF RunningShape

LEMMA RunningContNext == IInv' => RunningShape'
BY RunningCont, PTL

\* A parked process waits in its timer handler or in front of its trampoline.
LEMMA ParkedCont ==
  ASSUME IInv, NEW p \in Created, p # prog
  PROVE  LET e == process_table[p].esp
         IN  /\ e[2] \in Nat \ {0}
             /\ Cont[p] = [d \in 1..e[2] |-> kstack[e[1]][d].kind]
             /\ Cont[p] \in [1..e[2] -> Kinds]
             /\ Cont[p][e[2]] \in {"tick", "tramp"}
<1> DEFINE e == process_table[p].esp
<1>1. /\ e \in Esp /\ Resumable(kstack[e[1]][e[2]])
      /\ \A d \in 1..e[2] : LiveFrame(NProc, p, d, kstack[e[1]][d])
  BY AllCreated DEF IInv, SwitchInv, ParkedInv
<1>2. e[2] \in Nat \ {0}  BY <1>1, SchedulerAssumption DEF Esp
<1>3. Chain(p) = [d \in 1..e[2] |-> kstack[e[1]][d]]  BY DEF Chain
<1>4. Cont[p] = [d \in 1..e[2] |-> kstack[e[1]][d].kind]
  <2>1. Cont[p] = [d \in DOMAIN Chain(p) |-> Chain(p)[d].kind]
    BY DEF Cont, Continuation
  <2> QED BY <1>3, <2>1
<1>5. \A d \in 1..e[2] : kstack[e[1]][d].kind \in Kinds
  <2> TAKE d \in 1..e[2]
  <2>1. e[1] \in Stacks /\ d \in 1..MaxDepth
    BY <1>1, SchedulerAssumption DEF Esp
  <2>2. kstack[e[1]][d].kind # "boot"  BY <2>1 DEF IInv, NoBoot
  <2> QED BY <1>1, <2>2 DEF LiveFrame, Kinds
<1>6. e[2] \in 1..e[2]  BY <1>2
<1> QED BY <1>1, <1>2, <1>4, <1>5, <1>6 DEF Resumable

\* A step of the running process that only touches its own stacks leaves the
\* continuations of the others alone.
LEMMA OtherConts ==
  ASSUME IInv, Next, UNCHANGED prog, NEW p \in Created, p # prog
  PROVE  Cont'[p] = Cont[p]
<1>1. PICK r \in Created \cap {prog, prog'} : \A s \in Stacks :
        s \notin OwnStacks(r) => kstack'[s] = kstack[s]
  BY AllCreated, StepWrites
<1>2. process_table'[p].esp = process_table[p].esp  BY AllCreated, StepWrites
<1>3. LET e == process_table[p].esp IN e[1] \in OwnStacks(p) /\ e \in Esp
  BY AllCreated DEF IInv, SwitchInv, ParkedInv
<1>4. LET e == process_table[p].esp IN kstack'[e[1]] = kstack[e[1]]
  BY AllCreated, <1>1, <1>3, OwnStacksDisjoint
<1>5. Chain(p)' = Chain(p)  BY <1>2, <1>4 DEF Chain
<1>6. Continuation(p)' = Continuation(p)  BY <1>5 DEF Continuation
<1> QED BY <1>6 DEF Cont, Created

\* The abstract step is determined by what becomes of the running process.
LEMMA ContChange ==
  ASSUME IInv, Next, UNCHANGED prog, NEW g, Cont'[prog] = g
  PROVE  Cont' = [Cont EXCEPT ![prog] = g]
<1>1. prog \in Created  BY RunningCont DEF RunningShape
<1>2. \A p \in Created : Cont'[p] = IF p = prog THEN g ELSE Cont[p]
  BY OtherConts
<1>3. Cont' = [p \in Created |-> Cont'[p]]  BY DEF Cont, Created
<1>4. Cont = [p \in Created |-> Cont[p]]  BY DEF Cont
<1> HIDE DEF Cont
<1> QED BY <1>1, <1>2, <1>3, <1>4

-----------------------------------------------------------------------------
LEMMA EnterRefines ==
  ASSUME IInv, Next, IInv', TimerIrq \/ KeyboardIrq \/ Syscall
  PROVE  MT!Next
<1>1. PICK k \in Kinds \ {"tramp"}, c \in {"eoi", "body"} : Enter(k, c)
  BY DEF TimerIrq, KeyboardIrq, Syscall, Kinds
<1>2. UNCHANGED prog /\ dep' = dep + 1  BY <1>1 DEF Enter
<1> DEFINE f == Cont[prog]
           g == Cont'[prog]
<1>3. /\ prog \in Created /\ dep \in Nat /\ f \in [1..dep -> Kinds]
      /\ f = [d \in 1..dep |-> kstack[stk][d].kind]
  BY RunningCont DEF RunningShape
<1>4. /\ g \in [1..dep+1 -> Kinds]
      /\ g = [d \in 1..dep+1 |-> kstack'[stk'][d].kind]
  <2>1. /\ Cont'[prog'] = [d \in 1..dep' |-> kstack'[stk'][d].kind]
        /\ Cont'[prog'] \in [1..dep' -> Kinds]
    BY RunningContNext DEF RunningShape
  <2> QED BY <1>2, <2>1
<1>5. g[dep + 1] = k /\ \A d \in 1..dep : g[d] = f[d]
  <2>1. stk' \in Stacks /\ dep + 1 \in 1..MaxDepth /\ (dep > 0 => stk' = stk)
    BY <1>1, <1>3, SchedulerAssumption DEF Enter, IInv, SwitchInv, TypeOK
  <2>2. kstack'[stk'] = [kstack[stk'] EXCEPT ![dep + 1] = Activation(k, c, prog)]
    BY <1>1, <2>1 DEF Enter, IInv, SwitchInv, TypeOK
  <2>3. kstack[stk'] \in [1..MaxDepth -> Frame]  BY <2>1 DEF IInv, SwitchInv, TypeOK
  <2>4. kstack'[stk'][dep + 1].kind = k
    <3>1. kstack'[stk'][dep + 1] = Activation(k, c, prog)  BY <2>1, <2>2, <2>3
    <3> QED BY <3>1 DEF Activation
  <2>5. \A d \in 1..dep : kstack'[stk'][d] = kstack[stk][d]
    BY <1>3, <2>1, <2>2, <2>3
  <2> QED BY <1>3, <1>4, <2>4, <2>5
<1> HIDE DEF f, g
<1>6. g = Append(f, k)
  <2>1. k \in Kinds  BY <1>1
  <2>2. dep \in Nat /\ f \in [1..dep -> Kinds] /\ g \in [1..dep+1 -> Kinds]
    BY <1>3, <1>4
  <2> HIDE DEF Kinds
  <2> QED BY <1>5, <2>1, <2>2, AppendAsFunction
<1>7. Cont' = [Cont EXCEPT ![prog] = Append(Cont[prog], k)]
  BY <1>2, <1>6, ContChange DEF f, g
<1> QED BY <1>1, <1>2, <1>7 DEF MT!Next, MT!Enter, MT!Kinds, Kinds, Cont

\* A statement inside a handler is invisible.
LEMMA ContinueRefines ==
  ASSUME IInv, Next, IInv', dep > 0, NEW f, Continue(f), f.kind = Top.kind
  PROVE  UNCHANGED <<prog, Cont>>
<1>1. UNCHANGED <<prog, stk, dep>>  BY DEF Continue
<1>2. /\ Cont[prog] = [d \in 1..dep |-> kstack[stk][d].kind]
      /\ prog \in Created
  BY RunningCont DEF RunningShape
<1>3. Cont'[prog] = [d \in 1..dep |-> kstack'[stk][d].kind]
  BY <1>1, RunningContNext DEF RunningShape
<1>4. \A d \in 1..dep : kstack'[stk][d].kind = kstack[stk][d].kind
  <2>1. kstack \in [Stacks -> [1..MaxDepth -> Frame]] /\ dep \in 1..MaxDepth
        /\ stk \in Stacks
    BY SchedulerAssumption DEF IInv, SwitchInv, TypeOK
  <2> QED BY <2>1 DEF Continue, Top
<1>5. Cont'[prog] = Cont[prog]  BY <1>2, <1>3, <1>4
<1>6. Cont' = [Cont EXCEPT ![prog] = Cont[prog]]
  BY <1>1, <1>5, ContChange
<1> QED BY <1>1, <1>2, <1>6 DEF Cont

\* The innermost handler is left.
LEMMA PopRefines ==
  ASSUME IInv, Next, IInv', dep > 0, UNCHANGED <<prog, stk>>, dep' = dep - 1,
         kstack' = [kstack EXCEPT ![stk][dep] = Empty]
  PROVE  MT!Next
<1> DEFINE f == Cont[prog]
           g == Cont'[prog]
<1>1. /\ prog \in Created /\ dep \in Nat \ {0} /\ f \in [1..dep -> Kinds]
      /\ f = [d \in 1..dep |-> kstack[stk][d].kind]
  BY RunningCont DEF RunningShape
<1>2. /\ g \in [1..dep-1 -> Kinds]
      /\ g = [d \in 1..dep-1 |-> kstack'[stk][d].kind]
  BY RunningContNext DEF RunningShape
<1>3. \A d \in 1..dep-1 : g[d] = f[d]
  <2>1. kstack \in [Stacks -> [1..MaxDepth -> Frame]] /\ dep \in 1..MaxDepth
        /\ stk \in Stacks
    BY SchedulerAssumption DEF IInv, SwitchInv, TypeOK
  <2>2. \A d \in 1..dep-1 : kstack'[stk][d] = kstack[stk][d] /\ d \in 1..dep
    BY <2>1
  <2> QED BY <1>1, <1>2, <2>2
<1> HIDE DEF f, g
<1>4. f # <<>> /\ g = SubSeq(f, 1, Len(f) - 1)
  <2>1. dep \in Nat \ {0} /\ f \in [1..dep -> Kinds] /\ g \in [1..dep-1 -> Kinds]
    BY <1>1, <1>2
  <2> HIDE DEF Kinds
  <2> QED BY <1>3, <2>1, FrontAsFunction
<1>5. Cont[prog] # <<>>
      /\ Cont' = [Cont EXCEPT ![prog] = SubSeq(Cont[prog], 1, Len(Cont[prog]) - 1)]
  BY <1>4, ContChange DEF f, g
<1> QED BY <1>5 DEF MT!Next, MT!Leave, MT!Front, Cont

\* A switch moves the CPU between two continuations that stay as they are.
LEMMA LoadRefines ==
  ASSUME IInv, IInv', TickLoad
  PROVE  MT!Next
<1>1. prog # NULL /\ dep > 0 /\ Top.pc = "saved" /\ Top.kind = "tick" /\ Next
  BY DEF TickLoad, At, Next, CpuStep
<1>2. PICK q \in Created \ {prog} : Top.next = q
  BY AllCreated, <1>1, TopFacts DEF LiveFrame, Window
<1>3. process_table[prog].esp = <<stk, dep>>
  BY AllCreated, <1>1, TopFacts DEF IInv, SwitchInv, BookInv, AtWindow, Window, Top
<1> DEFINE e == process_table[q].esp
<1>4. /\ e \in Esp /\ e[1] \in OwnStacks(q) /\ Lands(e)
      /\ e[1] \in Stacks /\ e[2] \in 1..MaxDepth /\ e[2] \in 1..e[2]
      /\ kstack[e[1]][e[2]].prog = q
  <2>1. /\ e \in Esp /\ e[1] \in OwnStacks(q)
        /\ Resumable(kstack[e[1]][e[2]])
        /\ \A d \in 1..e[2] : LiveFrame(NProc, q, d, kstack[e[1]][d])
    BY AllCreated, <1>2 DEF IInv, SwitchInv, ParkedInv
  <2>2. e[1] \in Stacks /\ e[2] \in 1..MaxDepth /\ e[2] \in 1..e[2]
    BY <2>1, SchedulerAssumption DEF Esp
  <2> QED BY AllCreated, <2>1, <2>2 DEF Lands, LiveFrame
<1>5. /\ prog' = q /\ stk' = e[1] /\ dep' = e[2]
      /\ kstack' = [kstack EXCEPT ![e[1]][e[2]] = Resumed(@)]
      /\ UNCHANGED process_table
  BY <1>2, <1>4 DEF TickLoad
<1>6. kstack \in [Stacks -> [1..MaxDepth -> Frame]]  BY DEF IInv, SwitchInv, TypeOK
<1>7. \A t \in Stacks : \A d \in 1..MaxDepth :
        kstack'[t][d].kind = kstack[t][d].kind
  <2>1. Resumed(kstack[e[1]][e[2]]).kind = kstack[e[1]][e[2]].kind
    <3>1. kstack[e[1]][e[2]] \in Frame  BY <1>4, <1>6
    <3> QED BY <3>1 DEF Resumed, Frame
  <2> QED BY <1>4, <1>5, <1>6, <2>1
<1>8. ASSUME NEW p \in Created  PROVE  Cont'[p] = Cont[p]
  <2> HIDE DEF e
  <2>1. CASE p = q
    <3>1. Cont[q] = [d \in 1..e[2] |-> kstack[e[1]][d].kind]
      BY <1>2, ParkedCont DEF e
    <3>2. Cont'[q] = [d \in 1..e[2] |-> kstack'[e[1]][d].kind]
      BY <1>5, RunningContNext DEF RunningShape
    <3>3. \A d \in 1..e[2] : kstack'[e[1]][d].kind = kstack[e[1]][d].kind
      <4>1. \A d \in 1..e[2] : d \in 1..MaxDepth
        BY <1>4, SchedulerAssumption
      <4> QED BY <1>4, <1>7, <4>1
    <3> QED BY <2>1, <3>1, <3>2, <3>3
  <2>2. CASE p = prog
    <3>1. Cont[p] = [d \in 1..dep |-> kstack[stk][d].kind]
      BY <2>2, RunningCont DEF RunningShape
    <3>2. Chain(p)' = [d \in 1..dep |-> kstack'[stk][d]]
      BY <1>3, <1>5, <2>2 DEF Chain
    <3>3. Continuation(p)' = [d \in DOMAIN Chain(p)' |-> Chain(p)'[d].kind]
      BY <1>2, <1>5, <2>2 DEF Continuation
    <3>4. Cont'[p] = Continuation(p)'  BY DEF Cont, Created
    <3>5. Cont'[p] = [d \in 1..dep |-> kstack'[stk][d].kind]
      BY <3>2, <3>3, <3>4
    <3>6. \A d \in 1..dep : kstack'[stk][d].kind = kstack[stk][d].kind
      <4>1. stk \in Stacks /\ \A d \in 1..dep : d \in 1..MaxDepth
        BY SchedulerAssumption DEF IInv, SwitchInv, TypeOK
      <4> QED BY <1>7, <4>1
    <3> QED BY <3>1, <3>5, <3>6
  <2>3. CASE p # q /\ p # prog
    <3>1. Chain(p)' = Chain(p)
      <4>1. process_table[p].esp \in Esp /\ process_table[p].esp[1] \in OwnStacks(p)
        BY AllCreated, <2>3 DEF IInv, SwitchInv, ParkedInv
      <4>2. process_table[p].esp[1] # e[1]
        BY AllCreated, <1>2, <1>4, <2>3, <4>1, OwnStacksDisjoint
      <4>3. kstack'[process_table[p].esp[1]] = kstack[process_table[p].esp[1]]
        BY AllCreated, <1>4, <1>5, <1>6, <4>1, <4>2, OwnStacksDisjoint
      <4> QED BY <1>5, <4>3 DEF Chain
    <3>2. Continuation(p)' = Continuation(p)
      BY <1>5, <2>3, <3>1 DEF Continuation
    <3> QED BY <3>2 DEF Cont, Created
  <2> QED BY <2>1, <2>2, <2>3
<1>9. Cont' = Cont
  <2>1. Cont' = [p \in Created |-> Cont'[p]]  BY DEF Cont, Created
  <2>2. Cont = [p \in Created |-> Cont[p]]  BY DEF Cont
  <2> HIDE DEF Cont
  <2> QED BY <1>8, <2>1, <2>2
<1>10. Cont[prog] # <<>> /\ Cont[prog][Len(Cont[prog])] = "tick"
  <2>1. /\ Cont[prog] \in [1..dep -> Kinds] /\ dep \in Nat \ {0}
        /\ Cont[prog] = [d \in 1..dep |-> kstack[stk][d].kind]
    BY <1>1, RunningCont DEF RunningShape
  <2>2. Cont[prog] \in Seq(Kinds) /\ Len(Cont[prog]) = dep  BY <2>1, AsSequence
  <2>3. Cont[prog][dep] = "tick"  BY <1>1, <2>1 DEF Top
  <2> QED BY <2>1, <2>2, <2>3, EmptySeq
<1>11. Cont[q] # <<>> /\ Cont[q][Len(Cont[q])] \in {"tick", "tramp"}
  <2>1. /\ Cont[q] \in [1..e[2] -> Kinds] /\ e[2] \in Nat \ {0}
        /\ Cont[q][e[2]] \in {"tick", "tramp"}
    BY <1>2, ParkedCont
  <2>2. Cont[q] \in Seq(Kinds) /\ Len(Cont[q]) = e[2]  BY <2>1, AsSequence
  <2> QED BY <2>1, <2>2, EmptySeq
<1> QED BY <1>2, <1>5, <1>9, <1>10, <1>11 DEF MT!Next, MT!Dispatch, MT!Last, Cont

-----------------------------------------------------------------------------
LEMMA InitRefines == Init => MT!Init
<1> SUFFICES ASSUME Init PROVE MT!Init  OBVIOUS
<1>1. IInv  BY InitInv
<1>2. prog \in Created /\ Cont[prog] = <<>>
  <2>1. /\ prog \in Created /\ dep = 0
        /\ Cont[prog] \in [1..dep -> Kinds] /\ dep \in Nat
    BY <1>1, RunningCont DEF RunningShape, Init
  <2>2. Cont[prog] \in Seq(Kinds) /\ Len(Cont[prog]) = 0
    BY <2>1, AsSequence
  <2> QED BY <2>1, <2>2, EmptySeq
<1>3. ASSUME NEW p \in Created, p # prog  PROVE  Cont[p] = <<"tramp">>
  <2>1. p \in Slots /\ p \in Stacks  BY AllCreated, OwnStacksDisjoint
  <2>2. process_table[p].esp = <<p, 1>>
    <3>1. process_table[p] = CreatedProc(p)  BY <2>1 DEF Init
    <3> QED BY <3>1 DEF CreatedProc
  <2>3. kstack[p][1].kind = "tramp"
    <3>1. 1 \in 1..MaxDepth  BY SchedulerAssumption
    <3>2. kstack[p][1] = Activation("tramp", "get", p)
      BY <2>1, <3>1 DEF Init
    <3> QED BY <3>2 DEF Activation
  <2>4. Cont[p] \in [1..1 -> Kinds] /\ Cont[p][1] = "tramp"
    <3>1. /\ Cont[p] = [d \in 1..1 |-> kstack[p][d].kind]
          /\ Cont[p] \in [1..1 -> Kinds]
      <4> DEFINE e == process_table[p].esp
      <4>1. e[1] = p /\ e[2] = 1  BY <2>2
      <4>2. /\ Cont[p] = [d \in 1..e[2] |-> kstack[e[1]][d].kind]
            /\ Cont[p] \in [1..e[2] -> Kinds]
        BY <1>1, <1>3, ParkedCont
      <4> HIDE DEF e
      <4> QED BY <4>1, <4>2
    <3> QED BY <2>3, <3>1
  <2> QED BY <2>4
<1> QED BY <1>2, <1>3 DEF MT!Init, Cont

LEMMA StepRefines ==
  ASSUME IInv, IInv', [Next]_vars
  PROVE  MT!Next \/ UNCHANGED <<prog, Cont>>
<1>1. CASE UNCHANGED vars
  <2>1. \A p \in Created : Continuation(p)' = Continuation(p)
    BY <1>1 DEF vars, Continuation, Chain
  <2> QED BY <1>1, <2>1 DEF vars, Cont, Created
<1>2. CASE TimerIrq \/ KeyboardIrq \/ Syscall
  BY <1>2, EnterRefines DEF Next
<1>3. CASE TickLoad  BY <1>3, LoadRefines
<1>4. CASE Iret
  BY <1>4, PopRefines DEF Iret, At, Next, CpuStep
<1>5. CASE TrampIret
  <2>1. prog # NULL /\ dep > 0 /\ Top.kind = "tramp" /\ Top.pc = "iret"
    BY <1>5 DEF TrampIret, At
  <2>2. dep = 1 /\ Top.cur = prog  BY AllCreated, <2>1, TopFacts DEF LiveFrame
  <2>3. UNCHANGED <<prog, stk>> /\ dep' = dep - 1
        /\ kstack' = [kstack EXCEPT ![stk][dep] = Empty] /\ Next
    BY <1>5, <2>2 DEF TrampIret, Next, CpuStep
  <2> QED BY <2>1, <2>3, PopRefines
<1>6. CASE Eoi \/ TickCur \/ TickNext \/ TickTest \/ TickRun \/ TickPid
           \/ TickEsp0 \/ TickSave \/ Body \/ TrampGet
  <2>1. dep > 0 /\ Next /\ prog # NULL
    BY <1>6 DEF Eoi, TickCur, TickNext, TickTest, TickRun, TickPid, TickEsp0,
       TickSave, Body, TrampGet, At, Next, CpuStep
  <2>2. PICK f : Continue(f) /\ f.kind = Top.kind
    BY AllCreated, <1>6, Statement
  <2> QED BY <2>1, <2>2, ContinueRefines
<1> QED BY <1>1, <1>2, <1>3, <1>4, <1>5, <1>6 DEF Next, CpuStep

\* The kernel's interrupt paths and scheduler_tick implement multitasking:
\* every process keeps a private continuation, whatever interrupts arrive.
THEOREM MultitaskingHolds == Spec => ImplementsMultitasking
<1>1. IInv /\ IInv' /\ [Next]_vars => [MT!Next]_<<prog, [p \in Created |-> Continuation(p)]>>
  BY StepRefines DEF Cont
<1> QED BY <1>1, InitRefines, Inductive, PTL
        DEF Spec, ImplementsMultitasking, MT!Spec
=============================================================================
