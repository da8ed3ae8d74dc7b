-------------------------------- MODULE Traps --------------------------------
(***************************************************************************)
(* Interrupt entry and return instruction by instruction: the stubs of     *)
(* arch/i386/idt_flush.asm, k_isr128.asm and k_isr177.asm, irq_handler and *)
(* isr_handler of interrupts.c, the CPU's use of the descriptor tables,    *)
(* and the two interrupt controllers.  All gates are trap gates, so that   *)
(* interrupts nest anywhere once they are enabled.  One process runs: what *)
(* scheduler_tick does in the middle of irq_handler is Scheduler's.        *)
(***************************************************************************)
EXTENDS Integers, Sequences, SequencesExt, FiniteSetsExt

CONSTANTS
  Lines,            \* interrupt lines with a device; 1 is the keyboard's
  Faults,           \* exceptions a user program may cause
  MaxNest,          \* bound: handlers in progress
  TssAddress        \* of tss_entry, as a pair of 16-bit halves

Half == {n \in Nat : n < 65536}

ASSUME TrapsAssumption == /\ Lines \subseteq 0..15 /\ 1 \in Lines
                          /\ Faults \subseteq 0..31 /\ MaxNest \in Nat
                          /\ TssAddress \in [hi : Half, lo : Half]

VARIABLES
  ip,               \* the instruction the CPU is at: program and index
  gp,               \* general registers: eax, and the others
  seg,              \* selector in ds, es, fs and gs
  stack,            \* what interrupts have pushed and not popped
  sti,              \* interrupt flag
  gdt, idt, tss,    \* gdt_entries, idt_entries, the stack in tss_entry
  loaded,           \* table registers that have been loaded: "gdtr", "idtr", "tr"
  pic,              \* the two interrupt controllers
  irq_routines,     \* lines with an installed handler
  obf,              \* a scancode waits in port 0x60
  shadow            \* ghost: what each handler in progress interrupted

cpu  == <<ip, gp, seg, stack, shadow>>
tables == <<gdt, idt, tss, loaded>>
trapVars == <<cpu, sti, tables, pic, irq_routines, obf>>

-----------------------------------------------------------------------------
(* Descriptors.  A 32-bit number is a pair of 16-bit halves.                 *)

Long(h, l) == [hi |-> h, lo |-> l]
ZeroLong   == Long(0, 0)
Ones       == Long(65535, 65535)

\* Bit of weight w of a | b
OrBit(a, b, w) == IF (a \div w) % 2 = 1 \/ (b \div w) % 2 = 1 THEN w ELSE 0

\* flags: limit >> 16, with the high half of gran or-ed in.
set_gdt_gate(base, limit, access, gran) ==
  [base_low    |-> base.lo,
   base_middle |-> base.hi % 256,
   base_high   |-> base.hi \div 256,
   limit       |-> limit.lo,
   flags       |-> (limit.hi % 16) + OrBit(limit.hi, gran, 16) + OrBit(limit.hi, gran, 32)
                     + OrBit(limit.hi, gran, 64) + OrBit(limit.hi, gran, 128),
   access      |-> access]

set_idt_gate(base, sel, flags) ==
  [base_low |-> base.lo, base_high |-> base.hi, sel |-> sel, always0 |-> 0,
   flags |-> flags]

\* How the CPU reads them.  A flat segment is a 32-bit one
\* that starts at 0 and has 2^20 pages.
Selected(sel) == gdt[sel \div 8]
Privilege(d)  == (d.access \div 32) % 4
Present(d)    == d.access >= 128
FlatSegment(d) ==
  /\ d.base_low = 0 /\ d.base_middle = 0 /\ d.base_high = 0
  /\ d.limit = 65535 /\ d.flags % 16 = 15 /\ d.flags \div 64 = 3
CodeSegment(sel, ring) ==
  LET d == Selected(sel)
  IN  FlatSegment(d) /\ Present(d) /\ d.access % 32 \in {26, 27} /\ Privilege(d) = ring
DataSegment(sel, ring) ==
  LET d == Selected(sel)
  IN  FlatSegment(d) /\ Present(d) /\ d.access % 32 \in {18, 19} /\ Privilege(d) = ring

\* The TSS under the task register: all of its 108 bytes, where tss_entry is.
TssUsable ==
  LET d == Selected(43)
  IN  /\ "tr" \in loaded /\ Present(d) /\ d.access % 32 \in {9, 11}
      /\ Long(256 * d.base_high + d.base_middle, d.base_low) = TssAddress
      /\ d.flags % 16 = 0 /\ d.limit >= 103
      /\ DataSegment(tss.ss0, 0) /\ tss.esp0 = "kernel_stack"

\* isr_stub_table, irq_stub_table, isr128, isr177: the address of each stub,
\* for the vectors that occur
Vectors == Faults \cup {32 + l : l \in Lines} \cup {128, 177}
StubAddress(v) == Long(16, 4096 + 16 * v)

ValidGate(v) ==
  /\ idt[v].flags >= 128 /\ idt[v].flags % 32 = 15
  /\ CodeSegment(idt[v].sel, 0)
  /\ \E w \in Vectors : StubAddress(w) = Long(idt[v].base_high, idt[v].base_low)

Target(v) == CHOOSE w \in Vectors :
               StubAddress(w) = Long(idt[v].base_high, idt[v].base_low)

-----------------------------------------------------------------------------
(* Programs.  A word on the stack is a number, or stands for the registers,  *)
(* the segment registers or the CPU's frame, which are pushed and popped     *)
(* together.                                                                 *)

User == -1      \* the user program, kernel_main, and code that is neither
Main == -2
Wild == -3

Ip(p, i) == [prog |-> p, at |-> i]
InStub   == ip.prog >= 0

Item(is, n)   == [is |-> is, n |-> n, ip |-> Ip(Wild, 0), gp |-> <<0, 0>>]
Number(n)     == Item("number", n)
SegsWord      == Item("segs", seg)
RegsWord      == [Item("regs", 0) EXCEPT !.gp = gp]
FrameWord(i)  == [Item("frame", 0) EXCEPT !.ip = i]

\* Exceptions for which the CPU pushes an error code
CpuErrorCode == {8, 10, 11, 12, 13, 14, 17, 21, 29, 30}

EntryNoErrorCode(v) ==     \* mutant: the stub of a page fault pushes a 0 too
  (IF v \in {8, 10, 11, 12, 13} THEN <<>> ELSE <<"push0">>) \o <<"pushnum">>

Entry(v) ==
  (IF v \in {8, 10, 11, 12, 13, 14} THEN <<>> ELSE <<"push0">>) \o <<"pushnum">>

isr_common_stub == <<"pusha", "pushsegs", "kernelsegs", "isr", "halt",
                     "popsegs", "popa", "drop2", "iret">>

irq_common_stub == <<"pusha", "pushsegs", "kernelsegs", "eoislave", "eoimaster",
                     "dispatch", "popsegs", "popa", "drop2", "iret">>

isr128_reversed ==         \* mutant: the registers are popped before the result is stored
  <<"pusha", "pushargs", "syscall", "drop4", "popa", "seteax", "iret">>

isr128 == <<"pusha", "pushargs", "syscall", "drop4", "seteax", "popa", "iret">>

Stub(v) == IF v = 128 THEN isr128
           ELSE IF v \in 32..47 THEN Entry(v) \o irq_common_stub
           ELSE Entry(v) \o isr_common_stub

Op == IF InStub THEN Stub(ip.prog)[ip.at] ELSE "none"

\* The word n words above the stack pointer
Peek(n) == IF n <= Len(stack) THEN stack[Len(stack) + 1 - n] ELSE Number(0)
Popped(n) == SubSeq(stack, 1, Len(stack) - n)
Advance == ip' = [ip EXCEPT !.at = @ + 1]
Lost    == ip' = Ip(Wild, 0)

\* Registers a C function has overwritten, by the handler that called it
Clobbered == LET n == 100 + Len(shadow) IN <<n, n>>
SyscallResult == 77

-----------------------------------------------------------------------------
(* The interrupt controllers, 8259: external.                                *)

Chip(l) == IF l < 8 THEN "master" ELSE "slave"
Above(c, k) == \A j \in pic[c].isr : k < j          \* k has priority over all in service
VectorOf(l) == pic[Chip(l)].base + (l % 8)

Programmed(c) == /\ pic[c].stage = 0 /\ pic[c].mask = 0
                 /\ pic[c].cascade = (IF c = "master" THEN 4 ELSE 2)

Deliverable(l) ==
  /\ Programmed("master") /\ Programmed(Chip(l))
  /\ l % 8 \in pic[Chip(l)].irr
  /\ IF l < 8 THEN Above("master", l)
              ELSE Above("slave", l - 8) /\ Above("master", 2)

Acknowledged(l) ==
  LET taken == [pic EXCEPT ![Chip(l)].irr = @ \ {l % 8}, ![Chip(l)].isr = @ \cup {l % 8}]
  IN  IF l < 8 THEN taken ELSE [taken EXCEPT !["master"].isr = @ \cup {2}]

\* A non-specific EOI retires the line of highest priority.
Retire(c) == IF pic[c].isr = {} THEN pic
             ELSE [pic EXCEPT ![c].isr = @ \ {Min(@)}]

Requested(l) == [pic EXCEPT ![Chip(l)].irr = @ \cup {l % 8}]

-----------------------------------------------------------------------------
(* The CPU enters the handler of a vector.  From the user program it takes   *)
(* the stack in the TSS, which is empty then.                                *)

Enterable(v) == /\ "idtr" \in loaded /\ v \in Vectors /\ ValidGate(v)
                /\ ip.prog = User => TssUsable

EnterVector(v, errorCode) ==
  LET back == IF Op = "halt" THEN [ip EXCEPT !.at = @ + 1] ELSE ip
  IN  /\ IF Enterable(v) THEN ip' = Ip(Target(v), 1) ELSE Lost
      /\ stack' = stack \o <<FrameWord(back)>> \o errorCode
      /\ shadow' = Append(shadow, [vector |-> v, ip |-> back, gp |-> gp, seg |-> seg])
      /\ UNCHANGED <<gp, seg, sti, tables, irq_routines, obf>>

Nestable == ip.prog # Wild /\ Len(shadow) < MaxNest

Interrupt(l) ==
  /\ sti /\ Nestable /\ Deliverable(l)
  /\ pic' = Acknowledged(l)
  /\ EnterVector(VectorOf(l), <<>>)

\* int 0x80 of user_api.c, and int 0xB1
SoftwareInterrupt ==
  /\ ip.prog = User /\ Nestable
  /\ \E v \in {128, 177} : EnterVector(v, <<>>)
  /\ UNCHANGED pic

Fault ==
  /\ ip.prog = User /\ Nestable
  /\ \E v \in Faults : EnterVector(v, IF v \in CpuErrorCode THEN <<Number(0)>> ELSE <<>>)
  /\ UNCHANGED pic

\* A device raises its line; the keyboard only while port 0x60 is empty.
Raise ==
  /\ \/ \E l \in Lines \ {1} : pic' = Requested(l) /\ UNCHANGED obf
     \/ ~obf /\ obf' = TRUE /\ pic' = Requested(1)
  /\ UNCHANGED <<cpu, sti, tables, irq_routines>>

-----------------------------------------------------------------------------
(* The instructions of the stubs                                             *)

Push ==
  /\ \/ Op = "push0" /\ stack' = Append(stack, Number(0))
     \/ Op = "pushnum" /\ stack' = Append(stack, Number(ip.prog))
     \/ Op = "pusha" /\ stack' = Append(stack, RegsWord)
     \/ Op = "pushsegs" /\ stack' = Append(stack, SegsWord)
     \/ Op = "pushargs" /\ stack' = stack \o [i \in 1..4 |-> Number(gp[1])]
  /\ Advance
  /\ UNCHANGED <<gp, seg, shadow, sti, tables, pic, irq_routines, obf>>

KernelSegs ==
  /\ Op = "kernelsegs"
  /\ IF DataSegment(16, 0) THEN Advance ELSE Lost
  /\ seg' = 16 /\ gp' = <<16, gp[2]>>
  /\ UNCHANGED <<stack, shadow, sti, tables, pic, irq_routines, obf>>

\* regs->int_no, found under the segment registers and PUSHA
int_no == Peek(3).n

EoiSlaveNever ==           \* mutant: only the master is sent an EOI
  /\ Op = "eoislave"
  /\ Advance
  /\ UNCHANGED <<gp, seg, stack, shadow, sti, tables, pic, irq_routines, obf>>

EoiSlave ==
  /\ Op = "eoislave"
  /\ pic' = IF int_no - 32 >= 8 THEN Retire("slave") ELSE pic
  /\ Advance
  /\ UNCHANGED <<gp, seg, stack, shadow, sti, tables, irq_routines, obf>>

EoiMaster ==
  /\ Op = "eoimaster"
  /\ pic' = Retire("master")
  /\ Advance
  /\ UNCHANGED <<gp, seg, stack, shadow, sti, tables, irq_routines, obf>>

DispatchVector ==          \* mutant: the table is indexed by the vector
  /\ Op = "dispatch"
  /\ obf' = (obf /\ ~(int_no = 1 /\ 1 \in irq_routines))
  /\ gp' = Clobbered
  /\ Advance
  /\ UNCHANGED <<seg, stack, shadow, sti, tables, pic, irq_routines>>

irq_install_handler(irq) ==
  irq_routines' = IF irq \in 0..15 THEN irq_routines \cup {irq} ELSE irq_routines

\* irq_routines[irq](regs): keyboard_handler, the only one, reads the port.
Dispatch ==
  /\ Op = "dispatch"
  /\ obf' = (obf /\ ~(int_no - 32 = 1 /\ 1 \in irq_routines))
  /\ gp' = Clobbered
  /\ Advance
  /\ UNCHANGED <<seg, stack, shadow, sti, tables, pic, irq_routines>>

\* isr_handler halts after a page fault; for int 0xB1 it makes the system call
\* and drops its result.
IsrHandler ==
  /\ Op = "isr"
  /\ ip' = [ip EXCEPT !.at = @ + (IF int_no = 14 THEN 1 ELSE 2)]
  /\ gp' = Clobbered
  /\ UNCHANGED <<seg, stack, shadow, sti, tables, pic, irq_routines, obf>>

SyscallHandler ==
  /\ Op = "syscall"
  /\ gp' = <<SyscallResult, Clobbered[2]>>
  /\ Advance
  /\ UNCHANGED <<seg, stack, shadow, sti, tables, pic, irq_routines, obf>>

\* MOV [esp+28], eax: eax in the image PUSHA left
SetEax ==
  /\ Op = "seteax"
  /\ stack' = IF Peek(1).is = "regs"
              THEN [stack EXCEPT ![Len(stack)].gp[1] = gp[1]] ELSE stack
  /\ Advance
  /\ UNCHANGED <<gp, seg, shadow, sti, tables, pic, irq_routines, obf>>

Drop ==
  /\ \/ Op = "drop2" /\ stack' = Popped(2)
     \/ Op = "drop4" /\ stack' = Popped(4)
  /\ Advance
  /\ UNCHANGED <<gp, seg, shadow, sti, tables, pic, irq_routines, obf>>

PopSegs ==
  /\ Op = "popsegs"
  /\ seg' = Peek(1).n /\ stack' = Popped(1)
  /\ Advance
  /\ UNCHANGED <<gp, shadow, sti, tables, pic, irq_routines, obf>>

PopRegs ==
  /\ Op = "popa"
  /\ gp' = Peek(1).gp /\ stack' = Popped(1)
  /\ Advance
  /\ UNCHANGED <<seg, shadow, sti, tables, pic, irq_routines, obf>>

Iret ==
  /\ Op = "iret"
  /\ ip' = IF Peek(1).is = "frame" THEN Peek(1).ip ELSE Ip(Wild, 0)
  /\ stack' = Popped(1) /\ shadow' = Front(shadow)
  /\ UNCHANGED <<gp, seg, sti, tables, pic, irq_routines, obf>>

StubStep == \/ Push \/ KernelSegs \/ EoiSlave \/ EoiMaster \/ Dispatch
            \/ IsrHandler \/ SyscallHandler \/ SetEax \/ Drop
            \/ PopSegs \/ PopRegs \/ Iret

-----------------------------------------------------------------------------
(* Properties *)

\* Alignment check, control protection, VMM communication and security exception:
\* idt_flush.asm:52-65 declares their stubs ISR_NOERRCODE, but the CPU pushes a code.
Misframed == {17, 21, 29, 30}

\* Every interrupt, exception, system call and return continues in code: the tables
\* hold usable descriptors before anything can use them, and each stub leaves the
\* CPU's frame for its IRET (idt_flush.asm:10-31).  The one way to get lost is the
\* return from one of those four, which takes the error code for its frame.
LostIffMisframed ==
  [][(ip'.prog = Wild /\ ip.prog # Wild)
       <=> (Len(shadow') < Len(shadow) /\ Last(shadow).vector \in Misframed)]_trapVars

\* A handler is invisible to what it interrupts, another handler in the middle
\* of its stub included: IRET restores instruction, registers and segments, but
\* for the result of int 0x80 in eax (k_isr128.asm:20).
ContextRestored ==
  [][Len(shadow') < Len(shadow) /\ Last(shadow).vector \notin Misframed =>
       LET s == Last(shadow)
       IN  /\ ip' = s.ip /\ seg' = s.seg /\ gp'[2] = s.gp[2]
           /\ gp'[1] = IF s.vector = 128 THEN SyscallResult ELSE s.gp[1]]_trapVars

\* Handlers in progress that have not sent their EOI to controller c, with the
\* line of it they occupy: the slave occupies line 2 of the master.
Owes(d, c) ==
  LET v  == shadow[d].vector
      at == IF d = Len(shadow) THEN ip ELSE shadow[d + 1].ip
      op == Stub(at.prog)[at.at]
  IN  /\ v \in (IF c = "master" THEN 32..47 ELSE 40..47)
      /\ op \in {"push0", "pushnum", "pusha", "pushsegs", "kernelsegs", "eoislave"}
                  \cup (IF c = "master" THEN {"eoimaster"} ELSE {})

LineAt(v, c) == IF c = "slave" THEN v - 40 ELSE IF v >= 40 THEN 2 ELSE v - 32

\* Each controller has a line in service exactly while a handler owes it the
\* EOI (interrupts.c:82-83), although EOIs are not specific and handlers nest:
\* no line is blocked for good and none is retired for another.
EoisMatch ==
  ip.prog # Wild =>
    \A c \in {"master", "slave"} :
      pic[c].isr = {LineAt(shadow[d].vector, c) : d \in {d \in DOMAIN shadow : Owes(d, c)}}

\* A scancode does not stay in the controller, which interrupts for the next
\* one only when it has been read (keyboard.c:21): the keyboard never goes dead
\* while the kernel runs.
KeysDrained == obf ~> (~obf \/ ip.prog = Wild)
=============================================================================
