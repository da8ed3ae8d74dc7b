----------------------------- MODULE StartupProofs -----------------------------
EXTENDS Startup, NatLemmas, SequenceTheorems

-----------------------------------------------------------------------------
(* The stubs                                                                 *)

IrqVectors == 32..47

\* The instruction a handler continues with.
Following(v, op) ==
  CASE op = "push0"      -> "pushnum"
    [] op = "pushnum"    -> "pusha"
    [] op = "pusha"      -> IF v = 128 THEN "pushargs" ELSE "pushsegs"
    [] op = "pushsegs"   -> "kernelsegs"
    [] op = "kernelsegs" -> IF v \in IrqVectors THEN "eoislave" ELSE "isr"
    [] op = "eoislave"   -> "eoimaster"
    [] op = "eoimaster"  -> "dispatch"
    [] op = "dispatch"   -> "popsegs"
    [] op = "isr"        -> "halt"
    [] op = "halt"       -> "popsegs"
    [] op = "popsegs"    -> "popa"
    [] op = "popa"       -> IF v = 128 THEN "iret" ELSE "drop2"
    [] op = "drop2"      -> "iret"
    [] op = "pushargs"   -> "syscall"
    [] op = "syscall"    -> "drop4"
    [] op = "drop4"      -> "seteax"
    [] op = "seteax"     -> "popa"
    [] OTHER             -> "none"

\* The exceptions that idt_flush.asm declares ISR_ERRCODE
Coded == {8, 10, 11, 12, 13, 14}

First(v) == IF v = 128 THEN "pusha" ELSE IF v \in Coded THEN "pushnum" ELSE "push0"

SystemOps == {"pusha", "pushargs", "syscall", "drop4", "seteax", "popa", "iret"}
EntryOps(v) == (IF v \in Coded THEN {} ELSE {"push0"}) \cup {"pushnum"}
IrqOps == {"pusha", "pushsegs", "kernelsegs", "eoislave", "eoimaster", "dispatch",
           "popsegs", "popa", "drop2", "iret"}
IsrOps == {"pusha", "pushsegs", "kernelsegs", "isr", "halt", "popsegs", "popa", "drop2", "iret"}
Ops(v) == IF v = 128 THEN SystemOps
          ELSE EntryOps(v) \cup (IF v \in IrqVectors THEN IrqOps ELSE IsrOps)

IrqStub == <<"push0", "pushnum", "pusha", "pushsegs", "kernelsegs", "eoislave", "eoimaster",
             "dispatch", "popsegs", "popa", "drop2", "iret">>
CodeStub == <<"pushnum", "pusha", "pushsegs", "kernelsegs", "isr", "halt", "popsegs", "popa",
              "drop2", "iret">>
PlainStub == <<"push0", "pushnum", "pusha", "pushsegs", "kernelsegs", "isr", "halt",
               "popsegs", "popa", "drop2", "iret">>

LEMMA Concatenation ==
  ASSUME NEW S, NEW s \in Seq(S), NEW t \in Seq(S), NEW r \in Seq(S),
         Len(r) = Len(s) + Len(t), \A i \in 1..Len(s) : r[i] = s[i],
         \A i \in 1..Len(t) : r[Len(s) + i] = t[i]
  PROVE  s \o t = r
<1>1. s \o t \in Seq(S) /\ Len(s \o t) = Len(s) + Len(t)  BY ConcatProperties
<1>2. \A i \in 1..Len(s) + Len(t) : (s \o t)[i] = IF i <= Len(s) THEN s[i] ELSE t[i - Len(s)]
  BY ConcatProperties
<1>3. ASSUME NEW i \in 1..Len(r) PROVE (s \o t)[i] = r[i]
  <2>1. CASE i <= Len(s)  BY <1>2, <2>1
  <2>2. CASE i > Len(s)
    <3>1. i - Len(s) \in 1..Len(t) /\ Len(s) + (i - Len(s)) = i  BY <2>2
    <3> QED BY <1>2, <2>2, <3>1
  <2> QED BY <2>1, <2>2
<1> QED BY <1>1, <1>3, SeqEqual

AllOps == IrqOps \cup IsrOps \cup {"push0", "pushnum"}
Push0 == <<"push0">>
PushNum == <<"pushnum">>
Pushes == <<"push0", "pushnum">>

LEMMA EntryShapes ==
  ASSUME NEW v
  PROVE  Entry(v) = IF v \in Coded THEN PushNum ELSE Pushes
<1>1. CASE v \in Coded
  <2>1. Entry(v) = <<>> \o PushNum  BY <1>1 DEF Entry, Coded, PushNum
  <2>2. PushNum \in Seq(AllOps)  BY DEF PushNum, AllOps
  <2> QED BY <1>1, <2>1, <2>2, ConcatEmptySeq
<1>2. CASE v \notin Coded
  <2>1. Entry(v) = Push0 \o PushNum  BY <1>2 DEF Entry, Coded, PushNum, Push0
  <2>2. Push0 \in Seq(AllOps) /\ PushNum \in Seq(AllOps) /\ Pushes \in Seq(AllOps)
    BY DEF AllOps, Push0, PushNum, Pushes
  <2>3. Len(Pushes) = Len(Push0) + Len(PushNum)  BY DEF Push0, PushNum, Pushes
  <2>4. \A i \in 1..Len(Push0) : Pushes[i] = Push0[i]  BY DEF Push0, Pushes
  <2>5. \A i \in 1..Len(PushNum) : Pushes[Len(Push0) + i] = PushNum[i]
    BY DEF Push0, PushNum, Pushes
  <2>6. Push0 \o PushNum = Pushes
    <3> HIDE DEF Push0, PushNum, Pushes
    <3> QED BY <2>2, <2>3, <2>4, <2>5, Concatenation
  <2> QED BY <1>2, <2>1, <2>6
<1> QED BY <1>1, <1>2

LEMMA IrqShape == Pushes \o irq_common_stub = IrqStub
<1>1. Pushes \in Seq(AllOps) /\ irq_common_stub \in Seq(AllOps) /\ IrqStub \in Seq(AllOps)
  BY DEF AllOps, IrqOps, Pushes, irq_common_stub, IrqStub
<1>2. Len(Pushes) = 2 /\ Len(irq_common_stub) = 10 /\ Len(IrqStub) = 12
  BY DEF Pushes, irq_common_stub, IrqStub
<1>3. \A i \in 1..Len(Pushes) : IrqStub[i] = Pushes[i]
  <2> TAKE i \in 1..Len(Pushes)
  <2>1. i = 1 \/ i = 2  BY <1>2
  <2> QED BY <2>1 DEF Pushes, IrqStub
<1>4. \A i \in 1..Len(irq_common_stub) : IrqStub[Len(Pushes) + i] = irq_common_stub[i]
  <2> TAKE i \in 1..Len(irq_common_stub)
  <2>1. \/ i = 1 \/ i = 2 \/ i = 3 \/ i = 4 \/ i = 5 \/ i = 6 \/ i = 7 \/ i = 8 \/ i = 9
        \/ i = 10
    BY <1>2
  <2> QED BY <1>2, <2>1 DEF irq_common_stub, IrqStub
<1>5. Len(IrqStub) = Len(Pushes) + Len(irq_common_stub)  BY <1>2
<1> QED BY <1>1, <1>3, <1>4, <1>5, Concatenation

LEMMA PlainShape == Pushes \o isr_common_stub = PlainStub
<1>1. Pushes \in Seq(AllOps) /\ isr_common_stub \in Seq(AllOps) /\ PlainStub \in Seq(AllOps)
  BY DEF AllOps, IsrOps, Pushes, isr_common_stub, PlainStub
<1>2. Len(Pushes) = 2 /\ Len(isr_common_stub) = 9 /\ Len(PlainStub) = 11
  BY DEF Pushes, isr_common_stub, PlainStub
<1>3. \A i \in 1..Len(Pushes) : PlainStub[i] = Pushes[i]
  <2> TAKE i \in 1..Len(Pushes)
  <2>1. i = 1 \/ i = 2  BY <1>2
  <2> QED BY <2>1 DEF Pushes, PlainStub
<1>4. \A i \in 1..Len(isr_common_stub) : PlainStub[Len(Pushes) + i] = isr_common_stub[i]
  <2> TAKE i \in 1..Len(isr_common_stub)
  <2>1. \/ i = 1 \/ i = 2 \/ i = 3 \/ i = 4 \/ i = 5 \/ i = 6 \/ i = 7 \/ i = 8 \/ i = 9
    BY <1>2
  <2> QED BY <1>2, <2>1 DEF isr_common_stub, PlainStub
<1>5. Len(PlainStub) = Len(Pushes) + Len(isr_common_stub)  BY <1>2
<1> QED BY <1>1, <1>3, <1>4, <1>5, Concatenation

LEMMA CodeShape == PushNum \o isr_common_stub = CodeStub
<1>1. PushNum \in Seq(AllOps) /\ isr_common_stub \in Seq(AllOps) /\ CodeStub \in Seq(AllOps)
  BY DEF AllOps, IsrOps, PushNum, isr_common_stub, CodeStub
<1>2. Len(PushNum) = 1 /\ Len(isr_common_stub) = 9 /\ Len(CodeStub) = 10
  BY DEF PushNum, isr_common_stub, CodeStub
<1>3. \A i \in 1..Len(PushNum) : CodeStub[i] = PushNum[i]
  BY <1>2 DEF PushNum, CodeStub
<1>4. \A i \in 1..Len(isr_common_stub) : CodeStub[Len(PushNum) + i] = isr_common_stub[i]
  <2> TAKE i \in 1..Len(isr_common_stub)
  <2>1. \/ i = 1 \/ i = 2 \/ i = 3 \/ i = 4 \/ i = 5 \/ i = 6 \/ i = 7 \/ i = 8 \/ i = 9
    BY <1>2
  <2> QED BY <1>2, <2>1 DEF isr_common_stub, CodeStub
<1>5. Len(CodeStub) = Len(PushNum) + Len(isr_common_stub)  BY <1>2
<1> QED BY <1>1, <1>3, <1>4, <1>5, Concatenation

LEMMA StubShapes ==
  ASSUME NEW v
  PROVE  Stub(v) = IF v = 128 THEN isr128 ELSE IF v \in IrqVectors THEN IrqStub
                   ELSE IF v \in Coded THEN CodeStub ELSE PlainStub
<1>1. v \in IrqVectors => v # 128 /\ v \notin Coded
  BY DEF IrqVectors, Coded
<1>2. v = 128 => v \notin Coded  BY DEF Coded
<1>3. Stub(v) = IF v = 128 THEN isr128 ELSE IF v \in IrqVectors THEN Entry(v) \o irq_common_stub
                ELSE Entry(v) \o isr_common_stub
  BY DEF Stub, IrqVectors
<1> QED BY <1>1, <1>2, <1>3, EntryShapes, IrqShape, PlainShape, CodeShape

\* The index of the instruction after the one at i is that of the one it
\* continues with, and only isr_handler may skip one.
LEMMA StubOps ==
  ASSUME NEW v, NEW i \in DOMAIN Stub(v)
  PROVE  /\ DOMAIN Stub(v) = 1..Len(Stub(v)) /\ i \in Nat \ {0}
         /\ Stub(v)[i] \in Ops(v)
         /\ Stub(v)[i] # "iret" => /\ i + 1 \in DOMAIN Stub(v)
                                   /\ Stub(v)[i + 1] = Following(v, Stub(v)[i])
         /\ Stub(v)[i] = "isr" => /\ i + 2 \in DOMAIN Stub(v)
                                  /\ Stub(v)[i + 2] = "popsegs"
<1>1. CASE v = 128
  <2>1. Stub(v) = isr128  BY <1>1, StubShapes
  <2>2. i \in 1..7 /\ DOMAIN Stub(v) = 1..7 /\ Len(Stub(v)) = 7 BY <2>1 DEF isr128
  <2>3. i = 1 \/ i = 2 \/ i = 3 \/ i = 4 \/ i = 5 \/ i = 6 \/ i = 7  BY <2>2
  <2> QED BY <1>1, <2>1, <2>2, <2>3 DEF isr128, Ops, SystemOps, Following
<1>2. CASE v # 128 /\ v \in IrqVectors
  <2>1. Stub(v) = IrqStub  BY <1>2, StubShapes
  <2>2. i \in 1..12 /\ DOMAIN Stub(v) = 1..12 /\ Len(Stub(v)) = 12 BY <2>1 DEF IrqStub
  <2>3. \/ i = 1 \/ i = 2 \/ i = 3 \/ i = 4 \/ i = 5 \/ i = 6 \/ i = 7 \/ i = 8 \/ i = 9
        \/ i = 10 \/ i = 11 \/ i = 12
    BY <2>2
  <2>4. v \notin Coded  BY <1>2 DEF IrqVectors, Coded
  <2> QED BY <1>2, <2>1, <2>2, <2>3, <2>4 DEF IrqStub, Ops, IrqOps, EntryOps, Following
<1>3. CASE v # 128 /\ v \notin IrqVectors /\ v \in Coded
  <2>1. Stub(v) = CodeStub  BY <1>3, StubShapes
  <2>2. i \in 1..10 /\ DOMAIN Stub(v) = 1..10 /\ Len(Stub(v)) = 10 BY <2>1 DEF CodeStub
  <2>3. \/ i = 1 \/ i = 2 \/ i = 3 \/ i = 4 \/ i = 5 \/ i = 6 \/ i = 7 \/ i = 8 \/ i = 9
        \/ i = 10
    BY <2>2
  <2> QED BY <1>3, <2>1, <2>2, <2>3 DEF CodeStub, Ops, IsrOps, EntryOps, Following
<1>4. CASE v # 128 /\ v \notin IrqVectors /\ v \notin Coded
  <2>1. Stub(v) = PlainStub  BY <1>4, StubShapes
  <2>2. i \in 1..11 /\ DOMAIN Stub(v) = 1..11 /\ Len(Stub(v)) = 11 BY <2>1 DEF PlainStub
  <2>3. \/ i = 1 \/ i = 2 \/ i = 3 \/ i = 4 \/ i = 5 \/ i = 6 \/ i = 7 \/ i = 8 \/ i = 9
        \/ i = 10 \/ i = 11
    BY <2>2
  <2> QED BY <1>4, <2>1, <2>2, <2>3 DEF PlainStub, Ops, IsrOps, EntryOps, Following
<1> QED BY <1>1, <1>2, <1>3, <1>4

LEMMA StubFirst ==
  ASSUME NEW v
  PROVE  1 \in DOMAIN Stub(v) /\ Stub(v)[1] = First(v)
<1>1. v \in IrqVectors => v # 128 /\ v \notin Coded
  BY DEF IrqVectors, Coded
<1>2. v = 128 => v \notin Coded  BY DEF Coded
<1> QED BY <1>1, <1>2, StubShapes DEF isr128, IrqStub, CodeStub, PlainStub, First

-----------------------------------------------------------------------------
(* The inductive invariant                                                   *)

Places == [prog : Int, at : Nat]
Regs   == Int \X Int
Items  == [is : {"number", "segs", "regs", "frame"}, n : Int, ip : Places, gp : Regs]
Seen   == [vector : Vectors, ip : Places, gp : Regs, seg : Int]
ChipNames == {"master", "slave"}
Chips  == [base : Int, stage : Int, mask : Int, cascade : Int,
           isr : SUBSET (0..7), irr : SUBSET (0..7)]

CpuTypeOK ==
  /\ ip \in Places /\ gp \in Regs /\ seg \in Int
  /\ stack \in Seq(Items) /\ shadow \in Seq(Seen)
  /\ pic \in [ChipNames -> Chips]

\* How far kernel_main is: the place at the bottom of the handlers.
Bottom == IF shadow = <<>> THEN ip ELSE shadow[1].ip

Past(k) == Bottom.prog = User \/ Bottom.at > k

\* What kernel_main has set up so far, in the order that interrupts rely on.
SetUp ==
  /\ Bottom.prog = User \/ (Bottom.prog = Main /\ Bottom.at \in 1..14)
  /\ Past(3) => gdt = gdt_entries /\ tss = write_tss
  /\ Past(5) => "tr" \in loaded
  /\ Past(6) => /\ Programmed("master") /\ Programmed("slave")
                /\ pic["master"].base = 32 /\ pic["slave"].base = 40
  /\ Past(7) => idt = idt_entries
  /\ Past(8) => "idtr" \in loaded
  /\ sti => Past(9)
  /\ shadow # <<>> => Past(9)

\* Words on the stack since a handler of vector v began, by its next instruction
Height(v, op) ==
  CASE op = "iret" -> 1
    [] op = "push0" -> 1
    [] op = "pushnum" -> 2
    [] op = "pusha" -> IF v = 128 THEN 1 ELSE 3
    [] op = "pushsegs" -> 4
    [] op = "pushargs" -> 2
    [] op \in {"syscall", "drop4"} -> 6
    [] op = "seteax" -> 2
    [] op = "popa" -> IF v = 128 THEN 2 ELSE 4
    [] op = "drop2" -> 3
    [] OTHER -> 5

\* A handler that the stubs of idt_flush.asm entered for what s describes: it goes
\* on with op and the registers of n, and its words are behind the first lo of the
\* stack st.
Ordinary(s, op, n, st, lo) ==
  LET h == Height(s.vector, op)
  IN  /\ h >= 3 => st[lo + 3].n = s.vector
      /\ h >= 4 => st[lo + 4].gp = s.gp
      /\ h >= 5 => st[lo + 5].n = s.seg
      /\ op \in {"push0", "pushnum", "pusha", "drop2", "iret"} => n.gp = s.gp
      /\ op \in {"push0", "pushnum", "pusha", "pushsegs", "popa", "drop2", "iret"} =>
           n.seg = s.seg

\* The same of isr128.
System(s, op, n, st, lo) ==
  /\ n.seg = s.seg
  /\ op = "pusha" => n.gp = s.gp
  /\ op \in {"pushargs", "syscall", "drop4", "seteax"} =>
       st[lo + 2].is = "regs" /\ st[lo + 2].gp = s.gp
  /\ op \in {"drop4", "seteax"} => n.gp[1] = SyscallResult
  /\ op = "popa" => st[lo + 2].gp = <<SyscallResult, s.gp[2]>>
  /\ op = "iret" => n.gp = <<SyscallResult, s.gp[2]>>

Suits(s, op, n, st, lo) ==
  IF s.vector = 128 THEN System(s, op, n, st, lo) ELSE Ordinary(s, op, n, st, lo)

OpAt(p) == Stub(p.prog)[p.at]

\* It goes on at n.ip, and its words end at hi.
Works(s, n, st, lo, hi) ==
  /\ n.ip.prog = s.vector /\ n.ip.at \in DOMAIN Stub(s.vector)
  /\ hi = lo + Height(s.vector, OpAt(n.ip))
  /\ s.vector \notin IrqVectors => s.ip.prog = User
  /\ Suits(s, OpAt(n.ip), n, st, lo)

\* Under the words of a misframed handler there is an error code more than its stub
\* knows of.
Under(s, lo) == IF s.vector \in Misframed THEN lo + 1 ELSE lo

\* All of its words, with the frame of the CPU.
Holds(s, n, st, lo, hi) ==
  /\ st[lo + 1].is = "frame" /\ st[lo + 1].ip = s.ip
  /\ s.vector \in Misframed => st[lo + 2].is = "number"
  /\ Works(s, n, st, Under(s, lo), hi)

\* What handler d of sh goes on with, when the innermost one goes on with n
GoesOn(sh, n, d) == IF d = Len(sh) THEN n ELSE sh[d + 1]

\* b tells where on the stack the words of each handler begin.
LaidOut(sh, n, st, b) ==
  /\ b \in [1..Len(sh) + 1 -> Nat]
  /\ b[1] = 0 /\ b[Len(sh) + 1] = Len(st)
  /\ \A d, e \in 1..Len(sh) + 1 : d <= e => b[d] <= b[e]
  /\ \A d \in 1..Len(sh) : Holds(sh[d], GoesOn(sh, n, d), st, b[d], b[d + 1])

Now == [ip |-> ip, gp |-> gp, seg |-> seg]
Laid == \E b : LaidOut(shadow, Now, stack, b)

\* Handlers of sh that owe controller c an EOI when the innermost one is at p
OwesAt(v, p, c) ==
  /\ v \in (IF c = "master" THEN 32..47 ELSE 40..47)
  /\ OpAt(p) \in {"push0", "pushnum", "pusha", "pushsegs", "kernelsegs", "eoislave"}
                   \cup (IF c = "master" THEN {"eoimaster"} ELSE {})
NextIp(sh, p, d) == IF d = Len(sh) THEN p ELSE sh[d + 1].ip
Owing(sh, p, c) == {d \in DOMAIN sh : OwesAt(sh[d].vector, NextIp(sh, p, d), c)}

\* They have lines of higher and higher priority, the innermost one the highest,
\* and these are the lines in service.
EoiFor(sh, p, c, isr) ==
  /\ isr = {LineAt(sh[d].vector, c) : d \in Owing(sh, p, c)}
  /\ \A d, e \in Owing(sh, p, c) :
       d < e => LineAt(sh[e].vector, c) < LineAt(sh[d].vector, c)

EoiInv == \A c \in ChipNames : EoiFor(shadow, ip, c, pic[c].isr)

StartInv == CpuTypeOK /\ SetUp /\ Laid /\ EoiInv

-----------------------------------------------------------------------------
(* The tables                                                                *)

LEMMA Flags ==
  /\ 65535 % 16 = 15 /\ 65535 % 256 = 255 /\ 65535 \div 256 = 255
  /\ OrBit(65535, 207, 16) = 16 /\ OrBit(65535, 207, 32) = 32
  /\ OrBit(65535, 207, 64) = 64 /\ OrBit(65535, 207, 128) = 128
  /\ OrBit(0, 0, 16) = 0 /\ OrBit(0, 0, 32) = 0 /\ OrBit(0, 0, 64) = 0 /\ OrBit(0, 0, 128) = 0
  BY DEF OrBit

\* The four descriptors of flat segments differ in their access byte.
LEMMA FlatGate ==
  ASSUME NEW access, NEW d, d = set_gdt_gate(ZeroLong, Ones, access, 207)
  PROVE  FlatSegment(d) /\ d.access = access
<1>1. /\ d.base_low = 0 /\ d.base_middle = 0 % 256 /\ d.base_high = 0 \div 256
      /\ d.limit = 65535 /\ d.access = access
      /\ d.flags = (65535 % 16) + OrBit(65535, 207, 16) + OrBit(65535, 207, 32)
                     + OrBit(65535, 207, 64) + OrBit(65535, 207, 128)
  BY DEF set_gdt_gate, ZeroLong, Ones, Long
<1>2. 0 % 256 = 0 /\ 0 \div 256 = 0  OBVIOUS
<1>3. 15 + 16 + 32 + 64 + 128 = 255 /\ 255 % 16 = 15 /\ 255 \div 64 = 3  OBVIOUS
<1>4. d.flags = 255  BY <1>1, <1>3, Flags
<1> QED BY <1>1, <1>2, <1>3, <1>4 DEF FlatSegment

LEMMA CodeReady ==
  ASSUME NEW d, NEW sel, NEW ring, d = Selected(sel), FlatSegment(d), d.access >= 128,
         d.access % 32 = 26, (d.access \div 32) % 4 = ring
  PROVE  CodeSegment(sel, ring)
  BY DEF CodeSegment, Present, Privilege

LEMMA DataReady ==
  ASSUME NEW d, NEW sel, NEW ring, d = Selected(sel), FlatSegment(d), d.access >= 128,
         d.access % 32 = 18, (d.access \div 32) % 4 = ring
  PROVE  DataSegment(sel, ring)
  BY DEF DataSegment, Present, Privilege

LEMMA SegmentsUsable ==
  ASSUME gdt = gdt_entries
  PROVE  /\ CodeSegment(8, 0) /\ CodeSegment(27, 3)
         /\ DataSegment(16, 0) /\ DataSegment(35, 3)
<1>1. /\ gdt[1] = set_gdt_gate(ZeroLong, Ones, 154, 207)
      /\ gdt[2] = set_gdt_gate(ZeroLong, Ones, 146, 207)
      /\ gdt[3] = set_gdt_gate(ZeroLong, Ones, 250, 207)
      /\ gdt[4] = set_gdt_gate(ZeroLong, Ones, 242, 207)
  BY DEF gdt_entries
<1>2. /\ FlatSegment(gdt[1]) /\ gdt[1].access = 154
      /\ FlatSegment(gdt[2]) /\ gdt[2].access = 146
      /\ FlatSegment(gdt[3]) /\ gdt[3].access = 250
      /\ FlatSegment(gdt[4]) /\ gdt[4].access = 242
  BY <1>1, FlatGate
<1>3. /\ 8 \div 8 = 1 /\ 16 \div 8 = 2 /\ 27 \div 8 = 3 /\ 35 \div 8 = 4  OBVIOUS
<1>4. /\ gdt[1] = Selected(8) /\ gdt[2] = Selected(16)
      /\ gdt[3] = Selected(27) /\ gdt[4] = Selected(35)
  BY <1>3 DEF Selected
<1>5. /\ 154 % 32 = 26 /\ 146 % 32 = 18 /\ 250 % 32 = 26 /\ 242 % 32 = 18
      /\ (154 \div 32) % 4 = 0 /\ (146 \div 32) % 4 = 0
      /\ (250 \div 32) % 4 = 3 /\ (242 \div 32) % 4 = 3
  OBVIOUS
<1>6. CodeSegment(8, 0)  BY <1>2, <1>4, <1>5, CodeReady
<1>7. CodeSegment(27, 3)  BY <1>2, <1>4, <1>5, CodeReady
<1>8. DataSegment(16, 0)  BY <1>2, <1>4, <1>5, DataReady
<1>9. DataSegment(35, 3)  BY <1>2, <1>4, <1>5, DataReady
<1> QED BY <1>6, <1>7, <1>8, <1>9

LEMMA TssReady ==
  ASSUME TrapsAssumption, gdt = gdt_entries, tss = write_tss, "tr" \in loaded
  PROVE  TssUsable
<1>1. PICK d : d = set_gdt_gate(TssAddress, Long(0, 107), 137, 0)  OBVIOUS
<1>2. /\ d.base_low = TssAddress.lo /\ d.base_middle = TssAddress.hi % 256
      /\ d.base_high = TssAddress.hi \div 256 /\ d.limit = 107 /\ d.access = 137
      /\ d.flags = (0 % 16) + OrBit(0, 0, 16) + OrBit(0, 0, 32)
                     + OrBit(0, 0, 64) + OrBit(0, 0, 128)
  BY <1>1 DEF set_gdt_gate, Long
<1>3. Selected(43) = d
  <2>1. 43 \div 8 = 5  OBVIOUS
  <2> QED BY <1>1, <2>1 DEF gdt_entries, Selected
<1>4. 256 * d.base_high + d.base_middle = TssAddress.hi
  <2>1. TssAddress.hi \in Nat  BY DEF TrapsAssumption, Half
  <2> QED BY <1>2, <2>1, Z3
<1>5. Long(256 * d.base_high + d.base_middle, d.base_low) = TssAddress
  <2>1. TssAddress = [hi |-> TssAddress.hi, lo |-> TssAddress.lo]  BY DEF TrapsAssumption
  <2> QED BY <1>2, <1>4, <2>1 DEF Long
<1>6. d.flags % 16 = 0
  <2>1. 0 % 16 = 0  OBVIOUS
  <2> QED BY <1>2, <2>1, Flags
<1>7. 137 % 32 = 9 /\ 137 >= 128 /\ 107 >= 103  OBVIOUS
<1>8. DataSegment(tss.ss0, 0) /\ tss.esp0 = "kernel_stack"  BY SegmentsUsable DEF write_tss
<1> QED BY <1>2, <1>3, <1>5, <1>6, <1>7, <1>8 DEF TssUsable, Present

LEMMA VectorFacts ==
  ASSUME TrapsAssumption
  PROVE  /\ Vectors \subseteq Nat /\ 128 \in Vectors /\ 177 \in Vectors
         /\ Faults \subseteq Vectors /\ \A l \in Lines : 32 + l \in Vectors /\ l \in 0..15
         /\ Faults \subseteq 0..31 /\ 1 \in Lines
         /\ \A v \in Vectors : v \in IrqVectors => v - 32 \in Lines
<1>1. Lines \subseteq 0..15 /\ Faults \subseteq 0..31 /\ 1 \in Lines  BY DEF TrapsAssumption
<1>2. ASSUME NEW v \in Vectors PROVE v \in Nat /\ (v \in IrqVectors => v - 32 \in Lines)
  <2>1. CASE v \in Faults  BY <1>1, <2>1 DEF IrqVectors
  <2>2. CASE v \in {32 + l : l \in Lines}
    <3>1. PICK l \in Lines : v = 32 + l  BY <2>2
    <3>2. l \in 0..15  BY <1>1
    <3>3. v - 32 = l  BY <3>1, <3>2
    <3> QED BY <3>1, <3>2, <3>3
  <2>3. CASE v = 128 \/ v = 177  BY <2>3 DEF IrqVectors
  <2> QED BY <2>1, <2>2, <2>3 DEF Vectors
<1>3. \A l \in Lines : 32 + l \in Vectors /\ l \in 0..15  BY <1>1 DEF Vectors
<1>4. 128 \in Vectors /\ 177 \in Vectors /\ Faults \subseteq Vectors  BY DEF Vectors
<1> QED BY <1>1, <1>2, <1>3, <1>4

LEMMA GateReady ==
  ASSUME TrapsAssumption, gdt = gdt_entries, idt = idt_entries, NEW v \in Vectors
  PROVE  ValidGate(v) /\ Target(v) = v
<1>1. idt[v] = set_idt_gate(StubAddress(v), 8, 239)  BY DEF idt_entries
<1>2. Long(idt[v].base_high, idt[v].base_low) = StubAddress(v)
  BY <1>1 DEF set_idt_gate, StubAddress, Long
<1>3. ASSUME NEW w \in Vectors, StubAddress(w) = StubAddress(v) PROVE w = v
  <2>1. v \in Nat /\ w \in Nat  BY VectorFacts
  <2>2. StubAddress(w).lo = 4096 + 16 * w /\ StubAddress(v).lo = 4096 + 16 * v
    BY DEF StubAddress, Long
  <2> QED BY <1>3, <2>1, <2>2
<1>4. 239 >= 128 /\ 239 % 32 = 15  OBVIOUS
<1>5. idt[v].flags = 239 /\ idt[v].sel = 8  BY <1>1 DEF set_idt_gate
<1>6. ValidGate(v)  BY <1>2, <1>4, <1>5, SegmentsUsable DEF ValidGate
<1>7. Target(v) = v  BY <1>2, <1>3 DEF Target
<1> QED BY <1>6, <1>7

-----------------------------------------------------------------------------
(* The words of the handlers                                                 *)

LEMMA Heights ==
  ASSUME NEW v, NEW op
  PROVE  /\ Height(v, op) \in 1..6
         /\ v = 128 /\ op \in {"pushargs", "syscall", "drop4", "seteax", "popa"}
              => Height(v, op) >= 2
  BY DEF Height

LEMMA WorksLocal ==
  ASSUME NEW s, NEW n, NEW st, NEW st2, NEW lo \in Nat, NEW hi, Works(s, n, st, lo, hi),
         \A i \in 1..hi : st2[i] = st[i]
  PROVE  Works(s, n, st2, lo, hi)
<1> DEFINE op == OpAt(n.ip)
           h  == Height(s.vector, op)
<1>1. h \in 1..6 /\ hi = lo + h  BY Heights DEF Works
<1>2. \A k \in 1..6 : k <= h => st2[lo + k] = st[lo + k]  BY <1>1
<1>4. CASE s.vector = 128
  <2>1. op \in {"pushargs", "syscall", "drop4", "seteax", "popa"} => st2[lo + 2] = st[lo + 2]
    BY <1>1, <1>2, <1>4, Heights
  <2>2. System(s, op, n, st, lo)  BY <1>4 DEF Works, Suits
  <2>3. System(s, op, n, st2, lo)
    <3> HIDE DEF op
    <3> QED BY <2>1, <2>2 DEF System
  <2> QED BY <1>4, <2>3 DEF Works, Suits
<1>5. CASE s.vector # 128
  <2>1. Ordinary(s, op, n, st, lo)  BY <1>5 DEF Works, Suits
  <2>2. /\ h >= 3 => st2[lo + 3] = st[lo + 3]
        /\ h >= 4 => st2[lo + 4] = st[lo + 4]
        /\ h >= 5 => st2[lo + 5] = st[lo + 5]
    BY <1>1, <1>2
  <2>3. Ordinary(s, op, n, st2, lo)
    <3> HIDE DEF op
    <3> QED BY <2>1, <2>2 DEF Ordinary, h
  <2> QED BY <1>5, <2>3 DEF Works, Suits
<1> QED BY <1>4, <1>5

LEMMA UnderFacts ==
  ASSUME NEW s, NEW n, NEW st, NEW lo \in Nat, NEW hi, Holds(s, n, st, lo, hi)
  PROVE  /\ Under(s, lo) \in Nat /\ hi \in Nat /\ Works(s, n, st, Under(s, lo), hi)
         /\ Under(s, lo) = IF s.vector \in Misframed THEN lo + 1 ELSE lo
         /\ Under(s, lo) + 1 <= hi
<1>1. PICK h \in 1..6 : h = Height(s.vector, OpAt(n.ip))  BY Heights
<1>2. hi = Under(s, lo) + h /\ Works(s, n, st, Under(s, lo), hi)
  BY <1>1 DEF Holds, Works
<1> QED BY <1>1, <1>2 DEF Under

\* A handler depends on no word but its own.
LEMMA HoldsLocal ==
  ASSUME NEW s, NEW n, NEW st, NEW st2, NEW lo \in Nat, NEW hi, Holds(s, n, st, lo, hi),
         \A i \in 1..hi : st2[i] = st[i]
  PROVE  Holds(s, n, st2, lo, hi)
<1>1. /\ Under(s, lo) \in Nat /\ hi \in Nat /\ Works(s, n, st, Under(s, lo), hi)
      /\ Under(s, lo) = IF s.vector \in Misframed THEN lo + 1 ELSE lo
      /\ Under(s, lo) + 1 <= hi
  BY UnderFacts
<1>2. Works(s, n, st2, Under(s, lo), hi)
  <2> HIDE DEF Under
  <2> QED BY <1>1, WorksLocal
<1>3. st2[lo + 1] = st[lo + 1] /\ (s.vector \in Misframed => st2[lo + 2] = st[lo + 2])
  BY <1>1
<1> QED BY <1>2, <1>3 DEF Holds

\* Nor on more of what it goes on with than place and registers.
LEMMA HoldsSame ==
  ASSUME NEW s, NEW n, NEW n2, NEW st, NEW lo, NEW hi, Holds(s, n, st, lo, hi),
         n2.ip = n.ip, n2.gp = n.gp, n2.seg = n.seg
  PROVE  Holds(s, n2, st, lo, hi)
  BY DEF Holds, Works, Suits, System, Ordinary

LEMMA LaidOutFacts ==
  ASSUME NEW sh \in Seq(Seen), NEW n, NEW st \in Seq(Items), NEW b, LaidOut(sh, n, st, b)
  PROVE  /\ Len(sh) \in Nat /\ Len(st) \in Nat /\ DOMAIN sh = 1..Len(sh)
         /\ \A d \in 1..Len(sh) + 1 : b[d] \in Nat /\ b[d] <= Len(st)
         /\ sh # <<>> => Len(sh) \in 1..Len(sh) /\ Len(sh) + 1 \in 1..Len(sh) + 1
<1>1. Len(sh) \in Nat /\ Len(st) \in Nat /\ DOMAIN sh = 1..Len(sh)  BY LenProperties
<1>2. \A d \in 1..Len(sh) + 1 : b[d] \in Nat /\ b[d] <= Len(st)
  BY ONLY <1>1, LaidOut(sh, n, st, b), SMTT(20) DEF LaidOut
<1>3. sh # <<>> => Len(sh) # 0  BY EmptySeq
<1> QED BY <1>1, <1>2, <1>3

\* The innermost handler does something with its own words.
LEMMA LayTop ==
  ASSUME NEW sh \in Seq(Seen), NEW n, NEW st \in Seq(Items), NEW b, LaidOut(sh, n, st, b),
         sh # <<>>, NEW n2, NEW st2 \in Seq(Items),
         Holds(sh[Len(sh)], n2, st2, b[Len(sh)], Len(st2)),
         \A i \in 1..b[Len(sh)] : st2[i] = st[i]
  PROVE  \E c : LaidOut(sh, n2, st2, c)
<1> DEFINE L == Len(sh)
           c == [b EXCEPT ![L + 1] = Len(st2)]
<1>1. /\ L \in Nat \ {0} /\ Len(st) \in Nat /\ Len(st2) \in Nat
      /\ \A d \in 1..L + 1 : b[d] \in Nat
  <2>1. Len(st2) \in Nat  BY LenProperties
  <2>2. /\ Len(sh) \in Nat /\ Len(st) \in Nat /\ Len(sh) \in 1..Len(sh)
        /\ \A d \in 1..Len(sh) + 1 : b[d] \in Nat
    BY LaidOutFacts
  <2> QED BY <2>1, <2>2
<1>2. b \in [1..L + 1 -> Nat] /\ b[1] = 0  BY DEF LaidOut
<1>3. /\ c \in [1..L + 1 -> Nat] /\ c[L + 1] = Len(st2)
      /\ \A d \in 1..L : c[d] = b[d]
  BY <1>1, <1>2
<1>4. b[L] \in Nat /\ b[L] <= Len(st2)
  <2>1. b[L] \in Nat  BY <1>1
  <2>2. /\ Under(sh[L], b[L]) = IF sh[L].vector \in Misframed THEN b[L] + 1 ELSE b[L]
        /\ Under(sh[L], b[L]) + 1 <= Len(st2)
    BY <2>1, UnderFacts
  <2>3. Len(st2) \in Nat  BY <1>1
  <2> QED BY <2>1, <2>2, <2>3
<1>5. \A d, e \in 1..L + 1 : d <= e => b[d] <= b[e]  BY DEF LaidOut
<1>6. ASSUME NEW d \in 1..L + 1, NEW e \in 1..L + 1, d <= e PROVE c[d] <= c[e]
  <2>1. CASE e <= L
    <3>1. d \in 1..L /\ e \in 1..L  BY <1>1, <1>6, <2>1
    <3> QED BY <1>3, <1>5, <1>6, <3>1
  <2>2. CASE e = L + 1 /\ d <= L
    <3>1. d \in 1..L /\ L \in 1..L + 1 /\ d <= L  BY <1>1, <2>2
    <3>2. c[d] = b[d] /\ c[e] = Len(st2)  BY <1>3, <2>2, <3>1
    <3>3. b[d] <= b[L] /\ b[d] \in Nat  BY <1>1, <1>5, <3>1
    <3> QED BY <1>1, <1>4, <3>2, <3>3
  <2>3. CASE e = L + 1 /\ d = L + 1  BY <1>1, <1>3, <2>3
  <2> QED BY <1>1, <1>6, <2>1, <2>2, <2>3
<1>7. ASSUME NEW d \in 1..L PROVE Holds(sh[d], GoesOn(sh, n2, d), st2, c[d], c[d + 1])
  <2>1. CASE d = L
    <3>1. c[d] = b[L] /\ c[d + 1] = Len(st2) /\ GoesOn(sh, n2, d) = n2
      BY <1>3, <1>1, <2>1 DEF GoesOn
    <3> QED BY <2>1, <3>1
  <2>2. CASE d # L
    <3>1. d + 1 \in 1..L /\ d \in 1..L + 1 /\ d + 1 <= L /\ L \in 1..L + 1 /\ d + 1 \in 1..L + 1
      BY <1>1, <2>2
    <3>2. c[d] = b[d] /\ c[d + 1] = b[d + 1] /\ b[d] \in Nat /\ b[d + 1] \in Nat
      BY <1>1, <1>3, <3>1
    <3>3. b[d + 1] <= b[L]  BY <1>5, <3>1
    <3>4. Holds(sh[d], GoesOn(sh, n, d), st, b[d], b[d + 1])  BY DEF LaidOut
    <3>5. GoesOn(sh, n2, d) = GoesOn(sh, n, d)  BY <2>2 DEF GoesOn
    <3>6. ASSUME NEW i \in 1..b[d + 1] PROVE st2[i] = st[i]
      <4>1. i \in 1..b[L]  BY <1>4, <3>2, <3>3
      <4> QED BY <4>1
    <3>7. Holds(sh[d], GoesOn(sh, n, d), st2, b[d], b[d + 1])
      BY <3>2, <3>4, <3>6, HoldsLocal
    <3> QED BY <3>2, <3>5, <3>7
  <2> QED BY <2>1, <2>2
<1>8. c[1] = 0  BY <1>1, <1>2, <1>3
<1> HIDE DEF c
<1> QED BY <1>3, <1>6, <1>7, <1>8 DEF LaidOut

\* A handler begins; what it interrupted will go on with s.
LEMMA LayNew ==
  ASSUME NEW sh \in Seq(Seen), NEW n, NEW st \in Seq(Items), NEW b, LaidOut(sh, n, st, b),
         NEW s \in Seen, NEW n2, NEW st2 \in Seq(Items),
         sh # <<>> => Holds(sh[Len(sh)], s, st, b[Len(sh)], Len(st)),
         Holds(s, n2, st2, Len(st), Len(st2)),
         \A i \in 1..Len(st) : st2[i] = st[i]
  PROVE  \E c : LaidOut(Append(sh, s), n2, st2, c)
<1> DEFINE L == Len(sh)
           t == Append(sh, s)
           c == [d \in 1..L + 2 |-> IF d <= L + 1 THEN b[d] ELSE Len(st2)]
<1>1. /\ L \in Nat /\ Len(st) \in Nat /\ Len(st2) \in Nat
      /\ \A d \in 1..L + 1 : b[d] \in Nat /\ b[d] <= Len(st)
  BY LaidOutFacts, LenProperties
<1>2. /\ Len(t) = L + 1 /\ t[L + 1] = s /\ \A d \in 1..L : t[d] = sh[d]
  BY AppendProperties
<1>3. b[1] = 0 /\ b[L + 1] = Len(st)  BY DEF LaidOut
<1>4. /\ c \in [1..L + 2 -> Nat] /\ c[L + 2] = Len(st2)
      /\ \A d \in 1..L + 1 : c[d] = b[d]
  BY <1>1
<1>5. Len(st) <= Len(st2)
  <2>1. /\ Under(s, Len(st)) = IF s.vector \in Misframed THEN Len(st) + 1 ELSE Len(st)
        /\ Under(s, Len(st)) + 1 <= Len(st2)
    BY <1>1, UnderFacts
  <2> QED BY <1>1, <2>1
<1>6. \A d, e \in 1..L + 1 : d <= e => b[d] <= b[e]  BY DEF LaidOut
<1>7. ASSUME NEW d \in 1..L + 2, NEW e \in 1..L + 2, d <= e PROVE c[d] <= c[e]
  <2>1. CASE e <= L + 1
    <3>1. d \in 1..L + 1 /\ e \in 1..L + 1  BY <1>1, <1>7, <2>1
    <3> QED BY <1>4, <1>6, <1>7, <3>1
  <2>2. CASE e = L + 2 /\ d <= L + 1
    <3>1. d \in 1..L + 1  BY <1>1, <2>2
    <3>2. c[d] = b[d] /\ c[e] = Len(st2)  BY <1>4, <2>2, <3>1
    <3> QED BY <1>1, <1>5, <3>1, <3>2
  <2>3. CASE e = L + 2 /\ d = L + 2  BY <1>1, <1>4, <2>3
  <2> QED BY <1>1, <1>7, <2>1, <2>2, <2>3
<1>8. ASSUME NEW d \in 1..L + 1 PROVE Holds(t[d], GoesOn(t, n2, d), st2, c[d], c[d + 1])
  <2>1. CASE d = L + 1
    <3>1. c[d] = Len(st) /\ c[d + 1] = Len(st2) /\ GoesOn(t, n2, d) = n2 /\ t[d] = s
      <4>1. d + 1 = L + 2  BY <1>1, <2>1
      <4> QED BY <1>1, <1>2, <1>3, <1>4, <2>1, <4>1 DEF GoesOn
    <3> QED BY <3>1
  <2>2. CASE d = L
    <3>1. L \in 1..L /\ L + 1 \in 1..L + 1 /\ sh # <<>> /\ d + 1 = L + 1 /\ L \in 1..L + 1
      BY <1>1, <2>2, EmptySeq
    <3>2. c[d] = b[L] /\ c[d + 1] = Len(st)  BY <1>3, <1>4, <2>2, <3>1
    <3>3. GoesOn(t, n2, d) = s  BY <1>1, <1>2, <2>2, <3>1 DEF GoesOn
    <3>4. t[d] = sh[L]  BY <1>2, <2>2, <3>1
    <3>5. Holds(sh[L], s, st2, b[L], Len(st))
      <4>1. Holds(sh[L], s, st, b[L], Len(st)) /\ b[L] \in Nat  BY <1>1, <3>1
      <4> QED BY <4>1, HoldsLocal
    <3> QED BY <3>2, <3>3, <3>4, <3>5
  <2>3. CASE d # L /\ d # L + 1
    <3>1. d \in 1..L /\ d + 1 \in 1..L /\ d \in 1..L + 1 /\ d + 1 \in 1..L + 1  BY <1>1, <2>3
    <3>2. c[d] = b[d] /\ c[d + 1] = b[d + 1] /\ b[d] \in Nat /\ b[d + 1] \in Nat
          /\ b[d + 1] <= Len(st)
      BY <1>1, <1>4, <3>1
    <3>3. Holds(sh[d], GoesOn(sh, n, d), st, b[d], b[d + 1])  BY <3>1 DEF LaidOut
    <3>4. GoesOn(t, n2, d) = GoesOn(sh, n, d) /\ t[d] = sh[d]
      BY <1>1, <1>2, <2>3, <3>1 DEF GoesOn
    <3>5. \A i \in 1..b[d + 1] : st2[i] = st[i]  BY <1>1, <3>2
    <3>6. Holds(sh[d], GoesOn(sh, n, d), st2, b[d], b[d + 1])  BY <3>2, <3>3, <3>5, HoldsLocal
    <3> QED BY <3>2, <3>4, <3>6
  <2> QED BY <2>1, <2>2, <2>3
<1>9. c[1] = 0  BY <1>1, <1>3, <1>4
<1> HIDE DEF c, t
<1>10. c \in [1..Len(t) + 1 -> Nat] /\ c[Len(t) + 1] = Len(st2)
  <2>1. Len(t) + 1 = L + 2  BY <1>1, <1>2
  <2> QED BY <1>4, <2>1
<1>11. \A d, e \in 1..Len(t) + 1 : d <= e => c[d] <= c[e]
  <2>1. Len(t) + 1 = L + 2  BY <1>1, <1>2
  <2> QED BY <1>7, <2>1
<1>12. LaidOut(t, n2, st2, c)  BY <1>2, <1>8, <1>9, <1>10, <1>11 DEF LaidOut
<1> QED BY <1>12 DEF t

LEMMA FrontFacts ==
  ASSUME NEW S, NEW s \in Seq(S), s # <<>>
  PROVE  /\ Front(s) \in Seq(S) /\ Len(Front(s)) = Len(s) - 1
         /\ \A i \in 1..Len(s) - 1 : Front(s)[i] = s[i]
<1>1. Len(s) \in Nat \ {0}  BY EmptySeq, LenProperties
<1>2. \A i \in 1..Len(s) - 1 : s[i] \in S  BY <1>1, ElementOfSeq
<1>3. Len(s) - 1 \in Int /\ 1 \in Int  BY <1>1
<1>4. /\ SubSeq(s, 1, Len(s) - 1) \in Seq(S)
      /\ Len(SubSeq(s, 1, Len(s) - 1)) = IF 1 <= Len(s) - 1 THEN (Len(s) - 1) - 1 + 1 ELSE 0
      /\ \A i \in 1..(Len(s) - 1) - 1 + 1 : SubSeq(s, 1, Len(s) - 1)[i] = s[1 + i - 1]
  BY <1>2, <1>3, SubSeqProperties
<1>5. SubSeq(s, 1, Len(s) - 1) = Front(s)  BY DEF Front
<1>6. \A i \in 1..Len(s) - 1 : i \in 1..(Len(s) - 1) - 1 + 1 /\ 1 + i - 1 = i  BY <1>1
<1>7. (IF 1 <= Len(s) - 1 THEN (Len(s) - 1) - 1 + 1 ELSE 0) = Len(s) - 1
  <2>1. PICK k \in Nat \ {0} : k = Len(s)  BY <1>1
  <2>2. (IF 1 <= k - 1 THEN (k - 1) - 1 + 1 ELSE 0) = k - 1  BY <2>1
  <2> QED BY <2>1, <2>2
<1> QED BY <1>4, <1>5, <1>6, <1>7

\* The innermost handler has given back its words and what it had saved.
Ended(sh, b, n2, st, st2) ==
  /\ Len(st2) = b[Len(sh)] /\ \A i \in 1..Len(st2) : st2[i] = st[i]
  /\ Len(sh) > 1 => /\ n2.ip = sh[Len(sh)].ip /\ n2.gp = sh[Len(sh)].gp
                    /\ n2.seg = sh[Len(sh)].seg

\* The innermost handler ends, and what it interrupted goes on as it was.
LEMMA LayEnd ==
  ASSUME NEW sh \in Seq(Seen), NEW n, NEW st \in Seq(Items), NEW b, LaidOut(sh, n, st, b),
         sh # <<>>, NEW n2, NEW st2 \in Seq(Items), Ended(sh, b, n2, st, st2)
  PROVE  \E c : LaidOut(Front(sh), n2, st2, c)
<1> USE DEF Ended
<1> DEFINE L == Len(sh)
           t == Front(sh)
           c == [d \in 1..L |-> b[d]]
<1>1. /\ L \in Nat \ {0} /\ Len(st) \in Nat /\ Len(st2) \in Nat
      /\ \A d \in 1..L + 1 : b[d] \in Nat /\ b[d] <= Len(st)
  BY LaidOutFacts, LenProperties
<1>2. Len(t) = L - 1 /\ \A d \in 1..L - 1 : t[d] = sh[d]  BY FrontFacts
<1>3. /\ c \in [1..L -> Nat] /\ \A d \in 1..L : c[d] = b[d]  BY <1>1
<1>4. \A d, e \in 1..L + 1 : d <= e => b[d] <= b[e]  BY DEF LaidOut
<1>5. ASSUME NEW d \in 1..L - 1 PROVE Holds(t[d], GoesOn(t, n2, d), st2, c[d], c[d + 1])
  <2>1. d \in 1..L /\ d + 1 \in 1..L /\ d + 1 \in 1..L + 1 /\ L \in 1..L + 1 /\ d \in 1..L + 1
    BY <1>1
  <2>2. c[d] = b[d] /\ c[d + 1] = b[d + 1] /\ t[d] = sh[d] /\ b[d] \in Nat /\ b[d + 1] \in Nat
    BY <1>1, <1>2, <1>3, <2>1
  <2>3. Holds(sh[d], sh[d + 1], st, b[d], b[d + 1])
    <3>1. GoesOn(sh, n, d) = sh[d + 1]  BY <1>1 DEF GoesOn
    <3> QED BY <2>1, <3>1 DEF LaidOut
  <2>4. b[d + 1] <= Len(st2)  BY <1>1, <1>4, <2>1
  <2>5. \A i \in 1..b[d + 1] : st2[i] = st[i]  BY <1>1, <2>2, <2>4
  <2>6. Holds(sh[d], sh[d + 1], st2, b[d], b[d + 1])  BY <2>2, <2>3, <2>5, HoldsLocal
  <2>7. CASE d = L - 1
    <3>1. GoesOn(t, n2, d) = n2 /\ d + 1 = L /\ L > 1  BY <1>1, <1>2, <2>7 DEF GoesOn
    <3>2. Holds(sh[d], n2, st2, b[d], b[d + 1])
      <4>1. n2.ip = sh[d + 1].ip /\ n2.gp = sh[d + 1].gp /\ n2.seg = sh[d + 1].seg  BY <3>1
      <4> QED BY <2>6, <4>1, HoldsSame
    <3> QED BY <2>2, <3>1, <3>2
  <2>8. CASE d # L - 1
    <3>1. GoesOn(t, n2, d) = sh[d + 1]  BY <1>1, <1>2, <2>8 DEF GoesOn
    <3> QED BY <2>2, <2>6, <3>1
  <2> QED BY <2>7, <2>8
<1>6. c[1] = 0 /\ c[L] = Len(st2)
  <2>1. b[1] = 0  BY DEF LaidOut
  <2> QED BY <1>1, <1>3, <2>1
<1>7. \A d, e \in 1..L : d <= e => c[d] <= c[e]  BY <1>1, <1>3, <1>4
<1> HIDE DEF c, t
<1>8. Len(t) + 1 = L  BY <1>1, <1>2
<1>9. LaidOut(t, n2, st2, c)
  <2>1. c \in [1..Len(t) + 1 -> Nat] /\ c[1] = 0 /\ c[Len(t) + 1] = Len(st2)  BY <1>3, <1>6, <1>8
  <2>2. \A d, e \in 1..Len(t) + 1 : d <= e => c[d] <= c[e]  BY <1>7, <1>8
  <2>3. \A d \in 1..Len(t) : Holds(t[d], GoesOn(t, n2, d), st2, c[d], c[d + 1])  BY <1>2, <1>5
  <2> QED BY <2>1, <2>2, <2>3 DEF LaidOut
<1> QED BY <1>9 DEF t

-----------------------------------------------------------------------------
(* The instructions of the innermost handler                                 *)

LEMMA StackFacts ==
  ASSUME CpuTypeOK
  PROVE  /\ Len(stack) \in Nat
         /\ \A n \in Nat \ {0} : Peek(n) \in Items
         /\ \A n \in Nat \ {0} : n <= Len(stack) => Peek(n) = stack[Len(stack) + 1 - n]
         /\ \A n \in Nat : Popped(n) \in Seq(Items)
         /\ \A n \in Nat : n <= Len(stack) =>
              /\ Len(Popped(n)) = Len(stack) - n
              /\ \A i \in 1..Len(stack) - n : Popped(n)[i] = stack[i]
<1>1. Len(stack) \in Nat /\ stack \in Seq(Items)  BY LenProperties DEF CpuTypeOK
<1>2. ASSUME NEW n \in Nat \ {0} PROVE Peek(n) \in Items
  <2>1. CASE n <= Len(stack)
    <3>1. Len(stack) + 1 - n \in 1..Len(stack)  BY <1>1, <2>1
    <3> QED BY <1>1, <2>1, <3>1, ElementOfSeq DEF Peek
  <2>2. CASE ~(n <= Len(stack))
    BY <2>2 DEF Peek, Number, Item, Items, Ip, Places, Regs, Wild
  <2> QED BY <2>1, <2>2
<1>3. ASSUME NEW n \in Nat PROVE Popped(n) \in Seq(Items)
  <2>1. \A i \in 1..Len(stack) - n : stack[i] \in Items
    <3> TAKE i \in 1..Len(stack) - n
    <3>1. i \in 1..Len(stack)  BY <1>1
    <3> QED BY <1>1, <3>1, ElementOfSeq
  <2>2. Len(stack) - n \in Int /\ 1 \in Int  BY <1>1
  <2> QED BY <2>1, <2>2, SubSeqProperties DEF Popped
<1>4. ASSUME NEW n \in Nat, n <= Len(stack)
      PROVE  /\ Len(Popped(n)) = Len(stack) - n
             /\ \A i \in 1..Len(stack) - n : Popped(n)[i] = stack[i]
  <2>1. PICK k \in Nat : k = Len(stack) - n  BY <1>1, <1>4
  <2>2. \A i \in 1..k : stack[i] \in Items
    <3> TAKE i \in 1..k
    <3>1. i \in 1..Len(stack)  BY <1>1, <2>1
    <3> QED BY <1>1, <3>1, ElementOfSeq
  <2>3. k \in Int /\ 1 \in Int  OBVIOUS
  <2>4. /\ Len(SubSeq(stack, 1, k)) = IF 1 <= k THEN k - 1 + 1 ELSE 0
        /\ \A i \in 1..k - 1 + 1 : SubSeq(stack, 1, k)[i] = stack[1 + i - 1]
    BY <2>2, <2>3, SubSeqProperties
  <2>5. \A i \in 1..k : i \in 1..k - 1 + 1 /\ 1 + i - 1 = i  OBVIOUS
  <2>6. (IF 1 <= k THEN k - 1 + 1 ELSE 0) = k  OBVIOUS
  <2>7. Popped(n) = SubSeq(stack, 1, k)  BY <2>1 DEF Popped
  <2> QED BY <2>1, <2>4, <2>5, <2>6, <2>7
<1>5. \A n \in Nat \ {0} : n <= Len(stack) => Peek(n) = stack[Len(stack) + 1 - n]  BY DEF Peek
<1> QED BY <1>1, <1>2, <1>3, <1>4, <1>5

LEMMA PoppedWords ==
  ASSUME CpuTypeOK, NEW n \in Nat, NEW k \in Nat, Len(stack) = k + n
  PROVE  /\ Popped(n) \in Seq(Items) /\ Len(Popped(n)) = k
         /\ \A i \in 1..k : Popped(n)[i] = stack[i]
<1>1. n <= Len(stack) /\ Len(stack) - n = k  OBVIOUS
<1> QED BY <1>1, StackFacts

LEMMA TopWord ==
  ASSUME CpuTypeOK, NEW k \in Nat, Len(stack) = k + 1
  PROVE  Peek(1) = stack[k + 1]
<1>1. 1 <= Len(stack) /\ Len(stack) + 1 - 1 = k + 1  OBVIOUS
<1> QED BY ONLY <1>1 DEF Peek

LEMMA Onward ==
  ASSUME CpuTypeOK, NEW s \in Seen, NEW lo \in Nat, Works(s, Now, stack, lo, Len(stack))
  PROVE  /\ Op = OpAt(ip) /\ Op \in Ops(s.vector) /\ InStub /\ ip.prog = s.vector
         /\ Len(stack) = lo + Height(s.vector, Op)
         /\ Suits(s, Op, Now, stack, lo)
         /\ Op # "iret" => \A p : p = [ip EXCEPT !.at = @ + 1] =>
              /\ p \in Places /\ p.prog = s.vector /\ p.at \in DOMAIN Stub(s.vector)
              /\ OpAt(p) = Following(s.vector, Op)
         /\ Op = "isr" => \A p : p = [ip EXCEPT !.at = @ + 2] =>
              /\ p \in Places /\ p.prog = s.vector /\ p.at \in DOMAIN Stub(s.vector)
              /\ OpAt(p) = "popsegs"
<1>1. ip \in [prog : Int, at : Nat]  BY DEF CpuTypeOK, Places
<1>2. s.vector \in Nat
  <2>1. s.vector \in Vectors  BY DEF Seen
  <2> QED BY <2>1, VectorFacts, TrapsAssumption
<1>3. Now.ip = ip  BY DEF Now
<1>4. /\ ip.prog = s.vector /\ ip.at \in DOMAIN Stub(s.vector)
      /\ Len(stack) = lo + Height(s.vector, OpAt(ip)) /\ Suits(s, OpAt(ip), Now, stack, lo)
  BY <1>3 DEF Works
<1>5. InStub /\ Op = OpAt(ip)  BY <1>2, <1>4 DEF InStub, Op, OpAt
<1>6. OpAt(ip) = Stub(s.vector)[ip.at]  BY <1>4 DEF OpAt
<1>7. Op \in Ops(s.vector)  BY <1>4, <1>5, <1>6, StubOps
<1>8. ASSUME Op # "iret", NEW p, p = [ip EXCEPT !.at = @ + 1]
      PROVE  /\ p \in Places /\ p.prog = s.vector /\ p.at \in DOMAIN Stub(s.vector)
             /\ OpAt(p) = Following(s.vector, Op)
  <2>1. p \in Places /\ p.prog = s.vector /\ p.at = ip.at + 1  BY <1>1, <1>4, <1>8 DEF Places
  <2>2. /\ ip.at + 1 \in DOMAIN Stub(s.vector)
        /\ Stub(s.vector)[ip.at + 1] = Following(s.vector, Op)
    BY <1>4, <1>5, <1>6, <1>8, StubOps
  <2> QED BY <2>1, <2>2 DEF OpAt
<1>9. ASSUME Op = "isr", NEW p, p = [ip EXCEPT !.at = @ + 2]
      PROVE  /\ p \in Places /\ p.prog = s.vector /\ p.at \in DOMAIN Stub(s.vector)
             /\ OpAt(p) = "popsegs"
  <2>1. p \in Places /\ p.prog = s.vector /\ p.at = ip.at + 2  BY <1>1, <1>4, <1>9 DEF Places
  <2>2. ip.at + 2 \in DOMAIN Stub(s.vector) /\ Stub(s.vector)[ip.at + 2] = "popsegs"
    BY <1>4, <1>5, <1>6, <1>9, StubOps
  <2> QED BY <2>1, <2>2 DEF OpAt
<1> QED BY <1>4, <1>5, <1>7, <1>8, <1>9

\* A word is pushed.
LEMMA PushedWord ==
  ASSUME CpuTypeOK, NEW w \in Items
  PROVE  /\ Append(stack, w) \in Seq(Items) /\ Len(Append(stack, w)) = Len(stack) + 1
         /\ \A i \in 1..Len(stack) : Append(stack, w)[i] = stack[i]
         /\ Append(stack, w)[Len(stack) + 1] = w
  BY AppendProperties DEF CpuTypeOK

LEMMA WordTypes ==
  ASSUME CpuTypeOK
  PROVE  /\ \A n \in Int : Number(n) \in Items /\ Number(n).n = n
         /\ RegsWord \in Items /\ RegsWord.is = "regs" /\ RegsWord.gp = gp
         /\ SegsWord \in Items /\ SegsWord.n = seg
         /\ \A p \in Places : /\ FrameWord(p) \in Items /\ FrameWord(p).is = "frame"
                              /\ FrameWord(p).ip = p
<1>1. gp \in Regs /\ seg \in Int /\ <<0, 0>> \in Regs /\ Ip(Wild, 0) \in Places
  BY DEF CpuTypeOK, Regs, Ip, Places, Wild
<1> QED BY <1>1 DEF Number, RegsWord, SegsWord, FrameWord, Item, Items

\* What an instruction does for the handler that it belongs to
Goes(s, lo) ==
  /\ CpuTypeOK'
  /\ Works(s, Now', stack', lo, Len(stack'))
  /\ \A i \in 1..lo + 1 : stack'[i] = stack[i]

LEMMA PushNumbers ==
  ASSUME CpuTypeOK, NEW s \in Seen, NEW lo \in Nat, Works(s, Now, stack, lo, Len(stack)),
         Push, Op = "push0" \/ Op = "pushnum"
  PROVE  Goes(s, lo)
<1> DEFINE w == IF Op = "push0" THEN Number(0) ELSE Number(ip.prog)
<1>1. stack' = Append(stack, w) /\ ip' = [ip EXCEPT !.at = @ + 1]
  BY DEF Push, Advance
<1>2. UNCHANGED <<gp, seg, shadow, pic>>  BY DEF Push
<1>3. w \in Items /\ (Op = "pushnum" => w.n = s.vector)
  <2>1. ip.prog \in Int /\ ip.prog = s.vector  BY Onward DEF CpuTypeOK, Places
  <2> QED BY <2>1, WordTypes
<1>4. /\ stack' \in Seq(Items) /\ Len(stack') = Len(stack) + 1
      /\ \A i \in 1..Len(stack) : stack'[i] = stack[i]
      /\ stack'[Len(stack) + 1] = w
  <2> HIDE DEF w
  <2> QED BY <1>1, <1>3, PushedWord
<1>5. /\ ip' \in Places /\ ip'.prog = s.vector /\ ip'.at \in DOMAIN Stub(s.vector)
      /\ OpAt(ip') = Following(s.vector, Op) /\ s.vector # 128
      /\ Len(stack) = lo + Height(s.vector, Op)
      /\ Suits(s, Op, Now, stack, lo)
  <2>1. s.vector # 128  BY Onward DEF Ops, SystemOps
  <2>2. Op # "iret"  BY DEF Push
  <2>3. /\ ip' \in Places /\ ip'.prog = s.vector /\ ip'.at \in DOMAIN Stub(s.vector)
        /\ OpAt(ip') = Following(s.vector, Op)
    <3>1. \A p : p = [ip EXCEPT !.at = @ + 1] =>
            /\ p \in Places /\ p.prog = s.vector /\ p.at \in DOMAIN Stub(s.vector)
            /\ OpAt(p) = Following(s.vector, Op)
      BY <2>2, Onward
    <3> QED BY ONLY <1>1, <3>1, Zenon
  <2>4. Len(stack) = lo + Height(s.vector, Op) /\ Suits(s, Op, Now, stack, lo)
    BY Onward
  <2> QED BY ONLY <2>1, <2>3, <2>4, Zenon
<1>6. CpuTypeOK'  BY <1>2, <1>4, <1>5 DEF CpuTypeOK
<1>7. Now'.ip = ip' /\ Now'.gp = gp /\ Now'.seg = seg /\ Now.gp = gp /\ Now.seg = seg
  BY <1>2 DEF Now
<1> HIDE DEF w
<1>8. CASE Op = "push0"
  <2>1. Len(stack) = lo + 1 /\ OpAt(ip') = "pushnum" /\ Height(s.vector, "pushnum") = 2
    BY <1>5, <1>8 DEF Height, Following
  <2>2. Suits(s, "pushnum", Now', stack', lo)
    BY <1>5, <1>7, <1>8, <2>1 DEF Suits, Ordinary
  <2>3. Len(stack') = lo + 2 /\ stack'[lo + 1] = stack[lo + 1]  BY <1>4, <2>1
  <2>4. Works(s, Now', stack', lo, Len(stack'))  BY <1>5, <1>7, <2>1, <2>2, <2>3
       DEF Works
  <2> QED BY <1>4, <1>6, <2>1, <2>4 DEF Goes
<1>9. CASE Op = "pushnum"
  <2>1. Len(stack) = lo + 2 /\ OpAt(ip') = "pusha" /\ Height(s.vector, "pusha") = 3
    BY <1>5, <1>9 DEF Height, Following
  <2>2. stack'[lo + 3] = w  BY <1>4, <2>1
  <2>3. Suits(s, "pusha", Now', stack', lo)
    BY <1>3, <1>5, <1>7, <1>9, <2>1, <2>2 DEF Suits, Ordinary
  <2>4. Len(stack') = lo + 3 /\ stack'[lo + 1] = stack[lo + 1]  BY <1>4, <2>1
  <2>5. Works(s, Now', stack', lo, Len(stack'))  BY <1>5, <1>7, <2>1, <2>3, <2>4
       DEF Works
  <2> QED BY <1>4, <1>6, <2>1, <2>5 DEF Goes
<1> QED BY <1>8, <1>9

LEMMA Advanced ==
  ASSUME CpuTypeOK, NEW s \in Seen, NEW lo \in Nat, Works(s, Now, stack, lo, Len(stack)),
         Advance, Op # "iret"
  PROVE  /\ ip' \in Places /\ ip'.prog = s.vector /\ ip'.at \in DOMAIN Stub(s.vector)
         /\ OpAt(ip') = Following(s.vector, Op)
         /\ Len(stack) = lo + Height(s.vector, Op)
         /\ Suits(s, Op, Now, stack, lo) /\ Op \in Ops(s.vector)
<1>1. ip' = [ip EXCEPT !.at = @ + 1]  BY DEF Advance
<1> QED BY <1>1, Onward

LEMMA GoesFrom ==
  ASSUME NEW s, NEW lo \in Nat, Works(s, Now, stack, lo, Len(stack)), CpuTypeOK',
         ip'.prog = s.vector, ip'.at \in DOMAIN Stub(s.vector),
         Len(stack') = lo + Height(s.vector, OpAt(ip')),
         Suits(s, OpAt(ip'), Now', stack', lo),
         \A i \in 1..lo + 1 : stack'[i] = stack[i]
  PROVE  Goes(s, lo)
<1>1. Now'.ip = ip'  BY DEF Now
<1>2. stack'[lo + 1] = stack[lo + 1] /\ \A i \in 1..lo : stack'[i] = stack[i]  OBVIOUS
<1> QED BY <1>1, <1>2 DEF Goes, Works

LEMMA NowFields ==
  /\ Now.ip = ip /\ Now.gp = gp /\ Now.seg = seg
  /\ Now'.ip = ip' /\ Now'.gp = gp' /\ Now'.seg = seg'
  BY DEF Now

LEMMA PushRegs ==
  ASSUME CpuTypeOK, NEW s \in Seen, NEW lo \in Nat, Works(s, Now, stack, lo, Len(stack)),
         Push, Op = "pusha" \/ Op = "pushsegs"
  PROVE  Goes(s, lo)
<1> DEFINE w == IF Op = "pusha" THEN RegsWord ELSE SegsWord
<1>1. stack' = Append(stack, w) /\ Advance  BY DEF Push
<1>2. UNCHANGED <<gp, seg, shadow, pic>>  BY DEF Push
<1>3. w \in Items /\ (Op = "pusha" => w.is = "regs" /\ w.gp = gp) /\ (Op = "pushsegs" => w.n = seg)
  BY WordTypes
<1>4. /\ stack' \in Seq(Items) /\ Len(stack') = Len(stack) + 1
      /\ \A i \in 1..Len(stack) : stack'[i] = stack[i]
      /\ stack'[Len(stack) + 1] = w
  <2> HIDE DEF w
  <2> QED BY <1>1, <1>3, PushedWord
<1> HIDE DEF w
<1>5. /\ ip' \in Places /\ ip'.prog = s.vector /\ ip'.at \in DOMAIN Stub(s.vector)
      /\ OpAt(ip') = Following(s.vector, Op)
      /\ Len(stack) = lo + Height(s.vector, Op)
      /\ Suits(s, Op, Now, stack, lo) /\ Op \in Ops(s.vector)
  BY <1>1, Advanced
<1>6. CpuTypeOK'  BY <1>2, <1>4, <1>5 DEF CpuTypeOK
<1>7. CASE Op = "pusha" /\ s.vector = 128
  <2>1. Len(stack) = lo + 1 /\ OpAt(ip') = "pushargs" /\ Height(s.vector, "pushargs") = 2
    BY <1>5, <1>7 DEF Height, Following
  <2>2. stack'[lo + 2] = w /\ Len(stack') = lo + 2 /\ \A i \in 1..lo + 1 : stack'[i] = stack[i]
    BY <1>4, <2>1
  <2>3. Suits(s, "pushargs", Now', stack', lo)
    BY <1>2, <1>3, <1>5, <1>7, <2>2, NowFields DEF Suits, System
  <2> QED BY <1>5, <1>6, <2>1, <2>2, <2>3, GoesFrom
<1>8. CASE Op = "pusha" /\ s.vector # 128
  <2>1. Len(stack) = lo + 3 /\ OpAt(ip') = "pushsegs" /\ Height(s.vector, "pushsegs") = 4
        /\ Height(s.vector, "pusha") = 3
    BY <1>5, <1>8 DEF Height, Following
  <2>2. stack'[lo + 4] = w /\ Len(stack') = lo + 4 /\ \A i \in 1..lo + 3 : stack'[i] = stack[i]
    BY <1>4, <2>1
  <2>3. stack'[lo + 3] = stack[lo + 3] /\ \A i \in 1..lo + 1 : stack'[i] = stack[i]  BY <2>2
  <2>4. Suits(s, "pushsegs", Now', stack', lo)
    BY <1>2, <1>3, <1>5, <1>8, <2>1, <2>2, <2>3, NowFields DEF Suits, Ordinary
  <2> QED BY <1>5, <1>6, <2>1, <2>2, <2>3, <2>4, GoesFrom
<1>9. CASE Op = "pushsegs"
  <2>1. s.vector # 128  BY <1>5, <1>9 DEF Ops, SystemOps
  <2>2. Len(stack) = lo + 4 /\ OpAt(ip') = "kernelsegs" /\ Height(s.vector, "kernelsegs") = 5
        /\ Height(s.vector, "pushsegs") = 4
    BY <1>5, <1>9, <2>1 DEF Height, Following
  <2>3. stack'[lo + 5] = w /\ Len(stack') = lo + 5 /\ \A i \in 1..lo + 4 : stack'[i] = stack[i]
    BY <1>4, <2>2
  <2>4. stack'[lo + 3] = stack[lo + 3] /\ stack'[lo + 4] = stack[lo + 4]
        /\ \A i \in 1..lo + 1 : stack'[i] = stack[i]
    BY <2>3
  <2>5. Suits(s, "kernelsegs", Now', stack', lo)
    BY <1>2, <1>3, <1>5, <1>9, <2>1, <2>2, <2>3, <2>4, NowFields DEF Suits, Ordinary
  <2> QED BY <1>5, <1>6, <2>2, <2>3, <2>4, <2>5, GoesFrom
<1> QED BY <1>7, <1>8, <1>9

LEMMA FourTimes ==
  ASSUME NEW S, NEW x \in S
  PROVE  [i \in 1..4 |-> x] \in Seq(S) /\ Len([i \in 1..4 |-> x]) = 4
  OBVIOUS

LEMMA PushArgs ==
  ASSUME CpuTypeOK, NEW s \in Seen, NEW lo \in Nat, Works(s, Now, stack, lo, Len(stack)),
         Push, Op = "pushargs"
  PROVE  Goes(s, lo)
<1> DEFINE t == [i \in 1..4 |-> Number(gp[1])]
<1>1. stack' = stack \o t /\ Advance  BY DEF Push
<1>2. UNCHANGED <<gp, seg, shadow, pic>>  BY DEF Push
<1>3. t \in Seq(Items) /\ Len(t) = 4
  <2>1. gp[1] \in Int  BY DEF CpuTypeOK, Regs
  <2>2. Number(gp[1]) \in Items  BY <2>1, WordTypes
  <2> QED BY <2>2, FourTimes
<1> HIDE DEF t
<1>4. /\ stack' \in Seq(Items) /\ Len(stack') = Len(stack) + 4 /\ Len(stack) \in Nat
      /\ \A i \in 1..Len(stack) : stack'[i] = stack[i]
  <2>1. stack \in Seq(Items) /\ Len(stack) \in Nat  BY StackFacts DEF CpuTypeOK
  <2>2. /\ stack \o t \in Seq(Items) /\ Len(stack \o t) = Len(stack) + Len(t)
        /\ \A i \in 1..Len(stack) + Len(t) :
             (stack \o t)[i] = IF i <= Len(stack) THEN stack[i] ELSE t[i - Len(stack)]
    BY <1>3, <2>1, ConcatProperties
  <2>3. \A i \in 1..Len(stack) : i \in 1..Len(stack) + Len(t) /\ i <= Len(stack)  BY <1>3, <2>1
  <2> QED BY <1>1, <1>3, <2>1, <2>2, <2>3
<1>5. /\ ip' \in Places /\ ip'.prog = s.vector /\ ip'.at \in DOMAIN Stub(s.vector)
      /\ OpAt(ip') = "syscall"
      /\ Len(stack) = lo + 2
      /\ Suits(s, Op, Now, stack, lo) /\ Op \in Ops(s.vector)
  BY <1>1, Advanced DEF Following, Height
<1>6. s.vector = 128  BY <1>5 DEF Ops, EntryOps, IrqOps, IsrOps
<1>7. CpuTypeOK'  BY <1>2, <1>4, <1>5 DEF CpuTypeOK
<1>8. Len(stack') = lo + 6 /\ Height(s.vector, "syscall") = 6  BY <1>4, <1>5 DEF Height
<1>9. stack'[lo + 2] = stack[lo + 2] /\ \A i \in 1..lo + 1 : stack'[i] = stack[i]
  BY <1>4, <1>5
<1>10. Suits(s, "syscall", Now', stack', lo)
  BY <1>2, <1>5, <1>6, <1>9, NowFields DEF Suits, System
<1> QED BY <1>5, <1>7, <1>8, <1>9, <1>10, GoesFrom

\* Calls of C functions and writes to ports: the stack stays as it is.
LEMMA Calls ==
  ASSUME CpuTypeOK, NEW s \in Seen, NEW lo \in Nat, Works(s, Now, stack, lo, Len(stack)),
         CpuTypeOK', UNCHANGED stack, Advance,
         Op \in {"kernelsegs", "eoislave", "eoimaster", "dispatch"}
  PROVE  Goes(s, lo)
<1>1. /\ ip'.prog = s.vector /\ ip'.at \in DOMAIN Stub(s.vector)
      /\ OpAt(ip') = Following(s.vector, Op)
      /\ Len(stack) = lo + Height(s.vector, Op)
      /\ Suits(s, Op, Now, stack, lo) /\ Op \in Ops(s.vector)
  BY Advanced
<1>2. s.vector # 128  BY <1>1 DEF Ops, SystemOps
<1>3. Height(s.vector, Op) = 5 /\ Height(s.vector, OpAt(ip')) = 5
      /\ OpAt(ip') \in {"eoislave", "isr", "eoimaster", "dispatch", "popsegs"}
  BY <1>1 DEF Height, Following
<1>4. Suits(s, OpAt(ip'), Now', stack', lo)
  BY <1>1, <1>2, <1>3 DEF Suits, Ordinary
<1>5. \A i \in 1..lo + 1 : stack'[i] = stack[i]  OBVIOUS
<1>6. Len(stack') = lo + Height(s.vector, OpAt(ip'))  BY <1>1, <1>3
<1> QED BY <1>1, <1>4, <1>5, <1>6, GoesFrom

LEMMA IsrCall ==
  ASSUME CpuTypeOK, NEW s \in Seen, NEW lo \in Nat, Works(s, Now, stack, lo, Len(stack)),
         CpuTypeOK', IsrHandler
  PROVE  Goes(s, lo)
<1>1. Op = "isr" /\ UNCHANGED stack
      /\ (ip' = [ip EXCEPT !.at = @ + 1] \/ ip' = [ip EXCEPT !.at = @ + 2])
  BY DEF IsrHandler
<1>2. /\ ip'.prog = s.vector /\ ip'.at \in DOMAIN Stub(s.vector)
      /\ OpAt(ip') \in {"halt", "popsegs"}
      /\ Len(stack) = lo + 5
      /\ Suits(s, Op, Now, stack, lo) /\ Op \in Ops(s.vector)
  BY <1>1, Onward DEF Following, Height
<1>3. s.vector # 128  BY <1>1, <1>2 DEF Ops, SystemOps
<1>4. Height(s.vector, Op) = 5 /\ Height(s.vector, OpAt(ip')) = 5
  BY <1>1, <1>2 DEF Height
<1>5. Suits(s, OpAt(ip'), Now', stack', lo)
  BY <1>1, <1>2, <1>3, <1>4 DEF Suits, Ordinary
<1>6. \A i \in 1..lo + 1 : stack'[i] = stack[i]  BY <1>1
<1>7. Len(stack') = lo + Height(s.vector, OpAt(ip'))  BY <1>1, <1>2, <1>4
<1> QED BY <1>2, <1>5, <1>6, <1>7, GoesFrom

LEMMA Result ==
  /\ SyscallResult \in Int
  /\ \A g \in Regs : g = <<g[1], g[2]>> /\ g[1] \in Int /\ g[2] \in Int
  /\ \A x \in Int, y \in Int : <<x, y>> \in Regs
  BY DEF SyscallResult, Regs

LEMMA SyscallCall ==
  ASSUME CpuTypeOK, NEW s \in Seen, NEW lo \in Nat, Works(s, Now, stack, lo, Len(stack)),
         CpuTypeOK', SyscallHandler
  PROVE  Goes(s, lo)
<1>1. Op = "syscall" /\ UNCHANGED <<stack, seg>> /\ Advance /\ gp'[1] = SyscallResult
  BY DEF SyscallHandler
<1>2. /\ ip'.prog = s.vector /\ ip'.at \in DOMAIN Stub(s.vector)
      /\ OpAt(ip') = "drop4"
      /\ Len(stack) = lo + 6
      /\ Suits(s, Op, Now, stack, lo) /\ Op \in Ops(s.vector)
  BY <1>1, Advanced DEF Following, Height
<1>3. s.vector = 128  BY <1>1, <1>2 DEF Ops, EntryOps, IrqOps, IsrOps
<1>4. Suits(s, "drop4", Now', stack', lo)
  BY <1>1, <1>2, <1>3, NowFields DEF Suits, System
<1>5. \A i \in 1..lo + 1 : stack'[i] = stack[i]  BY <1>1
<1>6. Len(stack') = lo + 6 /\ Height(s.vector, "drop4") = 6  BY <1>1, <1>2 DEF Height
<1> QED BY <1>2, <1>4, <1>5, <1>6, GoesFrom

\* eax in the registers that PUSHA left
LEMMA StoreResult ==
  ASSUME CpuTypeOK, NEW s \in Seen, NEW lo \in Nat, Works(s, Now, stack, lo, Len(stack)),
         SetEax
  PROVE  Goes(s, lo)
<1>1. Op = "seteax" /\ UNCHANGED <<gp, seg, shadow, pic>> /\ Advance
  BY DEF SetEax
<1>2. /\ ip' \in Places /\ ip'.prog = s.vector /\ ip'.at \in DOMAIN Stub(s.vector)
      /\ OpAt(ip') = "popa"
      /\ Len(stack) = lo + 2
      /\ Suits(s, Op, Now, stack, lo) /\ Op \in Ops(s.vector)
  BY <1>1, Advanced DEF Following, Height
<1>3. s.vector = 128  BY <1>1, <1>2 DEF Ops, EntryOps, IrqOps, IsrOps
<1>4. stack[lo + 2].is = "regs" /\ stack[lo + 2].gp = s.gp /\ gp[1] = SyscallResult /\ seg = s.seg
  BY <1>1, <1>2, <1>3, NowFields DEF Suits, System
<1>5. stack \in Seq(Items) /\ lo + 2 \in 1..Len(stack)  BY <1>2 DEF CpuTypeOK
<1>6. Peek(1) = stack[lo + 2]
  <2>1. lo + 1 \in Nat /\ Len(stack) = (lo + 1) + 1  BY <1>2
  <2>2. Peek(1) = stack[(lo + 1) + 1]  BY ONLY CpuTypeOK, <2>1, TopWord
  <2> QED BY <2>2
<1> DEFINE w == [stack[lo + 2] EXCEPT !.gp[1] = gp[1]]
<1>7. stack' = [stack EXCEPT ![lo + 2] = w]  BY <1>2, <1>4, <1>6 DEF SetEax
<1>8. w \in Items /\ w.gp = <<SyscallResult, s.gp[2]>>
  <2>1. PICK x \in Items : x = stack[lo + 2]  BY <1>5, ElementOfSeq
  <2>2. x.gp \in Int \X Int /\ x.gp = s.gp  BY <1>4, <2>1 DEF Items, Regs
  <2>3. gp[1] \in Int /\ gp[1] = SyscallResult  BY <1>4, Result
  <2>4. [x.gp EXCEPT ![1] = gp[1]] = <<SyscallResult, s.gp[2]>>  BY <2>2, <2>3
  <2>5. [x EXCEPT !.gp[1] = gp[1]] = [x EXCEPT !.gp = <<SyscallResult, s.gp[2]>>]
    BY <2>1, <2>4 DEF Items
  <2>6. <<SyscallResult, s.gp[2]>> \in Regs  BY <2>2, <2>3, Result
  <2> QED BY <2>1, <2>5, <2>6 DEF Items
<1> HIDE DEF w
<1>9. /\ stack' \in Seq(Items) /\ Len(stack') = Len(stack) /\ stack'[lo + 2] = w
      /\ \A i \in 1..lo + 1 : stack'[i] = stack[i]
  <2>1. /\ stack' \in Seq(Items) /\ Len(stack') = Len(stack)
        /\ \A j \in 1..Len(stack) : stack'[j] = IF j = lo + 2 THEN w ELSE stack[j]
    BY <1>5, <1>7, <1>8, ExceptSeq
  <2>2. \A i \in 1..lo + 1 : i \in 1..Len(stack) /\ i # lo + 2  BY <1>2
  <2> QED BY <1>5, <2>1, <2>2
<1>10. CpuTypeOK'  BY <1>1, <1>2, <1>9 DEF CpuTypeOK
<1>11. Suits(s, "popa", Now', stack', lo)
  BY <1>1, <1>3, <1>4, <1>8, <1>9, NowFields DEF Suits, System
<1>12. Len(stack') = lo + 2 /\ Height(s.vector, "popa") = 2  BY <1>2, <1>3, <1>9 DEF Height
<1> QED BY <1>2, <1>9, <1>10, <1>11, <1>12, GoesFrom

LEMMA Drops ==
  ASSUME CpuTypeOK, NEW s \in Seen, NEW lo \in Nat, Works(s, Now, stack, lo, Len(stack)),
         Drop
  PROVE  Goes(s, lo)
<1>1. /\ UNCHANGED <<gp, seg, shadow, pic>> /\ Advance
      /\ \/ Op = "drop2" /\ stack' = Popped(2)
         \/ Op = "drop4" /\ stack' = Popped(4)
  BY DEF Drop
<1>2. /\ ip' \in Places /\ ip'.prog = s.vector /\ ip'.at \in DOMAIN Stub(s.vector)
      /\ OpAt(ip') = Following(s.vector, Op)
      /\ Len(stack) = lo + Height(s.vector, Op)
      /\ Suits(s, Op, Now, stack, lo) /\ Op \in Ops(s.vector)
  BY <1>1, Advanced
<1>3. CASE Op = "drop2"
  <2>1. s.vector # 128  BY <1>2, <1>3 DEF Ops, SystemOps
  <2>2. /\ Len(stack) = lo + 3 /\ OpAt(ip') = "iret" /\ Height(s.vector, "iret") = 1
        /\ Height(s.vector, "drop2") = 3
    BY <1>2, <1>3 DEF Following, Height
  <2>3. stack' = Popped(2)  BY <1>1, <1>3
  <2>4. /\ stack' \in Seq(Items) /\ Len(stack') = lo + 1
        /\ \A i \in 1..lo + 1 : stack'[i] = stack[i]
    <3>1. 2 \in Nat /\ lo + 1 \in Nat /\ Len(stack) = (lo + 1) + 2  BY <2>2
    <3>2. /\ Popped(2) \in Seq(Items) /\ Len(Popped(2)) = lo + 1
          /\ \A i \in 1..lo + 1 : Popped(2)[i] = stack[i]
      BY <3>1, PoppedWords, Zenon
    <3> QED BY <2>3, <3>2
  <2>5. CpuTypeOK'  BY <1>1, <1>2, <2>4 DEF CpuTypeOK
  <2>6. Suits(s, "iret", Now', stack', lo)
    BY <1>1, <1>2, <1>3, <2>1, <2>2, NowFields DEF Suits, Ordinary
  <2> QED BY <1>2, <2>2, <2>4, <2>5, <2>6, GoesFrom
<1>4. CASE Op = "drop4"
  <2>1. s.vector = 128  BY <1>2, <1>4 DEF Ops, EntryOps, IrqOps, IsrOps
  <2>2. Len(stack) = lo + 6 /\ OpAt(ip') = "seteax" /\ Height(s.vector, "seteax") = 2
    BY <1>2, <1>4 DEF Following, Height
  <2>3. stack' = Popped(4)  BY <1>1, <1>4
  <2>4. /\ stack' \in Seq(Items) /\ Len(stack') = lo + 2
        /\ \A i \in 1..lo + 2 : stack'[i] = stack[i]
    <3>1. 4 \in Nat /\ lo + 2 \in Nat /\ Len(stack) = (lo + 2) + 4  BY <2>2
    <3>2. /\ Popped(4) \in Seq(Items) /\ Len(Popped(4)) = lo + 2
          /\ \A i \in 1..lo + 2 : Popped(4)[i] = stack[i]
      BY <3>1, PoppedWords, Zenon
    <3> QED BY <2>3, <3>2
  <2>5. stack'[lo + 2] = stack[lo + 2] /\ \A i \in 1..lo + 1 : stack'[i] = stack[i]  BY <2>4
  <2>6. CpuTypeOK'  BY <1>1, <1>2, <2>4 DEF CpuTypeOK
  <2>7. Suits(s, "seteax", Now', stack', lo)
    BY <1>1, <1>2, <1>4, <2>1, <2>5, NowFields DEF Suits, System
  <2> QED BY <1>2, <2>2, <2>4, <2>5, <2>6, <2>7, GoesFrom
<1> QED BY <1>1, <1>3, <1>4

LEMMA PopsSegs ==
  ASSUME CpuTypeOK, NEW s \in Seen, NEW lo \in Nat, Works(s, Now, stack, lo, Len(stack)),
         PopSegs
  PROVE  Goes(s, lo)
<1>1. /\ Op = "popsegs" /\ UNCHANGED <<gp, shadow, pic>> /\ Advance
      /\ seg' = Peek(1).n /\ stack' = Popped(1)
  BY DEF PopSegs
<1>2. /\ ip' \in Places /\ ip'.prog = s.vector /\ ip'.at \in DOMAIN Stub(s.vector)
      /\ OpAt(ip') = "popa" /\ Len(stack) = lo + 5
      /\ Suits(s, Op, Now, stack, lo) /\ Op \in Ops(s.vector)
  BY <1>1, Advanced DEF Following, Height
<1>3. s.vector # 128  BY <1>1, <1>2 DEF Ops, SystemOps
<1>4. Height(s.vector, "popa") = 4 /\ Height(s.vector, "popsegs") = 5  BY <1>3 DEF Height
<1>5. Peek(1) = stack[lo + 5]
  <2>1. lo + 4 \in Nat /\ Len(stack) = (lo + 4) + 1  BY <1>2
  <2>2. Peek(1) = stack[(lo + 4) + 1]  BY ONLY CpuTypeOK, <2>1, TopWord
  <2> QED BY <2>2
<1>6. seg' = s.seg /\ seg' \in Int
  <2>1. stack[lo + 5].n = s.seg  BY <1>1, <1>2, <1>3, <1>4 DEF Suits, Ordinary
  <2> QED BY <1>1, <1>5, <2>1 DEF Seen
<1>7. /\ stack' \in Seq(Items) /\ Len(stack') = lo + 4
      /\ \A i \in 1..lo + 4 : stack'[i] = stack[i]
  <2>1. 1 \in Nat /\ lo + 4 \in Nat /\ Len(stack) = (lo + 4) + 1  BY <1>2
  <2>2. /\ Popped(1) \in Seq(Items) /\ Len(Popped(1)) = lo + 4
        /\ \A i \in 1..lo + 4 : Popped(1)[i] = stack[i]
    BY <2>1, PoppedWords, Zenon
  <2> QED BY <1>1, <2>2
<1>8. stack'[lo + 3] = stack[lo + 3] /\ stack'[lo + 4] = stack[lo + 4]
      /\ \A i \in 1..lo + 1 : stack'[i] = stack[i]
  BY <1>7
<1>9. CpuTypeOK'  BY <1>1, <1>2, <1>6, <1>7 DEF CpuTypeOK
<1>10. Suits(s, "popa", Now', stack', lo)
  BY <1>1, <1>2, <1>3, <1>4, <1>6, <1>8, NowFields DEF Suits, Ordinary
<1> QED BY <1>2, <1>4, <1>7, <1>8, <1>9, <1>10, GoesFrom

LEMMA PopsRegs ==
  ASSUME CpuTypeOK, NEW s \in Seen, NEW lo \in Nat, Works(s, Now, stack, lo, Len(stack)),
         PopRegs
  PROVE  Goes(s, lo)
<1>1. /\ Op = "popa" /\ UNCHANGED <<seg, shadow, pic>> /\ Advance
      /\ gp' = Peek(1).gp /\ stack' = Popped(1)
  BY DEF PopRegs
<1>2. /\ ip' \in Places /\ ip'.prog = s.vector /\ ip'.at \in DOMAIN Stub(s.vector)
      /\ OpAt(ip') = Following(s.vector, Op) /\ Len(stack) = lo + Height(s.vector, Op)
      /\ Suits(s, Op, Now, stack, lo) /\ Op \in Ops(s.vector)
  BY <1>1, Advanced
<1>3. gp' \in Regs
  <2>1. Peek(1) \in Items  BY StackFacts
  <2> QED BY <1>1, <2>1 DEF Items
<1>4. CASE s.vector = 128
  <2>1. Len(stack) = lo + 2 /\ OpAt(ip') = "iret" /\ Height(s.vector, "iret") = 1
    BY <1>1, <1>2, <1>4 DEF Following, Height
  <2>2. Peek(1) = stack[lo + 2]
    <3>1. lo + 1 \in Nat /\ Len(stack) = (lo + 1) + 1  BY <2>1
    <3>2. Peek(1) = stack[(lo + 1) + 1]  BY ONLY CpuTypeOK, <3>1, TopWord
    <3> QED BY <3>2
  <2>3. /\ stack' \in Seq(Items) /\ Len(stack') = lo + 1
        /\ \A i \in 1..lo + 1 : stack'[i] = stack[i]
    <3>1. lo + 1 \in Nat /\ Len(stack) = (lo + 1) + 1  BY <2>1
    <3>2. /\ Popped(1) \in Seq(Items) /\ Len(Popped(1)) = lo + 1
          /\ \A i \in 1..lo + 1 : Popped(1)[i] = stack[i]
      BY ONLY CpuTypeOK, <3>1, PoppedWords
    <3> QED BY <1>1, <3>2
  <2>4. CpuTypeOK'  BY <1>1, <1>2, <1>3, <2>3 DEF CpuTypeOK
  <2>5. Suits(s, "iret", Now', stack', lo)
    BY <1>1, <1>2, <1>4, <2>2, NowFields DEF Suits, System
  <2> QED BY <1>2, <2>1, <2>3, <2>4, <2>5, GoesFrom
<1>5. CASE s.vector # 128
  <2>1. /\ Len(stack) = lo + 4 /\ OpAt(ip') = "drop2" /\ Height(s.vector, "drop2") = 3
        /\ Height(s.vector, "popa") = 4
    BY <1>1, <1>2, <1>5 DEF Following, Height
  <2>2. Peek(1) = stack[lo + 4]
    <3>1. lo + 3 \in Nat /\ Len(stack) = (lo + 3) + 1  BY <2>1
    <3>2. Peek(1) = stack[(lo + 3) + 1]  BY ONLY CpuTypeOK, <3>1, TopWord
    <3> QED BY <3>2
  <2>3. /\ stack' \in Seq(Items) /\ Len(stack') = lo + 3
        /\ \A i \in 1..lo + 3 : stack'[i] = stack[i]
    <3>1. lo + 3 \in Nat /\ Len(stack) = (lo + 3) + 1  BY <2>1
    <3>2. /\ Popped(1) \in Seq(Items) /\ Len(Popped(1)) = lo + 3
          /\ \A i \in 1..lo + 3 : Popped(1)[i] = stack[i]
      BY ONLY CpuTypeOK, <3>1, PoppedWords
    <3> QED BY <1>1, <3>2
  <2>4. stack'[lo + 3] = stack[lo + 3] /\ \A i \in 1..lo + 1 : stack'[i] = stack[i]  BY <2>3
  <2>5. CpuTypeOK'  BY <1>1, <1>2, <1>3, <2>3 DEF CpuTypeOK
  <2>6. gp' = s.gp /\ seg = s.seg /\ stack[lo + 3].n = s.vector
    BY <1>1, <1>2, <1>5, <2>1, <2>2, NowFields DEF Suits, Ordinary
  <2>7. Suits(s, "drop2", Now', stack', lo)
    BY <1>1, <1>5, <2>1, <2>4, <2>6, NowFields DEF Suits, Ordinary
  <2> QED BY <1>2, <2>1, <2>3, <2>4, <2>5, <2>7, GoesFrom
<1> QED BY <1>4, <1>5

-----------------------------------------------------------------------------
(* The lines in service                                                      *)

LEMMA OwingFacts ==
  ASSUME NEW sh \in Seq(Seen), NEW p, NEW c
  PROVE  /\ Owing(sh, p, c) \subseteq 1..Len(sh) /\ Len(sh) \in Nat
         /\ \A d \in 1..Len(sh) :
              d \in Owing(sh, p, c) <=> OwesAt(sh[d].vector, NextIp(sh, p, d), c)
<1>1. DOMAIN sh = 1..Len(sh) /\ Len(sh) \in Nat  BY LenProperties
<1> QED BY <1>1 DEF Owing

LEMMA EoiIdle ==
  ASSUME NEW p, NEW c
  PROVE  /\ EoiFor(<<>>, p, c, {})
         /\ \A isr : EoiFor(<<>>, p, c, isr) => isr = {}
<1>1. Owing(<<>>, p, c) = {}
  <2>1. <<>> \in Seq(Seen) /\ Len(<<>>) = 0  BY EmptySeq
  <2>2. Owing(<<>>, p, c) \subseteq 1..0  BY <2>1, OwingFacts
  <2> QED BY <2>2
<1> QED BY <1>1 DEF EoiFor

\* No EOI is sent, and the innermost handler goes on.
LEMMA EoiTop ==
  ASSUME NEW sh \in Seq(Seen), NEW p, NEW p2, NEW c, NEW isr, EoiFor(sh, p, c, isr), sh # <<>>,
         OwesAt(sh[Len(sh)].vector, p2, c) <=> OwesAt(sh[Len(sh)].vector, p, c)
  PROVE  EoiFor(sh, p2, c, isr)
<1>1. Owing(sh, p2, c) = Owing(sh, p, c)
  <2>1. ASSUME NEW d \in 1..Len(sh)
        PROVE  OwesAt(sh[d].vector, NextIp(sh, p2, d), c) <=> OwesAt(sh[d].vector, NextIp(sh, p, d), c)
    BY DEF NextIp
  <2>2. \A d \in 1..Len(sh) : d \in Owing(sh, p2, c) <=> d \in Owing(sh, p, c)
    BY <2>1, OwingFacts
  <2>3. Owing(sh, p2, c) \subseteq 1..Len(sh) /\ Owing(sh, p, c) \subseteq 1..Len(sh)
    BY OwingFacts
  <2> QED BY <2>2, <2>3
<1> QED BY <1>1 DEF EoiFor

\* It sends an EOI, which retires its own line.
LEMMA EoiSent ==
  ASSUME NEW sh \in Seq(Seen), NEW p, NEW p2, NEW c, NEW isr \in SUBSET (0..7),
         EoiFor(sh, p, c, isr), sh # <<>>,
         OwesAt(sh[Len(sh)].vector, p, c), ~OwesAt(sh[Len(sh)].vector, p2, c)
  PROVE  isr # {} /\ EoiFor(sh, p2, c, isr \ {Min(isr)})
<1> DEFINE L == Len(sh)
           line(d) == LineAt(sh[d].vector, c)
           O == Owing(sh, p, c)
<1>1. L \in 1..L /\ L \in Nat /\ O \subseteq 1..L
  <2>1. Len(sh) \in Nat \ {0}  BY EmptySeq, LenProperties
  <2> QED BY <2>1, OwingFacts
<1>2. L \in O
  <2>1. NextIp(sh, p, L) = p  BY DEF NextIp
  <2> QED BY <1>1, <2>1, OwingFacts
<1>3. Owing(sh, p2, c) = O \ {L}
  <2>1. NextIp(sh, p2, L) = p2  BY DEF NextIp
  <2>2. \A d \in 1..L : d # L => NextIp(sh, p2, d) = NextIp(sh, p, d)  BY DEF NextIp
  <2> QED BY <1>1, <2>1, <2>2, OwingFacts
<1>4. isr = {line(d) : d \in O} /\ \A d, e \in O : d < e => line(e) < line(d)
  BY DEF EoiFor
<1>5. \A d \in O : line(d) \in 0..7  BY <1>4
<1>6. \A d \in O : d # L => line(L) < line(d)
  <2> TAKE d \in O
  <2>1. d # L => d < L  BY <1>1
  <2> QED BY <1>2, <1>4, <2>1
<1> HIDE DEF line, O
<1>7. Min(isr) = line(L)
  <2>1. line(L) \in isr /\ \A x \in isr : line(L) <= x  BY <1>2, <1>4, <1>5, <1>6
  <2>2. \A x \in isr : x \in 0..7  OBVIOUS
  <2>3. \A x \in isr : (\A y \in isr : x <= y) => x = line(L)
    <3> TAKE x \in isr
    <3> HAVE \A y \in isr : x <= y
    <3>1. x <= line(L) /\ line(L) <= x /\ x \in 0..7 /\ line(L) \in 0..7  BY <2>1, <2>2
    <3> QED BY <3>1
  <2> QED BY <2>1, <2>3 DEF Min
<1>8. isr \ {line(L)} = {line(d) : d \in O \ {L}}  BY <1>2, <1>4, <1>5, <1>6
<1>9. \A d, e \in O \ {L} : d < e => line(e) < line(d)  BY <1>4
<1> QED BY <1>2, <1>3, <1>4, <1>7, <1>8, <1>9 DEF EoiFor, line

LEMMA OwingNew ==
  ASSUME NEW sh \in Seq(Seen), NEW p, NEW p2, NEW c, NEW s \in Seen,
         sh # <<>> => (OwesAt(sh[Len(sh)].vector, s.ip, c) <=> OwesAt(sh[Len(sh)].vector, p, c))
  PROVE  /\ Owing(Append(sh, s), p2, c) =
              Owing(sh, p, c) \cup (IF OwesAt(s.vector, p2, c) THEN {Len(sh) + 1} ELSE {})
         /\ Append(sh, s)[Len(sh) + 1] = s
         /\ \A d \in 1..Len(sh) : Append(sh, s)[d] = sh[d]
<1> DEFINE L == Len(sh)
           t == Append(sh, s)
<1>1. /\ t \in Seq(Seen) /\ Len(t) = L + 1 /\ t[L + 1] = s /\ \A d \in 1..L : t[d] = sh[d]
  BY AppendProperties
<1>2. L \in Nat /\ DOMAIN sh = 1..L  BY LenProperties
<1> HIDE DEF t
<1>3. NextIp(t, p2, L + 1) = p2  BY <1>1 DEF NextIp
<1>4. ASSUME NEW d \in 1..L
      PROVE  OwesAt(t[d].vector, NextIp(t, p2, d), c) <=> OwesAt(sh[d].vector, NextIp(sh, p, d), c)
  <2>1. CASE d = L
    <3>1. sh # <<>>
      <4>1. L # 0  BY <1>2, <2>1
      <4> QED BY <4>1, EmptySeq
    <3>2. NextIp(sh, p, d) = p  BY <2>1 DEF NextIp
    <3>3. d # L + 1 /\ d + 1 = L + 1
      <4>1. PICK k \in Nat : k = L  BY <1>2
      <4> QED BY <2>1, <4>1
    <3>4. NextIp(t, p2, d) = s.ip  BY <1>1, <3>3 DEF NextIp
    <3> QED BY <1>1, <2>1, <3>1, <3>2, <3>4
  <2>2. CASE d # L
    <3>1. d + 1 \in 1..L /\ d # L + 1
      <4>1. PICK k \in Nat : k = L  BY <1>2
      <4>2. d \in 1..k /\ d # k  BY <4>1, <2>2
      <4> QED BY <4>1, <4>2
    <3>2. NextIp(t, p2, d) = NextIp(sh, p, d)  BY <1>1, <2>2, <3>1 DEF NextIp
    <3> QED BY <1>1, <3>2
  <2> QED BY <2>1, <2>2
<1>5. \A d \in 1..L + 1 : d \in Owing(t, p2, c) <=> OwesAt(t[d].vector, NextIp(t, p2, d), c)
  BY <1>1, OwingFacts
<1>6. Owing(t, p2, c) \subseteq 1..L + 1  BY <1>1, OwingFacts
<1>7. /\ \A d \in 1..L : d \in Owing(sh, p, c) <=> OwesAt(sh[d].vector, NextIp(sh, p, d), c)
      /\ Owing(sh, p, c) \subseteq 1..L
  BY OwingFacts
<1>8. L + 1 \in Owing(t, p2, c) <=> OwesAt(s.vector, p2, c)  BY <1>1, <1>2, <1>3, <1>5
<1>9. \A d \in 1..L : d \in Owing(t, p2, c) <=> d \in Owing(sh, p, c)
  BY <1>2, <1>4, <1>5, <1>7
<1>10. Owing(t, p2, c) = Owing(sh, p, c) \cup (IF OwesAt(s.vector, p2, c) THEN {L + 1} ELSE {})
  BY <1>2, <1>6, <1>7, <1>8, <1>9
<1> QED BY <1>1, <1>10 DEF t

\* A handler begins that owes no EOI.
LEMMA EoiNone ==
  ASSUME NEW sh \in Seq(Seen), NEW p, NEW p2, NEW c, NEW isr, EoiFor(sh, p, c, isr), NEW s \in Seen,
         sh # <<>> => (OwesAt(sh[Len(sh)].vector, s.ip, c) <=> OwesAt(sh[Len(sh)].vector, p, c)),
         ~OwesAt(s.vector, p2, c)
  PROVE  EoiFor(Append(sh, s), p2, c, isr)
<1> DEFINE t == Append(sh, s)
<1>1. Owing(t, p2, c) = Owing(sh, p, c) /\ \A d \in 1..Len(sh) : t[d] = sh[d]
  <2>1. /\ Owing(t, p2, c) =
             Owing(sh, p, c) \cup (IF OwesAt(s.vector, p2, c) THEN {Len(sh) + 1} ELSE {})
        /\ \A d \in 1..Len(sh) : t[d] = sh[d]
    BY OwingNew
  <2> HIDE DEF t
  <2> QED BY <2>1
<1>2. Owing(sh, p, c) \subseteq 1..Len(sh)  BY OwingFacts
<1> HIDE DEF t
<1>3. \A d \in Owing(sh, p, c) : t[d] = sh[d]  BY <1>1, <1>2
<1>4. EoiFor(t, p2, c, isr)  BY <1>1, <1>3 DEF EoiFor
<1> QED BY <1>4 DEF t

\* A handler begins whose line comes before all in service.
LEMMA EoiNew ==
  ASSUME NEW sh \in Seq(Seen), NEW p, NEW p2, NEW c, NEW isr \in SUBSET (0..7),
         EoiFor(sh, p, c, isr), NEW s \in Seen,
         sh # <<>> => (OwesAt(sh[Len(sh)].vector, s.ip, c) <=> OwesAt(sh[Len(sh)].vector, p, c)),
         OwesAt(s.vector, p2, c), \A k \in isr : LineAt(s.vector, c) < k
  PROVE  EoiFor(Append(sh, s), p2, c, isr \cup {LineAt(s.vector, c)})
<1> DEFINE t == Append(sh, s)
           N == Len(sh) + 1
           O == Owing(sh, p, c)
<1>1. /\ Owing(t, p2, c) = O \cup {N} /\ \A d \in 1..Len(sh) : t[d] = sh[d]
      /\ t[N] = s
  <2>1. /\ Owing(t, p2, c) = O \cup (IF OwesAt(s.vector, p2, c) THEN {N} ELSE {})
        /\ t[N] = s
        /\ \A d \in 1..Len(sh) : t[d] = sh[d]
    BY OwingNew
  <2> HIDE DEF t, N, O
  <2> QED BY <2>1
<1>2. O \subseteq 1..Len(sh) /\ Len(sh) \in Nat  BY OwingFacts
<1>3. /\ isr = {LineAt(sh[d].vector, c) : d \in O}
      /\ \A d, e \in O : d < e => LineAt(sh[e].vector, c) < LineAt(sh[d].vector, c)
  BY DEF EoiFor
<1> HIDE DEF t, O, N
<1>4. \A d \in O : t[d] = sh[d]  BY <1>1, <1>2
<1>5. isr \cup {LineAt(s.vector, c)} = {LineAt(t[d].vector, c) : d \in O \cup {N}}
  BY <1>1, <1>3, <1>4
<1>6. ASSUME NEW d \in O \cup {N}, NEW e \in O \cup {N}, d < e
      PROVE  LineAt(t[e].vector, c) < LineAt(t[d].vector, c)
  <2>1. d \in O  BY <1>2, <1>6 DEF N
  <2>2. CASE e \in O  BY <1>3, <1>4, <1>6, <2>1, <2>2
  <2>3. CASE e = N
    <3>1. LineAt(sh[d].vector, c) \in isr  BY <1>3, <2>1
    <3> QED BY <1>1, <1>4, <2>1, <2>3, <3>1
  <2> QED BY <2>2, <2>3
<1>7. EoiFor(t, p2, c, isr \cup {LineAt(s.vector, c)})  BY <1>1, <1>5, <1>6 DEF EoiFor
<1> QED BY <1>7 DEF t

\* The innermost handler ends; it owes nothing any more.
LEMMA EoiEnd ==
  ASSUME NEW sh \in Seq(Seen), NEW p, NEW p2, NEW c, NEW isr, EoiFor(sh, p, c, isr), sh # <<>>,
         ~OwesAt(sh[Len(sh)].vector, p, c), Len(sh) > 1 => p2 = sh[Len(sh)].ip
  PROVE  EoiFor(Front(sh), p2, c, isr)
<1> DEFINE L == Len(sh)
           t == Front(sh)
<1>1. L \in Nat \ {0}  BY EmptySeq, LenProperties
<1>2. t \in Seq(Seen) /\ Len(t) = L - 1 /\ \A d \in 1..L - 1 : t[d] = sh[d]  BY FrontFacts
<1> HIDE DEF t
<1>3. ASSUME NEW d \in 1..L - 1
      PROVE  OwesAt(t[d].vector, NextIp(t, p2, d), c) <=> OwesAt(sh[d].vector, NextIp(sh, p, d), c)
  <2>1. d # L  BY <1>1
  <2>2. CASE d = L - 1
    <3>1. d + 1 = L /\ L > 1  BY <1>1, <2>2
    <3>2. NextIp(sh, p, d) = sh[L].ip /\ NextIp(t, p2, d) = p2
      BY <1>2, <2>1, <2>2, <3>1 DEF NextIp
    <3> QED BY <1>2, <3>1, <3>2
  <2>3. CASE d # L - 1
    <3>1. d + 1 \in 1..L - 1  BY <1>1, <2>3
    <3>2. NextIp(t, p2, d) = NextIp(sh, p, d)  BY <1>2, <2>1, <2>3, <3>1 DEF NextIp
    <3> QED BY <1>2, <3>2
  <2> QED BY <2>2, <2>3
<1>4. \A d \in 1..L - 1 : d \in Owing(t, p2, c) <=> OwesAt(t[d].vector, NextIp(t, p2, d), c)
  BY <1>2, OwingFacts
<1>5. Owing(t, p2, c) \subseteq 1..L - 1  BY <1>2, OwingFacts
<1>6. /\ \A d \in 1..L : d \in Owing(sh, p, c) <=> OwesAt(sh[d].vector, NextIp(sh, p, d), c)
      /\ Owing(sh, p, c) \subseteq 1..L
  BY OwingFacts
<1>7. L \notin Owing(sh, p, c)
  <2>1. NextIp(sh, p, L) = p /\ L \in 1..L  BY <1>1 DEF NextIp
  <2> QED BY <1>6, <2>1
<1>8. \A d \in 1..L - 1 : d \in 1..L  BY <1>1
<1>9. \A d \in 1..L : d \in 1..L - 1 \/ d = L  BY <1>1
<1>10. Owing(t, p2, c) = Owing(sh, p, c)
  BY <1>3, <1>4, <1>5, <1>6, <1>7, <1>8, <1>9
<1>11. \A d \in Owing(sh, p, c) : t[d] = sh[d]  BY <1>2, <1>5, <1>10
<1>12. EoiFor(t, p2, c, isr)  BY <1>10, <1>11 DEF EoiFor
<1> QED BY <1>12 DEF t

-----------------------------------------------------------------------------
(* The steps of the stubs                                                    *)

\* An instruction of a stub is one of the innermost handler's.
LEMMA Inside ==
  ASSUME CpuTypeOK, SetUp, NEW b, LaidOut(shadow, Now, stack, b), InStub
  PROVE  /\ shadow # <<>> /\ Len(shadow) \in Nat \ {0}
         /\ shadow[Len(shadow)] \in Seen /\ b[Len(shadow)] \in Nat
         /\ Holds(shadow[Len(shadow)], Now, stack, b[Len(shadow)], Len(stack))
<1>1. ip.prog >= 0  BY DEF InStub
<1>2. shadow # <<>>
  <2> SUFFICES ASSUME shadow = <<>> PROVE FALSE  OBVIOUS
  <2>1. Bottom = ip  BY DEF Bottom
  <2> QED BY <1>1, <2>1 DEF SetUp, User, Main
<1>3. shadow \in Seq(Seen) /\ stack \in Seq(Items)  BY DEF CpuTypeOK
<1>4. Len(shadow) \in 1..Len(shadow) /\ Len(shadow) \in Nat /\ b[Len(shadow)] \in Nat
  <2>1. /\ Len(shadow) \in Nat /\ Len(shadow) \in 1..Len(shadow)
        /\ \A d \in 1..Len(shadow) + 1 : b[d] \in Nat
    BY <1>2, <1>3, LaidOutFacts
  <2>2. Len(shadow) \in 1..Len(shadow) + 1  BY <2>1
  <2> QED BY <2>1, <2>2
<1>5. shadow[Len(shadow)] \in Seen  BY <1>3, <1>4, ElementOfSeq
<1>6. GoesOn(shadow, Now, Len(shadow)) = Now  BY DEF GoesOn
<1>7. Holds(shadow[Len(shadow)], Now, stack, b[Len(shadow)], Len(stack))
  <2>1. /\ b[Len(shadow) + 1] = Len(stack)
        /\ Holds(shadow[Len(shadow)], GoesOn(shadow, Now, Len(shadow)), stack, b[Len(shadow)],
                 b[Len(shadow) + 1])
    BY <1>4 DEF LaidOut
  <2> QED BY <1>6, <2>1
<1>8. Len(shadow) \in Nat \ {0}  BY <1>4
<1> QED BY <1>2, <1>4, <1>5, <1>7, <1>8

LEMMA SetUpKept ==
  ASSUME SetUp, Bottom' = Bottom, UNCHANGED <<sti, gdt, idt, tss, loaded>>,
         shadow' # <<>> => Past(9),
         \A c \in ChipNames : /\ pic'[c].base = pic[c].base /\ pic'[c].stage = pic[c].stage
                              /\ pic'[c].mask = pic[c].mask /\ pic'[c].cascade = pic[c].cascade
  PROVE  SetUp'
<1>1. \A k : Past(k)' <=> Past(k)  BY DEF Past
<1>2. \A c \in ChipNames : Programmed(c)' <=> Programmed(c)  BY DEF Programmed
<1>3. "master" \in ChipNames /\ "slave" \in ChipNames  BY DEF ChipNames
<1> QED BY <1>1, <1>2, <1>3 DEF SetUp

LEMMA PastAll ==
  ASSUME SetUp, Past(9)
  PROVE  /\ gdt = gdt_entries /\ tss = write_tss /\ "tr" \in loaded /\ "idtr" \in loaded
         /\ idt = idt_entries /\ Programmed("master") /\ Programmed("slave")
         /\ pic["master"].base = 32 /\ pic["slave"].base = 40
<1>1. Past(3) /\ Past(5) /\ Past(6) /\ Past(7) /\ Past(8)
  BY DEF Past, SetUp
<1> QED BY <1>1 DEF SetUp

\* Retire of a controller is an EOI to it, and nothing else of it changes.
LEMMA Retired ==
  ASSUME pic \in [ChipNames -> Chips], NEW c \in ChipNames
  PROVE  /\ Retire(c) \in [ChipNames -> Chips]
         /\ pic[c].isr # {} => Retire(c)[c].isr = pic[c].isr \ {Min(pic[c].isr)}
         /\ \A e \in ChipNames :
              /\ e # c => Retire(c)[e] = pic[e]
              /\ Retire(c)[e].base = pic[e].base /\ Retire(c)[e].stage = pic[e].stage
              /\ Retire(c)[e].mask = pic[e].mask /\ Retire(c)[e].cascade = pic[e].cascade
  BY DEF Retire, Chips

LEMMA OwesOn ==
  ASSUME NEW v, NEW p, NEW p2, NEW c \in ChipNames, OpAt(p) \in Ops(v),
         OpAt(p) \notin {"eoislave", "eoimaster"},
         \/ OpAt(p2) = Following(v, OpAt(p))
         \/ OpAt(p) = "isr" /\ OpAt(p2) = "popsegs"
  PROVE  OwesAt(v, p2, c) <=> OwesAt(v, p, c)
<1>1. CASE v \in IrqVectors
  <2>1. v # 128 /\ OpAt(p) \in EntryOps(v) \cup IrqOps  BY <1>1 DEF IrqVectors, Ops
  <2>2. OpAt(p) # "isr"  BY <2>1 DEF EntryOps, IrqOps
  <2>3. OpAt(p2) = Following(v, OpAt(p))  BY <2>2
  <2> HIDE DEF OpAt
  <2> QED BY <1>1, <2>1, <2>3 DEF OwesAt, Following, EntryOps, IrqOps
<1>2. CASE v \notin IrqVectors
  <2>1. v \notin (IF c = "master" THEN 32..47 ELSE 40..47)  BY <1>2 DEF IrqVectors
  <2> QED BY <2>1 DEF OwesAt
<1> QED BY <1>1, <1>2

LEMMA IntNo ==
  ASSUME CpuTypeOK, NEW s \in Seen, NEW lo \in Nat, Works(s, Now, stack, lo, Len(stack)),
         Op \in {"eoislave", "eoimaster", "dispatch"}
  PROVE  s.vector \in IrqVectors /\ int_no = s.vector /\ s.vector \in Nat
<1>1. Op \in Ops(s.vector) /\ Len(stack) = lo + Height(s.vector, Op) /\ Suits(s, Op, Now, stack, lo)
  BY Onward
<1>2. s.vector # 128 /\ s.vector \in IrqVectors  BY <1>1 DEF Ops, SystemOps, EntryOps, IsrOps
<1>3. Height(s.vector, Op) = 5  BY DEF Height
<1>4. stack[lo + 3].n = s.vector  BY <1>1, <1>2, <1>3 DEF Suits, Ordinary
<1>5. Peek(3) = stack[lo + 3]
  <2>1. Len(stack) = lo + 5  BY <1>1, <1>3
  <2>2. 3 <= Len(stack) /\ Len(stack) + 1 - 3 = lo + 3  BY <2>1
  <2> QED BY ONLY <2>2 DEF Peek
<1>6. s.vector \in Nat
  <2>1. s.vector \in Vectors  BY DEF Seen
  <2> QED BY <2>1, VectorFacts, TrapsAssumption
<1> QED BY <1>2, <1>4, <1>5, <1>6 DEF int_no

\* What a step of the innermost handler does not touch
Stays == UNCHANGED <<shadow, sti, gdt, idt, tss, loaded>>

\* The frame and an error code under the words that it moves stay as they are.
LEMMA FrameStays ==
  ASSUME NEW s, NEW lo \in Nat, Holds(s, Now, stack, lo, Len(stack)), Goes(s, Under(s, lo))
  PROVE  /\ Holds(s, Now', stack', lo, Len(stack'))
         /\ \A i \in 1..lo : stack'[i] = stack[i]
<1>1. Under(s, lo) = IF s.vector \in Misframed THEN lo + 1 ELSE lo  BY DEF Under
<1>2. \A i \in 1..Under(s, lo) + 1 : stack'[i] = stack[i]  BY DEF Goes
<1>3. \A i \in 1..lo + 1 : stack'[i] = stack[i]  BY <1>1, <1>2
<1>4. s.vector \in Misframed => stack'[lo + 2] = stack[lo + 2]  BY <1>1, <1>2
<1>5. stack'[lo + 1] = stack[lo + 1]  BY <1>3
<1>6. Works(s, Now', stack', Under(s, lo), Len(stack'))  BY DEF Goes
<1> QED BY <1>3, <1>4, <1>5, <1>6 DEF Holds

\* Every step of a stub but IRET keeps the words in order, and
\* the instructions that send no EOI leave the debts as they are.
LEMMA StubKeeps ==
  ASSUME CpuTypeOK, SetUp, NEW b, LaidOut(shadow, Now, stack, b),
         shadow # <<>>, NEW s \in Seen, s = shadow[Len(shadow)], b[Len(shadow)] \in Nat,
         Holds(s, Now, stack, b[Len(shadow)], Len(stack)), Goes(s, Under(s, b[Len(shadow)])),
         Stays,
         \A c \in ChipNames : /\ pic'[c].base = pic[c].base /\ pic'[c].stage = pic[c].stage
                              /\ pic'[c].mask = pic[c].mask /\ pic'[c].cascade = pic[c].cascade,
         EoiInv'
  PROVE  StartInv'
<1>1. \E c : LaidOut(shadow, Now', stack', c)
  <2>1. shadow \in Seq(Seen) /\ stack \in Seq(Items) /\ stack' \in Seq(Items)
    BY DEF CpuTypeOK, Goes
  <2>2. /\ Holds(shadow[Len(shadow)], Now', stack', b[Len(shadow)], Len(stack'))
        /\ \A i \in 1..b[Len(shadow)] : stack'[i] = stack[i]
    BY FrameStays
  <2> QED BY <2>1, <2>2, LayTop
<1>2. Laid'  BY <1>1 DEF Laid, Stays
<1>3. Bottom' = Bottom  BY DEF Bottom, Stays
<1>4. SetUp'
  <2>1. Past(9)  BY DEF SetUp
  <2> QED BY <1>3, <2>1, SetUpKept DEF Stays
<1> QED BY <1>2, <1>4 DEF StartInv, Goes

LEMMA CallTypes ==
  ASSUME CpuTypeOK, shadow # <<>>
  PROVE  /\ Clobbered \in Regs /\ <<16, gp[2]>> \in Regs
         /\ <<SyscallResult, Clobbered[2]>> \in Regs /\ 16 \in Int
<1>1. Len(shadow) \in Nat  BY LenProperties DEF CpuTypeOK
<1>2. 100 + Len(shadow) \in Int  BY <1>1
<1>3. Clobbered = <<100 + Len(shadow), 100 + Len(shadow)>>  BY DEF Clobbered
<1>4. gp[2] \in Int  BY Result DEF CpuTypeOK
<1>5. Clobbered[2] \in Int  BY <1>2, <1>3
<1> QED BY <1>2, <1>3, <1>4, <1>5, Result

LEMMA SegmentsReady ==
  ASSUME SetUp, shadow # <<>>
  PROVE  DataSegment(16, 0)
  BY SegmentsUsable, PastAll DEF SetUp

\* The instructions that send no EOI.
LEMMA Quiet ==
  ASSUME CpuTypeOK, SetUp, NEW s \in Seen, NEW lo \in Nat, Works(s, Now, stack, lo, Len(stack)),
         shadow # <<>>,
         Push \/ KernelSegs \/ Dispatch \/ IsrHandler \/ SyscallHandler \/ SetEax \/ Drop
           \/ PopSegs \/ PopRegs
  PROVE  /\ Goes(s, lo) /\ UNCHANGED pic
         /\ UNCHANGED <<shadow, sti, gdt, idt, tss, loaded>>
         /\ Op \notin {"eoislave", "eoimaster"}
         /\ OpAt(ip') = Following(s.vector, Op) \/ (Op = "isr" /\ OpAt(ip') = "popsegs")
<1> DEFINE Same == UNCHANGED pic /\ UNCHANGED <<shadow, sti, gdt, idt, tss, loaded>>
<1>1. CASE Push
  <2>1. Goes(s, lo)  BY <1>1, PushNumbers, PushRegs, PushArgs DEF Push
  <2>2. Same /\ Advance /\ Op \notin {"eoislave", "eoimaster", "iret"}  BY <1>1 DEF Push, tables
  <2> QED BY <2>1, <2>2, Advanced
<1>2. CASE KernelSegs
  <2>1. Advance /\ seg' = 16 /\ gp' = <<16, gp[2]>> /\ UNCHANGED stack /\ Op = "kernelsegs" /\ Same
    BY <1>2, SegmentsReady DEF KernelSegs, tables
  <2>2. CpuTypeOK'  BY <2>1, Advanced, CallTypes DEF CpuTypeOK
  <2> QED BY <2>1, <2>2, Calls, Advanced
<1>3. CASE Dispatch
  <2>1. Advance /\ gp' = Clobbered /\ UNCHANGED <<seg, stack>> /\ Op = "dispatch" /\ Same
    BY <1>3 DEF Dispatch, tables
  <2>2. CpuTypeOK'  BY <2>1, Advanced, CallTypes DEF CpuTypeOK
  <2> QED BY <2>1, <2>2, Calls, Advanced
<1>4. CASE IsrHandler
  <2>1. gp' = Clobbered /\ UNCHANGED <<seg, stack>> /\ Op = "isr" /\ Same
        /\ (ip' = [ip EXCEPT !.at = @ + 1] \/ ip' = [ip EXCEPT !.at = @ + 2])
    BY <1>4 DEF IsrHandler, tables
  <2>2. CpuTypeOK'  BY <2>1, Onward, CallTypes DEF CpuTypeOK
  <2> QED BY <1>4, <2>1, <2>2, IsrCall, Onward
<1>5. CASE SyscallHandler
  <2>1. Advance /\ gp' = <<SyscallResult, Clobbered[2]>> /\ UNCHANGED <<seg, stack>>
        /\ Op = "syscall" /\ Same
    BY <1>5 DEF SyscallHandler, tables
  <2>2. CpuTypeOK'  BY <2>1, Advanced, CallTypes DEF CpuTypeOK
  <2> QED BY <1>5, <2>1, <2>2, SyscallCall, Advanced
<1>6. CASE SetEax
  <2>1. Advance /\ Op = "seteax" /\ Same  BY <1>6 DEF SetEax, tables
  <2> QED BY <1>6, <2>1, StoreResult, Advanced
<1>7. CASE Drop
  <2>1. Advance /\ (Op = "drop2" \/ Op = "drop4") /\ Same  BY <1>7 DEF Drop, tables
  <2> QED BY <1>7, <2>1, Drops, Advanced
<1>8. CASE PopSegs
  <2>1. Advance /\ Op = "popsegs" /\ Same  BY <1>8 DEF PopSegs, tables
  <2> QED BY <1>8, <2>1, PopsSegs, Advanced
<1>9. CASE PopRegs
  <2>1. Advance /\ Op = "popa" /\ Same  BY <1>9 DEF PopRegs, tables
  <2> QED BY <1>9, <2>1, PopsRegs, Advanced
<1> QED BY <1>1, <1>2, <1>3, <1>4, <1>5, <1>6, <1>7, <1>8, <1>9

LEMMA QuietStep ==
  ASSUME StartInv, InStub,
         Push \/ KernelSegs \/ Dispatch \/ IsrHandler \/ SyscallHandler \/ SetEax \/ Drop
           \/ PopSegs \/ PopRegs
  PROVE  StartInv'
<1> USE DEF StartInv
<1>1. PICK b : LaidOut(shadow, Now, stack, b)  BY DEF Laid
<1> DEFINE s == shadow[Len(shadow)]
           lo == Under(s, b[Len(shadow)])
<1>0. /\ shadow # <<>> /\ s \in Seen /\ b[Len(shadow)] \in Nat
      /\ Holds(s, Now, stack, b[Len(shadow)], Len(stack))
  BY <1>1, Inside
<1>2. shadow # <<>> /\ s \in Seen /\ lo \in Nat /\ Works(s, Now, stack, lo, Len(stack))
  <2> HIDE DEF s
  <2> QED BY <1>0, UnderFacts
<1> HIDE DEF lo
<1>3. /\ Goes(s, lo) /\ UNCHANGED pic
      /\ UNCHANGED <<shadow, sti, gdt, idt, tss, loaded>>
      /\ Op \notin {"eoislave", "eoimaster"}
      /\ OpAt(ip') = Following(s.vector, Op) \/ (Op = "isr" /\ OpAt(ip') = "popsegs")
  <2> HIDE DEF s
  <2> QED BY <1>2, Quiet
<1>4. Op = OpAt(ip) /\ Op \in Ops(s.vector)
  <2> HIDE DEF s
  <2> QED BY <1>2, Onward
<1>5. EoiInv'
  <2> SUFFICES ASSUME NEW c \in ChipNames PROVE EoiFor(shadow, ip', c, pic[c].isr)
    BY <1>3 DEF EoiInv
  <2>1. EoiFor(shadow, ip, c, pic[c].isr)  BY DEF EoiInv
  <2>2. OwesAt(s.vector, ip', c) <=> OwesAt(s.vector, ip, c)  BY <1>3, <1>4, OwesOn
  <2>3. shadow \in Seq(Seen)  BY DEF CpuTypeOK
  <2> QED BY <1>2, <2>1, <2>2, <2>3, EoiTop
<1>6. Goes(s, Under(s, b[Len(shadow)]))  BY <1>3 DEF lo
<1> QED BY <1>0, <1>1, <1>2, <1>3, <1>5, <1>6, StubKeeps DEF Stays

\* Sending an EOI
LEMMA EoiGoes ==
  ASSUME CpuTypeOK, NEW s \in Seen, NEW lo \in Nat, Works(s, Now, stack, lo, Len(stack)),
         EoiSlave \/ EoiMaster
  PROVE  /\ Goes(s, lo) /\ UNCHANGED <<shadow, sti, gdt, idt, tss, loaded>>
         /\ Op = OpAt(ip) /\ OpAt(ip') = Following(s.vector, Op)
         /\ s.vector \in IrqVectors
         /\ Op = "eoislave" => pic' = IF s.vector >= 40 THEN Retire("slave") ELSE pic
         /\ Op = "eoimaster" => pic' = Retire("master")
         /\ Op \in {"eoislave", "eoimaster"}
<1>1. /\ Op \in {"eoislave", "eoimaster"} /\ Advance /\ UNCHANGED <<gp, seg, stack, shadow>>
      /\ UNCHANGED <<sti, gdt, idt, tss, loaded>>
      /\ Op = "eoislave" => pic' = IF int_no - 32 >= 8 THEN Retire("slave") ELSE pic
      /\ Op = "eoimaster" => pic' = Retire("master")
  BY DEF EoiSlave, EoiMaster, tables
<1>2. s.vector \in IrqVectors /\ int_no = s.vector /\ s.vector \in Nat  BY <1>1, IntNo
<1>3. pic' \in [ChipNames -> Chips]
  <2>1. "master" \in ChipNames /\ "slave" \in ChipNames /\ pic \in [ChipNames -> Chips]
    BY DEF ChipNames, CpuTypeOK
  <2> QED BY <1>1, <2>1, Retired
<1>4. ip' \in Places /\ OpAt(ip') = Following(s.vector, Op)  BY <1>1, Advanced
<1>5. CpuTypeOK'  BY <1>1, <1>3, <1>4 DEF CpuTypeOK
<1>6. Goes(s, lo)  BY <1>1, <1>5, Calls
<1>7. Op = OpAt(ip)  BY Onward
<1>8. int_no - 32 >= 8 <=> s.vector >= 40  BY <1>2
<1> QED BY <1>1, <1>2, <1>4, <1>6, <1>7, <1>8

LEMMA EoiStep ==
  ASSUME StartInv, InStub, EoiSlave \/ EoiMaster
  PROVE  StartInv'
<1> USE DEF StartInv
<1>1. PICK b : LaidOut(shadow, Now, stack, b)  BY DEF Laid
<1> DEFINE s == shadow[Len(shadow)]
           lo == Under(s, b[Len(shadow)])
<1>0. /\ shadow # <<>> /\ s \in Seen /\ b[Len(shadow)] \in Nat
      /\ Holds(s, Now, stack, b[Len(shadow)], Len(stack))
  BY <1>1, Inside
<1>2. shadow # <<>> /\ s \in Seen /\ lo \in Nat /\ Works(s, Now, stack, lo, Len(stack))
  <2> HIDE DEF s
  <2> QED BY <1>0, UnderFacts
<1> HIDE DEF lo
<1>3. /\ Goes(s, lo) /\ UNCHANGED <<shadow, sti, gdt, idt, tss, loaded>>
      /\ Op = OpAt(ip) /\ OpAt(ip') = Following(s.vector, Op)
      /\ s.vector \in IrqVectors
      /\ Op = "eoislave" => pic' = IF s.vector >= 40 THEN Retire("slave") ELSE pic
      /\ Op = "eoimaster" => pic' = Retire("master")
      /\ Op \in {"eoislave", "eoimaster"}
  <2> HIDE DEF s
  <2> QED BY <1>2, EoiGoes
<1>4. /\ "master" \in ChipNames /\ "slave" \in ChipNames /\ pic \in [ChipNames -> Chips]
      /\ shadow \in Seq(Seen)
  BY DEF ChipNames, CpuTypeOK
<1>5. \A c \in ChipNames : /\ pic'[c].base = pic[c].base /\ pic'[c].stage = pic[c].stage
                           /\ pic'[c].mask = pic[c].mask /\ pic'[c].cascade = pic[c].cascade
  BY <1>3, <1>4, Retired
<1>6. \A c \in ChipNames : EoiFor(shadow, ip, c, pic[c].isr) /\ pic[c].isr \in SUBSET (0..7)
  BY <1>4 DEF EoiInv, Chips
<1>7. CASE Op = "eoislave"
  <2>1. OpAt(ip) = "eoislave" /\ OpAt(ip') = "eoimaster"  BY <1>3, <1>7 DEF Following
  <2>2. OwesAt(s.vector, ip', "master") <=> OwesAt(s.vector, ip, "master")
    BY <2>1 DEF OwesAt
  <2>3. pic'["master"] = pic["master"]  BY <1>3, <1>4, <1>7, Retired
  <2>4. EoiFor(shadow, ip', "master", pic'["master"].isr)
    BY <1>2, <1>4, <1>6, <2>2, <2>3, EoiTop
  <2>5. EoiFor(shadow, ip', "slave", pic'["slave"].isr)
    <3>1. CASE s.vector >= 40
      <4>1. OwesAt(s.vector, ip, "slave") /\ ~OwesAt(s.vector, ip', "slave")
        BY <1>3, <2>1, <3>1 DEF OwesAt, IrqVectors
      <4>2. /\ pic["slave"].isr # {}
            /\ EoiFor(shadow, ip', "slave", pic["slave"].isr \ {Min(pic["slave"].isr)})
        BY <1>2, <1>4, <1>6, <4>1, EoiSent
      <4>3. pic'["slave"].isr = pic["slave"].isr \ {Min(pic["slave"].isr)}
        BY <1>3, <1>4, <1>7, <3>1, <4>2, Retired
      <4> QED BY <4>2, <4>3
    <3>2. CASE ~(s.vector >= 40)
      <4>1. ~OwesAt(s.vector, ip, "slave") /\ ~OwesAt(s.vector, ip', "slave")
        BY <1>3, <3>2 DEF OwesAt, IrqVectors
      <4>2. pic' = pic  BY <1>3, <1>7, <3>2
      <4> QED BY <1>2, <1>4, <1>6, <4>1, <4>2, EoiTop
    <3> QED BY <3>1, <3>2
  <2> QED BY <1>0, <1>2, <1>1, <1>3, <1>5, <2>4, <2>5, StubKeeps DEF ChipNames, EoiInv, lo, Stays
<1>8. CASE Op = "eoimaster"
  <2>1. OpAt(ip) = "eoimaster" /\ OpAt(ip') = "dispatch"  BY <1>3, <1>8 DEF Following
  <2>2. ~OwesAt(s.vector, ip', "slave") /\ ~OwesAt(s.vector, ip, "slave")
    BY <2>1 DEF OwesAt
  <2>3. pic'["slave"] = pic["slave"]  BY <1>3, <1>4, <1>8, Retired
  <2>4. EoiFor(shadow, ip', "slave", pic'["slave"].isr)
    BY <1>2, <1>4, <1>6, <2>2, <2>3, EoiTop
  <2>5. OwesAt(s.vector, ip, "master") /\ ~OwesAt(s.vector, ip', "master")
    BY <1>3, <2>1 DEF OwesAt, IrqVectors
  <2>6. /\ pic["master"].isr # {}
        /\ EoiFor(shadow, ip', "master", pic["master"].isr \ {Min(pic["master"].isr)})
    BY <1>2, <1>4, <1>6, <2>5, EoiSent
  <2>7. pic'["master"].isr = pic["master"].isr \ {Min(pic["master"].isr)}
    BY <1>3, <1>4, <1>8, <2>6, Retired
  <2> QED BY <1>0, <1>2, <1>1, <1>3, <1>5, <2>4, <2>6, <2>7, StubKeeps
          DEF ChipNames, EoiInv, lo, Stays
<1> QED BY <1>3, <1>7, <1>8

\* Returning: everything is as it was when the handler began, but that int 0x80
\* leaves its result in eax; a misframed handler has an error code where its IRET
\* looks for the frame.
LEMMA Returns ==
  ASSUME StartInv, Iret
  PROVE  /\ shadow # <<>> /\ Last(shadow) \in Seen /\ seg' = Last(shadow).seg
         /\ gp'[2] = Last(shadow).gp[2]
         /\ gp'[1] = IF Last(shadow).vector = 128 THEN SyscallResult ELSE Last(shadow).gp[1]
         /\ Last(shadow).vector \in IrqVectors => gp' = Last(shadow).gp
         /\ Last(shadow).vector \notin IrqVectors => Last(shadow).ip.prog = User
         /\ ip' = IF Last(shadow).vector \in Misframed THEN Ip(Wild, 0) ELSE Last(shadow).ip
<1> USE DEF StartInv
<1>1. PICK b : LaidOut(shadow, Now, stack, b)  BY DEF Laid
<1> DEFINE s == shadow[Len(shadow)]
           lo == b[Len(shadow)]
<1>2. Op = "iret" /\ InStub  BY DEF Iret, Op
<1>3. shadow # <<>> /\ s \in Seen /\ lo \in Nat /\ Holds(s, Now, stack, lo, Len(stack))
  BY <1>1, <1>2, Inside
<1>4. Last(shadow) = s  BY DEF Last
<1> HIDE DEF lo, s
<1>5. PICK u \in Nat : /\ u = Under(s, lo) /\ Works(s, Now, stack, u, Len(stack))
                       /\ u = IF s.vector \in Misframed THEN lo + 1 ELSE lo
  BY <1>3, UnderFacts
<1>6. Len(stack) = u + 1 /\ Suits(s, "iret", Now, stack, u)
  BY <1>2, <1>3, <1>5, Onward DEF Height
<1>7. Peek(1) = stack[u + 1]
  <2>1. 1 <= Len(stack) /\ Len(stack) + 1 - 1 = u + 1  BY <1>5, <1>6
  <2> QED BY ONLY <2>1 DEF Peek
<1>8. s.vector \notin IrqVectors => s.ip.prog = User  BY <1>5 DEF Works
<1>9. ip' = IF s.vector \in Misframed THEN Ip(Wild, 0) ELSE s.ip
  <2>1. CASE s.vector \in Misframed
    <3>1. u + 1 = lo + 2  BY <1>3, <1>5, <2>1
    <3>2. Peek(1).is = "number"  BY <1>3, <1>7, <2>1, <3>1 DEF Holds
    <3> QED BY <2>1, <3>2 DEF Iret
  <2>2. CASE s.vector \notin Misframed
    <3>1. u + 1 = lo + 1  BY <1>5, <2>2
    <3>2. Peek(1).is = "frame" /\ Peek(1).ip = s.ip  BY <1>3, <1>7, <3>1 DEF Holds
    <3> QED BY <2>2, <3>2 DEF Iret
  <2> QED BY <2>1, <2>2
<1>10. gp' = gp /\ seg' = seg  BY DEF Iret
<1>11. CASE s.vector = 128
  <2>1. seg = s.seg /\ gp = <<SyscallResult, s.gp[2]>>
    BY <1>6, <1>11, NowFields DEF Suits, System
  <2>2. s.vector \notin IrqVectors  BY <1>11 DEF IrqVectors
  <2> QED BY <1>3, <1>4, <1>8, <1>9, <1>10, <1>11, <2>1, <2>2
<1>12. CASE s.vector # 128
  <2>1. seg = s.seg /\ gp = s.gp  BY <1>6, <1>12, NowFields DEF Suits, Ordinary
  <2> QED BY <1>3, <1>4, <1>8, <1>9, <1>10, <1>12, <2>1
<1> QED BY <1>11, <1>12

LEMMA IretStep ==
  ASSUME StartInv, Iret, Last(shadow).vector \notin Misframed
  PROVE  StartInv'
<1> USE DEF StartInv
<1> DEFINE L == Len(shadow)
           s == shadow[L]
<1>1. PICK b : LaidOut(shadow, Now, stack, b)  BY DEF Laid
<1>2. Op = "iret" /\ InStub  BY DEF Iret, Op
<1>3. shadow # <<>> /\ L \in Nat \ {0} /\ s \in Seen /\ b[L] \in Nat
      /\ Holds(s, Now, stack, b[L], Len(stack))
  BY <1>1, <1>2, Inside
<1>4. s = Last(shadow)  BY DEF Last
<1>5. /\ ip' = s.ip /\ seg' = s.seg /\ (s.vector \in IrqVectors => gp' = s.gp)
      /\ s.vector \notin IrqVectors => s.ip.prog = User
  BY <1>4, Returns
<1>6. /\ stack' = Popped(1) /\ shadow' = Front(shadow)
      /\ UNCHANGED <<gp, seg, sti, gdt, idt, tss, loaded, pic>>
  BY DEF Iret, tables
<1>7. shadow \in Seq(Seen) /\ stack \in Seq(Items)  BY DEF CpuTypeOK
<1>8. /\ Front(shadow) \in Seq(Seen) /\ Len(Front(shadow)) = L - 1
      /\ \A i \in 1..L - 1 : Front(shadow)[i] = shadow[i]
  BY <1>3, <1>7, FrontFacts
<1>9. /\ stack' \in Seq(Items) /\ Len(stack') = b[L]
      /\ \A i \in 1..Len(stack') : stack'[i] = stack[i]
  <2>1. Len(stack) = b[L] + 1
    <3> HIDE DEF s
    <3>1. Under(s, b[L]) = b[L]  BY <1>4 DEF Under
    <3>2. Works(s, Now, stack, b[L], Len(stack))  BY <1>3, <3>1, UnderFacts
    <3> QED BY <1>2, <1>3, <3>2, Onward DEF Height
  <2>2. 1 \in Nat /\ b[L] \in Nat /\ Len(stack) = b[L] + 1  BY <1>3, <2>1
  <2>3. /\ Popped(1) \in Seq(Items) /\ Len(Popped(1)) = b[L]
        /\ \A i \in 1..b[L] : Popped(1)[i] = stack[i]
    BY <2>2, PoppedWords, Zenon
  <2> QED BY <1>6, <2>3
<1>10. CpuTypeOK'
  <2>1. s.ip \in Places  BY <1>3 DEF Seen
  <2> QED BY <1>5, <1>6, <1>8, <1>9, <2>1 DEF CpuTypeOK
\* A handler in another is of an interrupt.
<1>11. L > 1 => s.vector \in IrqVectors
  <2> SUFFICES ASSUME L > 1 PROVE s.ip.prog # User  BY <1>5
  <2>1. L - 1 \in 1..L /\ (L - 1) + 1 = L /\ L - 1 # L  BY <1>3
  <2>2. GoesOn(shadow, Now, L - 1) = s  BY <2>1 DEF GoesOn
  <2>3. s.ip.prog = shadow[L - 1].vector  BY <1>1, <2>1, <2>2 DEF LaidOut, Holds, Works
  <2>4. shadow[L - 1] \in Seen  BY <1>7, <2>1, ElementOfSeq
  <2>5. shadow[L - 1].vector \in Nat  BY <2>4, VectorFacts, TrapsAssumption DEF Seen
  <2> QED BY <2>3, <2>5 DEF User
<1>12. Laid'
  <2>1. L > 1 => Now'.ip = s.ip /\ Now'.gp = s.gp /\ Now'.seg = s.seg
    BY <1>5, <1>11, NowFields
  <2>2. Ended(shadow, b, Now', stack, stack')  BY <1>9, <2>1 DEF Ended
  <2>3. shadow \in Seq(Seen) /\ shadow # <<>> /\ stack \in Seq(Items) /\ stack' \in Seq(Items)
    BY <1>3, <1>7, <1>9 DEF CpuTypeOK
  <2> HIDE DEF L, s
  <2>4. \E c : LaidOut(Front(shadow), Now', stack', c)
    BY <1>1, <2>2, <2>3, LayEnd
  <2> QED BY <1>6, <2>4 DEF Laid
<1>13. EoiInv'
  <2> SUFFICES ASSUME NEW c \in ChipNames PROVE EoiFor(Front(shadow), ip', c, pic[c].isr)
    BY <1>6 DEF EoiInv
  <2>1. EoiFor(shadow, ip, c, pic[c].isr)  BY DEF EoiInv
  <2>2. OpAt(ip) = "iret"
    <3> HIDE DEF s
    <3>1. Under(s, b[L]) \in Nat /\ Works(s, Now, stack, Under(s, b[L]), Len(stack))
      BY <1>3, UnderFacts
    <3> QED BY <1>2, <1>3, <3>1, Onward
  <2>3. ~OwesAt(s.vector, ip, c)  BY <2>2 DEF OwesAt
  <2> QED BY <1>3, <1>5, <1>7, <2>1, <2>3, EoiEnd
<1>14. Bottom' = Bottom
  <2>1. CASE L = 1
    <3>1. Front(shadow) = <<>>
      <4>1. Len(Front(shadow)) = 0  BY <1>8, <2>1
      <4> QED BY <1>8, <4>1, EmptySeq
    <3> QED BY <1>3, <1>5, <1>6, <2>1, <3>1 DEF Bottom
  <2>2. CASE L # 1
    <3>1. 1 \in 1..L - 1 /\ L - 1 # 0
      <4>1. PICK k \in Nat \ {0} : k = L  BY <1>3
      <4> QED BY <2>2, <4>1
    <3>2. Front(shadow) # <<>> /\ Front(shadow)[1] = shadow[1]
      <4>1. Len(Front(shadow)) # 0  BY <1>8, <3>1
      <4> QED BY <1>8, <3>1, <4>1, EmptySeq
    <3> QED BY <1>3, <1>6, <3>2 DEF Bottom
  <2> QED BY <2>1, <2>2
<1>15. SetUp'
  <2>1. Past(9)  BY <1>3 DEF SetUp
  <2> QED BY <1>6, <1>14, <2>1, SetUpKept
<1> QED BY <1>10, <1>12, <1>13, <1>15

-----------------------------------------------------------------------------
(* Entering a handler                                                        *)

LEMMA InHandler ==
  ASSUME CpuTypeOK, Laid, shadow # <<>>
  PROVE  InStub
<1>1. PICK b : LaidOut(shadow, Now, stack, b)  BY DEF Laid
<1>2. shadow \in Seq(Seen) /\ Len(shadow) \in 1..Len(shadow)
  <2>1. Len(shadow) \in Nat \ {0}  BY EmptySeq, LenProperties DEF CpuTypeOK
  <2> QED BY <2>1 DEF CpuTypeOK
<1>3. shadow[Len(shadow)].vector \in Nat
  <2>1. shadow[Len(shadow)] \in Seen  BY <1>2, ElementOfSeq
  <2> QED BY <2>1, VectorFacts, TrapsAssumption DEF Seen
<1>4. ip.prog = shadow[Len(shadow)].vector
  <2>1. GoesOn(shadow, Now, Len(shadow)) = Now  BY DEF GoesOn
  <2> QED BY <1>1, <1>2, <2>1, NowFields DEF LaidOut, Holds, Works
<1> QED BY <1>3, <1>4 DEF InStub

\* The stack when the CPU has entered the handler of what s describes, and what
\* it goes on with
Framed(st, s) ==
  st = stack \o <<FrameWord(s.ip)>>
         \o (IF s.vector \in CpuErrorCode THEN <<Number(0)>> ELSE <<>>)
Begins(n, s) == n.ip = Ip(s.vector, 1) /\ n.gp = s.gp /\ n.seg = s.seg

LEMMA Entered ==
  ASSUME CpuTypeOK, NEW s \in Seen, NEW st2, NEW n2, Framed(st2, s), Begins(n2, s),
         s.vector \notin IrqVectors => s.ip.prog = User
  PROVE  /\ st2 \in Seq(Items) /\ \A i \in 1..Len(stack) : st2[i] = stack[i]
         /\ Holds(s, n2, st2, Len(stack), Len(st2)) /\ OpAt(n2.ip) = First(s.vector)
<1> DEFINE f == FrameWord(s.ip)
           v == s.vector
           e == IF v \in CpuErrorCode THEN <<Number(0)>> ELSE <<>>
           mid == stack \o <<f>>
           k == Len(stack)
<1>1. stack \in Seq(Items) /\ k \in Nat  BY LenProperties DEF CpuTypeOK
<1>2. f \in Items /\ f.is = "frame" /\ f.ip = s.ip  BY WordTypes DEF Seen
<1>3. Number(0) \in Items  BY WordTypes
<1>4. e \in Seq(Items) /\ Len(e) = IF v \in CpuErrorCode THEN 1 ELSE 0
  <2>1. CASE v \in CpuErrorCode
    <3>1. e = <<Number(0)>>  BY <2>1
    <3> HIDE DEF Number
    <3> QED BY <1>3, <2>1, <3>1
  <2>2. CASE v \notin CpuErrorCode  BY <2>2, EmptySeq
  <2> QED BY <2>1, <2>2
<1>10. st2 = stack \o <<f>> \o e  BY DEF Framed
<1> HIDE DEF f, e
<1>5. <<f>> \in Seq(Items) /\ Len(<<f>>) = 1 /\ <<f>>[1] = f  BY <1>2
<1>6. /\ mid \in Seq(Items) /\ Len(mid) = k + 1
      /\ \A i \in 1..k : mid[i] = stack[i]
      /\ mid[k + 1] = f
  <2>1. /\ mid \in Seq(Items) /\ Len(mid) = Len(stack) + Len(<<f>>)
        /\ \A i \in 1..Len(stack) + Len(<<f>>) :
             mid[i] = IF i <= Len(stack) THEN stack[i] ELSE <<f>>[i - Len(stack)]
    BY <1>1, <1>5, ConcatProperties
  <2>2. \A i \in 1..k : i \in 1..k + 1 /\ i <= k  BY <1>1
  <2>3. k + 1 \in 1..k + 1 /\ ~(k + 1 <= k) /\ (k + 1) - k = 1  BY <1>1
  <2> HIDE DEF mid
  <2> QED BY <1>5, <2>1, <2>2, <2>3
<1>7. st2 = mid \o e  BY <1>10
<1> HIDE DEF mid
<1>8. /\ st2 \in Seq(Items) /\ Len(st2) = k + 1 + Len(e)
      /\ \A i \in 1..k + 1 : st2[i] = mid[i]
  <2>1. /\ st2 \in Seq(Items) /\ Len(st2) = Len(mid) + Len(e)
        /\ \A i \in 1..Len(mid) + Len(e) :
             st2[i] = IF i <= Len(mid) THEN mid[i] ELSE e[i - Len(mid)]
    <3>1. /\ mid \o e \in Seq(Items) /\ Len(mid \o e) = Len(mid) + Len(e)
          /\ \A i \in 1..Len(mid) + Len(e) :
               (mid \o e)[i] = IF i <= Len(mid) THEN mid[i] ELSE e[i - Len(mid)]
      <4>1. mid \in Seq(Items) /\ e \in Seq(Items)  BY <1>4, <1>6
      <4> QED BY <4>1, ConcatProperties, Zenon
    <3> QED BY <1>7, <3>1, Zenon
  <2>2. Len(e) \in Nat  BY <1>4, LenProperties
  <2>3. \A i \in 1..k + 1 : i \in 1..Len(mid) + Len(e) /\ i <= Len(mid)  BY <1>1, <1>6, <2>2
  <2> QED BY <1>6, <2>1, <2>3
<1>18. \A i \in 1..Len(mid) + Len(e) :
         st2[i] = IF i <= Len(mid) THEN mid[i] ELSE e[i - Len(mid)]
  <2>1. mid \in Seq(Items) /\ e \in Seq(Items)  BY <1>4, <1>6
  <2>2. \A i \in 1..Len(mid) + Len(e) :
          (mid \o e)[i] = IF i <= Len(mid) THEN mid[i] ELSE e[i - Len(mid)]
    BY <2>1, ConcatProperties, Zenon
  <2> QED BY <1>7, <2>2, Zenon
<1>9. /\ \A i \in 1..k : st2[i] = stack[i]
      /\ st2[k + 1] = f
  <2>1. \A i \in 1..k : i \in 1..k + 1  BY <1>1
  <2>2. k + 1 \in 1..k + 1  BY <1>1
  <2> QED BY <1>6, <1>8, <2>1, <2>2
<1>11. n2.gp = s.gp /\ n2.seg = s.seg  BY DEF Begins
<1>12. n2.ip.prog = v /\ n2.ip.at = 1  BY DEF Ip, Begins
<1>13. OpAt(n2.ip) = First(v) /\ n2.ip.at \in DOMAIN Stub(v)
  BY <1>12, StubFirst DEF OpAt
<1>14. PICK u \in Nat : /\ u = Under(s, k)
                        /\ u = IF v \in Misframed THEN k + 1 ELSE k
  BY <1>1 DEF Under
<1>15. Len(st2) = u + Height(v, First(v))
  <2>1. CASE v = 128
    <3>1. v \notin CpuErrorCode /\ v \notin Misframed  BY <2>1 DEF CpuErrorCode, Misframed
    <3> QED BY <1>1, <1>4, <1>8, <1>14, <2>1, <3>1 DEF First, Height
  <2>2. CASE v \in Coded
    <3>1. v \in CpuErrorCode /\ v \notin Misframed /\ v # 128
      BY <2>2 DEF CpuErrorCode, Misframed, Coded
    <3> QED BY <1>1, <1>4, <1>8, <1>14, <2>2, <3>1 DEF First, Height
  <2>3. CASE v \in Misframed
    <3>1. v \in CpuErrorCode /\ v \notin Coded /\ v # 128
      BY <2>3 DEF CpuErrorCode, Misframed, Coded
    <3> QED BY <1>1, <1>4, <1>8, <1>14, <2>3, <3>1 DEF First, Height
  <2>4. CASE v # 128 /\ v \notin Coded /\ v \notin Misframed
    <3>1. v \notin CpuErrorCode  BY <2>4 DEF CpuErrorCode, Misframed, Coded
    <3> QED BY <1>1, <1>4, <1>8, <1>14, <2>4, <3>1 DEF First, Height
  <2> QED BY <2>1, <2>2, <2>3, <2>4
<1>16. Suits(s, First(v), n2, st2, u)
  <2>1. CASE v = 128  BY <1>11, <2>1 DEF Suits, System, First
  <2>2. CASE v # 128
    <3>1. /\ First(v) \in {"pushnum", "push0"} /\ Height(v, First(v)) \in {1, 2}
      BY <2>2 DEF First, Height
    <3>2. ~(Height(v, First(v)) >= 3) /\ ~(Height(v, First(v)) >= 4) /\ ~(Height(v, First(v)) >= 5)
      BY <3>1
    <3> QED BY <1>11, <2>2, <3>1, <3>2 DEF Suits, Ordinary
  <2> QED BY <2>1, <2>2
<1>17. v \in Misframed => st2[k + 2].is = "number"
  <2> SUFFICES ASSUME v \in Misframed PROVE st2[k + 2].is = "number"  OBVIOUS
  <2>1. v \in CpuErrorCode  BY DEF CpuErrorCode, Misframed
  <2>2. e = <<Number(0)>>  BY <2>1 DEF e
  <2>3. Len(mid) = k + 1 /\ Len(e) = 1  BY <1>4, <1>6, <2>1
  <2>4. k + 2 \in 1..Len(mid) + Len(e) /\ ~(k + 2 <= Len(mid)) /\ (k + 2) - Len(mid) = 1
    BY <1>1, <2>3
  <2>5. st2[k + 2] = e[1]
    <3> HIDE DEF k
    <3> QED BY <1>18, <2>4
  <2> QED BY <2>2, <2>5 DEF Number, Item
<1>19. Works(s, n2, st2, u, Len(st2))
  BY <1>12, <1>13, <1>15, <1>16 DEF Works
<1>20. Holds(s, n2, st2, k, Len(st2))
  BY <1>2, <1>9, <1>14, <1>17, <1>19 DEF Holds
<1> QED BY <1>8, <1>9, <1>13, <1>20

\* Where an interrupted handler goes on: behind a HLT, at its instruction otherwise.
Back == IF Op = "halt" THEN [ip EXCEPT !.at = @ + 1] ELSE ip

LEMMA Interrupted ==
  ASSUME CpuTypeOK, SetUp, NEW b, LaidOut(shadow, Now, stack, b), NEW s,
         s.ip = Back, s.gp = gp, s.seg = seg
  PROVE  /\ Back \in Places /\ Back.prog = ip.prog
         /\ InStub => /\ Holds(shadow[Len(shadow)], s, stack, b[Len(shadow)], Len(stack))
                      /\ \A c \in ChipNames : OwesAt(shadow[Len(shadow)].vector, Back, c)
                                                <=> OwesAt(shadow[Len(shadow)].vector, ip, c)
<1>1. ip \in [prog : Int, at : Nat]  BY DEF CpuTypeOK, Places
<1>2. Back \in Places /\ Back.prog = ip.prog  BY <1>1 DEF Back, Places
<1>3. CASE Op # "halt"
  <2>1. Back = ip  BY <1>3 DEF Back
  <2>2. ASSUME InStub
        PROVE  Holds(shadow[Len(shadow)], s, stack, b[Len(shadow)], Len(stack))
    <3>1. Holds(shadow[Len(shadow)], Now, stack, b[Len(shadow)], Len(stack))
      BY <2>2, Inside
    <3> QED BY <2>1, <3>1, NowFields, HoldsSame
  <2> QED BY <1>2, <2>1, <2>2
<1>4. CASE Op = "halt" /\ InStub
  <2> DEFINE t == shadow[Len(shadow)]
             lo == b[Len(shadow)]
  <2>0. t \in Seen /\ lo \in Nat /\ Holds(t, Now, stack, lo, Len(stack))  BY <1>4, Inside
  <2> HIDE DEF t, lo
  <2>1. PICK u \in Nat : u = Under(t, lo) /\ Works(t, Now, stack, u, Len(stack))
    BY <2>0, UnderFacts
  <2>2. Back = [ip EXCEPT !.at = @ + 1]  BY <1>4 DEF Back
  <2>3. /\ Op = OpAt(ip) /\ Op \in Ops(t.vector) /\ Len(stack) = u + Height(t.vector, Op)
        /\ Suits(t, Op, Now, stack, u)
    BY <2>0, <2>1, Onward
  <2>4. Back.prog = t.vector /\ Back.at \in DOMAIN Stub(t.vector) /\ OpAt(Back) = "popsegs"
    BY <1>4, <2>0, <2>1, <2>2, Onward DEF Following
  <2>5. t.vector # 128  BY <1>4, <2>3 DEF Ops, SystemOps
  <2>6. Height(t.vector, Op) = 5 /\ Height(t.vector, "popsegs") = 5  BY <1>4 DEF Height
  <2>7. Suits(t, "popsegs", s, stack, u)  BY <1>4, <2>3, <2>5, <2>6 DEF Suits, Ordinary
  <2>8. Holds(t, s, stack, lo, Len(stack))
    <3>1. Works(t, s, stack, u, Len(stack))  BY <2>1, <2>3, <2>4, <2>6, <2>7 DEF Works
    <3> QED BY <2>0, <2>1, <3>1 DEF Holds
  <2>9. \A c \in ChipNames : OwesAt(t.vector, Back, c) <=> OwesAt(t.vector, ip, c)
    <3> HIDE DEF Back
    <3> QED BY <1>4, <2>3, <2>4 DEF OwesAt
  <2> QED BY <1>2, <2>8, <2>9 DEF t, lo
<1>5. CASE Op = "halt" /\ ~InStub  BY <1>2, <1>5
<1> QED BY <1>3, <1>4, <1>5

\* What the CPU does for a vector, whoever asks for it
LEMMA EnterKeeps ==
  ASSUME StartInv, Past(9), NEW v \in Vectors, NEW e,
         e = (IF v \in CpuErrorCode THEN <<Number(0)>> ELSE <<>>), EnterVector(v, e),
         v \notin IrqVectors => ip.prog = User,
         pic' \in [ChipNames -> Chips],
         \A c \in ChipNames : /\ pic'[c].base = pic[c].base /\ pic'[c].stage = pic[c].stage
                              /\ pic'[c].mask = pic[c].mask /\ pic'[c].cascade = pic[c].cascade
  PROVE  /\ CpuTypeOK' /\ SetUp' /\ Laid'
         /\ \E s \in Seen :
              /\ shadow' = Append(shadow, s) /\ s.vector = v /\ OpAt(ip') = First(v)
              /\ shadow # <<>> => \A c \in ChipNames :
                   OwesAt(shadow[Len(shadow)].vector, s.ip, c)
                     <=> OwesAt(shadow[Len(shadow)].vector, ip, c)
<1> USE DEF StartInv
<1>1. PICK b : LaidOut(shadow, Now, stack, b)  BY DEF Laid
<1> DEFINE s == [vector |-> v, ip |-> Back, gp |-> gp, seg |-> seg]
<1>2. Enterable(v)
  <2>1. ValidGate(v) /\ TssUsable  BY PastAll, GateReady, TssReady, TrapsAssumption
  <2>2. "idtr" \in loaded  BY PastAll
  <2> QED BY <2>1, <2>2 DEF Enterable
<1>3. Target(v) = v  BY PastAll, GateReady, TrapsAssumption
<1>4. /\ ip' = Ip(v, 1) /\ stack' = stack \o <<FrameWord(Back)>> \o e
      /\ shadow' = Append(shadow, s)
      /\ UNCHANGED <<gp, seg, sti, gdt, idt, tss, loaded>>
  BY <1>2, <1>3 DEF EnterVector, Back, tables
<1>5. /\ Back \in Places /\ Back.prog = ip.prog
      /\ InStub => /\ Holds(shadow[Len(shadow)], s, stack, b[Len(shadow)], Len(stack))
                   /\ \A c \in ChipNames : OwesAt(shadow[Len(shadow)].vector, Back, c)
                                             <=> OwesAt(shadow[Len(shadow)].vector, ip, c)
  <2>1. s.ip = Back /\ s.gp = gp /\ s.seg = seg  OBVIOUS
  <2> HIDE DEF s
  <2> QED BY <1>1, <2>1, Interrupted
<1>6. shadow # <<>> => InStub  BY InHandler
<1>7. Now'.ip = Ip(v, 1) /\ Now'.gp = gp /\ Now'.seg = seg  BY <1>4, NowFields
<1>8. /\ s \in Seen /\ stack' \in Seq(Items) /\ \A i \in 1..Len(stack) : stack'[i] = stack[i]
      /\ Holds(s, Now', stack', Len(stack), Len(stack')) /\ OpAt(Now'.ip) = First(v)
  <2>1. v \notin IrqVectors => Back.prog = User  BY <1>5
  <2>2. s.vector = v /\ s.ip = Back /\ s.gp = gp /\ s.seg = seg  OBVIOUS
  <2>3. s \in Seen  BY <1>5 DEF Seen, CpuTypeOK
  <2> HIDE DEF s
  <2>4. Framed(stack', s) /\ Begins(Now', s)  BY <1>4, <1>7, <2>2 DEF Framed, Begins
  <2> QED BY <2>1, <2>2, <2>3, <2>4, Entered
<1>9. shadow \in Seq(Seen) /\ stack \in Seq(Items)  BY DEF CpuTypeOK
<1>10. Laid'
  <2>1. shadow # <<>> => Holds(shadow[Len(shadow)], s, stack, b[Len(shadow)], Len(stack))
    BY <1>5, <1>6
  <2> HIDE DEF s
  <2>2. \E c : LaidOut(Append(shadow, s), Now', stack', c)
    BY <1>1, <1>8, <1>9, <2>1, LayNew
  <2> QED BY <1>4, <2>2 DEF Laid
<1>11. CpuTypeOK'
  <2>1. Append(shadow, s) \in Seq(Seen)  BY <1>8, <1>9, AppendProperties
  <2>2. v \in Int  BY VectorFacts, TrapsAssumption
  <2>3. Ip(v, 1) \in Places  BY <2>2 DEF Ip, Places
  <2> QED BY <1>4, <1>8, <2>1, <2>3 DEF CpuTypeOK
<1>12. Bottom' = Bottom
  <2>1. shadow' # <<>> /\ shadow'[1] = IF shadow = <<>> THEN s ELSE shadow[1]
    <3>1. /\ Append(shadow, s) # <<>> /\ Append(shadow, s)[Len(shadow) + 1] = s
          /\ \A i \in 1..Len(shadow) : Append(shadow, s)[i] = shadow[i]
      BY <1>8, <1>9, AppendProperties
    <3>2. CASE shadow = <<>>
      <4>1. Len(shadow) + 1 = 1  BY <3>2
      <4> QED BY <1>4, <3>1, <3>2, <4>1
    <3>3. CASE shadow # <<>>
      <4>1. Len(shadow) \in Nat \ {0}  BY <3>3, <1>9, EmptySeq, LenProperties
      <4>2. 1 \in 1..Len(shadow)  BY <4>1
      <4> QED BY <1>4, <3>1, <3>3, <4>2
    <3> QED BY <3>2, <3>3
  <2>2. CASE shadow = <<>>
    <3>1. Back = ip
      <4>1. ~InStub  BY <2>2 DEF InStub, SetUp, Bottom, User, Main
      <4> QED BY <4>1 DEF Back, Op
    <3> QED BY <2>1, <2>2, <3>1 DEF Bottom
  <2>3. CASE shadow # <<>>  BY <2>1, <2>3 DEF Bottom
  <2> QED BY <2>2, <2>3
<1>13. SetUp'  BY <1>4, <1>12, SetUpKept
<1>14. /\ shadow' = Append(shadow, s) /\ s.vector = v /\ OpAt(ip') = First(v) /\ s.ip = Back
  BY <1>4, <1>8, NowFields
<1>15. \E t \in Seen :
         /\ shadow' = Append(shadow, t) /\ t.vector = v /\ OpAt(ip') = First(v)
         /\ shadow # <<>> => \A c \in ChipNames :
              OwesAt(shadow[Len(shadow)].vector, t.ip, c)
                <=> OwesAt(shadow[Len(shadow)].vector, ip, c)
  <2> HIDE DEF s
  <2> QED BY <1>5, <1>6, <1>8, <1>14
<1> QED BY <1>10, <1>11, <1>13, <1>15

LEMMA TrapStep ==
  ASSUME StartInv, SoftwareInterrupt \/ Fault
  PROVE  StartInv'
<1> USE DEF StartInv
<1>1. PICK v : v \in {128, 177} \cup Faults
      /\ EnterVector(v, IF v \in CpuErrorCode THEN <<Number(0)>> ELSE <<>>)
  <2>1. CASE SoftwareInterrupt
    <3>1. PICK v \in {128, 177} : EnterVector(v, <<>>)  BY <2>1 DEF SoftwareInterrupt
    <3>2. v \notin CpuErrorCode  BY DEF CpuErrorCode
    <3> QED BY <3>1, <3>2
  <2>2. CASE Fault
    <3>1. PICK v \in Faults :
            EnterVector(v, IF v \in CpuErrorCode THEN <<Number(0)>> ELSE <<>>)
      BY <2>2 DEF Fault
    <3> QED BY <3>1
  <2> QED BY <2>1, <2>2
<1>2. ip.prog = User /\ pic' = pic  BY DEF SoftwareInterrupt, Fault
<1>3. v \in Vectors /\ v \notin IrqVectors
  <2>1. Faults \subseteq 0..31  BY VectorFacts, TrapsAssumption
  <2> QED BY <1>1, <2>1 DEF Vectors, IrqVectors
<1>4. shadow = <<>>
  <2> SUFFICES ASSUME shadow # <<>> PROVE FALSE  OBVIOUS
  <2> QED BY <1>2, InHandler DEF InStub, User
<1>5. Past(9)  BY <1>2, <1>4 DEF Past, Bottom
<1>6. pic' \in [ChipNames -> Chips]  BY <1>2 DEF CpuTypeOK
<1> DEFINE e == IF v \in CpuErrorCode THEN <<Number(0)>> ELSE <<>>
<1>7. EnterVector(v, e)  BY <1>1
<1>8. e = (IF v \in CpuErrorCode THEN <<Number(0)>> ELSE <<>>)  OBVIOUS
<1> HIDE DEF e
<1>9. /\ CpuTypeOK' /\ SetUp' /\ Laid'
      /\ \E s \in Seen :
           /\ shadow' = Append(shadow, s) /\ s.vector = v /\ OpAt(ip') = First(v)
           /\ shadow # <<>> => \A c \in ChipNames :
                OwesAt(shadow[Len(shadow)].vector, s.ip, c)
                  <=> OwesAt(shadow[Len(shadow)].vector, ip, c)
  BY <1>2, <1>3, <1>5, <1>6, <1>7, <1>8, EnterKeeps
<1>10. EoiInv'
  <2>1. PICK s \in Seen : shadow' = Append(shadow, s) /\ s.vector = v  BY <1>9
  <2> SUFFICES ASSUME NEW c \in ChipNames PROVE EoiFor(Append(shadow, s), ip', c, pic[c].isr)
    BY <1>2, <2>1 DEF EoiInv
  <2>2. EoiFor(shadow, ip, c, pic[c].isr)  BY DEF EoiInv
  <2>3. ~OwesAt(s.vector, ip', c)  BY <1>3, <2>1 DEF OwesAt, IrqVectors
  <2>4. shadow \in Seq(Seen)  BY DEF CpuTypeOK
  <2> QED BY <1>4, <2>2, <2>3, <2>4, EoiNone
<1> QED BY <1>9, <1>10

\* The line that the controllers deliver
LEMMA Delivered ==
  ASSUME pic \in [ChipNames -> Chips], NEW l \in 0..15
  PROVE  /\ Acknowledged(l) \in [ChipNames -> Chips]
         /\ \A c \in ChipNames :
              /\ Acknowledged(l)[c].base = pic[c].base /\ Acknowledged(l)[c].stage = pic[c].stage
              /\ Acknowledged(l)[c].mask = pic[c].mask
              /\ Acknowledged(l)[c].cascade = pic[c].cascade
         /\ l < 8 => /\ Acknowledged(l)["master"].isr = pic["master"].isr \cup {l}
                     /\ Acknowledged(l)["slave"].isr = pic["slave"].isr
         /\ l >= 8 => /\ Acknowledged(l)["master"].isr = pic["master"].isr \cup {2}
                      /\ Acknowledged(l)["slave"].isr = pic["slave"].isr \cup {l - 8}
<1>1. l < 8 => l % 8 = l /\ l \in 0..7  OBVIOUS
<1>2. l >= 8 => l % 8 = l - 8 /\ l - 8 \in 0..7  OBVIOUS
<1>3. CASE l < 8
  <2>1. Chip(l) = "master"  BY <1>3 DEF Chip
  <2> DEFINE taken == [pic EXCEPT !["master"].irr = @ \ {l}, !["master"].isr = @ \cup {l}]
  <2>2. Acknowledged(l) = taken  BY <1>1, <1>3, <2>1 DEF Acknowledged
  <2>3. /\ taken \in [ChipNames -> Chips] /\ taken["slave"] = pic["slave"]
        /\ taken["master"].isr = pic["master"].isr \cup {l}
        /\ \A c \in ChipNames :
             /\ taken[c].base = pic[c].base /\ taken[c].stage = pic[c].stage
             /\ taken[c].mask = pic[c].mask /\ taken[c].cascade = pic[c].cascade
    BY <1>1, <1>3 DEF ChipNames, Chips
  <2>4. ~(l >= 8)  BY <1>3
  <2> HIDE DEF taken
  <2> QED BY <2>2, <2>3, <2>4
<1>4. CASE l >= 8
  <2>1. Chip(l) = "slave" /\ ~(l < 8)  BY <1>4 DEF Chip
  <2> DEFINE taken == [pic EXCEPT !["slave"].irr = @ \ {l - 8}, !["slave"].isr = @ \cup {l - 8}]
  <2>2. Acknowledged(l) = [taken EXCEPT !["master"].isr = @ \cup {2}]
    BY <1>2, <1>4, <2>1 DEF Acknowledged
  <2>3. /\ taken \in [ChipNames -> Chips] /\ taken["master"] = pic["master"]
        /\ taken["slave"].isr = pic["slave"].isr \cup {l - 8}
        /\ \A c \in ChipNames :
             /\ taken[c].base = pic[c].base /\ taken[c].stage = pic[c].stage
             /\ taken[c].mask = pic[c].mask /\ taken[c].cascade = pic[c].cascade
    BY <1>2, <1>4 DEF ChipNames, Chips
  <2> HIDE DEF taken
  <2>4. /\ Acknowledged(l) \in [ChipNames -> Chips]
        /\ Acknowledged(l)["slave"] = taken["slave"]
        /\ Acknowledged(l)["master"].isr = taken["master"].isr \cup {2}
        /\ \A c \in ChipNames :
             /\ Acknowledged(l)[c].base = taken[c].base
             /\ Acknowledged(l)[c].stage = taken[c].stage
             /\ Acknowledged(l)[c].mask = taken[c].mask
             /\ Acknowledged(l)[c].cascade = taken[c].cascade
    BY <2>2, <2>3 DEF ChipNames, Chips
  <2> QED BY <1>4, <2>3, <2>4
<1> QED BY <1>3, <1>4

LEMMA InterruptStep ==
  ASSUME StartInv, NEW l \in Lines, Interrupt(l)
  PROVE  StartInv'
<1> USE DEF StartInv
<1>1. l \in 0..15 /\ 32 + l \in Vectors  BY VectorFacts, TrapsAssumption
<1>2. sti /\ Deliverable(l) /\ pic' = Acknowledged(l) /\ EnterVector(VectorOf(l), <<>>)
  BY DEF Interrupt
<1>3. Past(9)  BY <1>2 DEF SetUp
<1>4. pic["master"].base = 32 /\ pic["slave"].base = 40  BY <1>3, PastAll
<1>5. VectorOf(l) = 32 + l
  <2>1. CASE l < 8
    <3>1. l % 8 = l /\ Chip(l) = "master"  BY <1>1, <2>1 DEF Chip
    <3> QED BY <1>4, <3>1 DEF VectorOf
  <2>2. CASE ~(l < 8)
    <3>1. l % 8 = l - 8 /\ Chip(l) = "slave"  BY <1>1, <2>2 DEF Chip
    <3>2. 40 + (l - 8) = 32 + l  BY <1>1
    <3> QED BY <1>4, <3>1, <3>2 DEF VectorOf
  <2> QED BY <2>1, <2>2
<1>6. PICK v : v = 32 + l  OBVIOUS
<1>7. /\ v \in Vectors /\ v \in IrqVectors /\ v # 128 /\ v \in 32..47
      /\ v \notin CpuErrorCode /\ v \notin Coded
  BY <1>1, <1>6 DEF IrqVectors, CpuErrorCode, Coded
<1>8. EnterVector(v, <<>>)  BY <1>2, <1>5, <1>6
<1>9. pic \in [ChipNames -> Chips]  BY DEF CpuTypeOK
<1>10. /\ pic' \in [ChipNames -> Chips]
       /\ \A c \in ChipNames : /\ pic'[c].base = pic[c].base /\ pic'[c].stage = pic[c].stage
                               /\ pic'[c].mask = pic[c].mask /\ pic'[c].cascade = pic[c].cascade
       /\ l < 8 => /\ pic'["master"].isr = pic["master"].isr \cup {l}
                   /\ pic'["slave"].isr = pic["slave"].isr
       /\ l >= 8 => /\ pic'["master"].isr = pic["master"].isr \cup {2}
                    /\ pic'["slave"].isr = pic["slave"].isr \cup {l - 8}
  BY <1>1, <1>2, <1>9, Delivered
<1>11. PICK e : e = (IF v \in CpuErrorCode THEN <<Number(0)>> ELSE <<>>)  OBVIOUS
<1>12. EnterVector(v, e)  BY <1>7, <1>8, <1>11
<1>13. /\ CpuTypeOK' /\ SetUp' /\ Laid'
       /\ \E s \in Seen :
            /\ shadow' = Append(shadow, s) /\ s.vector = v /\ OpAt(ip') = First(v)
            /\ shadow # <<>> => \A c \in ChipNames :
                 OwesAt(shadow[Len(shadow)].vector, s.ip, c)
                   <=> OwesAt(shadow[Len(shadow)].vector, ip, c)
  BY <1>3, <1>7, <1>10, <1>11, <1>12, EnterKeeps
<1>14. PICK s \in Seen :
            /\ shadow' = Append(shadow, s) /\ s.vector = v /\ OpAt(ip') = First(v)
            /\ shadow # <<>> => \A c \in ChipNames :
                 OwesAt(shadow[Len(shadow)].vector, s.ip, c)
                   <=> OwesAt(shadow[Len(shadow)].vector, ip, c)
  BY <1>13
<1>15. OpAt(ip') = "push0"  BY <1>7, <1>14 DEF First
<1>16. shadow \in Seq(Seen)  BY DEF CpuTypeOK
<1>17. /\ "master" \in ChipNames /\ "slave" \in ChipNames
       /\ \A c \in ChipNames : EoiFor(shadow, ip, c, pic[c].isr) /\ pic[c].isr \in SUBSET (0..7)
  BY <1>9 DEF ChipNames, EoiInv, Chips
<1>18. OwesAt(s.vector, ip', "master")  BY <1>7, <1>14, <1>15 DEF OwesAt
<1>19. CASE l < 8
  <2>1. \A k \in pic["master"].isr : l < k
    BY <1>2, <1>19 DEF Deliverable, Above
  <2>2. LineAt(s.vector, "master") = l
    <3>1. ~(v >= 40) /\ v - 32 = l  BY <1>1, <1>6, <1>19
    <3> QED BY <1>14, <3>1 DEF LineAt
  <2>3. EoiFor(Append(shadow, s), ip', "master", pic["master"].isr \cup {LineAt(s.vector, "master")})
    BY <1>14, <1>16, <1>17, <1>18, <2>1, <2>2, EoiNew
  <2>4. ~OwesAt(s.vector, ip', "slave")
    <3>1. v \notin 40..47  BY <1>1, <1>6, <1>19
    <3> QED BY <1>14, <3>1 DEF OwesAt
  <2>5. EoiFor(Append(shadow, s), ip', "slave", pic["slave"].isr)
    BY <1>14, <1>16, <1>17, <2>4, EoiNone
  <2>6. EoiInv'  BY <1>10, <1>14, <1>19, <2>2, <2>3, <2>5 DEF EoiInv, ChipNames
  <2> QED BY <1>13, <2>6
<1>20. CASE ~(l < 8)
  <2>1. /\ \A k \in pic["master"].isr : 2 < k
        /\ \A k \in pic["slave"].isr : l - 8 < k
    BY <1>2, <1>20 DEF Deliverable, Above
  <2>2. LineAt(s.vector, "master") = 2 /\ LineAt(s.vector, "slave") = l - 8
    <3>1. v >= 40 /\ v - 40 = l - 8  BY <1>1, <1>6, <1>20
    <3> QED BY <1>14, <3>1 DEF LineAt
  <2>3. EoiFor(Append(shadow, s), ip', "master", pic["master"].isr \cup {LineAt(s.vector, "master")})
    BY <1>14, <1>16, <1>17, <1>18, <2>1, <2>2, EoiNew
  <2>4. OwesAt(s.vector, ip', "slave")
    <3>1. v \in 40..47  BY <1>1, <1>6, <1>20
    <3> QED BY <1>14, <1>15, <3>1 DEF OwesAt
  <2>5. EoiFor(Append(shadow, s), ip', "slave", pic["slave"].isr \cup {LineAt(s.vector, "slave")})
    BY <1>14, <1>16, <1>17, <2>1, <2>2, <2>4, EoiNew
  <2>6. l >= 8  BY <1>1, <1>20
  <2>7. EoiInv'  BY <1>10, <1>14, <2>2, <2>3, <2>5, <2>6 DEF EoiInv, ChipNames
  <2> QED BY <1>13, <2>7
<1> QED BY <1>19, <1>20

LEMMA TrapsInv ==
  ASSUME StartInv, CpuTraps, ~(Iret /\ Last(shadow).vector \in Misframed)
  PROVE  StartInv'
<1>1. ASSUME NEW l \in Lines, Interrupt(l) PROVE StartInv'  BY <1>1, InterruptStep
<1>2. CASE SoftwareInterrupt \/ Fault  BY <1>2, TrapStep
<1>3. CASE Iret  BY <1>3, IretStep
<1>4. CASE EoiSlave \/ EoiMaster
  <2>1. InStub  BY <1>4 DEF EoiSlave, EoiMaster, Op
  <2> QED BY <1>4, <2>1, EoiStep
<1>5. CASE Push \/ KernelSegs \/ Dispatch \/ IsrHandler \/ SyscallHandler \/ SetEax \/ Drop
             \/ PopSegs \/ PopRegs
  <2>1. InStub
    BY <1>5 DEF Op, Push, KernelSegs, Dispatch, IsrHandler, SyscallHandler, SetEax, Drop,
                PopSegs, PopRegs
  <2> QED BY <1>5, <2>1, QuietStep
<1> QED BY <1>1, <1>2, <1>3, <1>4, <1>5 DEF CpuTraps, StubStep

LEMMA DeviceInv ==
  ASSUME StartInv, Device
  PROVE  StartInv'
<1> USE DEF StartInv
<1>1. UNCHANGED <<ip, gp, seg, stack, shadow, sti, gdt, idt, tss, loaded>>
  BY DEF Device, Raise, cpu, tables
<1>2. PICK l \in 0..15 : pic' = Requested(l)
  <2>1. \A l \in Lines : l \in 0..15  BY VectorFacts, TrapsAssumption
  <2>2. 1 \in 0..15  OBVIOUS
  <2> QED BY <2>1, <2>2 DEF Device, Raise
<1>3. pic \in [ChipNames -> Chips]  BY DEF CpuTypeOK
<1>4. l % 8 \in 0..7 /\ Chip(l) \in ChipNames  BY DEF Chip, ChipNames
<1>5. /\ pic' \in [ChipNames -> Chips]
      /\ \A c \in ChipNames : /\ pic'[c].base = pic[c].base /\ pic'[c].stage = pic[c].stage
                              /\ pic'[c].mask = pic[c].mask /\ pic'[c].cascade = pic[c].cascade
                              /\ pic'[c].isr = pic[c].isr
  BY <1>2, <1>3, <1>4 DEF Requested, Chips
<1>6. CpuTypeOK'  BY <1>1, <1>5 DEF CpuTypeOK
<1>7. SetUp'
  <2>1. Bottom' = Bottom  BY <1>1 DEF Bottom
  <2>2. shadow' # <<>> => Past(9)  BY <1>1 DEF SetUp
  <2> QED BY <1>1, <1>5, <2>1, <2>2, SetUpKept
<1>8. Laid'
  <2>1. Now' = Now  BY <1>1 DEF Now
  <2> QED BY <1>1, <2>1 DEF Laid
<1>9. EoiInv'  BY <1>1, <1>5 DEF EoiInv
<1> QED BY <1>6, <1>7, <1>8, <1>9

-----------------------------------------------------------------------------
(* kernel_main                                                               *)

LEMMA PicExists ==
  \E w : w = [n \in 0..Len(PicWrites) |->
                IF n = 0 THEN pic ELSE PicWrite(w[n - 1], PicWrites[n])]
<1> DEFINE G(k, w) == w = [n \in 0..k |->
                             IF n = 0 THEN pic ELSE PicWrite(w[n - 1], PicWrites[n])]
           S == {k \in Nat : \E w : G(k, w)}
<1>1. 0 \in S
  <2>1. G(0, [n \in 0..0 |-> pic])  OBVIOUS
  <2> QED BY <2>1
<1>2. ASSUME NEW k \in Nat, k \in S PROVE k + 1 \in S
  <2>1. PICK v : G(k, v)  BY <1>2
  <2> DEFINE w == [n \in 0..k + 1 |->
                     IF n = k + 1 THEN PicWrite(v[k], PicWrites[k + 1]) ELSE v[n]]
  <2>2. \A n \in 0..k + 1 : w[n] = IF n = 0 THEN pic ELSE PicWrite(w[n - 1], PicWrites[n])
    <3> TAKE n \in 0..k + 1
    <3>1. CASE n = k + 1
      <4>1. k \in 0..k + 1 /\ k # k + 1 /\ n - 1 = k /\ n # 0  BY <3>1
      <4>2. w[k] = v[k]  BY <4>1
      <4> QED BY <3>1, <4>1, <4>2
    <3>2. CASE n # k + 1
      <4>1. n \in 0..k /\ w[n] = v[n]  BY <3>2
      <4>2. v[n] = IF n = 0 THEN pic ELSE PicWrite(v[n - 1], PicWrites[n])  BY <2>1, <4>1
      <4>3. CASE n = 0  BY <4>1, <4>2, <4>3
      <4>4. CASE n # 0
        <5>1. n - 1 \in 0..k + 1 /\ n - 1 # k + 1  BY <4>1, <4>4
        <5>2. w[n - 1] = v[n - 1]  BY <5>1
        <5> QED BY <4>1, <4>2, <4>4, <5>2
      <4> QED BY <4>3, <4>4
    <3> QED BY <3>1, <3>2
  <2>3. G(k + 1, w)  BY <2>2
  <2>4. \E x : G(k + 1, x)
    <3> HIDE DEF w
    <3> QED BY <2>3
  <2> QED BY <2>4
<1>3. Nat \subseteq S
  <2> HIDE DEF S
  <2> QED BY <1>1, <1>2, Induction
<1>4. Len(PicWrites) \in Nat  BY DEF PicWrites
<1> QED BY <1>3, <1>4

LEMMA PicSteps ==
  /\ PicAfter[0] = pic
  /\ \A n \in 1..10 : PicAfter[n] = PicWrite(PicAfter[n - 1], PicWrites[n])
  /\ Len(PicWrites) = 10
<1>1. PicAfter = [n \in 0..Len(PicWrites) |->
                    IF n = 0 THEN pic ELSE PicWrite(PicAfter[n - 1], PicWrites[n])]
  <2>1. PICK w : w = [n \in 0..Len(PicWrites) |->
                        IF n = 0 THEN pic ELSE PicWrite(w[n - 1], PicWrites[n])]
    BY PicExists
  <2> QED BY <2>1 DEF PicAfter
<1>2. Len(PicWrites) = 10  BY DEF PicWrites
<1>3. \A n \in 0..10 : PicAfter[n] = IF n = 0 THEN pic
                                     ELSE PicWrite(PicAfter[n - 1], PicWrites[n])
  BY <1>1, <1>2
<1>4. \A n \in 1..10 : n \in 0..10 /\ n # 0  OBVIOUS
<1>5. 0 \in 0..10  OBVIOUS
<1> QED BY <1>2, <1>3, <1>4, <1>5

\* A write to the command port and to the data port of a controller
Commands(p, c, q) == q = PicWrite(p, <<IF c = "master" THEN 32 ELSE 160, 17>>)
Tells(p, c, x, q) == q = PicWrite(p, <<IF c = "master" THEN 33 ELSE 161, x>>)

Byte(x) == x \in Int

\* Only controller c changes.
Only(p, c, q) == q \in [ChipNames -> Chips] /\ \A d \in ChipNames : d # c => q[d] = p[d]

\* A controller in the middle of the initialisation, with what it has been told
Told(q, stage, base, cascade) ==
  q.stage = stage /\ q.isr = {} /\ q.base = base /\ q.cascade = cascade

Initialised(q, base, cascade) == Told(q, 0, base, cascade) /\ q.mask = 0

LEMMA Put ==
  ASSUME NEW p \in [ChipNames -> Chips], NEW c \in ChipNames, NEW r \in Chips
  PROVE  Only(p, c, [p EXCEPT ![c] = r]) /\ [p EXCEPT ![c] = r][c] = r
  BY DEF Only

LEMMA OnlyTwice ==
  ASSUME NEW p, NEW c, NEW q, NEW r, Only(p, c, q), Only(q, c, r)
  PROVE  Only(p, c, r)
  BY DEF Only

LEMMA TellCommand ==
  ASSUME NEW p \in [ChipNames -> Chips], NEW c \in ChipNames, NEW q, Commands(p, c, q)
  PROVE  Only(p, c, q) /\ q[c].stage = 1 /\ q[c].isr = {}
<1> DEFINE p1 == [p EXCEPT ![c].stage = 1]
           p2 == [p1 EXCEPT ![c].isr = {}]
           p3 == [p2 EXCEPT ![c].irr = {}]
<1>1. q = p3
  <2>1. CASE c = "master"
    <3>1. q = PicWrite(p, <<32, 17>>)  BY <2>1 DEF Commands
    <3> QED BY <2>1, <3>1 DEF PicWrite
  <2>2. CASE c = "slave"
    <3>1. q = PicWrite(p, <<160, 17>>)  BY <2>2 DEF Commands
    <3> QED BY <2>2, <3>1 DEF PicWrite
  <2> QED BY <2>1, <2>2 DEF ChipNames
<1>2. Only(p, c, p1) /\ p1[c] = [p[c] EXCEPT !.stage = 1]
  <2>1. [p[c] EXCEPT !.stage = 1] \in Chips  BY DEF Chips
  <2> QED BY <2>1, Put
<1>3. ASSUME p1 \in [ChipNames -> Chips]
      PROVE  Only(p1, c, p2) /\ p2[c] = [p1[c] EXCEPT !.isr = {}]
  <2> HIDE DEF p1
  <2>1. [p1[c] EXCEPT !.isr = {}] \in Chips  BY <1>3 DEF Chips
  <2> QED BY <1>3, <2>1, Put
<1>4. ASSUME p2 \in [ChipNames -> Chips]
      PROVE  Only(p2, c, p3) /\ p3[c] = [p2[c] EXCEPT !.irr = {}]
  <2> HIDE DEF p2
  <2>1. [p2[c] EXCEPT !.irr = {}] \in Chips  BY <1>4 DEF Chips
  <2> QED BY <1>4, <2>1, Put
<1> HIDE DEF p1, p2, p3
<1>5. p1 \in [ChipNames -> Chips]  BY <1>2 DEF Only
<1>6. p2 \in [ChipNames -> Chips]  BY <1>3, <1>5 DEF Only
<1>7. Only(p, c, p3)  BY <1>2, <1>3, <1>4, <1>5, <1>6, OnlyTwice
<1>8. p1[c].stage = 1 /\ p1[c] \in Chips  BY <1>2, <1>5 DEF Chips
<1>9. p2[c].stage = 1 /\ p2[c].isr = {} /\ p2[c] \in Chips  BY <1>3, <1>5, <1>6, <1>8 DEF Chips
<1>10. p3[c].stage = 1 /\ p3[c].isr = {}  BY <1>4, <1>6, <1>9 DEF Chips
<1> QED BY <1>1, <1>7, <1>10

\* What a byte on the data port of a chip changes.
Takes(p, c, x, q) ==
  /\ p[c].stage = 1 => q = [p EXCEPT ![c].base = x, ![c].stage = 2]
  /\ p[c].stage = 2 => q = [p EXCEPT ![c].cascade = x, ![c].stage = 3]
  /\ p[c].stage = 3 => q = [p EXCEPT ![c].stage = 0]
  /\ p[c].stage = 0 => q = [p EXCEPT ![c].mask = x]

LEMMA WriteData ==
  ASSUME NEW p \in [ChipNames -> Chips], NEW c \in ChipNames, NEW x, Byte(x), NEW q,
         Tells(p, c, x, q)
  PROVE  Takes(p, c, x, q)
<1> DEFINE w == <<IF c = "master" THEN 33 ELSE 161, x>>
           d == IF w[1] \in {32, 33} THEN "master" ELSE "slave"
<1>1. d = c /\ w[1] \in {33, 161} /\ w[1] \notin {32, 160} /\ w[2] = x  BY DEF ChipNames
<1>2. q = CASE w[1] \in {32, 160} /\ w[2] = 17 ->
                 [p EXCEPT ![d].stage = 1, ![d].isr = {}, ![d].irr = {}]
            [] w[1] \in {33, 161} /\ p[d].stage = 1 ->
                 [p EXCEPT ![d].base = w[2], ![d].stage = 2]
            [] w[1] \in {33, 161} /\ p[d].stage = 2 ->
                 [p EXCEPT ![d].cascade = w[2], ![d].stage = 3]
            [] w[1] \in {33, 161} /\ p[d].stage = 3 -> [p EXCEPT ![d].stage = 0]
            [] OTHER -> [p EXCEPT ![d].mask = w[2]]
  BY DEF PicWrite, Tells
<1> HIDE DEF d, w
<1>3. CASE p[c].stage = 1  BY <1>1, <1>2, <1>3 DEF Takes
<1>4. CASE p[c].stage = 2  BY <1>1, <1>2, <1>4 DEF Takes
<1>5. CASE p[c].stage = 3  BY <1>1, <1>2, <1>5 DEF Takes
<1>6. CASE p[c].stage = 0  BY <1>1, <1>2, <1>6 DEF Takes
<1> QED BY <1>3, <1>4, <1>5, <1>6 DEF Takes

LEMMA TellBase ==
  ASSUME NEW p \in [ChipNames -> Chips], NEW c \in ChipNames, NEW x, Byte(x), NEW q,
         Tells(p, c, x, q), NEW base, NEW cascade, Told(p[c], 1, base, cascade)
  PROVE  Only(p, c, q) /\ Told(q[c], 2, x, cascade)
<1> DEFINE m == [p EXCEPT ![c].base = x]
           r == [m EXCEPT ![c].stage = 2]
<1>1. q = r
  <2>1. Takes(p, c, x, q)  BY WriteData
  <2> QED BY <2>1 DEF Told, Takes
<1>2. Only(p, c, m) /\ m[c] = [p[c] EXCEPT !.base = x]
  <2>1. [p[c] EXCEPT !.base = x] \in Chips  BY DEF Chips, Byte
  <2> QED BY <2>1, Put
<1>3. ASSUME m \in [ChipNames -> Chips]
      PROVE  Only(m, c, r) /\ r[c] = [m[c] EXCEPT !.stage = 2]
  <2> HIDE DEF m
  <2>1. [m[c] EXCEPT !.stage = 2] \in Chips  BY <1>3 DEF Chips
  <2> QED BY <1>3, <2>1, Put
<1> HIDE DEF m, r
<1>4. m \in [ChipNames -> Chips] /\ Told(m[c], 1, x, cascade)  BY <1>2 DEF Only, Chips, Told
<1>5. Only(p, c, r)  BY <1>2, <1>3, <1>4, OnlyTwice
<1>6. m[c] \in Chips /\ Told(r[c], 2, x, cascade)  BY <1>3, <1>4 DEF Chips, Told
<1> QED BY <1>1, <1>5, <1>6

LEMMA TellCascade ==
  ASSUME NEW p \in [ChipNames -> Chips], NEW c \in ChipNames, NEW x, Byte(x), NEW q,
         Tells(p, c, x, q), NEW base, NEW cascade, Told(p[c], 2, base, cascade)
  PROVE  Only(p, c, q) /\ Told(q[c], 3, base, x)
<1> DEFINE m == [p EXCEPT ![c].cascade = x]
           r == [m EXCEPT ![c].stage = 3]
<1>1. q = r
  <2>1. Takes(p, c, x, q)  BY WriteData
  <2> QED BY <2>1 DEF Told, Takes
<1>2. Only(p, c, m) /\ m[c] = [p[c] EXCEPT !.cascade = x]
  <2>1. [p[c] EXCEPT !.cascade = x] \in Chips  BY DEF Chips, Byte
  <2> QED BY <2>1, Put
<1>3. ASSUME m \in [ChipNames -> Chips]
      PROVE  Only(m, c, r) /\ r[c] = [m[c] EXCEPT !.stage = 3]
  <2> HIDE DEF m
  <2>1. [m[c] EXCEPT !.stage = 3] \in Chips  BY <1>3 DEF Chips
  <2> QED BY <1>3, <2>1, Put
<1> HIDE DEF m, r
<1>4. m \in [ChipNames -> Chips] /\ Told(m[c], 2, base, x)  BY <1>2 DEF Only, Chips, Told
<1>5. Only(p, c, r)  BY <1>2, <1>3, <1>4, OnlyTwice
<1>6. m[c] \in Chips /\ Told(r[c], 3, base, x)  BY <1>3, <1>4 DEF Chips, Told
<1> QED BY <1>1, <1>5, <1>6

LEMMA TellMode ==
  ASSUME NEW p \in [ChipNames -> Chips], NEW c \in ChipNames, NEW x, Byte(x), NEW q,
         Tells(p, c, x, q), NEW base, NEW cascade, Told(p[c], 3, base, cascade)
  PROVE  Only(p, c, q) /\ Told(q[c], 0, base, cascade)
<1>3. p[c].stage = 3  BY DEF Told
<1>1. q = [p EXCEPT ![c].stage = 0]
  <2>1. p[c].stage = 3 => q = [p EXCEPT ![c].stage = 0]
    <3>1. Takes(p, c, x, q)  BY WriteData
    <3> QED BY ONLY <3>1, Zenon DEF Takes
  <2> QED BY ONLY <1>3, <2>1, Zenon
<1>2. Only(p, c, q) /\ q[c] = [p[c] EXCEPT !.stage = 0]
  <2>1. [p[c] EXCEPT !.stage = 0] \in Chips  BY DEF Chips
  <2> QED BY <1>1, <2>1, Put
<1> QED BY <1>2 DEF Only, Chips, Told

LEMMA TellMask ==
  ASSUME NEW p \in [ChipNames -> Chips], NEW c \in ChipNames, NEW q, Tells(p, c, 0, q),
         NEW base, NEW cascade, Told(p[c], 0, base, cascade)
  PROVE  Only(p, c, q) /\ Initialised(q[c], base, cascade)
<1>1. p[c].stage = 0 /\ Byte(0)  BY DEF Told, Byte
<1>2. q = [p EXCEPT ![c].mask = 0]
  <2>1. p[c].stage = 0 => q = [p EXCEPT ![c].mask = 0]
    <3>1. Takes(p, c, 0, q)  BY <1>1, WriteData
    <3> QED BY ONLY <3>1, Zenon DEF Takes
  <2> QED BY <1>1, <2>1
<1>3. Only(p, c, q) /\ q[c] = [p[c] EXCEPT !.mask = 0]
  <2>1. [p[c] EXCEPT !.mask = 0] \in Chips  BY DEF Chips
  <2> QED BY <1>2, <2>1, Put
<1> QED BY <1>3 DEF Only, Chips, Told, Initialised

\* init_idt leaves both controllers ready, whatever state they were in.
LEMMA PicReady ==
  ASSUME pic \in [ChipNames -> Chips], NEW q, q = PicAfter[Len(PicWrites)]
  PROVE  /\ q \in [ChipNames -> Chips]
         /\ Initialised(q["master"], 32, 4) /\ Initialised(q["slave"], 40, 2)
<1> DEFINE F(n) == PicAfter[n]
<1>1. /\ Commands(F(0), "master", F(1)) /\ Commands(F(1), "slave", F(2))
      /\ Tells(F(2), "master", 32, F(3)) /\ Tells(F(3), "slave", 40, F(4))
      /\ Tells(F(4), "master", 4, F(5)) /\ Tells(F(5), "slave", 2, F(6))
      /\ Tells(F(6), "master", 1, F(7)) /\ Tells(F(7), "slave", 1, F(8))
      /\ Tells(F(8), "master", 0, F(9)) /\ Tells(F(9), "slave", 0, F(10))
  <2>1. /\ PicWrites[1] = <<32, 17>> /\ PicWrites[2] = <<160, 17>>
        /\ PicWrites[3] = <<33, 32>> /\ PicWrites[4] = <<161, 40>>
        /\ PicWrites[5] = <<33, 4>> /\ PicWrites[6] = <<161, 2>>
        /\ PicWrites[7] = <<33, 1>> /\ PicWrites[8] = <<161, 1>>
        /\ PicWrites[9] = <<33, 0>> /\ PicWrites[10] = <<161, 0>>
    BY DEF PicWrites
  <2>2. /\ F(1) = PicWrite(F(0), PicWrites[1]) /\ F(2) = PicWrite(F(1), PicWrites[2])
        /\ F(3) = PicWrite(F(2), PicWrites[3]) /\ F(4) = PicWrite(F(3), PicWrites[4])
        /\ F(5) = PicWrite(F(4), PicWrites[5]) /\ F(6) = PicWrite(F(5), PicWrites[6])
        /\ F(7) = PicWrite(F(6), PicWrites[7]) /\ F(8) = PicWrite(F(7), PicWrites[8])
        /\ F(9) = PicWrite(F(8), PicWrites[9]) /\ F(10) = PicWrite(F(9), PicWrites[10])
    <3>1. \A n \in 1..10 : F(n) = PicWrite(F(n - 1), PicWrites[n])  BY PicSteps
    <3>2. /\ 1 - 1 = 0 /\ 2 - 1 = 1 /\ 3 - 1 = 2 /\ 4 - 1 = 3 /\ 5 - 1 = 4 /\ 6 - 1 = 5
          /\ 7 - 1 = 6 /\ 8 - 1 = 7 /\ 9 - 1 = 8 /\ 10 - 1 = 9
      OBVIOUS
    <3>3. /\ 1 \in 1..10 /\ 2 \in 1..10 /\ 3 \in 1..10 /\ 4 \in 1..10 /\ 5 \in 1..10
          /\ 6 \in 1..10 /\ 7 \in 1..10 /\ 8 \in 1..10 /\ 9 \in 1..10 /\ 10 \in 1..10
      OBVIOUS
    <3> HIDE DEF F
    <3> QED BY <3>1, <3>2, <3>3, Zenon
  <2> HIDE DEF F
  <2> QED BY <2>1, <2>2 DEF Commands, Tells
<1>2. F(0) = pic /\ q = F(10)  BY PicSteps
<1>3. /\ "master" \in ChipNames /\ "slave" \in ChipNames /\ "master" # "slave"
      /\ Byte(32) /\ Byte(40) /\ Byte(4) /\ Byte(2) /\ Byte(1) /\ Byte(0)
  BY DEF ChipNames, Byte
<1> HIDE DEF F
<1> DEFINE Master(n, stage, base, cascade) ==
             F(n) \in [ChipNames -> Chips] /\ Told(F(n)["master"], stage, base, cascade)
           Slave(n, stage, base, cascade) == Told(F(n)["slave"], stage, base, cascade)
<1>4. PICK mb, mc : Master(1, 1, mb, mc)
  <2>1. Only(F(0), "master", F(1)) /\ F(1)["master"].stage = 1 /\ F(1)["master"].isr = {}
    BY <1>1, <1>2, <1>3, TellCommand
  <2> QED BY <2>1 DEF Told, Only
<1>5. PICK sb, sc : Master(2, 1, mb, mc) /\ Slave(2, 1, sb, sc)
  <2>1. Only(F(1), "slave", F(2)) /\ F(2)["slave"].stage = 1 /\ F(2)["slave"].isr = {}
    BY <1>1, <1>3, <1>4, TellCommand
  <2> QED BY <1>3, <1>4, <2>1 DEF Told, Only
<1>6. Master(3, 2, 32, mc) /\ Slave(3, 1, sb, sc)
  <2>1. /\ Only(F(2), "master", F(3)) /\ Told(F(3)["master"], 2, 32, mc)
    BY <1>1, <1>3, <1>5, TellBase
  <2> QED BY <1>3, <1>5, <2>1 DEF Only
<1>7. Master(4, 2, 32, mc) /\ Slave(4, 2, 40, sc)
  <2>1. /\ Only(F(3), "slave", F(4)) /\ Told(F(4)["slave"], 2, 40, sc)
    BY <1>1, <1>3, <1>6, TellBase
  <2> QED BY <1>3, <1>6, <2>1 DEF Only
<1>8. Master(5, 3, 32, 4) /\ Slave(5, 2, 40, sc)
  <2>1. /\ Only(F(4), "master", F(5)) /\ Told(F(5)["master"], 3, 32, 4)
    BY <1>1, <1>3, <1>7, TellCascade
  <2> QED BY <1>3, <1>7, <2>1 DEF Only
<1>9. Master(6, 3, 32, 4) /\ Slave(6, 3, 40, 2)
  <2>1. /\ Only(F(5), "slave", F(6)) /\ Told(F(6)["slave"], 3, 40, 2)
    BY <1>1, <1>3, <1>8, TellCascade
  <2> QED BY <1>3, <1>8, <2>1 DEF Only
<1>10. Master(7, 0, 32, 4) /\ Slave(7, 3, 40, 2)
  <2>1. /\ Only(F(6), "master", F(7)) /\ Told(F(7)["master"], 0, 32, 4)
    BY <1>1, <1>3, <1>9, TellMode
  <2> QED BY <1>3, <1>9, <2>1 DEF Only
<1>11. Master(8, 0, 32, 4) /\ Slave(8, 0, 40, 2)
  <2>1. /\ Only(F(7), "slave", F(8)) /\ Told(F(8)["slave"], 0, 40, 2)
    BY <1>1, <1>3, <1>10, TellMode
  <2> QED BY <1>3, <1>10, <2>1 DEF Only
<1>12. /\ F(9) \in [ChipNames -> Chips] /\ Initialised(F(9)["master"], 32, 4)
       /\ Slave(9, 0, 40, 2)
  <2>1. /\ Only(F(8), "master", F(9)) /\ Initialised(F(9)["master"], 32, 4)
    BY <1>1, <1>3, <1>11, TellMask
  <2> QED BY <1>3, <1>11, <2>1 DEF Only
<1>13. /\ F(10) \in [ChipNames -> Chips] /\ Initialised(F(10)["master"], 32, 4)
       /\ Initialised(F(10)["slave"], 40, 2)
  <2>1. /\ Only(F(9), "slave", F(10)) /\ Initialised(F(10)["slave"], 40, 2)
    BY <1>1, <1>3, <1>12, TellMask
  <2> QED BY <1>3, <1>12, <2>1 DEF Only
<1> QED BY <1>2, <1>13

\* While kernel_main runs no handler is in progress.
LEMMA InKernel ==
  ASSUME StartInv, ip.prog = Main
  PROVE  /\ shadow = <<>> /\ ip.at \in 1..14 /\ ip \in Places
         /\ \A k : Past(k) <=> ip.at > k
         /\ \A c \in ChipNames : pic[c].isr = {}
<1>1. shadow = <<>>
  <2>1. ~InStub  BY DEF InStub, Main
  <2> QED BY <2>1, InHandler DEF StartInv
<1>2. Bottom = ip  BY <1>1 DEF Bottom
<1>3. ip.at \in 1..14 /\ ip.prog # User  BY <1>2 DEF StartInv, SetUp, Main, User
<1>4. \A c \in ChipNames : pic[c].isr = {}
  <2> TAKE c \in ChipNames
  <2>1. EoiFor(<<>>, ip, c, pic[c].isr)  BY <1>1 DEF StartInv, EoiInv
  <2> QED BY <2>1, EoiIdle
<1> QED BY <1>1, <1>2, <1>3, <1>4 DEF Past, StartInv, CpuTypeOK

LEMMA ProgramOrder ==
  ASSUME NEW k \in 1..14
  PROVE  /\ (Program[k] = "start" => k = 1) /\ (Program[k] = "tags" => k = 2)
         /\ (Program[k] = "gdt" => k = 3) /\ (Program[k] = "lgdt" => k = 4)
         /\ (Program[k] = "ltr" => k = 5) /\ (Program[k] = "pic" => k = 6)
         /\ (Program[k] = "gates" => k = 7) /\ (Program[k] = "lidt" => k = 8)
         /\ (Program[k] = "sti" => k = 9) /\ (Program[k] = "memory" => k = 10)
         /\ (Program[k] = "keyboard" => k = 11) /\ (Program[k] = "processes" => k = 12)
         /\ (Program[k] = "segs" => k = 13) /\ (Program[k] = "iret" => k = 14)
<1>1. \/ k = 1 \/ k = 2 \/ k = 3 \/ k = 4 \/ k = 5 \/ k = 6 \/ k = 7 \/ k = 8 \/ k = 9
      \/ k = 10 \/ k = 11 \/ k = 12 \/ k = 13 \/ k = 14
  OBVIOUS
<1> QED BY <1>1 DEF Program

PicSet == /\ Programmed("master") /\ Programmed("slave")
          /\ pic["master"].base = 32 /\ pic["slave"].base = 40

\* What a step of kernel_main must do at place k.
LEMMA MainSetUp ==
  ASSUME StartInv, ip.prog = Main, UNCHANGED shadow, ip.at # 14, Advance,
         IF ip.at = 3 THEN gdt' = gdt_entries /\ tss' = write_tss ELSE UNCHANGED <<gdt, tss>>,
         loaded \subseteq loaded',
         ip.at = 5 => "tr" \in loaded',
         ip.at = 8 => "idtr" \in loaded',
         IF ip.at = 6 THEN PicSet' ELSE UNCHANGED pic,
         IF ip.at = 7 THEN idt' = idt_entries ELSE UNCHANGED idt,
         ip.at # 9 => UNCHANGED sti
  PROVE  SetUp' /\ ip' \in Places
<1>1. /\ shadow = <<>> /\ ip.at \in 1..13 /\ ip \in Places
      /\ \A k : Past(k) <=> ip.at > k
  BY InKernel
<1>2. ip' \in Places /\ ip'.prog = Main /\ ip'.at = ip.at + 1
  <2>1. ip \in [prog : Int, at : Nat]  BY <1>1 DEF Places
  <2> QED BY <2>1 DEF Advance, Places
<1>3. Bottom' = ip'  BY <1>1 DEF Bottom
<1>4. Bottom'.prog = Main /\ Bottom'.at \in 1..14  BY <1>1, <1>2, <1>3
<1>5. \A k \in 1..14 : Past(k)' <=> Past(k) \/ ip.at = k
  <2>1. \A k : Past(k)' <=> ip'.at > k  BY <1>2, <1>3 DEF Past, Main, User
  <2>2. PICK a \in 1..13 : a = ip.at  BY <1>1
  <2>3. \A k \in 1..14 : a + 1 > k <=> a > k \/ a = k  OBVIOUS
  <2> QED BY <1>1, <1>2, <2>1, <2>2, <2>3
<1>6. Past(3)' => gdt' = gdt_entries /\ tss' = write_tss  BY <1>1, <1>5 DEF StartInv, SetUp
<1>7. Past(5)' => "tr" \in loaded'  BY <1>5 DEF StartInv, SetUp
<1>8. Past(6)' => PicSet'
  <2>1. CASE ip.at = 6  BY <2>1
  <2>2. CASE ip.at # 6
    <3>1. Past(6)' => Past(6)  BY <1>5, <2>2
    <3>2. Past(6) => PicSet  BY DEF StartInv, SetUp, PicSet
    <3>3. PicSet => PicSet'  BY <2>2 DEF PicSet, Programmed
    <3> QED BY <3>1, <3>2, <3>3
  <2> QED BY <2>1, <2>2
<1>9. Past(7)' => idt' = idt_entries  BY <1>1, <1>5 DEF StartInv, SetUp
<1>10. Past(8)' => "idtr" \in loaded'  BY <1>5 DEF StartInv, SetUp
<1>11. sti' => Past(9)'
  <2>1. 9 \in 1..14  OBVIOUS
  <2>2. Past(9)' <=> Past(9) \/ ip.at = 9  BY <1>5, <2>1
  <2>3. sti => Past(9)  BY DEF StartInv, SetUp
  <2> QED BY <2>2, <2>3, Zenon
<1>12. shadow' = <<>>  BY <1>1
<1> QED BY <1>2, <1>4, <1>6, <1>7, <1>8, <1>9, <1>10, <1>11, <1>12 DEF SetUp, PicSet

LEMMA MainKeeps ==
  ASSUME StartInv, ip.prog = Main, UNCHANGED <<stack, shadow>>, SetUp', ip' \in Places,
         gp' \in Regs, seg' \in Int, pic' \in [ChipNames -> Chips],
         \A c \in ChipNames : pic'[c].isr = {}
  PROVE  StartInv'
<1>1. shadow = <<>>  BY InKernel
<1>2. CpuTypeOK'  BY DEF StartInv, CpuTypeOK
<1>3. Laid'
  <2>1. PICK b : LaidOut(<<>>, Now, stack, b)  BY <1>1 DEF StartInv, Laid
  <2>2. LaidOut(<<>>, Now', stack, b)
    <3>1. 1..Len(<<>>) = {}  BY EmptySeq
    <3> QED BY <2>1, <3>1 DEF LaidOut
  <2> QED BY <1>1, <2>2 DEF Laid
<1>4. EoiInv'
  <2> SUFFICES ASSUME NEW c \in ChipNames PROVE EoiFor(<<>>, ip', c, {})
    BY <1>1 DEF EoiInv
  <2> QED BY EoiIdle
<1> QED BY <1>2, <1>3, <1>4 DEF StartInv

LEMMA SelectorTypes ==
  ASSUME CpuTypeOK
  PROVE  <<16, gp[2]>> \in Regs /\ <<43, gp[2]>> \in Regs /\ <<35, gp[2]>> \in Regs
  BY DEF CpuTypeOK, Regs

\* The steps that neither set up a table nor touch registers, and those that do
LEMMA PlainStep ==
  ASSUME StartInv,
         Start \/ ParseDone \/ Sti \/ Elsewhere \/ keyboard_init
  PROVE  StartInv'
<1>1. ip.prog = Main /\ UNCHANGED <<gp, seg, stack, shadow, pic, gdt, idt, tss, loaded>>
  BY DEF Start, ParseDone, Sti, Elsewhere, keyboard_init, MainStep, InMain, tables
<1>2. Advance /\ (ip.at # 9 => UNCHANGED sti)
      /\ (ip.at = 1 \/ ip.at = 2 \/ ip.at = 9 \/ ip.at = 10 \/ ip.at = 11 \/ ip.at = 12)
  <2>1. ip.at \in 1..14  BY <1>1, InKernel
  <2>2. Program[ip.at] \in {"start", "tags", "sti", "memory", "keyboard", "processes"}
    BY DEF Start, ParseDone, Sti, Elsewhere, keyboard_init, InMain
  <2>3. ip.at = 1 \/ ip.at = 2 \/ ip.at = 9 \/ ip.at = 10 \/ ip.at = 11 \/ ip.at = 12
    BY <2>1, <2>2, ProgramOrder
  <2>4. ip.at # 9 => UNCHANGED sti
    <3>1. Sti => ip.at = 9  BY <2>1, ProgramOrder DEF Sti, InMain
    <3>2. ASSUME Start \/ ParseDone \/ Elsewhere \/ keyboard_init PROVE UNCHANGED sti
      BY <3>2 DEF Start, ParseDone, Elsewhere, keyboard_init
    <3> QED BY <3>1, <3>2
  <2>5. Advance  BY DEF Start, ParseDone, Sti, Elsewhere, keyboard_init, MainStep
  <2> QED BY <2>3, <2>4, <2>5
<1>3. SetUp' /\ ip' \in Places
  <2>1. ip.at # 14 /\ ip.at # 3 /\ ip.at # 5 /\ ip.at # 6 /\ ip.at # 7 /\ ip.at # 8  BY <1>2
  <2> QED BY <1>1, <1>2, <2>1, MainSetUp
<1>4. /\ \A c \in ChipNames : pic'[c].isr = {}
      /\ pic' \in [ChipNames -> Chips] /\ gp' \in Regs /\ seg' \in Int
  BY <1>1, InKernel DEF StartInv, CpuTypeOK
<1> QED BY <1>1, <1>3, <1>4, MainKeeps

LEMMA TableStep ==
  ASSUME StartInv, InitGdt \/ gdt_flush \/ tss_flush \/ InitGates \/ Lidt \/ UserSegs
  PROVE  StartInv'
<1>1. ip.prog = Main /\ UNCHANGED <<stack, shadow, pic, sti>>
  BY DEF InitGdt, gdt_flush, tss_flush, InitGates, Lidt, UserSegs, MainStep, InMain
<1>2. ip.at \in 1..14 /\ \A k : Past(k) <=> ip.at > k  BY <1>1, InKernel
<1>3. gp' \in Regs /\ seg' \in Int
  <2>1. gp \in Regs /\ seg \in Int /\ 16 \in Int /\ 35 \in Int  BY DEF StartInv, CpuTypeOK
  <2>2. <<16, gp[2]>> \in Regs /\ <<43, gp[2]>> \in Regs /\ <<35, gp[2]>> \in Regs
    BY SelectorTypes DEF StartInv
  <2>3. InitGdt \/ InitGates \/ Lidt => UNCHANGED <<gp, seg>>
    BY DEF InitGdt, InitGates, Lidt, MainStep
  <2>4. tss_flush => gp' = <<43, gp[2]>> /\ UNCHANGED seg  BY DEF tss_flush, MainStep
  <2>5. gdt_flush => gp' = <<16, gp[2]>> /\ seg' = 16  BY DEF gdt_flush
  <2>6. UserSegs => gp' = <<35, gp[2]>> /\ seg' = 35  BY DEF UserSegs
  <2> QED BY <2>1, <2>2, <2>3, <2>4, <2>5, <2>6
<1>4. Past(3) => gdt = gdt_entries  BY DEF StartInv, SetUp
<1>5. SetUp' /\ ip' \in Places
  <2>1. CASE InitGdt
    <3>1. ip.at = 3  BY <1>2, <2>1, ProgramOrder DEF InitGdt, InMain
    <3>2. Advance /\ gdt' = gdt_entries /\ tss' = write_tss /\ UNCHANGED <<idt, loaded>>
      BY <2>1 DEF InitGdt, MainStep
    <3> QED BY <1>1, <3>1, <3>2, MainSetUp
  <2>2. CASE gdt_flush
    <3>1. ip.at = 4  BY <1>2, <2>2, ProgramOrder DEF gdt_flush, InMain
    <3>2. gdt = gdt_entries  BY <1>2, <1>4, <3>1
    <3>3. CodeSegment(8, 0) /\ DataSegment(16, 0)  BY <3>2, SegmentsUsable
    <3>4. Advance /\ UNCHANGED <<gdt, tss, idt>> /\ loaded \subseteq loaded'
      BY <2>2, <3>3 DEF gdt_flush
    <3> QED BY <1>1, <3>1, <3>4, MainSetUp
  <2>3. CASE tss_flush
    <3>1. ip.at = 5  BY <1>2, <2>3, ProgramOrder DEF tss_flush, InMain
    <3>2. /\ Advance /\ UNCHANGED <<gdt, tss, idt>> /\ loaded \subseteq loaded'
          /\ "tr" \in loaded'
      BY <2>3 DEF tss_flush, MainStep
    <3> QED BY <1>1, <3>1, <3>2, MainSetUp
  <2>4. CASE InitGates
    <3>1. ip.at = 7  BY <1>2, <2>4, ProgramOrder DEF InitGates, InMain
    <3>2. Advance /\ UNCHANGED <<gdt, tss, loaded>> /\ idt' = idt_entries
      BY <2>4 DEF InitGates, MainStep
    <3> QED BY <1>1, <3>1, <3>2, MainSetUp
  <2>5. CASE Lidt
    <3>1. ip.at = 8  BY <1>2, <2>5, ProgramOrder DEF Lidt, InMain
    <3>2. /\ Advance /\ UNCHANGED <<gdt, tss, idt>> /\ loaded \subseteq loaded'
          /\ "idtr" \in loaded'
      BY <2>5 DEF Lidt, MainStep
    <3> QED BY <1>1, <3>1, <3>2, MainSetUp
  <2>6. CASE UserSegs
    <3>1. ip.at = 13  BY <1>2, <2>6, ProgramOrder DEF UserSegs, InMain
    <3>2. gdt = gdt_entries  BY <1>2, <1>4, <3>1
    <3>3. DataSegment(35, 3)  BY <3>2, SegmentsUsable
    <3>4. Advance /\ UNCHANGED <<gdt, tss, idt, loaded>>
      BY <2>6, <3>3 DEF UserSegs, tables
    <3> QED BY <1>1, <3>1, <3>4, MainSetUp
  <2> QED BY <2>1, <2>2, <2>3, <2>4, <2>5, <2>6
<1>6. pic' \in [ChipNames -> Chips] /\ \A c \in ChipNames : pic'[c].isr = {}
  BY <1>1, InKernel DEF StartInv, CpuTypeOK
<1> QED BY <1>1, <1>3, <1>5, <1>6, MainKeeps

LEMMA PicStep ==
  ASSUME StartInv, InitPic
  PROVE  StartInv'
<1>1. /\ ip.prog = Main /\ Advance
      /\ UNCHANGED <<gp, seg, stack, shadow, sti, gdt, idt, tss, loaded>>
  BY DEF InitPic, MainStep, InMain, tables
<1>2. ip.at = 6
  <2>1. ip.at \in 1..14  BY <1>1, InKernel
  <2> QED BY <2>1, ProgramOrder DEF InitPic, InMain
<1>3. pic \in [ChipNames -> Chips]  BY DEF StartInv, CpuTypeOK
<1>4. /\ pic' \in [ChipNames -> Chips]
      /\ Initialised(pic'["master"], 32, 4) /\ Initialised(pic'["slave"], 40, 2)
  <2>1. PICK q : q = PicAfter[Len(PicWrites)]  OBVIOUS
  <2>2. q \in [ChipNames -> Chips] /\ Initialised(q["master"], 32, 4)
        /\ Initialised(q["slave"], 40, 2)
    BY <1>3, <2>1, PicReady
  <2>3. pic' = q  BY <2>1 DEF InitPic
  <2> QED BY <2>2, <2>3
<1>5. PicSet'  BY <1>4 DEF PicSet, Programmed, Initialised, Told
<1>6. \A c \in ChipNames : pic'[c].isr = {}  BY <1>4 DEF ChipNames, Initialised, Told
<1>7. SetUp' /\ ip' \in Places  BY <1>1, <1>2, <1>5, MainSetUp
<1> QED BY <1>1, <1>4, <1>6, <1>7, MainKeeps DEF StartInv, CpuTypeOK

LEMMA UserStep ==
  ASSUME StartInv, IretToUser
  PROVE  StartInv'
<1>1. ip.prog = Main /\ UNCHANGED <<gp, seg, stack, shadow, sti, gdt, idt, tss, loaded, pic>>
  BY DEF IretToUser, InMain, tables
<1>2. ip.at = 14 /\ \A k : Past(k) <=> ip.at > k
  <2>1. ip.at \in 1..14 /\ \A k : Past(k) <=> ip.at > k  BY <1>1, InKernel
  <2> QED BY <2>1, ProgramOrder DEF IretToUser, InMain
<1>3. Past(3) /\ Past(5) /\ Past(6) /\ Past(7) /\ Past(8)  BY <1>2
<1>4. /\ gdt = gdt_entries /\ tss = write_tss /\ "tr" \in loaded /\ PicSet
      /\ idt = idt_entries /\ "idtr" \in loaded
  BY <1>3 DEF StartInv, SetUp, PicSet
<1>5. ip' = Ip(User, 0)
  <2>1. CodeSegment(27, 3) /\ DataSegment(35, 3)  BY <1>4, SegmentsUsable
  <2> QED BY <2>1 DEF IretToUser
<1>6. shadow = <<>>  BY <1>1, InKernel
<1>7. Bottom' = ip' /\ Bottom'.prog = User /\ \A k : Past(k)'
  BY <1>1, <1>5, <1>6 DEF Bottom, Past, Ip
<1>8. PicSet'  BY <1>1, <1>4 DEF PicSet, Programmed
<1>9. SetUp'  BY <1>1, <1>4, <1>6, <1>7, <1>8 DEF SetUp, PicSet
<1>10. ip' \in Places  BY <1>5 DEF Ip, User, Places
<1>11. \A c \in ChipNames : pic'[c].isr = {}  BY <1>1, InKernel
<1> QED BY <1>1, <1>9, <1>10, <1>11, MainKeeps DEF StartInv, CpuTypeOK

LEMMA Unmoved ==
  ASSUME StartInv, UNCHANGED trapVars
  PROVE  StartInv'
<1>1. UNCHANGED <<ip, gp, seg, stack, shadow, sti, gdt, idt, tss, loaded, pic>>
  BY DEF trapVars, cpu, tables
<1>2. CpuTypeOK'  BY <1>1 DEF StartInv, CpuTypeOK
<1>3. SetUp'
  <2>1. Bottom' = Bottom  BY <1>1 DEF Bottom
  <2>2. shadow' # <<>> => Past(9)  BY <1>1 DEF StartInv, SetUp
  <2> QED BY <1>1, <2>1, <2>2, SetUpKept DEF StartInv
<1>4. Laid'
  <2>1. Now' = Now  BY <1>1 DEF Now
  <2> QED BY <1>1, <2>1 DEF StartInv, Laid
<1>5. EoiInv'  BY <1>1 DEF StartInv, EoiInv
<1> QED BY <1>2, <1>3, <1>4, <1>5 DEF StartInv

LEMMA MainInv ==
  ASSUME StartInv, kernel_main
  PROVE  StartInv'
<1>1. ASSUME ParseTag \/ ParseEntry PROVE StartInv'
  <2>1. UNCHANGED trapVars  BY <1>1 DEF ParseTag, ParseEntry, trapVars
  <2> QED BY <2>1, Unmoved
<1> QED BY <1>1, PlainStep, TableStep, PicStep, UserStep DEF kernel_main

LEMMA StartInvInit ==
  ASSUME NEW ts, StartInit(ts)
  PROVE  StartInv
<1>1. /\ ip = [prog |-> -2, at |-> 1] /\ gp = <<1, 1>> /\ seg = 24 /\ stack = <<>>
      /\ shadow = <<>> /\ sti = FALSE
      /\ pic = [c \in ChipNames |-> BiosChip(IF c = "master" THEN 8 ELSE 112)]
  BY DEF StartInit, Ip, Main, ChipNames
<1>2. ip \in Places /\ ip.prog = Main /\ ip.at = 1  BY <1>1 DEF Places, Main
<1>3. CpuTypeOK
  <2>1. BiosChip(8) \in Chips /\ BiosChip(112) \in Chips  BY DEF BiosChip, Chips
  <2>2. \A c \in ChipNames : pic[c] = BiosChip(8) \/ pic[c] = BiosChip(112)  BY <1>1
  <2>3. pic \in [ChipNames -> Chips]  BY <1>1, <2>1
  <2>4. stack \in Seq(Items) /\ shadow \in Seq(Seen)  BY <1>1, EmptySeq
  <2>5. gp \in Regs /\ seg \in Int  BY <1>1 DEF Regs
  <2> QED BY <1>2, <2>3, <2>4, <2>5 DEF CpuTypeOK
<1>4. SetUp
  <2>1. Bottom = ip  BY <1>1 DEF Bottom
  <2>2. Bottom.prog # User /\ Bottom.at = 1  BY <1>2, <2>1 DEF Main, User
  <2>3. ~Past(3) /\ ~Past(5) /\ ~Past(6) /\ ~Past(7) /\ ~Past(8)  BY <2>2 DEF Past
  <2> QED BY <1>1, <1>2, <2>1, <2>2, <2>3 DEF SetUp
<1>5. Laid
  <2> DEFINE b == [i \in 1..1 |-> 0]
  <2>1. Len(<<>>) = 0 /\ 1..0 = {}  BY EmptySeq
  <2>2. LaidOut(<<>>, Now, <<>>, b)  BY <2>1 DEF LaidOut
  <2> QED BY <1>1, <2>2 DEF Laid
<1>6. EoiInv
  <2> SUFFICES ASSUME NEW c \in ChipNames PROVE EoiFor(<<>>, ip, c, pic[c].isr)
    BY <1>1 DEF EoiInv
  <2>1. pic[c].isr = {}  BY <1>1 DEF BiosChip
  <2> QED BY <2>1, EoiIdle
<1> QED BY <1>3, <1>4, <1>5, <1>6 DEF StartInv

LEMMA StartInvStep ==
  ASSUME StartInv, [StartNext]_startVars
  PROVE  StartInv' \/ (Iret /\ Last(shadow).vector \in Misframed)
<1>1. ASSUME UNCHANGED startVars PROVE StartInv'
  <2>1. UNCHANGED trapVars  BY <1>1 DEF startVars
  <2> QED BY <2>1, Unmoved
<1> QED BY <1>1, MainInv, DeviceInv, TrapsInv DEF StartNext

LEMMA Found ==
  ASSUME StartInv
  PROVE  ip.prog # Wild
<1>1. CASE shadow = <<>>
  <2>1. Bottom = ip  BY <1>1 DEF Bottom
  <2>2. ip.prog = User \/ ip.prog = Main  BY <2>1 DEF StartInv, SetUp
  <2> QED BY <2>2 DEF User, Main, Wild
<1>2. CASE shadow # <<>>
  <2>1. InStub  BY <1>2, InHandler DEF StartInv
  <2>2. ip.prog \in Int  BY DEF StartInv, CpuTypeOK, Places
  <2> QED BY <2>1, <2>2 DEF InStub, Wild
<1> QED BY <1>1, <1>2

Sane == ip.prog # Wild

LEMMA FoundNext == StartInv' => ip'.prog # Wild
<1>1. StartInv => Sane  BY Found DEF Sane
<1>2. StartInv' => Sane'  BY <1>1, PTL
<1> QED BY <1>2 DEF Sane

\* A CPU that runs code of nobody's executes no instruction of the model.
LEMMA LostForGood ==
  ASSUME ip.prog = Wild, [StartNext]_startVars
  PROVE  UNCHANGED <<ip, shadow>>
<1>1. ~InStub /\ ip.prog # Main /\ ip.prog # User  BY DEF InStub, Wild, Main, User
<1>2. Op = "none"  BY <1>1 DEF Op
<1>3. ~kernel_main
  BY <1>1 DEF kernel_main, Start, ParseTag, ParseEntry, ParseDone, InitGdt, gdt_flush,
              tss_flush, InitPic, InitGates, Lidt, Sti, Elsewhere, keyboard_init, UserSegs,
              IretToUser, InMain
<1>4. ~CpuTraps
  <2>1. ~Nestable  BY DEF Nestable
  <2>2. ~StubStep
    BY <1>2 DEF StubStep, Push, KernelSegs, EoiSlave, EoiMaster, Dispatch, IsrHandler,
                SyscallHandler, SetEax, Drop, PopSegs, PopRegs, Iret
  <2> QED BY <2>1, <2>2 DEF CpuTraps, Interrupt, SoftwareInterrupt, Fault
<1>5. ASSUME Device PROVE UNCHANGED <<ip, shadow>>  BY <1>5 DEF Device, Raise, cpu
<1>6. ASSUME UNCHANGED startVars PROVE UNCHANGED <<ip, shadow>>
  BY <1>6 DEF startVars, trapVars, cpu
<1> QED BY <1>3, <1>4, <1>5, <1>6 DEF StartNext

\* The machine between any two instructions (StartInv): what kernel_main has reached
\* tells what the tables and the controllers hold; the words on the stack are those
\* that the handlers in progress will take off, handler by handler (idt_flush.asm),
\* the error code that a misframed one leaves on it included.  It lasts until
\* such a handler returns.
THEOREM StartInvariance == StartSpec => [](StartInv \/ ip.prog = Wild)
<1>1. (\E ts \in TagLists : StartInit(ts)) => StartInv  BY StartInvInit
<1>2. (StartInv \/ ip.prog = Wild) /\ [StartNext]_startVars => (StartInv \/ ip.prog = Wild)'
  <2>1. ASSUME StartInv, [StartNext]_startVars PROVE (StartInv \/ ip.prog = Wild)'
    <3>1. CASE Iret /\ Last(shadow).vector \in Misframed
      <4>1. ip' = Ip(Wild, 0)  BY <2>1, <3>1, Returns
      <4> QED BY <4>1 DEF Ip
    <3> QED BY <2>1, <3>1, StartInvStep
  <2>2. ASSUME ip.prog = Wild, [StartNext]_startVars PROVE (StartInv \/ ip.prog = Wild)'
    BY <2>2, LostForGood
  <2> QED BY <2>1, <2>2
<1> QED BY <1>1, <1>2, PTL DEF StartSpec

\* The lines in service at the two controllers are exactly those of the handlers in
\* progress that have not sent their EOI yet (EoisMatch, irq_handler of interrupts.c),
\* at every depth of nesting.
THEOREM EoisAlwaysMatch == StartSpec => []EoisMatch
<1>0. ip.prog = Wild => EoisMatch  BY DEF EoisMatch
<1>1. StartInv => EoisMatch
  <2> SUFFICES ASSUME StartInv, NEW c \in {"master", "slave"}
               PROVE  pic[c].isr = {LineAt(shadow[d].vector, c) :
                                      d \in {d \in DOMAIN shadow : Owes(d, c)}}
    BY DEF EoisMatch
  <2>1. EoiFor(shadow, ip, c, pic[c].isr)  BY DEF StartInv, EoiInv, ChipNames
  <2>2. \A d : Owes(d, c) <=> OwesAt(shadow[d].vector, NextIp(shadow, ip, d), c)
    BY DEF Owes, OwesAt, NextIp, OpAt
  <2>3. {d \in DOMAIN shadow : Owes(d, c)} = Owing(shadow, ip, c)  BY <2>2 DEF Owing
  <2> QED BY <2>1, <2>3 DEF EoiFor
<1> QED BY <1>0, <1>1, StartInvariance, PTL

\* Only an IRET ends a handler.
LEMMA OnlyIret ==
  ASSUME StartInv, [StartNext]_startVars, Len(shadow') < Len(shadow)
  PROVE  Iret
<1>1. Len(shadow) \in Nat /\ shadow \in Seq(Seen)
  BY LenProperties DEF StartInv, CpuTypeOK
<1>2. shadow' # shadow  BY <1>1
<1>3. ASSUME UNCHANGED startVars PROVE FALSE  BY <1>2, <1>3 DEF startVars, trapVars, cpu
<1>4. ASSUME kernel_main PROVE FALSE
  BY <1>2, <1>4
     DEF kernel_main, Start, ParseTag, ParseEntry, ParseDone, InitGdt, gdt_flush, tss_flush,
         InitPic, InitGates, Lidt, Sti, Elsewhere, keyboard_init, UserSegs, IretToUser,
         MainStep, cpu
<1>5. ASSUME Device PROVE FALSE  BY <1>2, <1>5 DEF Device, Raise, cpu
<1>6. ASSUME NEW v, NEW e, EnterVector(v, e) PROVE FALSE
  <2>1. PICK s : shadow' = Append(shadow, s)  BY <1>6 DEF EnterVector
  <2>2. Len(shadow') = Len(shadow) + 1  BY <1>1, <2>1
  <2> QED BY <1>1, <2>2
<1>7. ASSUME CpuTraps, ~Iret PROVE FALSE
  <2>1. \A l : ~Interrupt(l)  BY <1>6 DEF Interrupt
  <2>2. ~SoftwareInterrupt /\ ~Fault  BY <1>6 DEF SoftwareInterrupt, Fault
  <2>3. Push \/ KernelSegs \/ EoiSlave \/ EoiMaster \/ Dispatch \/ IsrHandler
          \/ SyscallHandler \/ SetEax \/ Drop \/ PopSegs \/ PopRegs
    BY <1>7, <2>1, <2>2 DEF CpuTraps, StubStep
  <2> QED BY <1>2, <2>3
          DEF Push, KernelSegs, EoiSlave, EoiMaster, Dispatch, IsrHandler, SyscallHandler,
              SetEax, Drop, PopSegs, PopRegs
<1> QED BY <1>3, <1>4, <1>5, <1>7 DEF StartNext

LEMMA Shrinks ==
  ASSUME StartInv \/ ip.prog = Wild, [StartNext]_startVars, Len(shadow') < Len(shadow)
  PROVE  StartInv /\ Iret
<1>1. ASSUME ip.prog = Wild PROVE FALSE
  <2>1. Len(shadow') = Len(shadow)  BY <1>1, LostForGood
  <2>2. PICK n : n = Len(shadow)  OBVIOUS
  <2> QED BY <2>1, <2>2
<1> QED BY <1>1, OnlyIret

\* Whatever interrupts, faults, system calls and key presses come, and however deep
\* they nest, the CPU never continues in code that is not the kernel's or the user
\* program's, neither while kernel_main sets up the tables nor in a stub of
\* idt_flush.asm nor at an IRET, but for one case: it always does when a handler
\* returns whose stub leaves the CPU's error code below its words (LostIffMisframed).
THEOREM LostIffMisframedHolds == StartSpec => LostIffMisframed
<1> DEFINE Loses == ip'.prog = Wild /\ ip.prog # Wild
           Ends  == Len(shadow') < Len(shadow) /\ Last(shadow).vector \in Misframed
<1>1. (StartInv \/ ip.prog = Wild) /\ [StartNext]_startVars => [Loses <=> Ends]_trapVars
  <2> SUFFICES ASSUME StartInv \/ ip.prog = Wild, [StartNext]_startVars PROVE Loses <=> Ends
    OBVIOUS
  <2>1. ASSUME Ends PROVE Loses
    <3>1. StartInv /\ Iret  BY <2>1, Shrinks
    <3>2. ip' = Ip(Wild, 0)  BY <2>1, <3>1, Returns
    <3> QED BY <3>1, <3>2, Found DEF Ip
  <2>2. ASSUME Loses PROVE Ends
    <3>1. StartInv  BY <2>2
    <3>2. ~StartInv'  BY <2>2, FoundNext
    <3>3. Iret /\ Last(shadow).vector \in Misframed  BY <3>1, <3>2, StartInvStep
    <3>4. shadow' = Front(shadow) /\ shadow # <<>> /\ shadow \in Seq(Seen)
      BY <3>1, <3>3, Returns DEF Iret, StartInv, CpuTypeOK
    <3>5. Len(Front(shadow)) = Len(shadow) - 1 /\ Len(shadow) \in Nat
      BY <3>4, FrontFacts, LenProperties
    <3>6. Len(shadow') < Len(shadow)  BY <3>4, <3>5
    <3> QED BY <3>3, <3>6
  <2> QED BY <2>1, <2>2
<1> QED BY <1>1, StartInvariance, PTL DEF StartSpec, LostIffMisframed

\* An IRET that finds the frame of its handler restores what the handler interrupted,
\* be it the user program or another handler in the middle of its stub
\* (ContextRestored): the instruction, the general and the segment registers, but for
\* the result of int 0x80 in eax.
THEOREM ContextsRestored == StartSpec => ContextRestored
<1>1. (StartInv \/ ip.prog = Wild) /\ [StartNext]_startVars =>
        [Len(shadow') < Len(shadow) /\ Last(shadow).vector \notin Misframed =>
           LET s == Last(shadow)
           IN  /\ ip' = s.ip /\ seg' = s.seg /\ gp'[2] = s.gp[2]
               /\ gp'[1] = IF s.vector = 128 THEN SyscallResult ELSE s.gp[1]]_trapVars
  BY Shrinks, Returns
<1> QED BY <1>1, StartInvariance, PTL DEF StartSpec, ContextRestored

-----------------------------------------------------------------------------
(* parse_multiboot2                                                          *)

Tag == [type : Nat, size : Nat \ {0}, entry_size : Nat]

LEMMA PaddedMore ==
  ASSUME NEW n \in Nat \ {0}
  PROVE  Padded(n) \in Nat /\ Padded(n) > 0
  BY Z3 DEF Padded

LEMMA OffsetExists ==
  ASSUME NEW ts \in Seq(Tag)
  PROVE  \E w : w = [i \in 1..Len(ts) + 1 |->
                       IF i = 1 THEN 8 ELSE w[i - 1] + Padded(ts[i - 1].size)]
<1> DEFINE G(k, w) == w = [i \in 1..k + 1 |->
                             IF i = 1 THEN 8 ELSE w[i - 1] + Padded(ts[i - 1].size)]
           S == {k \in Nat : \E w : G(k, w)}
<1>1. 0 \in S
  <2>1. G(0, [i \in 1..0 + 1 |-> 8])  OBVIOUS
  <2> QED BY <2>1
<1>2. ASSUME NEW k \in Nat, k \in S PROVE k + 1 \in S
  <2>1. PICK v : G(k, v)  BY <1>2
  <2> DEFINE w == [i \in 1..(k + 1) + 1 |->
                     IF i = k + 2 THEN v[k + 1] + Padded(ts[k + 1].size) ELSE v[i]]
  <2>2. \A i \in 1..(k + 1) + 1 :
          w[i] = IF i = 1 THEN 8 ELSE w[i - 1] + Padded(ts[i - 1].size)
    <3> TAKE i \in 1..(k + 1) + 1
    <3>1. CASE i = k + 2
      <4>1. k + 1 \in 1..(k + 1) + 1 /\ k + 1 # k + 2 /\ i - 1 = k + 1 /\ i # 1  BY <3>1
      <4>2. w[k + 1] = v[k + 1]  BY <4>1
      <4> QED BY <3>1, <4>1, <4>2
    <3>2. CASE i # k + 2
      <4>1. i \in 1..k + 1 /\ w[i] = v[i]  BY <3>2
      <4>2. v[i] = IF i = 1 THEN 8 ELSE v[i - 1] + Padded(ts[i - 1].size)  BY <2>1, <4>1
      <4>3. CASE i = 1  BY <4>1, <4>2, <4>3
      <4>4. CASE i # 1
        <5>1. i - 1 \in 1..(k + 1) + 1 /\ i - 1 # k + 2  BY <4>1, <4>4
        <5>2. w[i - 1] = v[i - 1]  BY <5>1
        <5> QED BY <4>1, <4>2, <4>4, <5>2
      <4> QED BY <4>3, <4>4
    <3> QED BY <3>1, <3>2
  <2>3. G(k + 1, w)  BY <2>2
  <2>4. \E x : G(k + 1, x)
    <3> HIDE DEF w
    <3> QED BY <2>3
  <2> QED BY <2>4
<1>3. Nat \subseteq S
  <2> HIDE DEF S
  <2> QED BY <1>1, <1>2, Induction
<1>4. Len(ts) \in Nat  BY LenProperties
<1> QED BY <1>3, <1>4

LEMMA Offsets ==
  ASSUME tags \in Seq(Tag)
  PROVE  /\ Len(tags) \in Nat /\ DOMAIN tags = 1..Len(tags)
         /\ Offset[1] = 8
         /\ \A k \in 1..Len(tags) : /\ Padded(tags[k].size) \in Nat
                                    /\ Padded(tags[k].size) > 0
                                    /\ Offset[k + 1] = Offset[k] + Padded(tags[k].size)
<1>1. Len(tags) \in Nat /\ DOMAIN tags = 1..Len(tags)  BY LenProperties
<1>2. Offset = [i \in 1..Len(tags) + 1 |->
                  IF i = 1 THEN 8 ELSE Offset[i - 1] + Padded(tags[i - 1].size)]
  <2>1. PICK w : w = [i \in 1..Len(tags) + 1 |->
                        IF i = 1 THEN 8 ELSE w[i - 1] + Padded(tags[i - 1].size)]
    BY OffsetExists
  <2> QED BY <2>1 DEF Offset
<1>3. \A i \in 1..Len(tags) + 1 :
        Offset[i] = IF i = 1 THEN 8 ELSE Offset[i - 1] + Padded(tags[i - 1].size)
  <2> DEFINE w == Offset
  <2>1. w = [i \in 1..Len(tags) + 1 |->
               IF i = 1 THEN 8 ELSE w[i - 1] + Padded(tags[i - 1].size)]
    BY <1>2
  <2> HIDE DEF w
  <2>2. \A i \in 1..Len(tags) + 1 :
          w[i] = IF i = 1 THEN 8 ELSE w[i - 1] + Padded(tags[i - 1].size)
    BY <2>1
  <2> QED BY <2>2 DEF w
<1>4. Offset[1] = 8  BY <1>1, <1>3
<1>5. ASSUME NEW k \in 1..Len(tags)
      PROVE  /\ Padded(tags[k].size) \in Nat /\ Padded(tags[k].size) > 0
             /\ Offset[k + 1] = Offset[k] + Padded(tags[k].size)
  <2>1. tags[k].size \in Nat \ {0}
    <3>1. tags[k] \in Tag  BY ElementOfSeq
    <3> QED BY <3>1 DEF Tag
  <2>2. k + 1 \in 1..Len(tags) + 1 /\ k + 1 # 1 /\ (k + 1) - 1 = k  BY <1>1
  <2>3. Offset[k + 1] = Offset[(k + 1) - 1] + Padded(tags[(k + 1) - 1].size)  BY <1>3, <2>2
  <2> QED BY <2>1, <2>2, <2>3, PaddedMore
<1> QED BY <1>1, <1>4, <1>5

\* Offsets are numbers and grow from tag to tag.
LEMMA OffsetsGrow ==
  ASSUME tags \in Seq(Tag)
  PROVE  /\ \A k \in 1..Len(tags) + 1 : Offset[k] \in Nat /\ Offset[k] >= 8
         /\ \A i, k \in 1..Len(tags) + 1 : i < k => Offset[i] < Offset[k]
<1>1. /\ Len(tags) \in Nat /\ Offset[1] = 8
      /\ \A k \in 1..Len(tags) : /\ Padded(tags[k].size) \in Nat
                                 /\ Padded(tags[k].size) > 0
                                 /\ Offset[k + 1] = Offset[k] + Padded(tags[k].size)
  BY Offsets
<1> DEFINE Below(k) == /\ Offset[k] \in Nat /\ Offset[k] >= 8
                       /\ \A i \in 1..Len(tags) + 1 :
                            i < k => Offset[i] \in Nat /\ Offset[i] < Offset[k]
           S == {n \in Nat : n + 1 \in 1..Len(tags) + 1 => Below(n + 1)}
<1>2. 0 \in S
  <2>1. \A i \in 1..Len(tags) + 1 : ~(i < 1)  BY <1>1
  <2>2. Below(1)  BY <1>1, <2>1
  <2> QED BY <2>2
<1>3. ASSUME NEW n \in Nat, n \in S PROVE n + 1 \in S
  <2> SUFFICES ASSUME (n + 1) + 1 \in 1..Len(tags) + 1 PROVE Below((n + 1) + 1)  OBVIOUS
  <2>1. PICK k \in Nat : k = n + 1  OBVIOUS
  <2>2. k \in 1..Len(tags) /\ k \in 1..Len(tags) + 1  BY <1>1, <2>1
  <2>3. Below(k)  BY <1>3, <2>1, <2>2
  <2>4. PICK p \in Nat : p > 0 /\ Offset[k + 1] = Offset[k] + p  BY <1>1, <2>2
  <2>5. \A i \in 1..Len(tags) + 1 :
          i < k + 1 => Offset[i] \in Nat /\ Offset[i] < Offset[k + 1]
    <3> SUFFICES ASSUME NEW i \in 1..Len(tags) + 1, i < k + 1
                 PROVE  Offset[i] \in Nat /\ Offset[i] < Offset[k + 1]
      OBVIOUS
    <3>1. i = k \/ i < k  BY <1>1
    <3>2. CASE i = k  BY <2>3, <2>4, <3>2
    <3>3. CASE i < k
      <4>1. Offset[i] \in Nat /\ Offset[i] < Offset[k]  BY <2>3, <3>3
      <4>2. Offset[k] \in Nat  BY <2>3
      <4> QED BY <2>4, <4>1, <4>2
    <3> QED BY <3>1, <3>2, <3>3
  <2>6. Below(k + 1)  BY <2>3, <2>4, <2>5
  <2> QED BY <2>1, <2>6
<1>4. Nat \subseteq S
  <2> HIDE DEF S
  <2> QED BY <1>2, <1>3, Induction
<1>5. ASSUME NEW k \in 1..Len(tags) + 1 PROVE Below(k)
  <2>1. PICK n \in Nat : n = k - 1  BY <1>1
  <2>2. n + 1 = k  BY <1>1, <2>1
  <2>3. n \in S
    <3> HIDE DEF S
    <3> QED BY <1>4
  <2>4. n + 1 \in 1..Len(tags) + 1 => Below(n + 1)  BY <2>3
  <2> QED BY <2>2, <2>4
<1> QED BY <1>5

LEMMA TagBegins ==
  ASSUME tags \in Seq(Tag), NEW k \in 1..Len(tags)
  PROVE  TagAt(Offset[k]) = tags[k] /\ Offset[k] \in Boundaries /\ tags[k] \in Tag
<1>1. DOMAIN tags = 1..Len(tags) /\ Len(tags) \in Nat  BY Offsets
<1>2. \A i \in 1..Len(tags) : Offset[i] = Offset[k] => i = k
  <2> SUFFICES ASSUME NEW i \in 1..Len(tags), Offset[i] = Offset[k], i # k PROVE FALSE
    OBVIOUS
  <2>1. i \in 1..Len(tags) + 1 /\ k \in 1..Len(tags) + 1 /\ (i < k \/ k < i)  BY <1>1
  <2>2. Offset[i] < Offset[k] \/ Offset[k] < Offset[i]  BY <2>1, OffsetsGrow
  <2>3. PICK o \in Nat : o = Offset[k]  BY <2>1, OffsetsGrow
  <2> QED BY <2>2, <2>3
<1>3. (CHOOSE i \in DOMAIN tags : Offset[i] = Offset[k]) = k  BY <1>1, <1>2
<1>4. Offset[k] \in Boundaries  BY <1>1 DEF Boundaries
<1>5. tags[k] \in Tag  BY ElementOfSeq
<1> QED BY <1>3, <1>4, <1>5 DEF TagAt

\* Whole entries of e bytes
Whole(a, e) == \E q \in Nat : a = q * e

LEMMA WholeEntries ==
  ASSUME NEW e \in Nat \ {0}, NEW a \in Nat
  PROVE  /\ a % e = 0 => Whole(a, e)
         /\ Whole(a, e) /\ a # 0 => e <= a /\ Whole(a - e, e)
<1>1. ASSUME a % e = 0 PROVE Whole(a, e)
  <2>1. a \div e \in Nat /\ a % e = a - (a \div e) * e  BY Z3
  <2> QED BY <1>1, <2>1 DEF Whole
<1>2. ASSUME Whole(a, e), a # 0 PROVE e <= a /\ Whole(a - e, e)
  <2>1. PICK q \in Nat : a = q * e  BY <1>2 DEF Whole
  <2>2. q # 0  BY <1>2, <2>1
  <2>3. PICK r \in Nat : q = r + 1  BY <2>2
  <2>4. PICK p \in Nat : p = r * e
    <3>1. r * e \in Nat  BY Z3
    <3> QED BY <3>1
  <2>5. a = p + e  BY <2>1, <2>3, <2>4, Z3
  <2> QED BY <2>4, <2>5 DEF Whole
<1> QED BY <1>1, <1>2

\* parse_multiboot2 is at tag k, or behind the last one; in the memory map that tag k
\* is, whole entries are left.  f is the last frame buffer before it.
LastFb(k, f) ==
  \/ f = 0 /\ \A i \in 1..Len(tags) : i < k => tags[i].type # 8
  \/ \E m \in 1..Len(tags) :
       /\ m < k /\ tags[m].type = 8 /\ f = Offset[m]
       /\ \A i \in 1..Len(tags) : m < i /\ i < k => tags[i].type # 8

AtTag(k) ==
  /\ k \in 1..Len(tags) + 1 /\ ptr = Offset[k] /\ LastFb(k, fb) /\ entry \in Nat
  /\ entry # 0 => /\ k <= Len(tags) /\ tags[k].type = 6
                  /\ entry <= ptr + tags[k].size
                  /\ Whole(ptr + tags[k].size - entry, tags[k].entry_size)

WalkInv ==
  /\ InMain("start") => tags \in TagLists /\ entry = 0 /\ fb = 0
  /\ InMain("tags") => tags \in TagLists /\ \E k : AtTag(k)

LEMMA TagTypes ==
  ASSUME StartupAssumption, tags \in TagLists
  PROVE  /\ tags \in Seq(Tag)
         /\ \A i \in 1..Len(tags) : tags[i].type = 6 =>
              /\ tags[i].size >= 16 /\ tags[i].entry_size >= 24
              /\ (tags[i].size - 16) % tags[i].entry_size = 0
<1>1. /\ tags \in Seq(Tag)
      /\ \A i \in DOMAIN tags : tags[i].type = 6 =>
           /\ tags[i].size >= 16 /\ tags[i].entry_size >= 24
           /\ (tags[i].size - 16) % tags[i].entry_size = 0
  BY DEF StartupAssumption, Tag
<1> QED BY <1>1, Offsets

LEMMA LastFbNext ==
  ASSUME tags \in Seq(Tag), NEW k \in 1..Len(tags), NEW f, LastFb(k, f)
  PROVE  LastFb(k + 1, IF tags[k].type = 8 THEN Offset[k] ELSE f)
<1>1. Len(tags) \in Nat  BY Offsets
<1>2. \A i \in 1..Len(tags) : i < k + 1 <=> i < k \/ i = k  BY <1>1
<1>3. CASE tags[k].type = 8
  <2>1. k < k + 1 /\ \A i \in 1..Len(tags) : ~(k < i /\ i < k + 1)  BY <1>1
  <2> QED BY <1>3, <2>1 DEF LastFb
<1>4. CASE tags[k].type # 8
  <2>1. CASE f = 0 /\ \A i \in 1..Len(tags) : i < k => tags[i].type # 8
    BY <1>2, <1>4, <2>1 DEF LastFb
  <2>2. CASE \E m \in 1..Len(tags) :
               /\ m < k /\ tags[m].type = 8 /\ f = Offset[m]
               /\ \A i \in 1..Len(tags) : m < i /\ i < k => tags[i].type # 8
    <3>1. PICK m \in 1..Len(tags) :
                 /\ m < k /\ tags[m].type = 8 /\ f = Offset[m]
                 /\ \A i \in 1..Len(tags) : m < i /\ i < k => tags[i].type # 8
      BY <2>2
    <3>2. m < k + 1 /\ \A i \in 1..Len(tags) : m < i /\ i < k + 1 => tags[i].type # 8
      BY <1>2, <1>4, <3>1
    <3> QED BY <1>4, <3>1, <3>2 DEF LastFb
  <2> QED BY <2>1, <2>2 DEF LastFb
<1> QED BY <1>3, <1>4

LEMMA WalkSeen ==
  ASSUME StartupAssumption, WalkInv
  PROVE  TagsWalked
<1> SUFFICES ASSUME InMain("tags")
             PROVE  /\ ptr \in Boundaries \cup {TotalSize}
                    /\ entry # 0 => \/ entry + 24 <= ptr + TagAt(ptr).size
                                    \/ entry = ptr + TagAt(ptr).size
                    /\ LET seen == {i \in DOMAIN tags : tags[i].type = 8 /\ Offset[i] < ptr}
                       IN  fb = IF seen = {} THEN 0 ELSE Offset[Max(seen)]
  BY DEF TagsWalked
<1>1. PICK k : AtTag(k)  BY DEF WalkInv
<1>2. tags \in TagLists  BY DEF WalkInv
<1>3. tags \in Seq(Tag) /\ Len(tags) \in Nat /\ DOMAIN tags = 1..Len(tags)
  BY <1>2, TagTypes, Offsets
<1>4. k \in 1..Len(tags) + 1 /\ ptr = Offset[k] /\ LastFb(k, fb) /\ entry \in Nat
  BY <1>1 DEF AtTag
<1>5. ptr \in Boundaries \cup {TotalSize}
  <2>1. CASE k = Len(tags) + 1  BY <1>4, <2>1 DEF TotalSize
  <2>2. CASE k # Len(tags) + 1
    <3>1. k \in 1..Len(tags)  BY <1>3, <1>4, <2>2
    <3> QED BY <1>3, <1>4, <3>1, TagBegins
  <2> QED BY <2>1, <2>2
<1>6. ASSUME entry # 0
      PROVE  entry + 24 <= ptr + TagAt(ptr).size \/ entry = ptr + TagAt(ptr).size
  <2>1. /\ k \in 1..Len(tags) /\ tags[k].type = 6 /\ entry <= ptr + tags[k].size
        /\ Whole(ptr + tags[k].size - entry, tags[k].entry_size)
    BY <1>1, <1>3, <1>6 DEF AtTag
  <2>2. TagAt(ptr) = tags[k] /\ tags[k] \in Tag  BY <1>3, <1>4, <2>1, TagBegins
  <2>3. PICK size, e, at \in Nat : /\ size = tags[k].size /\ e = tags[k].entry_size
                                   /\ at = ptr
    BY <1>3, <1>4, <2>2, OffsetsGrow DEF Tag
  <2>4. e >= 24  BY <1>2, <2>1, <2>3, TagTypes
  <2>5. PICK n \in Nat : n = entry  BY <1>4
  <2>6. PICK a \in Nat : n + a = at + size
    <3>1. n <= at + size  BY <2>1, <2>3, <2>5
    <3>2. (at + size) - n \in Nat /\ n + ((at + size) - n) = at + size  BY <3>1
    <3> QED BY <3>2
  <2>7. Whole(a, e)
    <3>1. at + size - n = a  BY <2>6
    <3> QED BY <2>1, <2>3, <2>5, <3>1
  <2>8. e \in Nat \ {0}  BY <2>4
  <2>9. a # 0 => e <= a  BY <2>7, <2>8, WholeEntries
  <2>10. n + 24 <= at + size \/ n = at + size  BY <2>4, <2>6, <2>9
  <2>11. ptr + TagAt(ptr).size = at + size  BY <2>2, <2>3
  <2> QED BY <2>5, <2>10, <2>11
<1>7. ASSUME NEW i \in 1..Len(tags) PROVE Offset[i] < ptr <=> i < k
  <2>1. i \in 1..Len(tags) + 1 /\ (i < k \/ i = k \/ k < i)  BY <1>3, <1>4
  <2>2. PICK o \in Nat : o = Offset[k]  BY <1>3, <1>4, OffsetsGrow
  <2>3. PICK p \in Nat : p = Offset[i]  BY <1>3, <2>1, OffsetsGrow
  <2>4. (i < k => p < o) /\ (k < i => o < p)  BY <1>3, <1>4, <2>1, <2>2, <2>3, OffsetsGrow
  <2> QED BY <1>3, <1>4, <2>1, <2>2, <2>3, <2>4
<1> DEFINE seen == {i \in DOMAIN tags : tags[i].type = 8 /\ Offset[i] < ptr}
<1>8. \A i : i \in seen <=> i \in 1..Len(tags) /\ tags[i].type = 8 /\ i < k
  BY <1>3, <1>7
<1>9. fb = IF seen = {} THEN 0 ELSE Offset[Max(seen)]
  <2> HIDE DEF seen
  <2>1. CASE fb = 0 /\ \A i \in 1..Len(tags) : i < k => tags[i].type # 8
    <3>1. seen = {}  BY <1>8, <2>1
    <3> QED BY <2>1, <3>1
  <2>2. CASE \E m \in 1..Len(tags) :
               /\ m < k /\ tags[m].type = 8 /\ fb = Offset[m]
               /\ \A i \in 1..Len(tags) : m < i /\ i < k => tags[i].type # 8
    <3>1. PICK m \in 1..Len(tags) :
                 /\ m < k /\ tags[m].type = 8 /\ fb = Offset[m]
                 /\ \A i \in 1..Len(tags) : m < i /\ i < k => tags[i].type # 8
      BY <2>2
    <3>2. m \in seen /\ \A i \in seen : i \in Nat /\ m >= i
      <4>1. m \in seen  BY <1>8, <3>1
      <4>2. ASSUME NEW i \in seen PROVE i \in Nat /\ m >= i
        <5>1. i \in 1..Len(tags) /\ tags[i].type = 8 /\ i < k  BY <1>8
        <5>2. ~(m < i)  BY <3>1, <5>1
        <5> QED BY <1>3, <5>1, <5>2
      <4> QED BY <4>1, <4>2
    <3>3. Max(seen) = m
      <4>1. m \in Nat  BY <1>3
      <4>2. \A x \in seen : (\A y \in seen : x >= y) => x = m  BY <3>2, <4>1
      <4>3. Max(seen) \in seen /\ \A y \in seen : Max(seen) >= y  BY <3>2 DEF Max
      <4> QED BY <4>2, <4>3
    <3>4. seen # {}  BY <3>2
    <3> QED BY <3>1, <3>3, <3>4
  <2> QED BY <1>4, <2>1, <2>2 DEF LastFb
<1> QED BY <1>5, <1>6, <1>9

\* The address after tag k
LEMMA NextAddress ==
  ASSUME tags \in Seq(Tag), NEW k \in 1..Len(tags), ptr = Offset[k], NextTag
  PROVE  ptr' = Offset[k + 1] /\ k + 1 \in 1..Len(tags) + 1
<1>1. TagAt(ptr) = tags[k]  BY TagBegins
<1>2. Len(tags) \in Nat /\ Offset[k + 1] = Offset[k] + Padded(tags[k].size)  BY Offsets
<1> QED BY <1>1, <1>2 DEF NextTag

LEMMA TagStep ==
  ASSUME StartupAssumption, WalkInv, ParseTag
  PROVE  WalkInv'
<1>1. /\ InMain("tags") /\ entry = 0 /\ ~TagsEnd /\ UNCHANGED <<ip, tags>>
      /\ fb' = IF TagAt(ptr).type = 8 THEN ptr ELSE fb
      /\ IF TagAt(ptr).type = 6 THEN entry' = ptr + 16 /\ UNCHANGED ptr
                                ELSE NextTag /\ UNCHANGED entry
  BY DEF ParseTag, cpu
<1>2. PICK k : AtTag(k)  BY <1>1 DEF WalkInv
<1>3. tags \in TagLists /\ ~InMain("start")  BY <1>1 DEF WalkInv, InMain
<1>4. tags \in Seq(Tag) /\ Len(tags) \in Nat  BY <1>3, TagTypes, Offsets
<1>5. k \in 1..Len(tags) + 1 /\ ptr = Offset[k] /\ LastFb(k, fb)  BY <1>2 DEF AtTag
<1>6. k \in 1..Len(tags)
  <2>1. k # Len(tags) + 1
    <3> SUFFICES ASSUME k = Len(tags) + 1 PROVE FALSE  OBVIOUS
    <3>1. ptr \in Nat /\ ptr = TotalSize  BY <1>4, <1>5, OffsetsGrow DEF TotalSize
    <3> QED BY <1>1, <3>1 DEF TagsEnd
  <2> QED BY <1>4, <1>5, <2>1
<1>7. TagAt(ptr) = tags[k] /\ tags[k] \in Tag /\ Offset[k] \in Nat
  BY <1>4, <1>5, <1>6, TagBegins, OffsetsGrow
<1>8. /\ tags' = tags /\ Offset' = Offset
      /\ \A n, f : LastFb(n, f)' <=> LastFb(n, f')
  BY <1>1 DEF Offset, LastFb
<1>9. CASE tags[k].type = 6
  <2>1. entry' = ptr + 16 /\ ptr' = ptr /\ fb' = fb  BY <1>1, <1>7, <1>9
  <2>2. tags[k].size >= 16 /\ tags[k].entry_size >= 24
        /\ (tags[k].size - 16) % tags[k].entry_size = 0
    BY <1>3, <1>6, <1>9, TagTypes
  <2>3. PICK at \in Nat : at = ptr  BY <1>5, <1>7
  <2>4. PICK size, e \in Nat : size = tags[k].size /\ e = tags[k].entry_size
    BY <1>7 DEF Tag
  <2>5. e \in Nat \ {0} /\ size - 16 \in Nat /\ Whole(size - 16, e)
    <3>1. e \in Nat \ {0} /\ size - 16 \in Nat /\ (size - 16) % e = 0  BY <2>2, <2>4
    <3> QED BY <3>1, WholeEntries
  <2>6. Whole(ptr' + tags[k].size - entry', tags[k].entry_size)
    <3>1. (at + size) - (at + 16) = size - 16  BY <2>4
    <3> QED BY <2>1, <2>3, <2>4, <2>5, <3>1
  <2>7. entry' \in Nat /\ entry' <= ptr' + tags[k].size  BY <2>1, <2>2, <2>3, <2>4
  <2>8. k <= Len(tags)  BY <1>6
  <2>9. AtTag(k)'  BY <1>5, <1>8, <1>9, <2>1, <2>6, <2>7, <2>8 DEF AtTag
  <2> QED BY <1>1, <1>3, <2>9 DEF WalkInv, InMain
<1>10. CASE tags[k].type # 6
  <2>1. NextTag /\ entry' = 0  BY <1>1, <1>7, <1>10
  <2>2. ptr' = Offset[k + 1] /\ k + 1 \in 1..Len(tags) + 1
    BY <1>4, <1>5, <1>6, <2>1, NextAddress
  <2>3. fb' = IF tags[k].type = 8 THEN Offset[k] ELSE fb  BY <1>1, <1>5, <1>7
  <2>4. LastFb(k + 1, fb')  BY <1>4, <1>5, <1>6, <2>3, LastFbNext
  <2>5. AtTag(k + 1)'  BY <1>8, <2>1, <2>2, <2>4 DEF AtTag
  <2> QED BY <1>1, <1>3, <2>5 DEF WalkInv, InMain
<1> QED BY <1>9, <1>10

LEMMA EntryStep ==
  ASSUME StartupAssumption, WalkInv, ParseEntry
  PROVE  WalkInv'
<1>1. /\ InMain("tags") /\ entry # 0 /\ UNCHANGED <<ip, tags, fb>>
      /\ IF entry < ptr + TagAt(ptr).size
         THEN entry' = entry + TagAt(ptr).entry_size /\ UNCHANGED ptr
         ELSE entry' = 0 /\ NextTag
  BY DEF ParseEntry, cpu
<1>2. PICK k : AtTag(k)  BY <1>1 DEF WalkInv
<1>3. tags \in TagLists /\ ~InMain("start")  BY <1>1 DEF WalkInv, InMain
<1>4. tags \in Seq(Tag) /\ Len(tags) \in Nat  BY <1>3, TagTypes, Offsets
<1>5. /\ k \in 1..Len(tags) /\ ptr = Offset[k] /\ LastFb(k, fb) /\ entry \in Nat
      /\ tags[k].type = 6 /\ entry <= ptr + tags[k].size
      /\ Whole(ptr + tags[k].size - entry, tags[k].entry_size)
  BY <1>1, <1>2, <1>4 DEF AtTag
<1>6. TagAt(ptr) = tags[k] /\ tags[k] \in Tag /\ Offset[k] \in Nat
  BY <1>4, <1>5, TagBegins, OffsetsGrow
<1>7. /\ tags' = tags /\ Offset' = Offset
      /\ \A n, f : LastFb(n, f)' <=> LastFb(n, f')
  BY <1>1 DEF Offset, LastFb
<1>8. CASE entry < ptr + tags[k].size
  <2>1. entry' = entry + tags[k].entry_size /\ ptr' = ptr  BY <1>1, <1>6, <1>8
  <2>2. PICK at, n, size, e \in Nat :
               /\ at = ptr /\ n = entry /\ size = tags[k].size /\ e = tags[k].entry_size
    BY <1>5, <1>6 DEF Tag
  <2>3. e >= 24  BY <1>3, <1>5, <2>2, TagTypes
  <2>4. PICK a \in Nat : n + a = at + size /\ a # 0
    <3>1. n < at + size  BY <1>8, <2>2
    <3>2. /\ (at + size) - n \in Nat /\ n + ((at + size) - n) = at + size
          /\ (at + size) - n # 0
      BY <3>1
    <3> QED BY <3>2
  <2>5. Whole(a, e)
    <3>1. at + size - n = a  BY <2>4
    <3> QED BY <1>5, <2>2, <3>1
  <2>6. e <= a /\ Whole(a - e, e)
    <3>1. e \in Nat \ {0}  BY <2>3
    <3> QED BY <2>4, <2>5, <3>1, WholeEntries
  <2>7. n + e \in Nat /\ n + e # 0 /\ n + e <= at + size  BY <2>3, <2>4, <2>6
  <2>8. Whole(at + size - (n + e), e)
    <3>1. at + size - (n + e) = a - e  BY <2>4
    <3> QED BY <2>6, <3>1
  <2>9. /\ entry' \in Nat /\ entry' <= ptr' + tags[k].size
        /\ Whole(ptr' + tags[k].size - entry', tags[k].entry_size)
    BY <2>1, <2>2, <2>7, <2>8
  <2>10. k <= Len(tags) /\ k \in 1..Len(tags) + 1  BY <1>4, <1>5
  <2>11. AtTag(k)'  BY <1>1, <1>5, <1>7, <2>1, <2>9, <2>10 DEF AtTag
  <2> QED BY <1>1, <1>3, <2>11 DEF WalkInv, InMain
<1>9. CASE ~(entry < ptr + tags[k].size)
  <2>1. entry' = 0 /\ NextTag  BY <1>1, <1>6, <1>9
  <2>2. ptr' = Offset[k + 1] /\ k + 1 \in 1..Len(tags) + 1
    BY <1>4, <1>5, <2>1, NextAddress
  <2>3. LastFb(k + 1, fb)
    <3>1. tags[k].type # 8  BY <1>5
    <3>2. LastFb(k + 1, IF tags[k].type = 8 THEN Offset[k] ELSE fb)
      BY <1>4, <1>5, LastFbNext
    <3> QED BY <3>1, <3>2
  <2>4. AtTag(k + 1)'  BY <1>1, <1>7, <2>1, <2>2, <2>3 DEF AtTag
  <2> QED BY <1>1, <1>3, <2>4 DEF WalkInv, InMain
<1> QED BY <1>8, <1>9

LEMMA StartStep ==
  ASSUME StartupAssumption, StartInv, WalkInv, Start
  PROVE  WalkInv'
<1>1. ip.prog = Main /\ ip.at = 1
  <2>1. ip.prog = Main  BY DEF Start, InMain
  <2>2. ip.at \in 1..14  BY <2>1, InKernel
  <2> QED BY <2>1, <2>2, ProgramOrder DEF Start, InMain
<1>2. ip' = [ip EXCEPT !.at = 2]  BY <1>1 DEF Start, Advance
<1>3. tags \in TagLists /\ entry = 0 /\ fb = 0 /\ ptr' = 8 /\ UNCHANGED <<tags, entry, fb>>
  BY DEF Start, WalkInv
<1>4. tags \in Seq(Tag) /\ Len(tags) \in Nat /\ Offset[1] = 8 BY <1>3, TagTypes, Offsets
<1>5. Offset' = Offset /\ tags' = tags  BY <1>3 DEF Offset
<1>6. AtTag(1)'
  <2>1. \A i \in 1..Len(tags) : ~(i < 1)  BY <1>4
  <2>2. LastFb(1, 0)'  BY <1>5, <2>1 DEF LastFb
  <2>3. 1 \in 1..Len(tags) + 1  BY <1>4
  <2> QED BY <1>3, <1>4, <1>5, <2>2, <2>3 DEF AtTag
<1>7. ~InMain("start")'
  <2>1. ip'.at = 2  BY <1>2, InKernel, <1>1 DEF Places
  <2> QED BY <2>1 DEF InMain, Program
<1> QED BY <1>3, <1>6, <1>7 DEF WalkInv

\* Interrupts come after the walk and return to what comes after it.
LEMMA TrapsAway ==
  ASSUME StartInv, CpuTraps
  PROVE  ip'.prog = Main => ip'.at > 9
<1> SUFFICES ASSUME ip'.prog = Main PROVE ip'.at > 9  OBVIOUS
<1>1. \A v \in Vectors : v >= 0 /\ v \in Nat  BY VectorFacts, TrapsAssumption
<1>2. ASSUME NEW v, NEW e, EnterVector(v, e) PROVE FALSE
  <2>1. CASE Enterable(v)
    <3>1. \E w \in Vectors : StubAddress(w) = Long(idt[v].base_high, idt[v].base_low)
      BY <2>1 DEF Enterable, ValidGate
    <3>2. Target(v) \in Vectors  BY <3>1 DEF Target
    <3>3. ip'.prog = Target(v)  BY <1>2, <2>1 DEF EnterVector, Ip
    <3> QED BY <1>1, <3>2, <3>3 DEF Main
  <2>2. CASE ~Enterable(v)  BY <1>2, <2>2 DEF EnterVector, Lost, Ip, Wild, Main
  <2> QED BY <2>1, <2>2
<1>3. StubStep
  <2>1. \A l : ~Interrupt(l)  BY <1>2 DEF Interrupt
  <2>2. ~SoftwareInterrupt /\ ~Fault  BY <1>2 DEF SoftwareInterrupt, Fault
  <2> QED BY <2>1, <2>2 DEF CpuTraps
<1>4. CASE Iret
  <2>0. Last(shadow).vector \notin Misframed
    <3>1. ip'.prog # Wild  BY DEF Main, Wild
    <3> QED BY <1>4, <3>1, Returns DEF Ip
  <2>1. shadow # <<>> /\ ip' = Last(shadow).ip  BY <1>4, <2>0, Returns
  <2>2. PICK b : LaidOut(shadow, Now, stack, b)  BY DEF StartInv, Laid
  <2>3. shadow \in Seq(Seen) /\ stack \in Seq(Items)  BY DEF StartInv, CpuTypeOK
  <2>4. Len(shadow) \in Nat /\ Len(shadow) \in 1..Len(shadow)  BY <2>1, <2>2, <2>3, LaidOutFacts
  <2>5. ip' = shadow[Len(shadow)].ip  BY <2>1 DEF Last
  <2>6. CASE Len(shadow) = 1
    <3>1. Bottom = ip'  BY <2>1, <2>5, <2>6 DEF Bottom
    <3>2. Past(9)  BY <2>1 DEF StartInv, SetUp
    <3> QED BY <3>1, <3>2 DEF Past, Main, User
  <2>7. CASE Len(shadow) # 1
    <3>1. PICK d \in 1..Len(shadow) : d + 1 = Len(shadow)
      <4>1. Len(shadow) - 1 \in 1..Len(shadow) /\ (Len(shadow) - 1) + 1 = Len(shadow)
        BY <2>4, <2>7
      <4> QED BY <4>1
    <3>2. d # Len(shadow)  BY <2>4, <3>1
    <3>3. Holds(shadow[d], GoesOn(shadow, Now, d), stack, b[d], b[d + 1])
      BY <2>2 DEF LaidOut
    <3>4. GoesOn(shadow, Now, d) = shadow[Len(shadow)]  BY <3>1, <3>2 DEF GoesOn
    <3>5. ip'.prog = shadow[d].vector  BY <2>5, <3>3, <3>4 DEF Holds, Works
    <3>6. shadow[d] \in Seen  BY <2>3, ElementOfSeq
    <3> QED BY <1>1, <3>5, <3>6 DEF Seen, Main
  <2> QED BY <2>6, <2>7
<1>5. CASE ~Iret
  <2>1. Op # "none"
    BY <1>3, <1>5
       DEF StubStep, Push, KernelSegs, EoiSlave, EoiMaster, Dispatch, IsrHandler,
           SyscallHandler, SetEax, Drop, PopSegs, PopRegs
  <2>2. InStub  BY <2>1 DEF Op
  <2>3. ip'.prog = ip.prog \/ ip'.prog = Wild
    <3>1. ip \in [prog : Int, at : Nat]  BY DEF StartInv, CpuTypeOK, Places
    <3>2. Advance \/ Lost \/ IsrHandler
      BY <1>3, <1>5
         DEF StubStep, Push, KernelSegs, EoiSlave, EoiMaster, Dispatch,
             SyscallHandler, SetEax, Drop, PopSegs, PopRegs
    <3>3. CASE Advance  BY <3>1, <3>3 DEF Advance
    <3>4. CASE Lost  BY <3>4 DEF Lost, Ip
    <3>5. CASE IsrHandler  BY <3>1, <3>5 DEF IsrHandler
    <3> QED BY <3>2, <3>3, <3>4, <3>5
  <2>4. ip.prog \in Int  BY DEF StartInv, CpuTypeOK, Places
  <2> QED BY <2>2, <2>3, <2>4 DEF InStub, Main, Wild
<1> QED BY <1>4, <1>5

LEMMA LaterInMain ==
  ASSUME StartInv,
         ParseDone \/ InitGdt \/ gdt_flush \/ tss_flush \/ InitPic \/ InitGates \/ Lidt \/ Sti
           \/ Elsewhere \/ keyboard_init \/ UserSegs \/ IretToUser
  PROVE  ip'.prog = Main => ip'.at > 2
<1>1. ip.prog = Main
  BY DEF ParseDone, InitGdt, gdt_flush, tss_flush, InitPic, InitGates, Lidt, Sti, Elsewhere,
         keyboard_init, UserSegs, IretToUser, InMain
<1>2. ip.at \in 1..14 /\ ip \in [prog : Int, at : Nat]  BY <1>1, InKernel DEF Places
<1>3. Program[ip.at] # "start"
  BY DEF ParseDone, InitGdt, gdt_flush, tss_flush, InitPic, InitGates, Lidt, Sti, Elsewhere,
         keyboard_init, UserSegs, IretToUser, InMain
<1>4. ip.at # 1  BY <1>3 DEF Program
<1>5. Advance \/ Lost \/ IretToUser
  BY DEF ParseDone, InitGdt, gdt_flush, tss_flush, InitPic, InitGates, Lidt, Sti, Elsewhere,
         keyboard_init, UserSegs, MainStep
<1>6. CASE Advance
  <2>1. ip'.at = ip.at + 1  BY <1>2, <1>6 DEF Advance
  <2> QED BY <1>2, <1>4, <2>1
<1>7. CASE Lost  BY <1>7 DEF Lost, Ip, Wild, Main
<1>8. CASE IretToUser  BY <1>8 DEF IretToUser, Ip, User, Wild, Main
<1> QED BY <1>5, <1>6, <1>7, <1>8

LEMMA WalkOver ==
  ASSUME ip'.prog = Main => ip'.at \in Nat /\ ip'.at > 2 /\ ip'.at <= 14
  PROVE  WalkInv'
<1>1. \A k \in 1..14 : k > 2 => Program[k] # "start" /\ Program[k] # "tags"
  <2> TAKE k \in 1..14
  <2>1. Program[k] = "start" => k = 1  BY ProgramOrder
  <2>2. Program[k] = "tags" => k = 2  BY ProgramOrder
  <2> QED BY <2>1, <2>2
<1>2. ~InMain("start")' /\ ~InMain("tags")'  BY <1>1 DEF InMain
<1> QED BY <1>2 DEF WalkInv

InProgram == ip.prog = Main => ip.at \in Nat /\ ip.at <= 14

LEMMA WalkStep ==
  ASSUME StartupAssumption, StartInv, InProgram', WalkInv, [StartNext]_startVars
  PROVE  WalkInv'
<1>1. ip'.prog = Main => ip'.at \in Nat /\ ip'.at <= 14  BY DEF InProgram
<1>2. ASSUME UNCHANGED <<ip, mbVars>> PROVE WalkInv'
  <2>1. UNCHANGED <<ip, tags, ptr, entry, fb>>  BY <1>2 DEF mbVars
  <2>2. Offset' = Offset  BY <2>1 DEF Offset
  <2>3. \A k : LastFb(k, fb)' <=> LastFb(k, fb)  BY <2>1, <2>2 DEF LastFb
  <2>4. \A k : AtTag(k)' <=> AtTag(k)  BY <2>1, <2>2, <2>3 DEF AtTag
  <2> QED BY <2>1, <2>4 DEF WalkInv, InMain
<1>3. ASSUME UNCHANGED startVars PROVE WalkInv'
  BY <1>2, <1>3 DEF startVars, trapVars, cpu
<1>4. ASSUME Device PROVE WalkInv'  BY <1>2, <1>4 DEF Device, Raise, cpu
<1>5. ASSUME CpuTraps PROVE WalkInv'
  <2>1. ip'.prog = Main => ip'.at > 9  BY <1>5, TrapsAway
  <2> QED BY <1>1, <2>1, WalkOver
<1>6. ASSUME kernel_main PROVE WalkInv'
  <2>1. Start => WalkInv'  BY StartStep
  <2>2. ParseTag => WalkInv'  BY TagStep
  <2>3. ParseEntry => WalkInv'  BY EntryStep
  <2>4. ParseDone \/ InitGdt \/ gdt_flush \/ tss_flush \/ InitPic \/ InitGates \/ Lidt \/ Sti
          \/ Elsewhere \/ keyboard_init \/ UserSegs \/ IretToUser => WalkInv'
    BY <1>1, LaterInMain, WalkOver
  <2> QED BY <1>6, <2>1, <2>2, <2>3, <2>4 DEF kernel_main
<1> QED BY <1>3, <1>4, <1>5, <1>6 DEF StartNext

\* parse_multiboot2 (anemoia.c:38-66) reads tags only where the boot loader put them and
\* entries only inside their memory map, and finds the last frame buffer (TagsWalked),
\* for every list of tags whose memory maps are of whole entries.
THEOREM TagsAlwaysWalked == StartSpec => []TagsWalked
<1>1. (\E ts \in TagLists : StartInit(ts)) => WalkInv
  <2> SUFFICES ASSUME NEW ts \in TagLists, StartInit(ts) PROVE WalkInv  OBVIOUS
  <2>1. tags \in TagLists /\ entry = 0 /\ fb = 0 /\ ip.at = 1
    BY DEF StartInit, Ip
  <2>2. ~InMain("tags")  BY <2>1 DEF InMain, Program
  <2> QED BY <2>1, <2>2 DEF WalkInv
<1>2. (StartInv \/ ip.prog = Wild) /\ InProgram' /\ WalkInv /\ [StartNext]_startVars
        => WalkInv'
  <2>1. ASSUME ip.prog = Wild, [StartNext]_startVars PROVE WalkInv'
    <3>1. ip' = ip  BY <2>1, LostForGood
    <3>2. ip'.prog # Main  BY <2>1, <3>1 DEF Main, Wild
    <3> QED BY <3>2, WalkOver
  <2> QED BY <2>1, WalkStep, StartupAssumption
<1>3. WalkInv => TagsWalked  BY WalkSeen, StartupAssumption
<1>4. StartInv \/ ip.prog = Wild => InProgram
  <2>1. StartInv => InProgram  BY InKernel DEF InProgram
  <2>2. ip.prog = Wild => InProgram  BY DEF InProgram, Wild, Main
  <2> QED BY <2>1, <2>2
<1> QED BY <1>1, <1>2, <1>3, <1>4, StartInvariance, PTL DEF StartSpec
=============================================================================
