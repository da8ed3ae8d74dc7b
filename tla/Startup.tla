------------------------------- MODULE Startup -------------------------------
(***************************************************************************)
(* From the boot loader to user mode: _start of boot/boot.asm, and         *)
(* kernel_main with parse_multiboot2, init_gdt, init_idt and keyboard_init *)
(* (kernel/anemoia.c, arch/i386, drivers/keyboard), up to its iret and     *)
(* beyond.  Interrupts come from the STI of idt_flush on.  What kernel_main*)
(* does to memory and processes meanwhile is in Memory and Boot.           *)
(***************************************************************************)
EXTENDS Traps

CONSTANTS
  TagLists,         \* lists of tags a boot loader may pass: type, size, entry_size
  EarlyKeys         \* whether a key may be pressed before keyboard_init

\* The tags of a boot loader: maps are of whole entries behind a head of 16 bytes.
ASSUME StartupAssumption ==
  \A ts \in TagLists :
    /\ ts \in Seq([type : Nat, size : Nat \ {0}, entry_size : Nat])
    /\ \A i \in DOMAIN ts : ts[i].type = 6 =>
         /\ ts[i].size >= 16 /\ ts[i].entry_size >= 24
         /\ (ts[i].size - 16) % ts[i].entry_size = 0

VARIABLES
  tags,             \* the tags at mb_info_addr
  ptr, entry,       \* of parse_multiboot2; entry = 0 outside the inner loop
  fb                \* the tag that fb_set_addr was called with, or 0

mbVars == <<tags, ptr, entry, fb>>
startVars == <<trapVars, mbVars>>

-----------------------------------------------------------------------------
Program == <<"start", "tags", "gdt", "lgdt", "ltr", "pic", "gates", "lidt", "sti",
             "memory", "keyboard", "processes", "segs", "iret">>

InMain(op) == ip.prog = Main /\ Program[ip.at] = op

\* The loader leaves the interrupts off, and controllers and tables as they were.
ZeroGate == set_idt_gate(ZeroLong, 0, 0)
ZeroSeg  == set_gdt_gate(ZeroLong, ZeroLong, 0, 0)
BiosChip(base) == [base |-> base, stage |-> 0, mask |-> 0, cascade |-> 0,
                   isr |-> {}, irr |-> {}]

StartInit(ts) ==
  /\ ip = Ip(Main, 1) /\ gp = <<1, 1>> /\ seg = 24 /\ stack = <<>>
  /\ sti = FALSE /\ obf = FALSE /\ shadow = <<>> /\ loaded = {}
  /\ gdt = [i \in 0..5 |-> ZeroSeg] /\ idt = [v \in Vectors |-> ZeroGate]
  /\ tss = [esp0 |-> "none", ss0 |-> 0]
  /\ irq_routines = {}
  /\ pic = [c \in {"master", "slave"} |-> BiosChip(IF c = "master" THEN 8 ELSE 112)]
  /\ tags = ts /\ ptr = 0 /\ entry = 0 /\ fb = 0

\* A step of kernel_main that leaves the multiboot information alone.
MainStep == Advance /\ UNCHANGED <<seg, stack, shadow, obf, mbVars>>

-----------------------------------------------------------------------------
(* struct mb2_info and its tags: each begins at a multiple of 8.             *)

Padded(n) == 8 * ((n + 7) \div 8)
Offset[i \in 1..Len(tags) + 1] ==
  IF i = 1 THEN 8 ELSE Offset[i - 1] + Padded(tags[i - 1].size)
TotalSize == Offset[Len(tags) + 1]
Boundaries == {Offset[i] : i \in DOMAIN tags}

\* The tag at an address; between two tags, whatever their contents say.
TagAt(p) == IF p \in Boundaries THEN tags[CHOOSE i \in DOMAIN tags : Offset[i] = p]
            ELSE [type |-> 1, size |-> 8, entry_size |-> 0]

\* .bss is cleared, which the initial state of the tables says; kernel_main
\* calls debug_serial_init and parse_multiboot2.
Start == /\ InMain("start")
         /\ ptr' = 8 /\ Advance
         /\ UNCHANGED <<gp, seg, stack, shadow, sti, tables, pic, irq_routines, obf,
                        tags, entry, fb>>

NextTagUnpadded == ptr' = ptr + TagAt(ptr).size      \* mutant: without (size + 7) & ~7
NextTag         == ptr' = ptr + Padded(TagAt(ptr).size)

TagsEnd == ptr >= TotalSize \/ TagAt(ptr).type = 0

\* One round of parse_multiboot2: a tag, or an entry of a memory map.
ParseTag ==
  /\ InMain("tags") /\ entry = 0 /\ ~TagsEnd
  /\ fb' = IF TagAt(ptr).type = 8 THEN ptr ELSE fb
  /\ IF TagAt(ptr).type = 6 THEN entry' = ptr + 16 /\ UNCHANGED ptr
                            ELSE NextTag /\ UNCHANGED entry
  /\ UNCHANGED <<cpu, sti, tables, pic, irq_routines, obf, tags>>

\* Its return; nothing reads the information block afterwards.
ParseDone ==
  /\ InMain("tags") /\ entry = 0 /\ TagsEnd
  /\ tags' = <<>> /\ ptr' = 0
  /\ Advance
  /\ UNCHANGED <<gp, seg, stack, shadow, sti, tables, pic, irq_routines, obf, entry, fb>>

ParseEntry ==
  /\ InMain("tags") /\ entry # 0
  /\ IF entry < ptr + TagAt(ptr).size
     THEN entry' = entry + TagAt(ptr).entry_size /\ UNCHANGED ptr
     ELSE entry' = 0 /\ NextTag
  /\ UNCHANGED <<cpu, sti, tables, pic, irq_routines, obf, tags, fb>>

-----------------------------------------------------------------------------
(* init_gdt                                                                  *)

write_tss == [esp0 |-> "kernel_stack", ss0 |-> 16]

gdt_entries ==
  [i \in 0..5 |->
     CASE i = 0 -> ZeroSeg
       [] i = 1 -> set_gdt_gate(ZeroLong, Ones, 154, 207)
       [] i = 2 -> set_gdt_gate(ZeroLong, Ones, 146, 207)
       [] i = 3 -> set_gdt_gate(ZeroLong, Ones, 250, 207)
       [] i = 4 -> set_gdt_gate(ZeroLong, Ones, 242, 207)
       [] i = 5 -> set_gdt_gate(TssAddress, Long(0, 107), 137, 0)]

InitGdt ==
  /\ InMain("gdt")
  /\ gdt' = gdt_entries /\ tss' = write_tss
  /\ MainStep
  /\ UNCHANGED <<gp, sti, idt, loaded, pic, irq_routines>>

gdt_flush ==
  /\ InMain("lgdt")
  /\ loaded' = loaded \cup {"gdtr"}
  /\ IF CodeSegment(8, 0) /\ DataSegment(16, 0) THEN Advance ELSE Lost
  /\ seg' = 16 /\ gp' = <<16, gp[2]>>
  /\ UNCHANGED <<stack, shadow, sti, gdt, idt, tss, pic, irq_routines, obf, mbVars>>

tss_flush ==
  /\ InMain("ltr")
  /\ loaded' = loaded \cup {"tr"}
  /\ gp' = <<43, gp[2]>>
  /\ MainStep
  /\ UNCHANGED <<sti, gdt, idt, tss, pic, irq_routines>>

-----------------------------------------------------------------------------
(* init_idt.  Interrupts are off until its STI.                              *)

\* What a write to a port does to a controller, external: 0x11 starts the
\* sequence ICW1 to ICW4, which forgets all requests; after it come masks.
PicWrite(p, w) ==
  LET c == IF w[1] \in {32, 33} THEN "master" ELSE "slave"
  IN  CASE w[1] \in {32, 160} /\ w[2] = 17 ->
             [p EXCEPT ![c].stage = 1, ![c].isr = {}, ![c].irr = {}]
        [] w[1] \in {33, 161} /\ p[c].stage = 1 -> [p EXCEPT ![c].base = w[2], ![c].stage = 2]
        [] w[1] \in {33, 161} /\ p[c].stage = 2 -> [p EXCEPT ![c].cascade = w[2], ![c].stage = 3]
        [] w[1] \in {33, 161} /\ p[c].stage = 3 -> [p EXCEPT ![c].stage = 0]
        [] OTHER -> [p EXCEPT ![c].mask = w[2]]

PicWrites == <<<<32, 17>>, <<160, 17>>, <<33, 32>>, <<161, 40>>, <<33, 4>>, <<161, 2>>,
               <<33, 1>>, <<161, 1>>, <<33, 0>>, <<161, 0>>>>

\* The controllers after the first n writes
PicAfter[n \in 0..Len(PicWrites)] ==
  IF n = 0 THEN pic ELSE PicWrite(PicAfter[n - 1], PicWrites[n])

InitPic ==
  /\ InMain("pic")
  /\ pic' = PicAfter[Len(PicWrites)]
  /\ MainStep
  /\ UNCHANGED <<gp, sti, tables, irq_routines>>

idt_entries == [v \in Vectors |-> set_idt_gate(StubAddress(v), 8, 239)]

InitGates ==
  /\ InMain("gates")
  /\ idt' = idt_entries
  /\ MainStep
  /\ UNCHANGED <<gp, sti, gdt, tss, loaded, pic, irq_routines>>

\* idt_flush
Lidt ==
  /\ InMain("lidt")
  /\ loaded' = loaded \cup {"idtr"}
  /\ MainStep
  /\ UNCHANGED <<gp, sti, gdt, idt, tss, pic, irq_routines>>

Sti ==
  /\ InMain("sti")
  /\ sti' = TRUE
  /\ MainStep
  /\ UNCHANGED <<gp, tables, pic, irq_routines>>

-----------------------------------------------------------------------------
\* Memory before keyboard_init, processes after it
Elsewhere ==
  /\ InMain("memory") \/ InMain("processes")
  /\ MainStep
  /\ UNCHANGED <<gp, sti, tables, pic, irq_routines>>

keyboard_init ==
  /\ InMain("keyboard")
  /\ irq_install_handler(1)
  /\ MainStep
  /\ UNCHANGED <<gp, sti, tables, pic>>

UserSegs ==
  /\ InMain("segs")
  /\ IF DataSegment(35, 3) THEN Advance ELSE Lost
  /\ seg' = 35 /\ gp' = <<35, gp[2]>>
  /\ UNCHANGED <<stack, shadow, sti, tables, pic, irq_routines, obf, mbVars>>

IretToUser ==
  /\ InMain("iret")
  /\ ip' = IF CodeSegment(27, 3) /\ DataSegment(35, 3) THEN Ip(User, 0) ELSE Ip(Wild, 0)
  /\ UNCHANGED <<gp, seg, stack, shadow, sti, tables, pic, irq_routines, obf, mbVars>>

kernel_main == \/ Start \/ ParseTag \/ ParseEntry \/ ParseDone
               \/ InitGdt \/ gdt_flush \/ tss_flush \/ InitPic \/ InitGates \/ Lidt \/ Sti \/ Elsewhere \/ keyboard_init
               \/ UserSegs \/ IretToUser

Device == /\ Raise /\ UNCHANGED mbVars
          /\ obf' # obf => 1 \in irq_routines \/ EarlyKeys

CpuTraps == /\ \/ \E l \in Lines : Interrupt(l)
               \/ SoftwareInterrupt \/ Fault \/ StubStep
            /\ UNCHANGED mbVars

StartNext == kernel_main \/ Device \/ CpuTraps

StartSpec == (\E ts \in TagLists : StartInit(ts)) /\ [][StartNext]_startVars

\* Instructions take nanoseconds and interrupts are far apart: the handlers at
\* each depth of nesting go on; a request that stays deliverable is delivered.
StartFairness ==
  /\ \A d \in 1..MaxNest : SF_startVars(Len(shadow) = d /\ StubStep /\ UNCHANGED mbVars)
  /\ WF_startVars(kernel_main)
  /\ SF_startVars(Interrupt(1) /\ UNCHANGED mbVars)

-----------------------------------------------------------------------------
\* parse_multiboot2 (anemoia.c:38-66) reads tags only where tags begin and map
\* entries only inside their tag, whatever sizes the loader used, and ends up
\* with the last frame buffer it passed.
TagsWalked ==
  InMain("tags") =>
  /\ ptr \in Boundaries \cup {TotalSize}
  /\ entry # 0 =>
       \/ entry + 24 <= ptr + TagAt(ptr).size
       \/ entry = ptr + TagAt(ptr).size
  /\ LET seen == {i \in DOMAIN tags : tags[i].type = 8 /\ Offset[i] < ptr}
     IN  fb = IF seen = {} THEN 0 ELSE Offset[Max(seen)]
=============================================================================
