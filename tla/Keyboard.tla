------------------------------- MODULE Keyboard -------------------------------
(***************************************************************************)
(* The way of a key from the keyboard to the shell: keyboard_handler fills *)
(* a ring with 8-bit indices, drivers/keyboard/keyboard.c, which the shell *)
(* empties through the system calls HAS_KEY and GET_KEY, usr/user_main.c.  *)
(*                                                                         *)
(* Handler and system calls run as activations on the stack of the process *)
(* that was interrupted or called; a tick hands the CPU to another process *)
(* between any two statements.  That nothing else happens to activations   *)
(* is what Scheduler is shown to implement (module Multitasking).          *)
(***************************************************************************)
EXTENDS Integers, Sequences, SequencesExt

CONSTANTS
  Processes, Shell,     \* the processes, and the one that reads the keyboard
  RingSize,             \* 256: slots of key_buffer and range of its indices
  MaxKeys,              \* bound: scancodes that arrive
  MaxHandlers,          \* keyboard handlers that may be unfinished at a time
  MaxUnread             \* keys that may be waiting for the shell

ASSUME KeyboardAssumption ==
  /\ Shell \in Processes
  /\ RingSize \in Nat /\ RingSize > 1
  /\ MaxKeys \in Nat
  /\ MaxHandlers \in Nat \ {0}
  /\ MaxUnread \in Nat \ {0}

VARIABLES
  key_buffer, key_read, key_write,
  port,                 \* scancode at port 0x60, 0 when it has been read
  running,              \* process on the CPU
  cont,                 \* its activations and those of the others
  poll,                 \* next system call in the loop of user_main
  arrived,              \* number of scancodes so far
  typed,                \* those of keys that the map knows, in order
  got                   \* what GET_KEY has returned to the shell

ring == <<key_buffer, key_read, key_write>>
vars == <<ring, port, running, cont, poll, arrived, typed, got>>

-----------------------------------------------------------------------------
None == 0

\* An activation: its next statement, the index and the character it holds.
Activation(pc) == [pc |-> pc, index |-> 0, char |-> None]

Handling == {"inb", "slot", "store", "advance"}

KeyHandlers ==
  {x \in Processes \X (1..MaxHandlers + 1) :
     x[2] \in DOMAIN cont[x[1]] /\ cont[x[1]][x[2]].pc \in Handling}

Top == Last(cont[running])
At(pc) == cont[running] # <<>> /\ Top.pc = pc

Continue(f) == cont' = [cont EXCEPT ![running] = Append(Front(@), f)]
Goto(pc)    == Continue([Top EXCEPT !.pc = pc])
Return      == cont' = [cont EXCEPT ![running] = Front(@)]
Call(pc)    == cont' = [cont EXCEPT ![running] = Append(@, Activation(pc))]

-----------------------------------------------------------------------------
(* The keyboard: the next scancode, numbered, is that of a key the map knows *)
(* or not (a release, or no entry in scancode_map).  The controller          *)
(* interrupts for the next one once the last has been read.                  *)

KeyIrq ==
  /\ arrived < MaxKeys
  /\ port = None
  /\ Cardinality(KeyHandlers) < MaxHandlers
  /\ Len(typed) - Len(got) < MaxUnread
  /\ arrived' = arrived + 1
  /\ port' = arrived'
  /\ typed' \in {typed, Append(typed, arrived')}
  /\ Call("inb")
  /\ UNCHANGED <<ring, running, poll, got>>

\* scancode_map[scancode] of the codes that are typed, 0 of the others
Mapped(code) == IF code \in Range(typed) THEN code ELSE None

ReadPort ==
  /\ At("inb")
  /\ port' = None
  /\ \/ Mapped(port) = None /\ Return
     \/ Mapped(port) # None /\ Continue([Top EXCEPT !.pc = "slot", !.char = port])
  /\ UNCHANGED <<ring, running, poll, arrived, typed, got>>

\* key_buffer[key_write++] = c.  C does not order the store into the slot and
\* that of key_write; build/drivers/keyboard/keyboard.o loads key_write (1e),
\* stores the slot (28) and then the incremented index (2e).
LoadWrite ==
  /\ At("slot")
  /\ Continue([Top EXCEPT !.pc = "store", !.index = key_write])
  /\ UNCHANGED <<ring, port, running, poll, arrived, typed, got>>

StoreKey ==
  /\ At("store")
  /\ key_buffer' = [key_buffer EXCEPT ![Top.index] = Top.char]
  /\ Goto("advance")
  /\ UNCHANGED <<key_read, key_write, port, running, poll, arrived, typed, got>>

AdvanceWrite ==
  /\ At("advance")
  /\ key_write' = (Top.index + 1) % RingSize
  /\ Return
  /\ UNCHANGED <<key_buffer, key_read, port, running, poll, arrived, typed, got>>

-----------------------------------------------------------------------------
(* user_main polls HAS_KEY and then calls GET_KEY once.                      *)

InUserMode(p) == running = p /\ cont[p] = <<>>

SysHasKey ==
  /\ InUserMode(Shell) /\ poll = "haskey"
  /\ Call("compare")
  /\ UNCHANGED <<ring, port, running, poll, arrived, typed, got>>

keyboard_haskey_below ==   \* mutant: does not expect the indices to wrap
  /\ At("compare")
  /\ poll' = IF key_read < key_write THEN "getkey" ELSE "haskey"
  /\ Return
  /\ UNCHANGED <<ring, port, running, arrived, typed, got>>

keyboard_haskey ==
  /\ At("compare")
  /\ poll' = IF key_read # key_write THEN "getkey" ELSE "haskey"
  /\ Return
  /\ UNCHANGED <<ring, port, running, arrived, typed, got>>

SysGetKey ==
  /\ InUserMode(Shell) /\ poll = "getkey"
  /\ Call("empty")
  /\ UNCHANGED <<ring, port, running, poll, arrived, typed, got>>

\* keyboard_getchar: key_read is loaded once (keyboard.o, 60) for the test (69);
\* the new key_read is stored (74) before the slot is loaded (7a).
GetEmpty ==
  /\ At("empty")
  /\ IF key_read = key_write
     THEN got' = Append(got, None) /\ poll' = "haskey" /\ Return
     ELSE /\ Continue([Top EXCEPT !.pc = "take", !.index = key_read])
          /\ UNCHANGED <<poll, got>>
  /\ UNCHANGED <<ring, port, running, arrived, typed>>

GetTakeStays ==            \* mutant: key_read is not advanced
  /\ At("take")
  /\ Goto("fetch")
  /\ UNCHANGED <<ring, port, running, poll, arrived, typed, got>>

GetTake ==
  /\ At("take")
  /\ key_read' = (Top.index + 1) % RingSize
  /\ Goto("fetch")
  /\ UNCHANGED <<key_buffer, key_write, port, running, poll, arrived, typed, got>>

GetFetch ==
  /\ At("fetch")
  /\ got' = Append(got, key_buffer[Top.index])
  /\ poll' = "haskey"
  /\ Return
  /\ UNCHANGED <<ring, port, running, arrived, typed>>

-----------------------------------------------------------------------------
\* A timer tick, whatever the running process is in the middle of
Tick ==
  /\ running' \in Processes \ {running}
  /\ UNCHANGED <<ring, port, cont, poll, arrived, typed, got>>

Init ==
  /\ key_buffer = [i \in 0..RingSize-1 |-> None]
  /\ key_read = 0 /\ key_write = 0
  /\ port = None
  /\ running \in Processes
  /\ cont = [p \in Processes |-> <<>>]
  /\ poll = "haskey"
  /\ arrived = 0 /\ typed = <<>> /\ got = <<>>

HandlerStep == ReadPort \/ LoadWrite \/ StoreKey \/ AdvanceWrite
SyscallStep == keyboard_haskey \/ GetEmpty \/ GetTake \/ GetFetch
Step(p) == running = p /\ (HandlerStep \/ SyscallStep \/ SysHasKey \/ SysGetKey)

Next == KeyIrq \/ Tick \/ \E p \in Processes : Step(p)

Spec == Init /\ [][Next]_vars

\* Every process gets the CPU again and again (EveryProcessRuns of Scheduler)
\* and executes statements between its ticks.
Fairness == \A p \in Processes : SF_vars(Step(p)) /\ SF_vars(Tick /\ running' = p)

-----------------------------------------------------------------------------
(* Properties *)

\* The keys between key_read and key_write
InRing == [i \in 1..(key_write - key_read) % RingSize |->
             key_buffer[(key_read + i - 1) % RingSize]]

\* A key whose slot GET_KEY has given up but not read yet
Fetching ==
  LET d == {i \in DOMAIN cont[Shell] : cont[Shell][i].pc = "fetch"}
  IN  IF d = {} THEN <<>>
      ELSE <<key_buffer[cont[Shell][CHOOSE i \in d : TRUE].index]>>

\* A key the handler has not put into the ring yet
Incoming ==
  IF KeyHandlers = {} THEN <<>>
  ELSE LET x == CHOOSE y \in KeyHandlers : TRUE
           f == cont[x[1]][x[2]]
           c == IF f.pc = "inb" THEN Mapped(port) ELSE f.char
       IN  IF c = None THEN <<>> ELSE <<c>>

\* Keys reach the shell in the order typed, each exactly once, none invented:
\* at any moment every typed key is delivered, being fetched, in the ring or in
\* the handler, wherever a tick has left handler and system call.
InOrder == got \o Fetching \o InRing \o Incoming = typed

=============================================================================
