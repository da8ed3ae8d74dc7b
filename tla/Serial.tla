-------------------------------- MODULE Serial --------------------------------
(***************************************************************************)
(* The serial line, usr/serial.c: debug_serial_init programs the UART,     *)
(* then kernel_main, handlers and processes (SYS_PUT_SERIAL_CHAR) print at *)
(* the same time, each testing the line status and then writing, with no   *)
(* lock and a preemption possible in between.                              *)
(***************************************************************************)
EXTENDS Integers, Sequences, FiniteSets

CONSTANTS
  Writers,          \* activations that print
  Message,             \* what each prints
  FifoDepth         \* 16: places in the transmitter's FIFO

ASSUME SerialAssumption ==
  /\ IsFiniteSet(Writers)
  /\ Message \in [Writers -> Seq(Nat)]
  /\ FifoDepth \in Nat \ {0}
  /\ Cardinality(Writers) <= FifoDepth

VARIABLES
  setup,            \* register writes debug_serial_init has made
  uart,             \* registers of the UART by offset, 7 for the divisor
  fifo,             \* characters in the transmitter, with their writer
  at,               \* "poll" or "put"
  sent,             \* characters of each writer's text written so far
  heard             \* ghost: characters of each writer that left on the line

serialVars == <<setup, uart, fifo, at, sent, heard>>

-----------------------------------------------------------------------------
(* The UART, 16550: external.  Bit 7 of the line control register (3) puts   *)
(* the divisor in the place of registers 0 and 1.                            *)

Dlab(u)     == u[3] >= 128
Room(u)     == IF u[2] = 199 THEN FifoDepth ELSE 1
Transmit(c) == fifo' = IF Len(fifo) < Room(uart) THEN Append(fifo, c) ELSE fifo

SetRegister(r, v) ==
  uart' = IF Dlab(uart) /\ r \in {0, 1}
          THEN [uart EXCEPT ![7] = IF r = 0 THEN 256 * (@ \div 256) + v
                                            ELSE 256 * v + (@ % 256)]
          ELSE [uart EXCEPT ![r] = v]

-----------------------------------------------------------------------------
NoFifo ==         \* mutant: the write that enables the FIFO is missing
  <<<<1, 0>>, <<3, 128>>, <<0, 3>>, <<1, 0>>, <<3, 3>>, <<4, 11>>>>

DlabKept ==       \* mutant: the divisor stays in the place of the data register
  <<<<1, 0>>, <<3, 128>>, <<0, 3>>, <<1, 0>>, <<3, 131>>, <<2, 199>>, <<4, 11>>>>

InitWrites ==
  <<<<1, 0>>, <<3, 128>>, <<0, 3>>, <<1, 0>>, <<3, 3>>, <<2, 199>>, <<4, 11>>>>

debug_serial_init ==
  /\ setup < Len(InitWrites)
  /\ setup' = setup + 1
  /\ SetRegister(InitWrites[setup'][1], InitWrites[setup'][2])
  /\ UNCHANGED <<fifo, at, sent, heard>>

Printing(w) == setup = Len(InitWrites) /\ sent[w] < Len(Message[w])

\* serial_ready: bit 5, the transmitter is empty.  A round of the loop that
\* finds it clear changes nothing.
Poll(w) ==
  /\ Printing(w) /\ at[w] = "poll"
  /\ fifo = <<>>
  /\ at' = [at EXCEPT ![w] = "put"]
  /\ UNCHANGED <<setup, uart, fifo, sent, heard>>

Put(w) ==
  /\ at[w] = "put"
  /\ IF Dlab(uart)
     THEN SetRegister(0, Message[w][sent[w] + 1]) /\ UNCHANGED fifo
     ELSE Transmit([by |-> w, char |-> Message[w][sent[w] + 1]]) /\ UNCHANGED uart
  /\ sent' = [sent EXCEPT ![w] = @ + 1]
  /\ at' = [at EXCEPT ![w] = "poll"]
  /\ UNCHANGED <<setup, heard>>

\* The line takes the oldest character.
Shift ==
  /\ fifo # <<>>
  /\ heard' = [heard EXCEPT ![Head(fifo).by] = Append(@, Head(fifo).char)]
  /\ fifo' = Tail(fifo)
  /\ UNCHANGED <<setup, uart, at, sent>>

SerialInit ==
  /\ setup = 0
  /\ uart = [r \in 0..7 |-> 0]
  /\ fifo = <<>>
  /\ at = [w \in Writers |-> "poll"]
  /\ sent = [w \in Writers |-> 0]
  /\ heard = [w \in Writers |-> <<>>]

SerialNext == debug_serial_init \/ Shift \/ \E w \in Writers : Poll(w) \/ Put(w)

SerialSpec == SerialInit /\ [][SerialNext]_serialVars

-----------------------------------------------------------------------------
\* The test of serial.c:36 and :61 stays true until the write, whoever prints
\* in between: the FIFO that debug_serial_init enables has a place for every
\* writer that has seen it empty, and no character is dropped.
NoOverrun == \A w \in Writers : at[w] = "put" => Len(fifo) < Room(uart)

\* Characters of a writer among the first n in the FIFO
Queued(w, n) == Cardinality({i \in 1..n : fifo[i].by = w})

\* What each writer prints arrives complete and in order, however the writers
\* interleave: what is heard of it is the beginning of its text, and the FIFO
\* holds the rest of what it has written, each character in its turn.
Undamaged ==
  \A w \in Writers :
    LET left == Len(heard[w])
    IN  /\ left + Queued(w, Len(fifo)) = sent[w]
        /\ \A i \in 1..left : heard[w][i] = Message[w][i]
        /\ \A i \in 1..Len(fifo) :
             fifo[i].by = w => fifo[i].char = Message[w][left + Queued(w, i)]
=============================================================================
