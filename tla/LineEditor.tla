----------------------------- MODULE LineEditor -----------------------------
(***************************************************************************)
(* What the user of a command line expects: characters come at the end of  *)
(* the line until it is full, backspace takes the last one away, and the   *)
(* line as it stands is what a newline submits.                            *)
(***************************************************************************)
EXTENDS Sequences, SequencesExt

CONSTANTS Letters, Limit

VARIABLES line, submitted

Init == line = <<>> /\ submitted = <<>>

Type == /\ Len(line) < Limit
        /\ \E c \in Letters : line' = Append(line, c)
        /\ UNCHANGED submitted

Erase == line # <<>> /\ line' = Front(line) /\ UNCHANGED submitted

Submit == submitted' = line /\ line' = <<>>

Next == Type \/ Erase \/ Submit

Spec == Init /\ [][Next]_<<line, submitted>>
=============================================================================
