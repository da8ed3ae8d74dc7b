---------------------------- MODULE TerminalProofs ----------------------------
(***************************************************************************)
(* The keyboard, the shell and the two together.  Keys reach the shell in  *)
(* order and exactly once, for every size of the ring, every number of     *)
(* processes and of keys, and wherever ticks come, provided that one       *)
(* handler finishes before the next key and that the shell is never as     *)
(* many keys behind as the ring has slots.  For every size of buffer and   *)
(* screen, every prompt and every set of characters, the line on the       *)
(* screen is the line in the buffer, the buffer is a line editor, and the  *)
(* line is what the keys typed spell.                                      *)
(***************************************************************************)
EXTENDS MCTerminal, SequenceTheorems, FiniteSetTheorems, NatLemmas

-----------------------------------------------------------------------------
(* The keyboard                                                              *)

\* What the theorem needs and the code does not enforce (keyboard.c:29): key
\* presses lie 30 ms apart, a handler takes microseconds.
Unhurried == MaxHandlers = 1 /\ MaxUnread < RingSize

-----------------------------------------------------------------------------
(* The inductive invariant                                                   *)

SysPc == {"compare", "empty", "take", "fetch"}

Codes == 0..MaxKeys

Pcs == Handling \cup SysPc

Slots == 0..RingSize-1

Frames == [pc : Pcs, index : Slots, char : Codes]

KeyTypeOK ==
  /\ key_buffer \in [0..RingSize-1 -> Codes]
  /\ key_read \in 0..RingSize-1 /\ key_write \in 0..RingSize-1
  /\ port \in Codes /\ arrived \in Codes
  /\ running \in Processes
  /\ cont \in [Processes -> Seq(Frames)]
  /\ poll \in {"haskey", "getkey"}
  /\ typed \in Seq(Codes \ {None}) /\ got \in Seq(Codes)

\* One handler at a time, on an idle stack or above a system call of the shell.
ContInv ==
  /\ \A p \in Processes : Len(cont[p]) <= 2
  /\ \A p \in Processes, i \in 1..2 :
       i <= Len(cont[p]) /\ cont[p][i].pc \in SysPc => p = Shell /\ i = 1
  /\ \A x, y \in KeyHandlers : x = y

\* f is the unfinished handler, or the unfinished system call of the shell.
Handles(f) == \E x \in KeyHandlers : f = cont[x[1]][x[2]]
Calls(f) == Len(cont[Shell]) > 0 /\ f = cont[Shell][1] /\ f.pc \in SysPc

Waiting == (key_write - key_read) % RingSize

\* The key the handler has, if any.
InHand(f) == IF f.pc = "inb" THEN Mapped(port) ELSE f.char

Fetches(f) == Calls(f) /\ f.pc = "fetch"
Brings(f) == Handles(f) /\ InHand(f) # None

NFetched == IF \E f \in Frames : Fetches(f) THEN 1 ELSE 0
NComing  == IF \E f \in Frames : Brings(f) THEN 1 ELSE 0

\* What handler and system call remember between two instructions.
HandlerInv ==
  \A f \in Frames : Handles(f) =>
    /\ f.pc = "inb" => port # None
    /\ f.pc # "inb" => f.char # None
    /\ f.pc \in {"store", "advance"} => f.index = key_write
    /\ f.pc = "advance" => key_buffer[key_write] = f.char

CallInv ==
  /\ \A f \in Frames : Calls(f) =>
       /\ poll = IF f.pc = "compare" THEN "haskey" ELSE "getkey"
       /\ f.pc = "take" => f.index = key_read
       /\ f.pc = "fetch" => key_read = (f.index + 1) % RingSize
  /\ poll = "getkey" /\ NFetched = 0 => key_read # key_write

\* Where each typed key is.
OrderInv ==
  /\ Len(typed) = Len(got) + NFetched + Waiting + NComing
  /\ Len(typed) - Len(got) <= MaxUnread
  /\ \A i \in 1..Len(typed) : typed[i] <= arrived
  /\ \A i \in 1..Len(got) : got[i] = typed[i]
  /\ \A f \in Frames : Fetches(f) => key_buffer[f.index] = typed[Len(got) + 1]
  /\ \A i \in 1..Waiting :
       key_buffer[(key_read + i - 1) % RingSize] = typed[Len(got) + NFetched + i]
  /\ \A f \in Frames : Brings(f) => InHand(f) = typed[Len(typed)]

KeyInv == KeyTypeOK /\ ContInv /\ HandlerInv /\ CallInv /\ OrderInv

-----------------------------------------------------------------------------
(* Indices of the ring                                                       *)

\* A ring of R slots that is read from r and written at w: how many keys it holds.
LEMMA RingCount ==
  ASSUME NEW R \in Nat, R > 1, NEW r \in 0..R-1, NEW w \in 0..R-1
  PROVE  /\ (w - r) % R \in 0..R-1
         /\ (w - r) % R = 0 <=> r = w
<1>1. (w - r) % R = IF r <= w THEN w - r ELSE w - r + R
  <2>1. R \in Nat \ {0} /\ w \in 0..R-1 /\ r \in 0..R  OBVIOUS
  <2> QED BY ONLY <2>1, RemainderSum
<1> QED BY <1>1

LEMMA RingNext ==
  ASSUME NEW R \in Nat, R > 1, NEW w \in 0..R-1
  PROVE  /\ (w + 1) % R \in 0..R-1
         /\ (w + 1) % R = IF w = R - 1 THEN 0 ELSE w + 1
<1>1. (w + 1) % R = IF w + 1 < R THEN w + 1 ELSE w + 1 - R  BY RemainderSum
<1> QED BY <1>1

\* Writing one more is one more key unless the ring was full.
LEMMA RingPut ==
  ASSUME NEW R \in Nat, R > 1, NEW r \in 0..R-1, NEW w \in 0..R-1,
         (w - r) % R < R - 1
  PROVE  (((w + 1) % R) - r) % R = ((w - r) % R) + 1
<1>1. (w - r) % R = IF r <= w THEN w - r ELSE w - r + R
  <2>1. R \in Nat \ {0} /\ w \in 0..R-1 /\ r \in 0..R  OBVIOUS
  <2> QED BY ONLY <2>1, RemainderSum
<1>2. PICK v \in 0..R-1 : v = (w + 1) % R /\ v = IF w = R - 1 THEN 0 ELSE w + 1
  BY RingNext
<1>3. (v - r) % R = IF r <= v THEN v - r ELSE v - r + R
  <2>1. R \in Nat \ {0} /\ r \in 0..R  OBVIOUS
  <2> QED BY <2>1, RemainderSum
<1> QED BY <1>1, <1>2, <1>3

\* That key is in slot w.
LEMMA RingEnd ==
  ASSUME NEW R \in Nat, R > 1, NEW r \in 0..R-1, NEW w \in 0..R-1
  PROVE  (r + (((w - r) % R) + 1) - 1) % R = w
<1>1. (w - r) % R = IF r <= w THEN w - r ELSE w - r + R
  <2>1. R \in Nat \ {0} /\ w \in 0..R-1 /\ r \in 0..R  OBVIOUS
  <2> QED BY ONLY <2>1, RemainderSum
<1>2. PICK i \in 1..R : i = ((w - r) % R) + 1  BY <1>1
<1>3. (r + i - 1) % R = IF r + i - 1 < R THEN r + i - 1 ELSE r + i - 1 - R
  <2>1. R \in Nat \ {0}  OBVIOUS
  <2> QED BY <2>1, RemainderSlot
<1>4. (r + i - 1) % R = w  BY <1>1, <1>2, <1>3
<1> QED BY ONLY <1>2, <1>4, Zenon

\* The keys of the ring lie in slots other than w.
LEMMA RingSlots ==
  ASSUME NEW R \in Nat, R > 1, NEW r \in 0..R-1, NEW w \in 0..R-1,
         NEW i \in 1..(w - r) % R
  PROVE  (r + i - 1) % R \in 0..R-1 /\ (r + i - 1) % R # w
<1>1. (w - r) % R = IF r <= w THEN w - r ELSE w - r + R
  <2>1. R \in Nat \ {0} /\ w \in 0..R-1 /\ r \in 0..R  OBVIOUS
  <2> QED BY ONLY <2>1, RemainderSum
<1>2. i \in 1..R  BY <1>1
<1>3. (r + i - 1) % R = IF r + i - 1 < R THEN r + i - 1 ELSE r + i - 1 - R
  BY <1>2, RemainderSlot
<1> QED BY <1>1, <1>2, <1>3

\* Reading one is one key less.
LEMMA RingTake ==
  ASSUME NEW R \in Nat, R > 1, NEW r \in 0..R-1, NEW w \in 0..R-1, r # w
  PROVE  (w - ((r + 1) % R)) % R = ((w - r) % R) - 1
<1>1. (w - r) % R = IF r <= w THEN w - r ELSE w - r + R
  <2>1. R \in Nat \ {0} /\ w \in 0..R-1 /\ r \in 0..R  OBVIOUS
  <2> QED BY ONLY <2>1, RemainderSum
<1>2. PICK q \in 0..R-1 : q = (r + 1) % R /\ q = IF r = R - 1 THEN 0 ELSE r + 1
  BY RingNext
<1>3. (w - q) % R = IF q <= w THEN w - q ELSE w - q + R
  <2>1. R \in Nat \ {0} /\ q \in 0..R  OBVIOUS
  <2> QED BY <2>1, RemainderSum
<1> QED BY <1>1, <1>2, <1>3

\* It was the first, and the others keep their order.
LEMMA RingShift ==
  ASSUME NEW R \in Nat, R > 1, NEW r \in 0..R-1, NEW i \in 1..R-1
  PROVE  /\ (r + 1 - 1) % R = r
         /\ (((r + 1) % R) + i - 1) % R = (r + (i + 1) - 1) % R
<1>1. R \in Nat \ {0} /\ 1 \in 1..R /\ i \in 1..R /\ i + 1 \in 1..R  OBVIOUS
<1>2. PICK q \in 0..R-1 : q = (r + 1) % R /\ q = IF r = R - 1 THEN 0 ELSE r + 1
  BY RingNext
<1>3. (r + 1 - 1) % R = IF r + 1 - 1 < R THEN r + 1 - 1 ELSE r + 1 - 1 - R
  BY <1>1, RemainderSlot
<1>4. (q + i - 1) % R = IF q + i - 1 < R THEN q + i - 1 ELSE q + i - 1 - R
  BY <1>1, RemainderSlot
<1>5. (r + (i + 1) - 1) % R =
        IF r + (i + 1) - 1 < R THEN r + (i + 1) - 1 ELSE r + (i + 1) - 1 - R
  BY <1>1, RemainderSlot
<1>6. (q + i - 1) % R = (r + (i + 1) - 1) % R  BY <1>2, <1>4, <1>5
<1> QED BY <1>2, <1>3, <1>6

\* The slot that was given up last is the one to be written when the ring holds
\* all keys but one.
LEMMA GivenUpSlot ==
  ASSUME NEW R \in Nat, R > 1, NEW i \in 0..R-1, NEW w \in 0..R-1,
         (w - ((i + 1) % R)) % R < R - 1
  PROVE  i # w
<1> SUFFICES ASSUME i = w PROVE FALSE  OBVIOUS
<1>1. PICK w1 \in 0..R-1 : /\ w1 = (w + 1) % R
                           /\ w1 = IF w = R - 1 THEN 0 ELSE w + 1
  <2>1. (w + 1) % R = IF w + 1 < R THEN w + 1 ELSE w + 1 - R  BY RemainderSum
  <2> QED BY <2>1
<1>2. (w - w1) % R = IF w1 <= w THEN w - w1 ELSE w - w1 + R
  <2>1. R \in Nat \ {0} /\ w \in 0..R-1 /\ w1 \in 0..R  OBVIOUS
  <2> QED BY ONLY <2>1, RemainderSum
<1> QED BY <1>1, <1>2

-----------------------------------------------------------------------------
(* Activations                                                               *)

LEMMA TopOfStack ==
  ASSUME NEW S, NEW s \in Seq(S), s # <<>>, NEW f \in S
  PROVE  /\ Len(s) \in Nat \ {0}
         /\ Last(s) = s[Len(s)]
         /\ Front(s) \in Seq(S) /\ Len(Front(s)) = Len(s) - 1
         /\ \A i \in 1..Len(s)-1 : Front(s)[i] = s[i]
         /\ Append(Front(s), f) \in Seq(S) /\ Len(Append(Front(s), f)) = Len(s)
         /\ \A i \in 1..Len(s) :
              Append(Front(s), f)[i] = IF i = Len(s) THEN f ELSE s[i]
<1>1. Len(s) \in Nat \ {0}  BY EmptySeq
<1>2. \A i \in 1..Len(s)-1 : s[i] \in S  BY <1>1, ElementOfSeq
<1>3. /\ SubSeq(s, 1, Len(s)-1) \in Seq(S)
      /\ Len(SubSeq(s, 1, Len(s)-1)) = IF 1 <= Len(s)-1 THEN Len(s)-1-1+1 ELSE 0
      /\ \A i \in 1..Len(s)-1-1+1 : SubSeq(s, 1, Len(s)-1)[i] = s[1+i-1]
  BY <1>1, <1>2, SubSeqProperties
<1>4. /\ Front(s) \in Seq(S) /\ Len(Front(s)) = Len(s) - 1
      /\ \A i \in 1..Len(s)-1 : Front(s)[i] = s[i]
  <2>1. Front(s) = SubSeq(s, 1, Len(s)-1)  BY DEF Front
  <2>2. Len(Front(s)) = Len(s) - 1
    <3>1. \A n \in Nat \ {0} : (IF 1 <= n-1 THEN n-1-1+1 ELSE 0) = n - 1
      OBVIOUS
    <3>2. (IF 1 <= Len(s)-1 THEN Len(s)-1-1+1 ELSE 0) = Len(s) - 1  BY <1>1, <3>1
    <3> QED BY <1>3, <2>1, <3>2, Zenon
  <2>3. ASSUME NEW i \in 1..Len(s)-1 PROVE Front(s)[i] = s[i]
    <3>1. i \in 1..Len(s)-1-1+1 /\ 1 + i - 1 = i  BY <1>1
    <3> QED BY <1>3, <2>1, <3>1
  <2> QED BY <1>3, <2>1, <2>2, <2>3
<1>5. /\ Append(Front(s), f) \in Seq(S)
      /\ Len(Append(Front(s), f)) = Len(Front(s)) + 1
      /\ \A i \in 1..Len(Front(s)) : Append(Front(s), f)[i] = Front(s)[i]
      /\ Append(Front(s), f)[Len(Front(s)) + 1] = f
  BY <1>4, AppendProperties
<1>6. \A i \in 1..Len(s) :
        Append(Front(s), f)[i] = IF i = Len(s) THEN f ELSE s[i]
  BY <1>1, <1>4, <1>5
<1> QED BY <1>1, <1>4, <1>5, <1>6 DEF Last

\* Under Unhurried, an activation of a handler is one of these.
LEMMA HandlersAre ==
  ASSUME Unhurried, KeyTypeOK
  PROVE  /\ \A p, i : <<p, i>> \in KeyHandlers <=>
                        /\ p \in Processes /\ i \in 1..2 /\ i <= Len(cont[p])
                        /\ cont[p][i].pc \in Handling
         /\ \A x \in KeyHandlers : x = <<x[1], x[2]>>
<1>1. \A p \in Processes : DOMAIN cont[p] = 1..Len(cont[p]) /\ Len(cont[p]) \in Nat
  BY LenProperties DEF KeyTypeOK
<1>2. MaxHandlers + 1 = 2  BY DEF Unhurried
<1> QED BY <1>1, <1>2 DEF KeyHandlers

\* The running activation.
LEMMA TopIs ==
  ASSUME Unhurried, KeyTypeOK, ContInv, NEW c, At(c)
  PROVE  /\ Len(cont[running]) \in 1..2
         /\ Top = cont[running][Len(cont[running])]
         /\ Top \in Frames /\ Top.pc = c
         /\ cont[running] \in Seq(Frames) /\ cont[running] # <<>>
         /\ running \in Processes
<1>1. /\ running \in Processes /\ cont[running] \in Seq(Frames)
      /\ cont[running] # <<>> /\ Top.pc = c /\ Len(cont[running]) <= 2
  BY DEF KeyTypeOK, ContInv, At
<1>2. Len(cont[running]) \in Nat \ {0}  BY <1>1, EmptySeq
<1>3. Top = cont[running][Len(cont[running])]  BY DEF Top, Last
<1>4. Len(cont[running]) \in 1..Len(cont[running])  BY <1>2
<1>5. Top \in Frames  BY <1>1, <1>3, <1>4, ElementOfSeq
<1>6. \A n \in Nat \ {0} : n <= 2 => n \in 1..2  OBVIOUS
<1>7. Len(cont[running]) \in 1..2  BY <1>1, <1>2, <1>6, Zenon
<1> QED BY <1>1, <1>3, <1>5, <1>7

LEMMA HandlerOnTop ==
  ASSUME Unhurried, KeyTypeOK, ContInv, NEW c \in Handling, At(c)
  PROVE  /\ KeyHandlers = {<<running, Len(cont[running])>>}
         /\ \A f : Handles(f) <=> f = Top
<1>1. <<running, Len(cont[running])>> \in KeyHandlers
  BY TopIs, HandlersAre
<1>2. KeyHandlers = {<<running, Len(cont[running])>>}  BY <1>1 DEF ContInv
<1>3. \A f : Handles(f) <=> f = Top
  <2> DEFINE x == <<running, Len(cont[running])>>
  <2>1. cont[x[1]][x[2]] = Top  BY TopIs
  <2> QED BY <1>2, <2>1 DEF Handles
<1> QED BY <1>2, <1>3

LEMMA CallOnTop ==
  ASSUME Unhurried, KeyTypeOK, ContInv, NEW c \in SysPc, At(c)
  PROVE  /\ running = Shell /\ Len(cont[Shell]) = 1
         /\ \A f : Calls(f) <=> f = Top
<1>1. running = Shell /\ Len(cont[running]) = 1  BY TopIs DEF ContInv
<1> QED BY <1>1, TopIs DEF Calls

\* The stack of the running process becomes s.
LEMMA StackBecomes ==
  ASSUME Unhurried, KeyTypeOK, NEW s \in Seq(Frames),
         cont' = [cont EXCEPT ![running] = s]
  PROVE  /\ cont' \in [Processes -> Seq(Frames)]
         /\ cont'[running] = s
         /\ \A p \in Processes : p # running => cont'[p] = cont[p]
         /\ \A p \in Processes : Len(cont[p]) \in Nat /\ Len(cont'[p]) \in Nat
         /\ \A p, i : <<p, i>> \in KeyHandlers' <=>
                        /\ p \in Processes /\ i \in 1..2 /\ i <= Len(cont'[p])
                        /\ cont'[p][i].pc \in Handling
         /\ \A x \in KeyHandlers' : x = <<x[1], x[2]>>
<1>1. cont \in [Processes -> Seq(Frames)] /\ running \in Processes
  BY DEF KeyTypeOK
<1>2. cont' \in [Processes -> Seq(Frames)]  BY <1>1
<1>3. cont'[running] = s /\ \A p \in Processes : p # running => cont'[p] = cont[p]
  BY <1>1
<1>4. \A p \in Processes : DOMAIN cont'[p] = 1..Len(cont'[p])
                           /\ Len(cont'[p]) \in Nat /\ Len(cont[p]) \in Nat
  BY <1>1, <1>2, LenProperties
<1>5. MaxHandlers + 1 = 2  BY DEF Unhurried
<1>6. \A x \in KeyHandlers' : x = <<x[1], x[2]>>  BY DEF KeyHandlers
<1>7. \A p, i : <<p, i>> \in KeyHandlers' <=>
                  /\ p \in Processes /\ i \in 1..2 /\ i <= Len(cont'[p])
                  /\ cont'[p][i].pc \in Handling
  BY <1>4, <1>5 DEF KeyHandlers
<1> QED BY <1>2, <1>3, <1>4, <1>6, <1>7

\* The running handler goes on to f: no other activation changes.
LEMMA HandlerContinues ==
  ASSUME Unhurried, KeyTypeOK, ContInv, NEW c \in Handling, At(c),
         NEW f \in Frames, f.pc \in Handling, Continue(f), UNCHANGED running
  PROVE  /\ cont' \in [Processes -> Seq(Frames)]
         /\ ContInv'
         /\ \A g : Handles(g)' <=> g = f
         /\ \A g : Calls(g)' <=> Calls(g)
<1> DEFINE n == Len(cont[running])
           s == Append(Front(cont[running]), f)
<1>1. /\ n \in 1..2 /\ running \in Processes /\ Top = cont[running][n]
      /\ Top.pc = c /\ cont[running] \in Seq(Frames) /\ cont[running] # <<>>
  BY TopIs
<1>2. KeyHandlers = {<<running, n>>}  BY HandlerOnTop
<1>3. s \in Seq(Frames) /\ Len(s) = n
      /\ \A i \in 1..n : s[i] = IF i = n THEN f ELSE cont[running][i]
  BY <1>1, TopOfStack
<1>4. cont' = [cont EXCEPT ![running] = s]  BY DEF Continue
<1> HIDE DEF s
<1>5. /\ cont' \in [Processes -> Seq(Frames)]
      /\ cont'[running] = s
      /\ \A p \in Processes : p # running => cont'[p] = cont[p]
      /\ \A p \in Processes : Len(cont[p]) \in Nat /\ Len(cont'[p]) \in Nat
      /\ \A p, i : <<p, i>> \in KeyHandlers' <=>
                     /\ p \in Processes /\ i \in 1..2 /\ i <= Len(cont'[p])
                     /\ cont'[p][i].pc \in Handling
      /\ \A x \in KeyHandlers' : x = <<x[1], x[2]>>
  BY <1>3, <1>4, StackBecomes
<1>6. \A p \in Processes : Len(cont'[p]) = Len(cont[p])  BY <1>3, <1>5
<1>7. \A p \in Processes, i \in 1..2 : i <= Len(cont[p]) =>
        cont'[p][i] = IF p = running /\ i = n THEN f ELSE cont[p][i]
  BY <1>1, <1>3, <1>5
<1> HIDE DEF n
<1>8. n <= Len(cont[running])  BY <1>1 DEF n
<1>9. KeyHandlers' = {<<running, n>>}
  <2>1. <<running, n>> \in KeyHandlers'  BY <1>1, <1>5, <1>6, <1>7, <1>8
  <2>2. ASSUME NEW p, NEW i, <<p, i>> \in KeyHandlers', ~(p = running /\ i = n)
        PROVE  <<p, i>> \in KeyHandlers
    BY <1>5, <1>6, <1>7, <2>2, HandlersAre
  <2> QED BY <1>2, <1>5, <2>1, <2>2
<1>10. c \notin SysPc /\ f.pc \notin SysPc  BY DEF SysPc, Handling
<1>11. ContInv'
  BY <1>1, <1>6, <1>7, <1>9, <1>10 DEF ContInv
<1>12. \A g : Handles(g)' <=> g = f
  <2>1. cont'[running][n] = f  BY <1>1, <1>7, <1>8
  <2>2. \A x : x = <<running, n>> => cont'[x[1]][x[2]] = f  BY <2>1
  <2> QED BY <1>9, <2>2 DEF Handles
<1>13. \A g : Calls(g)' <=> Calls(g)
  <2>1. Shell \in Processes  BY KeyboardAssumption
  <2> QED BY <1>1, <1>5, <1>6, <1>7, <1>10, <2>1 DEF Calls
<1> QED BY <1>5, <1>11, <1>12, <1>13

\* The running handler returns.
LEMMA HandlerReturns ==
  ASSUME Unhurried, KeyTypeOK, ContInv, NEW c \in Handling, At(c), Return,
         UNCHANGED running
  PROVE  /\ cont' \in [Processes -> Seq(Frames)]
         /\ ContInv'
         /\ \A g : ~Handles(g)'
         /\ \A g : Calls(g)' <=> Calls(g)
<1> DEFINE n == Len(cont[running])
           s == Front(cont[running])
<1>1. /\ n \in 1..2 /\ running \in Processes /\ Top = cont[running][n]
      /\ Top.pc = c /\ cont[running] \in Seq(Frames) /\ cont[running] # <<>>
      /\ Top \in Frames
  BY TopIs
<1>2. KeyHandlers = {<<running, n>>}  BY HandlerOnTop
<1>3. s \in Seq(Frames) /\ Len(s) = n - 1
      /\ \A i \in 1..n-1 : s[i] = cont[running][i]
  BY <1>1, TopOfStack
<1>4. cont' = [cont EXCEPT ![running] = s]  BY DEF Return
<1> HIDE DEF s
<1>5. /\ cont' \in [Processes -> Seq(Frames)]
      /\ cont'[running] = s
      /\ \A p \in Processes : p # running => cont'[p] = cont[p]
      /\ \A p \in Processes : Len(cont[p]) \in Nat /\ Len(cont'[p]) \in Nat
      /\ \A p, i : <<p, i>> \in KeyHandlers' <=>
                     /\ p \in Processes /\ i \in 1..2 /\ i <= Len(cont'[p])
                     /\ cont'[p][i].pc \in Handling
      /\ \A x \in KeyHandlers' : x = <<x[1], x[2]>>
  BY <1>3, <1>4, StackBecomes
<1>6. \A p \in Processes :
        Len(cont'[p]) = IF p = running THEN n - 1 ELSE Len(cont[p])
  BY <1>3, <1>5
<1>7. \A p \in Processes, i \in 1..2 : i <= Len(cont'[p]) =>
        i <= Len(cont[p]) /\ ~(p = running /\ i = n) /\ cont'[p][i] = cont[p][i]
  BY <1>1, <1>3, <1>5
<1> HIDE DEF n
<1>8. KeyHandlers' = {}
  <2>1. ASSUME NEW p, NEW i, <<p, i>> \in KeyHandlers'
        PROVE  <<p, i>> \in KeyHandlers /\ ~(p = running /\ i = n)
    BY <1>5, <1>7, <2>1, HandlersAre
  <2> QED BY <1>2, <1>5, <2>1
<1>9. ContInv'
  <2>1. \A p \in Processes : Len(cont'[p]) <= 2  BY <1>1, <1>6 DEF ContInv
  <2>2. \A p \in Processes, i \in 1..2 :
          i <= Len(cont'[p]) /\ cont'[p][i].pc \in SysPc => p = Shell /\ i = 1
    BY <1>7 DEF ContInv
  <2> QED BY <1>8, <2>1, <2>2 DEF ContInv
<1>10. \A g : ~Handles(g)'  BY <1>8 DEF Handles
<1>11. \A g : Calls(g)' <=> Calls(g)
  <2>1. Shell \in Processes  BY KeyboardAssumption
  <2>2. CASE running = Shell
    <3>1. n = 1 => Top = cont[Shell][1] /\ Top.pc \notin SysPc
      BY <1>1, <2>2 DEF SysPc, Handling
    <3>2. n = 1 => Len(cont'[Shell]) = 0  BY <1>6, <2>1, <2>2
    <3>3. ASSUME n = 2
          PROVE  Len(cont'[Shell]) = 1 /\ cont'[Shell][1] = cont[Shell][1]
      <4>1. Len(cont'[Shell]) = 1
        <5>1. Len(cont'[Shell]) = n - 1 /\ 2 - 1 = 1  BY <1>6, <2>1, <2>2
        <5> QED BY <3>3, <5>1
      <4>2. 1 \in 1..2 /\ 1 <= Len(cont'[Shell])  BY <4>1
      <4> QED BY <1>7, <2>1, <4>1, <4>2
    <3>4. Len(cont[Shell]) = n  BY <2>2 DEF n
    <3> QED BY <1>1, <3>1, <3>2, <3>3, <3>4 DEF Calls
  <2>3. CASE running # Shell  BY <1>5, <2>1, <2>3 DEF Calls
  <2> QED BY <2>2, <2>3
<1> QED BY <1>5, <1>9, <1>10, <1>11

\* The running system call goes on to f.
LEMMA CallContinues ==
  ASSUME Unhurried, KeyTypeOK, ContInv, NEW c \in SysPc, At(c),
         NEW f \in Frames, f.pc \in SysPc, Continue(f), UNCHANGED running
  PROVE  /\ cont' \in [Processes -> Seq(Frames)]
         /\ ContInv'
         /\ \A g : Handles(g)' <=> Handles(g)
         /\ \A g : Calls(g)' <=> g = f
<1> DEFINE s == Append(Front(cont[running]), f)
<1>1. /\ running = Shell /\ Len(cont[Shell]) = 1 /\ Shell \in Processes
      /\ Top = cont[Shell][1] /\ Top.pc = c
      /\ cont[running] \in Seq(Frames) /\ cont[running] # <<>>
  BY CallOnTop, TopIs
<1>2. c \notin Handling /\ f.pc \notin Handling  BY DEF SysPc, Handling
<1>3. s \in Seq(Frames) /\ Len(s) = 1 /\ s[1] = f
  BY <1>1, TopOfStack
<1>4. cont' = [cont EXCEPT ![running] = s]  BY DEF Continue
<1> HIDE DEF s
<1>5. /\ cont' \in [Processes -> Seq(Frames)]
      /\ cont'[running] = s
      /\ \A p \in Processes : p # running => cont'[p] = cont[p]
      /\ \A p \in Processes : Len(cont[p]) \in Nat /\ Len(cont'[p]) \in Nat
      /\ \A p, i : <<p, i>> \in KeyHandlers' <=>
                     /\ p \in Processes /\ i \in 1..2 /\ i <= Len(cont'[p])
                     /\ cont'[p][i].pc \in Handling
      /\ \A x \in KeyHandlers' : x = <<x[1], x[2]>>
  BY <1>3, <1>4, StackBecomes
<1>6. \A p \in Processes : Len(cont'[p]) = Len(cont[p])  BY <1>1, <1>3, <1>5
<1>7. \A p \in Processes, i \in 1..2 : i <= Len(cont[p]) =>
        cont'[p][i] = IF p = Shell THEN f ELSE cont[p][i]
  BY <1>1, <1>3, <1>5
<1>8. \A p, i : <<p, i>> \in KeyHandlers' <=> <<p, i>> \in KeyHandlers
  <2> TAKE p, i
  <2>1. CASE p = Shell
    <3>1. \A j \in 1..2 : j <= Len(cont[Shell]) => j = 1  BY <1>1
    <3> QED BY <1>1, <1>2, <1>3, <1>5, <1>6, <2>1, <3>1, HandlersAre
  <2>2. CASE p # Shell  BY <1>1, <1>5, <2>2, HandlersAre
  <2> QED BY <2>1, <2>2
<1>9. KeyHandlers' = KeyHandlers
  <2>1. \A x \in KeyHandlers : x \in KeyHandlers'  BY <1>8, HandlersAre
  <2>2. \A x \in KeyHandlers' : x \in KeyHandlers  BY <1>5, <1>8
  <2> QED BY <2>1, <2>2
<1>10. \A x \in KeyHandlers : cont'[x[1]][x[2]] = cont[x[1]][x[2]]
  <2> TAKE x \in KeyHandlers
  <2>1. /\ x[1] \in Processes /\ x[2] \in 1..2 /\ x[2] <= Len(cont[x[1]])
        /\ cont[x[1]][x[2]].pc \in Handling
    BY HandlersAre
  <2>2. x[1] # Shell  BY <1>1, <1>2, <2>1
  <2> QED BY <1>7, <2>1, <2>2
<1>11. ContInv'
  <2>1. \A p \in Processes, i \in 1..2 :
          i <= Len(cont'[p]) /\ cont'[p][i].pc \in SysPc => p = Shell /\ i = 1
    BY <1>1, <1>6, <1>7 DEF ContInv
  <2> QED BY <1>6, <1>9, <2>1 DEF ContInv
<1>12. \A g : Handles(g)' <=> Handles(g)  BY <1>9, <1>10 DEF Handles
<1>13. \A g : Calls(g)' <=> g = f  BY <1>1, <1>3, <1>5, <1>6 DEF Calls
<1> QED BY <1>5, <1>11, <1>12, <1>13

\* The running system call returns.
LEMMA CallReturns ==
  ASSUME Unhurried, KeyTypeOK, ContInv, NEW c \in SysPc, At(c), Return,
         UNCHANGED running
  PROVE  /\ cont' \in [Processes -> Seq(Frames)]
         /\ ContInv'
         /\ \A g : Handles(g)' <=> Handles(g)
         /\ \A g : ~Calls(g)'
<1> DEFINE s == Front(cont[running])
<1>1. /\ running = Shell /\ Len(cont[Shell]) = 1 /\ Shell \in Processes
      /\ Top = cont[Shell][1] /\ Top.pc = c /\ Top \in Frames
      /\ cont[running] \in Seq(Frames) /\ cont[running] # <<>>
  BY CallOnTop, TopIs
<1>2. c \notin Handling  BY DEF SysPc, Handling
<1>3. s \in Seq(Frames) /\ Len(s) = 0
  BY <1>1, TopOfStack
<1>4. cont' = [cont EXCEPT ![running] = s]  BY DEF Return
<1> HIDE DEF s
<1>5. /\ cont' \in [Processes -> Seq(Frames)]
      /\ cont'[running] = s
      /\ \A p \in Processes : p # running => cont'[p] = cont[p]
      /\ \A p \in Processes : Len(cont[p]) \in Nat /\ Len(cont'[p]) \in Nat
      /\ \A p, i : <<p, i>> \in KeyHandlers' <=>
                     /\ p \in Processes /\ i \in 1..2 /\ i <= Len(cont'[p])
                     /\ cont'[p][i].pc \in Handling
      /\ \A x \in KeyHandlers' : x = <<x[1], x[2]>>
  BY <1>3, <1>4, StackBecomes
<1>6. Len(cont'[Shell]) = 0  BY <1>1, <1>3, <1>5
<1>7. \A p, i : <<p, i>> \in KeyHandlers' <=> <<p, i>> \in KeyHandlers
  <2> TAKE p, i
  <2>1. CASE p = Shell
    <3>1. \A j \in 1..2 : j <= Len(cont[Shell]) => j = 1  BY <1>1
    <3>2. \A j \in 1..2 : ~(j <= Len(cont'[Shell]))  BY <1>6
    <3> QED BY <1>1, <1>2, <1>5, <2>1, <3>1, <3>2, HandlersAre
  <2>2. CASE p # Shell  BY <1>1, <1>5, <2>2, HandlersAre
  <2> QED BY <2>1, <2>2
<1>8. KeyHandlers' = KeyHandlers
  <2>1. \A x \in KeyHandlers : x \in KeyHandlers'  BY <1>7, HandlersAre
  <2>2. \A x \in KeyHandlers' : x \in KeyHandlers  BY <1>5, <1>7
  <2> QED BY <2>1, <2>2
<1>9. \A x \in KeyHandlers : cont'[x[1]][x[2]] = cont[x[1]][x[2]]
  <2> TAKE x \in KeyHandlers
  <2>1. /\ x[1] \in Processes /\ x[2] \in 1..2 /\ x[2] <= Len(cont[x[1]])
        /\ cont[x[1]][x[2]].pc \in Handling
    BY HandlersAre
  <2>2. x[1] # Shell  BY <1>1, <1>2, <2>1
  <2> QED BY <1>1, <1>5, <2>1, <2>2
<1>10. ContInv'
  <2>1. \A p \in Processes : Len(cont'[p]) <= 2  BY <1>1, <1>5, <1>6 DEF ContInv
  <2>2. \A j \in 1..2 : ~(j <= Len(cont'[Shell]))  BY <1>6
  <2>3. \A p \in Processes, i \in 1..2 :
          i <= Len(cont'[p]) /\ cont'[p][i].pc \in SysPc => p = Shell /\ i = 1
    BY <1>1, <1>5, <2>2 DEF ContInv
  <2> QED BY <1>8, <2>1, <2>3 DEF ContInv
<1>11. \A g : Handles(g)' <=> Handles(g)  BY <1>8, <1>9 DEF Handles
<1>12. \A g : ~Calls(g)'  BY <1>6 DEF Calls
<1> QED BY <1>5, <1>10, <1>11, <1>12

\* A first handler is entered, above whatever runs.
LEMMA HandlerEnters ==
  ASSUME Unhurried, KeyTypeOK, ContInv, KeyHandlers = {}, Call("inb"),
         UNCHANGED running
  PROVE  /\ cont' \in [Processes -> Seq(Frames)]
         /\ ContInv'
         /\ \A g : Handles(g)' <=> g = Activation("inb")
         /\ \A g : Calls(g)' <=> Calls(g)
         /\ \A g : ~Handles(g)
<1> DEFINE f == Activation("inb")
           s == Append(cont[running], f)
           n == Len(cont[running])
<1>1. running \in Processes /\ cont[running] \in Seq(Frames)  BY DEF KeyTypeOK
<1>2. f \in Frames /\ f.pc = "inb" /\ "inb" \in Handling /\ "inb" \notin SysPc
  BY KeyboardAssumption DEF Activation, Frames, Pcs, Slots, Handling, SysPc, Codes, None
<1> HIDE DEF f
<1>3. /\ s \in Seq(Frames) /\ Len(s) = n + 1 /\ s[n + 1] = f
      /\ \A i \in 1..n : s[i] = cont[running][i]
  BY <1>1, <1>2, AppendProperties
<1>4. cont' = [cont EXCEPT ![running] = s]  BY DEF Call, f
<1> HIDE DEF s
<1>5. /\ cont' \in [Processes -> Seq(Frames)]
      /\ cont'[running] = s
      /\ \A p \in Processes : p # running => cont'[p] = cont[p]
      /\ \A p \in Processes : Len(cont[p]) \in Nat /\ Len(cont'[p]) \in Nat
      /\ \A p, i : <<p, i>> \in KeyHandlers' <=>
                     /\ p \in Processes /\ i \in 1..2 /\ i <= Len(cont'[p])
                     /\ cont'[p][i].pc \in Handling
      /\ \A x \in KeyHandlers' : x = <<x[1], x[2]>>
  BY <1>3, <1>4, StackBecomes
<1>6. n \in 0..1
  <2>1. n \in Nat /\ n <= 2  BY <1>1, <1>5 DEF ContInv
  <2>2. ASSUME n = 2 PROVE FALSE
    <3>1. 2 \in 1..2 /\ 2 <= Len(cont[running])  BY <2>2
    <3>2. cont[running][2] \in Frames
      <4>1. 2 \in 1..Len(cont[running])  BY <2>2
      <4> QED BY <1>1, <4>1, ElementOfSeq
    <3>3. cont[running][2].pc \notin SysPc  BY <1>1, <3>1 DEF ContInv
    <3>4. cont[running][2].pc \in Handling  BY <3>2, <3>3 DEF Frames, Pcs
    <3>5. <<running, 2>> \in KeyHandlers  BY <1>1, <3>1, <3>4, HandlersAre
    <3> QED BY <3>5
  <2>3. \A m \in Nat : m <= 2 /\ m # 2 => m \in 0..1  OBVIOUS
  <2> QED BY <2>1, <2>2, <2>3
<1>7. \A p \in Processes :
        Len(cont'[p]) = IF p = running THEN n + 1 ELSE Len(cont[p])
  BY <1>3, <1>5
<1>8. \A p \in Processes, i \in 1..2 : i <= Len(cont'[p]) =>
        /\ p = running /\ i = n + 1 => cont'[p][i] = f
        /\ ~(p = running /\ i = n + 1) => /\ i <= Len(cont[p])
                                          /\ cont'[p][i] = cont[p][i]
  <2> TAKE p \in Processes, i \in 1..2
  <2>1. CASE p # running  BY <1>5, <2>1
  <2>2. CASE p = running
    <3>1. i <= n + 1 /\ i # n + 1 => i \in 1..n  BY <1>6
    <3> QED BY <1>3, <1>5, <2>2, <3>1
  <2> QED BY <2>1, <2>2
<1> HIDE DEF n
<1>9. n + 1 \in 1..2 /\ Len(cont'[running]) = n + 1 /\ n + 1 <= n + 1
      /\ cont'[running][n + 1] = f
  <2>1. n + 1 \in 1..2 /\ n + 1 <= n + 1  BY <1>6
  <2>2. Len(cont'[running]) = n + 1  BY <1>1, <1>7
  <2>3. cont'[running][n + 1] = f  BY <1>1, <1>8, <2>1, <2>2
  <2> QED BY <2>1, <2>2, <2>3
<1>10. KeyHandlers' = {<<running, n + 1>>}
  <2>1. <<running, n + 1>> \in KeyHandlers'  BY <1>1, <1>2, <1>5, <1>9
  <2>2. ASSUME NEW p, NEW i, <<p, i>> \in KeyHandlers', ~(p = running /\ i = n + 1)
        PROVE  <<p, i>> \in KeyHandlers
    BY <1>5, <1>8, <2>2, HandlersAre
  <2> QED BY <1>5, <2>1, <2>2
<1>11. ContInv'
  <2>1. \A p \in Processes : Len(cont'[p]) <= 2  BY <1>6, <1>7 DEF ContInv
  <2>2. \A p \in Processes, i \in 1..2 :
          i <= Len(cont'[p]) /\ cont'[p][i].pc \in SysPc => p = Shell /\ i = 1
    BY <1>2, <1>8 DEF ContInv
  <2> QED BY <1>10, <2>1, <2>2 DEF ContInv
<1>12. \A g : Handles(g)' <=> g = f
  <2>1. \A x : x = <<running, n + 1>> => cont'[x[1]][x[2]] = f  BY <1>9
  <2> QED BY <1>10, <2>1 DEF Handles
<1>13. \A g : Calls(g)' <=> Calls(g)
  <2>1. Shell \in Processes  BY KeyboardAssumption
  <2>2. CASE running = Shell
    <3>1. n = 0 => cont'[Shell][1] = f /\ Len(cont[Shell]) = 0
      BY <1>9, <2>2 DEF n
    <3>2. n = 1 => /\ Len(cont'[Shell]) = 2 /\ Len(cont[Shell]) = 1
                   /\ cont'[Shell][1] = cont[Shell][1]
      <4> HAVE n = 1
      <4>1. Len(cont'[Shell]) = 2 /\ Len(cont[Shell]) = 1  BY <1>9, <2>2 DEF n
      <4>2. 1 \in 1..2 /\ 1 <= Len(cont'[Shell]) /\ 1 # n + 1  BY <4>1
      <4> QED BY <1>8, <2>1, <2>2, <4>1, <4>2
    <3> QED BY <1>2, <1>6, <3>1, <3>2 DEF Calls
  <2>3. CASE running # Shell  BY <1>5, <2>1, <2>3 DEF Calls
  <2> QED BY <2>2, <2>3
<1> QED BY <1>5, <1>11, <1>12, <1>13 DEF f, Handles

\* The shell, in user mode, calls.
LEMMA CallEnters ==
  ASSUME Unhurried, KeyTypeOK, ContInv, NEW c \in SysPc, InUserMode(Shell), Call(c),
         UNCHANGED running
  PROVE  /\ cont' \in [Processes -> Seq(Frames)]
         /\ ContInv'
         /\ \A g : Handles(g)' <=> Handles(g)
         /\ \A g : Calls(g)' <=> g = Activation(c)
         /\ \A g : ~Calls(g)
<1> DEFINE f == Activation(c)
           s == Append(cont[running], f)
<1>1. /\ running = Shell /\ running \in Processes /\ cont[running] \in Seq(Frames)
      /\ Len(cont[Shell]) = 0
  BY EmptySeq DEF KeyTypeOK, InUserMode
<1>2. f \in Frames /\ f.pc = c /\ c \notin Handling
  BY KeyboardAssumption DEF Activation, Frames, Pcs, Slots, Handling, SysPc, Codes, None
<1> HIDE DEF f
<1>3. s \in Seq(Frames) /\ Len(s) = 1 /\ s[1] = f
  BY <1>1, <1>2, AppendProperties
<1>4. cont' = [cont EXCEPT ![running] = s]  BY DEF Call, f
<1> HIDE DEF s
<1>5. /\ cont' \in [Processes -> Seq(Frames)]
      /\ cont'[running] = s
      /\ \A p \in Processes : p # running => cont'[p] = cont[p]
      /\ \A p \in Processes : Len(cont[p]) \in Nat /\ Len(cont'[p]) \in Nat
      /\ \A p, i : <<p, i>> \in KeyHandlers' <=>
                     /\ p \in Processes /\ i \in 1..2 /\ i <= Len(cont'[p])
                     /\ cont'[p][i].pc \in Handling
      /\ \A x \in KeyHandlers' : x = <<x[1], x[2]>>
  BY <1>3, <1>4, StackBecomes
<1>6. Len(cont'[Shell]) = 1 /\ cont'[Shell][1] = f  BY <1>1, <1>3, <1>5
<1>7. \A p, i : <<p, i>> \in KeyHandlers' <=> <<p, i>> \in KeyHandlers
  <2> TAKE p, i
  <2>1. CASE p = Shell
    <3>1. \A j \in 1..2 : j <= Len(cont'[Shell]) => j = 1  BY <1>6
    <3>2. \A j \in 1..2 : ~(j <= Len(cont[Shell]))  BY <1>1
    <3> QED BY <1>1, <1>2, <1>5, <1>6, <2>1, <3>1, <3>2, HandlersAre
  <2>2. CASE p # Shell  BY <1>1, <1>5, <2>2, HandlersAre
  <2> QED BY <2>1, <2>2
<1>8. KeyHandlers' = KeyHandlers
  <2>1. \A x \in KeyHandlers : x \in KeyHandlers'  BY <1>7, HandlersAre
  <2>2. \A x \in KeyHandlers' : x \in KeyHandlers  BY <1>5, <1>7
  <2> QED BY <2>1, <2>2
<1>9. \A x \in KeyHandlers : cont'[x[1]][x[2]] = cont[x[1]][x[2]]
  <2> TAKE x \in KeyHandlers
  <2>1. x[1] \in Processes /\ x[2] \in 1..2 /\ x[2] <= Len(cont[x[1]])
    BY HandlersAre
  <2>2. \A j \in 1..2 : ~(j <= Len(cont[Shell]))  BY <1>1
  <2>3. x[1] # Shell  BY <2>1, <2>2
  <2> QED BY <1>1, <1>5, <2>1, <2>3
<1>10. ContInv'
  <2>1. \A p \in Processes : Len(cont'[p]) <= 2
    <3> TAKE p \in Processes
    <3>1. CASE p = running
      <4>1. p = Shell /\ Len(cont'[Shell]) = 1 /\ 1 <= 2  BY <1>1, <1>6, <3>1
      <4> QED BY <4>1
    <3>2. CASE p # running  BY <1>5, <3>2 DEF ContInv
    <3> QED BY <3>1, <3>2
  <2>2. \A j \in 1..2 : j <= Len(cont'[Shell]) => j = 1  BY <1>6
  <2>3. \A p \in Processes, i \in 1..2 :
          i <= Len(cont'[p]) /\ cont'[p][i].pc \in SysPc => p = Shell /\ i = 1
    BY <1>1, <1>5, <2>2 DEF ContInv
  <2> QED BY <1>8, <2>1, <2>3 DEF ContInv
<1>11. \A g : Handles(g)' <=> Handles(g)  BY <1>8, <1>9 DEF Handles
<1>12. (\A g : Calls(g)' <=> g = f) /\ (\A g : ~Calls(g))
  BY <1>1, <1>2, <1>6 DEF Calls
<1> QED BY <1>5, <1>10, <1>11, <1>12 DEF f

-----------------------------------------------------------------------------
(* Which keys handler and system call hold                                   *)

LEMMA Holders ==
  ASSUME Unhurried, KeyTypeOK, ContInv
  PROVE  /\ \A f : Handles(f) => f \in Frames /\ f.pc \in Handling
         /\ \A f : Calls(f) => f \in Frames /\ f.pc \in SysPc
         /\ \A f, g : Handles(f) /\ Handles(g) => f = g
         /\ \A f, g : Calls(f) /\ Calls(g) => f = g
<1>1. ASSUME NEW f, Handles(f) PROVE f \in Frames /\ f.pc \in Handling
  <2>1. PICK x \in KeyHandlers : f = cont[x[1]][x[2]]  BY <1>1 DEF Handles
  <2>2. /\ x[1] \in Processes /\ x[2] \in 1..2 /\ x[2] <= Len(cont[x[1]])
        /\ cont[x[1]][x[2]].pc \in Handling
    BY HandlersAre
  <2>3. cont[x[1]] \in Seq(Frames) /\ Len(cont[x[1]]) \in Nat
    BY <2>2, LenProperties DEF KeyTypeOK
  <2>4. x[2] \in 1..Len(cont[x[1]])  BY <2>2, <2>3
  <2> QED BY <2>1, <2>2, <2>3, <2>4, ElementOfSeq
<1>2. ASSUME NEW f, Calls(f) PROVE f \in Frames /\ f.pc \in SysPc
  <2>1. cont[Shell] \in Seq(Frames) /\ Len(cont[Shell]) \in Nat
    BY KeyboardAssumption, LenProperties DEF KeyTypeOK
  <2>2. 1 \in 1..Len(cont[Shell])  BY <1>2, <2>1 DEF Calls
  <2> QED BY <1>2, <2>1, <2>2, ElementOfSeq DEF Calls
<1>3. \A f, g : Handles(f) /\ Handles(g) => f = g  BY DEF Handles, ContInv
<1>4. \A f, g : Calls(f) /\ Calls(g) => f = g  BY DEF Calls
<1> QED BY <1>1, <1>2, <1>3, <1>4

LEMMA SameFetched ==
  ASSUME \A g : Calls(g)' <=> Calls(g)
  PROVE  NFetched' = NFetched /\ \A g : Fetches(g)' <=> Fetches(g)
<1>1. \A g : Fetches(g)' <=> Fetches(g)  BY DEF Fetches
<1> QED BY <1>1 DEF NFetched, Frames

LEMMA SameComing ==
  ASSUME \A g : Handles(g)' <=> Handles(g), UNCHANGED <<port, typed>>
  PROVE  /\ NComing' = NComing
         /\ \A g : InHand(g)' = InHand(g)
         /\ \A g : Brings(g)' <=> Brings(g)
<1>1. \A g : InHand(g)' = InHand(g)  BY DEF InHand, Mapped
<1>2. \A g : Brings(g)' <=> Brings(g)  BY <1>1 DEF Brings
<1> QED BY <1>1, <1>2 DEF NComing, Frames

\* With one handler h.
LEMMA ComingIs ==
  ASSUME NEW h \in Frames
  PROVE  /\ (\A g : Handles(g) <=> g = h) =>
               NComing = (IF InHand(h) # None THEN 1 ELSE 0)
         /\ (\A g : Handles(g)' <=> g = h) =>
               NComing' = (IF InHand(h)' # None THEN 1 ELSE 0)
<1>1. (\A g : Handles(g) <=> g = h) =>
        NComing = (IF InHand(h) # None THEN 1 ELSE 0)
  BY DEF NComing, Brings
<1>2. (\A g : Handles(g)' <=> g = h) =>
        NComing' = (IF InHand(h)' # None THEN 1 ELSE 0)
  BY DEF NComing, Brings, Frames, Codes, None
<1> QED BY <1>1, <1>2

\* With none.
LEMMA NoneComing ==
  /\ (\A g : ~Handles(g)) => NComing = 0
  /\ (\A g : ~Handles(g)') => NComing' = 0
BY DEF NComing, Brings, Frames

\* With one system call h.
LEMMA FetchedIs ==
  ASSUME NEW h \in Frames
  PROVE  /\ (\A g : Calls(g) <=> g = h) =>
               NFetched = (IF h.pc = "fetch" THEN 1 ELSE 0)
         /\ (\A g : Calls(g)' <=> g = h) =>
               NFetched' = (IF h.pc = "fetch" THEN 1 ELSE 0)
<1>1. (\A g : Calls(g) <=> g = h) => NFetched = (IF h.pc = "fetch" THEN 1 ELSE 0)
  BY DEF NFetched, Fetches
<1>2. (\A g : Calls(g)' <=> g = h) => NFetched' = (IF h.pc = "fetch" THEN 1 ELSE 0)
  BY DEF NFetched, Fetches, Frames
<1> QED BY <1>1, <1>2

LEMMA NoneFetched ==
  /\ (\A g : ~Calls(g)) => NFetched = 0
  /\ (\A g : ~Calls(g)') => NFetched' = 0
BY DEF NFetched, Fetches, Frames

\* The indices and counts of the invariant are numbers.
LEMMA CountFacts ==
  ASSUME Unhurried, KeyTypeOK
  PROVE  /\ RingSize \in Nat /\ RingSize > 1 /\ MaxUnread \in Nat
         /\ MaxUnread <= RingSize - 1
         /\ Waiting \in 0..RingSize-1
         /\ Waiting = 0 <=> key_read = key_write
         /\ NFetched \in 0..1 /\ NComing \in 0..1
         /\ Len(got) \in Nat /\ Len(typed) \in Nat
<1>1. RingSize \in Nat /\ RingSize > 1 /\ MaxUnread \in Nat /\ MaxUnread <= RingSize - 1
  BY KeyboardAssumption DEF Unhurried
<1>2. Waiting \in 0..RingSize-1 /\ (Waiting = 0 <=> key_read = key_write)
  <2>1. key_read \in 0..RingSize-1 /\ key_write \in 0..RingSize-1
    BY DEF KeyTypeOK
  <2>2. /\ (key_write - key_read) % RingSize \in 0..RingSize-1
        /\ (key_write - key_read) % RingSize = 0 <=> key_read = key_write
    BY <1>1, <2>1, RingCount
  <2> QED BY <2>2 DEF Waiting
<1>3. Len(got) \in Nat /\ Len(typed) \in Nat  BY LenProperties DEF KeyTypeOK
<1>4. NFetched \in 0..1 /\ NComing \in 0..1  BY DEF NFetched, NComing
<1> QED BY <1>1, <1>2, <1>3, <1>4

-----------------------------------------------------------------------------
(* What a step leaves alone                                                  *)

LEMMA HandlerKept ==
  ASSUME KeyInv, UNCHANGED <<key_buffer, key_write, port>>,
         \A g : Handles(g)' <=> Handles(g)
  PROVE  HandlerInv'
<1>1. HandlerInv  BY DEF KeyInv
<1>2. Frames' = Frames  BY DEF Frames
<1> QED BY <1>1, <1>2 DEF HandlerInv

LEMMA CallKept ==
  ASSUME KeyInv, UNCHANGED <<key_read, key_write, poll>>,
         \A g : Calls(g)' <=> Calls(g)
  PROVE  CallInv'
<1>1. CallInv  BY DEF KeyInv
<1>2. Frames' = Frames  BY DEF Frames
<1>3. NFetched' = NFetched  BY SameFetched
<1> QED BY <1>1, <1>2, <1>3 DEF CallInv

\* Nothing is put in or taken out, and what is on its way stays on its way.
LEMMA OrderKept ==
  ASSUME KeyInv, UNCHANGED <<key_buffer, key_read, key_write, arrived, typed, got>>,
         NFetched' = NFetched, NComing' = NComing,
         \A g : Fetches(g)' <=> Fetches(g),
         \A g \in Frames : Brings(g)' => InHand(g)' = typed[Len(typed)]
  PROVE  OrderInv'
<1>1. OrderInv  BY DEF KeyInv
<1>2. Frames' = Frames  BY DEF Frames
<1>3. Waiting' = Waiting  BY DEF Waiting
<1> QED BY <1>1, <1>2, <1>3 DEF OrderInv

-----------------------------------------------------------------------------
(* Every step keeps the invariant.  The handler first.                       *)

LEMMA ReadPortKeeps ==
  ASSUME Unhurried, KeyInv, ReadPort
  PROVE  KeyInv'
<1> USE DEF KeyInv
<1>1. PICK h \in Frames : h = Top /\ h.pc = "inb" /\ \A g : Handles(g) <=> g = h
  <2>1. "inb" \in Handling /\ At("inb")  BY DEF Handling, ReadPort
  <2> QED BY <2>1, TopIs, HandlerOnTop
<1>2. /\ UNCHANGED <<ring, running, poll, arrived, typed, got>> /\ port' = None
      /\ At("inb") /\ "inb" \in Handling
  BY DEF ReadPort, Handling
<1>3. InHand(h) = Mapped(port) /\ Handles(h)  BY <1>1 DEF InHand
<1>4. CASE Mapped(port) = None
  <2>1. Return  BY <1>4 DEF ReadPort
  <2>2. /\ cont' \in [Processes -> Seq(Frames)] /\ ContInv'
        /\ \A g : ~Handles(g)'
        /\ \A g : Calls(g)' <=> Calls(g)
    BY <1>2, <2>1, HandlerReturns
  <2>3. NComing = 0 /\ NComing' = 0
    BY <1>1, <1>3, <1>4, <2>2, ComingIs, NoneComing
  <2>4. \A g : ~Brings(g)'  BY <2>2 DEF Brings
  <2>5. OrderInv'
    <3>1. NFetched' = NFetched /\ \A g : Fetches(g)' <=> Fetches(g)
      BY <2>2, SameFetched
    <3> QED BY <1>2, <2>3, <2>4, <3>1, OrderKept DEF ring
  <2>6. CallInv'  BY <1>2, <2>2, CallKept DEF ring
  <2>7. HandlerInv'  BY <2>2 DEF HandlerInv
  <2>8. KeyTypeOK'
    BY <1>2, <2>2, KeyboardAssumption DEF KeyTypeOK, ring, Codes, None
  <2> QED BY <2>2, <2>5, <2>6, <2>7, <2>8
<1>5. CASE Mapped(port) # None
  <2>0. PICK f : f = [h EXCEPT !.pc = "slot", !.char = port]  OBVIOUS
  <2>1. f \in Frames /\ f.pc = "slot" /\ f.char = port
    <3>1. "slot" \in Pcs /\ port \in Codes  BY DEF KeyTypeOK, Pcs, Handling
    <3> QED BY <2>0, <3>1 DEF Frames
  <2>2. Continue(f) /\ f.pc \in Handling  BY <1>1, <1>5, <2>0, <2>1 DEF ReadPort, Handling
  <2>3. /\ cont' \in [Processes -> Seq(Frames)] /\ ContInv'
        /\ \A g : Handles(g)' <=> g = f
        /\ \A g : Calls(g)' <=> Calls(g)
    BY <1>2, <2>1, <2>2, HandlerContinues
  <2>4. port # None /\ Mapped(port) = port  BY <1>5 DEF Mapped
  <2>5. InHand(f)' = port  BY <2>1 DEF InHand
  <2>6. NComing = 1 /\ NComing' = 1
    BY <1>1, <1>3, <1>5, <2>1, <2>3, <2>4, <2>5, ComingIs
  <2>7. ASSUME NEW g \in Frames, Brings(g)' PROVE InHand(g)' = typed[Len(typed)]
    <3>1. g = f  BY <2>3, <2>7 DEF Brings
    <3>2. Brings(h)  BY <1>3, <1>5 DEF Brings
    <3>3. InHand(h) = typed[Len(typed)]  BY <3>2 DEF OrderInv
    <3> QED BY <1>3, <2>4, <2>5, <3>1, <3>3
  <2>8. OrderInv'
    <3>1. NFetched' = NFetched /\ \A g : Fetches(g)' <=> Fetches(g)
      BY <2>3, SameFetched
    <3> QED BY <1>2, <2>6, <2>7, <3>1, OrderKept DEF ring
  <2>9. CallInv'  BY <1>2, <2>3, CallKept DEF ring
  <2>10. HandlerInv'  BY <2>1, <2>3, <2>4 DEF HandlerInv
  <2>11. KeyTypeOK'
    BY <1>2, <2>3, KeyboardAssumption DEF KeyTypeOK, ring, Codes, None
  <2> QED BY <2>3, <2>8, <2>9, <2>10, <2>11
<1> QED BY <1>4, <1>5

LEMMA LoadWriteKeeps ==
  ASSUME Unhurried, KeyInv, LoadWrite
  PROVE  KeyInv'
<1> USE DEF KeyInv
<1>1. PICK h \in Frames : h = Top /\ h.pc = "slot" /\ \A g : Handles(g) <=> g = h
  <2>1. "slot" \in Handling /\ At("slot")  BY DEF Handling, LoadWrite
  <2> QED BY <2>1, TopIs, HandlerOnTop
<1>2. /\ UNCHANGED <<ring, port, running, poll, arrived, typed, got>>
      /\ At("slot") /\ "slot" \in Handling
  BY DEF LoadWrite, Handling
<1>0. PICK f : f = [h EXCEPT !.pc = "store", !.index = key_write]  OBVIOUS
<1>3. f \in Frames /\ f.pc = "store" /\ f.index = key_write /\ f.char = h.char
  <2>1. "store" \in Pcs /\ key_write \in Slots
    BY DEF KeyTypeOK, Pcs, Slots, Handling
  <2> QED BY <1>0, <2>1 DEF Frames
<1>4. Continue(f) /\ f.pc \in Handling  BY <1>0, <1>1, <1>3 DEF LoadWrite, Handling
<1>5. /\ cont' \in [Processes -> Seq(Frames)] /\ ContInv'
      /\ \A g : Handles(g)' <=> g = f
      /\ \A g : Calls(g)' <=> Calls(g)
  BY <1>2, <1>3, <1>4, HandlerContinues
<1>6. h.char # None /\ InHand(h) = h.char /\ InHand(f)' = h.char
  BY <1>1, <1>3 DEF HandlerInv, InHand
<1>7. NComing = 1 /\ NComing' = 1  BY <1>1, <1>3, <1>5, <1>6, ComingIs
<1>8. ASSUME NEW g \in Frames, Brings(g)' PROVE InHand(g)' = typed[Len(typed)]
  <2>1. g = f  BY <1>5, <1>8 DEF Brings
  <2>2. Brings(h)  BY <1>1, <1>6 DEF Brings
  <2>3. InHand(h) = typed[Len(typed)]  BY <2>2 DEF OrderInv
  <2> QED BY <1>6, <2>1, <2>3
<1>9. OrderInv'
  <2>1. NFetched' = NFetched /\ \A g : Fetches(g)' <=> Fetches(g)
    BY <1>5, SameFetched
  <2> QED BY <1>2, <1>7, <1>8, <2>1, OrderKept DEF ring
<1>10. CallInv'  BY <1>2, <1>5, CallKept DEF ring
<1>11. HandlerInv'  BY <1>2, <1>3, <1>5, <1>6 DEF HandlerInv, ring
<1>12. KeyTypeOK'  BY <1>2, <1>5 DEF KeyTypeOK, ring
<1> QED BY <1>5, <1>9, <1>10, <1>11, <1>12

\* The slot that is written is none of those with a key in it.
LEMMA StoreKeyKeeps ==
  ASSUME Unhurried, KeyInv, StoreKey
  PROVE  KeyInv'
<1> USE DEF KeyInv
<1>1. PICK h \in Frames : h = Top /\ h.pc = "store" /\ \A g : Handles(g) <=> g = h
  <2>1. "store" \in Handling /\ At("store")  BY DEF Handling, StoreKey
  <2> QED BY <2>1, TopIs, HandlerOnTop
<1>2. /\ UNCHANGED <<key_read, key_write, port, running, poll, arrived, typed, got>>
      /\ At("store") /\ "store" \in Handling
  BY DEF StoreKey, Handling
<1>3. PICK f : f = [h EXCEPT !.pc = "advance"]  OBVIOUS
<1>4. f \in Frames /\ f.pc = "advance" /\ f.index = h.index /\ f.char = h.char
  <2>1. "advance" \in Pcs  BY DEF Pcs, Handling
  <2> QED BY <1>3, <2>1 DEF Frames
<1>5. Continue(f) /\ f.pc \in Handling
  BY <1>1, <1>3, <1>4 DEF StoreKey, Handling, Goto
<1>6. /\ cont' \in [Processes -> Seq(Frames)] /\ ContInv'
      /\ \A g : Handles(g)' <=> g = f
      /\ \A g : Calls(g)' <=> Calls(g)
  BY <1>2, <1>4, <1>5, HandlerContinues
<1>7. /\ h.char # None /\ h.index = key_write
      /\ InHand(h) = h.char /\ InHand(f)' = h.char
  BY <1>1, <1>4 DEF HandlerInv, InHand
<1>8. NComing = 1 /\ NComing' = 1  BY <1>1, <1>4, <1>6, <1>7, ComingIs
<1>9. key_buffer' = [key_buffer EXCEPT ![key_write] = h.char]
  BY <1>1, <1>7 DEF StoreKey
<1>10. /\ key_buffer' \in [0..RingSize-1 -> Codes] /\ key_buffer'[key_write] = h.char
       /\ \A i : i \in 0..RingSize-1 /\ i # key_write => key_buffer'[i] = key_buffer[i]
  <2>1. h.char \in Codes  BY DEF Frames
  <2>2. key_buffer \in [0..RingSize-1 -> Codes] /\ key_write \in 0..RingSize-1
    BY DEF KeyTypeOK
  <2> QED BY <1>9, <2>1, <2>2
<1>11. Waiting' = Waiting  BY <1>2 DEF Waiting
<1>12. NFetched' = NFetched /\ \A g : Fetches(g)' <=> Fetches(g)
  BY <1>6, SameFetched
<1>13. ASSUME NEW g \in Frames, Brings(g)' PROVE InHand(g)' = typed[Len(typed)]
  <2>1. g = f  BY <1>6, <1>13 DEF Brings
  <2>2. Brings(h)  BY <1>1, <1>7 DEF Brings
  <2>3. InHand(h) = typed[Len(typed)]  BY <2>2 DEF OrderInv
  <2> QED BY <1>7, <2>1, <2>3
<1>14. ASSUME NEW g \in Frames, Fetches(g)'
       PROVE  key_buffer'[g.index] = typed[Len(got) + 1]
  <2>1. Fetches(g) /\ Calls(g) /\ g.pc = "fetch" /\ g.index \in 0..RingSize-1
    BY <1>12, <1>14 DEF Fetches, Frames, Slots
  <2>2. key_read = (g.index + 1) % RingSize  BY <2>1 DEF CallInv
  <2>3. NFetched = 1  BY <2>1 DEF NFetched
  <2>4. Waiting < RingSize - 1
    <3>1. Len(typed) = Len(got) + 1 + Waiting + 1  BY <1>8, <2>3 DEF OrderInv
    <3>2. Len(typed) - Len(got) <= MaxUnread  BY DEF OrderInv
    <3> QED BY <3>1, <3>2, CountFacts
  <2>5. g.index # key_write
    <3>1. key_write \in 0..RingSize-1  BY DEF KeyTypeOK
    <3>2. RingSize \in Nat /\ RingSize > 1  BY KeyboardAssumption
    <3>3. (key_write - ((g.index + 1) % RingSize)) % RingSize < RingSize - 1
      BY <2>2, <2>4 DEF Waiting
    <3> QED BY ONLY <2>1, <3>1, <3>2, <3>3, GivenUpSlot
  <2> QED BY <1>10, <2>1, <2>5 DEF OrderInv
<1>15. ASSUME NEW i \in 1..Waiting
       PROVE  key_buffer'[(key_read + i - 1) % RingSize] = typed[Len(got) + NFetched + i]
  <2>1. /\ (key_read + i - 1) % RingSize \in 0..RingSize-1
        /\ (key_read + i - 1) % RingSize # key_write
    <3>1. key_write \in 0..RingSize-1 /\ key_read \in 0..RingSize-1  BY DEF KeyTypeOK
    <3>2. RingSize \in Nat /\ RingSize > 1  BY KeyboardAssumption
    <3>3. i \in 1..(key_write - key_read) % RingSize  BY DEF Waiting
    <3> QED BY ONLY <3>1, <3>2, <3>3, RingSlots
  <2> QED BY <1>10, <2>1 DEF OrderInv
<1>16. OrderInv'
  <2>1. Frames' = Frames  BY DEF Frames
  <2>2. OrderInv  OBVIOUS
  <2> QED BY <1>2, <1>8, <1>11, <1>12, <1>13, <1>14, <1>15, <2>1, <2>2 DEF OrderInv
<1>17. CallInv'  BY <1>2, <1>6, CallKept
<1>18. HandlerInv'  BY <1>2, <1>4, <1>6, <1>7, <1>10 DEF HandlerInv
<1>19. KeyTypeOK'  BY <1>2, <1>6, <1>10 DEF KeyTypeOK
<1> QED BY <1>6, <1>16, <1>17, <1>18, <1>19

\* The key passes from the handler into the ring.
LEMMA AdvanceWriteKeeps ==
  ASSUME Unhurried, KeyInv, AdvanceWrite
  PROVE  KeyInv'
<1> USE DEF KeyInv
<1>1. PICK h \in Frames : h = Top /\ h.pc = "advance" /\ \A g : Handles(g) <=> g = h
  <2>1. "advance" \in Handling /\ At("advance")  BY DEF Handling, AdvanceWrite
  <2> QED BY <2>1, TopIs, HandlerOnTop
<1>2. /\ UNCHANGED <<key_buffer, key_read, port, running, poll, arrived, typed, got>>
      /\ At("advance") /\ "advance" \in Handling /\ Return
      /\ key_write' = (h.index + 1) % RingSize
  BY <1>1 DEF AdvanceWrite, Handling
<1>3. /\ cont' \in [Processes -> Seq(Frames)] /\ ContInv'
      /\ \A g : ~Handles(g)'
      /\ \A g : Calls(g)' <=> Calls(g)
  BY <1>2, HandlerReturns
<1>4. /\ h.char # None /\ h.index = key_write /\ key_buffer[key_write] = h.char
      /\ InHand(h) = h.char
  BY <1>1 DEF HandlerInv, InHand
<1>5. NComing = 1 /\ NComing' = 0 /\ \A g : ~Brings(g)'
  BY <1>1, <1>3, <1>4, ComingIs, NoneComing DEF Brings
<1>6. NFetched' = NFetched /\ \A g : Fetches(g)' <=> Fetches(g)
  BY <1>3, SameFetched
<1>7. Len(typed) = Len(got) + NFetched + Waiting + 1
      /\ Len(typed) - Len(got) <= MaxUnread
  BY <1>5 DEF OrderInv
<1>8. Waiting < RingSize - 1  BY <1>7, CountFacts
<1>9. /\ key_write' \in 0..RingSize-1
      /\ Waiting' = Waiting + 1
      /\ (key_read + (Waiting + 1) - 1) % RingSize = key_write
  <2>1. /\ key_write \in 0..RingSize-1 /\ key_read \in 0..RingSize-1
        /\ RingSize \in Nat /\ RingSize > 1 /\ Waiting \in 0..RingSize-1
    BY CountFacts DEF KeyTypeOK
  <2>2. Waiting = (key_write - key_read) % RingSize  BY DEF Waiting
  <2>3. key_write' = (key_write + 1) % RingSize  BY <1>2, <1>4
  <2>4. /\ key_write' \in 0..RingSize-1
        /\ (key_write' - key_read) % RingSize = Waiting + 1
        /\ (key_read + (Waiting + 1) - 1) % RingSize = key_write
    <3>1. (key_write - key_read) % RingSize < RingSize - 1  BY <1>8, <2>2
    <3>2. (key_write + 1) % RingSize \in 0..RingSize-1
      BY ONLY <2>1, RingNext
    <3>3. (((key_write + 1) % RingSize) - key_read) % RingSize = Waiting + 1
      BY ONLY <2>1, <2>2, <3>1, RingPut
    <3>4. (key_read + (((key_write - key_read) % RingSize) + 1) - 1) % RingSize = key_write
      BY ONLY <2>1, RingEnd
    <3> QED BY ONLY <2>2, <2>3, <3>2, <3>3, <3>4, Zenon
  <2>5. Waiting' = (key_write' - key_read) % RingSize  BY <1>2 DEF Waiting
  <2> QED BY <2>4, <2>5
<1>10. InHand(h) = typed[Len(typed)]
  <2>1. Brings(h)  BY <1>1, <1>4 DEF Brings
  <2> QED BY <2>1 DEF OrderInv
<1>11. ASSUME NEW i \in 1..Waiting + 1
       PROVE  key_buffer[(key_read + i - 1) % RingSize] = typed[Len(got) + NFetched + i]
  <2>1. CASE i = Waiting + 1
    <3>1. Len(typed) = Len(got) + NFetched + i  BY <1>7, <2>1, CountFacts
    <3> QED BY <1>4, <1>9, <1>10, <2>1, <3>1
  <2>2. CASE i # Waiting + 1
    <3>1. i \in 1..Waiting  BY <2>2, CountFacts
    <3> QED BY <3>1 DEF OrderInv
  <2> QED BY <2>1, <2>2
<1>12. OrderInv'
  <2>1. Frames' = Frames  BY DEF Frames
  <2>2. Len(typed) = Len(got) + NFetched + (Waiting + 1) + 0  BY <1>7, CountFacts
  <2>3. OrderInv  OBVIOUS
  <2> QED BY <1>2, <1>5, <1>6, <1>9, <1>11, <2>1, <2>2, <2>3 DEF OrderInv
<1>13. CallInv'
  <2>1. Frames' = Frames  BY DEF Frames
  <2>2. key_read' # key_write'
    <3>1. key_read \in 0..RingSize-1  BY DEF KeyTypeOK
    <3>2. /\ RingSize \in Nat /\ RingSize > 1 /\ Waiting + 1 # 0
          /\ key_write' \in 0..RingSize-1
      BY <1>9, CountFacts
    <3>3. (key_write' - key_read) % RingSize = Waiting + 1  BY <1>2, <1>9 DEF Waiting
    <3> QED BY ONLY <1>2, <3>1, <3>2, <3>3, RingCount
  <2>3. CallInv  OBVIOUS
  <2> QED BY <1>2, <1>3, <2>1, <2>2, <2>3 DEF CallInv
<1>14. HandlerInv'  BY <1>3 DEF HandlerInv
<1>15. KeyTypeOK'  BY <1>2, <1>3, <1>9 DEF KeyTypeOK
<1> QED BY <1>3, <1>12, <1>13, <1>14, <1>15

-----------------------------------------------------------------------------
(* The system calls.                                                         *)

\* The shell has no call yet, or one that has not given up a slot, before and
\* after.
LEMMA OrderUnfetched ==
  ASSUME KeyInv, UNCHANGED <<ring, port, arrived, typed, got>>,
         NFetched = 0, NFetched' = 0,
         \A g : ~Fetches(g)',
         \A g : Handles(g)' <=> Handles(g)
  PROVE  OrderInv' /\ HandlerInv'
<1>1. /\ NComing' = NComing
      /\ \A g : InHand(g)' = InHand(g)
      /\ \A g : Brings(g)' <=> Brings(g)
  BY SameComing
<1>2. HandlerInv'  BY HandlerKept DEF ring
<1>3. OrderInv  BY DEF KeyInv
<1>4. Frames' = Frames  BY DEF Frames
<1>5. Waiting' = Waiting  BY DEF Waiting, ring
<1>6. OrderInv'  BY <1>1, <1>3, <1>4, <1>5 DEF OrderInv, ring
<1> QED BY <1>2, <1>6

LEMMA SysHasKeyKeeps ==
  ASSUME Unhurried, KeyInv, SysHasKey
  PROVE  KeyInv'
<1> USE DEF KeyInv
<1>1. /\ UNCHANGED <<ring, port, running, poll, arrived, typed, got>>
      /\ InUserMode(Shell) /\ poll = "haskey" /\ Call("compare") /\ "compare" \in SysPc
  BY DEF SysHasKey, SysPc
<1>2. PICK f : f = Activation("compare")  OBVIOUS
<1>3. f \in Frames /\ f.pc = "compare"
  BY <1>2, KeyboardAssumption DEF Activation, Frames, Pcs, Slots, SysPc, Codes, None
<1>4. /\ cont' \in [Processes -> Seq(Frames)] /\ ContInv'
      /\ \A g : Handles(g)' <=> Handles(g)
      /\ \A g : Calls(g)' <=> g = f
      /\ \A g : ~Calls(g)
  BY <1>1, <1>2, CallEnters
<1>5. NFetched = 0 /\ NFetched' = 0  BY <1>3, <1>4, NoneFetched, FetchedIs
<1>6. \A g : ~Fetches(g)'  BY <1>3, <1>4 DEF Fetches
<1>7. OrderInv' /\ HandlerInv'  BY <1>1, <1>4, <1>5, <1>6, OrderUnfetched
<1>8. CallInv'  BY <1>1, <1>3, <1>4 DEF CallInv
<1>9. KeyTypeOK'  BY <1>1, <1>4 DEF KeyTypeOK, ring
<1> QED BY <1>4, <1>7, <1>8, <1>9

LEMMA HasKeyKeeps ==
  ASSUME Unhurried, KeyInv, keyboard_haskey
  PROVE  KeyInv'
<1> USE DEF KeyInv
<1>1. PICK h \in Frames : h = Top /\ h.pc = "compare" /\ \A g : Calls(g) <=> g = h
  <2>1. "compare" \in SysPc /\ At("compare")  BY DEF SysPc, keyboard_haskey
  <2> QED BY <2>1, TopIs, CallOnTop
<1>2. /\ UNCHANGED <<ring, port, running, arrived, typed, got>>
      /\ At("compare") /\ "compare" \in SysPc /\ Return
      /\ poll' = IF key_read # key_write THEN "getkey" ELSE "haskey"
  BY DEF keyboard_haskey, SysPc
<1>3. /\ cont' \in [Processes -> Seq(Frames)] /\ ContInv'
      /\ \A g : Handles(g)' <=> Handles(g)
      /\ \A g : ~Calls(g)'
  BY <1>2, CallReturns
<1>4. NFetched = 0 /\ NFetched' = 0  BY <1>1, <1>3, NoneFetched, FetchedIs
<1>5. \A g : ~Fetches(g)'  BY <1>3 DEF Fetches
<1>6. OrderInv' /\ HandlerInv'  BY <1>2, <1>3, <1>4, <1>5, OrderUnfetched
<1>7. CallInv'  BY <1>2, <1>3 DEF CallInv, ring
<1>8. KeyTypeOK'  BY <1>2, <1>3 DEF KeyTypeOK, ring
<1> QED BY <1>3, <1>6, <1>7, <1>8

LEMMA SysGetKeyKeeps ==
  ASSUME Unhurried, KeyInv, SysGetKey
  PROVE  KeyInv'
<1> USE DEF KeyInv
<1>1. /\ UNCHANGED <<ring, port, running, poll, arrived, typed, got>>
      /\ InUserMode(Shell) /\ poll = "getkey" /\ Call("empty") /\ "empty" \in SysPc
  BY DEF SysGetKey, SysPc
<1>2. PICK f : f = Activation("empty")  OBVIOUS
<1>3. f \in Frames /\ f.pc = "empty"
  BY <1>2, KeyboardAssumption DEF Activation, Frames, Pcs, Slots, SysPc, Codes, None
<1>4. /\ cont' \in [Processes -> Seq(Frames)] /\ ContInv'
      /\ \A g : Handles(g)' <=> Handles(g)
      /\ \A g : Calls(g)' <=> g = f
      /\ \A g : ~Calls(g)
  BY <1>1, <1>2, CallEnters
<1>5. NFetched = 0 /\ NFetched' = 0  BY <1>3, <1>4, NoneFetched, FetchedIs
<1>6. \A g : ~Fetches(g)'  BY <1>3, <1>4 DEF Fetches
<1>7. OrderInv' /\ HandlerInv'  BY <1>1, <1>4, <1>5, <1>6, OrderUnfetched
<1>8. CallInv'  BY <1>1, <1>3, <1>4, <1>5 DEF CallInv, ring
<1>9. KeyTypeOK'  BY <1>1, <1>4 DEF KeyTypeOK, ring
<1> QED BY <1>4, <1>7, <1>8, <1>9

\* HAS_KEY has seen a key, and only the shell takes one: the ring is not empty.
LEMMA GetEmptyKeeps ==
  ASSUME Unhurried, KeyInv, GetEmpty
  PROVE  KeyInv'
<1> USE DEF KeyInv
<1>1. PICK h \in Frames : h = Top /\ h.pc = "empty" /\ \A g : Calls(g) <=> g = h
  <2>1. "empty" \in SysPc /\ At("empty")  BY DEF SysPc, GetEmpty
  <2> QED BY <2>1, TopIs, CallOnTop
<1>2. NFetched = 0  BY <1>1, FetchedIs
<1>3. poll = "getkey" /\ key_read # key_write  BY <1>1, <1>2 DEF CallInv
<1>4. PICK f : f = [h EXCEPT !.pc = "take", !.index = key_read]  OBVIOUS
<1>5. f \in Frames /\ f.pc = "take" /\ f.index = key_read
  <2>1. "take" \in Pcs /\ key_read \in Slots  BY DEF KeyTypeOK, Pcs, Slots, SysPc
  <2> QED BY <1>4, <2>1 DEF Frames
<1>6. /\ UNCHANGED <<ring, port, running, poll, arrived, typed, got>>
      /\ At("empty") /\ "empty" \in SysPc /\ f.pc \in SysPc /\ Continue(f)
  BY <1>1, <1>3, <1>4, <1>5 DEF GetEmpty, SysPc
<1>7. /\ cont' \in [Processes -> Seq(Frames)] /\ ContInv'
      /\ \A g : Handles(g)' <=> Handles(g)
      /\ \A g : Calls(g)' <=> g = f
  BY <1>5, <1>6, CallContinues
<1>8. NFetched' = 0  BY <1>5, <1>7, FetchedIs
<1>9. \A g : ~Fetches(g)'  BY <1>5, <1>7 DEF Fetches
<1>10. OrderInv' /\ HandlerInv'  BY <1>2, <1>6, <1>7, <1>8, <1>9, OrderUnfetched
<1>11. CallInv'  BY <1>3, <1>5, <1>6, <1>7 DEF CallInv, ring
<1>12. KeyTypeOK'  BY <1>6, <1>7 DEF KeyTypeOK, ring
<1> QED BY <1>7, <1>10, <1>11, <1>12

\* The first key of the ring is on its way to the shell.
LEMMA GetTakeKeeps ==
  ASSUME Unhurried, KeyInv, GetTake
  PROVE  KeyInv'
<1> USE DEF KeyInv
<1>1. PICK h \in Frames : h = Top /\ h.pc = "take" /\ \A g : Calls(g) <=> g = h
  <2>1. "take" \in SysPc /\ At("take")  BY DEF SysPc, GetTake
  <2> QED BY <2>1, TopIs, CallOnTop
<1>2. NFetched = 0  BY <1>1, FetchedIs
<1>3. poll = "getkey" /\ key_read # key_write /\ h.index = key_read
  BY <1>1, <1>2 DEF CallInv
<1>4. PICK f : f = [h EXCEPT !.pc = "fetch"]  OBVIOUS
<1>5. f \in Frames /\ f.pc = "fetch" /\ f.index = key_read
  <2>1. "fetch" \in Pcs  BY DEF Pcs, SysPc
  <2> QED BY <1>3, <1>4, <2>1 DEF Frames
<1>6. /\ UNCHANGED <<key_buffer, key_write, port, running, poll, arrived, typed, got>>
      /\ At("take") /\ "take" \in SysPc /\ f.pc \in SysPc /\ Continue(f)
      /\ key_read' = (key_read + 1) % RingSize
  BY <1>1, <1>3, <1>4, <1>5 DEF GetTake, SysPc, Goto
<1>7. /\ cont' \in [Processes -> Seq(Frames)] /\ ContInv'
      /\ \A g : Handles(g)' <=> Handles(g)
      /\ \A g : Calls(g)' <=> g = f
  BY <1>5, <1>6, CallContinues
<1>8. NFetched' = 1  BY <1>5, <1>7, FetchedIs
<1>9. /\ RingSize \in Nat /\ RingSize > 1
      /\ key_read \in 0..RingSize-1 /\ key_write \in 0..RingSize-1
      /\ Waiting \in 1..RingSize-1
  BY <1>3, CountFacts DEF KeyTypeOK
<1>10. key_read' \in 0..RingSize-1 /\ Waiting' = Waiting - 1
  <2>1. (key_read + 1) % RingSize \in 0..RingSize-1  BY ONLY <1>9, RingNext
  <2>2. (key_write - ((key_read + 1) % RingSize)) % RingSize
          = ((key_write - key_read) % RingSize) - 1
    BY ONLY <1>3, <1>9, RingTake
  <2> QED BY <1>6, <2>1, <2>2 DEF Waiting
<1>11. ASSUME NEW i \in 1..Waiting-1
       PROVE  key_buffer[(key_read' + i - 1) % RingSize] = typed[Len(got) + 1 + i]
  <2>1. i \in 1..RingSize-1 /\ i + 1 \in 1..Waiting  BY <1>9
  <2>2. (((key_read + 1) % RingSize) + i - 1) % RingSize
          = (key_read + (i + 1) - 1) % RingSize
    BY ONLY <1>9, <2>1, RingShift
  <2>3. key_buffer[(key_read + (i + 1) - 1) % RingSize]
          = typed[Len(got) + NFetched + (i + 1)]
    BY <2>1 DEF OrderInv
  <2>4. Len(got) + NFetched + (i + 1) = Len(got) + 1 + i
    BY <1>2, CountFacts
  <2> QED BY ONLY <1>6, <2>2, <2>3, <2>4, Zenon
<1>12. key_buffer[key_read] = typed[Len(got) + 1]
  <2>1. 1 \in 1..Waiting /\ 1 \in 1..RingSize-1  BY <1>9
  <2>2. (key_read + 1 - 1) % RingSize = key_read  BY ONLY <1>9, <2>1, RingShift
  <2>3. key_buffer[(key_read + 1 - 1) % RingSize] = typed[Len(got) + NFetched + 1]
    BY <2>1 DEF OrderInv
  <2>4. Len(got) + NFetched + 1 = Len(got) + 1  BY <1>2, CountFacts
  <2> QED BY ONLY <2>2, <2>3, <2>4, Zenon
<1>13. /\ NComing' = NComing
       /\ \A g : InHand(g)' = InHand(g)
       /\ \A g : Brings(g)' <=> Brings(g)
  BY <1>6, <1>7, SameComing
<1>14. HandlerInv'  BY <1>6, <1>7, HandlerKept
<1>15. Frames' = Frames  BY DEF Frames
<1>16. OrderInv'
  <2>1. OrderInv  OBVIOUS
  <2>2. Len(typed) = Len(got) + 1 + (Waiting - 1) + NComing
    BY <1>2, <1>9, CountFacts DEF OrderInv
  <2>3. \A g \in Frames : Fetches(g)' => key_buffer'[g.index] = typed'[Len(got') + 1]
    BY <1>5, <1>6, <1>7, <1>12 DEF Fetches
  <2>4. \A i \in 1..Waiting' :
          key_buffer'[(key_read' + i - 1) % RingSize] = typed'[Len(got') + NFetched' + i]
    BY <1>6, <1>8, <1>10, <1>11
  <2> QED BY <1>6, <1>8, <1>10, <1>13, <1>15, <2>1, <2>2, <2>3, <2>4 DEF OrderInv
<1>17. CallInv'  BY <1>3, <1>5, <1>6, <1>7, <1>8, <1>15 DEF CallInv
<1>18. KeyTypeOK'  BY <1>6, <1>7, <1>10 DEF KeyTypeOK
<1> QED BY <1>7, <1>14, <1>16, <1>17, <1>18

\* The shell has the key.
LEMMA GetFetchKeeps ==
  ASSUME Unhurried, KeyInv, GetFetch
  PROVE  KeyInv'
<1> USE DEF KeyInv
<1>1. PICK h \in Frames : h = Top /\ h.pc = "fetch" /\ \A g : Calls(g) <=> g = h
  <2>1. "fetch" \in SysPc /\ At("fetch")  BY DEF SysPc, GetFetch
  <2> QED BY <2>1, TopIs, CallOnTop
<1>2. NFetched = 1 /\ Fetches(h)  BY <1>1, FetchedIs DEF Fetches
<1>3. key_buffer[h.index] = typed[Len(got) + 1] /\ key_buffer[h.index] \in Codes
  <2>1. h.index \in 0..RingSize-1  BY DEF Frames, Slots
  <2> QED BY <1>2, <2>1 DEF OrderInv, KeyTypeOK
<1>4. /\ UNCHANGED <<ring, port, running, arrived, typed>>
      /\ At("fetch") /\ "fetch" \in SysPc /\ Return
      /\ got' = Append(got, key_buffer[h.index]) /\ poll' = "haskey"
  BY <1>1 DEF GetFetch, SysPc
<1>5. /\ cont' \in [Processes -> Seq(Frames)] /\ ContInv'
      /\ \A g : Handles(g)' <=> Handles(g)
      /\ \A g : ~Calls(g)'
  BY <1>4, CallReturns
<1>6. NFetched' = 0 /\ \A g : ~Fetches(g)'  BY <1>5, NoneFetched DEF Fetches
<1>7. /\ got' \in Seq(Codes) /\ Len(got') = Len(got) + 1
      /\ \A i \in 1..Len(got) : got'[i] = got[i]
      /\ got'[Len(got) + 1] = typed[Len(got) + 1]
  <2>1. got \in Seq(Codes)  BY DEF KeyTypeOK
  <2> QED BY <1>3, <1>4, <2>1, AppendProperties
<1>8. /\ NComing' = NComing
      /\ \A g : InHand(g)' = InHand(g)
      /\ \A g : Brings(g)' <=> Brings(g)
  BY <1>4, <1>5, SameComing
<1>9. HandlerInv'  BY <1>4, <1>5, HandlerKept DEF ring
<1>10. Waiting' = Waiting  BY <1>4 DEF Waiting, ring
<1>11. Frames' = Frames  BY DEF Frames
<1>12. OrderInv'
  <2>1. OrderInv  OBVIOUS
  <2>2. /\ Len(typed) = (Len(got) + 1) + 0 + Waiting + NComing
        /\ Len(typed) - (Len(got) + 1) <= MaxUnread
    BY <1>2, CountFacts DEF OrderInv
  <2>3. \A i \in 1..Len(got') : got'[i] = typed[i]
    <3> TAKE i \in 1..Len(got')
    <3>1. CASE i = Len(got) + 1  BY <1>7, <3>1
    <3>2. CASE i # Len(got) + 1
      <4>1. i \in 1..Len(got)  BY <1>7, <3>2, CountFacts
      <4> QED BY <1>7, <4>1 DEF OrderInv
    <3> QED BY <3>1, <3>2
  <2>4. \A i \in 1..Waiting :
          key_buffer[(key_read + i - 1) % RingSize] = typed[(Len(got) + 1) + 0 + i]
    <3> TAKE i \in 1..Waiting
    <3>1. Len(got) + NFetched + i = (Len(got) + 1) + 0 + i  BY <1>2, CountFacts
    <3> QED BY <3>1 DEF OrderInv
  <2> QED BY <1>4, <1>6, <1>7, <1>8, <1>10, <1>11, <2>1, <2>2, <2>3, <2>4
          DEF OrderInv, ring
<1>13. CallInv'  BY <1>4, <1>5 DEF CallInv
<1>14. KeyTypeOK'  BY <1>4, <1>5, <1>7 DEF KeyTypeOK, ring
<1> QED BY <1>5, <1>9, <1>12, <1>13, <1>14

-----------------------------------------------------------------------------
(* The keyboard, the ticks and the start.                                    *)

\* No handler is unfinished when the next one is entered.
LEMMA NoHandler ==
  ASSUME Unhurried, ContInv, Cardinality(KeyHandlers) < MaxHandlers
  PROVE  KeyHandlers = {}
<1> SUFFICES ASSUME NEW x \in KeyHandlers PROVE FALSE  OBVIOUS
<1>1. KeyHandlers = {x}  BY DEF ContInv
<1>2. Cardinality(KeyHandlers) = 1  BY <1>1, FS_Singleton
<1> QED BY <1>2 DEF Unhurried

LEMMA KeyIrqKeeps ==
  ASSUME Unhurried, KeyInv, KeyIrq
  PROVE  KeyInv'
<1> USE DEF KeyInv
<1>1. /\ arrived < MaxKeys /\ Len(typed) - Len(got) < MaxUnread
      /\ Cardinality(KeyHandlers) < MaxHandlers
      /\ arrived' = arrived + 1 /\ port' = arrived'
      /\ typed' \in {typed, Append(typed, arrived')}
      /\ Call("inb")
      /\ UNCHANGED <<ring, running, poll, got>>
  BY DEF KeyIrq
<1>2. KeyHandlers = {}  BY <1>1, NoHandler
<1>3. PICK f : f = Activation("inb")  OBVIOUS
<1>4. f \in Frames /\ f.pc = "inb"
  BY <1>3, KeyboardAssumption DEF Activation, Frames, Pcs, Slots, Handling, Codes, None
<1>5. /\ cont' \in [Processes -> Seq(Frames)] /\ ContInv'
      /\ \A g : Handles(g)' <=> g = f
      /\ \A g : Calls(g)' <=> Calls(g)
      /\ \A g : ~Handles(g)
  BY <1>1, <1>2, <1>3, HandlerEnters
<1>6. NFetched' = NFetched /\ \A g : Fetches(g)' <=> Fetches(g)
  BY <1>5, SameFetched
<1>7. NComing = 0  BY <1>5, NoneComing
<1>8. arrived \in Nat /\ arrived' \in Codes \ {None} /\ arrived' > arrived
  BY <1>1, KeyboardAssumption DEF KeyTypeOK, Codes, None
<1>9. Waiting' = Waiting /\ Frames' = Frames  BY <1>1 DEF Waiting, ring, Frames
<1>10. InHand(f)' = IF arrived' \in Range(typed') THEN arrived' ELSE None
  BY <1>1, <1>4 DEF InHand, Mapped
<1>11. typed \in Seq(Codes \ {None}) /\ Len(typed) \in Nat
       /\ DOMAIN typed = 1..Len(typed)
  BY LenProperties DEF KeyTypeOK
<1>12. CallInv'
  <2>1. CallInv  OBVIOUS
  <2>2. UNCHANGED <<key_read, key_write, poll>>  BY <1>1 DEF ring
  <2> QED BY <1>5, <2>2, CallKept
<1>13. HandlerInv'
  <2>1. port' # None  BY <1>1, <1>8
  <2> QED BY <1>4, <1>5, <2>1 DEF HandlerInv
<1>14. typed' \in Seq(Codes \ {None}) /\ OrderInv'
  <2>1. CASE typed' = typed
    <3>1. arrived' \notin Range(typed)
      <4>1. \A i \in 1..Len(typed) : typed[i] \in Nat /\ typed[i] <= arrived
        <5>1. \A i \in 1..Len(typed) : typed[i] \in Codes  BY <1>11, ElementOfSeq
        <5> QED BY <5>1, KeyboardAssumption DEF OrderInv, Codes
      <4>2. \A i \in 1..Len(typed) : typed[i] # arrived'  BY <1>8, <4>1
      <4> QED BY <1>11, <4>2 DEF Range
    <3>2. InHand(f)' = None  BY <1>10, <2>1, <3>1
    <3>3. NComing' = 0  BY <1>4, <1>5, <3>2, ComingIs
    <3>4. \A g : ~Brings(g)'  BY <1>5, <3>2 DEF Brings
    <3>5. \A i \in 1..Len(typed) : typed[i] <= arrived'
      <4>1. \A i \in 1..Len(typed) : typed[i] \in Codes  BY <1>11, ElementOfSeq
      <4>2. \A i \in 1..Len(typed) : typed[i] <= arrived  BY DEF OrderInv
      <4> QED BY <1>8, <4>1, <4>2, KeyboardAssumption DEF Codes
    <3>6. OrderInv  OBVIOUS
    <3>7. OrderInv'
      BY <1>1, <1>6, <1>7, <1>9, <2>1, <3>3, <3>4, <3>5, <3>6 DEF OrderInv, ring
    <3> QED BY <1>11, <2>1, <3>7
  <2>2. CASE typed' = Append(typed, arrived')
    <3>1. PICK a : a = arrived'  OBVIOUS
    <3>2. /\ typed' \in Seq(Codes \ {None}) /\ Len(typed') = Len(typed) + 1
          /\ \A i \in 1..Len(typed) : typed'[i] = typed[i]
          /\ typed'[Len(typed) + 1] = a
      <4>1. a \in Codes \ {None} /\ typed' = Append(typed, a)  BY <1>8, <2>2, <3>1
      <4> QED BY <1>11, <4>1, AppendProperties
    <3>3. arrived' \in Range(typed')
      <4>1. DOMAIN typed' = 1..Len(typed)+1  BY <3>2, LenProperties
      <4>2. Len(typed) + 1 \in 1..Len(typed)+1  BY <1>11
      <4> QED BY <3>1, <3>2, <4>1, <4>2 DEF Range
    <3>4. InHand(f)' = arrived' /\ arrived' # None  BY <1>8, <1>10, <3>3
    <3>5. NComing' = 1  BY <1>4, <1>5, <3>4, ComingIs
    <3>6. \A g \in Frames : Brings(g)' => InHand(g)' = typed'[Len(typed')]
      BY <1>5, <3>1, <3>2, <3>4 DEF Brings
    <3>7. \A i \in 1..Len(typed') : typed'[i] <= arrived'
      <4> TAKE i \in 1..Len(typed')
      <4>1. CASE i = Len(typed) + 1
        <5>1. typed'[i] = arrived' /\ arrived' \in Nat  BY <1>1, <1>8, <3>1, <3>2, <4>1
        <5> QED BY <5>1
      <4>2. CASE i # Len(typed) + 1
        <5>1. i \in 1..Len(typed)  BY <1>11, <3>2, <4>2
        <5>2. typed[i] \in Codes /\ typed[i] <= arrived
          BY <1>11, <5>1, ElementOfSeq DEF OrderInv
        <5> QED BY <1>8, <3>2, <5>1, <5>2, KeyboardAssumption DEF Codes
      <4> QED BY <4>1, <4>2
    <3>8. OrderInv  OBVIOUS
    <3>9. /\ Len(typed) = Len(got) + NFetched + Waiting
          /\ Len(typed') = Len(got) + NFetched + Waiting + 1
          /\ Len(typed') - Len(got) <= MaxUnread
      <4>1. Len(typed) = Len(got) + NFetched + Waiting  BY <1>7, CountFacts DEF OrderInv
      <4> QED BY <1>1, <3>2, <4>1, CountFacts
    <3>10. \A i \in 1..Len(got) : got[i] = typed'[i]
      <4> TAKE i \in 1..Len(got)
      <4>1. i \in 1..Len(typed)  BY <3>9, CountFacts
      <4> QED BY <3>2, <4>1 DEF OrderInv
    <3>11. \A g \in Frames : Fetches(g) => key_buffer[g.index] = typed'[Len(got) + 1]
      <4> TAKE g \in Frames
      <4> HAVE Fetches(g)
      <4>1. NFetched = 1  BY DEF NFetched
      <4>2. Len(got) + 1 \in 1..Len(typed)  BY <3>9, <4>1, CountFacts
      <4> QED BY <3>2, <4>2 DEF OrderInv
    <3>12. \A i \in 1..Waiting :
             key_buffer[(key_read + i - 1) % RingSize] = typed'[Len(got) + NFetched + i]
      <4> TAKE i \in 1..Waiting
      <4>1. Len(got) + NFetched + i \in 1..Len(typed)
        <5>1. /\ Len(got) \in Nat /\ NFetched \in Nat /\ Waiting \in Nat
              /\ i \in 1..Waiting
          BY CountFacts
        <5>2. Len(typed) = Len(got) + NFetched + Waiting  BY <3>9
        <5> QED BY ONLY <5>1, <5>2
      <4> QED BY <3>2, <4>1 DEF OrderInv
    <3>13. OrderInv'
      BY <1>1, <1>6, <1>9, <3>5, <3>6, <3>7, <3>9, <3>10, <3>11, <3>12 DEF OrderInv, ring
    <3> QED BY <3>2, <3>13
  <2> QED BY <1>1, <2>1, <2>2
<1>15. KeyTypeOK'  BY <1>1, <1>5, <1>8, <1>14 DEF KeyTypeOK, ring
<1> QED BY <1>5, <1>12, <1>13, <1>14, <1>15

\* A tick, or a step of nothing at all.
LEMMA TickKeeps ==
  ASSUME KeyInv, running' \in Processes,
         UNCHANGED <<ring, port, cont, poll, arrived, typed, got>>
  PROVE  KeyInv'
<1>1. KeyHandlers' = KeyHandlers  BY DEF KeyHandlers, Handling
<1>2. \A g : Handles(g)' <=> Handles(g)  BY <1>1 DEF Handles
<1>3. \A g : Calls(g)' <=> Calls(g)  BY DEF Calls, SysPc
<1>4. NFetched' = NFetched /\ \A g : Fetches(g)' <=> Fetches(g)
  BY <1>3, SameFetched
<1>5. /\ NComing' = NComing
      /\ \A g : InHand(g)' = InHand(g)
      /\ \A g : Brings(g)' <=> Brings(g)
  BY <1>2, SameComing
<1>6. OrderInv'
  BY <1>4, <1>5, OrderKept DEF ring, KeyInv, OrderInv
<1>7. CallInv'  BY <1>3, CallKept DEF ring
<1>8. HandlerInv'  BY <1>2, HandlerKept DEF ring
<1>9. ContInv'  BY <1>1 DEF ContInv, KeyInv
<1>10. KeyTypeOK'  BY DEF KeyTypeOK, KeyInv, ring
<1> QED BY <1>6, <1>7, <1>8, <1>9, <1>10 DEF KeyInv

LEMMA KeyInit ==
  ASSUME Unhurried, Init
  PROVE  KeyInv
<1>1. \A p \in Processes : cont[p] = <<>> /\ Len(cont[p]) = 0  BY DEF Init
<1>2. KeyTypeOK
  BY KeyboardAssumption DEF Init, KeyTypeOK, Codes, None
<1>3. KeyHandlers = {}  BY <1>1 DEF Init, KeyHandlers
<1>4. ContInv
  <2>1. \A p \in Processes : Len(cont[p]) <= 2 /\ \A i \in 1..2 : ~(i <= Len(cont[p]))
    BY <1>1
  <2> QED BY <1>3, <2>1 DEF ContInv
<1>5. \A g : ~Handles(g)  BY <1>3 DEF Handles
<1>6. \A g : ~Calls(g)
  <2>1. Len(cont[Shell]) = 0  BY <1>1, KeyboardAssumption
  <2> QED BY <2>1 DEF Calls
<1>7. NComing = 0 /\ NFetched = 0  BY <1>5, <1>6, NoneComing, NoneFetched
<1>8. Waiting = 0  BY <1>2, CountFacts DEF Init
<1>9. OrderInv
  BY <1>5, <1>6, <1>7, <1>8, KeyboardAssumption DEF OrderInv, Fetches, Brings, Init
<1>10. HandlerInv /\ CallInv  BY <1>5, <1>6 DEF HandlerInv, CallInv, Init
<1> QED BY <1>2, <1>4, <1>9, <1>10 DEF KeyInv

LEMMA KeyStep ==
  ASSUME Unhurried, KeyInv, [Next]_vars
  PROVE  KeyInv'
<1>1. CASE KeyIrq  BY <1>1, KeyIrqKeeps
<1>2. CASE Tick
  <2>1. running' \in Processes  BY <1>2 DEF Tick
  <2> QED BY <1>2, <2>1, TickKeeps DEF Tick
<1>3. ASSUME NEW p \in Processes, Step(p) PROVE KeyInv'
  <2>1. CASE HandlerStep
    BY <2>1, ReadPortKeeps, LoadWriteKeeps, StoreKeyKeeps, AdvanceWriteKeeps
    DEF HandlerStep
  <2>2. CASE SyscallStep
    BY <2>2, HasKeyKeeps, GetEmptyKeeps, GetTakeKeeps, GetFetchKeeps DEF SyscallStep
  <2>3. CASE SysHasKey \/ SysGetKey  BY <2>3, SysHasKeyKeeps, SysGetKeyKeeps
  <2> QED BY <1>3, <2>1, <2>2, <2>3 DEF Step
<1>4. CASE UNCHANGED vars
  <2>1. running' \in Processes  BY <1>4 DEF KeyInv, KeyTypeOK, vars
  <2> QED BY <1>4, <2>1, TickKeeps DEF vars
<1> QED BY <1>1, <1>2, <1>3, <1>4 DEF Next

\* The ring between key_read and key_write holds the unread keys in order.
THEOREM KeyInvHolds == ASSUME Unhurried PROVE Spec => []KeyInv
<1>1. Init => KeyInv  BY KeyInit
<1>2. KeyInv /\ [Next]_vars => KeyInv'  BY KeyStep
<1> QED BY <1>1, <1>2, PTL DEF Spec

-----------------------------------------------------------------------------
(* Where the invariant places the keys                                       *)

LEMMA FetchingIs ==
  ASSUME Unhurried, KeyInv
  PROVE  /\ Fetching \in Seq(Codes) /\ Len(Fetching) = NFetched
         /\ \A i \in 1..NFetched : Fetching[i] = typed[Len(got) + i]
<1> USE DEF KeyInv
<1> DEFINE s == cont[Shell]
           d == {i \in DOMAIN s : s[i].pc = "fetch"}
<1>1. /\ Shell \in Processes /\ s \in Seq(Frames)
      /\ Len(s) \in Nat /\ Len(s) <= 2 /\ DOMAIN s = 1..Len(s)
  BY KeyboardAssumption, LenProperties DEF KeyTypeOK, ContInv
<1>2. ASSUME NEW i \in d PROVE i = 1
  <2>1. i \in 1..2 /\ i <= Len(s) /\ s[i].pc \in SysPc  BY <1>1 DEF SysPc
  <2> QED BY <1>1, <2>1 DEF ContInv
<1>3. CASE d = {}
  <2>1. \A f : ~Fetches(f)
    <3>1. ASSUME NEW f, Fetches(f) PROVE 1 \in d  BY <1>1, <3>1 DEF Fetches, Calls
    <3> QED BY <1>3, <3>1
  <2>2. NFetched = 0  BY <2>1 DEF NFetched
  <2>3. Fetching = <<>>  BY <1>3 DEF Fetching
  <2>4. \A i \in 1..0 : FALSE  OBVIOUS
  <2> QED BY <2>2, <2>3, <2>4
<1>4. CASE d # {}
  <2>1. d = {1}  BY <1>2, <1>4
  <2>2. (CHOOSE i \in d : TRUE) = 1  BY <2>1
  <2>3. PICK f : f = s[1]  OBVIOUS
  <2>4. Fetching = <<key_buffer[f.index]>>  BY <1>4, <2>2, <2>3 DEF Fetching
  <2>5. 1 \in DOMAIN s /\ f.pc = "fetch" /\ f \in Frames
    BY <1>1, <2>1, <2>3, ElementOfSeq
  <2>6. Fetches(f)  BY <1>1, <2>3, <2>5 DEF Fetches, Calls, SysPc
  <2>7. NFetched = 1  BY <2>5, <2>6 DEF NFetched
  <2>8. key_buffer[f.index] = typed[Len(got) + 1]  BY <2>5, <2>6 DEF OrderInv
  <2>9. key_buffer[f.index] \in Codes
    <3>1. f.index \in 0..RingSize-1  BY <2>5 DEF Frames, Slots
    <3> QED BY <3>1 DEF KeyTypeOK
  <2>10. \A i \in 1..1 : i = 1  OBVIOUS
  <2>11. PICK k : k = key_buffer[f.index]  OBVIOUS
  <2>12. <<k>> \in Seq(Codes) /\ Len(<<k>>) = 1 /\ <<k>>[1] = k  BY <2>9, <2>11
  <2> QED BY <2>4, <2>7, <2>8, <2>10, <2>11, <2>12
<1> QED BY <1>3, <1>4

LEMMA IncomingIs ==
  ASSUME Unhurried, KeyInv
  PROVE  /\ Incoming \in Seq(Codes) /\ Len(Incoming) = NComing
         /\ \A i \in 1..NComing : Incoming[i] = typed[Len(typed)]
<1> USE DEF KeyInv
<1>1. CASE KeyHandlers = {}
  <2>1. \A f : ~Handles(f)  BY <1>1 DEF Handles
  <2>2. NComing = 0  BY <2>1, NoneComing
  <2>3. Incoming = <<>>  BY <1>1 DEF Incoming
  <2>4. \A i \in 1..0 : FALSE  OBVIOUS
  <2> QED BY <2>2, <2>3, <2>4
<1>2. CASE KeyHandlers # {}
  <2>1. PICK x : x = CHOOSE y \in KeyHandlers : TRUE  OBVIOUS
  <2>2. x \in KeyHandlers  BY <1>2, <2>1
  <2>3. PICK f : f = cont[x[1]][x[2]]  OBVIOUS
  <2>4. Handles(f)  BY <2>2, <2>3 DEF Handles
  <2>5. f \in Frames /\ \A g : Handles(g) <=> g = f  BY <2>4, Holders
  <2>6. Incoming = IF InHand(f) = None THEN <<>> ELSE <<InHand(f)>>
    BY <1>2, <2>1, <2>3 DEF Incoming, InHand
  <2>7. NComing = IF InHand(f) # None THEN 1 ELSE 0  BY <2>5, ComingIs
  <2>8. InHand(f) \in Codes
    <3>1. f.char \in Codes /\ port \in Codes /\ None \in Codes
      BY <2>5, KeyboardAssumption DEF Frames, KeyTypeOK, Codes, None
    <3> QED BY <3>1 DEF InHand, Mapped
  <2>9. CASE InHand(f) = None
    <3>1. \A i \in 1..0 : FALSE  OBVIOUS
    <3> QED BY <2>6, <2>7, <2>9, <3>1
  <2>10. CASE InHand(f) # None
    <3>1. InHand(f) = typed[Len(typed)]  BY <2>4, <2>5, <2>10 DEF Brings, OrderInv
    <3>2. PICK k : k = InHand(f)  OBVIOUS
    <3>3. <<k>> \in Seq(Codes) /\ Len(<<k>>) = 1 /\ <<k>>[1] = k  BY <2>8, <3>2
    <3>4. \A i \in 1..1 : i = 1  OBVIOUS
    <3> QED BY <2>6, <2>7, <2>10, <3>1, <3>2, <3>3, <3>4
  <2> QED BY <2>9, <2>10
<1> QED BY <1>1, <1>2

LEMMA InRingIs ==
  ASSUME Unhurried, KeyInv
  PROVE  /\ InRing \in Seq(Codes) /\ Len(InRing) = Waiting
         /\ \A i \in 1..Waiting : InRing[i] = typed[Len(got) + NFetched + i]
<1> USE DEF KeyInv
<1>1. Waiting \in Nat /\ RingSize \in Nat /\ RingSize > 1  BY CountFacts
<1>2. InRing = [i \in 1..Waiting |-> key_buffer[(key_read + i - 1) % RingSize]]
  BY DEF InRing, Waiting
<1>3. ASSUME NEW i \in 1..Waiting
      PROVE  key_buffer[(key_read + i - 1) % RingSize] \in Codes
  <2>1. (key_read + i - 1) % RingSize \in 0..RingSize-1
    <3>1. key_write \in 0..RingSize-1 /\ key_read \in 0..RingSize-1  BY DEF KeyTypeOK
    <3>2. i \in 1..(key_write - key_read) % RingSize  BY DEF Waiting
    <3> QED BY ONLY <1>1, <3>1, <3>2, RingSlots
  <2> QED BY <2>1 DEF KeyTypeOK
<1>4. InRing \in Seq(Codes)
  <2>1. InRing \in [1..Waiting -> Codes]  BY <1>2, <1>3
  <2> QED BY <1>1, <2>1
<1>5. Len(InRing) = Waiting  BY <1>1, <1>2, <1>4, LenProperties
<1>6. \A i \in 1..Waiting : InRing[i] = typed[Len(got) + NFetched + i]
  BY <1>2 DEF OrderInv
<1> QED BY <1>4, <1>5, <1>6

\* s is what follows the first n keys typed.
Follows(s, n) == s \in Seq(Codes) /\ \A i \in 1..Len(s) : s[i] = typed[n + i]

LEMMA FollowsConcat ==
  ASSUME NEW a, NEW b, Follows(a, 0), Follows(b, Len(a))
  PROVE  Follows(a \o b, 0) /\ Len(a \o b) = Len(a) + Len(b)
<1>1. /\ a \in Seq(Codes) /\ b \in Seq(Codes)
      /\ \A i \in 1..Len(a) : a[i] = typed[0 + i]
      /\ \A i \in 1..Len(b) : b[i] = typed[Len(a) + i]
  BY DEF Follows
<1>2. Len(a) \in Nat /\ Len(b) \in Nat  BY <1>1, LenProperties
<1>3. /\ a \o b \in Seq(Codes) /\ Len(a \o b) = Len(a) + Len(b)
      /\ \A i \in 1..Len(a) + Len(b) :
           (a \o b)[i] = IF i <= Len(a) THEN a[i] ELSE b[i - Len(a)]
  BY <1>1, ConcatProperties
<1>4. ASSUME NEW i \in 1..Len(a) + Len(b) PROVE (a \o b)[i] = typed[0 + i]
  <2>1. CASE i <= Len(a)
    <3>1. i \in 1..Len(a)  BY <1>2, <2>1
    <3> QED BY <1>1, <1>3, <2>1, <3>1
  <2>2. CASE ~(i <= Len(a))
    <3>1. PICK j : j = i - Len(a)  OBVIOUS
    <3>2. j \in 1..Len(b) /\ Len(a) + j = 0 + i  BY <1>2, <2>2, <3>1
    <3> QED BY <1>1, <1>3, <2>2, <3>1, <3>2
  <2> QED BY <2>1, <2>2
<1> QED BY <1>3, <1>4 DEF Follows

LEMMA KeyInvInOrder ==
  ASSUME Unhurried, KeyInv
  PROVE  InOrder
<1>1. /\ got \in Seq(Codes) /\ typed \in Seq(Codes)
      /\ \A i \in 1..Len(got) : got[i] = typed[i]
      /\ Len(typed) = Len(got) + NFetched + Waiting + NComing
  <2>1. typed \in Seq(Codes)
    <3>1. typed \in Seq(Codes \ {None})  BY DEF KeyInv, KeyTypeOK
    <3> QED BY <3>1
  <2> QED BY <2>1 DEF KeyInv, KeyTypeOK, OrderInv
<1>2. /\ Len(got) \in Nat /\ NFetched \in Nat /\ Waiting \in Nat /\ NComing \in 0..1
  BY CountFacts DEF KeyInv
<1>3. PICK a : a = got \o Fetching  OBVIOUS
<1>4. PICK b : b = a \o InRing  OBVIOUS
<1>5. PICK c : c = b \o Incoming  OBVIOUS
<1>6. Follows(a, 0) /\ Len(a) = Len(got) + NFetched
  <2>1. Follows(got, 0)  BY <1>1, <1>2 DEF Follows
  <2>2. Follows(Fetching, Len(got)) /\ Len(Fetching) = NFetched
    BY FetchingIs DEF Follows
  <2> QED BY <1>3, <2>1, <2>2, FollowsConcat
<1>7. Follows(b, 0) /\ Len(b) = Len(got) + NFetched + Waiting
  <2>1. Follows(InRing, Len(a)) /\ Len(InRing) = Waiting
    BY <1>6, InRingIs DEF Follows
  <2> QED BY <1>4, <1>6, <2>1, FollowsConcat
<1>8. Follows(c, 0) /\ Len(c) = Len(typed)
  <2>1. /\ Incoming \in Seq(Codes) /\ Len(Incoming) = NComing
        /\ \A i \in 1..Len(Incoming) : Incoming[i] = typed[Len(typed)]
    BY IncomingIs
  <2>2. \A i \in 1..Len(Incoming) : Incoming[i] = typed[Len(b) + i]
    <3> TAKE i \in 1..Len(Incoming)
    <3>1. i = 1 /\ NComing = 1  BY <1>2, <2>1
    <3>2. Len(b) + i = Len(typed)  BY <1>1, <1>7, <3>1
    <3> QED BY <2>1, <3>2
  <2>3. Follows(Incoming, Len(b))  BY <2>1, <2>2 DEF Follows
  <2> QED BY <1>1, <1>5, <1>7, <2>1, <2>3, FollowsConcat
<1>9. c = typed
  <2>1. c \in Seq(Codes) /\ \A i \in 1..Len(c) : c[i] = typed[i]
    <3>1. c \in Seq(Codes) /\ \A i \in 1..Len(c) : c[i] = typed[0 + i]
      BY <1>8 DEF Follows
    <3> QED BY <3>1
  <2> QED BY <1>1, <1>8, <2>1, SeqEqual
<1> QED BY <1>3, <1>4, <1>5, <1>9 DEF InOrder

\* Keyboard.InOrder: every key typed is delivered once and in order, and until
\* then it is in the handler, in the ring or being fetched, whatever the ticks
\* cut in two (keyboard.c:17-50, user_main.c).
THEOREM InOrderHolds == ASSUME Unhurried PROVE Spec => []InOrder
<1>1. KeyInv => InOrder  BY KeyInvInOrder
<1> QED BY <1>1, KeyInvHolds, PTL

-----------------------------------------------------------------------------
(* The shell                                                                 *)

\* A display between two drawing operations: the row of the cursor is on the
\* screen and the rows below it are blank.
Drawable(d) ==
  /\ DOMAIN d = {"y", "text"}
  /\ d.y \in Rows /\ d.y + CHAR_HEIGHT <= ScreenHeight
  /\ DOMAIN d.text = Rows /\ d.text = [y \in Rows |-> d.text[y]]
  /\ \A y \in Rows : y > d.y => d.text[y] = BlankRow

\* buf holds a string of n characters.
Holds(buf, n) ==
  /\ buf \in [0..SHELL_MAX_INPUT-1 -> Letters \cup {Nul}]
  /\ n \in 0..SHELL_MAX_INPUT-1
  /\ buf[n] = Nul
  /\ \A i \in 0..n-1 : buf[i] # Nul

ShellInv == Drawable(Display) /\ Holds(input, input_len) /\ LineShown

-----------------------------------------------------------------------------
(* The screen                                                                *)

LEMMA FirstRow == SHELL_Y \in Rows /\ SHELL_Y + CHAR_HEIGHT <= ScreenHeight
<1>1. /\ SHELL_Y \in Nat /\ CHAR_HEIGHT \in Nat \ {0} /\ ScreenHeight \in Nat
      /\ SHELL_Y + CHAR_HEIGHT <= ScreenHeight
  BY ShellAssumption
<1>2. (SHELL_Y - SHELL_Y) % CHAR_HEIGHT = 0
  <2>1. PICK a \in Nat : a = SHELL_Y - SHELL_Y /\ a = 0  BY <1>1
  <2>2. a % CHAR_HEIGHT = 0  BY <1>1, <2>1, Remainder
  <2> QED BY <2>1, <2>2
<1> QED BY <1>1, <1>2 DEF Rows

LEMMA NextRow ==
  ASSUME NEW r \in Rows, r + CHAR_HEIGHT <= ScreenHeight - CHAR_HEIGHT
  PROVE  r + CHAR_HEIGHT \in Rows /\ r + CHAR_HEIGHT + CHAR_HEIGHT <= ScreenHeight
<1>1. SHELL_Y \in Nat /\ CHAR_HEIGHT \in Nat \ {0} /\ ScreenHeight \in Nat
  BY ShellAssumption
<1>2. r \in SHELL_Y..ScreenHeight-1 /\ (r - SHELL_Y) % CHAR_HEIGHT = 0
  BY DEF Rows
<1>3. PICK a \in Nat : a = r - SHELL_Y  BY <1>1, <1>2
<1>4. (a + CHAR_HEIGHT) % CHAR_HEIGHT = 0  BY <1>1, <1>2, <1>3, RemainderTurn
<1>5. (r + CHAR_HEIGHT) - SHELL_Y = a + CHAR_HEIGHT  BY <1>1, <1>2, <1>3
<1>6. ((r + CHAR_HEIGHT) - SHELL_Y) % CHAR_HEIGHT = 0  BY <1>4, <1>5
<1>7. /\ r + CHAR_HEIGHT \in SHELL_Y..ScreenHeight-1
      /\ r + CHAR_HEIGHT + CHAR_HEIGHT <= ScreenHeight
  BY <1>1, <1>2
<1> QED BY <1>6, <1>7 DEF Rows

\* Drawing into the row of the cursor, whatever is drawn.
LEMMA DrawDrawable ==
  ASSUME NEW d, Drawable(d), NEW row, NEW e, e = [d EXCEPT !.text[d.y] = row]
  PROVE  Drawable(e) /\ e.y = d.y /\ e.text[e.y] = row
<1>1. d.y \in Rows /\ DOMAIN d = {"y", "text"}  BY DEF Drawable
<1>2. DOMAIN e = {"y", "text"} /\ e.y = d.y /\ e.text = [d.text EXCEPT ![d.y] = row]
  BY <1>1
<1>3. /\ d.y + CHAR_HEIGHT <= ScreenHeight
      /\ DOMAIN d.text = Rows /\ d.text = [y \in Rows |-> d.text[y]]
      /\ \A y \in Rows : y > d.y => d.text[y] = BlankRow
  BY DEF Drawable
<1>4. d.y \in Int  BY <1>1, ShellAssumption DEF Rows
<1>5. /\ DOMAIN e.text = Rows /\ e.text[d.y] = row
      /\ \A y \in Rows : y # d.y => e.text[y] = d.text[y]
  BY <1>1, <1>2, <1>3
<1>6. e.text = [y \in Rows |-> e.text[y]]  BY <1>1, <1>2, <1>3
<1>7. \A y \in Rows : y > e.y => e.text[y] = BlankRow
  BY <1>2, <1>3, <1>4, <1>5
<1> QED BY <1>1, <1>2, <1>3, <1>5, <1>6, <1>7 DEF Drawable

LEMMA ClearDrawable ==
  ASSUME NEW d, DOMAIN d = {"y", "text"}, NEW e, e = [clear_screen(d) EXCEPT !.y = SHELL_Y]
  PROVE  Drawable(e)
<1>1. /\ DOMAIN e = {"y", "text"} /\ e.y = SHELL_Y
      /\ e.text = [y \in Rows |-> BlankRow]
  BY DEF clear_screen
<1> QED BY <1>1, FirstRow DEF Drawable

LEMMA NewlineDrawable ==
  ASSUME NEW d, Drawable(d)
  PROVE  Drawable(shell_newline(d))
<1>1. DOMAIN d = {"y", "text"} /\ d.y \in Rows  BY DEF Drawable
<1>2. d.y \in Int /\ CHAR_HEIGHT \in Nat \ {0} /\ ScreenHeight \in Nat
  BY <1>1, ShellAssumption DEF Rows
<1>3. CASE d.y + CHAR_HEIGHT > ScreenHeight - CHAR_HEIGHT
  BY <1>1, <1>3, ClearDrawable DEF shell_newline
<1>4. CASE d.y + CHAR_HEIGHT <= ScreenHeight - CHAR_HEIGHT
  <2>1. PICK e : e = [d EXCEPT !.y = @ + CHAR_HEIGHT]  OBVIOUS
  <2>2. shell_newline(d) = e  BY <1>2, <1>4, <2>1 DEF shell_newline
  <2>3. DOMAIN e = {"y", "text"} /\ e.y = d.y + CHAR_HEIGHT /\ e.text = d.text
    BY <1>1, <2>1
  <2>4. e.y \in Rows /\ e.y + CHAR_HEIGHT <= ScreenHeight
    BY <1>1, <1>4, <2>3, NextRow
  <2>5. \A y \in Rows : y > e.y => y > d.y
    BY <1>2, <2>3 DEF Rows
  <2>6. Drawable(e)  BY <2>3, <2>4, <2>5 DEF Drawable
  <2> QED BY <2>2, <2>6
<1> QED BY <1>2, <1>3, <1>4

LEMMA PrintDrawable ==
  ASSUME NEW d, Drawable(d), NEW str
  PROVE  Drawable(shell_print(d, str))
<1>1. PICK row : row = draw_string(d.text[d.y], 0, str)  OBVIOUS
<1>2. PICK e : e = [d EXCEPT !.text[d.y] = row]  OBVIOUS
<1>3. Drawable(e)  BY <1>2, DrawDrawable
<1>4. shell_print(d, str) = shell_newline(e)
  BY <1>1, <1>2 DEF shell_print, Drawable
<1> QED BY <1>3, <1>4, NewlineDrawable

LEMMA ExecuteDrawable ==
  ASSUME NEW d, Drawable(d), NEW cmd
  PROVE  Drawable(shell_execute(d, cmd))
<1>1. Drawable([clear_screen(d) EXCEPT !.y = SHELL_Y])
  <2>1. DOMAIN d = {"y", "text"}  BY DEF Drawable
  <2> QED BY <2>1, ClearDrawable, Zenon
<1>2. \A str : Drawable(shell_print(d, str))  BY PrintDrawable
<1>3. \A s, t : Drawable(shell_print(shell_print(d, s), t))  BY <1>2, PrintDrawable
<1> QED BY <1>1, <1>2, <1>3 DEF shell_execute

-----------------------------------------------------------------------------
(* The line                                                                  *)

\* The C string of a buffer ends at its first terminator.
LEMMA StringIs ==
  ASSUME NEW buf, NEW n, Holds(buf, n)
  PROVE  /\ String(buf) \in Seq(Letters) /\ Len(String(buf)) = n
         /\ \A i \in 1..n : String(buf)[i] = buf[i-1]
<1>1. n \in 0..SHELL_MAX_INPUT-1 /\ SHELL_MAX_INPUT \in Nat /\ n \in Nat
  BY ShellAssumption DEF Holds
<1> DEFINE P(k) == buf[k] = Nul /\ \A j \in 0..k-1 : buf[j] # Nul
<1>2. P(n)  BY DEF Holds
<1>3. \A k \in 0..SHELL_MAX_INPUT-1 : P(k) => k = n
  <2> SUFFICES ASSUME NEW k \in 0..SHELL_MAX_INPUT-1, P(k), k # n PROVE FALSE
    OBVIOUS
  <2>1. CASE k < n
    <3>1. k \in 0..n-1  BY <1>1, <2>1
    <3> QED BY <1>2, <3>1
  <2>2. CASE n < k
    <3>1. n \in 0..k-1  BY <1>1, <2>2
    <3> QED BY <1>2, <3>1
  <2> QED BY <1>1, <2>1, <2>2
<1>4. (CHOOSE k \in 0..SHELL_MAX_INPUT-1 : P(k)) = n
  <2> HIDE DEF P
  <2> QED BY <1>1, <1>2, <1>3
<1>5. String(buf) = [i \in 1..n |-> buf[i-1]]  BY <1>4 DEF String
<1>6. ASSUME NEW i \in 1..n PROVE buf[i-1] \in Letters
  <2>1. i - 1 \in 0..n-1 /\ i - 1 \in 0..SHELL_MAX_INPUT-1  BY <1>1
  <2> QED BY <2>1 DEF Holds
<1>7. String(buf) \in [1..n -> Letters]  BY <1>5, <1>6
<1>8. String(buf) \in Seq(Letters)  BY <1>1, <1>7
<1>9. Len(String(buf)) = n
  <2>1. DOMAIN String(buf) = 1..n  BY <1>5
  <2> QED BY <1>1, <1>8, <2>1, LenProperties
<1> QED BY <1>5, <1>8, <1>9

\* The character of the line in column c.
InColumn(buf, c) ==
  LET line == Prompt \o String(buf)
  IN  IF c <= Len(line) THEN line[c] ELSE Blank

LEMMA RedrawShows ==
  ASSUME NEW d, Drawable(d), NEW buf, NEW n, Holds(buf, n),
         NEW e, e = shell_redraw_line(d, buf)
  PROVE  /\ Drawable(e) /\ e.y = d.y
         /\ \A c \in 1..Columns : e.text[e.y][c] = InColumn(buf, c)
<1>1. PICK s : s = String(buf) /\ s \in Seq(Letters) /\ Len(s) \in Nat
  <2>1. String(buf) \in Seq(Letters)  BY StringIs
  <2> QED BY <2>1, LenProperties
<1>2. PICK S : S = STRING \cup Letters  OBVIOUS
<1>3. Prompt \in Seq(S) /\ s \in Seq(S) /\ Len(Prompt) \in Nat /\ Columns \in Nat
  BY <1>1, <1>2, ShellAssumption
<1>4. PICK half : half = draw_string(BlankRow, 0, Prompt)  OBVIOUS
<1>5. PICK row : row = draw_string(half, Len(Prompt), s)  OBVIOUS
<1>6. /\ Len(Prompt \o s) = Len(Prompt) + Len(s)
      /\ \A c \in 1..Len(Prompt) + Len(s) :
           (Prompt \o s)[c] = IF c <= Len(Prompt) THEN Prompt[c] ELSE s[c - Len(Prompt)]
  BY <1>3, ConcatProperties
<1>7. ASSUME NEW c \in 1..Columns
      PROVE  row[c] = InColumn(buf, c)
  <2>1. c \in Nat /\ c >= 1 /\ c - 0 = c  BY <1>3
  <2>2. half[c] = IF c \in 1..Len(Prompt) THEN Prompt[c] ELSE Blank
    BY <1>4, <2>1 DEF draw_string, BlankRow
  <2>3. row[c] = IF c - Len(Prompt) \in 1..Len(s) THEN s[c - Len(Prompt)] ELSE half[c]
    BY <1>5 DEF draw_string
  <2>4. InColumn(buf, c) = IF c <= Len(Prompt) + Len(s) THEN (Prompt \o s)[c] ELSE Blank
    BY <1>1, <1>6 DEF InColumn
  <2>5. CASE c <= Len(Prompt)
    <3>1. ~(c - Len(Prompt) \in 1..Len(s)) /\ c \in 1..Len(Prompt)
          /\ c \in 1..Len(Prompt) + Len(s) /\ c <= Len(Prompt) + Len(s)
      BY <1>1, <1>3, <2>1, <2>5
    <3> QED BY <1>6, <2>2, <2>3, <2>4, <2>5, <3>1
  <2>6. CASE c > Len(Prompt) /\ c <= Len(Prompt) + Len(s)
    <3>1. c - Len(Prompt) \in 1..Len(s) /\ ~(c <= Len(Prompt))
          /\ c \in 1..Len(Prompt) + Len(s)
      BY <1>1, <1>3, <2>1, <2>6
    <3> QED BY <1>6, <2>3, <2>4, <2>6, <3>1
  <2>7. CASE c > Len(Prompt) + Len(s)
    <3>1. /\ ~(c - Len(Prompt) \in 1..Len(s)) /\ ~(c \in 1..Len(Prompt))
          /\ ~(c <= Len(Prompt) + Len(s))
      BY <1>1, <1>3, <2>1, <2>7
    <3> QED BY <2>2, <2>3, <2>4, <3>1
  <2> QED BY <1>1, <1>3, <2>1, <2>5, <2>6, <2>7
<1>8. e = [d EXCEPT !.text[d.y] = row]
  BY <1>1, <1>4, <1>5 DEF shell_redraw_line
<1>9. Drawable(e) /\ e.y = d.y /\ e.text[e.y] = row
  BY ONLY Drawable(d), <1>8, DrawDrawable
<1> QED BY <1>7, <1>9

-----------------------------------------------------------------------------
(* Every key keeps the invariant and is one of the line editor's steps.      *)

\* What a key leaves: a new buffer of n characters, shown on some display d.
LEMMA LineDrawn ==
  ASSUME NEW d, Drawable(d), NEW n, Holds(input', n), input_len' = n,
         Show(shell_redraw_line(d, input'))
  PROVE  ShellInv'
<1>1. PICK buf : buf = input'  OBVIOUS
<1>2. PICK e : e = shell_redraw_line(d, buf)  OBVIOUS
<1>3. Drawable(e) /\ \A c \in 1..Columns : e.text[e.y][c] = InColumn(buf, c)
  BY <1>1, <1>2, RedrawShows
<1>4. cursor_y' = e.y /\ text' = e.text  BY <1>1, <1>2 DEF Show
<1>5. Display'.y = e.y /\ Display'.text = e.text /\ DOMAIN Display' = {"y", "text"}
  BY <1>4 DEF Display
<1>6. \A x : x = Display' => Drawable(x)
  BY <1>3, <1>5 DEF Drawable
<1>7. Drawable(Display)'  BY <1>6 DEF Drawable, Rows, BlankRow, Blank
<1>8. Holds(input, input_len)'  BY DEF Holds, Nul
<1>9. LineShown'
  <2>1. \A c \in 1..Columns : text'[cursor_y'][c] = InColumn(buf, c)  BY <1>3, <1>4
  <2> QED BY <1>1, <2>1 DEF LineShown, InColumn, String, Nul, Blank
<1> QED BY <1>7, <1>8, <1>9 DEF ShellInv

LEMMA NewlineStep ==
  ASSUME ShellInv, KeyNewline
  PROVE  ShellInv' /\ LE!Submit
<1>1. Holds(input, input_len) /\ Drawable(Display)  BY DEF ShellInv
<1>2. input \in [0..SHELL_MAX_INPUT-1 -> Letters \cup {Nul}]
      /\ input_len \in 0..SHELL_MAX_INPUT-1 /\ input[input_len] = Nul
  BY <1>1 DEF Holds
<1>3. 0 \in 0..SHELL_MAX_INPUT-1  BY ShellAssumption
<1>4. [input EXCEPT ![input_len] = Nul] = input  BY <1>2
<1>5. /\ input' = [input EXCEPT ![0] = Nul] /\ input_len' = 0
      /\ executed' = String(input)
      /\ Show(shell_redraw_line(
                shell_newline(shell_execute(shell_newline(Display), String(input))),
                input'))
  BY <1>4 DEF KeyNewline
<1>6. PICK d : d = shell_newline(shell_execute(shell_newline(Display), String(input)))
  OBVIOUS
<1>7. Drawable(d)
  <2>1. PICK e : e = shell_execute(shell_newline(Display), String(input))  OBVIOUS
  <2>2. Drawable(shell_newline(Display))  BY <1>1, NewlineDrawable
  <2>3. Drawable(e)  BY <2>1, <2>2, ExecuteDrawable
  <2> QED BY <1>6, <2>1, <2>3, NewlineDrawable
<1>8. Holds(input', 0)
  <2>1. input' \in [0..SHELL_MAX_INPUT-1 -> Letters \cup {Nul}] /\ input'[0] = Nul
    BY <1>2, <1>3, <1>5
  <2>2. \A j \in 0..0-1 : FALSE  OBVIOUS
  <2> QED BY <1>3, <2>1, <2>2 DEF Holds
<1>9. ShellInv'  BY <1>5, <1>6, <1>7, <1>8, LineDrawn
<1>10. String(input') = <<>>
  <2>1. String(input') \in Seq(Letters) /\ Len(String(input')) = 0
    BY <1>8, StringIs
  <2> QED BY <2>1, EmptySeq
<1>11. String(input)' = <<>>  BY <1>10 DEF String, Nul
<1> QED BY <1>5, <1>9, <1>11 DEF LE!Submit

LEMMA BackspaceStep ==
  ASSUME ShellInv, KeyBackspace
  PROVE  ShellInv' /\ LE!Erase
<1>1. Holds(input, input_len) /\ Drawable(Display)  BY DEF ShellInv
<1>2. PICK n : n = input_len - 1  OBVIOUS
<1>3. /\ input \in [0..SHELL_MAX_INPUT-1 -> Letters \cup {Nul}]
      /\ input_len \in 0..SHELL_MAX_INPUT-1 /\ input_len > 0
      /\ n \in 0..SHELL_MAX_INPUT-1 /\ input_len = n + 1 /\ n \in Nat
      /\ input_len' = n /\ input' = [input EXCEPT ![n] = Nul]
      /\ executed' = executed /\ Show(shell_redraw_line(Display, input'))
  BY <1>1, <1>2, ShellAssumption DEF Holds, KeyBackspace
<1>4. /\ input' \in [0..SHELL_MAX_INPUT-1 -> Letters \cup {Nul}] /\ input'[n] = Nul
      /\ \A j \in 0..SHELL_MAX_INPUT-1 : j # n => input'[j] = input[j]
  BY <1>3
<1>5. \A j \in 0..n-1 : /\ j \in 0..SHELL_MAX_INPUT-1 /\ j # n
                        /\ j \in 0..input_len-1
  BY <1>3, ShellAssumption
<1>6. Holds(input', n)
  <2>1. \A j \in 0..n-1 : input'[j] # Nul  BY <1>1, <1>4, <1>5 DEF Holds
  <2> QED BY <1>3, <1>4, <2>1 DEF Holds
<1>7. ShellInv'  BY <1>1, <1>3, <1>6, LineDrawn
<1>8. PICK s : s = String(input)  OBVIOUS
<1>9. s \in Seq(Letters) /\ Len(s) = n + 1 /\ \A i \in 1..n+1 : s[i] = input[i-1]
  BY <1>1, <1>3, <1>8, StringIs
<1>10. PICK t : t = String(input')  OBVIOUS
<1>11. t \in Seq(Letters) /\ Len(t) = n /\ \A i \in 1..n : t[i] = input'[i-1]
  BY <1>6, <1>10, StringIs
<1>12. s # <<>>  BY <1>3, <1>9
<1>13. t = Front(s)
  <2>1. /\ Front(s) \in Seq(Letters) /\ Len(Front(s)) = n
        /\ \A i \in 1..n : Front(s)[i] = s[i]
    <3>1. s[n + 1] \in Letters  BY <1>3, <1>9, ElementOfSeq
    <3>2. /\ Front(s) \in Seq(Letters) /\ Len(Front(s)) = Len(s) - 1
          /\ \A i \in 1..Len(s)-1 : Front(s)[i] = s[i]
      BY <1>9, <1>12, <3>1, TopOfStack
    <3>3. Len(s) - 1 = n  BY <1>3, <1>9
    <3> QED BY <3>2, <3>3
  <2>2. ASSUME NEW i \in 1..n PROVE t[i] = Front(s)[i]
    <3>1. PICK j : j = i - 1  OBVIOUS
    <3>2. j \in 0..n-1 /\ i \in 1..n+1  BY <1>3, <3>1
    <3>3. input'[j] = input[j]  BY <1>4, <1>5, <3>2
    <3> QED BY <1>9, <1>11, <2>1, <3>1, <3>2, <3>3
  <2> QED BY <1>11, <2>1, <2>2, SeqEqual
<1>14. String(input)' = t  BY <1>10 DEF String, Nul
<1> QED BY <1>3, <1>7, <1>8, <1>12, <1>13, <1>14 DEF LE!Erase, LE!Front, Front

LEMMA CharStep ==
  ASSUME ShellInv, NEW k \in Letters, KeyChar(k)
  PROVE  ShellInv' /\ LE!Type /\ String(input)' = Append(String(input), k)
<1>1. Holds(input, input_len) /\ Drawable(Display)  BY DEF ShellInv
<1>2. PICK n : n = input_len  OBVIOUS
<1>3. /\ input \in [0..SHELL_MAX_INPUT-1 -> Letters \cup {Nul}]
      /\ n \in 0..SHELL_MAX_INPUT-1 /\ n + 1 \in 0..SHELL_MAX_INPUT-1 /\ n \in Nat
      /\ n < SHELL_MAX_INPUT - 1
      /\ input_len' = n + 1 /\ input' = [input EXCEPT ![n] = k, ![n + 1] = Nul]
      /\ executed' = executed /\ Show(shell_redraw_line(Display, input'))
  BY <1>1, <1>2, ShellAssumption DEF Holds, KeyChar
<1>4. k # Nul  BY ShellAssumption DEF Nul
<1>5. n # n + 1  BY <1>3
<1>6. /\ input' \in [0..SHELL_MAX_INPUT-1 -> Letters \cup {Nul}]
      /\ input'[n] = k /\ input'[n + 1] = Nul
      /\ \A j \in 0..SHELL_MAX_INPUT-1 : j # n /\ j # n + 1 => input'[j] = input[j]
  BY <1>3, <1>5
<1>7. \A j \in 0..n-1 : j \in 0..SHELL_MAX_INPUT-1 /\ j # n /\ j # n + 1
  BY <1>3, ShellAssumption
<1>8. Holds(input', n + 1)
  <2>1. ASSUME NEW j \in 0..(n+1)-1 PROVE input'[j] # Nul
    <3>1. CASE j = n  BY <1>4, <1>6, <3>1
    <3>2. CASE j # n
      <4>1. j \in 0..n-1  BY <1>3, <3>2
      <4> QED BY <1>1, <1>2, <1>6, <1>7, <4>1 DEF Holds
    <3> QED BY <3>1, <3>2
  <2> QED BY <1>3, <1>6, <2>1 DEF Holds
<1>9. ShellInv'  BY <1>1, <1>3, <1>8, LineDrawn
<1>10. PICK s : s = String(input)  OBVIOUS
<1>11. s \in Seq(Letters) /\ Len(s) = n /\ \A i \in 1..n : s[i] = input[i-1]
  BY <1>1, <1>2, <1>10, StringIs
<1>12. PICK t : t = String(input')  OBVIOUS
<1>13. t \in Seq(Letters) /\ Len(t) = n + 1 /\ \A i \in 1..n+1 : t[i] = input'[i-1]
  BY <1>8, <1>12, StringIs
<1>14. t = Append(s, k)
  <2>1. /\ Append(s, k) \in Seq(Letters) /\ Len(Append(s, k)) = n + 1
        /\ \A i \in 1..n : Append(s, k)[i] = s[i]
        /\ Append(s, k)[n + 1] = k
    BY <1>11, AppendProperties
  <2>2. ASSUME NEW i \in 1..n+1 PROVE t[i] = Append(s, k)[i]
    <3>1. CASE i = n + 1
      <4>1. i - 1 = n  BY <1>3, <3>1
      <4> QED BY <1>6, <1>13, <2>1, <3>1, <4>1
    <3>2. CASE i # n + 1
      <4>1. PICK j : j = i - 1  OBVIOUS
      <4>2. j \in 0..n-1 /\ i \in 1..n  BY <1>3, <3>2, <4>1
      <4>3. input'[j] = input[j]  BY <1>6, <1>7, <4>2
      <4> QED BY <1>11, <1>13, <2>1, <4>1, <4>2, <4>3
    <3> QED BY <3>1, <3>2
  <2> QED BY <1>13, <2>1, <2>2, SeqEqual
<1>15. String(input)' = t  BY <1>12 DEF String, Nul
<1> QED BY <1>3, <1>9, <1>10, <1>11, <1>14, <1>15 DEF LE!Type

LEMMA ShellStay ==
  ASSUME ShellInv, UNCHANGED shellVars
  PROVE  ShellInv'
<1>1. UNCHANGED <<input, input_len, cursor_y, text>>  BY DEF shellVars
<1>2. Display' = Display  BY <1>1 DEF Display
<1>3. Drawable(Display)'
  BY <1>2 DEF ShellInv, Drawable, Rows, BlankRow, Blank
<1>4. Holds(input, input_len)'  BY <1>1 DEF ShellInv, Holds, Nul
<1>5. LineShown'  BY <1>1 DEF ShellInv, LineShown, String, Nul, Blank
<1> QED BY <1>3, <1>4, <1>5 DEF ShellInv

LEMMA ShellStep ==
  ASSUME ShellInv, [ShellNext]_shellVars
  PROVE  /\ ShellInv'
         /\ LE!Next \/ UNCHANGED <<String(input), executed>>
<1>1. CASE UNCHANGED shellVars
  BY <1>1, ShellStay DEF shellVars, String, Nul
<1>2. ASSUME NEW c \in Keys, HandleKey(c), ~UNCHANGED shellVars
      PROVE  ShellInv' /\ LE!Next
  <2>1. CASE KeyNewline  BY <2>1, NewlineStep DEF LE!Next
  <2>2. CASE KeyBackspace  BY <2>2, BackspaceStep DEF LE!Next
  <2>3. CASE c \notin {Newline, Backspace} /\ KeyChar(c)
    <3>1. c \in Letters  BY <2>3 DEF Keys
    <3> QED BY <2>3, <3>1, CharStep DEF LE!Next
  <2> QED BY <1>2, <2>1, <2>2, <2>3 DEF HandleKey
<1> QED BY <1>1, <1>2 DEF ShellNext

LEMMA ShellInitInv == ShellInit => ShellInv /\ LE!Init
<1> SUFFICES ASSUME ShellInit PROVE ShellInv /\ LE!Init  OBVIOUS
<1>1. Holds(input, 0) /\ input_len = 0
  <2>1. /\ 0 \in 0..SHELL_MAX_INPUT-1
        /\ \A j \in 0..0-1 : FALSE
    BY ShellAssumption
  <2> QED BY <2>1 DEF ShellInit, Holds
<1>2. PICK d : d = [y |-> SHELL_Y, text |-> [y \in Rows |-> BlankRow]]  OBVIOUS
<1>3. Drawable(d) /\ d.y = SHELL_Y  BY <1>2, FirstRow DEF Drawable
<1>4. PICK e : e = shell_redraw_line(d, input)  OBVIOUS
<1>5. Drawable(e) /\ e.y = SHELL_Y
      /\ \A c \in 1..Columns : e.text[e.y][c] = InColumn(input, c)
  BY <1>1, <1>3, <1>4, RedrawShows
<1>6. cursor_y = e.y /\ text = e.text  BY <1>2, <1>4, <1>5 DEF ShellInit
<1>7. Drawable(Display)  BY <1>5, <1>6 DEF Drawable, Display
<1>8. LineShown  BY <1>5, <1>6 DEF LineShown, InColumn
<1>9. String(input) = <<>>
  <2>1. String(input) \in Seq(Letters) /\ Len(String(input)) = 0
    BY <1>1, StringIs
  <2> QED BY <2>1, EmptySeq
<1> QED BY <1>1, <1>7, <1>8, <1>9 DEF ShellInv, LE!Init, ShellInit

LEMMA ShellInvShown == ShellInv => ScreenShown
BY DEF ShellInv, ScreenShown, ShellTypeOK, BlankBelow, Drawable, Display, Holds

-----------------------------------------------------------------------------
(* Theorems                                                                  *)

\* The line fits the buffer with its terminator, and the screen follows from it.
THEOREM ShellInvHolds == ShellSpec => []ShellInv
<1>1. ShellInit => ShellInv  BY ShellInitInv
<1>2. ShellInv /\ [ShellNext]_shellVars => ShellInv'  BY ShellStep
<1> QED BY <1>1, <1>2, PTL DEF ShellSpec

\* Shell.ScreenShown: between two keys the row of the cursor shows the prompt
\* and the line in the buffer, and the rows below are blank (user_main.c:24-98).
THEOREM ScreenShownHolds == ShellSpec => []ScreenShown
BY ShellInvHolds, ShellInvShown, PTL

\* Shell.ImplementsLineEditor: every key is a step of the line editor or none.
THEOREM LineEditorHolds == ShellSpec => ImplementsLineEditor
<1>1. ShellInit => LE!Init  BY ShellInitInv
<1>2. ShellInv /\ [ShellNext]_shellVars
        => LE!Next \/ UNCHANGED <<String(input), executed>>
  BY ShellStep
<1> QED BY <1>1, <1>2, ShellInvHolds, PTL DEF ShellSpec, ImplementsLineEditor, LE!Spec

-----------------------------------------------------------------------------
(* The shell behind the keyboard                                             *)

\* The key that a step hands to the shell.
NextKey == scancode_map[typed[Len(got')]]

LEMMA GotGrows ==
  ASSUME Next, got' # got
  PROVE  \E v : got' = Append(got, v)
<1>1. GetEmpty \/ GetFetch
  BY DEF Next, Step, HandlerStep, SyscallStep, KeyIrq, Tick, ReadPort, LoadWrite,
         StoreKey, AdvanceWrite, SysHasKey, SysGetKey, keyboard_haskey, GetTake
<1> QED BY <1>1 DEF GetEmpty, GetFetch

LEMMA KeyHandled ==
  ASSUME Unhurried, KeyInv, KeyInv', Next, got' # got
  PROVE  /\ Len(got') = Len(got) + 1
         /\ Char(Last(got')) = NextKey /\ NextKey \in Keys
<1>1. PICK v : got' = Append(got, v)  BY GotGrows
<1>2. got \in Seq(Codes) /\ got' \in Seq(Codes) /\ typed' \in Seq(Codes \ {None})
  BY DEF KeyInv, KeyTypeOK, Codes, None
<1>3. Len(got') = Len(got) + 1
  <2>1. PICK S : S = Codes \cup {v}  OBVIOUS
  <2>2. got \in Seq(S) /\ v \in S  BY <1>2, <2>1
  <2> QED BY <1>1, <2>2, AppendProperties
<1>4. PICK n : n = Len(got')  OBVIOUS
<1>5. n \in 1..Len(got') /\ n \in Nat  BY <1>2, <1>3, <1>4, LenProperties
<1>6. /\ got'[n] = typed'[n] /\ n \in 1..Len(typed')
  <2>1. \A i \in 1..Len(got') : got'[i] = typed'[i]  BY DEF KeyInv, OrderInv
  <2>2. Len(typed') = Len(got') + NFetched' + Waiting' + NComing'
    BY DEF KeyInv, OrderInv
  <2>3. NFetched' \in Nat /\ Waiting' \in Nat /\ NComing' \in Nat
    <3>1. NFetched' \in Nat /\ NComing' \in Nat  BY DEF NFetched, NComing
    <3>2. Waiting' \in Nat
      <4>1. /\ RingSize \in Nat /\ RingSize > 1
            /\ key_read' \in 0..RingSize-1 /\ key_write' \in 0..RingSize-1
        BY KeyboardAssumption DEF KeyInv, KeyTypeOK
      <4>2. (key_write' - key_read') % RingSize \in 0..RingSize-1
        BY ONLY <4>1, RingCount
      <4>3. Waiting' = (key_write' - key_read') % RingSize  BY DEF Waiting
      <4>4. \A m \in 0..RingSize-1 : m \in Nat  OBVIOUS
      <4> QED BY ONLY <4>2, <4>3, <4>4, Zenon
    <3> QED BY <3>1, <3>2
  <2>4. Len(typed') \in Nat  BY <1>2, LenProperties
  <2>5. got'[n] = typed'[n]  BY <1>5, <2>1
  <2>6. Len(got') \in Nat  BY <1>2, LenProperties
  <2>7. n \in 1..Len(typed')  BY ONLY <1>5, <2>2, <2>3, <2>4, <2>6
  <2> QED BY <2>5, <2>7
<1>7. typed'[n] \in 1..MaxKeys
  <2>1. typed'[n] \in Codes \ {None}  BY <1>2, <1>6, ElementOfSeq
  <2> QED BY <2>1, KeyboardAssumption DEF Codes, None
<1>8. typed' = typed
  BY <1>1 DEF Next, Step, HandlerStep, SyscallStep, KeyIrq, Tick, ReadPort, LoadWrite,
     StoreKey, AdvanceWrite, SysHasKey, SysGetKey, keyboard_haskey, GetTake, GetEmpty,
     GetFetch
<1>9. Last(got') = typed[n]  BY <1>4, <1>6, <1>8 DEF Last
<1>10. Char(Last(got')) = NextKey
  BY <1>4, <1>7, <1>8, <1>9 DEF Char, NextKey, None
<1>11. NextKey \in Keys  BY <1>4, <1>7, <1>8, TerminalAssumption DEF NextKey
<1> QED BY <1>3, <1>10, <1>11

LEMMA TerminalStep ==
  ASSUME Unhurried, KeyInv, KeyInv', [TerminalNext]_terminalVars
  PROVE  /\ [ShellNext]_shellVars
         /\ got' # got => /\ Len(got') = Len(got) + 1
                          /\ HandleKey(NextKey)
<1>1. CASE KeyToShell
  <2>1. Next /\ got' # got /\ HandleKey(Char(Last(got')))  BY <1>1 DEF KeyToShell
  <2>2. /\ Len(got') = Len(got) + 1
        /\ Char(Last(got')) = NextKey /\ NextKey \in Keys
    BY <2>1, KeyHandled
  <2>3. HandleKey(NextKey)  BY <2>1, <2>2
  <2> QED BY <2>2, <2>3 DEF ShellNext
<1>2. CASE Elsewhere  BY <1>2 DEF Elsewhere
<1>3. CASE UNCHANGED terminalVars  BY <1>3 DEF terminalVars, vars
<1> QED BY <1>1, <1>2, <1>3 DEF TerminalNext

\* The steps of the terminal are the keyboard's, so that its invariant holds here.
THEOREM TerminalKeyInv == ASSUME Unhurried PROVE TerminalSpec => []KeyInv
<1>1. TerminalInit => Init  BY DEF TerminalInit
<1>2. [TerminalNext]_terminalVars => [Next]_vars
  BY DEF TerminalNext, KeyToShell, Elsewhere, terminalVars
<1>3. Spec => []KeyInv  BY KeyInvHolds
<1> QED BY <1>1, <1>2, <1>3, PTL DEF TerminalSpec, Spec

\* The shell behind the keyboard does what the shell does alone.
THEOREM TerminalRefinesShell == ASSUME Unhurried PROVE TerminalSpec => ShellSpec
<1>1. TerminalInit => ShellInit  BY DEF TerminalInit
<1>2. KeyInv /\ KeyInv' /\ [TerminalNext]_terminalVars => [ShellNext]_shellVars
  BY TerminalStep
<1> QED BY <1>1, <1>2, TerminalKeyInv, PTL DEF TerminalSpec, ShellSpec

\* The n-th key that the shell handles is the n-th that was typed: the step from
\* which MCLineFollowsTyping follows by counting (user_main.c:73-98).
THEOREM KeysHandledInOrder ==
  ASSUME Unhurried
  PROVE  TerminalSpec => [][got' # got => /\ Len(got') = Len(got) + 1
                                          /\ HandleKey(NextKey)]_terminalVars
<1>1. KeyInv /\ KeyInv' /\ [TerminalNext]_terminalVars
        => [got' # got => /\ Len(got') = Len(got) + 1
                          /\ HandleKey(NextKey)]_terminalVars
  BY TerminalStep
<1> QED BY <1>1, TerminalKeyInv, PTL DEF TerminalSpec

\* With the keyboard and the ticks: keys in order, the line on the screen, and
\* the buffer a line editor.
THEOREM TerminalHolds ==
  ASSUME Unhurried
  PROVE  TerminalSpec => [](InOrder /\ ScreenShown) /\ ImplementsLineEditor
<1>1. KeyInv => InOrder  BY KeyInvInOrder
<1> QED BY <1>1, TerminalKeyInv, TerminalRefinesShell, ScreenShownHolds,
           LineEditorHolds, PTL

-----------------------------------------------------------------------------
(* The line in the buffer is the one that the keys mean.                     *)

\* w is the lines after the first n of some keys, for every n.
IsLines(w, codes) ==
  w = [n \in Nat |-> IF n = 0 THEN <<>> ELSE Typed(w[n-1], codes[n])]

LEMMA LinesExist ==
  ASSUME NEW codes
  PROVE  \E w : IsLines(w, codes)
<1> DEFINE L(k, v) == DOMAIN v = 0..k /\ \A n \in 0..k :
                        v[n] = IF n = 0 THEN <<>> ELSE Typed(v[n-1], codes[n])
           S == {k \in Nat : \E v : L(k, v)}
<1>1. 0 \in S
  <2>1. L(0, [n \in 0..0 |-> <<>>])  OBVIOUS
  <2> QED BY <2>1
<1>2. ASSUME NEW k \in Nat, k \in S PROVE k + 1 \in S
  <2>1. PICK v : L(k, v)  BY <1>2
  <2> DEFINE w == [n \in 0..k + 1 |-> IF n = k + 1 THEN Typed(v[k], codes[k + 1]) ELSE v[n]]
  <2>2. ASSUME NEW n \in 0..k + 1
        PROVE  w[n] = IF n = 0 THEN <<>> ELSE Typed(w[n-1], codes[n])
    <3>1. CASE n = k + 1
      <4>1. k \in 0..k + 1 /\ k # k + 1 /\ n - 1 = k /\ n # 0  BY <3>1
      <4>2. w[k] = v[k] /\ w[n] = Typed(v[k], codes[k + 1])  BY <3>1, <4>1
      <4> QED BY <3>1, <4>1, <4>2
    <3>2. CASE n # k + 1
      <4>1. n \in 0..k /\ w[n] = v[n]  BY <3>2
      <4>2. CASE n = 0  BY <2>1, <4>1, <4>2
      <4>3. CASE n # 0
        <5>1. n - 1 \in 0..k + 1 /\ n - 1 # k + 1  BY <4>1, <4>3
        <5>2. w[n-1] = v[n-1]  BY <5>1
        <5> HIDE DEF w
        <5> QED BY <2>1, <4>1, <4>3, <5>2
      <4> QED BY <4>2, <4>3
    <3> QED BY <3>1, <3>2
  <2>3. DOMAIN w = 0..k + 1  OBVIOUS
  <2>4. \E x : L(k + 1, x)
    <3> HIDE DEF w
    <3> QED BY <2>2, <2>3
  <2> QED BY <2>4
<1>3. Nat \subseteq S
  <2> HIDE DEF S
  <2> QED BY <1>1, <1>2, Induction
<1>4. \A k \in Nat : \E v : L(k, v)  BY <1>3
<1> DEFINE V(k) == CHOOSE v : L(k, v)
<1>5. ASSUME NEW k \in Nat PROVE L(k, V(k))
  <2> HIDE DEF L
  <2> QED BY <1>4
<1>6. ASSUME NEW k \in Nat, NEW m \in Nat, k <= m PROVE V(m)[k] = V(k)[k]
  <2> DEFINE T == {n \in Nat : n <= k => V(m)[n] = V(k)[n]}
  <2>1. L(k, V(k)) /\ L(m, V(m))  BY <1>5
  <2> HIDE DEF V
  <2>2. 0 \in T  BY <1>6, <2>1
  <2>3. ASSUME NEW n \in Nat, n \in T PROVE n + 1 \in T
    <3> SUFFICES ASSUME n + 1 <= k PROVE V(m)[n + 1] = V(k)[n + 1]  OBVIOUS
    <3>1. V(m)[n] = V(k)[n]  BY <2>3
    <3>2. n + 1 \in 0..k /\ n + 1 \in 0..m /\ n + 1 # 0 /\ (n + 1) - 1 = n  BY <1>6
    <3>3. V(m)[n + 1] = Typed(V(m)[n], codes[n + 1])  BY <2>1, <3>2
    <3>4. V(k)[n + 1] = Typed(V(k)[n], codes[n + 1])  BY <2>1, <3>2
    <3> QED BY <3>1, <3>3, <3>4
  <2>4. Nat \subseteq T
    <3> HIDE DEF T
    <3> QED BY <2>2, <2>3, Induction
  <2> QED BY <2>4
<1> DEFINE w == [n \in Nat |-> V(n)[n]]
<1>7. ASSUME NEW n \in Nat
      PROVE  w[n] = IF n = 0 THEN <<>> ELSE Typed(w[n-1], codes[n])
  <2>1. L(n, V(n))  BY <1>5
  <2>2. n \in 0..n /\ w[n] = V(n)[n]  OBVIOUS
  <2>3. CASE n = 0
    <3> HIDE DEF V, w
    <3> QED BY <2>1, <2>2, <2>3
  <2>4. CASE n # 0
    <3>1. n - 1 \in Nat /\ n - 1 <= n  BY <2>4
    <3>2. V(n)[n-1] = V(n-1)[n-1]
      <4> HIDE DEF V
      <4> QED BY <1>6, <3>1
    <3>3. w[n-1] = V(n-1)[n-1]  BY <3>1
    <3> HIDE DEF V, w
    <3> QED BY <2>1, <2>2, <2>4, <3>2, <3>3
  <2> QED BY <2>3, <2>4
<1>8. IsLines(w, codes)  BY <1>7 DEF IsLines
<1> QED
  <2> HIDE DEF w
  <2> QED BY <1>8

\* Lines(codes)[n] is the line after the first n of the keys.
Lines(codes) == CHOOSE w : IsLines(w, codes)

LEMMA LinesAre ==
  ASSUME NEW codes
  PROVE  /\ Meant(codes) = Lines(codes)[Len(codes)]
         /\ Lines(codes)[0] = <<>>
         /\ \A n \in Nat : Lines(codes)[n + 1] = Typed(Lines(codes)[n], codes[n + 1])
<1> DEFINE w == Lines(codes)
<1>1. IsLines(w, codes)  BY LinesExist DEF Lines
<1>2. Meant(codes) = w[Len(codes)]  BY DEF Meant, Lines, IsLines
<1> HIDE DEF w
<1>3. w[0] = <<>>  BY <1>1 DEF IsLines
<1>4. ASSUME NEW n \in Nat PROVE w[n + 1] = Typed(w[n], codes[n + 1])
  <2>1. n + 1 \in Nat /\ n + 1 # 0 /\ (n + 1) - 1 = n  OBVIOUS
  <2> QED BY <1>1, <2>1 DEF IsLines
<1> QED BY <1>2, <1>3, <1>4 DEF w

\* Keys that have not come yet change nothing about the line.
LEMMA LinesAgree ==
  ASSUME NEW a, NEW b, NEW k \in Nat, \A i \in 1..k : a[i] = b[i]
  PROVE  Lines(a)[k] = Lines(b)[k]
<1> DEFINE S == {n \in Nat : n <= k => Lines(a)[n] = Lines(b)[n]}
<1>1. 0 \in S  BY LinesAre
<1>2. ASSUME NEW n \in Nat, n \in S PROVE n + 1 \in S
  <2> SUFFICES ASSUME n + 1 <= k PROVE Lines(a)[n + 1] = Lines(b)[n + 1]  OBVIOUS
  <2>1. Lines(a)[n] = Lines(b)[n]  BY <1>2
  <2>2. a[n + 1] = b[n + 1]  OBVIOUS
  <2>3. /\ Lines(a)[n + 1] = Typed(Lines(a)[n], a[n + 1])
        /\ Lines(b)[n + 1] = Typed(Lines(b)[n], b[n + 1])
    BY LinesAre
  <2> QED BY <2>1, <2>2, <2>3
<1>3. Nat \subseteq S
  <2> HIDE DEF S
  <2> QED BY <1>1, <1>2, Induction
<1> QED BY <1>3

\* The shell makes of its line what the key means.
LEMMA KeyTypes ==
  ASSUME ShellInv, NEW code, Char(code) \in Keys, HandleKey(Char(code))
  PROVE  String(input)' = Typed(String(input), code)
<1> DEFINE k == Char(code)
<1>1. /\ Holds(input, input_len) /\ input_len \in 0..SHELL_MAX_INPUT-1
      /\ SHELL_MAX_INPUT \in Nat /\ Newline # Backspace
  BY ShellAssumption DEF ShellInv, Holds, Newline, Backspace
<1>2. PICK s : s = String(input)  OBVIOUS
<1>3. s \in Seq(Letters) /\ Len(s) = input_len  BY <1>1, <1>2, StringIs
<1>4. String(input)' = s \/ ~UNCHANGED shellVars  BY <1>2 DEF shellVars, String, Nul
<1>5. CASE k = Newline /\ KeyNewline
  <2>1. String(input)' = <<>>  BY <1>5, NewlineStep DEF LE!Submit
  <2> QED BY <1>1, <1>5, <2>1 DEF Typed
<1>6. CASE k = Backspace /\ KeyBackspace
  <2>1. s # <<>> /\ String(input)' = Front(s)
    BY <1>2, <1>6, BackspaceStep DEF LE!Erase, LE!Front, Front
  <2> QED BY <1>1, <1>2, <1>6, <2>1 DEF Typed
<1>7. CASE k = Backspace /\ input_len = 0 /\ UNCHANGED shellVars
  <2>1. s = <<>>  BY <1>3, <1>7, EmptySeq
  <2>2. String(input)' = s  BY <1>4, <1>7
  <2>3. Typed(s, code) = s  BY <1>1, <1>7, <2>1 DEF Typed
  <2> QED BY <1>2, <2>2, <2>3
<1>8. CASE k \notin {Newline, Backspace} /\ KeyChar(k)
  <2>1. k \in Letters  BY <1>8 DEF Keys
  <2>2. String(input)' = Append(s, k)  BY <1>2, <1>8, <2>1, CharStep
  <2>3. Len(s) < SHELL_MAX_INPUT - 1  BY <1>3, <1>8 DEF KeyChar
  <2> QED BY <1>2, <1>8, <2>2, <2>3 DEF Typed
<1>9. CASE /\ k \notin {Newline, Backspace} /\ input_len = SHELL_MAX_INPUT - 1
           /\ UNCHANGED shellVars
  <2>1. ~(Len(s) < SHELL_MAX_INPUT - 1)  BY <1>1, <1>3, <1>9
  <2> QED BY <1>2, <1>4, <1>9, <2>1 DEF Typed
<1> QED BY <1>5, <1>6, <1>7, <1>8, <1>9 DEF HandleKey

LineInv == String(input) = Meant(got)

LEMMA LineInvInit == TerminalInit => LineInv
<1> SUFFICES ASSUME TerminalInit PROVE LineInv  OBVIOUS
<1>1. String(input) = <<>>  BY ShellInitInv DEF TerminalInit, LE!Init
<1>2. got = <<>> /\ Len(got) = 0  BY DEF TerminalInit, Init
<1>3. Meant(got) = <<>>  BY <1>2, LinesAre
<1> QED BY <1>1, <1>3 DEF LineInv

LEMMA LineStep ==
  ASSUME Unhurried, KeyInv, KeyInv', ShellInv, LineInv, [TerminalNext]_terminalVars
  PROVE  LineInv'
<1>1. CASE KeyToShell
  <2>1. Next /\ got' # got /\ HandleKey(Char(Last(got')))  BY <1>1 DEF KeyToShell
  <2>2. PICK v : got' = Append(got, v)  BY <2>1, GotGrows
  <2>3. PICK g : g = got'  OBVIOUS
  <2>4. PICK n : n = Len(got)  OBVIOUS
  <2>5. /\ n \in Nat /\ Len(g) = n + 1
        /\ \A i \in 1..n : g[i] = got[i]
    <3>1. got \in Seq(Codes)  BY DEF KeyInv, KeyTypeOK
    <3>2. PICK S : S = Codes \cup {v}  OBVIOUS
    <3>3. got \in Seq(S) /\ v \in S  BY <3>1, <3>2
    <3> QED BY <2>2, <2>3, <2>4, <3>3, AppendProperties, LenProperties
  <2>6. Last(got') = g[n + 1]  BY <2>3, <2>5 DEF Last
  <2>7. Char(g[n + 1]) \in Keys  BY <2>1, <2>6, KeyHandled
  <2>8. String(input)' = Typed(String(input), g[n + 1])  BY <2>1, <2>6, <2>7, KeyTypes
  <2>9. Meant(got) = Lines(got)[n] /\ Meant(g) = Lines(g)[n + 1]
    BY <2>4, <2>5, LinesAre
  <2>10. Lines(g)[n + 1] = Typed(Lines(g)[n], g[n + 1])  BY <2>5, LinesAre
  <2>11. Lines(g)[n] = Lines(got)[n]  BY <2>5, LinesAgree
  <2>12. Meant(g) = Meant(got)'
    BY <2>3 DEF Meant, Typed, Char, Newline, Backspace, None, Nul
  <2> QED BY <2>8, <2>9, <2>10, <2>11, <2>12 DEF LineInv
<1>2. CASE UNCHANGED got /\ UNCHANGED shellVars
  <2>1. String(input)' = String(input)  BY <1>2 DEF shellVars, String, Nul
  <2>2. Meant(got)' = Meant(got)
    BY <1>2 DEF Meant, Typed, Char, Newline, Backspace, None, Nul
  <2> QED BY <2>1, <2>2 DEF LineInv
<1> QED BY <1>1, <1>2 DEF TerminalNext, Elsewhere, terminalVars, vars

LEMMA LineInvFollows ==
  ASSUME KeyInv, LineInv
  PROVE  LineFollowsTyping
<1>1. PICK n : n = Len(got)  OBVIOUS
<1>2. /\ got \in Seq(Codes) /\ typed \in Seq(Codes)
      /\ n \in Nat /\ Len(typed) \in Nat
  BY <1>1, LenProperties DEF KeyInv, KeyTypeOK
<1>3. n <= Len(typed)
  <2>1. Len(typed) = n + NFetched + Waiting + NComing
    BY <1>1 DEF KeyInv, OrderInv
  <2>2. NFetched \in Nat /\ NComing \in Nat  BY DEF NFetched, NComing
  <2>3. Waiting \in Nat
    <3>1. /\ RingSize \in Nat /\ RingSize > 1
          /\ key_read \in 0..RingSize-1 /\ key_write \in 0..RingSize-1
      BY KeyboardAssumption DEF KeyInv, KeyTypeOK
    <3>2. (key_write - key_read) % RingSize \in 0..RingSize-1
      BY ONLY <3>1, RingCount
    <3>3. \A m \in 0..RingSize-1 : m \in Nat  OBVIOUS
    <3> QED BY ONLY <3>2, <3>3, Zenon DEF Waiting
  <2> QED BY ONLY <1>2, <2>1, <2>2, <2>3
<1>4. /\ SubSeq(typed, 1, n) \in Seq(Codes)
      /\ Len(SubSeq(typed, 1, n)) = IF 1 <= n THEN n - 1 + 1 ELSE 0
      /\ \A i \in 1..n - 1 + 1 : SubSeq(typed, 1, n)[i] = typed[1 + i - 1]
  <2>1. ASSUME NEW i \in 1..n PROVE typed[i] \in Codes
    <3>1. i \in 1..Len(typed)  BY <1>2, <1>3
    <3> QED BY <1>2, <3>1, ElementOfSeq
  <2> QED BY <1>2, <2>1, SubSeqProperties
<1>5. PICK t : t = SubSeq(typed, 1, n)  OBVIOUS
<1>6. t \in Seq(Codes) /\ Len(t) = n  BY <1>2, <1>4, <1>5
<1>7. ASSUME NEW i \in 1..n PROVE t[i] = got[i]
  <2>1. i \in 1..n - 1 + 1 /\ 1 + i - 1 = i  BY <1>2
  <2>2. got[i] = typed[i]  BY <1>1 DEF KeyInv, OrderInv
  <2> QED BY <1>4, <1>5, <2>1, <2>2
<1>8. t = got  BY <1>1, <1>2, <1>6, <1>7, SeqEqual
<1> QED BY <1>1, <1>5, <1>8 DEF LineInv, LineFollowsTyping

\* Terminal.LineFollowsTyping: the line of the shell is what the keys that it has
\* read make of it, in the order typed, wherever ticks and further keys have come
\* in between (keyboard.c:32-74, user_main.c:73-98).
THEOREM LineAlwaysFollows == ASSUME Unhurried PROVE TerminalSpec => []LineFollowsTyping
<1>1. TerminalInit => LineInv  BY LineInvInit
<1>2. KeyInv /\ KeyInv' /\ ShellInv /\ LineInv /\ [TerminalNext]_terminalVars => LineInv'
  BY LineStep
<1>3. KeyInv /\ LineInv => LineFollowsTyping  BY LineInvFollows
<1> QED BY <1>1, <1>2, <1>3, TerminalKeyInv, TerminalRefinesShell, ShellInvHolds, PTL
        DEF TerminalSpec

\* MCTerminal.MCLineFollowsTyping: the same as the run states it, for the
\* specification that it explores (keyboard.c:32-74, user_main.c:73-98).
THEOREM MCLineAlwaysFollows ==
  ASSUME Unhurried
  PROVE  MCSpec => []MCLineFollowsTyping
<1> DEFINE Stays == [TypedKeys \/ AnyKeys]_<<keyboard, terminalVars>>
<1>1. MCInit => Init /\ ShellInit /\ LineInv  BY LineInvInit DEF MCInit, TerminalInit
<1>2. Stays => [Next]_vars
  BY DEF TypedKeys, AnyKeys, TerminalNext, KeyToShell, Elsewhere, terminalVars
<1>3. KeyInv /\ KeyInv' /\ Stays => [ShellNext]_shellVars
  BY TerminalStep DEF TypedKeys, AnyKeys, terminalVars
<1>4. KeyInv /\ KeyInv' /\ ShellInv /\ (keyboard => LineInv) /\ Stays
        => (keyboard => LineInv)'
  <2> SUFFICES ASSUME KeyInv, KeyInv', ShellInv, keyboard => LineInv, Stays, keyboard'
               PROVE  LineInv'
    OBVIOUS
  <2>1. keyboard /\ [TerminalNext]_terminalVars  BY DEF TypedKeys, AnyKeys
  <2> QED BY <2>1, LineStep
<1>5. KeyInv /\ (keyboard => LineInv) => MCLineFollowsTyping
  BY LineInvFollows DEF MCLineFollowsTyping
<1>6. Spec => []KeyInv  BY KeyInvHolds
<1>7. ShellSpec => []ShellInv  BY ShellInvHolds
<1> HIDE DEF Stays
<1> QED BY <1>1, <1>2, <1>3, <1>4, <1>5, <1>6, <1>7, PTL DEF MCSpec, Spec, ShellSpec, Stays

=============================================================================
