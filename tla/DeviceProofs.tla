----------------------------- MODULE DeviceProofs -----------------------------
(***************************************************************************)
(* The devices.  The serial line is never overrun, for every set of        *)
(* writers that is not larger than the FIFO and every text; the clock      *)
(* tells a true time, for every set of callers and whatever the clock      *)
(* shows; a drawing call that nobody draws over shows every pixel of its   *)
(* area, for every screen, font and set of painters; the text console      *)
(* shows what an ideal terminal shows, for every screen and all formats.   *)
(***************************************************************************)
EXTENDS Serial, Clock, Graphics, Console, NatLemmas, FiniteSetTheorems, SequenceTheorems, TLAPS

-----------------------------------------------------------------------------
(* The serial line                                                           *)

Putting == {w \in Writers : at[w] = "put"}

\* Why the test and the write need not be one step: writers enter "put" only
\* while the FIFO is empty, so that those in "put" and the characters in the
\* FIFO together are never more than the writers.
SerialInv ==
  /\ setup \in 0..7
  /\ uart \in [0..7 -> Nat]
  /\ setup >= 5 => uart[3] = 3
  /\ setup >= 6 => uart[2] = 199
  /\ fifo \in Seq([by : Writers, char : Nat])
  /\ at \in [Writers -> {"poll", "put"}]
  /\ sent \in [Writers -> Nat]
  /\ \A w \in Writers : at[w] = "put" => setup = 7 /\ sent[w] < Len(Message[w])
  /\ Len(fifo) + Cardinality(Putting) <= Cardinality(Writers)

-----------------------------------------------------------------------------
LEMMA PuttingFinite ==
  ASSUME SerialAssumption
  PROVE  /\ IsFiniteSet(Putting) /\ Cardinality(Putting) \in Nat
         /\ Cardinality(Writers) \in Nat /\ Cardinality(Putting) <= Cardinality(Writers)
  BY FS_Subset, FS_CardinalityType DEF Putting, SerialAssumption

LEMMA SerialInitInv == SerialInit => SerialInv
<1> SUFFICES ASSUME SerialInit PROVE SerialInv  OBVIOUS
<1>1. Putting = {}  BY DEF Putting, SerialInit
<1>2. Cardinality(Putting) = 0  BY <1>1, FS_EmptySet
<1>3. Cardinality(Writers) \in Nat  BY PuttingFinite, SerialAssumption
<1> QED BY <1>2, <1>3 DEF SerialInit, SerialInv

\* debug_serial_init runs before any writer.
LEMMA SetupStep == SerialInv /\ debug_serial_init => SerialInv'
<1> SUFFICES ASSUME SerialInv, debug_serial_init PROVE SerialInv'  OBVIOUS
<1>1. Len(InitWrites) = 7  BY DEF InitWrites
<1>2. setup \in 0..6 /\ setup' = setup + 1  BY <1>1 DEF debug_serial_init, SerialInv
<1>3. Putting' = Putting  BY DEF Putting, debug_serial_init
<1>4. /\ uart' \in [0..7 -> Nat]
      /\ setup' >= 5 => uart'[3] = 3
      /\ setup' >= 6 => uart'[2] = 199
  <2> DEFINE r == InitWrites[setup'][1]
             v == InitWrites[setup'][2]
  <2>1. SetRegister(r, v)  BY DEF debug_serial_init
  <2>2. /\ r \in 0..4 /\ v \in Nat
        /\ setup = 4 => r = 3 /\ v = 3
        /\ setup = 5 => r = 2 /\ v = 199
        /\ setup = 6 => r = 4
    BY <1>2 DEF InitWrites
  <2> HIDE DEF r, v
  <2>3. uart[7] \in Nat /\ uart \in [0..7 -> Nat]  BY DEF SerialInv
  <2>4. 256 * (uart[7] \div 256) + v \in Nat /\ 256 * v + (uart[7] % 256) \in Nat
    BY <2>2, <2>3
  <2>5. uart' \in [0..7 -> Nat]  BY <2>1, <2>2, <2>3, <2>4 DEF SetRegister
  <2>6. r \notin {0, 1} => uart' = [uart EXCEPT ![r] = v]  BY <2>1 DEF SetRegister
  <2>7. setup' >= 5 => uart'[3] = 3
    <3>1. CASE setup = 4
      <4>1. r = 3 /\ v = 3  BY <2>2, <3>1
      <4> QED BY <2>3, <2>6, <4>1
    <3>2. CASE setup \in 5..6
      <4>1. r \in {2, 4}  BY <2>2, <3>2
      <4>2. uart[3] = 3  BY <3>2 DEF SerialInv
      <4> QED BY <2>3, <2>6, <4>1, <4>2
    <3> QED BY <3>1, <3>2, <1>2
  <2>8. setup' >= 6 => uart'[2] = 199
    <3>1. CASE setup = 5  BY <3>1, <2>2, <2>3, <2>6
    <3>2. CASE setup = 6  BY <3>2, <2>2, <2>3, <2>6 DEF SerialInv
    <3> QED BY <3>1, <3>2, <1>2
  <2> QED BY <2>5, <2>7, <2>8
<1>5. UNCHANGED <<fifo, at, sent, heard>>  BY DEF debug_serial_init
<1>6. \A w \in Writers : at[w] # "put"
  <2>1. setup # 7  BY <1>2
  <2> QED BY <2>1, Zenon DEF SerialInv
<1>7. setup' \in 0..7  BY <1>2
<1>8. Len(fifo') + Cardinality(Putting') <= Cardinality(Writers)
  BY <1>3, <1>5 DEF SerialInv
<1> QED BY <1>4, <1>5, <1>6, <1>7, <1>8 DEF SerialInv

\* A writer that sees the FIFO empty: at worst all writers do.
LEMMA PollStep ==
  ASSUME SerialInv, NEW w \in Writers, Poll(w)
  PROVE  SerialInv'
<1>1. Cardinality(Putting') <= Cardinality(Writers) /\ Cardinality(Putting') \in Nat
  <2>1. Putting' \subseteq Writers  BY DEF Putting
  <2> QED BY <2>1, FS_Subset, FS_CardinalityType, SerialAssumption DEF SerialAssumption
<1>2. Len(fifo') = 0  BY DEF Poll
<1>3. setup = 7 /\ sent[w] < Len(Message[w])
  <2>1. Len(InitWrites) = 7  BY DEF InitWrites
  <2> QED BY <2>1 DEF Poll, Printing
<1>4. Len(fifo') + Cardinality(Putting') <= Cardinality(Writers)
  <2>1. PICK m \in Nat : m = Cardinality(Putting')  BY <1>1
  <2>2. PICK n \in Nat : n = Cardinality(Writers)  BY PuttingFinite, SerialAssumption
  <2>3. m <= n  BY <1>1, <2>1, <2>2
  <2>4. 0 + m <= n  BY ONLY <2>3, m \in Nat, n \in Nat
  <2> QED BY ONLY <1>2, <2>1, <2>2, <2>4, Zenon
<1>5. UNCHANGED <<setup, uart, fifo, sent>> /\ at' = [at EXCEPT ![w] = "put"]
  BY DEF Poll
<1>6. at' \in [Writers -> {"poll", "put"}]  BY <1>5 DEF SerialInv
<1>7. \A x \in Writers : at'[x] = "put" => setup' = 7 /\ sent'[x] < Len(Message[x])
  <2> TAKE x \in Writers
  <2>1. CASE x = w  BY <1>3, <1>5, <2>1
  <2>2. CASE x # w
    <3>1. at'[x] = at[x]  BY <1>5, <2>2 DEF SerialInv
    <3>2. at[x] = "put" => setup = 7 /\ sent[x] < Len(Message[x])  BY DEF SerialInv
    <3> QED BY ONLY <1>5, <3>1, <3>2, Zenon
  <2> QED BY <2>1, <2>2
<1> QED BY <1>4, <1>5, <1>6, <1>7 DEF SerialInv

\* One writer less in "put", one character more, if it fits.
LEMMA PutStep ==
  ASSUME SerialInv, NEW w \in Writers, Put(w)
  PROVE  SerialInv'
<1>1. w \in Putting /\ Putting' = Putting \ {w}  BY DEF SerialInv, Put, Putting
<1>2. Cardinality(Putting') = Cardinality(Putting) - 1
  BY <1>1, PuttingFinite, SerialAssumption, FS_RemoveElement
<1>3. ~Dlab(uart)
  <2>1. uart[3] = 3  BY DEF SerialInv, Put
  <2> QED BY <2>1 DEF Dlab
<1>4. Message[w][sent[w] + 1] \in Nat
  <2>1. Message[w] \in Seq(Nat)  BY SerialAssumption DEF SerialAssumption
  <2>2. Len(Message[w]) \in Nat  BY <2>1
  <2>3. sent[w] \in Nat /\ sent[w] < Len(Message[w])  BY DEF SerialInv, Put
  <2>4. sent[w] + 1 \in 1..Len(Message[w])  BY <2>2, <2>3
  <2> QED BY <2>1, <2>4
<1>5. /\ fifo' \in Seq([by : Writers, char : Nat])
      /\ Len(fifo') <= Len(fifo) + 1
  <2> DEFINE c == [by |-> w, char |-> Message[w][sent[w] + 1]]
  <2>1. c \in [by : Writers, char : Nat]  BY <1>4
  <2>2. Transmit(c)  BY <1>3 DEF Put
  <2>3. fifo \in Seq([by : Writers, char : Nat])  BY DEF SerialInv
  <2> HIDE DEF c
  <2>4. CASE Len(fifo) < Room(uart)
    <3>1. fifo' = Append(fifo, c)  BY <2>2, <2>4 DEF Transmit
    <3> QED BY <3>1, <2>1, <2>3
  <2>5. CASE ~(Len(fifo) < Room(uart))
    <3>1. fifo' = fifo  BY <2>2, <2>5 DEF Transmit
    <3> QED BY <3>1, <2>3
  <2> QED BY <2>4, <2>5
<1>6. Len(fifo') + Cardinality(Putting') <= Cardinality(Writers)
  <2>1. Len(fifo) \in Nat /\ Len(fifo') \in Nat
    <3>1. fifo \in Seq([by : Writers, char : Nat])  BY DEF SerialInv
    <3>2. Len(fifo) \in Nat  BY ONLY <3>1, LenProperties
    <3>3. Len(fifo') \in Nat  BY ONLY <1>5, LenProperties
    <3> QED BY <3>2, <3>3
  <2>2. Len(fifo) + Cardinality(Putting) <= Cardinality(Writers)  BY DEF SerialInv
  <2> HIDE DEF Putting
  <2> QED BY <2>1, <2>2, <1>2, <1>5, PuttingFinite, SerialAssumption
<1>7. uart' = uart /\ setup' = setup  BY <1>3 DEF Put
<1>8. \A x \in Writers : at'[x] = "put" => setup' = 7 /\ sent'[x] < Len(Message[x])
  <2>1. /\ sent \in [Writers -> Nat] /\ at \in [Writers -> {"poll", "put"}]
        /\ sent' = [sent EXCEPT ![w] = sent[w] + 1]
        /\ at' = [at EXCEPT ![w] = "poll"] /\ setup' = setup
    BY DEF SerialInv, Put
  <2>2. \A x \in Writers : at[x] = "put" => setup = 7 /\ sent[x] < Len(Message[x])
    BY DEF SerialInv
  <2> QED BY <2>1, <2>2
<1>9. sent' \in [Writers -> Nat] /\ at' \in [Writers -> {"poll", "put"}]
  <2>1. /\ sent \in [Writers -> Nat] /\ at \in [Writers -> {"poll", "put"}]
        /\ sent' = [sent EXCEPT ![w] = sent[w] + 1]
        /\ at' = [at EXCEPT ![w] = "poll"]
    BY DEF SerialInv, Put
  <2>2. sent[w] + 1 \in Nat  BY <2>1
  <2> QED BY <2>1, <2>2
<1> QED BY <1>5, <1>6, <1>7, <1>8, <1>9 DEF SerialInv

LEMMA ShiftStep == SerialInv /\ Shift => SerialInv'
<1> SUFFICES ASSUME SerialInv, Shift PROVE SerialInv'  OBVIOUS
<1>1. Putting' = Putting  BY DEF Putting, Shift
<1>2. fifo' \in Seq([by : Writers, char : Nat]) /\ Len(fifo') <= Len(fifo)
  BY DEF SerialInv, Shift
<1>3. UNCHANGED <<setup, uart, at, sent>>  BY DEF Shift
<1>4. Len(fifo') + Cardinality(Putting') <= Cardinality(Writers)
  <2>1. Len(fifo) \in Nat /\ Len(fifo') \in Nat
    <3>1. fifo \in Seq([by : Writers, char : Nat])  BY DEF SerialInv
    <3> QED BY ONLY <1>2, <3>1, LenProperties
  <2>2. Len(fifo) + Cardinality(Putting) <= Cardinality(Writers)  BY DEF SerialInv
  <2>3. PICK m \in Nat : m = Cardinality(Putting)  BY PuttingFinite, SerialAssumption
  <2>4. PICK n \in Nat : n = Cardinality(Writers)  BY PuttingFinite, SerialAssumption
  <2>5. Len(fifo) + m <= n /\ Len(fifo') <= Len(fifo)  BY <1>2, <2>2, <2>3, <2>4
  <2>6. Len(fifo') + m <= n  BY ONLY <2>1, <2>5, m \in Nat, n \in Nat
  <2> QED BY ONLY <1>1, <2>3, <2>4, <2>6, Zenon
<1> QED BY <1>2, <1>3, <1>4 DEF SerialInv

\* The invariant holds in every behaviour of the serial line.
THEOREM SerialInvariant == SerialSpec => []SerialInv
<1>1. SerialInv /\ [SerialNext]_serialVars => SerialInv'
  <2> SUFFICES ASSUME SerialInv, [SerialNext]_serialVars PROVE SerialInv'  OBVIOUS
  <2>1. CASE debug_serial_init  BY <2>1, SetupStep
  <2>2. CASE Shift  BY <2>2, ShiftStep
  <2>3. ASSUME NEW w \in Writers, Poll(w) PROVE SerialInv'  BY <2>3, PollStep
  <2>4. ASSUME NEW w \in Writers, Put(w) PROVE SerialInv'  BY <2>4, PutStep
  <2>5. CASE UNCHANGED serialVars  BY <2>5 DEF serialVars, SerialInv, Putting
  <2> QED BY <2>1, <2>2, <2>3, <2>4, <2>5 DEF SerialNext
<1> QED BY <1>1, SerialInitInv, PTL DEF SerialSpec

\* The test that a writer has made is still true.
LEMMA RoomToPut ==
  ASSUME SerialInv, NEW w \in Writers, at[w] = "put"
  PROVE  Len(fifo) < Room(uart)
<1>1. w \in Putting  BY DEF Putting
<1>2. Cardinality(Putting) # 0  BY <1>1, PuttingFinite, SerialAssumption, FS_EmptySet
<1>3. Room(uart) = FifoDepth  BY DEF SerialInv, Room
<1>4. FifoDepth \in Nat /\ Cardinality(Writers) <= FifoDepth
  BY SerialAssumption DEF SerialAssumption
<1>5. Len(fifo) \in Nat /\ Len(fifo) + Cardinality(Putting) <= Cardinality(Writers)
  BY DEF SerialInv
<1> QED BY <1>2, <1>3, <1>4, <1>5, PuttingFinite, SerialAssumption

\* No test of the line status (serial.c:61) is out of date when the character
\* is written, for any number of writers up to the depth of the FIFO.
THEOREM SerialNeverOverruns == SerialSpec => []NoOverrun
<1>1. SerialInv => NoOverrun  BY RoomToPut DEF NoOverrun
<1> QED BY <1>1, SerialInvariant, PTL

\* The places of a writer's characters among the first n of a FIFO.
Places(q, w, n) == {i \in 1..n : q[i].by = w}

LEMMA PlacesFinite ==
  ASSUME NEW q, NEW w, NEW n \in Nat
  PROVE  IsFiniteSet(Places(q, w, n)) /\ Cardinality(Places(q, w, n)) \in Nat
<1>1. IsFiniteSet(1..n)  BY FS_Interval
<1>2. Places(q, w, n) \subseteq 1..n  BY DEF Places
<1> QED BY <1>1, <1>2, FS_Subset, FS_CardinalityType

LEMMA PlacesLast ==
  ASSUME NEW q, NEW r, NEW w, NEW n \in Nat, \A i \in 1..n : r[i] = q[i]
  PROVE  /\ r[n + 1].by = w
              => Cardinality(Places(r, w, n + 1)) = Cardinality(Places(q, w, n)) + 1
         /\ r[n + 1].by # w
              => Cardinality(Places(r, w, n + 1)) = Cardinality(Places(q, w, n))
<1>1. Places(r, w, n + 1) = IF r[n + 1].by = w THEN Places(q, w, n) \cup {n + 1}
                                               ELSE Places(q, w, n)
  <2>1. 1..n + 1 = 1..n \cup {n + 1}  OBVIOUS
  <2>2. \A i \in 1..n : i \in 1..n + 1  OBVIOUS
  <2>3. n + 1 \notin 1..n  OBVIOUS
  <2> QED BY <2>1, <2>3, Zenon DEF Places
<1>2. n + 1 \notin Places(q, w, n)  BY DEF Places
<1>3. IsFiniteSet(Places(q, w, n)) /\ Cardinality(Places(q, w, n)) \in Nat
  BY PlacesFinite
<1>4. Cardinality(Places(q, w, n) \cup {n + 1}) = Cardinality(Places(q, w, n)) + 1
  BY <1>2, <1>3, FS_AddElement
<1> QED BY <1>1, <1>3, <1>4

LEMMA PlacesTail ==
  ASSUME NEW q, NEW t, NEW w, NEW n \in Nat, \A i \in 1..n : t[i] = q[i + 1]
  PROVE  /\ q[1].by = w
              => Cardinality(Places(q, w, n + 1)) = Cardinality(Places(t, w, n)) + 1
         /\ q[1].by # w
              => Cardinality(Places(q, w, n + 1)) = Cardinality(Places(t, w, n))
<1> DEFINE S == Places(q, w, n + 1)
           T == Places(t, w, n)
           f == [i \in T |-> i + 1]
<1>1. IsFiniteSet(S) /\ IsFiniteSet(T) /\ Cardinality(S) \in Nat /\ Cardinality(T) \in Nat
  BY PlacesFinite
<1>2. \A i \in T : i + 1 \in S \ {1}  BY DEF Places
<1>3. \A j \in S \ {1} : j - 1 \in T /\ (j - 1) + 1 = j  BY DEF Places
<1>4. \A i, j \in T : i + 1 = j + 1 => i = j  BY DEF Places
<1>5. f \in Bijection(T, S \ {1})
  <2>1. f \in [T -> S \ {1}]  BY <1>2
  <2>2. \A j \in S \ {1} : \E i \in T : f[i] = j
    <3> TAKE j \in S \ {1}
    <3>1. j - 1 \in T /\ f[j - 1] = j  BY <1>3
    <3> QED BY <3>1
  <2>3. \A i, j \in T : f[i] = f[j] => i = j  BY <1>4
  <2> HIDE DEF f, S, T
  <2> QED BY <2>1, <2>2, <2>3 DEF Bijection, Injection, Surjection, IsInjective
<1>6. Cardinality(S \ {1}) = Cardinality(T)
  <2>1. ExistsBijection(T, S \ {1})  BY <1>5 DEF ExistsBijection
  <2> QED BY <1>1, <2>1, FS_Bijection
<1>7. 1 \in S <=> q[1].by = w  BY DEF Places
<1>8. Cardinality(S \ {1}) = IF 1 \in S THEN Cardinality(S) - 1 ELSE Cardinality(S)
  BY <1>1, FS_RemoveElement
<1> HIDE DEF S, T
<1>9. PICK a \in Nat : a = Cardinality(S)  BY <1>1
<1>10. PICK b \in Nat : b = Cardinality(T)  BY <1>1
<1>11. b = IF q[1].by = w THEN a - 1 ELSE a  BY <1>6, <1>7, <1>8, <1>9, <1>10, Zenon
<1>12. (q[1].by = w => a = b + 1) /\ (q[1].by # w => a = b)  BY <1>11
<1> QED BY <1>9, <1>10, <1>12 DEF S, T

\* Of each writer, l characters have been heard, which are h; q is the FIFO and
\* s characters are written.
Intact(q, h, w, s) ==
  /\ Len(h) + Cardinality(Places(q, w, Len(q))) = s
  /\ \A i \in 1..Len(h) : h[i] = Message[w][i]
  /\ \A i \in 1..Len(q) : q[i].by = w =>
       q[i].char = Message[w][Len(h) + Cardinality(Places(q, w, i))]

UndamagedInv ==
  /\ heard \in [Writers -> Seq(Nat)]
  /\ \A w \in Writers : Intact(fifo, heard[w], w, sent[w])

\* A character comes to the FIFO.
LEMMA IntactPut ==
  ASSUME NEW C, NEW q \in Seq(C), NEW c \in C, NEW h \in Seq(Nat), NEW w,
         NEW s \in Nat, Intact(q, h, w, s),
         c.by = w => c.char = Message[w][s + 1]
  PROVE  Intact(Append(q, c), h, w, IF c.by = w THEN s + 1 ELSE s)
<1> DEFINE r == Append(q, c)
<1>1. PICK n \in Nat : n = Len(q)  BY LenProperties
<1>2. PICK l \in Nat : l = Len(h)  BY LenProperties
<1>3. /\ Len(r) = n + 1 /\ r[n + 1] = c
      /\ \A i \in 1..n : r[i] = q[i]
  BY <1>1, AppendProperties
<1> HIDE DEF r
<1>4. PICK b \in Nat : b = Cardinality(Places(r, w, n + 1))  BY PlacesFinite
<1>5. PICK a \in Nat : a = Cardinality(Places(q, w, n))  BY PlacesFinite
<1>6. l + a = s  BY <1>1, <1>2, <1>5 DEF Intact
<1>7. l + b = IF c.by = w THEN s + 1 ELSE s
  <2>1. \A i \in 1..n : r[i] = q[i]  BY <1>3
  <2>2. /\ r[n + 1].by = w
              => Cardinality(Places(r, w, n + 1)) = Cardinality(Places(q, w, n)) + 1
        /\ r[n + 1].by # w
              => Cardinality(Places(r, w, n + 1)) = Cardinality(Places(q, w, n))
    BY <2>1, PlacesLast
  <2>3. (c.by = w => b = a + 1) /\ (c.by # w => b = a)
    <3>1. r[n + 1] = c  BY <1>3
    <3> QED BY ONLY <1>4, <1>5, <2>2, <3>1
  <2>4. CASE c.by = w
    <3>1. b = a + 1  BY <2>3, <2>4
    <3>2. l + b = s + 1  BY ONLY <1>6, <3>1, l \in Nat, a \in Nat, b \in Nat, s \in Nat
    <3> QED BY <2>4, <3>2
  <2>5. CASE c.by # w
    <3>1. b = a  BY <2>3, <2>5
    <3> QED BY <1>6, <2>5, <3>1
  <2> QED BY <2>4, <2>5
<1>8. ASSUME NEW i \in 1..Len(r), r[i].by = w
      PROVE  r[i].char = Message[w][Len(h) + Cardinality(Places(r, w, i))]
  <2>1. CASE i = n + 1
    <3>1. r[i] = c /\ c.by = w  BY <1>3, <1>8, <2>1
    <3>2. l + Cardinality(Places(r, w, i)) = s + 1
      BY <1>4, <1>7, <2>1, <3>1
    <3> QED BY <1>2, <1>6, <3>1, <3>2
  <2>2. CASE i # n + 1
    <3>1. i \in 1..n  BY <1>3, <2>2
    <3>2. \A j \in 1..i : j \in 1..n  BY <3>1
    <3>3. Places(r, w, i) = Places(q, w, i)  BY <1>3, <3>2 DEF Places
    <3>4. r[i] = q[i]  BY <1>3, <3>1
    <3> QED BY <1>1, <1>8, <3>1, <3>3, <3>4 DEF Intact
  <2> QED BY <2>1, <2>2
<1>9. \A i \in 1..Len(h) : h[i] = Message[w][i]  BY DEF Intact
<1> QED BY <1>2, <1>3, <1>4, <1>7, <1>8, <1>9 DEF Intact, r

\* The oldest character of the FIFO is heard.
LEMMA IntactShift ==
  ASSUME NEW C, NEW q \in Seq(C), q # <<>>, q[1].char \in Nat,
         NEW h \in Seq(Nat), NEW w, NEW s \in Nat, Intact(q, h, w, s)
  PROVE  Intact(Tail(q), IF q[1].by = w THEN Append(h, q[1].char) ELSE h, w, s)
<1> DEFINE t == Tail(q)
           g == IF q[1].by = w THEN Append(h, q[1].char) ELSE h
<1>1. PICK n \in Nat : n + 1 = Len(q)
  <2>1. Len(q) \in Nat /\ Len(q) # 0  BY LenProperties, EmptySeq
  <2>2. Len(q) - 1 \in Nat /\ (Len(q) - 1) + 1 = Len(q)  BY <2>1
  <2> QED BY <2>2
<1>2. PICK l \in Nat : l = Len(h)  BY LenProperties
<1>3. Len(t) = n /\ \A i \in 1..n : t[i] = q[i + 1]
  BY <1>1, HeadTailProperties
<1> HIDE DEF t
<1>4. \A k \in 0..n :
        /\ q[1].by = w
             => Cardinality(Places(q, w, k + 1)) = Cardinality(Places(t, w, k)) + 1
        /\ q[1].by # w
             => Cardinality(Places(q, w, k + 1)) = Cardinality(Places(t, w, k))
  <2> TAKE k \in 0..n
  <2>1. k \in Nat /\ \A i \in 1..k : i \in 1..n  OBVIOUS
  <2>2. \A i \in 1..k : t[i] = q[i + 1]  BY <1>3, <2>1
  <2> QED BY <2>1, <2>2, PlacesTail
<1>5. \A k \in 0..n : Cardinality(Places(t, w, k)) \in Nat
  BY PlacesFinite
<1>6. /\ Len(g) = l + (IF q[1].by = w THEN 1 ELSE 0)
      /\ \A i \in 1..l : g[i] = h[i]
      /\ q[1].by = w => g[l + 1] = q[1].char
  BY <1>2, AppendProperties
<1> HIDE DEF g
<1>7. l + Cardinality(Places(q, w, n + 1)) = s  BY <1>1, <1>2 DEF Intact
<1> DEFINE heads == IF q[1].by = w THEN 1 ELSE 0
<1> HIDE DEF heads
<1>8. Len(g) + Cardinality(Places(t, w, Len(t))) = s
  <2>1. n \in 0..n  OBVIOUS
  <2>2. PICK a \in Nat : a = Cardinality(Places(t, w, n))  BY <1>5, <2>1
  <2>3. Cardinality(Places(q, w, n + 1)) = a + heads
    BY <1>4, <2>1, <2>2 DEF heads
  <2>4. Len(g) = l + heads /\ heads \in Nat  BY <1>6 DEF heads
  <2>5. (l + heads) + a = s  BY <1>7, <2>3, <2>4
  <2> QED BY <1>3, <2>2, <2>4, <2>5
<1>9. ASSUME NEW i \in 1..Len(g) PROVE g[i] = Message[w][i]
  <2>1. CASE i \in 1..l  BY <1>2, <1>6, <2>1 DEF Intact
  <2>2. CASE i \notin 1..l
    <3>1. q[1].by = w /\ i = l + 1  BY <1>6, <1>9, <2>2
    <3>2. 1 \in 1..Len(q)  BY <1>1
    <3>3. q[1].char = Message[w][l + Cardinality(Places(q, w, 1))]
      BY <1>2, <3>1, <3>2 DEF Intact
    <3>4. Places(q, w, 1) = {1}  BY <3>1 DEF Places
    <3>5. Cardinality(Places(q, w, 1)) = 1  BY <3>4, FS_Singleton
    <3> QED BY <1>6, <3>1, <3>3, <3>5
  <2> QED BY <2>1, <2>2
<1>10. ASSUME NEW i \in 1..Len(t), t[i].by = w
       PROVE  t[i].char = Message[w][Len(g) + Cardinality(Places(t, w, i))]
  <2>1. i \in 0..n /\ i \in 1..n /\ i + 1 \in 1..Len(q)  BY <1>1, <1>3
  <2>2. t[i] = q[i + 1]  BY <1>3, <2>1
  <2>3. q[i + 1].char = Message[w][l + Cardinality(Places(q, w, i + 1))]
    BY <1>2, <1>10, <2>1, <2>2 DEF Intact
  <2>4. PICK a \in Nat : a = Cardinality(Places(t, w, i))  BY <1>5, <2>1
  <2>5. Cardinality(Places(q, w, i + 1)) = a + heads
    BY <1>4, <2>1, <2>4 DEF heads
  <2>6. l + Cardinality(Places(q, w, i + 1)) = Len(g) + a
    <3>1. Len(g) = l + heads /\ heads \in Nat  BY <1>6 DEF heads
    <3>2. l + (a + heads) = (l + heads) + a  BY <3>1
    <3> QED BY <2>5, <3>1, <3>2
  <2> QED BY <2>2, <2>3, <2>4, <2>6
<1> QED BY <1>8, <1>9, <1>10 DEF Intact, t, g

LEMMA UndamagedInit == SerialInit => UndamagedInv
<1> SUFFICES ASSUME SerialInit, NEW w \in Writers PROVE Intact(fifo, heard[w], w, sent[w])
  BY DEF SerialInit, UndamagedInv
<1>1. fifo = <<>> /\ heard[w] = <<>> /\ sent[w] = 0 /\ Len(<<>>) = 0  BY DEF SerialInit
<1>2. Places(fifo, w, 0) = {}  BY DEF Places
<1>3. Cardinality(Places(fifo, w, 0)) = 0  BY <1>2, FS_EmptySet
<1> QED BY <1>1, <1>3 DEF Intact

\* There is room for the character, and the data register is in its place.
LEMMA UndamagedPut ==
  ASSUME SerialInv, UndamagedInv, NEW w \in Writers, Put(w)
  PROVE  UndamagedInv'
<1> DEFINE C == [by : Writers, char : Nat]
           c == [by |-> w, char |-> Message[w][sent[w] + 1]]
<1>1. /\ fifo \in Seq(C) /\ sent \in [Writers -> Nat] /\ heard \in [Writers -> Seq(Nat)]
      /\ at[w] = "put" /\ ~Dlab(uart) /\ Len(fifo) < Room(uart)
  <2>1. at[w] = "put"  BY DEF Put
  <2>2. Len(fifo) < Room(uart)  BY <2>1, RoomToPut
  <2>3. ~Dlab(uart)
    <3>1. uart[3] = 3  BY <2>1 DEF SerialInv
    <3> QED BY <3>1 DEF Dlab
  <2> QED BY <2>1, <2>2, <2>3 DEF SerialInv, UndamagedInv
<1>2. c \in C
  <2>1. Message[w] \in Seq(Nat) /\ Len(Message[w]) \in Nat
    BY SerialAssumption, LenProperties DEF SerialAssumption
  <2>2. sent[w] < Len(Message[w])  BY <1>1 DEF SerialInv
  <2>3. sent[w] + 1 \in 1..Len(Message[w])  BY <1>1, <2>1, <2>2
  <2> QED BY <2>1, <2>3, ElementOfSeq
<1>3. fifo' = Append(fifo, c) /\ heard' = heard /\ sent' = [sent EXCEPT ![w] = @ + 1]
  BY <1>1 DEF Put, Transmit
<1>4. c.by = w /\ c.char = Message[w][sent[w] + 1]  OBVIOUS
<1> HIDE DEF c, C
<1>5. ASSUME NEW v \in Writers PROVE Intact(fifo', heard'[v], v, sent'[v])
  <2>1. heard[v] \in Seq(Nat) /\ sent[v] \in Nat /\ Intact(fifo, heard[v], v, sent[v])
    BY <1>1 DEF UndamagedInv
  <2>2. sent'[v] = IF c.by = v THEN sent[v] + 1 ELSE sent[v]  BY <1>1, <1>3, <1>4
  <2>3. c.by = v => c.char = Message[v][sent[v] + 1]  BY <1>4
  <2>4. Intact(Append(fifo, c), heard[v], v, IF c.by = v THEN sent[v] + 1 ELSE sent[v])
    BY <1>1, <1>2, <2>1, <2>3, IntactPut
  <2> QED BY <1>3, <2>2, <2>4
<1> QED BY <1>1, <1>3, <1>5 DEF UndamagedInv, Intact, Places

LEMMA UndamagedShift ==
  ASSUME SerialInv, UndamagedInv, Shift
  PROVE  UndamagedInv'
<1> DEFINE C == [by : Writers, char : Nat]
<1>1. /\ fifo \in Seq(C) /\ sent \in [Writers -> Nat] /\ heard \in [Writers -> Seq(Nat)]
      /\ fifo # <<>>
  BY DEF SerialInv, UndamagedInv, Shift
<1>2. PICK c : c = fifo[1]  OBVIOUS
<1>3. c \in C
  <2>1. Len(fifo) \in Nat /\ Len(fifo) # 0  BY <1>1, LenProperties, EmptySeq
  <2>2. 1 \in 1..Len(fifo)  BY <2>1
  <2> QED BY <1>1, <1>2, <2>2, ElementOfSeq
<1>4. c.by \in Writers /\ c.char \in Nat  BY <1>3
<1>5. /\ fifo' = Tail(fifo) /\ sent' = sent
      /\ heard' = [heard EXCEPT ![c.by] = Append(@, c.char)]
  <2>1. Head(fifo) = c  BY <1>1, <1>2, HeadTailProperties
  <2> QED BY <2>1 DEF Shift
<1> HIDE DEF C
<1>6. heard' \in [Writers -> Seq(Nat)]
  <2>1. Append(heard[c.by], c.char) \in Seq(Nat)  BY <1>1, <1>4, AppendProperties
  <2> QED BY <1>1, <1>5, <2>1
<1>7. ASSUME NEW v \in Writers PROVE Intact(fifo', heard'[v], v, sent'[v])
  <2>1. heard[v] \in Seq(Nat) /\ sent[v] \in Nat /\ Intact(fifo, heard[v], v, sent[v])
    BY <1>1 DEF UndamagedInv
  <2>2. heard'[v] = IF c.by = v THEN Append(heard[v], c.char) ELSE heard[v]
    BY <1>1, <1>4, <1>5
  <2>3. Intact(Tail(fifo), IF c.by = v THEN Append(heard[v], c.char) ELSE heard[v], v, sent[v])
    BY <1>1, <1>2, <1>4, <2>1, IntactShift
  <2> QED BY <1>5, <2>2, <2>3
<1> QED BY <1>6, <1>7 DEF UndamagedInv, Intact, Places

\* Serial.Undamaged: whoever prints at the same time, what each writer prints
\* arrives complete and in order (serial.c:24-66).
THEOREM SerialUndamaged == SerialSpec => []Undamaged
<1>1. SerialInv /\ UndamagedInv /\ [SerialNext]_serialVars => UndamagedInv'
  <2> SUFFICES ASSUME SerialInv, UndamagedInv, [SerialNext]_serialVars
               PROVE  UndamagedInv'
    OBVIOUS
  <2>1. CASE Shift  BY <2>1, UndamagedShift
  <2>2. ASSUME NEW w \in Writers, Put(w) PROVE UndamagedInv'  BY <2>2, UndamagedPut
  <2>3. CASE UNCHANGED <<fifo, sent, heard>>
    <3>1. /\ heard' \in [Writers -> Seq(Nat)]
          /\ \A w \in Writers : Intact(fifo', heard'[w], w, sent'[w])
      BY <2>3 DEF UndamagedInv
    <3> QED BY <3>1 DEF UndamagedInv, Intact, Places
  <2>4. ASSUME NEW w \in Writers, Poll(w) PROVE UNCHANGED <<fifo, sent, heard>>
    BY <2>4 DEF Poll
  <2> QED BY <2>1, <2>2, <2>3, <2>4 DEF SerialNext, debug_serial_init, serialVars
<1>2. UndamagedInv => Undamaged
  BY DEF UndamagedInv, Undamaged, Intact, Queued, Places
<1> QED BY <1>1, <1>2, UndamagedInit, SerialInvariant, PTL DEF SerialSpec

-----------------------------------------------------------------------------
(* The clock                                                                 *)

\* No tick has come since c has begun its last test of UIP.
Untouched(c) == Reading(c) /\ ~disturbed[c]

\* While such a process reads, no other runs and no update comes.
ReadsNow(c) ==
  /\ caller = c
  /\ place[c].half = "in" => address = Registers[place[c].at]
  /\ place[c].at > 1 =>
       /\ phase # "update"
       /\ fields[c] \in Seq(Nat) /\ Len(fields[c]) = place[c].at - 2
       /\ \A i \in 1..place[c].at-2 : fields[c][i] = Stored(now, i)

\* What a call that ended at time t should return.
Reads(t) == [i \in 1..6 |-> IF i = 6 THEN 2000 + Times[t][6] ELSE Times[t][i]]

CallOfClock(c) ==
  /\ place[c].half = "user" <=> place[c].at = 0
  /\ place[c].half # "user" => time[c] = <<>>
  /\ place[c].at = 1 => fields[c] = <<>>
  /\ began[c] \in 1..now
  /\ Untouched(c) => ReadsNow(c)
  /\ time[c] # <<>> /\ ~disturbed[c] => \E t \in began[c]..now : time[c] = Reads(t)

ClockInv ==
  /\ now \in 1..Len(Times)
  /\ phase \in {"quiet", "announced", "update"}
  /\ phase # "quiet" => now < Len(Times)
  /\ binary \in BOOLEAN /\ caller \in Callers
  /\ place \in [Callers -> [at : 0..8, half : {"user", "out", "in"}]]
  /\ disturbed \in [Callers -> BOOLEAN]
  /\ DOMAIN fields = Callers /\ DOMAIN time = Callers /\ DOMAIN began = Callers
  /\ \A c \in Callers : CallOfClock(c)

\* BCD_TO_BIN undoes the clock's format.
LEMMA BcdRoundTrip ==
  ASSUME NEW n \in 0..99
  PROVE  ToBcd(n) \in Nat /\ BCD_TO_BIN(ToBcd(n)) = n
<1>1. PICK t \in 0..9, u \in 0..9 : n = 10 * t + u /\ n \div 10 = t /\ n % 10 = u
  BY Z3
<1>2. PICK b \in Nat : b = 16 * t + u  OBVIOUS
<1>3. b \div 16 = t /\ b % 16 = u  BY <1>2, Z3
<1>4. ToBcd(n) = b  BY <1>1, <1>2 DEF ToBcd
<1>5. BCD_TO_BIN(b) = u + 10 * t  BY <1>3 DEF BCD_TO_BIN
<1> QED BY <1>1, <1>4, <1>5

LEMMA StoredIs ==
  ASSUME NEW t \in 1..Len(Times), NEW i \in 1..6
  PROVE  /\ Times[t][i] \in 0..99 /\ Stored(t, i) \in Nat
         /\ ~binary => BCD_TO_BIN(Stored(t, i)) = Times[t][i]
         /\ binary => Stored(t, i) = Times[t][i]
<1>1. Times[t][i] \in 0..99
  <2>1. Times[t] \in [1..6 -> 0..99]  BY ClockAssumption, ElementOfSeq
  <2> QED BY <2>1
<1>2. PICK n \in 0..99 : n = Times[t][i]  BY <1>1
<1>3. ToBcd(n) \in Nat /\ BCD_TO_BIN(ToBcd(n)) = n  BY BcdRoundTrip
<1>4. n \in Nat  OBVIOUS
<1>5. CASE binary
  <2>1. Stored(t, i) = n  BY <1>2, <1>5 DEF Stored
  <2>2. Stored(t, i) \in Nat  BY <1>4, <2>1, Zenon
  <2>3. Stored(t, i) = Times[t][i]  BY <1>2, <2>1, Zenon
  <2> QED BY <1>1, <1>5, <2>2, <2>3, Zenon
<1>6. CASE ~binary
  <2>1. Stored(t, i) = ToBcd(n)  BY <1>2, <1>6 DEF Stored
  <2>2. Stored(t, i) \in Nat  BY <1>3, <2>1, Zenon
  <2>3. BCD_TO_BIN(Stored(t, i)) = Times[t][i]  BY <1>2, <1>3, <2>1, Zenon
  <2> QED BY <1>1, <1>6, <2>2, <2>3, Zenon
<1> QED BY <1>5, <1>6, Zenon

LEMMA AnswersAre ==
  ASSUME ClockInv
  PROVE  /\ \A k \in 2..7 : phase # "update" =>
              \A v \in Answers(Registers[k]) : v = Stored(now, k - 1)
         /\ \A v \in Answers(Registers[1]) : v < 128 => phase = "quiet"
         /\ \A v \in Answers(Registers[8]) :
              v \in Nat /\ ((v \div 4) % 2 = 0 <=> ~binary)
<1>1. ASSUME NEW k \in 2..7, phase # "update", NEW v \in Answers(Registers[k])
      PROVE  v = Stored(now, k - 1)
  <2>1. Registers[k] # 10 /\ Registers[k] # 11  BY DEF Registers
  <2>2. \A i \in 2..7 : Registers[i] = Registers[k] => i = k  BY DEF Registers
  <2>3. (CHOOSE i \in 2..7 : Registers[i] = Registers[k]) = k  BY <2>2
  <2>4. Answers(Registers[k]) = {Stored(t, k - 1) : t \in {now}}
    BY <1>1, <2>1, <2>3 DEF Answers
  <2> QED BY <2>4
<1>2. Answers(Registers[1]) = {IF phase = "quiet" THEN 38 ELSE 166}
  <2>1. Registers[1] = 10  BY DEF Registers
  <2> QED BY <2>1 DEF Answers
<1>3. Answers(Registers[8]) = {IF binary THEN 6 ELSE 2}
  <2>1. Registers[8] = 11  BY DEF Registers
  <2> QED BY <2>1 DEF Answers
<1>4. (6 \div 4) % 2 = 1 /\ (2 \div 4) % 2 = 0  BY Z3
<1>5. \A v \in Answers(Registers[8]) :
        v \in Nat /\ ((v \div 4) % 2 = 0 <=> ~binary)
  <2>1. binary \in BOOLEAN  BY DEF ClockInv
  <2>2. CASE binary  BY <1>3, <1>4, <2>2
  <2>3. CASE ~binary  BY <1>3, <1>4, <2>3
  <2> QED BY <2>1, <2>2, <2>3
<1> QED BY <1>1, <1>2, <1>5

\* A step by which a process other than c moves leaves what is said of c.
LEMMA OtherCall ==
  ASSUME NEW c \in Callers, CallOfClock(c), ~Untouched(c), now' = now,
         disturbed'[c] = disturbed[c], place'[c] = place[c],
         fields'[c] = fields[c], began'[c] = began[c], time'[c] = time[c]
  PROVE  CallOfClock(c)'
<1>1. ~Untouched(c)'  BY DEF Untouched, Reading
<1>2. \A t : Reads(t)' = Reads(t)  BY DEF Reads
<1> QED BY <1>1, <1>2 DEF CallOfClock

LEMMA ClockInitInv ==
  ASSUME NEW first \in Callers, NEW mode \in BOOLEAN, ClockInit(first, mode)
  PROVE  ClockInv
<1>1. Len(Times) \in Nat /\ Len(Times) > 0  BY ClockAssumption
<1>2. ASSUME NEW c \in Callers PROVE CallOfClock(c)
  <2>1. ~Untouched(c)  BY DEF ClockInit, Untouched, Reading
  <2> QED BY <2>1 DEF ClockInit, CallOfClock
<1> QED BY <1>1, <1>2 DEF ClockInit, ClockInv

LEMMA CallStep == ClockInv /\ Call => ClockInv'
<1> SUFFICES ASSUME ClockInv, Call PROVE ClockInv'  OBVIOUS
<1>1. caller \in Callers /\ place[caller].half = "user"
  BY DEF ClockInv, Call, AtPort
<1>2. place' \in [Callers -> [at : 0..8, half : {"user", "out", "in"}]]
  BY <1>1 DEF ClockInv, Call, Goes
<1>3. place'[caller] = [at |-> 1, half |-> "out"]
  BY <1>1 DEF ClockInv, Call, Goes
<1>4. ASSUME NEW c \in Callers PROVE CallOfClock(c)'
  <2>1. CallOfClock(c) /\ now \in 1..Len(Times)  BY DEF ClockInv
  <2>2. CASE c # caller
    <3>1. ~Untouched(c)  BY <2>1, <2>2 DEF CallOfClock, ReadsNow
    <3>2. place'[c] = place[c] /\ fields'[c] = fields[c] /\ time'[c] = time[c]
          /\ began'[c] = began[c]
      BY <2>2 DEF Call, Goes, ClockInv
    <3> QED BY <2>1, <3>1, <3>2, OtherCall DEF Call
  <2>3. CASE c = caller
    <3>1. time'[c] = <<>> /\ fields'[c] = <<>> /\ began'[c] = now /\ now' = now
      BY <2>3 DEF Call, ClockInv
    <3>2. ~Untouched(c)'  BY <2>3, <1>3 DEF Untouched, Reading
    <3>3. place'[c].at = 1 /\ place'[c].half = "out"  BY <1>3, <2>3
    <3>4. now \in 1..now  BY <2>1
    <3> QED BY <3>1, <3>2, <3>3, <3>4 DEF CallOfClock
  <2> QED BY <2>2, <2>3
<1> QED BY <1>2, <1>4 DEF ClockInv, Call

LEMMA SelectStep == ClockInv /\ Select => ClockInv'
<1> SUFFICES ASSUME ClockInv, Select PROVE ClockInv'  OBVIOUS
<1>1. caller \in Callers /\ place[caller].half = "out"
  BY DEF ClockInv, Select, AtPort
<1>2. PICK k : k = place[caller].at  OBVIOUS
<1>3. k \in 1..8
  <2>1. CallOfClock(caller) /\ k \in 0..8  BY <1>1, <1>2 DEF ClockInv
  <2> QED BY <1>1, <1>2, <2>1 DEF CallOfClock
<1>4. place' \in [Callers -> [at : 0..8, half : {"user", "out", "in"}]]
  BY <1>1, <1>2, <1>3 DEF ClockInv, Select, Goes
<1>5. place'[caller] = [at |-> k, half |-> "in"]
  BY <1>1, <1>2 DEF ClockInv, Select, Goes
<1>6. disturbed'[caller] = (disturbed[caller] /\ k # 1)
  BY <1>1, <1>2 DEF ClockInv, Select
<1>7. disturbed' \in [Callers -> BOOLEAN]
  BY <1>1 DEF ClockInv, Select
<1>8. ASSUME NEW c \in Callers PROVE CallOfClock(c)'
  <2>1. CallOfClock(c)  BY DEF ClockInv
  <2>2. CASE c # caller
    <3>1. ~Untouched(c)  BY <2>1, <2>2 DEF CallOfClock, ReadsNow
    <3>2. place'[c] = place[c] /\ disturbed'[c] = disturbed[c]
      BY <2>2 DEF Select, Goes, ClockInv
    <3> QED BY <2>1, <3>1, <3>2, OtherCall DEF Select
  <2>3. CASE c = caller
    <3>1. /\ fields'[c] = fields[c] /\ time'[c] = time[c] /\ began'[c] = began[c]
          /\ now' = now /\ caller' = caller /\ phase' = phase /\ binary' = binary
      BY DEF Select
    <3>2. place'[c].at = k /\ place'[c].half = "in" /\ place[c].at = k
          /\ place[c].half = "out"
      BY <1>1, <1>2, <1>5, <2>3
    <3>3. address' = Registers[k]  BY <1>2 DEF Select
    <3>4. ASSUME k > 1, ~disturbed'[c] PROVE ReadsNow(c)
      <4>1. k # 1  BY <1>3, <3>4
      <4>2. ~disturbed[c]  BY <1>6, <2>3, <3>4, <4>1
      <4>3. Reading(c)  BY <3>2, <3>4 DEF Reading
      <4> QED BY <2>1, <4>2, <4>3 DEF CallOfClock, Untouched
    <3>5. \A i : Stored(now, i)' = Stored(now, i)  BY <3>1 DEF Stored
    <3>6. Untouched(c)' => ReadsNow(c)'
      <4>1. CASE k = 1  BY <2>3, <3>1, <3>2, <3>3, <4>1 DEF ReadsNow
      <4>2. CASE k > 1
        BY <2>3, <3>1, <3>2, <3>3, <3>4, <3>5, <4>2 DEF ReadsNow, Untouched
      <4> QED BY <1>3, <4>1, <4>2
    <3>7. time[c] = <<>>  BY <2>1, <3>2 DEF CallOfClock
    <3> QED BY <1>3, <2>1, <3>1, <3>2, <3>6, <3>7 DEF CallOfClock
  <2> QED BY <2>2, <2>3
<1> QED BY <1>4, <1>7, <1>8 DEF ClockInv, Select

\* A clear UIP: no update before the process has read all it wants.
LEMMA TestUipStep == ClockInv /\ TestUip => ClockInv'
<1> SUFFICES ASSUME ClockInv, TestUip PROVE ClockInv'  OBVIOUS
<1>1. caller \in Callers /\ place[caller].half = "in" /\ place[caller].at = 1
  BY DEF ClockInv, TestUip, AtPort
<1>2. PICK v \in Answers(address) : Goes(IF v >= 128 THEN 1 ELSE 2, "out")
  BY DEF TestUip
<1>3. PICK k \in {1, 2} : k = (IF v >= 128 THEN 1 ELSE 2)  OBVIOUS
<1>4. place' \in [Callers -> [at : 0..8, half : {"user", "out", "in"}]]
  BY <1>1, <1>2, <1>3 DEF ClockInv, Goes
<1>5. place'[caller] = [at |-> k, half |-> "out"]
  BY <1>1, <1>2, <1>3 DEF ClockInv, Goes
<1>6. ASSUME NEW c \in Callers PROVE CallOfClock(c)'
  <2>1. CallOfClock(c)  BY DEF ClockInv
  <2>2. CASE c # caller
    <3>1. ~Untouched(c)  BY <2>1, <2>2 DEF CallOfClock, ReadsNow
    <3>2. place'[c] = place[c]  BY <1>2, <2>2 DEF Goes, ClockInv
    <3> QED BY <2>1, <3>1, <3>2, OtherCall DEF TestUip
  <2>3. CASE c = caller
    <3>1. /\ fields' = fields /\ time' = time /\ began' = began /\ disturbed' = disturbed
          /\ now' = now /\ caller' = caller /\ phase' = phase /\ binary' = binary
      BY DEF TestUip
    <3>2. place'[c].at = k /\ place'[c].half = "out"  BY <1>5, <2>3
    <3>3. time[c] = <<>> /\ fields[c] = <<>>  BY <1>1, <2>1, <2>3 DEF CallOfClock
    <3>4. Untouched(c)' => ReadsNow(c)'
      <4> SUFFICES ASSUME Untouched(c)' PROVE ReadsNow(c)'  OBVIOUS
      <4>1. k = 2  BY <3>2 DEF Untouched, Reading
      <4>2. ReadsNow(c)
        BY <1>1, <2>1, <2>3, <3>1 DEF Untouched, Reading, CallOfClock
      <4>3. address = Registers[1]  BY <1>1, <2>3, <4>2 DEF ReadsNow
      <4>4. v < 128
        <5>1. v \in {38, 166}
          BY <4>3 DEF Answers, Registers
        <5> QED BY <1>3, <4>1, <5>1
      <4>5. phase = "quiet"  BY <4>3, <4>4, AnswersAre
      <4>6. fields'[c] \in Seq(Nat) /\ Len(fields'[c]) = 0 /\ 1..k-2 = {}
        BY <3>1, <3>3, <4>1
      <4>7. place'[c].at - 2 = 0 /\ 1..place'[c].at-2 = {}  BY <3>2, <4>1
      <4> QED BY <2>3, <3>1, <3>2, <4>5, <4>6, <4>7 DEF ReadsNow
    <3> QED BY <1>3, <2>1, <3>1, <3>2, <3>3, <3>4 DEF CallOfClock
  <2> QED BY <2>2, <2>3
<1> QED BY <1>4, <1>6 DEF ClockInv, TestUip

\* Every field it reads is one of the present time.
LEMMA ReadFieldStep == ClockInv /\ ReadField => ClockInv'
<1> SUFFICES ASSUME ClockInv, ReadField PROVE ClockInv'  OBVIOUS
<1>1. PICK k \in 2..7 : k = place[caller].at  BY DEF ReadField
<1>2. caller \in Callers /\ place[caller].half = "in"
  BY DEF ClockInv, ReadField, AtPort
<1>3. k + 1 \in 3..8  OBVIOUS
<1>4. place' \in [Callers -> [at : 0..8, half : {"user", "out", "in"}]]
  BY <1>1, <1>2, <1>3 DEF ClockInv, ReadField, Goes
<1>5. place'[caller] = [at |-> k + 1, half |-> "out"]
  BY <1>1, <1>2 DEF ClockInv, ReadField, Goes
<1>6. DOMAIN fields' = Callers  BY DEF ClockInv, ReadField
<1>7. ASSUME NEW c \in Callers PROVE CallOfClock(c)'
  <2>1. CallOfClock(c)  BY DEF ClockInv
  <2>2. CASE c # caller
    <3>1. ~Untouched(c)  BY <2>1, <2>2 DEF CallOfClock, ReadsNow
    <3>2. place'[c] = place[c] /\ fields'[c] = fields[c]
      BY <2>2 DEF Goes, ClockInv, ReadField
    <3> QED BY <2>1, <3>1, <3>2, OtherCall DEF ReadField
  <2>3. CASE c = caller
    <3>1. /\ time' = time /\ began' = began /\ disturbed' = disturbed
          /\ now' = now /\ caller' = caller /\ phase' = phase /\ binary' = binary
      BY DEF ReadField
    <3>2. place'[c].at = k + 1 /\ place'[c].half = "out"  BY <1>5, <2>3
    <3>3. time[c] = <<>>  BY <1>2, <2>1, <2>3 DEF CallOfClock
    <3>4. Untouched(c)' => ReadsNow(c)'
      <4> SUFFICES ASSUME Untouched(c)' PROVE ReadsNow(c)'  OBVIOUS
      <4>1. ~disturbed[c]  BY <3>1 DEF Untouched
      <4>2. ReadsNow(c)
        BY <1>2, <2>1, <2>3, <4>1 DEF Untouched, Reading, CallOfClock
      <4>3. address = Registers[k]  BY <1>1, <1>2, <2>3, <4>2 DEF ReadsNow
      <4>4. place[c].at = k /\ k > 1  BY <1>1, <2>3
      <4>5. phase # "update" /\ fields[c] \in Seq(Nat) /\ Len(fields[c]) = k - 2
        BY <4>2, <4>4 DEF ReadsNow
      <4>6. \A i \in 1..k-2 : fields[c][i] = Stored(now, i)
        BY <4>2, <4>4 DEF ReadsNow
      <4>7. PICK v \in Answers(address) : fields'[c] = Append(fields[c], v)
        BY <2>3, <4>1 DEF ReadField, ClockInv
      <4>8. v = Stored(now, k - 1)  BY <4>3, <4>5, <4>7, AnswersAre
      <4>9. v \in Nat
        <5>1. now \in 1..Len(Times) /\ k - 1 \in 1..6  BY DEF ClockInv
        <5> QED BY <4>8, <5>1, StoredIs
      <4>10. fields'[c] \in Seq(Nat) /\ Len(fields'[c]) = k - 1
        BY <4>5, <4>7, <4>9
      <4>11. \A i \in 1..k-1 : fields'[c][i] = Stored(now, i)
        <5> SUFFICES ASSUME NEW i \in 1..k-1 PROVE fields'[c][i] = Stored(now, i)
          OBVIOUS
        <5>1. CASE i = k - 1  BY <4>5, <4>7, <4>8, <5>1
        <5>2. CASE i # k - 1
          <6>1. i \in 1..k-2  BY <5>2
          <6>2. fields'[c][i] = fields[c][i]  BY <4>5, <4>7, <6>1
          <6> QED BY <4>6, <6>1, <6>2
        <5> QED BY <5>1, <5>2
      <4>12. \A i : Stored(now, i)' = Stored(now, i)  BY <3>1 DEF Stored
      <4>13. place'[c].at - 2 = k - 1  BY <3>2
      <4> QED BY <2>3, <3>1, <3>2, <4>5, <4>10, <4>11, <4>12, <4>13 DEF ReadsNow
    <3> QED BY <1>3, <2>1, <3>1, <3>2, <3>3, <3>4 DEF CallOfClock
  <2> QED BY <2>2, <2>3
<1> QED BY <1>4, <1>6, <1>7 DEF ClockInv, ReadField

\* The six fields of an untouched call, converted, are the present time.
LEMMA ReadStatusBStep == ClockInv /\ ReadStatusB => ClockInv'
<1> SUFFICES ASSUME ClockInv, ReadStatusB PROVE ClockInv'  OBVIOUS
<1>1. caller \in Callers /\ place[caller].half = "in" /\ place[caller].at = 8
  BY DEF ClockInv, ReadStatusB, AtPort
<1>2. place' \in [Callers -> [at : 0..8, half : {"user", "out", "in"}]]
  BY <1>1 DEF ClockInv, ReadStatusB, Goes
<1>3. place'[caller] = [at |-> 0, half |-> "user"]
  BY <1>1 DEF ClockInv, ReadStatusB, Goes
<1>4. DOMAIN time' = Callers  BY DEF ClockInv, ReadStatusB
<1>5. ASSUME NEW c \in Callers PROVE CallOfClock(c)'
  <2>1. CallOfClock(c)  BY DEF ClockInv
  <2>2. CASE c # caller
    <3>1. ~Untouched(c)  BY <2>1, <2>2 DEF CallOfClock, ReadsNow
    <3>2. place'[c] = place[c] /\ time'[c] = time[c]
      BY <2>2 DEF Goes, ClockInv, ReadStatusB
    <3> QED BY <2>1, <3>1, <3>2, OtherCall DEF ReadStatusB
  <2>3. CASE c = caller
    <3>1. /\ fields' = fields /\ began' = began /\ disturbed' = disturbed /\ now' = now
      BY DEF ReadStatusB
    <3>2. place'[c].at = 0 /\ place'[c].half = "user"  BY <1>3, <2>3
    <3>3. ~Untouched(c)'  BY <3>2 DEF Untouched, Reading
    <3>4. began[c] \in 1..now /\ now \in 1..Len(Times)  BY <2>1 DEF CallOfClock, ClockInv
    <3>5. ~disturbed[c] => time'[c] = Reads(now)
      <4> SUFFICES ASSUME ~disturbed[c] PROVE time'[c] = Reads(now)  OBVIOUS
      <4>1. ReadsNow(c)
        BY <1>1, <2>1, <2>3 DEF Untouched, Reading, CallOfClock
      <4>2. address = Registers[8]  BY <1>1, <2>3, <4>1 DEF ReadsNow
      <4>3. \A i \in 1..6 : fields[c][i] = Stored(now, i)
        BY <1>1, <2>3, <4>1 DEF ReadsNow
      <4>4. PICK b \in Answers(address) :
              time'[c] = Convert(IF (b \div 4) % 2 = 0
                                 THEN [i \in 1..6 |-> BCD_TO_BIN(fields[c][i])]
                                 ELSE fields[c])
        BY <2>3 DEF ReadStatusB, ClockInv
      <4>5. (b \div 4) % 2 = 0 <=> ~binary  BY <4>2, <4>4, AnswersAre
      <4>6. PICK g : g = (IF (b \div 4) % 2 = 0
                         THEN [i \in 1..6 |-> BCD_TO_BIN(fields[c][i])]
                         ELSE fields[c])
        OBVIOUS
      <4>7. ASSUME NEW i \in 1..6 PROVE g[i] = Times[now][i]
        <5>1. /\ ~binary => BCD_TO_BIN(Stored(now, i)) = Times[now][i]
              /\ binary => Stored(now, i) = Times[now][i]
          BY <3>4, StoredIs
        <5>2. CASE binary
          <6>1. g = fields[c]  BY <4>5, <4>6, <5>2
          <6> QED BY <4>3, <5>1, <5>2, <6>1
        <5>3. CASE ~binary
          <6>1. g = [j \in 1..6 |-> BCD_TO_BIN(fields[c][j])]  BY <4>5, <4>6, <5>3
          <6>2. g[i] = BCD_TO_BIN(fields[c][i])  BY <6>1
          <6> QED BY <4>3, <5>1, <5>3, <6>2
        <5> QED BY <5>2, <5>3
      <4>8. time'[c] = [i \in 1..6 |-> IF i = 6 THEN 2000 + g[i] ELSE g[i]]
        BY <4>4, <4>6 DEF Convert
      <4>9. [i \in 1..6 |-> IF i = 6 THEN 2000 + g[i] ELSE g[i]] = Reads(now)
        BY <4>7 DEF Reads
      <4> QED BY <4>8, <4>9
    <3>6. \A t : Reads(t)' = Reads(t)  BY DEF Reads
    <3>7. now \in began[c]..now  BY <3>4
    <3>8. time'[c] # <<>> /\ ~disturbed'[c] =>
            \E t \in began'[c]..now' : time'[c] = Reads(t)'
      BY <3>1, <3>5, <3>6, <3>7
    <3> QED BY <3>1, <3>2, <3>3, <3>4, <3>8 DEF CallOfClock
  <2> QED BY <2>2, <2>3
<1> QED BY <1>2, <1>4, <1>5 DEF ClockInv, ReadStatusB

\* The old process is disturbed if it reads; the new one does not read untouched.
LEMMA PreemptStep == ClockInv /\ Preempt => ClockInv'
<1> SUFFICES ASSUME ClockInv, Preempt PROVE ClockInv'  OBVIOUS
<1>1. caller \in Callers /\ caller' \in Callers
  BY DEF ClockInv, Preempt
<1>2. disturbed'[caller] = (disturbed[caller] \/ Reading(caller))
  BY <1>1 DEF ClockInv, Preempt
<1>3. disturbed' \in [Callers -> BOOLEAN] /\ DOMAIN fields' = Callers
  BY <1>1 DEF ClockInv, Preempt, Reading
<1>4. ASSUME NEW c \in Callers PROVE CallOfClock(c)'
  <2>1. CallOfClock(c)  BY DEF ClockInv
  <2>2. CASE c # caller
    <3>1. ~Untouched(c)  BY <2>1, <2>2 DEF CallOfClock, ReadsNow
    <3>2. disturbed'[c] = disturbed[c] /\ fields'[c] = fields[c]
      BY <2>2 DEF ClockInv, Preempt
    <3> QED BY <2>1, <3>1, <3>2, OtherCall DEF Preempt
  <2>3. CASE c = caller
    <3>1. /\ time' = time /\ began' = began /\ place' = place /\ now' = now
      BY DEF Preempt
    <3>2. ~Untouched(c)'  BY <1>2, <2>3, <3>1 DEF Untouched, Reading
    <3>3. place[c].at = 1 => fields'[c] = <<>>
      <4> SUFFICES ASSUME place[c].at = 1 PROVE fields'[c] = <<>>  OBVIOUS
      <4>1. fields[c] = <<>>  BY <2>1 DEF CallOfClock
      <4>2. fields'[c] = IF disturbed'[c] THEN [i \in DOMAIN fields[c] |-> 0] ELSE fields[c]
        BY <2>3 DEF Preempt, ClockInv
      <4>3. [i \in DOMAIN <<>> |-> 0] = <<>>  OBVIOUS
      <4> QED BY <4>1, <4>2, <4>3
    <3>4. ~disturbed'[c] => ~disturbed[c]  BY <1>2, <2>3
    <3>5. \A t : Reads(t)' = Reads(t)  BY DEF Reads
    <3> QED BY <2>1, <3>1, <3>2, <3>3, <3>4, <3>5 DEF CallOfClock
  <2> QED BY <2>2, <2>3
<1> QED BY <1>1, <1>3, <1>4 DEF ClockInv, Preempt

\* What the clock does by itself touches no process.
LEMMA AnnounceStep == ClockInv /\ Announce => ClockInv'
<1> SUFFICES ASSUME ClockInv, Announce PROVE ClockInv'  OBVIOUS
<1>1. \A t : Reads(t)' = Reads(t)  BY DEF Reads
<1>2. \A t, i : Stored(t, i)' = Stored(t, i)  BY DEF Stored, Announce
<1>3. ASSUME NEW c \in Callers PROVE CallOfClock(c)'
  <2>1. CallOfClock(c)  BY DEF ClockInv
  <2>2. Untouched(c)' <=> Untouched(c)  BY DEF Untouched, Reading, Announce
  <2>3. ReadsNow(c) => ReadsNow(c)'  BY <1>2 DEF ReadsNow, Announce
  <2> QED BY <1>1, <2>1, <2>2, <2>3 DEF CallOfClock, Announce
<1> QED BY <1>3 DEF ClockInv, Announce

\* It does not come while an untouched process reads the fields.
LEMMA UpdateStep == ClockInv /\ Update => ClockInv'
<1> SUFFICES ASSUME ClockInv, Update PROVE ClockInv'  OBVIOUS
<1>1. \A t : Reads(t)' = Reads(t)  BY DEF Reads
<1>2. ASSUME NEW c \in Callers PROVE CallOfClock(c)'
  <2>1. CallOfClock(c)  BY DEF ClockInv
  <2>2. Untouched(c)' <=> Untouched(c)  BY DEF Untouched, Reading, Update
  <2>3. Untouched(c) => ReadsNow(c)'
    <3> SUFFICES ASSUME Untouched(c) PROVE ReadsNow(c)'  OBVIOUS
    <3>1. ReadsNow(c)  BY <2>1 DEF CallOfClock
    <3>2. caller = c /\ ~(place[c].at > 1)
      BY <3>1 DEF ReadsNow, Untouched, Update
    <3> QED BY <3>1, <3>2 DEF ReadsNow, Update
  <2> QED BY <1>1, <2>1, <2>2, <2>3 DEF CallOfClock, Update
<1> QED BY <1>2 DEF ClockInv, Update

LEMMA UpdatedStep == ClockInv /\ Updated => ClockInv'
<1> SUFFICES ASSUME ClockInv, Updated PROVE ClockInv'  OBVIOUS
<1>1. \A t : Reads(t)' = Reads(t)  BY DEF Reads
<1>2. now' = now + 1 /\ now \in 1..Len(Times) /\ now < Len(Times) /\ Len(Times) \in Nat
  BY ClockAssumption DEF ClockInv, Updated
<1>3. ASSUME NEW c \in Callers PROVE CallOfClock(c)'
  <2>1. CallOfClock(c)  BY DEF ClockInv
  <2>2. Untouched(c)' <=> Untouched(c)  BY DEF Untouched, Reading, Updated
  <2>3. Untouched(c) => ReadsNow(c)'
    <3> SUFFICES ASSUME Untouched(c) PROVE ReadsNow(c)'  OBVIOUS
    <3>1. ReadsNow(c) /\ phase = "update"  BY <2>1 DEF CallOfClock, Updated
    <3>2. caller = c /\ ~(place[c].at > 1)  BY <3>1 DEF ReadsNow
    <3> QED BY <3>1, <3>2 DEF ReadsNow, Updated
  <2>4. \A b : b \in 1..now => b \in 1..now'  BY <1>2
  <2>5. \A t : t \in began[c]..now => t \in began[c]..now'
    <3>1. began[c] \in 1..now  BY <2>1 DEF CallOfClock
    <3> QED BY <1>2, <3>1
  <2>6. UNCHANGED <<place, time, fields, began, disturbed>>  BY DEF Updated
  <2>7. time[c] # <<>> /\ ~disturbed[c] =>
          \E t \in began[c]..now' : time[c] = Reads(t)
    BY <2>1, <2>5 DEF CallOfClock
  <2> QED BY <1>1, <2>1, <2>2, <2>3, <2>4, <2>6, <2>7 DEF CallOfClock
<1>4. now' \in 1..Len(Times)  BY <1>2
<1> QED BY <1>3, <1>4 DEF ClockInv, Updated

\* The invariant holds in every behaviour of the clock and its callers.
THEOREM ClockInvHolds == ClockSpec => []ClockInv
<1>1. (\E first \in Callers, mode \in BOOLEAN : ClockInit(first, mode)) => ClockInv
  BY ClockInitInv
<1>2. ClockInv /\ [ClockNext]_clockVars => ClockInv'
  <2> SUFFICES ASSUME ClockInv, [ClockNext]_clockVars PROVE ClockInv'  OBVIOUS
  <2>1. CASE Call  BY <2>1, CallStep
  <2>2. CASE Select  BY <2>2, SelectStep
  <2>3. CASE TestUip  BY <2>3, TestUipStep
  <2>4. CASE ReadField  BY <2>4, ReadFieldStep
  <2>5. CASE ReadStatusB  BY <2>5, ReadStatusBStep
  <2>6. CASE Preempt  BY <2>6, PreemptStep
  <2>7. CASE Announce  BY <2>7, AnnounceStep
  <2>8. CASE Update  BY <2>8, UpdateStep
  <2>9. CASE Updated  BY <2>9, UpdatedStep
  <2>10. CASE UNCHANGED clockVars
    BY <2>10 DEF clockVars, ClockInv, CallOfClock, Untouched, Reading, ReadsNow,
                 Reads, Stored
  <2> QED BY <2>1, <2>2, <2>3, <2>4, <2>5, <2>6, <2>7, <2>8, <2>9, <2>10 DEF ClockNext
<1> QED BY <1>1, <1>2, PTL DEF ClockSpec

\* A call of cmos_get_time (cmos.c:18-25) that no tick has disturbed since its
\* last test of UIP returns a time the clock has had during the call, for any
\* number of processes, any sequence of times and both formats of the clock.
THEOREM TimeWasTrueHolds == ClockSpec => []TimeWasTrue
<1>1. ClockInv => TimeWasTrue
  BY DEF ClockInv, CallOfClock, TimeWasTrue, Reads
<1> QED BY <1>1, ClockInvHolds, PTL

-----------------------------------------------------------------------------
(* The screen in memory                                                      *)

LEMMA Multiples ==
  ASSUME NEW a \in Nat, NEW b \in Nat, NEW m \in Nat, a <= b
  PROVE  a * m <= b * m
  BY Z3

LEMMA PixelPlace ==
  ASSUME NEW s \in Screen
  PROVE  /\ s[1] \in Nat /\ s[2] \in Nat /\ s[1] < fb_width /\ s[2] < fb_height
         /\ s = <<s[1], s[2]>>
         /\ 4 * s[1] \in 0..fb_pitch-1 /\ fb_pitch \in Nat \ {0}
         /\ Address(s) = s[2] * fb_pitch + s[1] * 4
         /\ Address(s) \in Addresses
<1>1. /\ fb_width \in Nat /\ fb_height \in Nat /\ fb_pitch \in Nat
      /\ fb_pitch >= 4 * fb_width
  BY GraphicsAssumption
<1>2. /\ s[1] \in Nat /\ s[2] \in Nat /\ s[1] < fb_width /\ s[2] < fb_height
      /\ s = <<s[1], s[2]>>
  BY <1>1 DEF Screen
<1>3. 4 * s[1] \in 0..fb_pitch-1 /\ fb_pitch \in Nat \ {0}  BY <1>1, <1>2
<1>4. Address(s) = s[2] * fb_pitch + s[1] * 4  BY DEF Address
<1>5. Address(s) \in Addresses
  <2>1. PICK a \in Nat : a = s[2] + 1  BY <1>2
  <2>2. a * fb_pitch <= fb_height * fb_pitch  BY <1>1, <1>2, <2>1, Multiples
  <2>3. a * fb_pitch = s[2] * fb_pitch + fb_pitch  BY <1>1, <1>2, <2>1
  <2>4. s[2] * fb_pitch \in Nat /\ fb_height * fb_pitch \in Nat  BY <1>1, <1>2
  <2>5. fb_height * fb_pitch = fb_pitch * fb_height  BY <1>1
  <2>6. PICK u \in Nat : u = s[2] * fb_pitch  BY <2>4
  <2>7. PICK v \in Nat : v = fb_pitch * fb_height  BY <2>4, <2>5
  <2>8. u + fb_pitch <= v  BY <2>2, <2>3, <2>5, <2>6, <2>7
  <2>9. u + s[1] * 4 \in 0..v  BY <1>1, <1>2, <1>3, <2>8
  <2> QED BY <1>4, <2>6, <2>7, <2>9 DEF Addresses
<1> QED BY <1>2, <1>3, <1>4, <1>5

LEMMA PixelsApart ==
  ASSUME NEW s \in Screen, NEW t \in Screen, Address(s) = Address(t)
  PROVE  s = t
<1>1. /\ s[1] \in Nat /\ s[2] \in Nat /\ s = <<s[1], s[2]>>
      /\ 4 * s[1] \in 0..fb_pitch-1 /\ fb_pitch \in Nat \ {0}
      /\ Address(s) = s[2] * fb_pitch + s[1] * 4
  BY PixelPlace
<1>2. /\ t[1] \in Nat /\ t[2] \in Nat /\ t = <<t[1], t[2]>>
      /\ 4 * t[1] \in 0..fb_pitch-1
      /\ Address(t) = t[2] * fb_pitch + t[1] * 4
  BY PixelPlace
<1>3. PICK a \in 0..fb_pitch-1 : a = 4 * s[1] /\ a = s[1] * 4  BY <1>1
<1>4. PICK b \in 0..fb_pitch-1 : b = 4 * t[1] /\ b = t[1] * 4  BY <1>2
<1>5. /\ (s[2] * fb_pitch + a) \div fb_pitch = s[2]
      /\ (s[2] * fb_pitch + a) % fb_pitch = a
  BY <1>1, Quotient
<1>6. /\ (t[2] * fb_pitch + b) \div fb_pitch = t[2]
      /\ (t[2] * fb_pitch + b) % fb_pitch = b
  BY <1>1, <1>2, Quotient
<1>7. s[2] * fb_pitch + a = t[2] * fb_pitch + b  BY <1>1, <1>2, <1>3, <1>4
<1>8. s[2] = t[2] /\ a = b  BY <1>5, <1>6, <1>7
<1>9. s[1] = t[1]  BY <1>1, <1>2, <1>3, <1>4, <1>8
<1> QED BY <1>1, <1>2, <1>8, <1>9

\* A store at a position that may be off the screen.
Plot(m, s, color) == IF s \in Screen THEN [m EXCEPT ![Address(s)] = color] ELSE m

LEMMA PutPixel ==
  ASSUME NEW m, NEW x \in Nat, NEW y \in Nat, NEW color
  PROVE  fb_put_pixel(m, x, y, color) = Plot(m, <<x, y>>, color)
<1>1. fb_width \in Nat /\ fb_height \in Nat  BY GraphicsAssumption
<1>2. <<x, y>> \in Screen <=> ~(x >= fb_width \/ y >= fb_height)
  BY <1>1 DEF Screen
<1> QED BY <1>2 DEF fb_put_pixel, Plot, Address

-----------------------------------------------------------------------------
(* A rectangle by rows                                                       *)

LEMMA CellOf ==
  ASSUME NEW w \in Nat, NEW h \in Nat, NEW i \in 0..w*h-1
  PROVE  /\ w \in Nat \ {0}
         /\ i % w \in 0..w-1 /\ i \div w \in 0..h-1
         /\ i = (i \div w) * w + (i % w)
<1>1. w # 0
  <2> SUFFICES ASSUME w = 0 PROVE FALSE  OBVIOUS
  <2>1. w * h = 0  OBVIOUS
  <2> QED BY <2>1
<1>2. i \in Nat /\ i < w * h
  <2>1. w * h \in Nat  OBVIOUS
  <2> QED BY <2>1
<1>3. /\ i \div w \in 0..h-1 /\ i % w \in 0..w-1
      /\ i = (i \div w) * w + (i % w)
  <2>1. w \in Nat \ {0} /\ h \in Int  BY <1>1
  <2> QED BY ONLY <2>1, <1>2, QuotientBelow, Zenon
<1> QED BY ONLY <1>1, <1>3, w \in Nat

\* Row b has a cell in column a.
HasCell(w, h, a, b) == \E i \in 0..w*h-1 : i % w = a /\ i \div w = b

LEMMA CellAt ==
  ASSUME NEW w \in Nat, NEW h \in Nat, NEW a \in 0..w-1, NEW b \in 0..h-1
  PROVE  HasCell(w, h, a, b)
<1>1. PICK i \in Nat : i = b * w + a  OBVIOUS
<1>2. i \div w = b /\ i % w = a  BY <1>1, Quotient
<1>3. PICK u \in Nat : u = b * w  OBVIOUS
<1>4. PICK v \in Nat : v = w * h  OBVIOUS
<1>5. u + w <= v
  <2>1. PICK d \in Nat : d = b + 1  OBVIOUS
  <2>2. d * w <= h * w  BY <2>1, Multiples
  <2>3. d * w = u + w  BY <2>1, <1>3
  <2>4. h * w = v  BY <1>4
  <2> QED BY <2>2, <2>3, <2>4
<1>6. i < v  BY <1>1, <1>3, <1>5
<1>7. i \in 0..w*h-1
  <2>1. i \in 0..v-1  BY <1>6
  <2> QED BY ONLY <1>4, <2>1, Zenon
<1> QED BY ONLY <1>2, <1>7, Zenon DEF HasCell

-----------------------------------------------------------------------------
(* The bits of a glyph                                                       *)

\* The bit of weight m of a number.
LEMMA BitOf ==
  ASSUME NEW m \in Nat \ {0}, NEW q \in Nat, NEW e \in 0..1, NEW r \in 0..m-1
  PROVE  (((2 * q + e) * m + r) \div m) % 2 = e
<1>1. PICK d \in Nat : d = 2 * q + e  OBVIOUS
<1>2. (d * m + r) \div m = d  BY Quotient
<1>3. d % 2 = e
  <2>1. 2 \in Nat \ {0} /\ e \in 0..2-1  OBVIOUS
  <2>2. (q * 2 + e) % 2 = e  BY <2>1, Quotient
  <2>3. d = q * 2 + e  BY <1>1
  <2> QED BY <2>2, <2>3
<1> QED BY <1>1, <1>2, <1>3

LEMMA ByteBit ==
  ASSUME NEW bits, NEW b \in 0..7,
         \A k \in 0..7 : bits[k] = 0 \/ bits[k] = Mask[k + 1]
  PROVE  ((bits[0] + bits[1] + bits[2] + bits[3] + bits[4] + bits[5] + bits[6] + bits[7])
            \div Mask[1 + b]) % 2 = 1 <=> bits[b] # 0
<1>1. PICK e0 \in 0..1 : bits[0] = e0 * 128
  <2>1. bits[0] = 0 \/ bits[0] = 128  BY DEF Mask
  <2>2. CASE bits[0] = 0
    <3>1. 0 \in 0..1 /\ bits[0] = 0 * 128  BY <2>2
    <3> QED BY <3>1
  <2>3. CASE bits[0] = 128
    <3>1. 1 \in 0..1 /\ bits[0] = 1 * 128  BY <2>3
    <3> QED BY <3>1
  <2> QED BY <2>1, <2>2, <2>3
<1>2. PICK e1 \in 0..1 : bits[1] = e1 * 64
  <2>1. bits[1] = 0 \/ bits[1] = 64  BY DEF Mask
  <2>2. CASE bits[1] = 0
    <3>1. 0 \in 0..1 /\ bits[1] = 0 * 64  BY <2>2
    <3> QED BY <3>1
  <2>3. CASE bits[1] = 64
    <3>1. 1 \in 0..1 /\ bits[1] = 1 * 64  BY <2>3
    <3> QED BY <3>1
  <2> QED BY <2>1, <2>2, <2>3
<1>3. PICK e2 \in 0..1 : bits[2] = e2 * 32
  <2>1. bits[2] = 0 \/ bits[2] = 32  BY DEF Mask
  <2>2. CASE bits[2] = 0
    <3>1. 0 \in 0..1 /\ bits[2] = 0 * 32  BY <2>2
    <3> QED BY <3>1
  <2>3. CASE bits[2] = 32
    <3>1. 1 \in 0..1 /\ bits[2] = 1 * 32  BY <2>3
    <3> QED BY <3>1
  <2> QED BY <2>1, <2>2, <2>3
<1>4. PICK e3 \in 0..1 : bits[3] = e3 * 16
  <2>1. bits[3] = 0 \/ bits[3] = 16  BY DEF Mask
  <2>2. CASE bits[3] = 0
    <3>1. 0 \in 0..1 /\ bits[3] = 0 * 16  BY <2>2
    <3> QED BY <3>1
  <2>3. CASE bits[3] = 16
    <3>1. 1 \in 0..1 /\ bits[3] = 1 * 16  BY <2>3
    <3> QED BY <3>1
  <2> QED BY <2>1, <2>2, <2>3
<1>5. PICK e4 \in 0..1 : bits[4] = e4 * 8
  <2>1. bits[4] = 0 \/ bits[4] = 8  BY DEF Mask
  <2>2. CASE bits[4] = 0
    <3>1. 0 \in 0..1 /\ bits[4] = 0 * 8  BY <2>2
    <3> QED BY <3>1
  <2>3. CASE bits[4] = 8
    <3>1. 1 \in 0..1 /\ bits[4] = 1 * 8  BY <2>3
    <3> QED BY <3>1
  <2> QED BY <2>1, <2>2, <2>3
<1>6. PICK e5 \in 0..1 : bits[5] = e5 * 4
  <2>1. bits[5] = 0 \/ bits[5] = 4  BY DEF Mask
  <2>2. CASE bits[5] = 0
    <3>1. 0 \in 0..1 /\ bits[5] = 0 * 4  BY <2>2
    <3> QED BY <3>1
  <2>3. CASE bits[5] = 4
    <3>1. 1 \in 0..1 /\ bits[5] = 1 * 4  BY <2>3
    <3> QED BY <3>1
  <2> QED BY <2>1, <2>2, <2>3
<1>7. PICK e6 \in 0..1 : bits[6] = e6 * 2
  <2>1. bits[6] = 0 \/ bits[6] = 2  BY DEF Mask
  <2>2. CASE bits[6] = 0
    <3>1. 0 \in 0..1 /\ bits[6] = 0 * 2  BY <2>2
    <3> QED BY <3>1
  <2>3. CASE bits[6] = 2
    <3>1. 1 \in 0..1 /\ bits[6] = 1 * 2  BY <2>3
    <3> QED BY <3>1
  <2> QED BY <2>1, <2>2, <2>3
<1>8. PICK e7 \in 0..1 : bits[7] = e7 * 1
  <2>1. bits[7] = 0 \/ bits[7] = 1  BY DEF Mask
  <2>2. CASE bits[7] = 0
    <3>1. 0 \in 0..1 /\ bits[7] = 0 * 1  BY <2>2
    <3> QED BY <3>1
  <2>3. CASE bits[7] = 1
    <3>1. 1 \in 0..1 /\ bits[7] = 1 * 1  BY <2>3
    <3> QED BY <3>1
  <2> QED BY <2>1, <2>2, <2>3
<1>9. PICK byte \in Nat : byte = e0 * 128 + e1 * 64 + e2 * 32 + e3 * 16 + e4 * 8
                                  + e5 * 4 + e6 * 2 + e7 * 1
  OBVIOUS
<1>10. bits[0] + bits[1] + bits[2] + bits[3] + bits[4] + bits[5] + bits[6] + bits[7] = byte
  BY <1>1, <1>2, <1>3, <1>4, <1>5, <1>6, <1>7, <1>8, <1>9
<1>11. CASE b = 0
  <2>1. PICK q \in Nat : q = 0  OBVIOUS
  <2>2. PICK r \in 0..128-1 : r = 64 * e1 + 32 * e2 + 16 * e3 + 8 * e4 + 4 * e5 + 2 * e6 + 1 * e7
    OBVIOUS
  <2>3. byte = (2 * q + e0) * 128 + r  BY <1>9, <2>1, <2>2
  <2>4. 128 \in Nat \ {0}  OBVIOUS
  <2>5. (byte \div 128) % 2 = e0
    <3>1. (((2 * q + e0) * 128 + r) \div 128) % 2 = e0  BY <2>4, BitOf
    <3> QED BY ONLY <2>3, <3>1, Zenon
  <2>6. Mask[1 + b] = 128  BY <1>11 DEF Mask
  <2>7. (byte \div 128) % 2 = 1 <=> bits[b] # 0  BY <1>11, <1>1, <2>5
  <2> QED BY ONLY <2>6, <2>7, <1>10, Zenon
<1>12. CASE b = 1
  <2>1. PICK q \in Nat : q = 1 * e0  OBVIOUS
  <2>2. PICK r \in 0..64-1 : r = 32 * e2 + 16 * e3 + 8 * e4 + 4 * e5 + 2 * e6 + 1 * e7
    OBVIOUS
  <2>3. byte = (2 * q + e1) * 64 + r  BY <1>9, <2>1, <2>2
  <2>4. 64 \in Nat \ {0}  OBVIOUS
  <2>5. (byte \div 64) % 2 = e1
    <3>1. (((2 * q + e1) * 64 + r) \div 64) % 2 = e1  BY <2>4, BitOf
    <3> QED BY ONLY <2>3, <3>1, Zenon
  <2>6. Mask[1 + b] = 64  BY <1>12 DEF Mask
  <2>7. (byte \div 64) % 2 = 1 <=> bits[b] # 0  BY <1>12, <1>2, <2>5
  <2> QED BY ONLY <2>6, <2>7, <1>10, Zenon
<1>13. CASE b = 2
  <2>1. PICK q \in Nat : q = 2 * e0 + 1 * e1  OBVIOUS
  <2>2. PICK r \in 0..32-1 : r = 16 * e3 + 8 * e4 + 4 * e5 + 2 * e6 + 1 * e7
    OBVIOUS
  <2>3. byte = (2 * q + e2) * 32 + r  BY <1>9, <2>1, <2>2
  <2>4. 32 \in Nat \ {0}  OBVIOUS
  <2>5. (byte \div 32) % 2 = e2
    <3>1. (((2 * q + e2) * 32 + r) \div 32) % 2 = e2  BY <2>4, BitOf
    <3> QED BY ONLY <2>3, <3>1, Zenon
  <2>6. Mask[1 + b] = 32  BY <1>13 DEF Mask
  <2>7. (byte \div 32) % 2 = 1 <=> bits[b] # 0  BY <1>13, <1>3, <2>5
  <2> QED BY ONLY <2>6, <2>7, <1>10, Zenon
<1>14. CASE b = 3
  <2>1. PICK q \in Nat : q = 4 * e0 + 2 * e1 + 1 * e2  OBVIOUS
  <2>2. PICK r \in 0..16-1 : r = 8 * e4 + 4 * e5 + 2 * e6 + 1 * e7
    OBVIOUS
  <2>3. byte = (2 * q + e3) * 16 + r  BY <1>9, <2>1, <2>2
  <2>4. 16 \in Nat \ {0}  OBVIOUS
  <2>5. (byte \div 16) % 2 = e3
    <3>1. (((2 * q + e3) * 16 + r) \div 16) % 2 = e3  BY <2>4, BitOf
    <3> QED BY ONLY <2>3, <3>1, Zenon
  <2>6. Mask[1 + b] = 16  BY <1>14 DEF Mask
  <2>7. (byte \div 16) % 2 = 1 <=> bits[b] # 0  BY <1>14, <1>4, <2>5
  <2> QED BY ONLY <2>6, <2>7, <1>10, Zenon
<1>15. CASE b = 4
  <2>1. PICK q \in Nat : q = 8 * e0 + 4 * e1 + 2 * e2 + 1 * e3  OBVIOUS
  <2>2. PICK r \in 0..8-1 : r = 4 * e5 + 2 * e6 + 1 * e7
    OBVIOUS
  <2>3. byte = (2 * q + e4) * 8 + r  BY <1>9, <2>1, <2>2
  <2>4. 8 \in Nat \ {0}  OBVIOUS
  <2>5. (byte \div 8) % 2 = e4
    <3>1. (((2 * q + e4) * 8 + r) \div 8) % 2 = e4  BY <2>4, BitOf
    <3> QED BY ONLY <2>3, <3>1, Zenon
  <2>6. Mask[1 + b] = 8  BY <1>15 DEF Mask
  <2>7. (byte \div 8) % 2 = 1 <=> bits[b] # 0  BY <1>15, <1>5, <2>5
  <2> QED BY ONLY <2>6, <2>7, <1>10, Zenon
<1>16. CASE b = 5
  <2>1. PICK q \in Nat : q = 16 * e0 + 8 * e1 + 4 * e2 + 2 * e3 + 1 * e4  OBVIOUS
  <2>2. PICK r \in 0..4-1 : r = 2 * e6 + 1 * e7
    OBVIOUS
  <2>3. byte = (2 * q + e5) * 4 + r  BY <1>9, <2>1, <2>2
  <2>4. 4 \in Nat \ {0}  OBVIOUS
  <2>5. (byte \div 4) % 2 = e5
    <3>1. (((2 * q + e5) * 4 + r) \div 4) % 2 = e5  BY <2>4, BitOf
    <3> QED BY ONLY <2>3, <3>1, Zenon
  <2>6. Mask[1 + b] = 4  BY <1>16 DEF Mask
  <2>7. (byte \div 4) % 2 = 1 <=> bits[b] # 0  BY <1>16, <1>6, <2>5
  <2> QED BY ONLY <2>6, <2>7, <1>10, Zenon
<1>17. CASE b = 6
  <2>1. PICK q \in Nat : q = 32 * e0 + 16 * e1 + 8 * e2 + 4 * e3 + 2 * e4 + 1 * e5  OBVIOUS
  <2>2. PICK r \in 0..2-1 : r = 1 * e7
    OBVIOUS
  <2>3. byte = (2 * q + e6) * 2 + r  BY <1>9, <2>1, <2>2
  <2>4. 2 \in Nat \ {0}  OBVIOUS
  <2>5. (byte \div 2) % 2 = e6
    <3>1. (((2 * q + e6) * 2 + r) \div 2) % 2 = e6  BY <2>4, BitOf
    <3> QED BY ONLY <2>3, <3>1, Zenon
  <2>6. Mask[1 + b] = 2  BY <1>17 DEF Mask
  <2>7. (byte \div 2) % 2 = 1 <=> bits[b] # 0  BY <1>17, <1>7, <2>5
  <2> QED BY ONLY <2>6, <2>7, <1>10, Zenon
<1>18. CASE b = 7
  <2>1. PICK q \in Nat : q = 64 * e0 + 32 * e1 + 16 * e2 + 8 * e3 + 4 * e4 + 2 * e5 + 1 * e6  OBVIOUS
  <2>2. PICK r \in 0..1-1 : r = 0
    OBVIOUS
  <2>3. byte = (2 * q + e7) * 1 + r  BY <1>9, <2>1, <2>2
  <2>4. 1 \in Nat \ {0}  OBVIOUS
  <2>5. (byte \div 1) % 2 = e7
    <3>1. (((2 * q + e7) * 1 + r) \div 1) % 2 = e7  BY <2>4, BitOf
    <3> QED BY ONLY <2>3, <3>1, Zenon
  <2>6. Mask[1 + b] = 1  BY <1>18 DEF Mask
  <2>7. (byte \div 1) % 2 = 1 <=> bits[b] # 0  BY <1>18, <1>8, <2>5
  <2> QED BY ONLY <2>6, <2>7, <1>10, Zenon
<1> QED BY <1>11, <1>12, <1>13, <1>14, <1>15, <1>16, <1>17, <1>18

\* The bit the renderer picks out of the font's bytes is the glyph's pixel.
LEMMA GlyphPixel ==
  ASSUME NEW ch, NEW col \in 0..FontWidth-1, NEW row \in Nat
  PROVE  GlyphBit(ch, col, row) <=> <<col, row>> \in Glyphs[ch]
<1>1. PICK d \in Nat : d = col \div 8
  <2>1. FontWidth \in Nat  BY GraphicsAssumption
  <2> QED BY <2>1
<1>2. PICK b \in 0..7 : b = col % 8
  <2>1. FontWidth \in Nat  BY GraphicsAssumption
  <2> QED BY <2>1
<1>3. col = 8 * d + b
  <2>1. FontWidth \in Nat  BY GraphicsAssumption
  <2> QED BY <2>1, <1>1, <1>2
<1>4. BytesPerRow \in Nat \ {0} /\ d \in 0..BytesPerRow-1
  <2>1. FontWidth \in Nat /\ col < FontWidth  BY GraphicsAssumption
  <2> QED BY <2>1, <1>1 DEF BytesPerRow
<1>5. PICK n \in Nat : n = row * BytesPerRow + d  BY <1>4
<1>6. n \div BytesPerRow = row /\ n % BytesPerRow = d
  BY <1>4, <1>5, Quotient
<1> DEFINE bits == [k \in 0..7 |->
                      IF <<8 * d + k, row>> \in Glyphs[ch] THEN Mask[k + 1] ELSE 0]
<1>7. GlyphByte(ch, n) = bits[0] + bits[1] + bits[2] + bits[3] + bits[4] + bits[5] + bits[6] + bits[7]
  BY ONLY <1>6, Zenon DEF GlyphByte
<1>8. \A k \in 0..7 : bits[k] = 0 \/ bits[k] = Mask[k + 1]  OBVIOUS
<1>9. bits[b] # 0 <=> <<col, row>> \in Glyphs[ch]
  <2>1. Mask[b + 1] # 0  BY DEF Mask
  <2> QED BY <2>1, <1>3
<1> HIDE DEF bits
<1>10. (GlyphByte(ch, n) \div Mask[1 + b]) % 2 = 1 <=> bits[b] # 0
  <2>1. ((bits[0] + bits[1] + bits[2] + bits[3] + bits[4] + bits[5] + bits[6] + bits[7])
            \div Mask[1 + b]) % 2 = 1 <=> bits[b] # 0
    BY ONLY <1>8, b \in 0..7, ByteBit
  <2> QED BY ONLY <1>7, <2>1, Zenon
<1>11. GlyphBit(ch, col, row) <=> (GlyphByte(ch, n) \div Mask[1 + b]) % 2 = 1
  BY ONLY <1>1, <1>2, <1>5, Zenon DEF GlyphBit
<1> QED BY <1>9, <1>10, <1>11

-----------------------------------------------------------------------------
(* Where a call stores                                                       *)

\* The position of the i-th store of a call.
Target(c, i) ==
  CASE c.kind = "clear"  -> <<i % fb_width, i \div fb_width>>
    [] c.kind = "rect"   -> <<c.x + (i % c.w), c.y + i \div c.w>>
    [] c.kind = "pixel"  -> <<c.x, c.y>>
    [] c.kind = "string" ->
         LET n == i \div (FontWidth * FontHeight)
             j == i % (FontWidth * FontHeight)
         IN  <<c.x + n * FontWidth + (j % FontWidth), c.y + j \div FontWidth>>

\* A call the assumption allows.
Proper(c) == c \in AnyCall /\ Right(c) <= Word /\ Bottom(c) <= Word

\* The i-th store of a call does what it should.
Aimed(c, i) ==
  LET t == Target(c, i)
  IN  /\ t = <<t[1], t[2]>> /\ t[1] \in Nat /\ t[2] \in Nat
      /\ c.x <= t[1] /\ t[1] < Right(c) /\ c.y <= t[2] /\ t[2] < Bottom(c)
      /\ \A m : Store(m, c, i) = Plot(m, t, Meant(c, t))

LEMMA Kinds ==
  ASSUME NEW c \in AnyCall
  PROVE  /\ c.kind \in {"clear", "rect", "pixel", "string"}
         /\ c.x \in Nat /\ c.y \in Nat /\ c.color \in Int
         /\ c # NoCall
         /\ c.kind = "clear" => c.x = 0 /\ c.y = 0
         /\ c.kind = "rect" => c.w \in Nat /\ c.h \in Nat
         /\ c.kind = "string" => c.str \in Seq(DOMAIN Glyphs)
  BY DEF AnyCall, NoCall

LEMMA Unwrapped ==
  ASSUME NEW a \in Nat, a < Word
  PROVE  a % Word = a
<1>1. Word \in Nat \ {0}  BY GraphicsAssumption
<1>2. a \in 0..Word-1 /\ 0 * Word + a = a  BY <1>1
<1> QED BY <1>1, <1>2, Quotient

LEMMA ClearAimed ==
  ASSUME NEW c, Proper(c), c.kind = "clear", NEW i \in 0..Stores(c)-1
  PROVE  Aimed(c, i)
<1>1. fb_width \in Nat /\ fb_height \in Nat  BY GraphicsAssumption
<1>2. c.x = 0 /\ c.y = 0 /\ c.kind = "clear"  BY Kinds DEF Proper
<1>3. Stores(c) = fb_width * fb_height  BY <1>2 DEF Stores
<1>4. i \in 0..fb_width*fb_height-1  BY <1>3
<1>5. i % fb_width \in 0..fb_width-1 /\ i \div fb_width \in 0..fb_height-1
  BY ONLY <1>1, <1>4, CellOf
<1>6. PICK a \in 0..fb_width-1 : a = i % fb_width  BY <1>5
<1>7. PICK b \in 0..fb_height-1 : b = i \div fb_width  BY <1>5
<1>8. Target(c, i) = <<a, b>>  BY <1>2, <1>6, <1>7 DEF Target
<1>9. Right(c) = fb_width /\ Bottom(c) = fb_height  BY <1>2 DEF Right, Bottom
<1>10. Meant(c, <<a, b>>) = c.color  BY <1>2 DEF Meant
<1>11. ASSUME NEW m PROVE Store(m, c, i) = Plot(m, <<a, b>>, c.color)
  <2>1. Store(m, c, i) = fb_clear(m, c, i)  BY <1>2 DEF Store
  <2>2. b * fb_pitch + 4 * a = Address(<<a, b>>)
    <3>1. fb_pitch \in Nat  BY GraphicsAssumption
    <3> QED BY <1>1, <3>1 DEF Address
  <2>3. <<a, b>> \in Screen  BY <1>1 DEF Screen
  <2>4. fb_clear(m, c, i) = [m EXCEPT ![b * fb_pitch + 4 * a] = c.color]
    BY ONLY <1>6, <1>7, Zenon DEF fb_clear
  <2> QED BY ONLY <2>1, <2>2, <2>3, <2>4, Zenon DEF Plot
<1> QED BY <1>1, <1>2, <1>8, <1>9, <1>10, <1>11 DEF Aimed

LEMMA RectAimed ==
  ASSUME NEW c, Proper(c), c.kind = "rect", NEW i \in 0..Stores(c)-1
  PROVE  Aimed(c, i)
<1>1. c.w \in Nat /\ c.h \in Nat /\ c.x \in Nat /\ c.y \in Nat /\ Word \in Nat
  BY Kinds, GraphicsAssumption DEF Proper
<1>2. Right(c) = c.x + c.w /\ Bottom(c) = c.y + c.h  BY c.kind = "rect" DEF Right, Bottom
<1>3. Stores(c) = c.w * c.h  BY c.kind = "rect" DEF Stores
<1>4. i \in 0..c.w*c.h-1  BY <1>3
<1>5. i % c.w \in 0..c.w-1 /\ i \div c.w \in 0..c.h-1
  BY ONLY <1>1, <1>4, CellOf
<1>6. PICK a \in 0..c.w-1 : a = i % c.w  BY <1>5
<1>7. PICK b \in 0..c.h-1 : b = i \div c.w  BY <1>5
<1>8. PICK u \in Nat : u = c.x + a  BY <1>1
<1>9. PICK v \in Nat : v = c.y + b  BY <1>1
<1>10. c.x <= u /\ u < Right(c) /\ c.y <= v /\ v < Bottom(c) /\ u < Word /\ v < Word
  BY <1>1, <1>2, <1>8, <1>9 DEF Proper
<1>11. u % Word = u /\ v % Word = v  BY <1>10, Unwrapped
<1>12. Target(c, i) = <<u, v>>  BY c.kind = "rect", <1>6, <1>7, <1>8, <1>9 DEF Target
<1>13. Meant(c, <<u, v>>) = c.color  BY c.kind = "rect" DEF Meant
<1>14. ASSUME NEW m PROVE Store(m, c, i) = Plot(m, <<u, v>>, c.color)
  <2>1. Store(m, c, i) = fb_fill_rect(m, c, i)  BY c.kind = "rect" DEF Store
  <2>2. fb_fill_rect(m, c, i) = fb_put_pixel(m, u, v, c.color)
    BY ONLY <1>6, <1>7, <1>8, <1>9, <1>11, Zenon DEF fb_fill_rect
  <2>3. fb_put_pixel(m, u, v, c.color) = Plot(m, <<u, v>>, c.color)  BY PutPixel
  <2> QED BY <2>1, <2>2, <2>3
<1> QED BY <1>10, <1>12, <1>13, <1>14 DEF Aimed

LEMMA PixelAimed ==
  ASSUME NEW c, Proper(c), c.kind = "pixel", NEW i \in 0..Stores(c)-1
  PROVE  Aimed(c, i)
<1>1. c.x \in Nat /\ c.y \in Nat  BY Kinds DEF Proper
<1>2. Right(c) = c.x + 1 /\ Bottom(c) = c.y + 1  BY c.kind = "pixel" DEF Right, Bottom
<1>3. Target(c, i) = <<c.x, c.y>>  BY c.kind = "pixel" DEF Target
<1>4. Meant(c, <<c.x, c.y>>) = c.color  BY c.kind = "pixel" DEF Meant
<1>5. ASSUME NEW m PROVE Store(m, c, i) = Plot(m, <<c.x, c.y>>, c.color)
  <2>1. Store(m, c, i) = fb_put_pixel(m, c.x, c.y, c.color)  BY c.kind = "pixel" DEF Store
  <2> QED BY <1>1, <2>1, PutPixel
<1> QED BY <1>1, <1>2, <1>3, <1>4, <1>5 DEF Aimed

\* The n-th of len columns of a width.
LEMMA Column ==
  ASSUME NEW w \in Nat \ {0}, NEW len \in Nat, NEW n \in 0..len-1, NEW a \in 0..w-1
  PROVE  n * w + a \in Nat /\ n * w + a < len * w
<1>1. PICK u \in Nat : u = n * w  OBVIOUS
<1>2. PICK v \in Nat : v = len * w  OBVIOUS
<1>3. u + w <= v
  <2>1. PICK d \in Nat : d = n + 1  OBVIOUS
  <2>2. d * w <= len * w  BY <2>1, Multiples
  <2>3. d * w = u + w  BY <1>1, <2>1
  <2> QED BY <2>2, <2>3, <1>2
<1> QED BY <1>1, <1>2, <1>3

LEMMA Regroup ==
  ASSUME NEW a \in Nat, NEW b \in Nat, NEW n \in Nat
  PROVE  n * a * b = (a * b) * n
  BY Z3

LEMMA StringStores ==
  ASSUME NEW c, Proper(c), c.kind = "string"
  PROVE  /\ Len(c.str) \in Nat /\ FontWidth \in Nat \ {0} /\ FontHeight \in Nat \ {0}
         /\ FontWidth * FontHeight \in Nat \ {0}
         /\ Stores(c) = (FontWidth * FontHeight) * Len(c.str)
         /\ c.x \in Nat /\ c.y \in Nat
         /\ Right(c) = c.x + Len(c.str) * FontWidth /\ Bottom(c) = c.y + FontHeight
<1>1. PICK len \in Nat : len = Len(c.str)
  <2>1. c.str \in Seq(DOMAIN Glyphs)  BY Kinds DEF Proper
  <2> QED BY <2>1, LenProperties
<1>2. FontWidth \in Nat \ {0} /\ FontHeight \in Nat \ {0}  BY GraphicsAssumption
<1>3. FontWidth * FontHeight \in Nat \ {0}
  <2>1. FontWidth * FontHeight >= 1 * FontHeight  BY <1>2, Multiples
  <2> QED BY <1>2, <2>1
<1>4. Stores(c) = len * FontWidth * FontHeight  BY c.kind = "string", <1>1 DEF Stores
<1>5. len * FontWidth * FontHeight = (FontWidth * FontHeight) * len
  <2>1. FontWidth \in Nat /\ FontHeight \in Nat  BY <1>2
  <2> QED BY ONLY <2>1, len \in Nat, Regroup
<1>6. Right(c) = c.x + Len(c.str) * FontWidth /\ Bottom(c) = c.y + FontHeight
  BY c.kind = "string" DEF Right, Bottom
<1>7. c.x \in Nat /\ c.y \in Nat  BY Kinds DEF Proper
<1> QED BY <1>1, <1>2, <1>3, <1>4, <1>5, <1>6, <1>7

LEMMA StringAimed ==
  ASSUME NEW c, Proper(c), c.kind = "string", NEW i \in 0..Stores(c)-1
  PROVE  Aimed(c, i)
<1>1. /\ FontWidth \in Nat \ {0} /\ FontHeight \in Nat \ {0}
      /\ FontWidth * FontHeight \in Nat \ {0}
      /\ Stores(c) = (FontWidth * FontHeight) * Len(c.str)
      /\ c.x \in Nat /\ c.y \in Nat /\ Word \in Nat
  BY StringStores, GraphicsAssumption
<1>2. PICK len \in Nat : len = Len(c.str)  BY StringStores
<1>3. Right(c) = c.x + len * FontWidth /\ Bottom(c) = c.y + FontHeight
  BY <1>2, StringStores
<1>4. PICK cell \in Nat \ {0} : cell = FontWidth * FontHeight  BY <1>1
<1>5. i \in 0..cell*len-1  BY <1>1, <1>2, <1>4
<1>6. i % cell \in 0..cell-1 /\ i \div cell \in 0..len-1  BY <1>5, CellOf
<1>7. PICK j \in 0..cell-1 : j = i % cell  BY <1>6
<1>8. PICK n \in 0..len-1 : n = i \div cell  BY <1>6
<1>9. j \in 0..FontWidth*FontHeight-1  BY <1>4
<1>10. j % FontWidth \in 0..FontWidth-1 /\ j \div FontWidth \in 0..FontHeight-1
  BY ONLY <1>1, <1>9, CellOf
<1>11. PICK col \in 0..FontWidth-1 : col = j % FontWidth  BY <1>10
<1>12. PICK row \in 0..FontHeight-1 : row = j \div FontWidth  BY <1>10
<1>13. PICK a \in Nat : a = n * FontWidth + col /\ a < len * FontWidth
  BY ONLY <1>1, len \in Nat, n \in 0..len-1, col \in 0..FontWidth-1, Column
<1>14. PICK end \in Nat : end = len * FontWidth  BY <1>1
<1>15. PICK u \in Nat : u = c.x + a  BY <1>1
<1>16. PICK v \in Nat : v = c.y + row  BY <1>1
<1>17. c.x <= u /\ u < Right(c) /\ c.y <= v /\ v < Bottom(c) /\ u < Word /\ v < Word
  <2>1. a < end /\ Right(c) = c.x + end  BY <1>3, <1>13, <1>14
  <2>2. PICK x \in Nat : x = c.x  BY <1>1
  <2>3. PICK y \in Nat : y = c.y  BY <1>1
  <2>4. c.x <= u /\ u < Right(c)
    BY ONLY <1>15, <2>1, <2>2, a \in Nat, x \in Nat, end \in Nat, u \in Nat
  <2>5. c.y <= v /\ v < Bottom(c)  BY <1>1, <1>3, <1>16, <2>3
  <2>6. Right(c) <= Word /\ Bottom(c) <= Word  BY DEF Proper
  <2>7. Right(c) \in Nat /\ Bottom(c) \in Nat
    <3>1. FontHeight \in Nat  BY <1>1
    <3> QED BY ONLY <3>1, <1>3, <2>1, <2>2, <2>3, x \in Nat, y \in Nat, end \in Nat
  <2>8. Word \in Nat  BY <1>1
  <2> QED BY ONLY <2>4, <2>5, <2>6, <2>7, <2>8, u \in Nat, v \in Nat
<1>18. u % Word = u /\ v % Word = v  BY <1>17, Unwrapped
<1>19. u = c.x + n * FontWidth + col
  <2>1. PICK b \in Nat : b = n * FontWidth  BY <1>1
  <2> QED BY <1>1, <1>13, <1>15, <2>1
<1>20. Target(c, i) = <<u, v>>
  <2> DEFINE N == i \div (FontWidth * FontHeight)
             J == i % (FontWidth * FontHeight)
  <2>1. Target(c, i) = <<c.x + N * FontWidth + (J % FontWidth), c.y + J \div FontWidth>>
    BY c.kind = "string" DEF Target
  <2>2. N = n /\ J = j  BY ONLY <1>4, <1>7, <1>8, Zenon
  <2> QED BY ONLY <2>1, <2>2, <1>11, <1>12, <1>16, <1>19, Zenon
<1> DEFINE glyph == Glyphs[c.str[n + 1]]
<1>21. Meant(c, <<u, v>>) = IF <<col, row>> \in glyph THEN c.color ELSE c.bg
  <2>1. u - c.x = n * FontWidth + col /\ v - c.y = row
    BY <1>1, <1>13, <1>15, <1>16
  <2>2. (u - c.x) \div FontWidth = n /\ (u - c.x) % FontWidth = col
    <3>1. (n * FontWidth + col) \div FontWidth = n /\ (n * FontWidth + col) % FontWidth = col
      BY ONLY <1>1, n \in Nat, col \in 0..FontWidth-1, Quotient
    <3> QED BY ONLY <2>1, <3>1, Zenon
  <2>3. <<u, v>>[1] = u /\ <<u, v>>[2] = v  OBVIOUS
  <2> QED BY ONLY c.kind = "string", <2>1, <2>2, <2>3, Zenon DEF Meant
<1>22. GlyphBit(c.str[n + 1], col, row) <=> <<col, row>> \in glyph
  BY ONLY col \in 0..FontWidth-1, row \in Nat, GlyphPixel
<1>23. ASSUME NEW m PROVE Store(m, c, i) = Plot(m, <<u, v>>, Meant(c, <<u, v>>))
  <2>1. Store(m, c, i) = fb_draw_string(m, c, i)  BY c.kind = "string" DEF Store
  <2>2. fb_draw_string(m, c, i) =
          fb_put_pixel(m, u, v, IF GlyphBit(c.str[n + 1], col, row) THEN c.color ELSE c.bg)
    BY ONLY <1>4, <1>7, <1>8, <1>11, <1>12, <1>16, <1>18, <1>19, Zenon DEF fb_draw_string
  <2>3. (IF GlyphBit(c.str[n + 1], col, row) THEN c.color ELSE c.bg) = Meant(c, <<u, v>>)
    BY <1>21, <1>22
  <2>4. fb_draw_string(m, c, i) = fb_put_pixel(m, u, v, Meant(c, <<u, v>>))
    BY ONLY <2>2, <2>3, Zenon
  <2>5. fb_put_pixel(m, u, v, Meant(c, <<u, v>>)) = Plot(m, <<u, v>>, Meant(c, <<u, v>>))
    BY PutPixel
  <2> QED BY ONLY <2>1, <2>4, <2>5, Zenon
<1> QED BY ONLY <1>17, <1>20, <1>23, u \in Nat, v \in Nat DEF Aimed

LEMMA AllAimed ==
  ASSUME NEW c, Proper(c), NEW i \in 0..Stores(c)-1
  PROVE  Aimed(c, i)
<1>1. c.kind \in {"clear", "rect", "pixel", "string"}  BY Kinds DEF Proper
<1> QED BY <1>1, ClearAimed, RectAimed, PixelAimed, StringAimed

\* A store that is on the screen is in the call's area.
LEMMA TargetInArea ==
  ASSUME NEW c, Proper(c), NEW i \in 0..Stores(c)-1, Target(c, i) \in Screen
  PROVE  Target(c, i) \in Area(c)
<1>1. Aimed(c, i)  BY AllAimed
<1>2. c # NoCall  BY Kinds DEF Proper
<1>3. /\ c.x <= Target(c, i)[1] /\ Target(c, i)[1] < Right(c)
      /\ c.y <= Target(c, i)[2] /\ Target(c, i)[2] < Bottom(c)
      /\ Target(c, i)[1] \in Nat /\ Target(c, i)[2] \in Nat
  BY <1>1, Zenon DEF Aimed
<1>4. c.x \in Nat /\ c.y \in Nat  BY Kinds DEF Proper
<1> QED BY <1>2, <1>3, <1>4 DEF Area

\* Every pixel of the area is stored.
Covered(c, x) == \E i \in 0..Stores(c)-1 : Target(c, i) = x

LEMMA InArea ==
  ASSUME NEW c, Proper(c), NEW x \in Area(c)
  PROVE  /\ x \in Screen /\ x = <<x[1], x[2]>> /\ x[1] \in Nat /\ x[2] \in Nat
         /\ x[1] < fb_width /\ x[2] < fb_height
         /\ c.x <= x[1] /\ x[1] < Right(c) /\ c.y <= x[2] /\ x[2] < Bottom(c)
<1>1. c # NoCall  BY Kinds DEF Proper
<1>2. /\ x \in Screen /\ c.x <= x[1] /\ x[1] < Right(c)
      /\ c.y <= x[2] /\ x[2] < Bottom(c)
  <2>1. c.x \in Nat /\ c.y \in Nat  BY Kinds DEF Proper
  <2> QED BY <1>1, <2>1 DEF Area
<1> QED BY <1>2, PixelPlace

LEMMA ClearCovers ==
  ASSUME NEW c, Proper(c), c.kind = "clear", NEW x \in Area(c)
  PROVE  Covered(c, x)
<1>1. fb_width \in Nat /\ fb_height \in Nat  BY GraphicsAssumption
<1>2. /\ x = <<x[1], x[2]>> /\ x[1] \in Nat /\ x[2] \in Nat
      /\ x[1] < fb_width /\ x[2] < fb_height
  BY InArea
<1>3. PICK a \in 0..fb_width-1 : a = x[1]  BY <1>1, <1>2
<1>4. PICK b \in 0..fb_height-1 : b = x[2]  BY <1>1, <1>2
<1>5. PICK i \in 0..fb_width*fb_height-1 : i % fb_width = a /\ i \div fb_width = b
  <2>1. HasCell(fb_width, fb_height, a, b)  BY <1>1, CellAt
  <2> QED BY <2>1, Zenon DEF HasCell
<1>6. i \in 0..Stores(c)-1  BY c.kind = "clear" DEF Stores
<1>7. Target(c, i) = <<a, b>>  BY c.kind = "clear", <1>5 DEF Target
<1>8. Target(c, i) = x  BY <1>2, <1>3, <1>4, <1>7
<1> QED BY <1>6, <1>8 DEF Covered

LEMMA RectCovers ==
  ASSUME NEW c, Proper(c), c.kind = "rect", NEW x \in Area(c)
  PROVE  Covered(c, x)
<1>1. c.w \in Nat /\ c.h \in Nat /\ c.x \in Nat /\ c.y \in Nat  BY Kinds DEF Proper
<1>2. Right(c) = c.x + c.w /\ Bottom(c) = c.y + c.h  BY c.kind = "rect" DEF Right, Bottom
<1>3. /\ x = <<x[1], x[2]>> /\ x[1] \in Nat /\ x[2] \in Nat
      /\ c.x <= x[1] /\ x[1] < c.x + c.w /\ c.y <= x[2] /\ x[2] < c.y + c.h
  BY <1>2, InArea
<1>4. PICK a \in 0..c.w-1 : a = x[1] - c.x /\ c.x + a = x[1]  BY <1>1, <1>3
<1>5. PICK b \in 0..c.h-1 : b = x[2] - c.y /\ c.y + b = x[2]  BY <1>1, <1>3
<1>6. PICK i \in 0..c.w*c.h-1 : i % c.w = a /\ i \div c.w = b
  <2>1. HasCell(c.w, c.h, a, b)  BY <1>1, CellAt
  <2> QED BY <2>1, Zenon DEF HasCell
<1>7. i \in 0..Stores(c)-1  BY c.kind = "rect" DEF Stores
<1>8. Target(c, i) = <<c.x + a, c.y + b>>  BY c.kind = "rect", <1>6 DEF Target
<1>9. Target(c, i) = x  BY <1>3, <1>4, <1>5, <1>8
<1> QED BY <1>7, <1>9 DEF Covered

LEMMA PixelCovers ==
  ASSUME NEW c, Proper(c), c.kind = "pixel", NEW x \in Area(c)
  PROVE  Covered(c, x)
<1>1. c.x \in Nat /\ c.y \in Nat  BY Kinds DEF Proper
<1>2. Right(c) = c.x + 1 /\ Bottom(c) = c.y + 1  BY c.kind = "pixel" DEF Right, Bottom
<1>3. /\ x = <<x[1], x[2]>> /\ x[1] \in Nat /\ x[2] \in Nat
      /\ c.x <= x[1] /\ x[1] < c.x + 1 /\ c.y <= x[2] /\ x[2] < c.y + 1
  BY <1>2, InArea
<1>4. x = <<c.x, c.y>>  BY <1>1, <1>3
<1>5. Target(c, 0) = <<c.x, c.y>>  BY c.kind = "pixel" DEF Target
<1>6. 0 \in 0..Stores(c)-1  BY c.kind = "pixel" DEF Stores
<1> QED BY <1>4, <1>5, <1>6 DEF Covered

LEMMA StringCovers ==
  ASSUME NEW c, Proper(c), c.kind = "string", NEW x \in Area(c)
  PROVE  Covered(c, x)
<1>1. /\ FontWidth \in Nat \ {0} /\ FontHeight \in Nat \ {0}
      /\ FontWidth * FontHeight \in Nat \ {0}
      /\ Stores(c) = (FontWidth * FontHeight) * Len(c.str)
      /\ c.x \in Nat /\ c.y \in Nat
  BY StringStores
<1>2. PICK len \in Nat : len = Len(c.str)  BY StringStores
<1>3. PICK end \in Nat : end = len * FontWidth  BY <1>1
<1>4. Right(c) = c.x + end /\ Bottom(c) = c.y + FontHeight
  BY <1>2, <1>3, StringStores
<1>5. /\ x = <<x[1], x[2]>> /\ x[1] \in Nat /\ x[2] \in Nat
      /\ c.x <= x[1] /\ x[1] < c.x + end /\ c.y <= x[2] /\ x[2] < c.y + FontHeight
  BY <1>4, InArea
<1>6. PICK a \in Nat : a = x[1] - c.x /\ c.x + a = x[1] /\ a < end
  <2>1. PICK u \in Nat : u = x[1]  BY <1>5
  <2>2. PICK l \in Nat : l = c.x  BY <1>1
  <2>3. u - l \in Nat /\ l + (u - l) = u /\ u - l < end  BY ONLY <1>5, <2>1, <2>2, u \in Nat, l \in Nat, end \in Nat
  <2> QED BY ONLY <2>1, <2>2, <2>3
<1>7. PICK row \in 0..FontHeight-1 : row = x[2] - c.y /\ c.y + row = x[2]
  <2>1. PICK v \in Nat : v = x[2]  BY <1>5
  <2>2. PICK l \in Nat : l = c.y  BY <1>1
  <2>3. v - l \in 0..FontHeight-1 /\ l + (v - l) = v
    <3>1. FontHeight \in Nat /\ l <= v /\ v < l + FontHeight  BY <1>1, <1>5, <2>1, <2>2
    <3> QED BY ONLY <3>1, v \in Nat, l \in Nat
  <2> QED BY ONLY <2>1, <2>2, <2>3
<1>8. a < FontWidth * len
  <2>1. len * FontWidth = FontWidth * len  BY <1>1
  <2> QED BY <1>3, <1>6, <2>1
<1>9. /\ a \div FontWidth \in 0..len-1 /\ a % FontWidth \in 0..FontWidth-1
      /\ a = (a \div FontWidth) * FontWidth + (a % FontWidth)
  BY ONLY <1>1, <1>8, a \in Nat, len \in Nat, len \in Int, QuotientBelow
<1>10. PICK n \in 0..len-1 : n = a \div FontWidth  BY <1>9
<1>11. PICK col \in 0..FontWidth-1 : col = a % FontWidth  BY <1>9
<1>12. PICK j \in 0..FontWidth*FontHeight-1 : j % FontWidth = col /\ j \div FontWidth = row
  <2>1. FontWidth \in Nat /\ FontHeight \in Nat  BY <1>1
  <2>2. HasCell(FontWidth, FontHeight, col, row)  BY <2>1, CellAt
  <2> QED BY <2>2, Zenon DEF HasCell
<1>13. PICK cell \in Nat \ {0} : cell = FontWidth * FontHeight  BY <1>1
<1>14. PICK i \in 0..cell*len-1 : i % cell = j /\ i \div cell = n
  <2>1. j \in 0..cell-1 /\ cell \in Nat  BY <1>13
  <2>2. HasCell(cell, len, j, n)  BY <2>1, CellAt
  <2> QED BY <2>2, Zenon DEF HasCell
<1>15. i \in 0..Stores(c)-1  BY <1>1, <1>2, <1>13
<1>16. c.x + n * FontWidth + col = x[1]
  <2>1. PICK b \in Nat : b = n * FontWidth  BY <1>1
  <2>2. a = b + col  BY ONLY <1>9, <1>10, <1>11, <2>1, Zenon
  <2> QED BY <1>1, <1>6, <2>1, <2>2
<1>17. Target(c, i) = <<c.x + n * FontWidth + col, c.y + row>>
  <2> DEFINE N == i \div (FontWidth * FontHeight)
             J == i % (FontWidth * FontHeight)
  <2>1. Target(c, i) = <<c.x + N * FontWidth + (J % FontWidth), c.y + J \div FontWidth>>
    BY c.kind = "string" DEF Target
  <2>2. N = n /\ J = j  BY ONLY <1>13, <1>14, Zenon
  <2> QED BY ONLY <2>1, <2>2, <1>12, Zenon
<1>18. Target(c, i) = x  BY ONLY <1>5, <1>7, <1>16, <1>17, Zenon
<1> QED BY <1>15, <1>18 DEF Covered

LEMMA AllCovered ==
  ASSUME NEW c, Proper(c), NEW x \in Area(c)
  PROVE  Covered(c, x)
<1>1. c.kind \in {"clear", "rect", "pixel", "string"}  BY Kinds DEF Proper
<1> QED BY <1>1, ClearCovers, RectCovers, PixelCovers, StringCovers

-----------------------------------------------------------------------------
(* What a store leaves alone                                                 *)

Framed(m) == DOMAIN m = Addresses /\ m = [a \in Addresses |-> m[a]]

\* The first n stores of a call show on the screen.
Shown(m, c, n) ==
  \A i \in 0..n-1 : Target(c, i) \in Screen =>
    m[Address(Target(c, i))] = Meant(c, Target(c, i))

LEMMA PlotAt ==
  ASSUME NEW m, Framed(m), NEW t, NEW color, NEW n, n = Plot(m, t, color)
  PROVE  /\ Framed(n)
         /\ t \in Screen => n[Address(t)] = color
         /\ \A s \in Screen : s # t => n[Address(s)] = m[Address(s)]
         /\ \A a \in OffScreen : n[a] = m[a]
<1>1. CASE t \notin Screen
  <2>1. n = m  BY <1>1 DEF Plot
  <2> QED BY <1>1, <2>1
<1>2. CASE t \in Screen
  <2>1. n = [m EXCEPT ![Address(t)] = color]  BY <1>2 DEF Plot
  <2>2. Address(t) \in Addresses  BY <1>2, PixelPlace
  <2>3. n[Address(t)] = color /\ \A a \in Addresses : a # Address(t) => n[a] = m[a]
    BY <2>1, <2>2 DEF Framed
  <2>4. ASSUME NEW s \in Screen, s # t PROVE n[Address(s)] = m[Address(s)]
    <3>1. Address(s) # Address(t)  BY <1>2, <2>4, PixelsApart
    <3>2. Address(s) \in Addresses  BY PixelPlace
    <3> QED BY <2>3, <3>1, <3>2
  <2>5. ASSUME NEW a \in OffScreen PROVE n[a] = m[a]
    <3>1. a \in Addresses /\ a # Address(t)  BY <1>2 DEF OffScreen
    <3> QED BY <2>3, <3>1
  <2>6. Framed(n)  BY <2>1 DEF Framed
  <2> QED BY <2>3, <2>4, <2>5, <2>6
<1> QED BY <1>1, <1>2

-----------------------------------------------------------------------------
(* The inductive invariant                                                   *)

\* A call is in progress, one that the painter makes, and some of it is done.
DrawTypeOK ==
  /\ Framed(memory)
  /\ DOMAIN drawing = Painters /\ DOMAIN step = Painters /\ DOMAIN alone = Painters
  /\ \A p \in Painters :
       /\ drawing[p] # NoCall => drawing[p] \in Calls[p] /\ step[p] \in 0..Stores(drawing[p])
       /\ alone[p] # NoCall => alone[p] \in Calls[p]

\* A call that is alone in its area: it is the one in progress, nobody else is
\* drawing there, and what it has drawn so far is what it should have drawn.
Undisturbed(p) ==
  alone[p] # NoCall =>
    /\ drawing[p] # NoCall => drawing[p] = alone[p] /\ Shown(memory, alone[p], step[p])
    /\ drawing[p] = NoCall => Shown(memory, alone[p], Stores(alone[p]))
    /\ \A q \in Painters \ {p} : drawing[q] # NoCall => ~Overlap(drawing[q], alone[p])

DrawInv ==
  /\ DrawTypeOK
  /\ \A p \in Painters : Undisturbed(p)
  /\ OffScreenUntouched

LEMMA CallsFit ==
  ASSUME NEW p \in Painters, NEW c \in Calls[p]
  PROVE  Proper(c) /\ c # NoCall /\ c.kind \in {"clear", "rect", "pixel", "string"}
         /\ Stores(c) \in Nat
<1>1. Proper(c)  BY GraphicsAssumption DEF Proper
<1>2. c # NoCall /\ c.kind \in {"clear", "rect", "pixel", "string"}
  BY <1>1, Kinds DEF Proper
<1>3. c.kind = "clear" => Stores(c) \in Nat
  <2>1. fb_width * fb_height \in Nat  BY GraphicsAssumption
  <2> QED BY <2>1 DEF Stores
<1>4. c.kind = "rect" => Stores(c) \in Nat
  <2> HAVE c.kind = "rect"
  <2>1. c.w \in Nat /\ c.h \in Nat  BY <1>1, Kinds DEF Proper
  <2>2. Stores(c) = c.w * c.h  BY DEF Stores
  <2> QED BY <2>1, <2>2
<1>5. c.kind = "pixel" => Stores(c) \in Nat  BY DEF Stores
<1>6. c.kind = "string" => Stores(c) \in Nat
  <2> HAVE c.kind = "string"
  <2>1. PICK len \in Nat : len = Len(c.str)  BY <1>1, StringStores
  <2>2. PICK cell \in Nat : cell = FontWidth * FontHeight  BY <1>1, StringStores
  <2>3. Stores(c) = cell * len  BY <1>1, <2>1, <2>2, StringStores
  <2> QED BY <2>3
<1> QED BY <1>1, <1>2, <1>3, <1>4, <1>5, <1>6

LEMMA NextUndisturbed ==
  ASSUME NEW p \in Painters
  PROVE  Undisturbed(p)' <=>
           (alone'[p] # NoCall =>
              /\ drawing'[p] # NoCall =>
                   drawing'[p] = alone'[p] /\ Shown(memory', alone'[p], step'[p])
              /\ drawing'[p] = NoCall => Shown(memory', alone'[p], Stores(alone'[p]))
              /\ \A q \in Painters \ {p} :
                   drawing'[q] # NoCall => ~Overlap(drawing'[q], alone'[p]))
  BY DEF Undisturbed, Shown, Stores, Overlap, Area, Target, Meant, Address, Screen,
         Right, Bottom, NoCall

\* What matters of one painter's call is unchanged.
LEMMA StillUndisturbed ==
  ASSUME NEW p \in Painters, DrawTypeOK, Undisturbed(p),
         alone'[p] = NoCall \/ alone'[p] = alone[p],
         drawing'[p] = drawing[p], step'[p] = step[p],
         alone'[p] # NoCall => \A n \in 0..Stores(alone[p]) :
           Shown(memory, alone[p], n) => Shown(memory', alone[p], n),
         alone'[p] # NoCall => \A q \in Painters \ {p} :
           drawing'[q] # NoCall => ~Overlap(drawing'[q], alone[p])
  PROVE  Undisturbed(p)'
<1>1. SUFFICES ASSUME alone'[p] # NoCall
               PROVE  /\ drawing[p] # NoCall =>
                           drawing[p] = alone[p] /\ Shown(memory', alone[p], step[p])
                      /\ drawing[p] = NoCall => Shown(memory', alone[p], Stores(alone[p]))
  BY NextUndisturbed
<1>2. alone[p] \in Calls[p] /\ alone[p] # NoCall  BY <1>1 DEF DrawTypeOK
<1>3. Stores(alone[p]) \in 0..Stores(alone[p])  BY <1>2, CallsFit
<1>4. drawing[p] # NoCall => drawing[p] = alone[p] /\ step[p] \in 0..Stores(alone[p])
  BY <1>2 DEF DrawTypeOK, Undisturbed
<1> QED BY <1>1, <1>2, <1>3, <1>4 DEF Undisturbed

LEMMA DrawInvInit == GraphicsInit => DrawInv
<1> SUFFICES ASSUME GraphicsInit PROVE DrawInv  OBVIOUS
<1>1. DrawTypeOK  BY DEF GraphicsInit, DrawTypeOK, Framed
<1>2. \A p \in Painters : Undisturbed(p)  BY DEF GraphicsInit, Undisturbed
<1>3. OffScreenUntouched  BY DEF GraphicsInit, OffScreenUntouched, OffScreen
<1> QED BY <1>1, <1>2, <1>3 DEF DrawInv

\* A call begins: the ones it overlaps are no longer alone.
LEMMA DrawInvBegin ==
  ASSUME DrawInv, NEW p \in Painters, Begin(p)
  PROVE  DrawInv'
<1>1. PICK c \in Calls[p] :
        /\ drawing' = [drawing EXCEPT ![p] = c]
        /\ alone' = [q \in Painters |->
             IF q = p THEN IF \E r \in Painters : Overlap(drawing[r], c) THEN NoCall ELSE c
                      ELSE IF Overlap(alone[q], c) THEN NoCall ELSE alone[q]]
  BY DEF Begin
<1>2. step' = [step EXCEPT ![p] = 0] /\ memory' = memory /\ drawing[p] = NoCall
  BY DEF Begin
<1>3. c # NoCall /\ Stores(c) \in Nat  BY CallsFit
<1>4. DrawTypeOK /\ OffScreenUntouched /\ \A q \in Painters : Undisturbed(q)  BY DEF DrawInv
<1>5. /\ drawing'[p] = c /\ step'[p] = 0
      /\ \A q \in Painters \ {p} : drawing'[q] = drawing[q] /\ step'[q] = step[q]
  BY <1>1, <1>2, <1>4 DEF DrawTypeOK
<1>6. DrawTypeOK'
  BY <1>1, <1>2, <1>3, <1>4, <1>5 DEF DrawTypeOK, Framed, Addresses
<1>7. ASSUME NEW q \in Painters PROVE Undisturbed(q)'
  <2>1. CASE q = p
    <3>1. alone'[p] # NoCall => alone'[p] = c /\ \A r \in Painters : ~Overlap(drawing[r], c)
      BY <1>1, <1>3
    <3>2. Shown(memory', c, 0)  BY DEF Shown
    <3> QED BY <1>3, <1>5, <2>1, <3>1, <3>2, NextUndisturbed
  <2>2. CASE q # p
    <3>1. /\ alone'[q] = IF Overlap(alone[q], c) THEN NoCall ELSE alone[q]
          /\ drawing'[q] = drawing[q] /\ step'[q] = step[q]
      BY <1>1, <1>5, <2>2
    <3>2. ASSUME alone'[q] # NoCall, NEW r \in Painters \ {q}, drawing'[r] # NoCall
          PROVE  ~Overlap(drawing'[r], alone[q])
      <4>1. alone[q] # NoCall /\ ~Overlap(alone[q], c)  BY <3>1, <3>2
      <4>2. CASE r = p
        <5>1. ~Overlap(c, alone[q])  BY <4>1 DEF Overlap
        <5> QED BY <1>5, <4>2, <5>1
      <4>3. CASE r # p  BY <1>4, <1>5, <3>2, <4>1, <4>3 DEF Undisturbed
      <4> QED BY <4>2, <4>3
    <3> QED BY <1>2, <1>4, <3>1, <3>2, StillUndisturbed
  <2> QED BY <2>1, <2>2
<1>8. OffScreenUntouched'
  BY <1>2, <1>4 DEF OffScreenUntouched, OffScreen, Addresses, Address, Screen, Blank
<1> QED BY <1>6, <1>7, <1>8 DEF DrawInv

\* A store is in its call's area, which no other painter's alone call overlaps.
LEMMA DrawInvDraw ==
  ASSUME DrawInv, NEW p \in Painters, Draw(p)
  PROVE  DrawInv'
<1> DEFINE c == drawing[p]
           i == step[p]
           t == Target(c, i)
<1>1. /\ c # NoCall /\ i < Stores(c) /\ memory' = Store(memory, c, i)
      /\ step' = [step EXCEPT ![p] = i + 1]
      /\ drawing' = drawing /\ alone' = alone
  BY DEF Draw
<1>2. DrawTypeOK /\ OffScreenUntouched /\ \A q \in Painters : Undisturbed(q)  BY DEF DrawInv
<1>3. c \in Calls[p] /\ i \in 0..Stores(c)  BY <1>1, <1>2 DEF DrawTypeOK
<1>4. Proper(c) /\ Stores(c) \in Nat /\ i \in 0..Stores(c)-1 /\ i + 1 \in 0..Stores(c)
  <2>1. Proper(c) /\ Stores(c) \in Nat  BY <1>3, CallsFit
  <2> QED BY <1>1, <1>3, <2>1
<1>5. Framed(memory)  BY <1>2 DEF DrawTypeOK
<1>6. Aimed(c, i)  BY <1>4, AllAimed
<1>7. memory' = Plot(memory, t, Meant(c, t))  BY <1>1, <1>6 DEF Aimed
<1>8. t \in Screen => t \in Area(c)  BY <1>4, TargetInArea
<1> HIDE DEF c, i, t
<1>9. /\ Framed(memory')
      /\ t \in Screen => memory'[Address(t)] = Meant(c, t)
      /\ \A s \in Screen : s # t => memory'[Address(s)] = memory[Address(s)]
      /\ \A a \in OffScreen : memory'[a] = memory[a]
  BY <1>5, <1>7, PlotAt
<1>10. /\ step'[p] = i + 1
       /\ \A q \in Painters \ {p} : step'[q] = step[q]
  BY <1>1, <1>2 DEF DrawTypeOK
<1>11. DrawTypeOK'
  BY <1>1, <1>2, <1>4, <1>9, <1>10 DEF DrawTypeOK, c
<1>12. ASSUME NEW q \in Painters PROVE Undisturbed(q)'
  <2>1. CASE q = p
    <3>1. SUFFICES ASSUME alone[p] # NoCall
                   PROVE  /\ alone[p] = c /\ Shown(memory', c, i + 1)
                          /\ \A r \in Painters \ {p} :
                               drawing[r] # NoCall => ~Overlap(drawing[r], alone[p])
      BY <1>1, <1>10, <2>1, NextUndisturbed DEF c
    <3>2. /\ alone[p] = c /\ Shown(memory, c, i)
          /\ \A r \in Painters \ {p} :
               drawing[r] # NoCall => ~Overlap(drawing[r], alone[p])
      BY <1>1, <1>2, <3>1 DEF Undisturbed, c, i
    <3>3. Shown(memory', c, i + 1)
      <4> SUFFICES ASSUME NEW k \in 0..(i+1)-1, Target(c, k) \in Screen
                   PROVE  memory'[Address(Target(c, k))] = Meant(c, Target(c, k))
        BY DEF Shown
      <4>1. CASE Target(c, k) = t  BY <1>9, <4>1
      <4>2. CASE Target(c, k) # t
        <5>1. k # i  BY <4>2 DEF t
        <5>2. k \in 0..i-1  BY <1>4, <5>1
        <5>3. memory[Address(Target(c, k))] = Meant(c, Target(c, k))
          BY <3>2, <5>2 DEF Shown
        <5> QED BY <1>9, <4>2, <5>3
      <4> QED BY <4>1, <4>2
    <3> QED BY <3>2, <3>3
  <2>2. CASE q # p
    <3>1. alone[q] # NoCall => alone[q] \in Calls[q] /\ ~Overlap(c, alone[q])
      BY <1>1, <1>2, <2>2 DEF DrawTypeOK, Undisturbed, c
    <3>2. ASSUME alone[q] # NoCall, NEW n \in 0..Stores(alone[q]), Shown(memory, alone[q], n)
          PROVE  Shown(memory', alone[q], n)
      <4> SUFFICES ASSUME NEW k \in 0..n-1, Target(alone[q], k) \in Screen
                   PROVE  memory'[Address(Target(alone[q], k))] = Meant(alone[q], Target(alone[q], k))
        BY DEF Shown
      <4>1. Proper(alone[q]) /\ Stores(alone[q]) \in Nat  BY <3>1, <3>2, CallsFit
      <4>2. k \in 0..Stores(alone[q])-1  BY <4>1
      <4>3. Target(alone[q], k) \in Area(alone[q])  BY <4>1, <4>2, TargetInArea
      <4>4. ~(t \in Screen /\ t = Target(alone[q], k))
        BY <1>8, <3>1, <3>2, <4>3 DEF Overlap
      <4>5. memory[Address(Target(alone[q], k))] = Meant(alone[q], Target(alone[q], k))
        BY <3>2 DEF Shown
      <4> QED BY <1>9, <4>4, <4>5
    <3> QED BY <1>1, <1>2, <1>10, <2>2, <3>1, <3>2, StillUndisturbed DEF Undisturbed
  <2> QED BY <2>1, <2>2
<1>13. OffScreenUntouched'
  BY <1>2, <1>9 DEF OffScreenUntouched, OffScreen, Addresses, Address, Screen, Blank
<1> QED BY <1>11, <1>12, <1>13 DEF DrawInv

\* A call that is over has stored every pixel of its area.
LEMMA DrawInvFinish ==
  ASSUME DrawInv, NEW p \in Painters, Finish(p)
  PROVE  DrawInv'
<1>1. /\ drawing[p] # NoCall /\ step[p] = Stores(drawing[p])
      /\ drawing' = [drawing EXCEPT ![p] = NoCall] /\ step' = [step EXCEPT ![p] = 0]
      /\ memory' = memory /\ alone' = alone
  BY DEF Finish
<1>2. DrawTypeOK /\ OffScreenUntouched /\ \A q \in Painters : Undisturbed(q)  BY DEF DrawInv
<1>3. /\ drawing'[p] = NoCall
      /\ \A q \in Painters \ {p} : drawing'[q] = drawing[q] /\ step'[q] = step[q]
  BY <1>1, <1>2 DEF DrawTypeOK
<1>4. DrawTypeOK'
  <2>1. Framed(memory)'  BY <1>1, <1>2 DEF DrawTypeOK, Framed, Addresses
  <2>2. DOMAIN drawing' = Painters /\ DOMAIN step' = Painters /\ DOMAIN alone' = Painters
    BY <1>1, <1>2 DEF DrawTypeOK
  <2>3. ASSUME NEW q \in Painters
        PROVE  /\ drawing'[q] # NoCall =>
                    drawing'[q] \in Calls[q] /\ step'[q] \in 0..Stores(drawing'[q])
               /\ alone'[q] # NoCall => alone'[q] \in Calls[q]
    BY <1>1, <1>2, <1>3 DEF DrawTypeOK
  <2> QED BY <2>1, <2>2, <2>3 DEF DrawTypeOK, NoCall, Stores
<1>5. ASSUME NEW q \in Painters PROVE Undisturbed(q)'
  <2>1. ASSUME alone[q] # NoCall, NEW r \in Painters \ {q}, drawing'[r] # NoCall
        PROVE  ~Overlap(drawing'[r], alone[q])
    <3>1. r # p /\ drawing'[r] = drawing[r]  BY <1>3, <2>1
    <3> QED BY <1>2, <2>1, <3>1 DEF Undisturbed
  <2>2. CASE q = p
    <3>1. alone[p] # NoCall => Shown(memory, alone[p], Stores(alone[p]))
      BY <1>1, <1>2 DEF Undisturbed
    <3> QED BY <1>1, <1>3, <2>1, <2>2, <3>1, NextUndisturbed
  <2>3. CASE q # p  BY <1>1, <1>2, <1>3, <2>1, <2>3, StillUndisturbed
  <2> QED BY <2>2, <2>3
<1>6. OffScreenUntouched'
  BY <1>1, <1>2 DEF OffScreenUntouched, OffScreen, Addresses, Address, Screen, Blank
<1> QED BY <1>4, <1>5, <1>6 DEF DrawInv

LEMMA DrawInvStutter ==
  ASSUME DrawInv, UNCHANGED graphicsVars
  PROVE  DrawInv'
<1>1. memory' = memory /\ drawing' = drawing /\ step' = step /\ alone' = alone
  BY DEF graphicsVars
<1>2. DrawTypeOK /\ OffScreenUntouched /\ \A q \in Painters : Undisturbed(q)  BY DEF DrawInv
<1>3. DrawTypeOK'  BY <1>1, <1>2 DEF DrawTypeOK, Framed, Addresses, NoCall, Stores
<1>4. \A q \in Painters : Undisturbed(q)'
  <2> TAKE q \in Painters
  <2> QED BY <1>1, <1>2, NextUndisturbed DEF Undisturbed
<1>5. OffScreenUntouched'
  BY <1>1, <1>2 DEF OffScreenUntouched, OffScreen, Addresses, Address, Screen, Blank
<1> QED BY <1>3, <1>4, <1>5 DEF DrawInv

\* What a finished call that nobody disturbed shows is its whole area.
LEMMA DrawInvShows == DrawInv => DrawnExactly
<1> SUFFICES ASSUME DrawInv PROVE DrawnExactly  OBVIOUS
<1>1. DrawTypeOK /\ OffScreenUntouched /\ \A q \in Painters : Undisturbed(q)  BY DEF DrawInv
<1>2. ASSUME NEW p \in Painters, drawing[p] = NoCall, NEW x \in Area(alone[p])
      PROVE  PixelAt(x) = Meant(alone[p], x)
  <2>1. alone[p] # NoCall  BY DEF Area
  <2>2. Proper(alone[p])  BY <1>1, <2>1, CallsFit DEF DrawTypeOK
  <2>3. PICK i \in 0..Stores(alone[p])-1 : Target(alone[p], i) = x
    BY <2>2, AllCovered DEF Covered
  <2>4. x \in Screen  BY <2>2, InArea
  <2>5. Shown(memory, alone[p], Stores(alone[p]))  BY <1>1, <1>2, <2>1 DEF Undisturbed
  <2> QED BY <2>3, <2>4, <2>5 DEF Shown, PixelAt
<1> QED BY <1>1, <1>2 DEF DrawnExactly, AreasShown

\* A call nobody drew over shows what it was meant to, pixel by pixel, whatever
\* the others draw elsewhere meanwhile; the memory behind the lines and the
\* screen is never written (framebuffer.c:29-75, font_renderer.c:22-51).
THEOREM CallsDrawnExactly == GraphicsSpec => []DrawnExactly
<1>1. GraphicsInit => DrawInv  BY DrawInvInit
<1>2. DrawInv /\ [GraphicsNext]_graphicsVars => DrawInv'
  <2> SUFFICES ASSUME DrawInv, [GraphicsNext]_graphicsVars PROVE DrawInv'  OBVIOUS
  <2>1. CASE UNCHANGED graphicsVars  BY <2>1, DrawInvStutter
  <2>2. ASSUME NEW p \in Painters, Begin(p) PROVE DrawInv'  BY <2>2, DrawInvBegin
  <2>3. ASSUME NEW p \in Painters, Draw(p) PROVE DrawInv'  BY <2>3, DrawInvDraw
  <2>4. ASSUME NEW p \in Painters, Finish(p) PROVE DrawInv'  BY <2>4, DrawInvFinish
  <2> QED BY <2>1, <2>2, <2>3, <2>4 DEF GraphicsNext
<1>3. DrawInv => DrawnExactly  BY DrawInvShows
<1> QED BY <1>1, <1>2, <1>3, PTL DEF GraphicsSpec

-----------------------------------------------------------------------------
(* The console: what a screen and the paper have in common                   *)

\* The cursors of the console s and of the ideal terminal t are at the same place.
Aligned(s, t) ==
  /\ DOMAIN s = {"vga", "column", "line", "current_color"} /\ DOMAIN s.vga = Cells
  /\ DOMAIN t = {"rows", "row", "col", "color"} /\ DOMAIN t.rows = 1..H
  /\ t.row \in 1..H /\ t.col \in 0..W
  /\ s.line = t.row - 1 /\ s.column = t.col /\ s.current_color = t.color
  /\ \A y \in 1..H : DOMAIN t.rows[y] = 0..W-1

\* The cells show the rows, and nothing has been written behind them.
Alike(cells, rows) ==
  \A y \in 0..H-1, x \in 0..W-1 : cells[y * W + x] = rows[y + 1][x]
Clear(cells) == \A i \in W*H..W*H+3 : cells[i] = Cell(BlankChar, 0)

Synced(s, t) == Aligned(s, t) /\ Alike(s.vga, t.rows) /\ Clear(s.vga)

\* What the sizes of the screen give arithmetic
LEMMA ScreenSize ==
  /\ W \in Nat \ {0} /\ H \in Nat \ {0} /\ W % 4 = 0
  /\ W * H \in Nat /\ W * (H - 1) = W * H - W /\ W * (H - 1) \in Nat
<1>1. W \in Nat \ {0} /\ H \in Nat \ {0} /\ W % 4 = 0  BY ConsoleAssumption DEF W, H
<1> HIDE DEF W, H
<1>2. W * H \in Nat /\ W * (H - 1) = W * H - W  BY <1>1, Z3
<1>3. W * (H - 1) \in Nat  BY <1>1, Z3
<1> QED BY <1>1, <1>2, <1>3

\* The cell of row y and column x lies on the screen, and a row above it is W less.
LEMMA Place ==
  ASSUME NEW y \in 0..H-1, NEW x \in 0..W-1
  PROVE  /\ y * W + x \in 0..W*H-1 /\ y * W + x \in Cells
         /\ y < H - 1 => y * W + x < W * (H - 1) /\ (y * W + x) + W = (y + 1) * W + x
         /\ y = H - 1 => y * W + x >= W * (H - 1)
<1>1. W \in Nat \ {0} /\ H \in Nat \ {0} /\ W * H \in Nat /\ W * (H - 1) = W * H - W
  BY ScreenSize
<1> HIDE DEF W, H
<1>2. y \in Nat /\ x \in Nat /\ x <= W - 1 /\ y <= H - 1  BY <1>1
<1>3. y * W + W <= W * H  BY <1>1, <1>2, Z3
<1>4. y * W >= 0 /\ y * W \in Nat  BY <1>1, <1>2, Z3
<1>5. (y + 1) * W = y * W + W  BY <1>1, <1>2, Z3
<1>6. y < H - 1 => (y + 1) * W + W <= W * H
  <2> SUFFICES ASSUME y < H - 1 PROVE (y + 1) * W + W <= W * H  OBVIOUS
  <2>1. y + 1 + 1 <= H  BY <1>1, <1>2
  <2> QED BY <1>1, <1>2, <2>1, Z3
<1>7. y = H - 1 => y * W = W * H - W  BY <1>1, <1>2, Z3
<1>8. PICK u \in Nat : u = y * W  BY <1>4
<1>9. PICK v \in Nat : v = W * H  BY <1>1
<1> QED BY <1>1, <1>2, <1>3, <1>5, <1>6, <1>7, <1>8, <1>9 DEF Cells

\* Different places have different cells.
LEMMA PlacesApart ==
  ASSUME NEW y \in 0..H-1, NEW x \in 0..W-1, NEW v \in 0..H-1, NEW u \in 0..W-1,
         y * W + x = v * W + u
  PROVE  y = v /\ x = u
<1>1. W \in Nat \ {0} /\ H \in Nat \ {0}  BY ScreenSize
<1> HIDE DEF W, H
<1>2. (y * W + x) \div W = y /\ (y * W + x) % W = x  BY <1>1, Quotient
<1>3. (v * W + u) \div W = v /\ (v * W + u) % W = u  BY <1>1, Quotient
<1> QED BY <1>2, <1>3

\* A character within the row
LEMMA PutSynced ==
  ASSUME NEW s, NEW t, NEW c, Synced(s, t), s.column < W
  PROVE  /\ Synced(PutCell(s, c), Type(t, c))
         /\ PutCell(s, c).column = s.column + 1
<1>0. W \in Nat \ {0} /\ H \in Nat \ {0} /\ W * H \in Nat  BY ScreenSize
<1> HIDE DEF W, H
<1> DEFINE p == s.line * W + s.column
           s1 == PutCell(s, c)
           t1 == Type(t, c)
           d == Cell(c, s.current_color)
<1>1. /\ t.row \in 1..H /\ t.col \in 0..W-1 /\ s.line \in 0..H-1 /\ s.column \in 0..W-1
      /\ s.line = t.row - 1 /\ s.column = t.col /\ s.current_color = t.color
  <2>1. Aligned(s, t)  BY DEF Synced
  <2>2. t.row \in Int /\ t.col \in Int /\ 1 <= t.row /\ t.row <= H /\ 0 <= t.col
    BY <1>0, <2>1 DEF Aligned
  <2>3. s.line = t.row - 1 /\ s.column = t.col /\ s.current_color = t.color
    BY <2>1 DEF Aligned
  <2> QED BY <1>0, <2>2, <2>3
<1>2. p \in 0..W*H-1 /\ p \in Cells  BY <1>1, Place
<1>3. /\ DOMAIN s1 = DOMAIN s /\ s1.vga = [s.vga EXCEPT ![p] = d]
      /\ s1.column = s.column + 1 /\ s1.line = s.line /\ s1.current_color = s.current_color
  BY DEF PutCell, Synced, Aligned
<1>4. /\ DOMAIN t1 = DOMAIN t
      /\ t1.rows = [t.rows EXCEPT ![t.row] = [t.rows[t.row] EXCEPT ![t.col] = d]]
      /\ t1.col = t.col + 1 /\ t1.row = t.row /\ t1.color = t.color
  <2>1. t.col # W  BY <1>0, <1>1
  <2>2. t1 = [t EXCEPT !.rows[t.row][t.col] = Cell(c, t.color), !.col = @ + 1]
    BY <2>1 DEF Type
  <2> QED BY <1>1, <2>2 DEF Synced, Aligned
<1> HIDE DEF s1, t1, d
<1>5. DOMAIN s1.vga = Cells /\ DOMAIN t1.rows = 1..H  BY <1>3, <1>4 DEF Synced, Aligned
<1>6. ASSUME NEW y \in 1..H PROVE DOMAIN t1.rows[y] = 0..W-1
  BY <1>1, <1>4 DEF Synced, Aligned
<1>7. ASSUME NEW y \in 0..H-1, NEW x \in 0..W-1 PROVE s1.vga[y * W + x] = t1.rows[y + 1][x]
  <2>1. y + 1 \in 1..H /\ y * W + x \in Cells  BY <1>0, Place
  <2>2. CASE y * W + x = p
    <3>1. y = s.line /\ x = s.column  BY <1>1, <2>2, PlacesApart
    <3>2. y + 1 = t.row /\ x = t.col  BY <1>0, <1>1, <3>1
    <3>3. s1.vga[y * W + x] = d  BY <1>2, <1>3, <2>2 DEF Synced, Aligned
    <3>4. t1.rows[t.row][t.col] = d  BY <1>1, <1>4 DEF Synced, Aligned
    <3> QED BY <3>2, <3>3, <3>4
  <2>3. CASE y * W + x # p
    <3>1. ~(y = s.line /\ x = s.column)  BY <2>3
    <3>2. ~(y + 1 = t.row /\ x = t.col)  BY <1>0, <1>1, <3>1
    <3>3. s1.vga[y * W + x] = s.vga[y * W + x]
      BY <1>3, <2>1, <2>3 DEF Synced, Aligned
    <3>4. PICK z : z = y + 1  OBVIOUS
    <3>5. t1.rows[z][x] = t.rows[z][x]
      BY <1>1, <1>4, <2>1, <3>2, <3>4 DEF Synced, Aligned
    <3> QED BY <3>3, <3>4, <3>5 DEF Synced, Alike
  <2> QED BY <2>2, <2>3
<1>8. ASSUME NEW i \in W*H..W*H+3 PROVE s1.vga[i] = Cell(BlankChar, 0)
  <2>1. i # p /\ i \in Cells  BY <1>0, <1>2 DEF Cells
  <2> HIDE DEF p
  <2>2. s1.vga[i] = s.vga[i]  BY <1>3, <2>1 DEF Synced, Aligned
  <2> QED BY <2>2 DEF Synced, Clear
<1>9. t1.col \in 0..W  BY <1>0, <1>1, <1>4
<1>10. Aligned(s1, t1)
  <2>1. s1.line = t1.row - 1 /\ s1.column = t1.col /\ s1.current_color = t1.color
    BY <1>1, <1>3, <1>4
  <2> QED BY <1>1, <1>3, <1>4, <1>5, <1>6, <1>9, <2>1 DEF Synced, Aligned
<1>11. Synced(s1, t1)  BY <1>7, <1>8, <1>10 DEF Synced, Alike, Clear
<1> QED BY <1>3, <1>11 DEF s1, t1

\* A new line, with or without a scroll
LEMMA NewLineSynced ==
  ASSUME NEW s, NEW t, Synced(s, t)
  PROVE  Synced(k_new_line(s), Feed(t)) /\ k_new_line(s).column = 0
<1>0. W \in Nat \ {0} /\ H \in Nat \ {0} /\ W * H \in Nat
      /\ W * (H - 1) = W * H - W /\ W * (H - 1) \in Nat
  BY ScreenSize
<1> HIDE DEF W, H
<1> DEFINE s1 == k_new_line(s)
           t1 == Feed(t)
<1>1. t.row \in 1..H /\ s.line = t.row - 1  BY DEF Synced, Aligned
<1>2. CASE t.row < H
  <2>1. s.line < H - 1  BY <1>0, <1>1, <1>2
  <2>2. s1 = [s EXCEPT !.line = @ + 1, !.column = 0]  BY <2>1 DEF k_new_line
  <2>3. t1 = [t EXCEPT !.row = @ + 1, !.col = 0]  BY <1>2 DEF Feed
  <2>4. /\ DOMAIN s1 = DOMAIN s /\ s1.vga = s.vga /\ s1.column = 0
        /\ s1.line = s.line + 1 /\ s1.current_color = s.current_color
    BY <2>2 DEF Synced, Aligned
  <2>5. /\ DOMAIN t1 = DOMAIN t /\ t1.rows = t.rows /\ t1.col = 0
        /\ t1.row = t.row + 1 /\ t1.color = t.color
    BY <2>3 DEF Synced, Aligned
  <2>6. t1.row \in 1..H /\ s1.line = t1.row - 1 /\ t1.col \in 0..W
    BY <1>0, <1>1, <1>2, <2>4, <2>5
  <2> HIDE DEF s1, t1
  <2>7. Aligned(s1, t1)  BY <2>4, <2>5, <2>6 DEF Synced, Aligned
  <2>8. Synced(s1, t1)  BY <2>4, <2>5, <2>7 DEF Synced
  <2> QED BY <2>4, <2>8 DEF s1, t1
<1>3. CASE ~(t.row < H)
  <2>1. ~(s.line < H - 1)  BY <1>0, <1>1, <1>3
  <2>2. s1 = [k_scroll_up(s) EXCEPT !.column = 0]  BY <2>1 DEF k_new_line
  <2> DEFINE blank == Cell(BlankChar, s.current_color)
             v1 == [i \in Cells |-> CASE i < W * (H - 1) -> s.vga[i + W]
                                      [] i \in W * (H - 1)..W * H - 1 -> blank
                                      [] OTHER -> s.vga[i]]
             r1 == [y \in 1..H |-> IF y < H THEN t.rows[y + 1] ELSE BlankRow(t.color)]
  <2>3. k_scroll_up(s) = [s EXCEPT !.vga = v1]  BY DEF k_scroll_up
  <2>4. t1 = [t EXCEPT !.rows = r1, !.col = 0]  BY <1>3 DEF Feed
  <2> HIDE DEF v1, r1
  <2>5. /\ DOMAIN s1 = DOMAIN s /\ s1.vga = v1 /\ s1.column = 0
        /\ s1.line = s.line /\ s1.current_color = s.current_color
    BY <2>2, <2>3 DEF Synced, Aligned
  <2>6. /\ DOMAIN t1 = DOMAIN t /\ t1.rows = r1 /\ t1.col = 0
        /\ t1.row = t.row /\ t1.color = t.color
    BY <2>4 DEF Synced, Aligned
  <2>7. DOMAIN v1 = Cells /\ DOMAIN r1 = 1..H  BY DEF v1, r1
  <2>8. ASSUME NEW y \in 1..H PROVE DOMAIN r1[y] = 0..W-1
    <3>1. y < H => y + 1 \in 1..H  BY <1>0
    <3>2. r1[y] = IF y < H THEN t.rows[y + 1] ELSE BlankRow(t.color)  BY DEF r1
    <3> QED BY <3>1, <3>2 DEF Synced, Aligned, BlankRow
  <2>9. ASSUME NEW y \in 0..H-1, NEW x \in 0..W-1 PROVE v1[y * W + x] = r1[y + 1][x]
    <3>1. y + 1 \in 1..H  BY <1>0
    <3>2. r1[y + 1] = IF y + 1 < H THEN t.rows[y + 1 + 1] ELSE BlankRow(t.color)
      BY <3>1 DEF r1
    <3>3. y * W + x \in Cells /\ y * W + x \in 0..W*H-1  BY Place
    <3>4. CASE y < H - 1
      <4>1. y + 1 < H /\ y + 1 \in 0..H-1 /\ (y + 1) + 1 = y + 1 + 1  BY <1>0, <3>4
      <4>2. PICK i : i = y * W + x  OBVIOUS
      <4>3. i \in Cells /\ i < W * (H - 1) /\ i + W = (y + 1) * W + x
        BY <3>3, <3>4, <4>2, Place
      <4>4. v1[i] = s.vga[i + W]
        <5>1. i \notin W * (H - 1)..W * H - 1  BY <1>0, <3>3, <4>2, <4>3
        <5> QED BY <4>3, <5>1 DEF v1
      <4>5. s.vga[(y + 1) * W + x] = t.rows[(y + 1) + 1][x]  BY <4>1 DEF Synced, Alike
      <4> QED BY <3>2, <4>1, <4>2, <4>3, <4>4, <4>5
    <3>5. CASE y = H - 1
      <4>1. ~(y + 1 < H)  BY <1>0, <3>5
      <4>2. y * W + x >= W * (H - 1)  BY <3>5, Place
      <4>3. PICK i \in Int : i = y * W + x  BY <3>3
      <4>4. ~(i < W * (H - 1)) /\ i \in W * (H - 1)..W * H - 1 /\ i \in Cells
        BY <1>0, <3>3, <4>2, <4>3
      <4>5. v1[i] = blank  BY <4>4 DEF v1
      <4>6. r1[y + 1][x] = Cell(BlankChar, t.color)  BY <3>2, <4>1 DEF BlankRow
      <4>7. s.current_color = t.color  BY DEF Synced, Aligned
      <4> QED BY <4>3, <4>5, <4>6, <4>7
    <3> QED BY <1>0, <3>4, <3>5
  <2>10. ASSUME NEW i \in W*H..W*H+3 PROVE v1[i] = Cell(BlankChar, 0)
    <3>1. i \in Cells /\ ~(i < W * (H - 1)) /\ i \notin W * (H - 1)..W * H - 1
      BY <1>0 DEF Cells
    <3>2. v1[i] = s.vga[i]  BY <3>1 DEF v1
    <3> QED BY <3>2 DEF Synced, Clear
  <2> HIDE DEF s1, t1
  <2>11. t1.col \in 0..W  BY <1>0, <2>6
  <2>12. Aligned(s1, t1)
    BY <2>5, <2>6, <2>7, <2>8, <2>11 DEF Synced, Aligned
  <2>13. Synced(s1, t1)
    BY <2>5, <2>6, <2>9, <2>10, <2>12 DEF Synced, Alike, Clear
  <2> QED BY <2>5, <2>13 DEF s1, t1
<1> QED BY <1>2, <1>3
-----------------------------------------------------------------------------
(* The console: what the loops of k_print and k_itoa do, step by step        *)

\* A string
LEMMA TextSteps ==
  ASSUME NEW s, NEW str, Len(str) \in Nat
  PROVE  \E v : /\ v[0] = s /\ Text(s, str) = v[Len(str)]
               /\ \A i \in 1..Len(str) : v[i] = Control(v[i-1], str[i])
<1> DEFINE L(n, v) == v = [i \in 0..n |-> IF i = 0 THEN s ELSE Control(v[i-1], str[i])]
           T == {n \in Nat : \E v : L(n, v)}
<1>1. 0 \in T
  <2>1. L(0, [i \in 0..0 |-> s])  OBVIOUS
  <2> QED BY <2>1
<1>2. ASSUME NEW n \in Nat, n \in T PROVE n + 1 \in T
  <2>1. PICK v : L(n, v)  BY <1>2
  <2> DEFINE w == [i \in 0..n+1 |-> IF i = n + 1 THEN Control(v[n], str[n + 1]) ELSE v[i]]
  <2>2. ASSUME NEW i \in 0..n+1 PROVE w[i] = IF i = 0 THEN s ELSE Control(w[i-1], str[i])
    <3>1. CASE i = n + 1
      <4>1. i # 0 /\ i - 1 = n /\ n \in 0..n+1 /\ n # n + 1  BY <3>1
      <4>2. w[i] = Control(v[n], str[n + 1]) /\ w[n] = v[n]  BY <3>1, <4>1
      <4> HIDE DEF w
      <4> QED BY <3>1, <4>1, <4>2
    <3>2. CASE i # n + 1
      <4>1. i \in 0..n /\ w[i] = v[i]  BY <3>2
      <4>2. v[i] = IF i = 0 THEN s ELSE Control(v[i-1], str[i])  BY <2>1, <4>1
      <4>3. i # 0 => w[i-1] = v[i-1]  BY <4>1
      <4> HIDE DEF w
      <4> QED BY <4>1, <4>2, <4>3
    <3> QED BY <3>1, <3>2
  <2>3. L(n + 1, w)
    <3>1. w = [i \in 0..n+1 |-> w[i]]  OBVIOUS
    <3> HIDE DEF w
    <3> QED BY <2>2, <3>1
  <2> HIDE DEF w
  <2> QED BY <2>3
<1>3. Len(str) \in T
  <2>1. Nat \subseteq T
    <3> HIDE DEF T
    <3> QED BY <1>1, <1>2, Induction
  <2> QED BY <2>1
<1> DEFINE f == CHOOSE v : L(Len(str), v)
<1>4. L(Len(str), f)  BY <1>3
<1>5. Text(s, str) = f[Len(str)]  BY DEF Text
<1> HIDE DEF f
<1>6. f[0] = s  BY <1>4
<1>7. ASSUME NEW i \in 1..Len(str) PROVE f[i] = Control(f[i-1], str[i])
  <2>1. i \in 0..Len(str) /\ i # 0  BY <1>7
  <2> QED BY <1>4, <2>1
<1> QED BY <1>5, <1>6, <1>7

\* The same string on paper
LEMMA PaperTextSteps ==
  ASSUME NEW t, NEW str, Len(str) \in Nat
  PROVE  \E v : /\ v[0] = t /\ TypeText(t, str) = v[Len(str)]
               /\ \A i \in 1..Len(str) : v[i] = TypeControl(v[i-1], str[i])
<1> DEFINE L(n, v) == v = [i \in 0..n |-> IF i = 0 THEN t ELSE TypeControl(v[i-1], str[i])]
           T == {n \in Nat : \E v : L(n, v)}
<1>1. 0 \in T
  <2>1. L(0, [i \in 0..0 |-> t])  OBVIOUS
  <2> QED BY <2>1
<1>2. ASSUME NEW n \in Nat, n \in T PROVE n + 1 \in T
  <2>1. PICK v : L(n, v)  BY <1>2
  <2> DEFINE w == [i \in 0..n+1 |-> IF i = n + 1 THEN TypeControl(v[n], str[n + 1]) ELSE v[i]]
  <2>2. ASSUME NEW i \in 0..n+1 PROVE w[i] = IF i = 0 THEN t ELSE TypeControl(w[i-1], str[i])
    <3>1. CASE i = n + 1
      <4>1. i # 0 /\ i - 1 = n /\ n \in 0..n+1 /\ n # n + 1  BY <3>1
      <4>2. w[i] = TypeControl(v[n], str[n + 1]) /\ w[n] = v[n]  BY <3>1, <4>1
      <4> HIDE DEF w
      <4> QED BY <3>1, <4>1, <4>2
    <3>2. CASE i # n + 1
      <4>1. i \in 0..n /\ w[i] = v[i]  BY <3>2
      <4>2. v[i] = IF i = 0 THEN t ELSE TypeControl(v[i-1], str[i])  BY <2>1, <4>1
      <4>3. i # 0 => w[i-1] = v[i-1]  BY <4>1
      <4> HIDE DEF w
      <4> QED BY <4>1, <4>2, <4>3
    <3> QED BY <3>1, <3>2
  <2>3. L(n + 1, w)
    <3>1. w = [i \in 0..n+1 |-> w[i]]  OBVIOUS
    <3> HIDE DEF w
    <3> QED BY <2>2, <3>1
  <2> HIDE DEF w
  <2> QED BY <2>3
<1>3. Len(str) \in T
  <2>1. Nat \subseteq T
    <3> HIDE DEF T
    <3> QED BY <1>1, <1>2, Induction
  <2> QED BY <2>1
<1> DEFINE f == CHOOSE v : L(Len(str), v)
<1>4. L(Len(str), f)  BY <1>3
<1>5. TypeText(t, str) = f[Len(str)]  BY DEF TypeText
<1> HIDE DEF f
<1>6. f[0] = t  BY <1>4
<1>7. ASSUME NEW i \in 1..Len(str) PROVE f[i] = TypeControl(f[i-1], str[i])
  <2>1. i \in 0..Len(str) /\ i # 0  BY <1>7
  <2> QED BY <1>4, <2>1
<1> QED BY <1>5, <1>6, <1>7

\* A format
LEMMA FormatSteps ==
  ASSUME NEW s, NEW format, Len(format) \in Nat
  PROVE  \E v : /\ v[0] = s /\ v = Progress(s, format)
               /\ \A i \in 1..Len(format) : v[i] = PrintItem(v[i-1], format[i])
<1> DEFINE L(n, v) == v = [i \in 0..n |-> IF i = 0 THEN s ELSE PrintItem(v[i-1], format[i])]
           T == {n \in Nat : \E v : L(n, v)}
<1>1. 0 \in T
  <2>1. L(0, [i \in 0..0 |-> s])  OBVIOUS
  <2> QED BY <2>1
<1>2. ASSUME NEW n \in Nat, n \in T PROVE n + 1 \in T
  <2>1. PICK v : L(n, v)  BY <1>2
  <2> DEFINE w == [i \in 0..n+1 |-> IF i = n + 1 THEN PrintItem(v[n], format[n + 1]) ELSE v[i]]
  <2>2. ASSUME NEW i \in 0..n+1 PROVE w[i] = IF i = 0 THEN s ELSE PrintItem(w[i-1], format[i])
    <3>1. CASE i = n + 1
      <4>1. i # 0 /\ i - 1 = n /\ n \in 0..n+1 /\ n # n + 1  BY <3>1
      <4>2. w[i] = PrintItem(v[n], format[n + 1]) /\ w[n] = v[n]  BY <3>1, <4>1
      <4> HIDE DEF w
      <4> QED BY <3>1, <4>1, <4>2
    <3>2. CASE i # n + 1
      <4>1. i \in 0..n /\ w[i] = v[i]  BY <3>2
      <4>2. v[i] = IF i = 0 THEN s ELSE PrintItem(v[i-1], format[i])  BY <2>1, <4>1
      <4>3. i # 0 => w[i-1] = v[i-1]  BY <4>1
      <4> HIDE DEF w
      <4> QED BY <4>1, <4>2, <4>3
    <3> QED BY <3>1, <3>2
  <2>3. L(n + 1, w)
    <3>1. w = [i \in 0..n+1 |-> w[i]]  OBVIOUS
    <3> HIDE DEF w
    <3> QED BY <2>2, <3>1
  <2> HIDE DEF w
  <2> QED BY <2>3
<1>3. Len(format) \in T
  <2>1. Nat \subseteq T
    <3> HIDE DEF T
    <3> QED BY <1>1, <1>2, Induction
  <2> QED BY <2>1
<1> DEFINE f == CHOOSE v : L(Len(format), v)
<1>4. L(Len(format), f)  BY <1>3
<1>5. f = Progress(s, format)  BY DEF Progress
<1> HIDE DEF f
<1>6. f[0] = s  BY <1>4
<1>7. ASSUME NEW i \in 1..Len(format) PROVE f[i] = PrintItem(f[i-1], format[i])
  <2>1. i \in 0..Len(format) /\ i # 0  BY <1>7
  <2> QED BY <1>4, <2>1
<1> QED BY <1>5, <1>6, <1>7

\* The same format on paper
LEMMA PaperFormatSteps ==
  ASSUME NEW t, NEW format, Len(format) \in Nat
  PROVE  \E v : /\ v[0] = t /\ TypeFormat(t, format) = v[Len(format)]
               /\ \A i \in 1..Len(format) : v[i] = TypeText(v[i-1], Typed(format[i]))
<1> DEFINE L(n, v) == v = [i \in 0..n |-> IF i = 0 THEN t ELSE TypeText(v[i-1], Typed(format[i]))]
           T == {n \in Nat : \E v : L(n, v)}
<1>1. 0 \in T
  <2>1. L(0, [i \in 0..0 |-> t])  OBVIOUS
  <2> QED BY <2>1
<1>2. ASSUME NEW n \in Nat, n \in T PROVE n + 1 \in T
  <2>1. PICK v : L(n, v)  BY <1>2
  <2> DEFINE w == [i \in 0..n+1 |-> IF i = n + 1 THEN TypeText(v[n], Typed(format[n + 1])) ELSE v[i]]
  <2>2. ASSUME NEW i \in 0..n+1 PROVE w[i] = IF i = 0 THEN t ELSE TypeText(w[i-1], Typed(format[i]))
    <3>1. CASE i = n + 1
      <4>1. i # 0 /\ i - 1 = n /\ n \in 0..n+1 /\ n # n + 1  BY <3>1
      <4>2. w[i] = TypeText(v[n], Typed(format[n + 1])) /\ w[n] = v[n]  BY <3>1, <4>1
      <4> HIDE DEF w
      <4> QED BY <3>1, <4>1, <4>2
    <3>2. CASE i # n + 1
      <4>1. i \in 0..n /\ w[i] = v[i]  BY <3>2
      <4>2. v[i] = IF i = 0 THEN t ELSE TypeText(v[i-1], Typed(format[i]))  BY <2>1, <4>1
      <4>3. i # 0 => w[i-1] = v[i-1]  BY <4>1
      <4> HIDE DEF w
      <4> QED BY <4>1, <4>2, <4>3
    <3> QED BY <3>1, <3>2
  <2>3. L(n + 1, w)
    <3>1. w = [i \in 0..n+1 |-> w[i]]  OBVIOUS
    <3> HIDE DEF w
    <3> QED BY <2>2, <3>1
  <2> HIDE DEF w
  <2> QED BY <2>3
<1>3. Len(format) \in T
  <2>1. Nat \subseteq T
    <3> HIDE DEF T
    <3> QED BY <1>1, <1>2, Induction
  <2> QED BY <2>1
<1> DEFINE f == CHOOSE v : L(Len(format), v)
<1>4. L(Len(format), f)  BY <1>3
<1>5. TypeFormat(t, format) = f[Len(format)]  BY DEF TypeFormat
<1> HIDE DEF f
<1>6. f[0] = t  BY <1>4
<1>7. ASSUME NEW i \in 1..Len(format) PROVE f[i] = TypeText(f[i-1], Typed(format[i]))
  <2>1. i \in 0..Len(format) /\ i # 0  BY <1>7
  <2> QED BY <1>4, <2>1
<1> QED BY <1>5, <1>6, <1>7

\* A tab
LEMMA TabSteps ==
  ASSUME NEW s
  PROVE  \E v : /\ v[0] = s /\ Tab(s) = v[4 - (s.column % 4)]
               /\ \A i \in 1..4 : v[i] = PutCell(v[i-1], BlankChar)
<1> DEFINE L(n, v) == v = [i \in 0..n |-> IF i = 0 THEN s ELSE PutCell(v[i-1], BlankChar)]
           T == {n \in Nat : \E v : L(n, v)}
<1>1. 0 \in T
  <2>1. L(0, [i \in 0..0 |-> s])  OBVIOUS
  <2> QED BY <2>1
<1>2. ASSUME NEW n \in Nat, n \in T PROVE n + 1 \in T
  <2>1. PICK v : L(n, v)  BY <1>2
  <2> DEFINE w == [i \in 0..n+1 |-> IF i = n + 1 THEN PutCell(v[n], BlankChar) ELSE v[i]]
  <2>2. ASSUME NEW i \in 0..n+1 PROVE w[i] = IF i = 0 THEN s ELSE PutCell(w[i-1], BlankChar)
    <3>1. CASE i = n + 1
      <4>1. i # 0 /\ i - 1 = n /\ n \in 0..n+1 /\ n # n + 1  BY <3>1
      <4>2. w[i] = PutCell(v[n], BlankChar) /\ w[n] = v[n]  BY <3>1, <4>1
      <4> HIDE DEF w
      <4> QED BY <3>1, <4>1, <4>2
    <3>2. CASE i # n + 1
      <4>1. i \in 0..n /\ w[i] = v[i]  BY <3>2
      <4>2. v[i] = IF i = 0 THEN s ELSE PutCell(v[i-1], BlankChar)  BY <2>1, <4>1
      <4>3. i # 0 => w[i-1] = v[i-1]  BY <4>1
      <4> HIDE DEF w
      <4> QED BY <4>1, <4>2, <4>3
    <3> QED BY <3>1, <3>2
  <2>3. L(n + 1, w)
    <3>1. w = [i \in 0..n+1 |-> w[i]]  OBVIOUS
    <3> HIDE DEF w
    <3> QED BY <2>2, <3>1
  <2> HIDE DEF w
  <2> QED BY <2>3
<1>3. 4 \in T
  <2>1. Nat \subseteq T
    <3> HIDE DEF T
    <3> QED BY <1>1, <1>2, Induction
  <2> QED BY <2>1
<1> DEFINE f == CHOOSE v : L(4, v)
<1>4. L(4, f)  BY <1>3
<1>5. Tab(s) = f[4 - (s.column % 4)]  BY DEF Tab
<1> HIDE DEF f
<1>6. f[0] = s  BY <1>4
<1>7. ASSUME NEW i \in 1..4 PROVE f[i] = PutCell(f[i-1], BlankChar)
  <2>1. i \in 0..4 /\ i # 0  BY <1>7
  <2> QED BY <1>4, <2>1
<1> QED BY <1>5, <1>6, <1>7

\* A tab on paper
LEMMA PaperTabSteps ==
  ASSUME NEW t
  PROVE  \E v : /\ v[0] = t /\ ToTab(t) = v[CHOOSE n \in 1..4 : (t.col + n) % 4 = 0]
               /\ \A i \in 1..4 : v[i] = Type(v[i-1], BlankChar)
<1> DEFINE L(n, v) == v = [i \in 0..n |-> IF i = 0 THEN t ELSE Type(v[i-1], BlankChar)]
           T == {n \in Nat : \E v : L(n, v)}
<1>1. 0 \in T
  <2>1. L(0, [i \in 0..0 |-> t])  OBVIOUS
  <2> QED BY <2>1
<1>2. ASSUME NEW n \in Nat, n \in T PROVE n + 1 \in T
  <2>1. PICK v : L(n, v)  BY <1>2
  <2> DEFINE w == [i \in 0..n+1 |-> IF i = n + 1 THEN Type(v[n], BlankChar) ELSE v[i]]
  <2>2. ASSUME NEW i \in 0..n+1 PROVE w[i] = IF i = 0 THEN t ELSE Type(w[i-1], BlankChar)
    <3>1. CASE i = n + 1
      <4>1. i # 0 /\ i - 1 = n /\ n \in 0..n+1 /\ n # n + 1  BY <3>1
      <4>2. w[i] = Type(v[n], BlankChar) /\ w[n] = v[n]  BY <3>1, <4>1
      <4> HIDE DEF w
      <4> QED BY <3>1, <4>1, <4>2
    <3>2. CASE i # n + 1
      <4>1. i \in 0..n /\ w[i] = v[i]  BY <3>2
      <4>2. v[i] = IF i = 0 THEN t ELSE Type(v[i-1], BlankChar)  BY <2>1, <4>1
      <4>3. i # 0 => w[i-1] = v[i-1]  BY <4>1
      <4> HIDE DEF w
      <4> QED BY <4>1, <4>2, <4>3
    <3> QED BY <3>1, <3>2
  <2>3. L(n + 1, w)
    <3>1. w = [i \in 0..n+1 |-> w[i]]  OBVIOUS
    <3> HIDE DEF w
    <3> QED BY <2>2, <3>1
  <2> HIDE DEF w
  <2> QED BY <2>3
<1>3. 4 \in T
  <2>1. Nat \subseteq T
    <3> HIDE DEF T
    <3> QED BY <1>1, <1>2, Induction
  <2> QED BY <2>1
<1> DEFINE f == CHOOSE v : L(4, v)
<1>4. L(4, f)  BY <1>3
<1>5. ToTab(t) = f[CHOOSE n \in 1..4 : (t.col + n) % 4 = 0]  BY DEF ToTab
<1> HIDE DEF f
<1>6. f[0] = t  BY <1>4
<1>7. ASSUME NEW i \in 1..4 PROVE f[i] = Type(f[i-1], BlankChar)
  <2>1. i \in 0..4 /\ i # 0  BY <1>7
  <2> QED BY <1>4, <2>1
<1> QED BY <1>5, <1>6, <1>7

\* The loop of k_itoa
LEMMA DigitSteps ==
  ASSUME NEW value
  PROVE  \E v : /\ v[0] = [rest |-> value, out |-> <<>>] /\ Digits(value) = v[10].out
               /\ \A i \in 1..10 : v[i] = TakeDigit(v[i-1])
<1> DEFINE L(n, v) == v = [i \in 0..n |-> IF i = 0 THEN [rest |-> value, out |-> <<>>] ELSE TakeDigit(v[i-1])]
           T == {n \in Nat : \E v : L(n, v)}
<1>1. 0 \in T
  <2>1. L(0, [i \in 0..0 |-> [rest |-> value, out |-> <<>>]])  OBVIOUS
  <2> QED BY <2>1
<1>2. ASSUME NEW n \in Nat, n \in T PROVE n + 1 \in T
  <2>1. PICK v : L(n, v)  BY <1>2
  <2> DEFINE w == [i \in 0..n+1 |-> IF i = n + 1 THEN TakeDigit(v[n]) ELSE v[i]]
  <2>2. ASSUME NEW i \in 0..n+1 PROVE w[i] = IF i = 0 THEN [rest |-> value, out |-> <<>>] ELSE TakeDigit(w[i-1])
    <3>1. CASE i = n + 1
      <4>1. i # 0 /\ i - 1 = n /\ n \in 0..n+1 /\ n # n + 1  BY <3>1
      <4>2. w[i] = TakeDigit(v[n]) /\ w[n] = v[n]  BY <3>1, <4>1
      <4> HIDE DEF w
      <4> QED BY <3>1, <4>1, <4>2
    <3>2. CASE i # n + 1
      <4>1. i \in 0..n /\ w[i] = v[i]  BY <3>2
      <4>2. v[i] = IF i = 0 THEN [rest |-> value, out |-> <<>>] ELSE TakeDigit(v[i-1])  BY <2>1, <4>1
      <4>3. i # 0 => w[i-1] = v[i-1]  BY <4>1
      <4> HIDE DEF w
      <4> QED BY <4>1, <4>2, <4>3
    <3> QED BY <3>1, <3>2
  <2>3. L(n + 1, w)
    <3>1. w = [i \in 0..n+1 |-> w[i]]  OBVIOUS
    <3> HIDE DEF w
    <3> QED BY <2>2, <3>1
  <2> HIDE DEF w
  <2> QED BY <2>3
<1>3. 10 \in T
  <2>1. Nat \subseteq T
    <3> HIDE DEF T
    <3> QED BY <1>1, <1>2, Induction
  <2> QED BY <2>1
<1> DEFINE f == CHOOSE v : L(10, v)
<1>4. L(10, f)  BY <1>3
<1>5. Digits(value) = f[10].out  BY DEF Digits
<1> HIDE DEF f
<1>6. f[0] = [rest |-> value, out |-> <<>>]  BY <1>4
<1>7. ASSUME NEW i \in 1..10 PROVE f[i] = TakeDigit(f[i-1])
  <2>1. i \in 0..10 /\ i # 0  BY <1>7
  <2> QED BY <1>4, <2>1
<1> QED BY <1>5, <1>6, <1>7

\* One digit more, taken from the rest
HexDigit(a) == [rest |-> a.rest \div 16, out |-> <<DigitChar(a.rest % 16)>> \o a.out]

\* The hexadecimal digits
LEMMA HexSteps ==
  ASSUME NEW value
  PROVE  \E v : /\ v[0] = [rest |-> value, out |-> <<>>] /\ Hexadecimal(value) = v[8].out
               /\ \A i \in 1..8 : v[i] = HexDigit(v[i-1])
<1> DEFINE L(n, v) == v = [i \in 0..n |-> IF i = 0 THEN [rest |-> value, out |-> <<>>] ELSE HexDigit(v[i-1])]
           T == {n \in Nat : \E v : L(n, v)}
<1>1. 0 \in T
  <2>1. L(0, [i \in 0..0 |-> [rest |-> value, out |-> <<>>]])  OBVIOUS
  <2> QED BY <2>1
<1>2. ASSUME NEW n \in Nat, n \in T PROVE n + 1 \in T
  <2>1. PICK v : L(n, v)  BY <1>2
  <2> DEFINE w == [i \in 0..n+1 |-> IF i = n + 1 THEN HexDigit(v[n]) ELSE v[i]]
  <2>2. ASSUME NEW i \in 0..n+1 PROVE w[i] = IF i = 0 THEN [rest |-> value, out |-> <<>>] ELSE HexDigit(w[i-1])
    <3>1. CASE i = n + 1
      <4>1. i # 0 /\ i - 1 = n /\ n \in 0..n+1 /\ n # n + 1  BY <3>1
      <4>2. w[i] = HexDigit(v[n]) /\ w[n] = v[n]  BY <3>1, <4>1
      <4> HIDE DEF w
      <4> QED BY <3>1, <4>1, <4>2
    <3>2. CASE i # n + 1
      <4>1. i \in 0..n /\ w[i] = v[i]  BY <3>2
      <4>2. v[i] = IF i = 0 THEN [rest |-> value, out |-> <<>>] ELSE HexDigit(v[i-1])  BY <2>1, <4>1
      <4>3. i # 0 => w[i-1] = v[i-1]  BY <4>1
      <4> HIDE DEF w
      <4> QED BY <4>1, <4>2, <4>3
    <3> QED BY <3>1, <3>2
  <2>3. L(n + 1, w)
    <3>1. w = [i \in 0..n+1 |-> w[i]]  OBVIOUS
    <3> HIDE DEF w
    <3> QED BY <2>2, <3>1
  <2> HIDE DEF w
  <2> QED BY <2>3
<1>3. 8 \in T
  <2>1. Nat \subseteq T
    <3> HIDE DEF T
    <3> QED BY <1>1, <1>2, Induction
  <2> QED BY <2>1
<1> DEFINE f == CHOOSE v : L(8, v)
<1>4. L(8, f)  BY <1>3
<1>5. Hexadecimal(value) = f[8].out  BY DEF Hexadecimal, HexDigit
<1> HIDE DEF f
<1>6. f[0] = [rest |-> value, out |-> <<>>]  BY <1>4
<1>7. ASSUME NEW i \in 1..8 PROVE f[i] = HexDigit(f[i-1])
  <2>1. i \in 0..8 /\ i # 0  BY <1>7
  <2> QED BY <1>4, <2>1
<1> QED BY <1>5, <1>6, <1>7

\* The usual notation
LEMMA DecimalSteps ==
  ASSUME NEW value \in Nat
  PROVE  \E d : /\ Decimal(value) = d[value]
                /\ \A m \in 0..value : m < 10 => d[m] = <<DigitChar(m)>>
                /\ \A m \in 0..value :
                     m >= 10 => d[m] = Append(d[m \div 10], DigitChar(m % 10))
<1> DEFINE Next(v, m) == IF m < 10 THEN <<DigitChar(m)>>
                         ELSE Append(v[m \div 10], DigitChar(m % 10))
           L(n, v) == v = [m \in 0..n |-> Next(v, m)]
           T == {n \in Nat : \E v : L(n, v)}
<1>1. 0 \in T
  <2>1. L(0, [m \in 0..0 |-> <<DigitChar(0)>>])  OBVIOUS
  <2> QED BY <2>1
<1>2. ASSUME NEW n \in Nat, n \in T PROVE n + 1 \in T
  <2>1. PICK v : L(n, v)  BY <1>2
  <2> DEFINE w == [m \in 0..n+1 |-> IF m = n + 1 THEN Next(v, n + 1) ELSE v[m]]
  <2>2. ASSUME NEW m \in 0..n+1 PROVE w[m] = Next(w, m)
    <3>1. m >= 10 => m \div 10 \in 0..n  BY Z3
    <3>2. m >= 10 => w[m \div 10] = v[m \div 10]  BY <3>1
    <3>3. w[m] = Next(v, m)
      <4>1. CASE m = n + 1  BY <4>1
      <4>2. CASE m # n + 1
        <5>1. m \in 0..n /\ w[m] = v[m]  BY <4>2
        <5> HIDE DEF w
        <5> QED BY <2>1, <5>1
      <4> QED BY <4>1, <4>2
    <3> HIDE DEF w
    <3> QED BY <3>2, <3>3
  <2>3. L(n + 1, w)
    <3>1. w = [m \in 0..n+1 |-> w[m]]  OBVIOUS
    <3> HIDE DEF w
    <3> QED BY <2>2, <3>1
  <2> HIDE DEF w, Next
  <2> QED BY <2>3
<1>3. value \in T
  <2>1. Nat \subseteq T
    <3> HIDE DEF T
    <3> QED BY <1>1, <1>2, Induction
  <2> QED BY <2>1
<1> DEFINE f == CHOOSE v : L(value, v)
<1>4. L(value, f)  BY <1>3
<1>5. Decimal(value) = f[value]  BY DEF Decimal
<1> HIDE DEF f
<1>6. ASSUME NEW m \in 0..value PROVE f[m] = Next(f, m)  BY <1>4
<1>7. ASSUME NEW m \in 0..value, m < 10 PROVE f[m] = <<DigitChar(m)>>
  BY <1>6, <1>7
<1>8. ASSUME NEW m \in 0..value, m >= 10
      PROVE  f[m] = Append(f[m \div 10], DigitChar(m % 10))
  <2>1. ~(m < 10)  BY <1>8
  <2> QED BY <1>6, <2>1
<1> HIDE DEF Next
<1> QED BY <1>5, <1>7, <1>8

-----------------------------------------------------------------------------
(* The console: characters, strings and formats                              *)

\* A character, at the end of a row behind a new line
LEMMA PlainSynced ==
  ASSUME NEW s, NEW t, NEW c, Synced(s, t)
  PROVE  Synced(Plain(s, c), Type(t, c))
<1>1. W \in Nat \ {0} /\ s.column = t.col /\ t.col \in 0..W
  BY ScreenSize DEF Synced, Aligned
<1> HIDE DEF W
<1>2. CASE s.column = W
  <2> DEFINE s1 == k_new_line(s)
             t1 == Feed(t)
  <2>1. Synced(s1, t1) /\ s1.column = 0  BY NewLineSynced
  <2>2. Plain(s, c) = PutCell(s1, c)  BY <1>2 DEF Plain
  <2>3. Type(t, c) = Type(t1, c)
    <3>1. t1.col # W /\ t.col = W  BY <1>1, <1>2, <2>1 DEF Synced, Aligned
    <3> HIDE DEF t1
    <3>2. Type(t1, c) = [t1 EXCEPT !.rows[t1.row][t1.col] = Cell(c, t1.color), !.col = @ + 1]
      BY <3>1 DEF Type
    <3>3. Type(t, c) = [t1 EXCEPT !.rows[t1.row][t1.col] = Cell(c, t1.color), !.col = @ + 1]
      BY <3>1 DEF Type, t1
    <3> QED BY <3>2, <3>3
  <2> HIDE DEF s1, t1
  <2>4. s1.column < W  BY <1>1, <2>1
  <2> QED BY <2>1, <2>2, <2>3, <2>4, PutSynced
<1>3. CASE s.column # W
  <2>1. s.column < W  BY <1>1, <1>3
  <2>2. Plain(s, c) = PutCell(s, c)  BY <1>3 DEF Plain
  <2> QED BY <2>1, <2>2, PutSynced
<1> QED BY <1>2, <1>3

\* Blanks up to the next tab stop, which is in the row
LEMMA TabSynced ==
  ASSUME NEW s, NEW t, Synced(s, t), s.column < W
  PROVE  Synced(Tab(s), ToTab(t))
<1>1. /\ W \in Nat \ {0} /\ W % 4 = 0
      /\ s.column = t.col /\ t.col \in 0..W-1
  <2>1. W \in Nat \ {0} /\ W % 4 = 0  BY ScreenSize
  <2>2. s.column = t.col /\ t.col \in 0..W  BY DEF Synced, Aligned
  <2> HIDE DEF W
  <2> QED BY <2>1, <2>2
<1> HIDE DEF W
<1>2. PICK a \in Nat : a = s.column /\ a = t.col /\ a < W  BY <1>1
<1>3. PICK k \in 1..4 : k = 4 - (a % 4)  BY <1>2
<1>4. a + k <= W /\ (a + k) % 4 = 0  BY <1>1, <1>2, <1>3
<1>5. ASSUME NEW n \in 1..4, (a + n) % 4 = 0 PROVE n = k
  <2>1. a % 4 \in 0..3 /\ k \in Int /\ n \in Int  BY Z3
  <2>2. PICK q \in Int : a = 4 * q + (a % 4)  BY Z3
  <2> QED BY ONLY <1>3, <1>5, <2>1, <2>2, a \in Nat, n \in 1..4, Z3
<1>6. k = CHOOSE n \in 1..4 : (t.col + n) % 4 = 0
  <2> DEFINE P(n) == n \in 1..4 /\ (a + n) % 4 = 0
  <2>1. P(k) /\ \A n : P(n) => n = k  BY <1>4, <1>5
  <2>2. k = CHOOSE n : P(n)
    <3> HIDE DEF P
    <3> QED BY <2>1
  <2> QED BY <1>2, <2>2
<1>7. PICK v : /\ v[0] = s /\ Tab(s) = v[4 - (s.column % 4)]
               /\ \A i \in 1..4 : v[i] = PutCell(v[i-1], BlankChar)
  BY TabSteps
<1>8. PICK u : /\ u[0] = t /\ ToTab(t) = u[CHOOSE n \in 1..4 : (t.col + n) % 4 = 0]
               /\ \A i \in 1..4 : u[i] = Type(u[i-1], BlankChar)
  BY PaperTabSteps
<1>9. Tab(s) = v[k] /\ ToTab(t) = u[k]  BY <1>2, <1>3, <1>6, <1>7, <1>8
<1> DEFINE S == {i \in Nat : i <= k => Synced(v[i], u[i]) /\ v[i].column = a + i}
<1>10. 0 \in S
  <2>1. a + 0 = a  OBVIOUS
  <2>2. v[0] = s /\ u[0] = t  BY <1>7, <1>8, Zenon
  <2>3. v[0].column = a + 0  BY <1>2, <2>1, <2>2
  <2> QED BY <2>2, <2>3, Zenon
<1>11. ASSUME NEW i \in Nat, i \in S PROVE i + 1 \in S
  <2> SUFFICES ASSUME i + 1 <= k
               PROVE  Synced(v[i + 1], u[i + 1]) /\ v[i + 1].column = a + (i + 1)
    OBVIOUS
  <2>1. Synced(v[i], u[i]) /\ v[i].column = a + i  BY <1>3, <1>11
  <2>2. i + 1 \in 1..4 /\ (i + 1) - 1 = i  BY <1>3
  <2>3. v[i + 1] = PutCell(v[i], BlankChar) /\ u[i + 1] = Type(u[i], BlankChar)
    BY <1>7, <1>8, <2>2
  <2>4. v[i].column < W  BY <1>1, <1>2, <1>3, <1>4, <2>1
  <2>5. /\ Synced(PutCell(v[i], BlankChar), Type(u[i], BlankChar))
        /\ PutCell(v[i], BlankChar).column = v[i].column + 1
    BY <2>1, <2>4, PutSynced
  <2>6. (a + i) + 1 = a + (i + 1)  BY <1>2
  <2> QED BY <2>1, <2>3, <2>5, <2>6
<1>12. k \in S
  <2>1. Nat \subseteq S
    <3> HIDE DEF S
    <3> QED BY <1>10, <1>11, Induction
  <2> QED BY <1>3, <2>1
<1> QED BY <1>3, <1>9, <1>12

\* A character or a control character; a tab only within the row
LEMMA ControlSynced ==
  ASSUME NEW s, NEW t, NEW c, Synced(s, t), c = "\t" => s.column < W
  PROVE  Synced(Control(s, c), TypeControl(t, c))
<1>1. "\n" # "\r" /\ "\n" # "\t" /\ "\r" # "\t"  OBVIOUS
<1>2. CASE c = "\n"
  <2>1. Control(s, c) = k_new_line(s)  BY <1>1, <1>2 DEF Control
  <2>2. TypeControl(t, c) = Feed(t)  BY <1>1, <1>2 DEF TypeControl
  <2> QED BY <2>1, <2>2, NewLineSynced
<1>3. CASE c = "\r"
  <2>1. Control(s, c) = [s EXCEPT !.column = 0]  BY <1>1, <1>3 DEF Control
  <2>2. TypeControl(t, c) = [t EXCEPT !.col = 0]  BY <1>1, <1>3 DEF TypeControl
  <2>3. Aligned([s EXCEPT !.column = 0], [t EXCEPT !.col = 0])
    <3>1. W \in Nat  BY ScreenSize
    <3> QED BY <3>1 DEF Synced, Aligned
  <2>4. [s EXCEPT !.column = 0].vga = s.vga /\ [t EXCEPT !.col = 0].rows = t.rows
    BY DEF Synced, Aligned
  <2> QED BY <2>1, <2>2, <2>3, <2>4 DEF Synced
<1>4. CASE c = "\t"
  <2>1. Control(s, c) = Tab(s)  BY <1>1, <1>4 DEF Control
  <2>2. TypeControl(t, c) = ToTab(t)  BY <1>1, <1>4 DEF TypeControl
  <2> QED BY <1>4, <2>1, <2>2, TabSynced
<1>5. CASE c \notin {"\n", "\r", "\t"}
  <2>1. Control(s, c) = Plain(s, c)  BY <1>5 DEF Control
  <2>2. TypeControl(t, c) = Type(t, c)  BY <1>5 DEF TypeControl
  <2> QED BY <2>1, <2>2, PlainSynced
<1> QED BY <1>2, <1>3, <1>4, <1>5

\* A string without tabs
LEMMA TextSynced ==
  ASSUME NEW s, NEW t, NEW str, Synced(s, t), Len(str) \in Nat,
         \A i \in 1..Len(str) : str[i] # "\t"
  PROVE  Synced(Text(s, str), TypeText(t, str))
<1>1. PICK v : /\ v[0] = s /\ Text(s, str) = v[Len(str)]
               /\ \A i \in 1..Len(str) : v[i] = Control(v[i-1], str[i])
  BY TextSteps
<1>2. PICK u : /\ u[0] = t /\ TypeText(t, str) = u[Len(str)]
               /\ \A i \in 1..Len(str) : u[i] = TypeControl(u[i-1], str[i])
  BY PaperTextSteps
<1> DEFINE S == {i \in Nat : i <= Len(str) => Synced(v[i], u[i])}
<1>3. 0 \in S  BY <1>1, <1>2
<1>4. ASSUME NEW i \in Nat, i \in S PROVE i + 1 \in S
  <2> SUFFICES ASSUME i + 1 <= Len(str) PROVE Synced(v[i + 1], u[i + 1])  OBVIOUS
  <2>1. Synced(v[i], u[i])  BY <1>4
  <2>2. i + 1 \in 1..Len(str) /\ (i + 1) - 1 = i  OBVIOUS
  <2>3. /\ v[i + 1] = Control(v[i], str[i + 1])
        /\ u[i + 1] = TypeControl(u[i], str[i + 1])
    BY <1>1, <1>2, <2>2
  <2>4. str[i + 1] # "\t"  BY <2>2
  <2>5. Synced(Control(v[i], str[i + 1]), TypeControl(u[i], str[i + 1]))
    BY <2>1, <2>4, ControlSynced
  <2> QED BY <2>3, <2>5
<1>5. Len(str) \in S
  <2>1. Nat \subseteq S
    <3> HIDE DEF S
    <3> QED BY <1>3, <1>4, Induction
  <2> QED BY <2>1
<1> QED BY <1>1, <1>2, <1>5

-----------------------------------------------------------------------------
(* The console: numbers                                                      *)

\* What numbers are written with
Figures == {DigitChar(d) : d \in 0..15} \cup {"0", "x", "-"}

\* No figure is a tab.
LEMMA FiguresPlain ==
  /\ "\t" \notin Figures
  /\ \A d \in 0..15 : DigitChar(d) \in Figures
<1>1. ASSUME NEW d \in 0..15 PROVE DigitChar(d) # "\t"
  BY DEF DigitChar, HexDigits
<1>2. "\t" # "0" /\ "\t" # "x" /\ "\t" # "-"  OBVIOUS
<1> QED BY <1>1, <1>2 DEF Figures

\* Each of the weights of itox is sixteen times the next one.
LEMMA WeightSteps ==
  /\ Weights[8] = 1
  /\ \A i \in 1..8 : Weights[i] \in Nat \ {0}
  /\ \A i \in 1..7 : Weights[i] = Weights[i + 1] * 16
<1>1. /\ Weights[1] = 268435456 /\ Weights[2] = 16777216 /\ Weights[3] = 1048576
      /\ Weights[4] = 65536 /\ Weights[5] = 4096 /\ Weights[6] = 256
      /\ Weights[7] = 16 /\ Weights[8] = 1
  BY DEF Weights
<1>2. ASSUME NEW i \in 1..8 PROVE Weights[i] \in Nat \ {0}
  <2>1. i = 1 \/ i = 2 \/ i = 3 \/ i = 4 \/ i = 5 \/ i = 6 \/ i = 7 \/ i = 8  OBVIOUS
  <2> QED BY <1>1, <2>1
<1>3. ASSUME NEW i \in 1..7 PROVE Weights[i] = Weights[i + 1] * 16
  <2>1. i = 1 \/ i = 2 \/ i = 3 \/ i = 4 \/ i = 5 \/ i = 6 \/ i = 7  OBVIOUS
  <2> QED BY <1>1, <2>1
<1> QED BY <1>1, <1>2, <1>3

\* Shifts (vga.c:121) and repeated division find the same digits.
LEMMA HexSame ==
  ASSUME NEW n \in Nat
  PROVE  itox(n) = <<"0", "x">> \o Hexadecimal(n) /\ itox(n) \in Seq(Figures)
<1>1. PICK v : /\ v[0] = [rest |-> n, out |-> <<>>] /\ Hexadecimal(n) = v[8].out
               /\ \A i \in 1..8 : v[i] = HexDigit(v[i-1])
  BY HexSteps
<1> DEFINE D(i) == DigitChar((n \div Weights[i]) % 16)
           Found(k) == /\ k < 8 => v[k].rest = n \div Weights[8 - k]
                       /\ v[k].out \in Seq(Figures) /\ Len(v[k].out) = k
                       /\ \A j \in 1..k : v[k].out[j] = D(8 - k + j)
           S == {k \in Nat : k <= 8 => Found(k)}
<1>2. ASSUME NEW i \in 1..8 PROVE D(i) \in Figures
  <2>1. PICK a \in Nat \ {0} : a = Weights[i]  BY WeightSteps
  <2>2. (n \div a) % 16 \in 0..15  BY Z3
  <2> QED BY <2>1, <2>2, FiguresPlain
<1>3. 0 \in S
  <2>1. v[0].rest = n /\ v[0].out = <<>>  BY <1>1
  <2>2. n \div 1 = n /\ 8 - 0 = 8  BY Z3
  <2>3. v[0].rest = n \div Weights[8 - 0]  BY <2>1, <2>2, WeightSteps
  <2>4. <<>> \in Seq(Figures) /\ Len(<<>>) = 0  BY EmptySeq
  <2>5. Found(0)  BY <2>1, <2>3, <2>4
  <2> HIDE DEF Found
  <2> QED BY <2>5
<1>4. ASSUME NEW k \in Nat, k \in S PROVE k + 1 \in S
  <2> SUFFICES ASSUME k + 1 <= 8 PROVE Found(k + 1)
    <3> HIDE DEF Found
    <3> QED OBVIOUS
  <2>1. Found(k)
    <3> HIDE DEF Found
    <3> QED BY <1>4
  <2>2. k \in 0..7 /\ k + 1 \in 1..8 /\ (k + 1) - 1 = k  OBVIOUS
  <2>3. v[k + 1] = HexDigit(v[k])  BY <1>1, <2>2
  <2>4. PICK w \in Nat \ {0} : w = Weights[8 - k] /\ v[k].rest = n \div w
    <3>1. k < 8 /\ 8 - k \in 1..8  BY <2>2
    <3>2. PICK w : w = Weights[8 - k] /\ w \in Nat \ {0}  BY <3>1, WeightSteps
    <3>3. v[k].rest = n \div w  BY <2>1, <3>1, <3>2
    <3> QED BY <3>2, <3>3
  <2>5. v[k + 1].rest = (n \div w) \div 16 /\ v[k + 1].out = <<D(8 - k)>> \o v[k].out
    <3>1. DigitChar(v[k].rest % 16) = D(8 - k)  BY <2>4
    <3> HIDE DEF D
    <3> QED BY <2>3, <2>4, <3>1 DEF HexDigit
  <2>6. k + 1 < 8 => (n \div w) \div 16 = n \div Weights[8 - (k + 1)]
    <3> SUFFICES ASSUME k + 1 < 8 PROVE (n \div w) \div 16 = n \div Weights[8 - (k + 1)]
      OBVIOUS
    <3>1. 8 - (k + 1) \in 1..7 /\ (8 - (k + 1)) + 1 = 8 - k  OBVIOUS
    <3>2. PICK u : u = Weights[8 - (k + 1)]  OBVIOUS
    <3>3. u = w * 16
      BY <2>4, <3>1, <3>2, WeightSteps
    <3>4. (n \div w) \div 16 = n \div (w * 16)
      <4>1. 16 \in Nat \ {0}  OBVIOUS
      <4> QED BY <4>1, DivDiv
    <3> QED BY <3>2, <3>3, <3>4
  <2>10. D(8 - k) \in Figures
    <3>1. 8 - k \in 1..8  BY <2>2
    <3> HIDE DEF D
    <3> QED BY <1>2, <3>1
  <2> HIDE DEF D
  <2>7. <<D(8 - k)>> \in Seq(Figures) /\ Len(<<D(8 - k)>>) = 1 /\ <<D(8 - k)>>[1] = D(8 - k)  BY <2>10
  <2>8. /\ v[k + 1].out \in Seq(Figures) /\ Len(v[k + 1].out) = k + 1
        /\ \A j \in 1..k+1 : v[k + 1].out[j] = IF j <= 1 THEN <<D(8 - k)>>[j] ELSE v[k].out[j - 1]
    <3>1. PICK x \in Seq(Figures) : x = <<D(8 - k)>> /\ Len(x) = 1  BY <2>7
    <3>2. PICK y \in Seq(Figures) : y = v[k].out /\ Len(y) = k  BY <2>1
    <3>3. /\ x \o y \in Seq(Figures) /\ Len(x \o y) = 1 + k
          /\ \A j \in 1..1+k : (x \o y)[j] = IF j <= 1 THEN x[j] ELSE y[j - 1]
      BY <3>1, <3>2, ConcatProperties
    <3>4. 1 + k = k + 1  OBVIOUS
    <3> QED BY <2>5, <3>1, <3>2, <3>3, <3>4
  <2>9. ASSUME NEW j \in 1..k+1 PROVE v[k + 1].out[j] = D(8 - (k + 1) + j)
    <3>1. CASE j = 1
      <4>1. 8 - (k + 1) + j = 8 - k /\ j <= 1  BY <3>1
      <4> QED BY <2>7, <2>8, <3>1, <4>1
    <3>2. CASE j # 1
      <4>1. j - 1 \in 1..k /\ 8 - k + (j - 1) = 8 - (k + 1) + j /\ ~(j <= 1)  BY <3>2
      <4> QED BY <2>1, <2>8, <4>1
    <3> QED BY <3>1, <3>2
  <2> QED BY <2>5, <2>6, <2>8, <2>9
<1>5. Found(8)
  <2>1. Nat \subseteq S
    <3> HIDE DEF S
    <3> QED BY <1>3, <1>4, Induction
  <2>2. 8 \in S  BY <2>1
  <2> HIDE DEF Found
  <2> QED BY <2>2
<1> HIDE DEF D
<1>6. Hexadecimal(n) \in Seq(Figures) /\ Len(Hexadecimal(n)) = 8
      /\ \A j \in 1..8 : Hexadecimal(n)[j] = D(8 - 8 + j)
  BY <1>1, <1>5
<1> DEFINE s == [i \in 1..8 |-> D(i)]
<1>7. s \in Seq(Figures) /\ Len(s) = 8
  <2>1. \A i \in 1..8 : D(i) \in Figures  BY <1>2
  <2> QED BY <2>1
<1>8. s = Hexadecimal(n)
  <2>1. \A i \in 1..8 : 8 - 8 + i = i  OBVIOUS
  <2>2. \A i \in 1..8 : s[i] = Hexadecimal(n)[i]  BY <1>6, <2>1
  <2> HIDE DEF s
  <2> QED BY <1>6, <1>7, <2>2, SeqEqual
<1>9. itox(n) = <<"0", "x">> \o s  BY DEF itox, D
<1>10. <<"0", "x">> \in Seq(Figures)
  <2>1. "0" \in Figures /\ "x" \in Figures  BY DEF Figures
  <2> QED BY <2>1
<1> HIDE DEF s
<1> QED BY <1>6, <1>8, <1>9, <1>10, ConcatProperties

\* What Reverse returns
LEMMA ReverseIs ==
  ASSUME NEW S, NEW s \in Seq(S)
  PROVE  /\ Reverse(s) \in Seq(S) /\ Len(Reverse(s)) = Len(s)
         /\ \A i \in 1..Len(s) : Reverse(s)[i] = s[(Len(s) - i) + 1]
<1>1. Len(s) \in Nat  OBVIOUS
<1>2. \A i \in 1..Len(s) : (Len(s) - i) + 1 \in 1..Len(s)  BY <1>1
<1>3. \A i \in 1..Len(s) : s[(Len(s) - i) + 1] \in S  BY <1>2, ElementOfSeq
<1>4. Reverse(s) = [i \in 1..Len(s) |-> s[(Len(s) - i) + 1]]  BY DEF Reverse
<1> QED BY <1>1, <1>3, <1>4

\* What comes last is first when reversed.
LEMMA ReverseAppend ==
  ASSUME NEW S, NEW s \in Seq(S), NEW e \in S
  PROVE  Reverse(Append(s, e)) = <<e>> \o Reverse(s)
<1>1. PICK n \in Nat : n = Len(s)  OBVIOUS
<1>2. PICK a \in Seq(S) : a = Append(s, e) /\ Len(a) = n + 1
  BY <1>1, AppendProperties
<1>3. \A i \in 1..n : a[i] = s[i]  BY <1>1, <1>2
<1>4. a[n + 1] = e  BY <1>1, <1>2
<1>5. PICK r \in Seq(S) : /\ r = Reverse(s) /\ Len(r) = n
                          /\ \A i \in 1..n : r[i] = s[(n - i) + 1]
  BY <1>1, ReverseIs
<1>6. PICK b \in Seq(S) : /\ b = Reverse(a) /\ Len(b) = n + 1
                          /\ \A i \in 1..n+1 : b[i] = a[((n + 1) - i) + 1]
  <2>1. /\ Reverse(a) \in Seq(S) /\ Len(Reverse(a)) = Len(a)
        /\ \A i \in 1..Len(a) : Reverse(a)[i] = a[(Len(a) - i) + 1]
    BY ReverseIs
  <2>2. Len(a) = n + 1  BY <1>2
  <2>3. PICK b : b = Reverse(a)  OBVIOUS
  <2>4. b \in Seq(S) /\ Len(b) = n + 1  BY <2>1, <2>2, <2>3
  <2>5. \A i \in 1..n+1 : b[i] = a[((n + 1) - i) + 1]  BY ONLY <2>1, <2>2, <2>3
  <2> QED BY <2>3, <2>4, <2>5
<1>7. PICK h \in Seq(S) : h = <<e>> /\ Len(h) = 1 /\ h[1] = e
  <2>1. <<e>> \in Seq(S) /\ Len(<<e>>) = 1 /\ <<e>>[1] = e  OBVIOUS
  <2> QED BY <2>1
<1>8. PICK c \in Seq(S) : /\ c = h \o r /\ Len(c) = 1 + n
                          /\ \A i \in 1..1+n : c[i] = IF i <= 1 THEN h[i] ELSE r[i - 1]
  <2>1. /\ h \o r \in Seq(S) /\ Len(h \o r) = Len(h) + Len(r)
        /\ \A i \in 1..Len(h)+Len(r) : (h \o r)[i] = IF i <= Len(h) THEN h[i] ELSE r[i - Len(h)]
    BY ConcatProperties
  <2>2. Len(h) = 1 /\ Len(r) = n  BY <1>5, <1>7
  <2>3. PICK c : c = h \o r  OBVIOUS
  <2>4. \A i \in 1..1+n : c[i] = IF i <= 1 THEN h[i] ELSE r[i - 1]  BY ONLY <2>1, <2>2, <2>3
  <2> QED BY <2>1, <2>2, <2>3, <2>4
<1>9. ASSUME NEW i \in 1..n+1 PROVE b[i] = c[i]
  <2>1. CASE i = 1
    <3>1. ((n + 1) - i) + 1 = n + 1 /\ i <= 1 /\ i \in 1..1+n  BY <2>1
    <3> QED BY <1>4, <1>6, <1>7, <1>8, <2>1, <3>1
  <2>2. CASE i # 1
    <3>1. /\ i - 1 \in 1..n /\ ~(i <= 1) /\ i \in 1..1+n
          /\ ((n + 1) - i) + 1 = (n - (i - 1)) + 1 /\ (n - (i - 1)) + 1 \in 1..n
      BY <2>2
    <3>2. b[i] = a[(n - (i - 1)) + 1]  BY <1>6, <3>1
    <3>3. b[i] = s[(n - (i - 1)) + 1]  BY <1>3, <3>1, <3>2
    <3> QED BY <1>5, <1>8, <3>1, <3>3
  <2> QED BY <2>1, <2>2
<1>10. 1 + n = n + 1  OBVIOUS
<1>11. b = c  BY <1>6, <1>8, <1>9, <1>10, SeqEqual
<1> QED BY <1>2, <1>5, <1>6, <1>7, <1>8, <1>11

\* n has at most ten digits: n < 99999 * 100000.
TenDigits(n) == n \div 100000 < 99999

\* The digits a.out taken off n so far, and the rest; d gives the usual notation.
Taken(d, n, a) ==
  /\ a.rest \in 0..n /\ a.out \in Seq(Figures)
  /\ a.rest > 0 => d[n] = d[a.rest] \o Reverse(a.out)
  /\ a.rest = 0 => d[n] = Reverse(a.out)

\* k_itoa writes a number as usual (util.c:35-51).
LEMMA DecimalSame ==
  ASSUME NEW n \in Nat, n > 0, TenDigits(n)
  PROVE  /\ Decimal(n) \in Seq(Figures) /\ Digits(n) \in Seq(Figures)
         /\ Reverse(Digits(n)) = Decimal(n)
<1>0. n \in Nat  OBVIOUS
<1>1. PICK d : /\ Decimal(n) = d[n]
               /\ \A m \in 0..n : m < 10 => d[m] = <<DigitChar(m)>>
               /\ \A m \in 0..n :
                    m >= 10 => d[m] = Append(d[m \div 10], DigitChar(m % 10))
  BY <1>0, DecimalSteps
<1>2. PICK v : /\ v[0] = [rest |-> n, out |-> <<>>] /\ Digits(n) = v[10].out
               /\ \A i \in 1..10 : v[i] = TakeDigit(v[i-1])
  BY DigitSteps
<1>3. ASSUME NEW m \in Nat PROVE /\ m \div 10 \in Nat /\ m % 10 \in 0..9
                                 /\ m >= 10 => m \div 10 < m /\ m \div 10 > 0
                                 /\ m < 10 => m \div 10 = 0 /\ m % 10 = m
  BY Z3
<1>4. ASSUME NEW m \in Nat PROVE DigitChar(m % 10) \in Figures
  <2>1. m % 10 \in 0..15  BY <1>3
  <2> QED BY <2>1, FiguresPlain
<1>5. \A m \in 0..n : d[m] \in Seq(Figures)
  <2> DEFINE T == {k \in Nat : \A m \in 0..n : m <= k => d[m] \in Seq(Figures)}
  <2>1. ASSUME NEW m \in 0..n, m < 10 PROVE d[m] \in Seq(Figures)
    <3>1. m \in 0..15  BY <2>1
    <3>4. d[m] = <<DigitChar(m)>>  BY <1>1, <2>1
    <3>2. DigitChar(m) \in Figures  BY <3>1, FiguresPlain
    <3> QED BY <3>2, <3>4
  <2>2. 0 \in T  BY <2>1
  <2>3. ASSUME NEW k \in Nat, k \in T PROVE k + 1 \in T
    <3> SUFFICES ASSUME NEW m \in 0..n, m <= k + 1, m >= 10 PROVE d[m] \in Seq(Figures)
      BY <2>1
    <3>1. d[m] = Append(d[m \div 10], DigitChar(m % 10))  BY <1>1
    <3>2. m \in Nat /\ m \div 10 \in 0..n /\ m \div 10 <= k  BY <1>3
    <3>3. d[m \div 10] \in Seq(Figures)  BY <2>3, <3>2
    <3>4. DigitChar(m % 10) \in Figures  BY <1>4, <3>2
    <3> QED BY <3>1, <3>3, <3>4, AppendProperties
  <2>4. Nat \subseteq T
    <3> HIDE DEF T
    <3> QED BY <2>2, <2>3, Induction
  <2>5. n \in T  BY <1>0, <2>4
  <2> QED BY <2>5
<1> DEFINE S == {i \in Nat : i <= 10 => Taken(d, n, v[i])}
<1>6. 0 \in S
  <2>1. v[0].rest = n /\ v[0].out = <<>>  BY <1>2
  <2>2. Reverse(<<>>) = <<>> /\ <<>> \in Seq(Figures)
    <3>1. PICK z \in Seq(Figures) : z = <<>> /\ Len(z) = 0  BY EmptySeq
    <3>2. Reverse(z) \in Seq(Figures) /\ Len(Reverse(z)) = 0  BY <3>1, ReverseIs
    <3> QED BY <3>1, <3>2, EmptySeq
  <2>3. d[n] \in Seq(Figures)  BY <1>0, <1>5
  <2>4. d[n] \o <<>> = d[n]  BY <2>3, ConcatEmptySeq
  <2>5. n \in 0..n /\ n # 0  OBVIOUS
  <2>6. Taken(d, n, v[0])  BY <2>1, <2>2, <2>4, <2>5 DEF Taken
  <2> QED BY <2>6
<1>7. ASSUME NEW i \in Nat, i \in S PROVE i + 1 \in S
  <2> SUFFICES ASSUME i + 1 <= 10 PROVE Taken(d, n, v[i + 1])  OBVIOUS
  <2>1. Taken(d, n, v[i])  BY <1>7
  <2>2. i + 1 \in 1..10 /\ (i + 1) - 1 = i  OBVIOUS
  <2>3. v[i + 1] = TakeDigit(v[i])  BY <1>2, <2>2
  <2>4. PICK r \in 0..n : r = v[i].rest  BY <2>1 DEF Taken
  <2>5. PICK o \in Seq(Figures) : o = v[i].out  BY <2>1 DEF Taken
  <2>6. CASE r = 0
    <3>1. v[i + 1] = v[i]  BY <2>3, <2>4, <2>6 DEF TakeDigit
    <3> QED BY <2>1, <3>1
  <2>7. CASE r > 0
    <3>1. r \in Nat  OBVIOUS
    <3>2. PICK q \in Nat : /\ q = r \div 10 /\ q <= r
                           /\ r >= 10 => q > 0
                           /\ r < 10 => q = 0
      BY <1>3, <3>1
    <3>3. PICK x \in Figures : x = DigitChar(r % 10)  BY <1>4, <3>1
    <3>4. v[i + 1] = [rest |-> q, out |-> Append(o, x)]
      BY <2>3, <2>4, <2>5, <2>7, <3>2, <3>3 DEF TakeDigit
    <3>5. v[i + 1].rest = q /\ v[i + 1].out = Append(o, x)  BY <3>4
    <3>6. Append(o, x) \in Seq(Figures)  BY AppendProperties
    <3>7. Reverse(Append(o, x)) = <<x>> \o Reverse(o)  BY ReverseAppend
    <3>8. d[n] = d[r] \o Reverse(o)  BY <2>1, <2>4, <2>5, <2>7 DEF Taken
    <3>11. q \in 0..n  BY <3>2
    <3>9. CASE r < 10
      <4>1. r % 10 = r  BY <1>3, <3>1, <3>9
      <4>2. d[r] = <<DigitChar(r)>>  BY <1>1, <3>9
      <4>3. d[r] = <<x>>  BY <3>3, <4>1, <4>2
      <4>4. q = 0  BY <3>2, <3>9
      <4>5. d[n] = Reverse(Append(o, x))  BY <3>7, <3>8, <4>3
      <4> QED BY <3>5, <3>6, <3>11, <4>4, <4>5 DEF Taken
    <3>10. CASE r >= 10
      <4>1. d[r] = Append(d[q], x)  BY <1>1, <3>2, <3>3, <3>10
      <4>2. q > 0  BY <3>2, <3>10
      <4>3. d[q] \in Seq(Figures)  BY <1>5, <3>11
      <4>4. d[r] = d[q] \o <<x>>  BY <4>1, <4>3, AppendIsConcat
      <4>5. Reverse(o) \in Seq(Figures) /\ <<x>> \in Seq(Figures)  BY ReverseIs
      <4>6. PICK c \in Seq(Figures), y \in Seq(Figures), z \in Seq(Figures) :
              c = d[q] /\ y = <<x>> /\ z = Reverse(o)
        BY <4>3, <4>5
      <4>7. (c \o y) \o z = c \o (y \o z)  BY ConcatAssociative
      <4>8. d[n] = d[q] \o Reverse(Append(o, x))  BY <3>7, <3>8, <4>4, <4>6, <4>7
      <4>9. q # 0  BY <4>2
      <4> QED BY <3>5, <3>6, <3>11, <4>8, <4>9 DEF Taken
    <3>12. r < 10 \/ r >= 10  OBVIOUS
    <3> QED BY <3>9, <3>10, <3>12
  <2>8. r = 0 \/ r > 0  OBVIOUS
  <2> QED BY <2>6, <2>7, <2>8
<1>8. ASSUME NEW i \in 0..10 PROVE Taken(d, n, v[i])
  <2>1. Nat \subseteq S
    <3> HIDE DEF S
    <3> QED BY <1>6, <1>7, Induction
  <2> QED BY <2>1
<1> HIDE DEF S
<1>9. ASSUME NEW i \in 0..10 PROVE v[i].rest \in Nat
  <2>1. v[i].rest \in 0..n  BY <1>8 DEF Taken
  <2> QED BY <2>1
<1>10. ASSUME NEW i \in 0..9 PROVE v[i + 1].rest = v[i].rest \div 10
  <2>1. v[i].rest \in Nat  BY <1>9
  <2>2. v[i + 1] = TakeDigit(v[i])
    <3>1. i + 1 \in 1..10 /\ (i + 1) - 1 = i  OBVIOUS
    <3> QED BY <1>2, <3>1
  <2>3. 0 \div 10 = 0  BY Z3
  <2>4. CASE v[i].rest = 0  BY <2>2, <2>3, <2>4 DEF TakeDigit
  <2>5. CASE v[i].rest > 0  BY <2>2, <2>5 DEF TakeDigit
  <2> QED BY <2>1, <2>4, <2>5
<1>11. v[10].rest = 0
  <2> DEFINE R(i) == v[i].rest
  <2>1. \A i \in 0..10 : R(i) \in Nat  BY <1>9
  <2>2. \A i \in 0..9 : R(i + 1) = R(i) \div 10  BY <1>10
  <2>3. R(0) = n  BY <1>2
  <2> HIDE DEF R
  <2>4. /\ R(0) \in Nat /\ R(1) \in Nat /\ R(2) \in Nat /\ R(3) \in Nat /\ R(4) \in Nat
        /\ R(5) \in Nat /\ R(6) \in Nat /\ R(7) \in Nat /\ R(8) \in Nat /\ R(9) \in Nat
    BY <2>1
  <2>5. /\ R(1) = R(0) \div 10 /\ R(2) = R(1) \div 10 /\ R(3) = R(2) \div 10
        /\ R(4) = R(3) \div 10 /\ R(5) = R(4) \div 10 /\ R(6) = R(5) \div 10
        /\ R(7) = R(6) \div 10 /\ R(8) = R(7) \div 10 /\ R(9) = R(8) \div 10
        /\ R(10) = R(9) \div 10
    BY <2>2
  <2>6. R(5) < 99999  BY <2>3, <2>4, <2>5, Z3 DEF TenDigits
  <2>7. R(10) = 0  BY <2>4, <2>5, <2>6, Z3
  <2> QED BY <2>7 DEF R
<1>12. v[10].out \in Seq(Figures) /\ d[n] = Reverse(v[10].out)
  <2>1. Taken(d, n, v[10])  BY <1>8
  <2> QED BY <1>11, <2>1 DEF Taken
<1>13. d[n] \in Seq(Figures)  BY <1>0, <1>5
<1> QED BY <1>1, <1>2, <1>12, <1>13

\* A number in the usual notation, with its sign
Usual(n) == IF n < 0 THEN <<"-">> \o Decimal(-n) ELSE Decimal(n)

\* The same with a sign, and 0, which k_itoa writes apart
LEMMA ItoaSame ==
  ASSUME NEW n \in Int, n < 0 => TenDigits(-n), n > 0 => TenDigits(n)
  PROVE  k_itoa(n) = Usual(n) /\ k_itoa(n) \in Seq(Figures)
<1>1. CASE n = 0
  <2>1. k_itoa(n) = <<"0">>  BY <1>1 DEF k_itoa
  <2>2. PICK d : /\ Decimal(0) = d[0]
                 /\ \A m \in 0..0 : m < 10 => d[m] = <<DigitChar(m)>>
    <3>1. 0 \in Nat  OBVIOUS
    <3> QED BY <3>1, DecimalSteps
  <2>3. Decimal(0) = <<DigitChar(0)>>  BY <2>2
  <2>4. DigitChar(0) = "0"  BY DEF DigitChar, HexDigits
  <2>5. Usual(n) = <<"0">>  BY <1>1, <2>3, <2>4 DEF Usual
  <2>6. "0" \in Figures  BY DEF Figures
  <2>7. <<"0">> \in Seq(Figures)  BY <2>6
  <2> QED BY <2>1, <2>5, <2>7
<1>2. CASE n > 0
  <2>1. PICK o : o = Digits(n)  OBVIOUS
  <2>2. Decimal(n) \in Seq(Figures) /\ o \in Seq(Figures) /\ Reverse(o) = Decimal(n)
    <3>1. n \in Nat /\ n > 0 /\ TenDigits(n)  BY <1>2
    <3> QED BY <2>1, <3>1, DecimalSame
  <2>3. n # 0 /\ ~(n < 0)  BY <1>2
  <2>4. k_itoa(n) = Reverse(o \o <<>>)  BY <2>1, <2>3 DEF k_itoa
  <2>5. o \o <<>> = o  BY <2>2, ConcatEmptySeq
  <2>6. Usual(n) = Decimal(n)  BY <2>3 DEF Usual
  <2> QED BY <2>2, <2>4, <2>5, <2>6
<1>3. CASE n < 0
  <2>1. PICK m \in Nat : m = -n /\ m > 0  BY <1>3
  <2>2. PICK o : o = Digits(m)  OBVIOUS
  <2>3. Decimal(m) \in Seq(Figures) /\ o \in Seq(Figures) /\ Reverse(o) = Decimal(m)
    <3>1. TenDigits(m)  BY <1>3, <2>1
    <3> QED BY <2>1, <2>2, <3>1, DecimalSame
  <2>4. n # 0 /\ n < 0  BY <1>3
  <2>5. k_itoa(n) = Reverse(o \o <<"-">>)  BY <2>1, <2>2, <2>4 DEF k_itoa
  <2>6. PICK e \in Figures : e = "-"  BY DEF Figures
  <2>7. o \o <<e>> = Append(o, e)  BY <2>3, AppendIsConcat
  <2>8. Reverse(Append(o, e)) = <<e>> \o Reverse(o)  BY <2>3, ReverseAppend
  <2>9. k_itoa(n) = <<e>> \o Decimal(m)  BY <2>3, <2>5, <2>6, <2>7, <2>8
  <2>10. Usual(n) = <<e>> \o Decimal(m)  BY <2>1, <2>4, <2>6 DEF Usual
  <2>11. <<e>> \in Seq(Figures)  OBVIOUS
  <2>12. <<e>> \o Decimal(m) \in Seq(Figures)  BY <2>3, <2>11, ConcatProperties
  <2> QED BY <2>9, <2>10, <2>12
<1> QED BY <1>1, <1>2, <1>3

\* The arguments of %d have at most ten digits.
LEMMA PrintableNumber ==
  ASSUME NEW f, Sensible(f), f.conv = "d"
  PROVE  f.arg \in Int /\ (f.arg < 0 => TenDigits(-f.arg)) /\ (f.arg > 0 => TenDigits(f.arg))
<1>1. PICK n \in Int : n = f.arg /\ n <= 2147483647 /\ -2147483647 <= n
  <2>1. f.arg \in Int /\ -2147483647 <= f.arg /\ f.arg <= 2147483647  BY DEF Sensible
  <2> QED BY <2>1
<1>2. n > 0 => n \div 100000 < 99999  BY <1>1, Z3
<1>3. n < 0 => (-n) \div 100000 < 99999  BY <1>1, Z3
<1> QED BY <1>1, <1>2, <1>3 DEF TenDigits

-----------------------------------------------------------------------------
(* The console: the calls                                                    *)

\* Typing a string of one character
LEMMA OneTyped ==
  ASSUME NEW t, NEW c
  PROVE  TypeText(t, <<c>>) = TypeControl(t, c)
<1>1. PICK str : str = <<c>> /\ Len(str) = 1 /\ str[1] = c
  <2>1. Len(<<c>>) = 1 /\ <<c>>[1] = c  OBVIOUS
  <2> QED BY <2>1
<1>2. PICK v : /\ v[0] = t /\ TypeText(t, str) = v[1]
               /\ \A i \in 1..1 : v[i] = TypeControl(v[i-1], str[i])
  <2>1. Len(str) \in Nat /\ Len(str) = 1  BY <1>1
  <2> QED BY <2>1, PaperTextSteps
<1>3. v[1] = TypeControl(v[1-1], str[1]) /\ 1 - 1 = 0  BY <1>2
<1> QED BY <1>1, <1>2, <1>3

\* A string of figures
LEMMA NumberSynced ==
  ASSUME NEW s, NEW t, NEW str \in Seq(Figures), Synced(s, t)
  PROVE  Synced(Text(s, str), TypeText(t, str))
<1>1. Len(str) \in Nat /\ \A i \in 1..Len(str) : str[i] \in Figures  BY ElementOfSeq
<1>2. \A i \in 1..Len(str) : str[i] # "\t"  BY <1>1, FiguresPlain
<1> QED BY <1>1, <1>2, TextSynced

\* One item of a format
LEMMA ItemSynced ==
  ASSUME NEW s, NEW t, NEW f, Synced(s, t), Sensible(f),
         f.conv = "other" \/ (f.conv = "none" /\ f.arg = "\t") => s.column < W
  PROVE  Synced(PrintItem(s, f), TypeText(t, Typed(f)))
<1>1. CASE f.conv = "none"
  <2>1. PrintItem(s, f) = Control(s, f.arg)  BY <1>1 DEF PrintItem
  <2>2. Typed(f) = <<f.arg>>  BY <1>1 DEF Typed
  <2>3. f.arg = "\t" => s.column < W  BY <1>1
  <2> HIDE DEF W
  <2> QED BY <2>1, <2>2, <2>3, OneTyped, ControlSynced
<1>2. CASE f.conv = "d"
  <2>1. PrintItem(s, f) = Text(s, k_itoa(f.arg))  BY <1>2 DEF PrintItem
  <2>2. Typed(f) = Usual(f.arg)  BY <1>2 DEF Typed, Usual
  <2>3. k_itoa(f.arg) = Usual(f.arg) /\ k_itoa(f.arg) \in Seq(Figures)
    <3>1. PICK n \in Int : n = f.arg /\ (n < 0 => TenDigits(-n)) /\ (n > 0 => TenDigits(n))
      BY <1>2, PrintableNumber
    <3> QED BY <3>1, ItoaSame
  <2> QED BY <2>1, <2>2, <2>3, NumberSynced
<1>3. CASE f.conv = "s"
  <2>1. PrintItem(s, f) = Text(s, f.arg)  BY <1>3 DEF PrintItem
  <2>2. Typed(f) = f.arg  BY <1>3 DEF Typed
  <2>3. Len(f.arg) \in Nat /\ \A i \in 1..Len(f.arg) : f.arg[i] # "\t"
    BY <1>3 DEF Sensible, Orderly
  <2> QED BY <2>1, <2>2, <2>3, TextSynced
<1>4. CASE f.conv = "hex"
  <2>1. PrintItem(s, f) = Text(s, itox(f.arg))  BY <1>4 DEF PrintItem
  <2>2. Typed(f) = <<"0", "x">> \o Hexadecimal(f.arg)  BY <1>4 DEF Typed
  <2>3. f.arg \in Nat  BY <1>4 DEF Sensible
  <2> QED BY <2>1, <2>2, <2>3, HexSame, NumberSynced
<1>5. CASE f.conv = "c"
  <2>1. PrintItem(s, f) = Text(s, <<f.arg>>)  BY <1>5 DEF PrintItem
  <2>2. Typed(f) = <<f.arg>>  BY <1>5 DEF Typed
  <2>3. f.arg # "\t"  BY <1>5 DEF Sensible
  <2>4. PICK str : str = <<f.arg>> /\ Len(str) = 1 /\ str[1] = f.arg
    <3>1. Len(<<f.arg>>) = 1 /\ <<f.arg>>[1] = f.arg  OBVIOUS
    <3> QED BY <3>1
  <2>5. Len(str) \in Nat /\ \A i \in 1..Len(str) : str[i] # "\t"  BY <2>3, <2>4
  <2> QED BY <2>1, <2>2, <2>4, <2>5, TextSynced
<1>6. CASE f.conv = "other"
  <2>1. PrintItem(s, f) = PutCell(s, f.arg)  BY <1>6 DEF PrintItem
  <2>2. Typed(f) = <<f.arg>>  BY <1>6 DEF Typed
  <2>3. TypeControl(t, f.arg) = Type(t, f.arg)
    <3>1. f.arg \notin {"\n", "\r", "\t"}  BY <1>6 DEF Sensible
    <3> QED BY <3>1 DEF TypeControl
  <2>4. s.column < W  BY <1>6
  <2> HIDE DEF W
  <2> QED BY <2>1, <2>2, <2>3, <2>4, OneTyped, PutSynced
<1> QED BY <1>1, <1>2, <1>3, <1>4, <1>5, <1>6 DEF Sensible

\* A whole format (k_print)
LEMMA FormatSynced ==
  ASSUME NEW s, NEW t, NEW format \in Formats, Synced(s, t), Fits(s, format)
  PROVE  Synced(k_print(s, format), TypeFormat(t, format))
<1>1. Len(format) \in Nat /\ \A i \in 1..Len(format) : Sensible(format[i])
  BY ConsoleAssumption
<1>2. PICK v : /\ v[0] = s /\ v = Progress(s, format)
               /\ \A i \in 1..Len(format) : v[i] = PrintItem(v[i-1], format[i])
  BY <1>1, FormatSteps
<1>3. PICK u : /\ u[0] = t /\ TypeFormat(t, format) = u[Len(format)]
               /\ \A i \in 1..Len(format) : u[i] = TypeText(u[i-1], Typed(format[i]))
  BY <1>1, PaperFormatSteps
<1>4. ASSUME NEW i \in 1..Len(format),
             format[i].conv = "other" \/ (format[i].conv = "none" /\ format[i].arg = "\t")
      PROVE  v[i-1].column < W
  <2>1. i \in DOMAIN format  BY ConsoleAssumption
  <2> HIDE DEF W
  <2> QED BY <1>2, <1>4, <2>1 DEF Fits
<1> DEFINE S == {i \in Nat : i <= Len(format) => Synced(v[i], u[i])}
<1>5. 0 \in S  BY <1>2, <1>3
<1>6. ASSUME NEW i \in Nat, i \in S PROVE i + 1 \in S
  <2> SUFFICES ASSUME i + 1 <= Len(format) PROVE Synced(v[i + 1], u[i + 1])  OBVIOUS
  <2>1. Synced(v[i], u[i])  BY <1>1, <1>6
  <2>2. i + 1 \in 1..Len(format) /\ (i + 1) - 1 = i  BY <1>1
  <2>3. PICK f : f = format[i + 1]  OBVIOUS
  <2>4. v[i + 1] = PrintItem(v[i], f) /\ u[i + 1] = TypeText(u[i], Typed(f))
    BY <1>2, <1>3, <2>2, <2>3
  <2>5. Sensible(f)  BY <1>1, <2>2, <2>3
  <2>6. f.conv = "other" \/ (f.conv = "none" /\ f.arg = "\t") => v[i].column < W
    <3> HIDE DEF W
    <3> QED BY <1>4, <2>2, <2>3
  <2>7. Synced(PrintItem(v[i], f), TypeText(u[i], Typed(f)))  BY <2>1, <2>5, <2>6, ItemSynced
  <2> QED BY <2>4, <2>7
<1>7. Len(format) \in S
  <2>1. Nat \subseteq S
    <3> HIDE DEF S
    <3> QED BY <1>5, <1>6, Induction
  <2> QED BY <1>1, <2>1
<1>8. k_print(s, format) = v[Len(format)]  BY <1>2 DEF k_print
<1> QED BY <1>1, <1>3, <1>7, <1>8

\* A console that has just been cleared is in step with new paper.
LEMMA NewPaperSynced ==
  ASSUME NEW s, NEW color, NEW cells,
         DOMAIN s = {"vga", "column", "line", "current_color"},
         s.vga = cells, DOMAIN cells = Cells, s.column = 0, s.line = 0,
         s.current_color = color,
         \A i \in Cells : cells[i] = IF i < W * H THEN Cell(BlankChar, color) ELSE Cell(BlankChar, 0)
  PROVE  Synced(s, NewPaper(color))
<1>0. W \in Nat \ {0} /\ H \in Nat \ {0} /\ W * H \in Nat  BY ScreenSize
<1> DEFINE t == NewPaper(color)
<1>1. /\ DOMAIN t = {"rows", "row", "col", "color"} /\ DOMAIN t.rows = 1..H
      /\ t.row = 1 /\ t.col = 0 /\ t.color = color
      /\ \A y \in 1..H : t.rows[y] = BlankRow(color)
  BY DEF NewPaper
<1> HIDE DEF t, W, H
<1>2. 1 \in 1..H /\ 0 \in 0..W /\ 0 = 1 - 1  BY <1>0
<1>3. Aligned(s, t)  BY <1>1, <1>2 DEF Aligned, BlankRow
<1>4. Alike(s.vga, t.rows)
  <2> SUFFICES ASSUME NEW y \in 0..H-1, NEW x \in 0..W-1
               PROVE  cells[y * W + x] = t.rows[y + 1][x]
    BY DEF Alike
  <2>1. y + 1 \in 1..H  BY <1>0
  <2>2. t.rows[y + 1][x] = Cell(BlankChar, color)  BY <1>1, <2>1 DEF BlankRow
  <2>3. PICK i : i = y * W + x /\ i \in Cells /\ i < W * H
    <3>1. y * W + x \in 0..W*H-1 /\ y * W + x \in Cells  BY Place
    <3>2. PICK i : i = y * W + x  OBVIOUS
    <3>3. i \in 0..W*H-1 /\ i \in Cells  BY <3>1, <3>2
    <3>4. i < W * H  BY <1>0, <3>3
    <3> QED BY <3>2, <3>3, <3>4
  <2> QED BY <2>2, <2>3
<1>5. Clear(s.vga)
  <2> SUFFICES ASSUME NEW i \in W*H..W*H+3 PROVE cells[i] = Cell(BlankChar, 0)  BY DEF Clear
  <2>1. i \in Cells /\ ~(i < W * H)  BY <1>0 DEF Cells
  <2> QED BY <2>1
<1> QED BY <1>3, <1>4, <1>5 DEF Synced, t

\* What is in step shows the paper.
LEMMA SyncedShows ==
  Synced(console, paper) => ScreenShowsPaper
<1> SUFFICES ASSUME Synced(console, paper) PROVE ScreenShowsPaper  OBVIOUS
<1>0. W \in Nat \ {0} /\ H \in Nat \ {0} /\ W * H \in Nat  BY ScreenSize
<1> HIDE DEF W, H
<1>1. ASSUME NEW i \in Cells, i < W * H
      PROVE  console.vga[i] = paper.rows[1 + i \div W][i % W]
  <2>1. i \in Nat  BY <1>0 DEF Cells
  <2>2. i \div W \in 0..H-1 /\ i % W \in 0..W-1 /\ i = (i \div W) * W + (i % W)
    <3>1. W \in Nat \ {0} /\ H \in Int /\ i \in Nat /\ i < W * H  BY <1>0, <1>1, <2>1
    <3> QED BY ONLY <3>1, QuotientBelow, Zenon
  <2>3. PICK y \in 0..H-1, x \in 0..W-1 : y = i \div W /\ x = i % W /\ i = y * W + x
    BY <2>2
  <2>4. y + 1 = 1 + i \div W  BY <1>0, <2>3
  <2> QED BY <2>3, <2>4 DEF Synced, Alike
<1>2. ASSUME NEW i \in Cells, ~(i < W * H) PROVE console.vga[i] = Cell(BlankChar, 0)
  <2>1. i \in W*H..W*H+3  BY <1>0, <1>2 DEF Cells
  <2> QED BY <2>1 DEF Synced, Clear
<1> QED BY <1>1, <1>2 DEF ScreenShowsPaper, Synced, Aligned

\* Over any sequence of prints, colour changes and resets the screen shows what an
\* ideal terminal shows, on a screen of any size (vga.c:33-109, util.c:22-52).
THEOREM ScreenAlwaysShowsPaper == ConsoleSpec => []ScreenShowsPaper
<1>1. ConsoleInit => Synced(console, paper)
  <2> SUFFICES ASSUME ConsoleInit PROVE Synced(console, paper)  OBVIOUS
  <2>1. /\ DOMAIN console = {"vga", "column", "line", "current_color"}
        /\ console.vga = [i \in Cells |-> Cell(BlankChar, 0)]
        /\ console.column = 0 /\ console.line = 0 /\ console.current_color = 0
        /\ paper = NewPaper(0)
    BY DEF ConsoleInit
  <2> QED BY <2>1, NewPaperSynced
<1>2. Synced(console, paper) /\ [ConsoleNext]_consoleVars => Synced(console, paper)'
  <2> SUFFICES ASSUME Synced(console, paper), [ConsoleNext]_consoleVars
               PROVE  Synced(console', paper')
    BY DEF Synced, Aligned, Alike, Clear
  <2>1. CASE PrintFormat
    <3>1. PICK format \in Formats : /\ Fits(console, format)
                                    /\ console' = k_print(console, format)
                                    /\ paper' = TypeFormat(paper, format)
      BY <2>1 DEF PrintFormat
    <3> QED BY <3>1, FormatSynced
  <2>2. CASE k_set_color
    <3>1. PICK c \in Colors : /\ console' = [console EXCEPT !.current_color = c]
                              /\ paper' = [paper EXCEPT !.color = c]
      BY <2>2 DEF k_set_color
    <3>2. /\ DOMAIN console' = DOMAIN console /\ console'.vga = console.vga
          /\ console'.column = console.column /\ console'.line = console.line
          /\ console'.current_color = c
      BY <3>1 DEF Synced, Aligned
    <3>3. /\ DOMAIN paper' = DOMAIN paper /\ paper'.rows = paper.rows
          /\ paper'.row = paper.row /\ paper'.col = paper.col /\ paper'.color = c
      BY <3>1 DEF Synced, Aligned
    <3> QED BY <3>2, <3>3 DEF Synced, Aligned
  <2>3. CASE k_reset
    <3> DEFINE cells == [i \in Cells |-> IF i < W * H THEN Cell(BlankChar, DefColor)
                                                       ELSE console.vga[i]]
    <3>1. console' = [console EXCEPT !.vga = cells, !.column = 0, !.line = 0,
                                     !.current_color = DefColor]
      BY <2>3 DEF k_reset
    <3>2. paper' = NewPaper(DefColor)  BY <2>3 DEF k_reset
    <3>3. /\ DOMAIN console' = {"vga", "column", "line", "current_color"}
          /\ console'.vga = cells /\ console'.column = 0 /\ console'.line = 0
          /\ console'.current_color = DefColor
      <4> HIDE DEF cells
      <4> QED BY <3>1 DEF Synced, Aligned
    <3>4. W * H \in Nat  BY ScreenSize
    <3>5. ASSUME NEW i \in Cells
          PROVE  cells[i] = IF i < W * H THEN Cell(BlankChar, DefColor) ELSE Cell(BlankChar, 0)
      <4> HIDE DEF W, H
      <4>1. ~(i < W * H) => i \in W*H..W*H+3  BY <3>4 DEF Cells
      <4> QED BY <4>1 DEF Synced, Clear
    <3>6. DOMAIN cells = Cells  OBVIOUS
    <3> HIDE DEF cells, W, H
    <3> QED BY <3>2, <3>3, <3>5, <3>6, NewPaperSynced
  <2>4. CASE UNCHANGED consoleVars  BY <2>4 DEF consoleVars
  <2> QED BY <2>1, <2>2, <2>3, <2>4 DEF ConsoleNext
<1>3. Synced(console, paper) => ScreenShowsPaper  BY SyncedShows
<1> QED BY <1>1, <1>2, <1>3, PTL DEF ConsoleSpec

=============================================================================
