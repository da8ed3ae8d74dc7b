-------------------------------- MODULE Clock --------------------------------
(***************************************************************************)
(* GET_TIME: cmos_get_time of drivers/time/cmos.c, port by port, against a *)
(* real-time clock that goes on.  The clock announces an update 244        *)
(* microseconds ahead (UIP, bit 7 of status register A) and its registers  *)
(* are undefined during it.  Processes share the clock and its address     *)
(* port and are preempted anywhere.                                        *)
(***************************************************************************)
EXTENDS Integers, Sequences

CONSTANTS
  Callers,
  Times             \* consecutive readings of the clock: the six fields, in binary

ASSUME ClockAssumption == Times \in Seq([1..6 -> 0..99]) /\ Len(Times) > 0

VARIABLES
  now,              \* index of the present time
  phase,            \* "quiet", "announced" (UIP is set) or "update"
  binary,           \* bit 2 of status register B: binary, else BCD
  address,          \* register selected through port 0x70
  caller,           \* the process that runs
  place,               \* the next cmos_read of each, and its half
  fields,           \* what it has read so far
  began,            \* ghost: index of the time when it called
  disturbed,        \* ghost: preempted since its last test of UIP began
  time              \* what its last call has returned, <<>> during a call

clockVars == <<now, phase, binary, address, caller, place, fields, began, disturbed, time>>

-----------------------------------------------------------------------------
\* The registers, in the order they are read: status A, seconds, minutes,
\* hours, day, month, year, status B.
Registers == <<10, 0, 2, 4, 7, 8, 9, 11>>

ToBcd(n) == 16 * (n \div 10) + (n % 10)
BCD_TO_BIN(v) == (v % 16) + 10 * (v \div 16)

\* What the clock may answer, external: the second reading of a date register
\* during an update is that of the time to come.
Stored(t, i) == IF binary THEN Times[t][i] ELSE ToBcd(Times[t][i])
Answers(r) ==
  CASE r = 10 -> {IF phase = "quiet" THEN 38 ELSE 166}
    [] r = 11 -> {IF binary THEN 6 ELSE 2}
    [] OTHER  -> LET i == CHOOSE i \in 2..7 : Registers[i] = r
                 IN  {Stored(t, i - 1) : t \in IF phase = "update" THEN {now, now + 1} ELSE {now}}

-----------------------------------------------------------------------------
(* cmos_read of the process that runs: the address, then the data.           *)

AtPort(half) == place[caller].half = half
Goes(k, half) == place' = [place EXCEPT ![caller] = [at |-> k, half |-> half]]

Call ==
  /\ AtPort("user")
  /\ Goes(1, "out")
  /\ began' = [began EXCEPT ![caller] = now]
  /\ fields' = [fields EXCEPT ![caller] = <<>>]
  /\ time' = [time EXCEPT ![caller] = <<>>]
  /\ UNCHANGED <<now, phase, binary, address, caller, disturbed>>

Select ==
  /\ AtPort("out")
  /\ address' = Registers[place[caller].at]
  /\ Goes(place[caller].at, "in")
  /\ disturbed' = [disturbed EXCEPT ![caller] = @ /\ place[caller].at # 1]
  /\ UNCHANGED <<now, phase, binary, caller, fields, began, time>>

TestUipNever ==            \* mutant: goes on during an update
  /\ AtPort("in") /\ place[caller].at = 1
  /\ Goes(2, "out")
  /\ UNCHANGED <<now, phase, binary, address, caller, fields, began, disturbed, time>>

\* while (cmos_read(0x0A) & 0x80)
TestUip ==
  /\ AtPort("in") /\ place[caller].at = 1
  /\ \E v \in Answers(address) : Goes(IF v >= 128 THEN 1 ELSE 2, "out")
  /\ UNCHANGED <<now, phase, binary, address, caller, fields, began, disturbed, time>>

\* What a disturbed call reads from here on is left open: it counts as 0.
ReadField ==
  /\ AtPort("in") /\ place[caller].at \in 2..7
  /\ \E v \in IF disturbed[caller] THEN {0} ELSE Answers(address) :
       fields' = [fields EXCEPT ![caller] = Append(@, v)]
  /\ Goes(place[caller].at + 1, "out")
  /\ UNCHANGED <<now, phase, binary, address, caller, began, disturbed, time>>

Convert(v) == [i \in 1..6 |-> IF i = 6 THEN 2000 + v[i] ELSE v[i]]

\* Status register B decides whether the fields are BCD; then the return.
ReadStatusB ==
  /\ AtPort("in") /\ place[caller].at = 8
  /\ \E b \in Answers(address) :
       time' = [time EXCEPT ![caller] =
                  Convert(IF (b \div 4) % 2 = 0
                          THEN [i \in 1..6 |-> BCD_TO_BIN(fields[caller][i])]
                          ELSE fields[caller])]
  /\ Goes(0, "user")
  /\ UNCHANGED <<now, phase, binary, address, caller, fields, began, disturbed>>

-----------------------------------------------------------------------------
\* From the first port of a test of UIP to the end of the call
Reading(c) == place[c].half = "in" \/ (place[c].half = "out" /\ place[c].at > 1)

\* A tick: another process runs.
Preempt ==
  /\ caller' \in Callers \ {caller}
  /\ disturbed' = [disturbed EXCEPT ![caller] = @ \/ Reading(caller)]
  /\ fields' = [fields EXCEPT ![caller] = IF disturbed'[caller] THEN [i \in DOMAIN @ |-> 0] ELSE @]
  /\ UNCHANGED <<now, phase, binary, address, place, began, time>>

Announce ==
  /\ phase = "quiet" /\ now < Len(Times)
  /\ phase' = "announced"
  /\ UNCHANGED <<now, binary, address, caller, place, fields, began, disturbed, time>>

\* 244 microseconds later, long enough for the reads that follow a clear UIP
\* unless the process is preempted.
Update ==
  /\ phase = "announced"
  /\ ~(place[caller].at > 1 /\ ~disturbed[caller])
  /\ phase' = "update"
  /\ UNCHANGED <<now, binary, address, caller, place, fields, began, disturbed, time>>

Updated ==
  /\ phase = "update"
  /\ phase' = "quiet" /\ now' = now + 1
  /\ UNCHANGED <<binary, address, caller, place, fields, began, disturbed, time>>

ClockInit(first, mode) ==
  /\ now = 1 /\ phase = "quiet" /\ binary = mode /\ address = 0
  /\ caller = first
  /\ place = [c \in Callers |-> [at |-> 0, half |-> "user"]]
  /\ fields = [c \in Callers |-> <<>>]
  /\ began = [c \in Callers |-> 1]
  /\ disturbed = [c \in Callers |-> FALSE]
  /\ time = [c \in Callers |-> <<>>]

ClockNext == \/ Call \/ Select \/ TestUip \/ ReadField \/ ReadStatusB
             \/ Preempt \/ Announce \/ Update \/ Updated

ClockSpec == (\E first \in Callers, mode \in BOOLEAN : ClockInit(first, mode))
             /\ [][ClockNext]_clockVars

-----------------------------------------------------------------------------
\* cmos_get_time returns a time that was the clock's at some moment of the
\* call, not one put together from two (cmos.c:18-25), and in binary whatever
\* the clock's format, if no tick came between its last test of UIP and its
\* return.  With one it does not: see the hazards of cmos.c:12 and :18.
TimeWasTrue ==
  \A c \in Callers :
    time[c] # <<>> /\ ~disturbed[c] =>
      \E t \in began[c]..now : time[c] = [i \in 1..6 |-> IF i = 6 THEN 2000 + Times[t][6]
                                                                 ELSE Times[t][i]]
=============================================================================
