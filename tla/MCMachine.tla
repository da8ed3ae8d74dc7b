------------------------------ MODULE MCMachine ------------------------------
(***************************************************************************)
(* The machine around the kernel in one run: start-up and traps, serial    *)
(* line, clock, frame buffer and console.  These parts share no state, so  *)
(* that their product would only repeat the states of each: a behaviour    *)
(* exercises one of them and leaves the others at their beginning.         *)
(***************************************************************************)
EXTENDS Startup, Serial, Clock, Graphics, Console

CONSTANT Parts      \* the parts a run exercises

VARIABLE part

machineVars == <<part, startVars, serialVars, clockVars, graphicsVars, consoleVars>>

MachineInit ==
  /\ part \in Parts
  /\ \E ts \in IF part = "startup" THEN TagLists ELSE {<<>>} : StartInit(ts)
  /\ SerialInit
  /\ \E mode \in IF part = "clock" THEN BOOLEAN ELSE {TRUE} :
       ClockInit(CHOOSE c \in Callers : TRUE, mode)
  /\ GraphicsInit
  /\ ConsoleInit

Startups == part = "startup" /\ StartNext
            /\ UNCHANGED <<part, serialVars, clockVars, graphicsVars, consoleVars>>
Serials  == part = "serial" /\ SerialNext
            /\ UNCHANGED <<part, startVars, clockVars, graphicsVars, consoleVars>>
Clocks   == part = "clock" /\ ClockNext
            /\ UNCHANGED <<part, startVars, serialVars, graphicsVars, consoleVars>>
Drawings == part = "graphics" /\ GraphicsNext
            /\ UNCHANGED <<part, startVars, serialVars, clockVars, consoleVars>>
Prints   == part = "console" /\ ConsoleNext
            /\ UNCHANGED <<part, startVars, serialVars, clockVars, graphicsVars>>

MachineNext == Startups \/ Serials \/ Clocks \/ Drawings \/ Prints

\* The fairness of start-up; of the other parts only safety is checked.
MachineSpec == MachineInit /\ [][MachineNext]_machineVars /\ StartFairness

-----------------------------------------------------------------------------
\* Tags as a boot loader may pass them: sizes that are no multiples of 8, maps
\* with and without entries, no or several frame buffers, no end tag.
Tag(type, size, entry_size) == [type |-> type, size |-> size, entry_size |-> entry_size]
EndTag == Tag(0, 8, 0)
MCTagLists ==
  { <<EndTag>>,
    <<Tag(6, 64, 24), Tag(1, 3, 0), Tag(8, 38, 0), EndTag>>,
    <<Tag(8, 38, 0), Tag(1, 13, 0), Tag(6, 16, 24), Tag(8, 32, 0), EndTag>>,
    <<Tag(1, 9, 0), Tag(6, 40, 24)>> }

MCTssAddress == Long(33, 33888)

MCWriters == {"kernel", "shell", "blinky"}
MCMessage == [w \in MCWriters |->
                CASE w = "kernel" -> <<48, 120, 7, 15, 10>>
                  [] w = "shell"  -> <<11, 12>>
                  [] w = "blinky" -> <<21>>]

\* The turn of a year, so that every field but the first changes by itself.
MCTimes == << <<58, 59, 23, 31, 12, 26>>, <<59, 59, 23, 31, 12, 26>>,
              <<0, 0, 0, 1, 1, 27>> >>

\* A screen of 12 by 3 pixels and lines of 13; characters of 9 by 2.
MCGlyphs == [c \in {"a", "b"} |-> IF c = "a" THEN {<<0, 0>>, <<3, 1>>, <<8, 0>>}
                                              ELSE {<<7, 0>>, <<8, 1>>}]
Rect(x, y, w, h, color) ==
  [kind |-> "rect", x |-> x, y |-> y, w |-> w, h |-> h, color |-> color]
MCCalls == [p \in {"shell", "blinky"} |->
  IF p = "shell"
  THEN {[kind |-> "string", x |-> 0, y |-> 1, str |-> <<"a", "b">>, color |-> 1, bg |-> 2],
        [kind |-> "clear", x |-> 0, y |-> 0, color |-> 3]}
  ELSE {Rect(10, 0, 4, 1, 4), Rect(11, 2, 1, 3, 5),
        [kind |-> "pixel", x |-> 12, y |-> 0, color |-> 6]}]

Chars(s) == [i \in DOMAIN s |-> [conv |-> "none", arg |-> s[i]]]
Conv(c, x) == <<[conv |-> c, arg |-> x]>>
MCFormats ==
  { Chars(<<"S", "\n">>), Chars(<<"\r", "x">>), Chars(<<"\t">>),
    Conv("d", -120), Conv("d", 0) \o Chars(<<" ">>), Conv("s", <<"a", "\n", "b">>),
    Conv("c", "c") \o Conv("other", "%"), Conv("hex", 48879) }
=============================================================================
