------------------------------- MODULE Terminal -------------------------------
(***************************************************************************)
(* From the keyboard to the screen: the loop of user_main handles each key *)
(* that GET_KEY returns before it asks for another (usr/user_main.c:73-98).*)
(* What it does between two system calls touches nothing another process   *)
(* or a handler touches, so that it is one step with the return of GET_KEY.*)
(***************************************************************************)
EXTENDS Keyboard, Shell

CONSTANT scancode_map       \* character of the n-th scancode that arrives

ASSUME TerminalAssumption == scancode_map \in [1..MaxKeys -> Keys]

Char(code) == IF code = None THEN Nul ELSE scancode_map[code]

terminalVars == <<vars, shellVars>>

TerminalInit == Init /\ ShellInit

\* GET_KEY returns, and the shell handles what it got.
KeyToShell == Next /\ got' # got /\ HandleKey(Char(Last(got')))

Elsewhere == Next /\ got' = got /\ UNCHANGED shellVars

TerminalNext == KeyToShell \/ Elsewhere

TerminalSpec == TerminalInit /\ [][TerminalNext]_terminalVars /\ Fairness

-----------------------------------------------------------------------------
\* What a key makes of a line
Typed(line, code) ==
  CASE Char(code) = Newline   -> <<>>
    [] Char(code) = Backspace -> IF line = <<>> THEN line ELSE Front(line)
    [] OTHER -> IF Len(line) < SHELL_MAX_INPUT - 1
                THEN Append(line, Char(code)) ELSE line

\* The line that a user who types these keys means, one key after the other
Meant(codes) ==
  LET line[n \in Nat] == IF n = 0 THEN <<>> ELSE Typed(line[n-1], codes[n])
  IN  line[Len(codes)]

\* The shell never acts on anything but the keys as they were typed: its line is
\* what the first keys make of it, as many as it has read, wherever ticks and
\* further keys have come in between.
LineFollowsTyping == String(input) = Meant(SubSeq(typed, 1, Len(got)))

\* README.md:22 "Interactive shell!": once the user pauses, the row of the cursor
\* shows the prompt and everything typed, and goes on doing so.
TypingShown ==
  LET line == Prompt \o Meant(typed)
  IN  <>[](\A c \in 1..Columns :
             text[cursor_y][c] = IF c <= Len(line) THEN line[c] ELSE Blank)
=============================================================================
