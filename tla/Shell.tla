-------------------------------- MODULE Shell --------------------------------
(***************************************************************************)
(* The shell, usr/user_main.c: the loop that takes a key, edits the input  *)
(* buffer, executes it on newline and redraws the line.  Its keys come     *)
(* from GET_KEY in the order of typing (module Keyboard); the drawing      *)
(* system calls of kernel/anemoia.c are taken at what they do to rows of   *)
(* characters.  No other process writes to the buffer or to these rows     *)
(* (blinky draws above SHELL_Y), so the handling of a key is one step.     *)
(***************************************************************************)
EXTENDS Integers, Sequences, SequencesExt

CONSTANTS
  SHELL_MAX_INPUT,          \* 128: size of the input buffer
  SHELL_Y, CHAR_HEIGHT,     \* 80, 28: first row of text, height of a row
  ScreenHeight,             \* 768
  Columns,                  \* characters from SHELL_X to the right edge
  Prompt,                   \* SHELL_PROMPT, a sequence of characters
  Letters,                  \* characters of keys other than newline, backspace
  Help, Clear, About        \* command names, sequences of letters

ASSUME ShellAssumption ==
  /\ SHELL_MAX_INPUT \in Nat /\ SHELL_MAX_INPUT > 1
  /\ SHELL_Y \in Nat /\ CHAR_HEIGHT \in Nat \ {0}
  /\ ScreenHeight \in Nat /\ SHELL_Y + CHAR_HEIGHT <= ScreenHeight
  /\ Columns \in Nat \ {0}
  /\ Prompt \in Seq(STRING)
  /\ "nul" \notin Letters      \* keyboard_handler drops keys that map to 0

VARIABLES
  input, input_len,
  cursor_y,
  text,              \* what the rows of the screen show
  executed           \* string shell_execute was called with last

shellVars == <<input, input_len, cursor_y, text, executed>>

-----------------------------------------------------------------------------
Nul == "nul"             \* the character 0
Blank == "blank"         \* background colour
Newline == "newline"
Backspace == "backspace"

\* Rows of text, by the y at which they are drawn; the last may be cut off.
Rows == {y \in SHELL_Y..ScreenHeight-1 : (y - SHELL_Y) % CHAR_HEIGHT = 0}

BlankRow == [c \in 1..Columns |-> Blank]

\* The C string in a buffer
String(buf) ==
  LET n == CHOOSE k \in 0..SHELL_MAX_INPUT-1 :
             buf[k] = Nul /\ \A j \in 0..k-1 : buf[j] # Nul
  IN  [i \in 1..n |-> buf[i-1]]

-----------------------------------------------------------------------------
(* Drawing.  A display d is a row position d.y and the contents d.text.      *)

\* fb_draw_string: characters past the right edge are clipped, what was drawn
\* elsewhere in the row stays.
draw_string(row, x, str) ==
  [c \in 1..Columns |-> IF c - x \in 1..Len(str) THEN str[c - x] ELSE row[c]]

clear_screen(d) == [d EXCEPT !.text = [y \in Rows |-> BlankRow]]

shell_redraw_line(d, buf) ==
  [d EXCEPT !.text[d.y] =
     draw_string(draw_string(BlankRow, 0, Prompt), Len(Prompt), String(buf))]

shell_newline_keep(d) ==            \* mutant: wraps without clearing
  IF d.y + CHAR_HEIGHT > ScreenHeight - CHAR_HEIGHT
  THEN [d EXCEPT !.y = SHELL_Y]
  ELSE [d EXCEPT !.y = @ + CHAR_HEIGHT]

shell_newline(d) ==
  IF d.y + CHAR_HEIGHT > ScreenHeight - CHAR_HEIGHT
  THEN [clear_screen(d) EXCEPT !.y = SHELL_Y]
  ELSE [d EXCEPT !.y = @ + CHAR_HEIGHT]

shell_print(d, str) ==
  shell_newline([d EXCEPT !.text[d.y] = draw_string(@, 0, str)])

shell_execute(d, cmd) ==
  CASE cmd = <<>>  -> d
    [] cmd = Help  -> shell_print(d, <<"Commands:">>)
    [] cmd = Clear -> [clear_screen(d) EXCEPT !.y = SHELL_Y]
    [] cmd = About -> shell_print(shell_print(d, <<"PanacheOS!">>), <<"Kernel:">>)
    [] OTHER       -> shell_print(d, <<"Unknown">>)

-----------------------------------------------------------------------------
(* The loop of user_main                                                     *)

Display == [y |-> cursor_y, text |-> text]
Show(d) == cursor_y' = d.y /\ text' = d.text

\* Static storage and the first screen: user_main clears it and draws the
\* prompt (and a heading above SHELL_Y).
ShellInit ==
  /\ input = [i \in 0..SHELL_MAX_INPUT-1 |-> Nul]
  /\ input_len = 0
  /\ cursor_y = SHELL_Y
  /\ text = shell_redraw_line([y |-> SHELL_Y, text |-> [y \in Rows |-> BlankRow]],
                              input).text
  /\ executed = <<>>

KeyNewline ==
  LET done  == [input EXCEPT ![input_len] = Nul]
      fresh == [done EXCEPT ![0] = Nul]
      ran   == shell_execute(shell_newline(Display), String(done))
  IN  /\ input' = fresh
      /\ input_len' = 0
      /\ executed' = String(done)
      /\ Show(shell_redraw_line(shell_newline(ran), fresh))

KeyBackspaceLength ==        \* mutant: the character stays in the buffer
  /\ input_len > 0
  /\ input_len' = input_len - 1
  /\ UNCHANGED <<input, cursor_y, text, executed>>

KeyBackspace ==
  /\ input_len > 0
  /\ input_len' = input_len - 1
  /\ input' = [input EXCEPT ![input_len'] = Nul]
  /\ Show(shell_redraw_line(Display, input'))
  /\ UNCHANGED executed

KeyChar(c) ==
  /\ input_len < SHELL_MAX_INPUT - 1
  /\ input_len' = input_len + 1
  /\ input' = [input EXCEPT ![input_len] = c, ![input_len'] = Nul]
  /\ Show(shell_redraw_line(Display, input'))
  /\ UNCHANGED executed

\* One round of the loop; a full line or an empty one ignores some keys.
HandleKey(c) ==
  \/ c = Newline /\ KeyNewline
  \/ c = Backspace /\ KeyBackspace
  \/ c = Backspace /\ input_len = 0 /\ UNCHANGED shellVars
  \/ c \notin {Newline, Backspace} /\ KeyChar(c)
  \/ /\ c \notin {Newline, Backspace} /\ input_len = SHELL_MAX_INPUT - 1
     /\ UNCHANGED shellVars

Keys == Letters \cup {Newline, Backspace}

ShellNext == \E c \in Keys : HandleKey(c)

ShellSpec == ShellInit /\ [][ShellNext]_shellVars

-----------------------------------------------------------------------------
(* Properties *)

\* The buffer has room for the terminator, and the row of the cursor is
\* entirely on the screen.
ShellTypeOK ==
  /\ input \in [0..SHELL_MAX_INPUT-1 -> Letters \cup {Nul}]
  /\ input_len \in 0..SHELL_MAX_INPUT-1
  /\ cursor_y \in Rows /\ cursor_y + CHAR_HEIGHT <= ScreenHeight
  /\ DOMAIN text = Rows

LineShown ==
  \A c \in 1..Columns :
    text[cursor_y][c] = LET line == Prompt \o String(input)
                        IN  IF c <= Len(line) THEN line[c] ELSE Blank

BlankBelow == \A y \in Rows : y > cursor_y => text[y] = BlankRow

\* The user sees what will be executed: between keys the row of the cursor
\* shows the prompt and the string in the buffer up to the right edge, and no
\* remains of longer lines, commands or output (user_main.c:24-45); the rows
\* below are blank, after a wrap at the bottom and after clear too, so that
\* output is never drawn over older text.
ScreenShown == ShellTypeOK /\ LineShown /\ BlankBelow

\* The buffer, its length and its terminator implement a line editor for lines
\* of up to SHELL_MAX_INPUT - 1 characters.
LE == INSTANCE LineEditor WITH
        Limit <- SHELL_MAX_INPUT - 1, line <- String(input), submitted <- executed

ImplementsLineEditor == LE!Spec
=============================================================================
